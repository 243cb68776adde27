CONSTANTS
    Task = {t1, t2}
    Key = {k1, k2}
    Flight = {f1, f2, f3}
    Code = {5, 14}
    Retries = {1}
    Capacity = 1
    None = None
    Rpc = {t1, t2}
    ClientFlight = {f1, f2, f3}
    ClientTTL = 1
    Delay = 1
    LastTick = 4
    Nothing = Nothing
    Request = {t1, t2}
    SigningKey = {s1}
    NoKid = NoKid
    NoToken = NoToken
    Health = Health
    Never = Never
    KeyTTL = 1
    FetchTimeout = 1
    LastTime = 4
    MintCaller = {t1, t2}
    Lifetime = {3}
    Unhinted = Unhinted
    DefaultLife = 6
    Margin = 2
    MintTimeout = 1
    NoCtx = NoCtx
    LastMint = 5
SPECIFICATION MCSpec
SYMMETRY MCSymmetry
INVARIANTS AnswersBelong RepliesFresh WithdrawnForgotten ReusedTokenAlive
