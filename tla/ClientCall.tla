----------------------------- MODULE ClientCall ------------------------------
(***************************************************************************)
(* CoalescingClient::call of tonin-client, for the calls of one key: the   *)
(* TTL cache, then the flight of the key, then the cache again, which      *)
(* every caller of the flight fills for itself.  Calls of other keys use   *)
(* other entries of the same maps.                                         *)
(*                                                                         *)
(* The cache has room here (its cap is in ResponseCache), and get is one   *)
(* step: what its late remove can take away is a miss more.  Every call of *)
(* the method has one response type; with two, get_or_create_sf panics.    *)
(***************************************************************************)
EXTENDS Naturals

CONSTANTS Rpc,           \* calls
          ClientFlight,  \* identities of flights
          ClientTTL,     \* CacheConfig.ttl
          Delay,         \* how long a task that can go on may wait for a thread
          LastTick,      \* bound on the clock
          Nothing

ASSUME ClientAssumption ==
    /\ {ClientTTL, Delay, LastTick} \subseteq Nat
    /\ Nothing \notin ClientFlight \cup [ok : BOOLEAN, made : Nat, left : BOOLEAN]
    /\ Nothing \notin [left : BOOLEAN,
                      result : [ok : BOOLEAN, made : Nat, left : BOOLEAN] \cup {Nothing},
                      resolved : Nat \cup {Nothing}]

VARIABLES ticks,      \* Instant::now
          coalesce,   \* CoalescingClient.coalesce
          caching,    \* cache_configs has the method
          inMap,   \* the key's flight in in_flight, or Nothing
          flight,     \* flight[f], or Nothing
          recent,     \* the key's entry of the cache, or Nothing
          place,      \* place[c]: where call c is
          began,      \* began[c]: when it was made
          joined,     \* joined[c]: its flight, or Nothing
          result       \* result[c]: what it has got, or Nothing

settings == <<coalesce, caching>>
clientVars ==
    <<ticks, settings, inMap, flight, recent, place, began, joined, result>>

(* What upstream made of the request, and when; `left` if all callers of   *)
(* the flight were gone in between and nobody polled it.                   *)
Made == [ok : BOOLEAN, made : Nat, left : BOOLEAN]

FlightState ==
    [left : BOOLEAN, result : Made \cup {Nothing}, resolved : Nat \cup {Nothing}]

Places == {"idle", "flight", "wait", "done"}

ClientTypeOK ==
    /\ ticks \in Nat /\ {coalesce, caching} \subseteq BOOLEAN
    /\ inMap \in ClientFlight \cup {Nothing}
    /\ flight \in [ClientFlight -> FlightState \cup {Nothing}]
    /\ recent \in [result : Made, until : Nat] \cup {Nothing}
    /\ place \in [Rpc -> Places]
    /\ began \in [Rpc -> Nat]
    /\ joined \in [Rpc -> ClientFlight \cup {Nothing}]
    /\ result \in [Rpc -> Made \cup {Nothing}]

ClientInit ==
    /\ ticks = 0
    /\ coalesce \in BOOLEAN /\ caching \in BOOLEAN
    /\ inMap = Nothing
    /\ flight = [f \in ClientFlight |-> Nothing]
    /\ recent = Nothing
    /\ place = [c \in Rpc |-> "idle"]
    /\ began = [c \in Rpc |-> 0]
    /\ joined = [c \in Rpc |-> Nothing]
    /\ result = [c \in Rpc |-> Nothing]

Waiting(f) == {c \in Rpc : joined[c] = f}

(* A task that can go on does so within Delay: one that waits for a flight *)
(* with an answer polls it, and one with a result inserts it.              *)
Urgent ==
    \E f \in ClientFlight : flight[f] # Nothing /\ Waiting(f) # {} /\
        LET s == flight[f]
        IN  IF s.resolved # Nothing THEN ticks >= s.resolved + Delay
            ELSE s.result # Nothing /\ ~s.left /\ ticks >= s.result.made + Delay

ClientTick ==
    /\ ticks < LastTick /\ ~Urgent
    /\ ticks' = ticks + 1
    /\ UNCHANGED <<settings, inMap, flight, recent, place, began, joined, result>>

-----------------------------------------------------------------------------
AnsweredRecently == recent # Nothing /\ recent.until > ticks

(* The lookup: a hit ends the call, an expired entry is removed.           *)
LookUp(c) ==
    /\ place[c] = "idle"
    /\ began' = [began EXCEPT ![c] = ticks]
    /\ IF AnsweredRecently
         THEN /\ result' = [result EXCEPT ![c] = recent.result]
              /\ place' = [place EXCEPT ![c] = "done"]
              /\ UNCHANGED recent
         ELSE /\ place' = [place EXCEPT ![c] = "flight"]
              /\ recent' = Nothing
              /\ UNCHANGED result
    /\ UNCHANGED <<ticks, settings, inMap, flight, joined>>

(* Singleflight::run joins the flight of the key, or makes one; without    *)
(* coalescing the call is upstream's alone.                                *)
JoinFlight(c, f) ==
    /\ place[c] = "flight"
    /\ IF coalesce /\ inMap # Nothing
         THEN f = inMap /\ UNCHANGED <<inMap, flight>>
         ELSE /\ flight[f] = Nothing
              /\ flight' = [flight EXCEPT ![f] =
                     [left |-> FALSE, result |-> Nothing, resolved |-> Nothing]]
              /\ inMap' = IF coalesce THEN f ELSE inMap
    /\ joined' = [joined EXCEPT ![c] = f]
    /\ place' = [place EXCEPT ![c] = "wait"]
    /\ UNCHANGED <<ticks, settings, recent, began, result>>

(* Upstream answers; nothing of the client runs until somebody polls.      *)
Upstream(f, ok) ==
    /\ flight[f] # Nothing /\ flight[f].result = Nothing
    /\ flight' = [flight EXCEPT ![f].result = [ok |-> ok, made |-> ticks, left |-> FALSE],
                                ![f].left = Waiting(f) = {}]
    /\ UNCHANGED <<ticks, settings, inMap, recent, place, began, joined, result>>

(* Mutant: the entry of the flight is left to the caller that made it.     *)
MutantResolveFlight(f) ==
    /\ flight[f] # Nothing /\ flight[f].result # Nothing /\ flight[f].resolved = Nothing
    /\ Waiting(f) # {}
    /\ flight' = [flight EXCEPT ![f].resolved = ticks, ![f].result.left = flight[f].left]
    /\ UNCHANGED <<ticks, settings, inMap, recent, place, began, joined, result>>

(* A caller polls the shared future: the answer is there, the entry of the *)
(* map is removed, and all callers are woken.                              *)
ResolveFlight(f) ==
    /\ flight[f] # Nothing /\ flight[f].result # Nothing /\ flight[f].resolved = Nothing
    /\ Waiting(f) # {}
    /\ flight' = [flight EXCEPT ![f].resolved = ticks, ![f].result.left = flight[f].left]
    /\ inMap' = IF inMap = f THEN Nothing ELSE inMap
    /\ UNCHANGED <<ticks, settings, recent, place, began, joined, result>>

(* The flight and its future are gone when the last caller is done and the *)
(* map has no entry of it.                                                 *)
LeaveFlight(c) ==
    LET f == joined[c]
    IN  /\ joined' = [joined EXCEPT ![c] = Nothing]
        /\ flight' = IF f = Nothing \/ Waiting(f) # {c} THEN flight
                     ELSE IF inMap # f THEN [flight EXCEPT ![f] = Nothing]
                     ELSE [flight EXCEPT ![f].left = TRUE]

(* A caller is given the result and inserts an Ok one, if the method has a *)
(* cache, for a whole TTL from now, over whatever the cache has by now.    *)
TakeResult(c) ==
    /\ place[c] = "wait" /\ flight[joined[c]].resolved # Nothing
    /\ LET r == flight[joined[c]].result
       IN  /\ result' = [result EXCEPT ![c] = r]
           /\ recent' = IF caching /\ r.ok
                          THEN [result |-> r, until |-> ticks + ClientTTL]
                          ELSE recent
    /\ place' = [place EXCEPT ![c] = "done"]
    /\ LeaveFlight(c)
    /\ UNCHANGED <<ticks, settings, inMap, began>>

(* The caller's future is dropped, or it has its result; c stands for      *)
(* another call then.                                                      *)
Drop(c) ==
    /\ place[c] # "idle"
    /\ place' = [place EXCEPT ![c] = "idle"]
    /\ result' = [result EXCEPT ![c] = Nothing]
    /\ began' = [began EXCEPT ![c] = 0]
    /\ LeaveFlight(c)
    /\ UNCHANGED <<ticks, settings, inMap, recent>>

ClientNext ==
    \/ ClientTick
    \/ \E c \in Rpc :
          \/ LookUp(c) \/ TakeResult(c) \/ Drop(c)
          \/ \E f \in ClientFlight : JoinFlight(c, f)
    \/ \E f \in ClientFlight : ResolveFlight(f) \/ \E ok \in BOOLEAN : Upstream(f, ok)

ClientSpec == ClientInit /\ [][ClientNext]_clientVars

-----------------------------------------------------------------------------
(* "Only Ok responses are cached", "Errors are shared within a flight but  *)
(* never stored" (client.rs:7, coalesce.rs:5): a caller gets an answer that *)
(* upstream made while it waited or just before; one from the cache is Ok  *)
(* and at most a TTL older.  It can be older still only if every caller of *)
(* its flight was dropped meanwhile: the flight stays in the map, and the  *)
(* next caller takes up what was made for them.                            *)
RepliesFresh ==
    \A c \in Rpc : result[c] # Nothing /\ ~result[c].left =>
        began[c] <= result[c].made + Delay + IF result[c].ok THEN Delay + ClientTTL ELSE 0

(* The inductive invariant: a flight that no map and no caller holds is    *)
(* gone; one whose answer is not yet taken up, or not yet handed out, has  *)
(* a caller that is about to do so, unless it was left; a caller joined    *)
(* before its flight was resolved; and the cache ends a TTL after that.    *)
FlightHeld(f) ==
    LET s == flight[f]
    IN  /\ inMap # f => Waiting(f) # {}
        /\ inMap = f => coalesce /\ s.resolved = Nothing
        /\ s.result = Nothing => s.resolved = Nothing
        /\ s.result # Nothing /\ ~s.left => Waiting(f) # {}
        /\ s.result # Nothing /\ ~s.left /\ s.resolved = Nothing => ticks <= s.result.made + Delay
        /\ s.resolved # Nothing =>
             /\ s.left = s.result.left
             /\ ~s.left => ticks <= s.resolved + Delay /\ s.resolved <= s.result.made + Delay

CallHeld(c) ==
    /\ began[c] <= ticks
    /\ place[c] = "wait" <=> joined[c] # Nothing
    /\ result[c] # Nothing => place[c] = "done"
    /\ joined[c] # Nothing =>
         /\ flight[joined[c]] # Nothing
         /\ flight[joined[c]].resolved # Nothing => began[c] <= flight[joined[c]].resolved

ClientIInv ==
    /\ ClientTypeOK
    /\ inMap # Nothing => flight[inMap] # Nothing
    /\ \A f \in ClientFlight : flight[f] # Nothing => FlightHeld(f)
    /\ \A c \in Rpc : CallHeld(c)
    /\ recent # Nothing =>
         /\ recent.result.ok
         /\ ~recent.result.left => recent.until <= recent.result.made + Delay + Delay + ClientTTL
    /\ RepliesFresh
=============================================================================
