--------------------------- MODULE ResponseCache ---------------------------
(***************************************************************************)
(* The bounded TTL cache of tonin-proxy and tonin-client: a DashMap whose  *)
(* get and insert are each two map operations with nothing held between    *)
(* them.  get looks the entry up and, unless it is there and unexpired,    *)
(* removes whatever the key maps to by then; insert reads len() and, below *)
(* the capacity, writes the entry.                                         *)
(***************************************************************************)
EXTENDS Naturals, FiniteSets

CONSTANTS Thread,    \* threads using the cache
          Key,
          Value,
          TTL,       \* ttl, in clock ticks
          Capacity,  \* capacity
          MaxClock,  \* bound on the clock
          NoEntry

ASSUME CacheAssumption ==
    /\ TTL \in Nat /\ Capacity \in Nat \ {0} /\ MaxClock \in Nat
    /\ IsFiniteSet(Thread) /\ IsFiniteSet(Key)
    /\ NoEntry \notin [value : Value, expiresAt : Nat]

VARIABLES clock,  \* the monotonic clock
          map,    \* map[k]: the entry of k, or NoEntry
          step,   \* step[c]: what c does next
          arg     \* arg[c]: the key of c's operation

cacheVars == <<clock, map, step, arg>>

Entry == [value : Value, expiresAt : Nat]

CacheTypeOK ==
    /\ clock \in 0 .. MaxClock
    /\ map \in [Key -> Entry \cup {NoEntry}]
    /\ step \in [Thread -> {"idle", "remove", "put"}]
    /\ arg \in [Thread -> Key]

CacheInit ==
    /\ clock = 0
    /\ map = [k \in Key |-> NoEntry]
    /\ step = [c \in Thread |-> "idle"]
    /\ arg \in [Thread -> Key]

Stored == {k \in Key : map[k] # NoEntry}
Writers == {c \in Thread : step[c] = "put"}

Fresh(k) == map[k] # NoEntry /\ map[k].expiresAt > clock

(* get of an unexpired entry: its value is returned. *)
Hit(c, k) ==
    /\ step[c] = "idle"
    /\ Fresh(k)
    /\ UNCHANGED cacheVars

(* get of an absent or expired entry, first half: go on to remove. *)
Miss(c, k) ==
    /\ step[c] = "idle"
    /\ ~Fresh(k)
    /\ arg' = [arg EXCEPT ![c] = k]
    /\ step' = [step EXCEPT ![c] = "remove"]
    /\ UNCHANGED <<clock, map>>

(* Second half of that get: remove by key, whatever is there now. *)
Remove(c) ==
    /\ step[c] = "remove"
    /\ map' = [map EXCEPT ![arg[c]] = NoEntry]
    /\ step' = [step EXCEPT ![c] = "idle"]
    /\ UNCHANGED <<clock, arg>>

(* Mutant: off by one at the capacity. *)
MutantCheckLenOffByOne(c, k) ==
    /\ step[c] = "idle"
    /\ Cardinality(Stored) <= Capacity
    /\ arg' = [arg EXCEPT ![c] = k]
    /\ step' = [step EXCEPT ![c] = "put"]
    /\ UNCHANGED <<clock, map>>

(* insert, first half: at capacity insert is over, even for a key already  *)
(* present; below it, go on to write.                                      *)
CheckLen(c, k) ==
    /\ step[c] = "idle"
    /\ Cardinality(Stored) < Capacity
    /\ arg' = [arg EXCEPT ![c] = k]
    /\ step' = [step EXCEPT ![c] = "put"]
    /\ UNCHANGED <<clock, map>>

(* insert, second half. *)
Put(c, v) ==
    /\ step[c] = "put"
    /\ map' = [map EXCEPT ![arg[c]] = [value |-> v, expiresAt |-> clock + TTL]]
    /\ step' = [step EXCEPT ![c] = "idle"]
    /\ UNCHANGED <<clock, arg>>

ClockTick ==
    /\ clock < MaxClock
    /\ clock' = clock + 1
    /\ UNCHANGED <<map, step, arg>>

CacheNext ==
    \/ \E c \in Thread, k \in Key : Hit(c, k) \/ Miss(c, k) \/ CheckLen(c, k)
    \/ \E c \in Thread : Remove(c)
    \/ \E c \in Thread, v \in Value : Put(c, v)
    \/ ClockTick

CacheSpec == CacheInit /\ [][CacheNext]_cacheVars

-----------------------------------------------------------------------------
(* The length check and the write are separate, so concurrent inserts can  *)
(* pass the cap together; they overshoot it by at most one entry for each  *)
(* further thread inserting at the time, whatever the interleaving.        *)
OvershootBounded ==
    Cardinality(Stored) <= Capacity + Cardinality(Thread) - 1

(* OvershootBounded with the room that pending writes have claimed. *)
RoomClaimed ==
    Cardinality(Stored) + Cardinality(Writers) <= Capacity + Cardinality(Thread) - 1

(* The inductive invariant: the types and the claimed room of insert       *)
(* (cache.rs:55-66).                                                       *)
CacheIInv == CacheTypeOK /\ RoomClaimed
=============================================================================
