---------------------------- MODULE ProxyHandle ----------------------------
(***************************************************************************)
(* The request path of tonin-proxy: handle() of proxy.rs with the parts it *)
(* composes - response cache, circuit breaker, singleflight, with_retry,   *)
(* the pool's send_request - shared by the tasks of all connections.       *)
(*                                                                         *)
(* A task can be preempted between any two accesses to shared state, and   *)
(* dropped (client reset) at its await.  Clocks are abstracted: an entry   *)
(* may expire, and an open breaker become half-open, at any time.  The     *)
(* breaker's counting is CircuitBreaker's subject; here any recorded       *)
(* outcome may be the one that trips it, which it does once at most.       *)
(***************************************************************************)
EXTENDS Naturals, FiniteSets

CONSTANTS Task,      \* request-handling tasks, one request at a time
          Key,       \* make_key(path, body) values; all on one path
          Flight,    \* identities of Shared futures
          Code,      \* non-zero grpc-status codes the upstream path can yield
          Retries,   \* the values TONIN_PROXY_RETRY_MAX may have
          Capacity,  \* cache_capacity; 0 disables the cache
          None

(* status.rs *)
UNKNOWN == 2
DEADLINE_EXCEEDED == 4
INTERNAL == 13
UNAVAILABLE == 14
DATA_LOSS == 15

IsRetryable(r) == r \in {UNAVAILABLE, DEADLINE_EXCEEDED}
IsUpstreamFault(r) ==
    r \in {UNKNOWN, DEADLINE_EXCEEDED, INTERNAL, UNAVAILABLE, DATA_LOSS}

ASSUME ProxyAssumption ==
    /\ Code \subseteq 1 .. 16
    /\ Retries \subseteq Nat /\ Capacity \in Nat
    /\ Key \cap (1 .. 16) = {} /\ None \notin Key \cup Flight \cup (1 .. 16)

(* An Ok answer to a request for k is represented by k itself. *)
Outcome == Key \cup 1 .. 16
Answers(k) == {k} \cup Code

VARIABLES retryMax,  \* retry_max, read at the start
          pc,        \* pc[t]: where task t is in handle
          request,   \* request[t]: the key of t's request
          reply,     \* reply[t]: the reply handle has settled on, or None
          cache,     \* cache[k]: the cached body and whether it is fresh
          breaker,   \* state of the path's breaker
          inFlight, key, handle,  \* singleflight: map, key of each flight, awaited flight
          phase,     \* phase[f]: where the flight's future is
          answer,    \* answer[f]: what its last ended attempt was answered, or None
          attempts,  \* attempts[f]: attempts its with_retry loop has started
          got        \* got[t]: what coalesce.run returned to t, or None

taskVars == <<pc, request, reply>>
flightVars == <<retryMax, inFlight, key, phase, answer, attempts>>
vars == <<taskVars, cache, breaker, flightVars, handle, got>>

Outputless == {"created", "sent", "backoff", "panicked"}

TypeOK ==
    /\ retryMax \in Retries
    /\ pc \in [Task -> {"idle", "lookup", "remove", "check", "coalesce", "await",
                        "asleep", "record", "len", "put", "done"}]
    /\ request \in [Task -> Key \cup {None}]
    /\ reply \in [Task -> Outcome \cup {None}]
    /\ cache \in [Key -> [out : Key, fresh : BOOLEAN] \cup {None}]
    /\ breaker \in {"Closed", "Open", "HalfOpen"}
    /\ inFlight \in [Key -> Flight \cup {None}]
    /\ key \in [Flight -> Key \cup {None}]
    /\ phase \in [Flight -> {"idle", "ready"} \cup Outputless]
    /\ answer \in [Flight -> Outcome \cup {None}]
    /\ attempts \in [Flight -> 0 .. retryMax]
    /\ handle \in [Task -> Flight \cup {None}]
    /\ got \in [Task -> Outcome \cup {None}]

Init ==
    /\ retryMax \in Retries
    /\ pc = [t \in Task |-> "idle"]
    /\ request = [t \in Task |-> None]
    /\ reply = [t \in Task |-> None]
    /\ cache = [k \in Key |-> None]
    /\ breaker = "Closed"
    /\ inFlight = [k \in Key |-> None]
    /\ key = [f \in Flight |-> None]
    /\ phase = [f \in Flight |-> "idle"]
    /\ answer = [f \in Flight |-> None]
    /\ attempts = [f \in Flight |-> 0]
    /\ handle = [t \in Task |-> None]
    /\ got = [t \in Task |-> None]

Goto(t, next) == pc' = [pc EXCEPT ![t] = next]

(* handle settles on a reply. *)
ReplyWith(t, r) ==
    /\ Goto(t, "done")
    /\ reply' = [reply EXCEPT ![t] = r]

CacheEnabled == Capacity > 0
Stored == {k \in Key : cache[k] # None}
Holders(f) == {t \in Task : handle[t] = f}
Sleepers == {t \in Task : pc[t] = "asleep"}
Free(f) == Holders(f) = {} /\ \A k \in Key : inFlight[k] # f

-----------------------------------------------------------------------------
(* The request's body is read and its key made, or reading it fails. *)
Receive(t, k) ==
    /\ pc[t] = "idle"
    /\ request' = [request EXCEPT ![t] = k]
    /\ Goto(t, IF CacheEnabled THEN "lookup" ELSE "check")
    /\ UNCHANGED <<reply, cache, breaker, flightVars, handle, got>>

BodyFails(t) ==
    /\ pc[t] = "idle"
    /\ ReplyWith(t, UNKNOWN)
    /\ UNCHANGED <<request, cache, breaker, flightVars, handle, got>>

(* cache.get: a fresh entry is the reply; otherwise remove what is there. *)
CacheHit(t) ==
    /\ pc[t] = "lookup"
    /\ cache[request[t]] # None
    /\ cache[request[t]].fresh
    /\ ReplyWith(t, cache[request[t]].out)
    /\ UNCHANGED <<request, cache, breaker, flightVars, handle, got>>

CacheMiss(t) ==
    /\ pc[t] = "lookup"
    /\ cache[request[t]] # None => ~cache[request[t]].fresh
    /\ Goto(t, "remove")
    /\ UNCHANGED <<request, reply, cache, breaker, flightVars, handle, got>>

CacheRemove(t) ==
    /\ pc[t] = "remove"
    /\ cache' = [cache EXCEPT ![request[t]] = None]
    /\ Goto(t, "check")
    /\ UNCHANGED <<request, reply, breaker, flightVars, handle, got>>

(* breaker.check *)
BreakerRejects(t) ==
    /\ pc[t] = "check"
    /\ breaker = "Open"
    /\ ReplyWith(t, UNAVAILABLE)
    /\ UNCHANGED <<request, cache, breaker, flightVars, handle, got>>

BreakerPasses(t) ==
    /\ pc[t] = "check"
    /\ breaker # "Open"
    /\ Goto(t, "coalesce")
    /\ UNCHANGED <<request, reply, cache, breaker, flightVars, handle, got>>

(* breaker.record: the outcome may trip a breaker that never tripped. *)
Record == breaker' \in {breaker} \cup (IF breaker = "Closed" THEN {"Open"} ELSE {})

-----------------------------------------------------------------------------
(* coalesce.run: register a flight of one's own, or clone the handle.      *)
Drive(t, f) ==
    /\ pc[t] = "coalesce"
    /\ inFlight[request[t]] = None
    /\ Free(f)
    /\ inFlight' = [inFlight EXCEPT ![request[t]] = f]
    /\ key' = [key EXCEPT ![f] = request[t]]
    /\ phase' = [phase EXCEPT ![f] = "created"]
    /\ answer' = [answer EXCEPT ![f] = None]
    /\ handle' = [handle EXCEPT ![t] = f]
    /\ Goto(t, "await")
    /\ UNCHANGED <<retryMax, attempts, request, reply, cache, breaker, got>>

(* Mutant: the body is left out of the key. *)
MutantJoinAnyKey(t) ==
    /\ pc[t] = "coalesce"
    /\ \E k \in Key :
          /\ inFlight[k] # None
          /\ handle' = [handle EXCEPT ![t] = inFlight[k]]
    /\ Goto(t, "await")
    /\ UNCHANGED <<request, reply, cache, breaker, flightVars, got>>

Join(t) ==
    /\ pc[t] = "coalesce"
    /\ inFlight[request[t]] # None
    /\ handle' = [handle EXCEPT ![t] = inFlight[request[t]]]
    /\ Goto(t, "await")
    /\ UNCHANGED <<request, reply, cache, breaker, flightVars, got>>

(* with_retry polled by a holder: the next attempt calls send_request at   *)
(* once, or after the backoff sleep.                                       *)
Attempt(f) ==
    /\ Holders(f) # {}
    /\ phase[f] \in {"created", "backoff"}
    /\ attempts[f] < retryMax
    /\ attempts' = [attempts EXCEPT ![f] = @ + 1]
    /\ phase' = [phase EXCEPT ![f] = "sent"]
    /\ answer' = [answer EXCEPT ![f] = None]
    /\ UNCHANGED <<retryMax, inFlight, key, taskVars, cache, breaker, handle, got>>

(* The loop is exhausted without a return - with retry_max = 0 it is so at *)
(* once: unreachable!() panics in the poll of one holder.  Shared wakes    *)
(* nobody then: the holders that polled it meanwhile sleep until their     *)
(* clients go, the others panic as well when they poll it.                 *)
RetryPanics(f) ==
    /\ phase[f] \in {"created", "backoff"}
    /\ attempts[f] = retryMax
    /\ phase' = [phase EXCEPT ![f] = "panicked"]
    /\ \E others \in SUBSET Holders(f) :
          /\ others # Holders(f)
          /\ pc' = [t \in Task |-> IF t \in others THEN "asleep" ELSE pc[t]]
    /\ UNCHANGED <<retryMax, inFlight, key, answer, attempts, request, reply, cache,
                   breaker, handle, got>>

(* send_request ends: an Ok body, the upstream's grpc-status, or a code    *)
(* for a connect, transport, HTTP or trailer failure.                      *)
Answer(f, r) ==
    /\ phase[f] = "sent"
    /\ answer[f] = None
    /\ r \in Answers(key[f])
    /\ answer' = [answer EXCEPT ![f] = r]
    /\ UNCHANGED <<retryMax, inFlight, key, phase, attempts, taskVars, cache, breaker, handle, got>>

MayRetry(f) == phase[f] # "ready" /\ IsRetryable(answer[f]) /\ attempts[f] # retryMax

(* Mutant: the entry is removed before the retry. *)
MutantBackoffUnregisters(f) ==
    /\ Holders(f) # {}
    /\ phase[f] = "sent"
    /\ answer[f] # None
    /\ MayRetry(f)
    /\ phase' = [phase EXCEPT ![f] = "backoff"]
    /\ inFlight' = [inFlight EXCEPT ![key[f]] = None]
    /\ UNCHANGED <<retryMax, key, answer, attempts, taskVars, cache, breaker, handle,
                   got>>

(* A retryable error on any attempt but the last: back off. *)
Backoff(f) ==
    /\ Holders(f) # {}
    /\ phase[f] = "sent"
    /\ answer[f] # None
    /\ MayRetry(f)
    /\ phase' = [phase EXCEPT ![f] = "backoff"]
    /\ UNCHANGED <<retryMax, inFlight, key, answer, attempts, taskVars, cache, breaker,
                   handle, got>>

(* with_retry returns: a fault is recorded, once per flight, the map entry *)
(* is removed and the future is ready, all in one poll of one holder.  A   *)
(* task that clones the handle in between shares the output like any other.*)
Resolve(f) ==
    /\ Holders(f) # {}
    /\ phase[f] = "sent"
    /\ answer[f] # None
    /\ ~MayRetry(f)
    /\ IF IsUpstreamFault(answer[f]) THEN Record ELSE UNCHANGED breaker
    /\ phase' = [phase EXCEPT ![f] = "ready"]
    /\ attempts' = [attempts EXCEPT ![f] = 0]
    /\ inFlight' = [inFlight EXCEPT ![key[f]] = None]
    /\ UNCHANGED <<retryMax, key, answer, taskVars, cache, handle, got>>

-----------------------------------------------------------------------------
(* The await returns: a fault is the reply, already recorded; anything     *)
(* else is recorded by each task as a success.                             *)
Deliver(t) ==
    /\ handle[t] # None
    /\ phase[handle[t]] = "ready"
    /\ LET r == answer[handle[t]]
       IN  /\ got' = [got EXCEPT ![t] = r]
           /\ IF IsUpstreamFault(r) THEN ReplyWith(t, r)
              ELSE Goto(t, "record") /\ UNCHANGED reply
    /\ handle' = [handle EXCEPT ![t] = None]
    /\ UNCHANGED <<request, cache, breaker, flightVars>>

(* Mutant: an application error is cached like an Ok. *)
MutantRecordAndCacheAll(t) ==
    /\ pc[t] = "record"
    /\ Record
    /\ IF CacheEnabled
       THEN Goto(t, "len") /\ UNCHANGED reply
       ELSE ReplyWith(t, got[t])
    /\ UNCHANGED <<request, cache, flightVars, handle, got>>

RecordSuccess(t) ==
    /\ pc[t] = "record"
    /\ Record
    /\ IF got[t] \in Key /\ CacheEnabled
       THEN Goto(t, "len") /\ UNCHANGED reply
       ELSE ReplyWith(t, got[t])
    /\ UNCHANGED <<request, cache, flightVars, handle, got>>

(* cache.insert: skipped at capacity, else the entry is written. *)
CheckLen(t) ==
    /\ pc[t] = "len"
    /\ IF Cardinality(Stored) >= Capacity
       THEN ReplyWith(t, got[t])
       ELSE Goto(t, "put") /\ UNCHANGED reply
    /\ UNCHANGED <<request, cache, breaker, flightVars, handle, got>>

CachePut(t) ==
    /\ pc[t] = "put"
    /\ cache' = [cache EXCEPT ![request[t]] = [out |-> got[t], fresh |-> TRUE]]
    /\ ReplyWith(t, got[t])
    /\ UNCHANGED <<request, breaker, flightVars, handle, got>>

(* The task is over and its locals are gone. *)
Leave(t) ==
    /\ Goto(t, "idle")
    /\ request' = [request EXCEPT ![t] = None]
    /\ reply' = [reply EXCEPT ![t] = None]
    /\ got' = [got EXCEPT ![t] = None]
    /\ handle' = [handle EXCEPT ![t] = None]
    /\ UNCHANGED <<cache, breaker, flightVars>>

Reply(t) == pc[t] = "done" /\ Leave(t)

(* Mutant: the wrapped call dies with a dropped caller. *)
MutantCancelAborts(t) ==
    /\ pc[t] \in {"await", "asleep"}
    /\ Goto(t, "idle")
    /\ request' = [request EXCEPT ![t] = None]
    /\ handle' = [handle EXCEPT ![t] = None]
    /\ phase' = [phase EXCEPT ![handle[t]] = IF @ = "ready" THEN @ ELSE "idle"]
    /\ UNCHANGED <<retryMax, reply, got, cache, breaker, inFlight, key, answer, attempts>>

(* The client resets the stream: hyper drops the task at its await. *)
Cancel(t) == pc[t] \in {"await", "asleep"} /\ Leave(t)

(* Polling a poisoned flight panics in the task; a sleeper is never asked  *)
(* to poll it.                                                             *)
Crash(t) == pc[t] = "await" /\ phase[handle[t]] = "panicked" /\ Leave(t)

-----------------------------------------------------------------------------
Expire(k) ==
    /\ cache[k] # None
    /\ cache[k].fresh
    /\ cache' = [cache EXCEPT ![k].fresh = FALSE]
    /\ UNCHANGED <<taskVars, breaker, flightVars, handle, got>>

ResetElapses ==
    /\ breaker = "Open"
    /\ breaker' = "HalfOpen"
    /\ UNCHANGED <<taskVars, cache, flightVars, handle, got>>

Advance(t) ==
    \/ CacheHit(t) \/ CacheMiss(t) \/ CacheRemove(t)
    \/ BreakerRejects(t) \/ BreakerPasses(t)
    \/ Join(t) \/ Deliver(t) \/ Crash(t)
    \/ RecordSuccess(t) \/ CheckLen(t) \/ CachePut(t) \/ Reply(t)

Proceed(t) == Advance(t) \/ \E f \in Flight : Drive(t, f)

Poll(f) == Attempt(f) \/ RetryPanics(f) \/ Backoff(f) \/ Resolve(f)

Environment ==
    \/ \E t \in Task : BodyFails(t) \/ Cancel(t)
    \/ \E t \in Task, k \in Key : Receive(t, k)
    \/ \E f \in Flight, r \in Outcome : Answer(f, r)
    \/ \E k \in Key : Expire(k)
    \/ ResetElapses

Next ==
    \/ \E t \in Task : Proceed(t)
    \/ \E f \in Flight : Poll(f)
    \/ Environment

Spec == Init /\ [][Next]_vars

(* Tokio runs every runnable task and polls a flight some task awaits: its *)
(* wake-ups reach every waiter, and so does its completion.  A panic wakes *)
(* no one, so a task "asleep" is owed no step.  A send_request that was    *)
(* started ends (its only time limits are the connect timeout and the      *)
(* keep-alive, so this is assumed of the upstream).                        *)
Fairness ==
    /\ \A t \in Task : WF_vars(Proceed(t))
    /\ \A f \in Flight : WF_vars(Poll(f)) /\ WF_vars(\E r \in Outcome : Answer(f, r))

FairSpec == Spec /\ Fairness

-----------------------------------------------------------------------------
(* Errors are never cached, and neither a coalesced nor a cached answer    *)
(* crosses from one (path, body) to another (README.md:12-20): what the    *)
(* cache holds, what a flight yields and what a task replies with are an   *)
(* Ok answer to the very key concerned, or - never in the cache - an error.*)
AnswersBelong ==
    /\ \A k \in Key : cache[k] # None => cache[k].out = k
    /\ \A t \in Task : reply[t] # None => reply[t] \in {request[t]} \cup (1 .. 16)
    /\ \A t \in Task : got[t] # None => got[t] \in Answers(request[t])

(* The inductive invariant.  What is registered under a key is that key's  *)
(* flight and still without an output, and every such flight is registered;*)
(* its loop backs off only from an answer that may be retried, and panics  *)
(* only before its first attempt.                                          *)
FlightIInv(f) ==
    /\ phase[f] \in Outputless => key[f] \in Key /\ inFlight[key[f]] = f
    /\ answer[f] # None => key[f] \in Key /\ answer[f] \in Answers(key[f])
    /\ phase[f] \in {"idle", "created", "panicked", "ready"} => attempts[f] = 0
    /\ phase[f] \in {"idle", "created", "panicked"} => answer[f] = None
    /\ phase[f] = "ready" => answer[f] # None
    /\ phase[f] = "backoff" => MayRetry(f)
    /\ phase[f] = "panicked" => retryMax = 0

(* A task awaits a flight of its own request's key and sleeps only on a    *)
(* poisoned one; it has a reply when it is done, and what it is about to   *)
(* cache is an Ok body.                                                    *)
TaskIInv(t) ==
    /\ pc[t] = "idle" => request[t] = None
    /\ pc[t] \notin {"idle", "done"} => request[t] \in Key
    /\ reply[t] # None <=> pc[t] = "done"
    /\ handle[t] # None <=> pc[t] \in {"await", "asleep"}
    /\ pc[t] = "asleep" => phase[handle[t]] = "panicked"
    /\ handle[t] # None => key[handle[t]] = request[t] /\ phase[handle[t]] # "idle"
    /\ got[t] # None => pc[t] \in {"record", "len", "put", "done"}
    /\ pc[t] \in {"record", "len", "put"} => got[t] # None
    /\ pc[t] \in {"len", "put"} => got[t] = request[t]

HandleIInv ==
    /\ TypeOK
    /\ AnswersBelong
    /\ \A k \in Key : inFlight[k] # None =>
          key[inFlight[k]] = k /\ phase[inFlight[k]] \in Outputless
    /\ \A f \in Flight : FlightIInv(f)
    /\ \A t \in Task : TaskIInv(t)

(* Every request ends: no coalescing task, retry or tripped breaker leaves *)
(* one behind, whichever clients go away.  With retry_max = 0 alone, one   *)
(* that polled the flight while it panicked sleeps until its client goes   *)
(* (retry.rs:44).                                                          *)
EveryRequestEnds ==
    \A t \in Task :
        pc[t] # "idle" ~> pc[t] = "idle" \/ (pc[t] = "asleep" /\ retryMax = 0)

(* "Maximum upstream retry attempts (0 = no retries)" (config.rs:18): with *)
(* any setting, a request is attempted rather than crashed.                *)
NoRequestPanics == \A f \in Flight : phase[f] # "panicked"

-----------------------------------------------------------------------------
(* The flights of the proxy are those of Singleflight: to its callers, the *)
(* retry loop is one call that answers once.                               *)
Coalescing == INSTANCE Singleflight WITH
    Caller <- Task, Result <- Outcome, MayPanic <- 0 \in Retries,
    phase <- [f \in Flight |-> IF phase[f] = "backoff" THEN "sent" ELSE phase[f]],
    answer <- [f \in Flight |-> IF MayRetry(f) THEN None ELSE answer[f]],
    asleep <- Sleepers, returned <- got

ImplementsSingleflight == Coalescing!Spec
=============================================================================
