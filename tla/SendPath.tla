------------------------------ MODULE SendPath ------------------------------
(***************************************************************************)
(* What the handlers of one channel go through between the claim and the    *)
(* provider (worker.processNotification): the rate limiter they share, then *)
(* the override lookup of the sender, under its mutex, then the call. The   *)
(* process may be stopped anywhere; the dashboard switches the provider     *)
(* meanwhile, and the database answers late, not at all or with an error.   *)
(***************************************************************************)
EXTENDS RateLimiter, ProviderTarget, FiniteSets

CONSTANTS Window        \* bound: the longest window the calls are counted over

ASSUME SendPathAssumption ==
    /\ IsFiniteSet(Handlers)
    /\ RatePerChannel \in Nat \ {0}
    /\ Default \notin Overrides
    /\ CacheTTL \in Nat /\ Transit \in Nat /\ Window \in Nat

VARIABLES
    at,             \* where each handler is
    target,         \* the provider it calls
    stopped,        \* the process's context is done
    calls           \* history: calls begun in this tick and the w before it

pathVars == <<at, target, stopped, calls>>
vars == <<limiterVars, targetVars, pathVars>>

Windows == 0 .. Window

TypeOK ==
    /\ LimiterTypeOK /\ TargetTypeOK
    /\ at \in [Handlers -> {"idle", "waiting", "looking", "sending"}]
    /\ target \in [Handlers -> Targets]
    /\ stopped \in BOOLEAN
    /\ calls \in [Windows -> Nat]

Init ==
    /\ LimiterInit /\ TargetInit
    /\ at = [h \in Handlers |-> "idle"] /\ target = [h \in Handlers |-> Default]
    /\ stopped = FALSE /\ calls = [w \in Windows |-> 0]

----------------------------------------------------------------------------

Goto(h, next) == at' = [at EXCEPT ![h] = next]

\* The handler has its target and calls it.
Call(h, u) ==
    /\ Goto(h, "sending")
    /\ target' = [target EXCEPT ![h] = u]
    /\ calls' = [w \in Windows |-> calls[w] + 1]

\* limiter.Wait begins. After the stop it returns at once.
StartWait(h) ==
    /\ at[h] = "idle" /\ ~stopped
    /\ Reserve(h)
    /\ Goto(h, "waiting")
    /\ UNCHANGED <<targetVars, target, stopped, calls>>

\* Wait ends with the context: the claim is released and nothing is sent.
WaitInterrupted(h) ==
    /\ at[h] = "waiting" /\ stopped
    /\ Goto(h, "idle")
    /\ UNCHANGED <<limiterVars, targetVars, target, stopped, calls>>

\* The token is due and the sender's mutex is free.
MayLook(h) ==
    /\ at[h] = "waiting" /\ delay[h] = 0
    /\ \A g \in Handlers : at[g] # "looking"

\* currentTarget: the cached override will do.
UseCached(h) ==
    /\ MayLook(h) /\ Fresh
    /\ Call(h, webhook)
    /\ UNCHANGED <<limiterVars, targetVars, stopped>>

\* ... or it is too old; the mutex is kept during the lookup.
StartLookup(h) ==
    /\ MayLook(h) /\ ~Fresh
    /\ Goto(h, "looking")
    /\ UNCHANGED <<limiterVars, targetVars, target, stopped, calls>>

LookupReads(h) ==
    /\ at[h] = "looking" /\ ProviderOverride
    /\ UNCHANGED <<limiterVars, pathVars>>

LookupReturns(h) ==
    /\ at[h] = "looking"
    /\ \E u \in answer : KeepLookup(u)
    /\ EndLookup /\ Call(h, webhook')
    /\ UNCHANGED <<limiterVars, override, since, stopped>>

\* Defective variant: the lookup does not end with the context.
LookupFailsDetached(h) ==
    /\ at[h] = "looking" /\ ~stopped
    /\ KeepLast
    /\ EndLookup /\ Call(h, webhook)
    /\ UNCHANGED <<limiterVars, override, since, stopped>>

\* The database is not reached, or the context is done.
LookupFails(h) ==
    /\ at[h] = "looking"
    /\ KeepLast
    /\ EndLookup /\ Call(h, webhook)
    /\ UNCHANGED <<limiterVars, override, since, stopped>>

\* The provider has answered, or has not within PROVIDER_TIMEOUT.
SendEnds(h) ==
    /\ at[h] = "sending"
    /\ Goto(h, "idle")
    /\ target' = [target EXCEPT ![h] = Default]
    /\ UNCHANGED <<limiterVars, targetVars, stopped, calls>>

----------------------------------------------------------------------------

SetProvider ==
    /\ \E u \in Targets : SetProviderOverride(u)
    /\ since' = [since EXCEPT ![override'] = 0]
    /\ UNCHANGED <<limiterVars, pathVars>>

Tick ==
    /\ Refill /\ Age
    /\ calls' = [w \in Windows |-> IF w = 0 THEN 0 ELSE calls[w-1]]
    /\ UNCHANGED <<at, target, stopped>>

Stop ==
    /\ ~stopped /\ stopped' = TRUE
    /\ UNCHANGED <<limiterVars, targetVars, at, target, calls>>

Look(h) == UseCached(h) \/ StartLookup(h)

\* The steps that must happen sooner or later: a context that is done ends a
\* wait and a lookup, and an answer that is underway arrives.
Proceed(h) ==
    \/ WaitInterrupted(h) \/ LookupReturns(h) \/ SendEnds(h)
    \/ stopped /\ LookupFails(h)

Next ==
    \/ \E h \in Handlers :
         \/ StartWait(h) \/ Look(h)
         \/ LookupReads(h) \/ LookupFails(h) \/ Proceed(h)
    \/ SetProvider \/ Tick \/ Stop

Spec == Init /\ [][Next]_vars

(***************************************************************************)
(* Time passes, goroutines run, calls of the provider end by their timeout, *)
(* and a mutex that keeps coming free is handed to whoever waits. A lookup  *)
(* has no timeout of its own: the database may leave it without an answer   *)
(* until the process stops.                                                 *)
(***************************************************************************)
FairSpec ==
    /\ Spec /\ WF_vars(Tick)
    /\ \A h \in Handlers : SF_vars(Look(h)) /\ WF_vars(Proceed(h))

----------------------------------------------------------------------------
(* Properties *)

\* README: "A shared token bucket per channel caps deliveries at 100/s across
\* that channel's concurrent handlers". What the provider may see in w ticks is
\* a full bucket more, and one more for each handler that was held up on the way.
CallsAreBounded ==
    \A w \in Windows : calls[w] <= RatePerChannel + w + Cardinality(Handlers)

\* switchable.go: a dashboard switch "takes effect within this window". A call
\* that did not have to do without its lookup goes to a provider that was in
\* force within the TTL and the time the last answer took, resets included.
SendsAreRecent ==
    [][\A h \in Handlers :
        at[h] # "sending" /\ at'[h] = "sending" /\ age' <= CacheTTL
            => since[target'[h]] <= CacheTTL + Transit]_vars

\* Every handler gets through the limiter, the mutex and the call, or stops on
\* the way with the process, unless one lookup of a running process hangs.
HandlersGetThrough ==
    \/ <>[](~stopped /\ \E h \in Handlers : at[h] = "looking")
    \/ \A h \in Handlers : at[h] # "idle" ~> at[h] = "idle"
=============================================================================
