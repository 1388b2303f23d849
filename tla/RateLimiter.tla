---------------------------- MODULE RateLimiter ----------------------------
(***************************************************************************)
(* The token bucket the handlers of one channel share (worker.New: rate and *)
(* burst are both RATE_LIMIT_PER_CHANNEL). Time goes by ticks of one token; *)
(* a second has as many ticks as the bucket has tokens. Wait takes a token  *)
(* at once, a future one if there is none, and sleeps until it falls due,   *)
(* so handlers are served in the order in which they came.                  *)
(***************************************************************************)
EXTENDS Integers

CONSTANTS Handlers, RatePerChannel

VARIABLES
    tokens,         \* tokens in the bucket; below zero those promised ahead
    delay           \* ticks until each handler's token falls due

limiterVars == <<tokens, delay>>

LimiterTypeOK ==
    /\ tokens \in Int /\ tokens <= RatePerChannel
    /\ delay \in [Handlers -> Nat]

LimiterInit == tokens = RatePerChannel /\ delay = [h \in Handlers |-> 0]

\* Defective variant: a bucket for each handler.
ReserveUnshared(h) ==
    /\ delay' = [delay EXCEPT ![h] = 0]
    /\ UNCHANGED tokens

\* Wait takes a token.
Reserve(h) ==
    /\ tokens' = tokens - 1
    /\ delay' = [delay EXCEPT ![h] = IF tokens > 0 THEN 0 ELSE 1 - tokens]

\* Defective variant: an idle bucket fills without end.
RefillWithoutLimit ==
    /\ tokens' = tokens + 1
    /\ delay' = [h \in Handlers |-> IF delay[h] > 0 THEN delay[h] - 1 ELSE 0]

\* A tick passes: one token more, and every sleeper is a tick nearer to its own.
Refill ==
    /\ tokens' = IF tokens < RatePerChannel THEN tokens + 1 ELSE tokens
    /\ delay' = [h \in Handlers |-> IF delay[h] > 0 THEN delay[h] - 1 ELSE 0]
=============================================================================
