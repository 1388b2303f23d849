--------------------------- MODULE SendPathProofs ---------------------------
(***************************************************************************)
(* Proofs about SendPath: types, and the bound on the calls a provider may  *)
(* see, for every rate, window and number of handlers.                      *)
(***************************************************************************)
EXTENDS SendPath, FiniteSetTheorems, TLAPS

USE DEF Windows

\* A token reserved or a tick passed leaves the bucket well-typed.
LEMMA LimiterTypes ==
    ASSUME LimiterTypeOK, SendPathAssumption,
           (\E h \in Handlers : Reserve(h)) \/ Refill \/ UNCHANGED limiterVars
    PROVE  LimiterTypeOK'
<1>1. CASE \E h \in Handlers : Reserve(h)
  BY <1>1 DEF LimiterTypeOK, Reserve, SendPathAssumption
<1>2. CASE Refill
  BY <1>2 DEF LimiterTypeOK, Refill, SendPathAssumption
<1>3. CASE UNCHANGED limiterVars
  BY <1>3 DEF LimiterTypeOK, limiterVars
<1> QED BY <1>1, <1>2, <1>3

\* Types hold from the start and in every step.
THEOREM SendPathTypes == Spec => []TypeOK
<1>1. Init => TypeOK
  <2> SUFFICES ASSUME Init PROVE TypeOK
    OBVIOUS
  <2>1. LimiterTypeOK
    BY SendPathAssumption DEF SendPathAssumption, Init, LimiterInit, LimiterTypeOK
  <2>2. Default \in Targets /\ Cap \in Nat
    BY SendPathAssumption DEF SendPathAssumption, Targets, Cap
  <2>3. TargetTypeOK
    BY <2>2, SendPathAssumption DEF SendPathAssumption, Init, TargetInit, TargetTypeOK
  <2> QED BY <2>1, <2>2, <2>3 DEF Init, TypeOK
<1>2. TypeOK /\ [Next]_vars => TypeOK'
  <2> SUFFICES ASSUME TypeOK, [Next]_vars PROVE TypeOK'
    OBVIOUS
  <2> USE SendPathAssumption DEF SendPathAssumption, TypeOK
  <2>1. CASE \E h \in Handlers : StartWait(h)
    <3> PICK h \in Handlers : StartWait(h) BY <2>1
    <3>1. LimiterTypeOK'
      BY LimiterTypes DEF StartWait
    <3>2. TargetTypeOK'
      BY DEF StartWait, targetVars, senderVars, TargetTypeOK
    <3> QED BY <3>1, <3>2 DEF StartWait, Goto
  <2>2. CASE \E h \in Handlers : WaitInterrupted(h)
    BY <2>2 DEF WaitInterrupted, Goto, limiterVars, LimiterTypeOK, targetVars, senderVars, TargetTypeOK
  <2>3. CASE \E h \in Handlers : UseCached(h)
    <3> PICK h \in Handlers : UseCached(h) BY <2>3
    <3>1. LimiterTypeOK' /\ TargetTypeOK'
      BY DEF UseCached, limiterVars, LimiterTypeOK, targetVars, senderVars, TargetTypeOK
    <3>2. webhook \in Targets
      BY DEF TargetTypeOK
    <3> QED BY <3>1, <3>2 DEF UseCached, Call, Goto
  <2>4. CASE \E h \in Handlers : StartLookup(h)
    BY <2>4 DEF StartLookup, Goto, limiterVars, LimiterTypeOK, targetVars, senderVars, TargetTypeOK
  <2>5. CASE \E h \in Handlers : LookupReads(h)
    <3>1. answer' \in {{u} : u \in Targets}
      BY <2>5 DEF LookupReads, ProviderOverride, TargetTypeOK
    <3>2. TargetTypeOK'
      BY <2>5, <3>1 DEF LookupReads, ProviderOverride, TargetTypeOK
    <3> QED BY <2>5, <3>2 DEF LookupReads, limiterVars, LimiterTypeOK, pathVars
  <2>6. CASE \E h \in Handlers : LookupReturns(h)
    <3> PICK h \in Handlers : LookupReturns(h) BY <2>6
    <3> PICK u \in answer : KeepLookup(u) BY DEF LookupReturns
    <3>1. u \in Targets
      BY DEF TargetTypeOK, NoAnswer
    <3>2. LimiterTypeOK'
      BY DEF LookupReturns, limiterVars, LimiterTypeOK
    <3>3. TargetTypeOK'
      BY <3>1 DEF LookupReturns, KeepLookup, EndLookup, TargetTypeOK
    <3>4. webhook' \in Targets
      BY <3>3 DEF TargetTypeOK
    <3> QED BY <3>2, <3>3, <3>4 DEF LookupReturns, Call, Goto
  <2>7. CASE \E h \in Handlers : LookupFails(h)
    <3> PICK h \in Handlers : LookupFails(h) BY <2>7
    <3>1. LimiterTypeOK' /\ TargetTypeOK'
      BY DEF LookupFails, KeepLast, EndLookup, limiterVars, LimiterTypeOK, TargetTypeOK
    <3>2. webhook \in Targets
      BY DEF TargetTypeOK
    <3> QED BY <3>1, <3>2 DEF LookupFails, Call, Goto
  <2>8. CASE \E h \in Handlers : SendEnds(h)
    BY <2>8 DEF SendEnds, Goto, limiterVars, LimiterTypeOK, targetVars, senderVars, TargetTypeOK, Targets
  <2>9. CASE SetProvider
    BY <2>9 DEF SetProvider, SetProviderOverride, limiterVars, LimiterTypeOK, senderVars, pathVars, TargetTypeOK
  <2>10. CASE Tick
    <3>1. LimiterTypeOK'
      BY <2>10, LimiterTypes DEF Tick
    <3>2. TargetTypeOK'
      <4>1. Cap \in Nat /\ \A t \in 0 .. Cap : Older(t) \in 0 .. Cap
        BY DEF Cap, Older
      <4>2. since' \in [Targets -> 0 .. Cap] /\ since'[override'] = 0
        BY <2>10, <4>1 DEF Tick, Age, TargetTypeOK
      <4>3. age' \in 0 .. Cap /\ transit' \in 0 .. Transit
        BY <2>10, <4>1 DEF Tick, Age, TargetTypeOK
      <4> QED BY <2>10, <4>2, <4>3 DEF Tick, Age, TargetTypeOK
    <3>3. calls' \in [Windows -> Nat]
      BY <2>10 DEF Tick
    <3> QED BY <2>10, <3>1, <3>2, <3>3 DEF Tick
  <2>11. CASE Stop
    BY <2>11 DEF Stop, limiterVars, LimiterTypeOK, targetVars, senderVars, TargetTypeOK
  <2>12. CASE UNCHANGED vars
    BY <2>12 DEF vars, limiterVars, LimiterTypeOK, targetVars, senderVars, pathVars, TargetTypeOK
  <2> QED
    BY <2>1, <2>2, <2>3, <2>4, <2>5, <2>6, <2>7, <2>8, <2>9, <2>10, <2>11, <2>12
    DEF Next, Look, Proceed
<1> QED BY <1>1, <1>2, PTL DEF Spec

----------------------------------------------------------------------------
(* How many calls a window may see *)

\* Handlers that have their token and have not called yet, and those whose
\* token is still to come.
Due == {h \in Handlers : at[h] = "looking" \/ (at[h] = "waiting" /\ delay[h] = 0)}
Asleep == {h \in Handlers : at[h] = "waiting" /\ delay[h] > 0}

\* The tokens promised ahead fall due one by one.
SleepersInOrder ==
    /\ \A h \in Asleep : delay[h] <= -tokens
    /\ \A g, h \in Asleep : delay[g] = delay[h] => g = h

Left == IF tokens > 0 THEN tokens ELSE 0

\* Calls, handlers about to call and tokens left are paid for by the bucket, the
\* ticks of the window and the handlers that were held up before it.
CallsArePaidFor ==
    \A w \in Windows :
        calls[w] + Cardinality(Due) + Left
            <= RatePerChannel + w + Cardinality(Handlers)

BoundInv == TypeOK /\ SleepersInOrder /\ CallsArePaidFor

\* The handlers about to call are a finite set, no larger than all.
LEMMA DueIsSmall ==
    ASSUME SendPathAssumption
    PROVE  /\ IsFiniteSet(Due) /\ Cardinality(Due) \in Nat
           /\ Cardinality(Due) <= Cardinality(Handlers)
           /\ Cardinality(Handlers) \in Nat
<1>1. Due \subseteq Handlers
  BY DEF Due
<1> QED BY <1>1, FS_Subset, FS_CardinalityType DEF SendPathAssumption

\* The same of the set after a step.
LEMMA DueStaysSmall ==
    ASSUME SendPathAssumption
    PROVE  /\ IsFiniteSet(Due') /\ Cardinality(Due') \in Nat
           /\ Cardinality(Due') <= Cardinality(Handlers)
<1>1. Due' \subseteq Handlers
  BY DEF Due
<1> QED BY <1>1, FS_Subset, FS_CardinalityType DEF SendPathAssumption

\* The terms of the account are numbers.
LEMMA AccountTypes ==
    ASSUME TypeOK, SendPathAssumption
    PROVE  /\ Left \in Nat /\ RatePerChannel \in Nat
           /\ \A w \in Windows : w \in Nat /\ calls[w] \in Nat
BY DEF TypeOK, LimiterTypeOK, Left, SendPathAssumption

\* A call is begun by a handler that was due, and pays for itself.
LEMMA CallPays ==
    ASSUME BoundInv, TypeOK', SendPathAssumption, NEW h \in Due, NEW u, Call(h, u),
           UNCHANGED limiterVars
    PROVE  BoundInv'
<1> USE SendPathAssumption DEF SendPathAssumption, BoundInv
<1>1. Due' = Due \ {h} /\ Asleep' = Asleep \ {h}
  BY DEF Due, Asleep, Call, Goto, TypeOK, limiterVars
<1>2. Cardinality(Due') = Cardinality(Due) - 1
  BY <1>1, DueIsSmall, FS_RemoveElement
<1>3. \A w \in Windows : calls'[w] = calls[w] + 1
  BY DEF Call
<1>4. SleepersInOrder'
  BY <1>1 DEF SleepersInOrder, limiterVars
<1>5. CallsArePaidFor'
  BY <1>2, <1>3, DueIsSmall DEF CallsArePaidFor, TypeOK, Left, limiterVars, LimiterTypeOK
<1> QED BY <1>4, <1>5

\* A handler that takes no token and begins no call costs nothing.
LEMMA Harmless ==
    ASSUME BoundInv, TypeOK', SendPathAssumption,
           Due' \subseteq Due, Asleep' \subseteq Asleep, UNCHANGED <<limiterVars, calls>>
    PROVE  BoundInv'
<1> USE SendPathAssumption DEF SendPathAssumption, BoundInv
<1>1. Cardinality(Due') <= Cardinality(Due)
  BY DueIsSmall, FS_Subset
<1>2. SleepersInOrder'
  BY DEF SleepersInOrder, limiterVars
<1>3. CallsArePaidFor'
  <2> SUFFICES ASSUME NEW w \in Windows
               PROVE  calls'[w] + Cardinality(Due') + Left' <= RatePerChannel + w + Cardinality(Handlers)
    BY DEF CallsArePaidFor
  <2>1. calls'[w] = calls[w] /\ Left' = Left
    BY DEF Left, limiterVars
  <2>2. calls[w] + Cardinality(Due) + Left <= RatePerChannel + w + Cardinality(Handlers)
    BY DEF CallsArePaidFor
  <2> QED BY <1>1, <2>1, <2>2, DueIsSmall, DueStaysSmall, AccountTypes
<1> QED BY <1>2, <1>3

\* A reservation takes a token that is there, or the next one to come.
LEMMA ReservationPays ==
    ASSUME BoundInv, TypeOK', SendPathAssumption, NEW h \in Handlers, StartWait(h)
    PROVE  BoundInv'
<1> USE SendPathAssumption DEF SendPathAssumption, BoundInv
<1>1. h \notin Due /\ h \notin Asleep /\ tokens' = tokens - 1 /\ UNCHANGED calls
  BY DEF Due, Asleep, StartWait, Reserve, TypeOK
<1>2. CASE tokens > 0
  <2>1. Due' = Due \cup {h} /\ Asleep' = Asleep
    BY <1>2 DEF Due, Asleep, StartWait, Goto, Reserve, TypeOK, LimiterTypeOK
  <2>2. Cardinality(Due') = Cardinality(Due) + 1
    BY <1>1, <2>1, DueIsSmall, FS_AddElement
  <2>3. Left' = Left - 1
    BY <1>1, <1>2 DEF Left, TypeOK, LimiterTypeOK
  <2>4. Asleep = {}
    BY <1>2 DEF SleepersInOrder, Asleep, TypeOK, LimiterTypeOK
  <2>5. SleepersInOrder'
    BY <2>1, <2>4 DEF SleepersInOrder
  <2>6. CallsArePaidFor'
    <3> SUFFICES ASSUME NEW w \in Windows
                 PROVE  calls'[w] + Cardinality(Due') + Left' <= RatePerChannel + w + Cardinality(Handlers)
      BY DEF CallsArePaidFor
    <3>1. calls[w] + Cardinality(Due) + Left <= RatePerChannel + w + Cardinality(Handlers)
      BY DEF CallsArePaidFor
    <3> QED BY <1>1, <2>2, <2>3, <3>1, DueIsSmall, AccountTypes
  <2> QED BY <2>5, <2>6
<1>3. CASE tokens <= 0
  <2>1. Due' = Due /\ Asleep' = Asleep \cup {h}
    BY <1>3 DEF Due, Asleep, StartWait, Goto, Reserve, TypeOK, LimiterTypeOK
  <2>2. delay'[h] = 1 - tokens /\ \A g \in Asleep : delay'[g] = delay[g]
    BY <1>1, <1>3 DEF StartWait, Reserve, Asleep, TypeOK, LimiterTypeOK
  <2>3. \A g \in Asleep : delay[g] \in Nat /\ delay[g] <= -tokens
    BY DEF SleepersInOrder, Asleep, TypeOK, LimiterTypeOK
  <2>4. SleepersInOrder'
    BY <1>1, <2>1, <2>2, <2>3 DEF SleepersInOrder, TypeOK, LimiterTypeOK
  <2>5. Left' = Left
    BY <1>1, <1>3 DEF Left, TypeOK, LimiterTypeOK
  <2>6. CallsArePaidFor'
    BY <1>1, <2>1, <2>5 DEF CallsArePaidFor
  <2> QED BY <2>4, <2>6
<1> QED BY <1>2, <1>3 DEF TypeOK, LimiterTypeOK

\* A tick lets at most one sleeper through, for the token that it brings.
LEMMA TickPays ==
    ASSUME BoundInv, TypeOK', SendPathAssumption, Tick
    PROVE  BoundInv'
<1> USE SendPathAssumption DEF SendPathAssumption, BoundInv
<1> DEFINE Woken == {h \in Asleep : delay[h] = 1}
<1>1. \A h \in Handlers : delay'[h] = IF delay[h] > 0 THEN delay[h] - 1 ELSE 0
  BY DEF Tick, Refill, TypeOK, LimiterTypeOK
<1>2. Due' = Due \cup Woken /\ Asleep' = Asleep \ Woken
  BY <1>1 DEF Tick, Due, Asleep, TypeOK, LimiterTypeOK
<1>3. tokens' = IF tokens < RatePerChannel THEN tokens + 1 ELSE tokens
  BY DEF Tick, Refill
<1>4. \A h \in Asleep : tokens < 0 /\ delay'[h] = delay[h] - 1 /\ delay[h] \in Nat
  BY <1>1 DEF SleepersInOrder, Asleep, TypeOK, LimiterTypeOK
<1>5. SleepersInOrder'
  BY SMTT(30), <1>2, <1>3, <1>4 DEF SleepersInOrder, TypeOK, LimiterTypeOK
<1>6. Cardinality(Due') + Left' <= Cardinality(Due) + Left + 1
  <2>1. CASE Woken = {}
    <3>1. Cardinality(Due') = Cardinality(Due)
      BY <1>2, <2>1
    <3>2. Left' <= Left + 1
      BY <1>3 DEF Left, TypeOK, LimiterTypeOK
    <3> QED BY <3>1, <3>2, DueIsSmall, AccountTypes DEF Left, TypeOK, LimiterTypeOK
  <2>2. CASE Woken # {}
    <3> PICK h \in Woken : TRUE BY <2>2
    <3>1. Due' = Due \cup {h}
      <4>1. Woken = {h}
        BY DEF SleepersInOrder
      <4> QED BY <1>2, <4>1
    <3>2. Cardinality(Due') <= Cardinality(Due) + 1
      <4>1. Cardinality(Due') = IF h \in Due THEN Cardinality(Due) ELSE Cardinality(Due) + 1
        BY <3>1, DueIsSmall, FS_AddElement
      <4> QED BY <4>1, DueIsSmall
    <3>3. tokens \in Int /\ tokens < 0 /\ tokens' \in Int
      BY <1>4 DEF TypeOK, LimiterTypeOK
    <3>4. Left' = 0 /\ Left = 0
      BY <1>3, <3>3 DEF Left
    <3> QED BY <3>2, <3>4, DueIsSmall, DueStaysSmall
  <2> QED BY <2>1, <2>2
<1>7. CallsArePaidFor'
  <2> SUFFICES ASSUME NEW w \in Windows
               PROVE  calls'[w] + Cardinality(Due') + Left' <= RatePerChannel + w + Cardinality(Handlers)
    BY DEF CallsArePaidFor
  <2>1. Left' \in Nat /\ Left' <= RatePerChannel
    BY DEF Left, TypeOK, LimiterTypeOK
  <2>2. CASE w = 0
    <3>1. calls'[w] = 0
      BY <2>2 DEF Tick
    <3> QED BY <2>1, <2>2, <3>1, DueStaysSmall, DueIsSmall, AccountTypes
  <2>3. CASE w # 0
    <3>1. w - 1 \in Windows /\ calls'[w] = calls[w-1]
      BY <2>3 DEF Tick
    <3>2. calls[w-1] + Cardinality(Due) + Left <= RatePerChannel + (w - 1) + Cardinality(Handlers)
      BY <3>1 DEF CallsArePaidFor
    <3> QED BY <1>6, <2>1, <3>1, <3>2, DueIsSmall, DueStaysSmall, AccountTypes
  <2> QED BY <2>2, <2>3
<1> QED BY <1>5, <1>7

\* README: "caps deliveries at 100/s across that channel's concurrent handlers":
\* what the cap comes to, for every rate, window and number of handlers, with
\* any lookups, switches and stops in between.
THEOREM CallsBounded == Spec => []CallsAreBounded
<1>1. Init => SleepersInOrder /\ CallsArePaidFor
  <2> SUFFICES ASSUME Init PROVE SleepersInOrder /\ CallsArePaidFor
    OBVIOUS
  <2>1. Due = {} /\ Asleep = {}
    BY DEF Init, Due, Asleep
  <2>2. Left = RatePerChannel /\ RatePerChannel \in Nat
    BY SendPathAssumption DEF Init, LimiterInit, Left, SendPathAssumption
  <2>3. \A w \in Windows : calls[w] = 0 /\ w \in Nat
    BY SendPathAssumption DEF Init, SendPathAssumption
  <2>4. CallsArePaidFor
    BY <2>1, <2>2, <2>3, SendPathAssumption, DueIsSmall, FS_EmptySet DEF CallsArePaidFor
  <2> QED BY <2>1, <2>4 DEF SleepersInOrder
<1>2. TypeOK /\ TypeOK' /\ SleepersInOrder /\ CallsArePaidFor /\ [Next]_vars
        => SleepersInOrder' /\ CallsArePaidFor'
  <2> SUFFICES ASSUME BoundInv, TypeOK', [Next]_vars PROVE BoundInv'
    BY DEF BoundInv
  <2> USE SendPathAssumption
  <2>1. ASSUME NEW h \in Handlers, StartWait(h) PROVE BoundInv'
    BY <2>1, ReservationPays
  <2>2. ASSUME NEW h \in Handlers, WaitInterrupted(h) PROVE BoundInv'
    <3>1. Due' \subseteq Due /\ Asleep' \subseteq Asleep
      BY <2>2 DEF WaitInterrupted, Goto, Due, Asleep, limiterVars, BoundInv, TypeOK
    <3> QED BY <2>2, <3>1, Harmless DEF WaitInterrupted
  <2>3. ASSUME NEW h \in Handlers, UseCached(h) PROVE BoundInv'
    <3>1. h \in Due
      BY <2>3 DEF UseCached, MayLook, Due
    <3> QED BY <2>3, <3>1, CallPays DEF UseCached
  <2>4. ASSUME NEW h \in Handlers, StartLookup(h) PROVE BoundInv'
    <3>1. Due' \subseteq Due /\ Asleep' \subseteq Asleep
      BY <2>4 DEF StartLookup, MayLook, Goto, Due, Asleep, limiterVars, BoundInv, TypeOK
    <3> QED BY <2>4, <3>1, Harmless DEF StartLookup
  <2>5. ASSUME NEW h \in Handlers, LookupReads(h) PROVE BoundInv'
    <3>1. UNCHANGED <<limiterVars, at, calls>>
      BY <2>5 DEF LookupReads, pathVars
    <3>2. Due' \subseteq Due /\ Asleep' \subseteq Asleep
      BY <3>1 DEF Due, Asleep, limiterVars
    <3> QED BY <3>1, <3>2, Harmless
  <2>6. ASSUME NEW h \in Handlers, LookupReturns(h) \/ LookupFails(h) PROVE BoundInv'
    <3>1. h \in Due
      BY <2>6 DEF LookupReturns, LookupFails, Due
    <3> QED BY <2>6, <3>1, CallPays DEF LookupReturns, LookupFails
  <2>7. ASSUME NEW h \in Handlers, SendEnds(h) PROVE BoundInv'
    <3>1. Due' \subseteq Due /\ Asleep' \subseteq Asleep
      BY <2>7 DEF SendEnds, Goto, Due, Asleep, limiterVars, BoundInv, TypeOK
    <3> QED BY <2>7, <3>1, Harmless DEF SendEnds
  <2>8. ASSUME SetProvider \/ Stop \/ UNCHANGED vars PROVE BoundInv'
    <3>1. UNCHANGED <<limiterVars, at, calls>>
      BY <2>8 DEF SetProvider, Stop, vars, pathVars
    <3>2. Due' \subseteq Due /\ Asleep' \subseteq Asleep
      BY <3>1 DEF Due, Asleep, limiterVars
    <3> QED BY <3>1, <3>2, Harmless
  <2>9. CASE Tick
    BY <2>9, TickPays
  <2> QED BY <2>1, <2>2, <2>3, <2>4, <2>5, <2>6, <2>7, <2>8, <2>9 DEF Next, Look, Proceed
<1>3. TypeOK /\ CallsArePaidFor => CallsAreBounded
  <2> SUFFICES ASSUME TypeOK, CallsArePaidFor, NEW w \in Windows
               PROVE  calls[w] <= RatePerChannel + w + Cardinality(Handlers)
    BY DEF CallsAreBounded
  <2>1. calls[w] + Cardinality(Due) + Left <= RatePerChannel + w + Cardinality(Handlers)
    BY DEF CallsArePaidFor
  <2> QED BY <2>1, SendPathAssumption, DueIsSmall, AccountTypes
<1> QED BY <1>1, <1>2, <1>3, SendPathTypes, PTL DEF Spec

----------------------------------------------------------------------------
(* How old the target of a call may be *)

\* The answer underway and the cached target are as recent as their clocks say.
RecentInv ==
    /\ webhook = cachedURL
    /\ \A u \in answer : since[u] <= transit
    /\ age <= CacheTTL => since[webhook] <= age + Transit

\* Steps that leave the sender and the override's history alone.
LEMMA RecentKept ==
    ASSUME RecentInv, UNCHANGED <<cachedURL, webhook, age, since, transit>>,
           answer' = answer \/ answer' = NoAnswer
    PROVE  RecentInv'
BY DEF RecentInv, NoAnswer

\* A step keeps the clocks right.
LEMMA RecentStep ==
    ASSUME TypeOK, TypeOK', RecentInv, [Next]_vars, SendPathAssumption
    PROVE  RecentInv'
<1> USE SendPathAssumption DEF SendPathAssumption
<1>1. ASSUME NEW h \in Handlers,
             StartWait(h) \/ WaitInterrupted(h) \/ UseCached(h) \/ StartLookup(h) \/ SendEnds(h)
      PROVE  RecentInv'
  BY <1>1, RecentKept DEF StartWait, WaitInterrupted, UseCached, StartLookup, SendEnds, targetVars, senderVars
<1>2. ASSUME NEW h \in Handlers, LookupReads(h) PROVE RecentInv'
  BY <1>2 DEF LookupReads, ProviderOverride, RecentInv, TypeOK, TargetTypeOK
<1>3. ASSUME NEW h \in Handlers, LookupReturns(h) PROVE RecentInv'
  <2> PICK u \in answer : KeepLookup(u) BY <1>3 DEF LookupReturns
  <2>1. webhook' = u /\ cachedURL' = u /\ age' = 0 /\ since' = since /\ answer' = {}
    BY <1>3 DEF LookupReturns, KeepLookup, EndLookup, NoAnswer, RecentInv
  <2>2. u \in Targets
    <3>1. answer = {} \/ \E v \in Targets : answer = {v}
      BY DEF TypeOK, TargetTypeOK, NoAnswer
    <3> QED BY <3>1
  <2>3. since[u] <= transit /\ transit <= Transit /\ transit \in Nat
    BY DEF RecentInv, TypeOK, TargetTypeOK
  <2>4. since[u] \in Nat
    BY <2>2 DEF TypeOK, TargetTypeOK
  <2> QED BY <2>1, <2>3, <2>4 DEF RecentInv
<1>4. ASSUME NEW h \in Handlers, LookupFails(h) PROVE RecentInv'
  BY <1>4 DEF LookupFails, KeepLast, EndLookup, NoAnswer, RecentInv
<1>5. CASE SetProvider
  <2>1. \A u \in Targets : since'[u] \in Nat /\ since'[u] <= since[u]
    <3>1. since \in [Targets -> Nat]
      BY DEF TypeOK, TargetTypeOK
    <3>2. \A u \in Targets : since'[u] = IF u = override' THEN 0 ELSE since[u]
      BY <1>5, <3>1 DEF SetProvider
    <3> QED BY <3>1, <3>2
  <2>2. answer \subseteq Targets /\ webhook \in Targets /\ transit \in Nat /\ age \in Nat
    BY SMTT(30) DEF TypeOK, TargetTypeOK, NoAnswer
  <2>3. \A u \in Targets : since[u] \in Nat
    BY DEF TypeOK, TargetTypeOK
  <2> QED BY <1>5, <2>1, <2>2, <2>3 DEF SetProvider, SetProviderOverride, senderVars, RecentInv
<1>6. CASE Tick
  <2>1. answer \subseteq Targets /\ webhook \in Targets /\ transit \in Nat /\ age \in 0 .. Cap
    BY SMTT(30) DEF TypeOK, TargetTypeOK, NoAnswer
  <2>2. \A u \in Targets : since[u] \in Nat /\ since'[u] \in Nat /\ since'[u] <= since[u] + 1
    BY <1>6 DEF Tick, Age, Older, Cap, TypeOK, TargetTypeOK
  <2>3. \A u \in answer' : since'[u] <= transit'
    BY <1>6, <2>1, <2>2 DEF Tick, Age, NoAnswer, RecentInv
  <2>4. age' <= CacheTTL => age' = age + 1
    BY <1>6, <2>1 DEF Tick, Age, Older, Cap
  <2>5. age' <= CacheTTL => since'[webhook'] <= age' + Transit
    BY <1>6, <2>1, <2>2, <2>4 DEF Tick, Age, RecentInv
  <2> QED BY <1>6, <2>3, <2>5 DEF Tick, Age, RecentInv
<1>7. CASE Stop \/ UNCHANGED vars
  BY <1>7, RecentKept DEF Stop, vars, targetVars, senderVars
<1> QED BY <1>1, <1>2, <1>3, <1>4, <1>5, <1>6, <1>7 DEF Next, Look, Proceed

\* The handlers' calls go where the clocks allow.
LEMMA CallsFollow ==
    ASSUME TypeOK, TypeOK', RecentInv, RecentInv', [Next]_vars, SendPathAssumption,
           NEW h \in Handlers, at[h] # "sending", at'[h] = "sending", age' <= CacheTTL
    PROVE  since[target'[h]] <= CacheTTL + Transit
<1> USE SendPathAssumption DEF SendPathAssumption
<1>1. PICK g \in Handlers : UseCached(g) \/ LookupReturns(g) \/ LookupFails(g)
  BY DEF Next, Look, Proceed, StartWait, WaitInterrupted, StartLookup, LookupReads, SendEnds,
     SetProvider, Tick, Stop, vars, pathVars, Goto, TypeOK
<1>2. target'[h] = webhook' /\ since' = since
  <2>1. g = h
    BY <1>1 DEF UseCached, LookupReturns, LookupFails, Call, Goto, TypeOK
  <2> QED BY <1>1, <2>1 DEF UseCached, LookupReturns, LookupFails, Call, KeepLast,
             targetVars, senderVars, TypeOK
<1>3. webhook' \in Targets /\ age' \in Nat /\ since'[webhook'] \in Nat
  BY DEF TypeOK, TargetTypeOK
<1> QED BY <1>2, <1>3 DEF RecentInv

\* switchable.go: a switch "takes effect within this window": no call whose
\* lookup did not fail goes to a target out of force for longer than the TTL and
\* the time of an answer, for every TTL, number of handlers and set of URLs.
THEOREM SwitchesAreFollowed == Spec => SendsAreRecent
<1>1. Init => RecentInv
  <2> SUFFICES ASSUME Init PROVE RecentInv
    OBVIOUS
  <2>1. age = CacheTTL + Transit + 1 /\ answer = {} /\ webhook = cachedURL
    BY DEF Init, TargetInit, NoAnswer, Cap
  <2> QED BY <2>1, SendPathAssumption DEF SendPathAssumption, RecentInv
<1>2. TypeOK /\ TypeOK' /\ RecentInv /\ [Next]_vars => RecentInv'
  BY RecentStep, SendPathAssumption
<1>3. TypeOK /\ TypeOK' /\ RecentInv /\ RecentInv' /\ [Next]_vars =>
        [\A h \in Handlers :
            at[h] # "sending" /\ at'[h] = "sending" /\ age' <= CacheTTL
                => since[target'[h]] <= CacheTTL + Transit]_vars
  BY CallsFollow, SendPathAssumption
<1> QED BY <1>1, <1>2, <1>3, SendPathTypes, PTL DEF Spec, SendsAreRecent
=============================================================================
