---------------------------- MODULE ApprovalProofs ----------------------------
(* The approval queue, and then the prompts that are put up for it.        *)
EXTENDS ApprovalQueue, PromptWindows, FiniteSetTheorems, TLAPS

(***************************************************************************)
(* Proofs about the approval queue, for any number of calls and threads.   *)
(*                                                                         *)
(* The inductive invariant ties the four places that know about a request  *)
(* together: its call's stage, _pending, the decision and the history.     *)
(***************************************************************************)

(* A request that can still be settled, and one that has been.             *)
Unsettled(a) == a \in pending /\ history[a] = <<>> /\ decision[a] = "none"
Settled(a)   == a \notin pending /\ decision[a] \in Outcome /\ history[a] = <<decision[a]>>

Fits(a) ==
  /\ pc[a] \in {"idle", "admitted"} =>
       /\ a \notin pending /\ history[a] = <<>>
       /\ decision[a] = "none" /\ result[a] = "none"
       /\ a \notin recent
  /\ pc[a] \in {"refusing", "presenting", "waiting", "expired"} =>
       /\ result[a] = "none"
       /\ Unsettled(a) \/ Settled(a)
  /\ pc[a] = "done" =>
       /\ a \notin pending
       /\ \/ Settled(a) /\ result[a] \in {decision[a], "deny", "timed_out"}
          \/ /\ history[a] = <<"rate_limited">> /\ result[a] = "rate_limited"
             /\ decision[a] = "none"
  /\ event[a] => decision[a] # "none"

Consistent == \A a \in Asks : Fits(a)

(* Calls past the check whose stamp is not counted yet.                    *)
Admitted == {a \in Asks : pc[a] = "admitted"}

Counted == Cardinality(Fresh \cup Admitted) <= RateLimit + Workers - 1

IInv == TypeOK /\ Consistent /\ Counted

USE AsksAssumption, WorkersAssumption, LimitAssumption, MinuteAssumption,
    TimeoutAssumption, InteractiveAssumption, ChoicesAssumption

-----------------------------------------------------------------------------
LEMMA InitTypeOK == Init => TypeOK
  BY DEF Init, TypeOK, Stage, Outcome, Approved, NoSweep, Horizon

(* Settling keeps the types.                                               *)
LEMMA SettleType ==
  ASSUME TypeOK, NEW a \in Asks, NEW o \in Outcome, Settle(a, o)
  PROVE  /\ pending' \subseteq Asks
         /\ decision' \in [Asks -> Outcome \cup {"none"}]
         /\ history'  \in [Asks -> Seq(Outcome)]
<1>1. Append(history[a], o) \in Seq(Outcome)
  BY DEF TypeOK
<1>2. QED BY <1>1 DEF TypeOK, Settle

LEMMA NextTypeOK == TypeOK /\ [Next]_vars => TypeOK'
<1> SUFFICES ASSUME TypeOK, [Next]_vars PROVE TypeOK'
  OBVIOUS
<1> USE DEF TypeOK
<1>1. ASSUME NEW a \in Asks, Begin(a) PROVE TypeOK'
  <2>1. Append(history[a], "rate_limited") \in Seq(Outcome)
    BY DEF Outcome
  <2>2. recent' \subseteq Asks
    BY <1>1 DEF Begin, Fresh
  <2>3. CASE RateLimited
    <3>1. /\ pc' = [pc EXCEPT ![a] = "done"]
          /\ history' = [history EXCEPT ![a] = Append(@, "rate_limited")]
          /\ result' = [result EXCEPT ![a] = "rate_limited"]
      BY <1>1, <2>3 DEF Begin
    <3>2. pc' \in [Asks -> Stage]
      BY <3>1 DEF Stage
    <3>3. history' \in [Asks -> Seq(Outcome)]
      BY <3>1, <2>1
    <3>4. result' \in [Asks -> Outcome \cup {"none"}]
      BY <3>1 DEF Outcome
    <3>5. QED BY <1>1, <2>2, <3>2, <3>3, <3>4 DEF Begin
  <2>4. CASE ~RateLimited
    BY <1>1, <2>2, <2>4 DEF Begin, Stage
  <2>5. QED BY <2>3, <2>4
<1>2. ASSUME NEW a \in Asks, AskStep(a) PROVE TypeOK'
  <2>1. CASE Enqueue(a)
    BY <2>1 DEF Enqueue, Stage
  <2>2. CASE RefuseUnattended(a)
    <3>1. "deny" \in Outcome /\ Settle(a, "deny")
      BY <2>2 DEF Outcome, RefuseUnattended
    <3>2. /\ pending' \subseteq Asks
          /\ decision' \in [Asks -> Outcome \cup {"none"}]
          /\ history'  \in [Asks -> Seq(Outcome)]
      BY <3>1, SettleType
    <3>3. QED BY <2>2, <3>1, <3>2 DEF RefuseUnattended, Stage
  <2>3. CASE Present(a)
    BY <2>3 DEF Present, Stage
  <2>4. CASE Wake(a)
    BY <2>4 DEF Wake, Stage
  <2>5. CASE WaitExpires(a)
    BY <2>5 DEF WaitExpires, Stage
  <2>6. CASE GiveUp(a)
    <3>1. "timed_out" \in Outcome /\ Settle(a, "timed_out")
      BY <2>6 DEF Outcome, GiveUp
    <3>2. /\ pending' \subseteq Asks
          /\ decision' \in [Asks -> Outcome \cup {"none"}]
          /\ history'  \in [Asks -> Seq(Outcome)]
      BY <3>1, SettleType
    <3>3. QED BY <2>6, <3>1, <3>2 DEF GiveUp, Stage
  <2>7. QED BY <1>2, <2>1, <2>2, <2>3, <2>4, <2>5, <2>6 DEF AskStep
<1>3. ASSUME NEW a \in Asks, NEW o \in Choices, Respond(a, o) PROVE TypeOK'
  <2>1. o \in Outcome /\ Settle(a, o)
    BY <1>3 DEF Outcome, Approved, Respond
  <2>2. QED BY <1>3, <2>1, SettleType DEF Respond
<1>4. ASSUME NEW a \in Asks, WindowExpires(a) PROVE TypeOK'
  <2>1. "timed_out" \in Outcome /\ Settle(a, "timed_out")
    BY <1>4 DEF Outcome, WindowExpires
  <2>2. QED BY <1>4, <2>1, SettleType DEF WindowExpires
<1>5. ASSUME NEW a \in Asks, SetEvent(a) PROVE TypeOK'
  BY <1>5 DEF SetEvent
<1>6. ASSUME NEW a \in Asks, DenyOne(a) PROVE TypeOK'
  <2>1. "deny" \in Outcome /\ Settle(a, "deny")
    BY <1>6 DEF Outcome, DenyOne
  <2>2. sweep' \in [on : BOOLEAN, ids : SUBSET Asks, left : SUBSET Asks]
    BY <1>6 DEF DenyOne
  <2>3. QED BY <1>6, <2>1, <2>2, SettleType DEF DenyOne
<1>7. CASE DenyAll
  BY <1>7 DEF DenyAll
<1>8. CASE DenyAllReturns
  BY <1>8 DEF DenyAllReturns, NoSweep
<1>9. CASE Tick
  BY <1>9 DEF Tick, Horizon
<1>10. CASE UNCHANGED vars
  BY <1>10 DEF vars
<1>11. QED
  BY <1>1, <1>2, <1>3, <1>4, <1>5, <1>6, <1>7, <1>8, <1>9, <1>10 DEF Next

(* Every variable of the queue keeps its type (approvals.py:97-120).       *)
THEOREM TypeCorrect == Spec => []TypeOK
<1>1. Init => TypeOK BY InitTypeOK
<1>2. TypeOK /\ [Next]_vars => TypeOK' BY NextTypeOK
<1>3. QED BY <1>1, <1>2, PTL DEF Spec

-----------------------------------------------------------------------------
(* A step that leaves what concerns b alone keeps b consistent.            *)
LEMMA Frame ==
  ASSUME NEW b \in Asks, Fits(b),
         pc'[b] = pc[b], history'[b] = history[b], decision'[b] = decision[b],
         event'[b] = event[b], result'[b] = result[b],
         b \in pending' <=> b \in pending, b \in recent' => b \in recent
  PROVE  Fits(b)'
  BY DEF Fits, Unsettled, Settled

(* Settling concerns one request, which is settled afterwards if it was    *)
(* not before.                                                             *)
LEMMA SettleEffect ==
  ASSUME TypeOK, NEW a \in Asks, NEW o \in Outcome, Settle(a, o)
  PROVE  /\ Unsettled(a) => Settled(a)' /\ decision'[a] = o
         /\ Settled(a) => Settled(a)' /\ decision'[a] = decision[a]
<1>1. /\ decision'[a] = IF a \in pending THEN o ELSE decision[a]
      /\ history'[a] = IF a \in pending THEN Append(history[a], o) ELSE history[a]
      /\ a \notin pending'
  BY DEF Settle, TypeOK
<1>2. Append(<<>>, o) = <<o>>
  OBVIOUS
<1>3. ASSUME Unsettled(a) PROVE Settled(a)' /\ decision'[a] = o
  <2>1. decision'[a] = o /\ history'[a] = <<o>>
    BY <1>1, <1>2, <1>3 DEF Unsettled
  <2>2. QED BY <1>1, <2>1 DEF Settled
<1>4. ASSUME Settled(a) PROVE Settled(a)' /\ decision'[a] = decision[a]
  <2>1. decision'[a] = decision[a] /\ history'[a] = history[a]
    BY <1>1, <1>4 DEF Settled
  <2>2. QED BY <1>1, <1>4, <2>1 DEF Settled
<1>5. QED BY <1>3, <1>4

LEMMA SettleOthers ==
  ASSUME TypeOK, NEW a \in Asks, NEW o \in Outcome, Settle(a, o),
         NEW b \in Asks, b # a
  PROVE  /\ history'[b] = history[b]
         /\ decision'[b] = decision[b]
         /\ b \in pending' <=> b \in pending
  BY DEF Settle, TypeOK

LEMMA InitConsistent == Init => Consistent
  BY DEF Init, Consistent, Fits

LEMMA NextConsistent == TypeOK /\ Consistent /\ [Next]_vars => Consistent'
<1> SUFFICES ASSUME TypeOK, Consistent, [Next]_vars, NEW b \in Asks
             PROVE  Fits(b)'
  BY DEF Consistent
<1>0. Fits(b)
  BY DEF Consistent
<1>1. ASSUME NEW a \in Asks, Begin(a) PROVE Fits(b)'
  <2>1. /\ recent' = Fresh /\ pc[a] = "idle"
        /\ UNCHANGED <<age, waited, pending, decision, event, sweep>>
    BY <1>1 DEF Begin
  <2>2. b \in recent' => b \in recent
    BY <2>1 DEF Fresh
  <2>3. CASE RateLimited
    <3>1. /\ pc' = [pc EXCEPT ![a] = "done"]
          /\ history' = [history EXCEPT ![a] = Append(@, "rate_limited")]
          /\ result' = [result EXCEPT ![a] = "rate_limited"]
      BY <1>1, <2>3 DEF Begin
    <3>2. CASE b # a
      BY <1>0, <2>1, <2>2, <3>1, <3>2, Frame DEF TypeOK
    <3>3. CASE b = a
      <4>1. history[a] = <<>> /\ a \notin pending /\ decision[a] = "none"
        BY <1>0, <2>1, <3>3 DEF Fits
      <4>2. /\ history'[a] = <<"rate_limited">> /\ pc'[a] = "done"
            /\ result'[a] = "rate_limited"
        BY <3>1, <4>1 DEF TypeOK
      <4>3. /\ b \notin pending' /\ decision'[b] = "none"
            /\ history'[b] = <<"rate_limited">> /\ pc'[b] = "done"
            /\ result'[b] = "rate_limited" /\ event'[b] = event[b]
        BY <2>1, <3>3, <4>1, <4>2
      <4>4. ~event[b]
        BY <1>0, <3>3, <4>1 DEF Fits
      <4>5. QED BY <4>3, <4>4 DEF Fits
    <3>4. QED BY <3>2, <3>3
  <2>4. CASE ~RateLimited
    <3>1. pc' = [pc EXCEPT ![a] = "admitted"] /\ UNCHANGED <<history, result>>
      BY <1>1, <2>4 DEF Begin
    <3>2. CASE b # a
      BY <1>0, <2>1, <2>2, <3>1, <3>2, Frame DEF TypeOK
    <3>3. CASE b = a
      BY <1>0, <2>1, <2>2, <3>1, <3>3 DEF Fits, TypeOK
    <3>4. QED BY <3>2, <3>3
  <2>5. QED BY <2>3, <2>4
<1>2. ASSUME NEW a \in Asks, Enqueue(a) PROVE Fits(b)'
  <2>1. CASE b # a
    BY <1>0, <1>2, <2>1, Frame DEF Enqueue, TypeOK
  <2>2. CASE b = a
    BY <1>0, <1>2, <2>2 DEF Enqueue, Fits, Unsettled, TypeOK
  <2>3. QED BY <2>1, <2>2
<1>3. ASSUME NEW a \in Asks, NEW o \in {"deny", "timed_out"},
             pc[a] \in {"refusing", "expired"}, Settle(a, o),
             event' = [event EXCEPT ![a] = @ \/ a \in pending],
             result' = [result EXCEPT ![a] = o],
             pc' = [pc EXCEPT ![a] = "done"],
             recent' = recent
      PROVE  Fits(b)'
  <2>1. /\ pc[a] \in {"refusing", "expired"} /\ Settle(a, o)
        /\ event' = [event EXCEPT ![a] = @ \/ a \in pending]
        /\ result' = [result EXCEPT ![a] = o]
        /\ pc' = [pc EXCEPT ![a] = "done"]
        /\ recent' = recent
    BY <1>3
  <2>2. o \in Outcome
    BY DEF Outcome
  <2>3. CASE b # a
    BY <1>0, <2>1, <2>2, <2>3, SettleOthers, Frame DEF TypeOK
  <2>4. CASE b = a
    <3>1. Unsettled(a) \/ Settled(a)
      BY <1>0, <2>1, <2>4 DEF Fits
    <3>2. Settled(a)'
      BY <2>1, <2>2, <3>1, SettleEffect
    <3>3. pc'[a] = "done" /\ result'[a] \in {"deny", "timed_out"}
      BY <2>1 DEF TypeOK
    <3>4. QED BY <2>4, <3>2, <3>3 DEF Fits, Settled, Outcome, Approved
  <2>5. QED BY <2>3, <2>4
<1>4. ASSUME NEW a \in Asks, Present(a) \/ WaitExpires(a) PROVE Fits(b)'
  <2>1. CASE b # a
    BY <1>0, <1>4, <2>1, Frame DEF Present, WaitExpires, TypeOK
  <2>2. CASE b = a
    BY <1>0, <1>4, <2>2 DEF Present, WaitExpires, Fits, Unsettled, Settled, TypeOK
  <2>3. QED BY <2>1, <2>2
<1>5. ASSUME NEW a \in Asks, Wake(a) PROVE Fits(b)'
  <2>1. CASE b # a
    BY <1>0, <1>5, <2>1, Frame DEF Wake, TypeOK
  <2>2. CASE b = a
    <3>1. Settled(a)
      BY <1>0, <1>5, <2>2 DEF Wake, Fits, Unsettled
    <3>2. pc'[a] = "done" /\ result'[a] = decision[a] /\ event' = event
      BY <1>5 DEF Wake, TypeOK
    <3>3. Settled(a)' /\ decision' = decision
      BY <1>5, <3>1 DEF Wake, Settled
    <3>4. QED BY <2>2, <3>1, <3>2, <3>3 DEF Fits, Settled, Outcome, Approved
  <2>3. QED BY <2>1, <2>2
<1>6. ASSUME NEW a \in Asks, NEW o \in Outcome, Settle(a, o),
             UNCHANGED <<pc, recent, event, result>>,
             pc[a] # "idle" \/ a \notin pending
      PROVE  Fits(b)'
  <2>1. CASE b # a
    BY <1>0, <1>6, <2>1, SettleOthers, Frame
  <2>2. CASE b = a /\ a \notin pending
    <3>1. pending' = pending /\ history' = history /\ decision' = decision
      BY <1>6, <2>2 DEF Settle, TypeOK
    <3>2. QED BY <1>0, <1>6, <3>1, Frame
  <2>3. CASE b = a /\ a \in pending
    <3>1. pc[a] \in {"refusing", "presenting", "waiting", "expired"} /\ Unsettled(a)
      BY <1>0, <2>3 DEF Fits, Settled, TypeOK, Stage
    <3>2. Settled(a)' /\ decision'[a] = o
      BY <1>6, <3>1, SettleEffect
    <3>3. QED BY <1>0, <1>6, <2>3, <3>1, <3>2 DEF Fits, Outcome, Approved, Settled
  <2>4. QED BY <2>1, <2>2, <2>3
<1>7. ASSUME NEW a \in Asks, SetEvent(a) PROVE Fits(b)'
  <2>1. CASE b # a
    BY <1>0, <1>7, <2>1, Frame DEF SetEvent, TypeOK
  <2>2. CASE b = a
    BY <1>0, <1>7, <2>2 DEF SetEvent, Fits, Unsettled, Settled, TypeOK
  <2>3. QED BY <2>1, <2>2
<1>8. ASSUME UNCHANGED <<pc, pending, recent, history, decision, event, result>>
      PROVE  Fits(b)'
  BY <1>0, <1>8, Frame
<1>9. ASSUME NEW a \in Asks, NEW o \in Choices, Respond(a, o) PROVE Fits(b)'
  <2>1. o \in Outcome
    BY DEF Outcome, Approved
  <2>2. pc[a] # "idle"
    BY <1>9 DEF Respond, Consistent, Fits
  <2>3. QED BY <1>6, <1>9, <2>1, <2>2 DEF Respond
<1>10. ASSUME NEW a \in Asks, WindowExpires(a) PROVE Fits(b)'
  <2>1. "timed_out" \in Outcome
    BY DEF Outcome
  <2>2. QED BY <1>6, <1>10, <2>1 DEF WindowExpires
<1>11. ASSUME NEW a \in Asks, DenyOne(a) PROVE Fits(b)'
  <2>1. "deny" \in Outcome
    BY DEF Outcome
  <2>2. pc[a] # "idle" \/ a \notin pending
    BY DEF Consistent, Fits
  <2>3. QED BY <1>6, <1>11, <2>1, <2>2 DEF DenyOne
<1>12. ASSUME NEW a \in Asks, AskStep(a) PROVE Fits(b)'
  <2>1. CASE RefuseUnattended(a)
    BY <1>3, <2>1 DEF RefuseUnattended
  <2>2. CASE GiveUp(a)
    BY <1>3, <2>2 DEF GiveUp
  <2>3. QED BY <1>2, <1>4, <1>5, <1>12, <2>1, <2>2 DEF AskStep
<1>13. CASE DenyAll \/ DenyAllReturns \/ Tick \/ UNCHANGED vars
  BY <1>8, <1>13 DEF DenyAll, DenyAllReturns, Tick, vars
<1>14. CASE Next
  BY <1>1, <1>7, <1>9, <1>10, <1>11, <1>12, <1>13, <1>14 DEF Next
<1>15. QED BY <1>13, <1>14

-----------------------------------------------------------------------------
LEMMA InitCounted == Init => Counted
<1> SUFFICES ASSUME Init PROVE Counted
  OBVIOUS
<1>1. Fresh \cup Admitted = {}
  BY DEF Init, Fresh, Admitted
<1>2. QED BY <1>1, FS_EmptySet DEF Counted

(* Shrinking what is counted keeps the bound.                              *)
LEMMA CountedShrinks ==
  ASSUME TypeOK, Counted, Fresh' \cup Admitted' \subseteq Fresh \cup Admitted
  PROVE  Counted'
<1>1. Fresh \cup Admitted \subseteq Asks
  BY DEF TypeOK, Fresh, Admitted
<1>2. IsFiniteSet(Fresh \cup Admitted)
  BY <1>1, FS_Subset
<1>3. /\ IsFiniteSet(Fresh' \cup Admitted')
      /\ Cardinality(Fresh' \cup Admitted') <= Cardinality(Fresh \cup Admitted)
  BY <1>2, FS_Subset
<1>4. /\ Cardinality(Fresh \cup Admitted) \in Nat
      /\ Cardinality(Fresh' \cup Admitted') \in Nat
  BY <1>2, <1>3, FS_CardinalityType
<1>5. QED BY <1>3, <1>4 DEF Counted

LEMMA NextCounted == TypeOK /\ Consistent /\ Counted /\ [Next]_vars => Counted'
<1> SUFFICES ASSUME TypeOK, Consistent, Counted, [Next]_vars PROVE Counted'
  OBVIOUS
<1>1. ASSUME NEW a \in Asks, Begin(a), ~RateLimited PROVE Counted'
  <2>1. /\ pc[a] = "idle" /\ pc' = [pc EXCEPT ![a] = "admitted"]
        /\ recent' = Fresh /\ age' = age
        /\ Cardinality(InFlight) < Workers
        /\ ~(Cardinality(Fresh) >= RateLimit)
    BY <1>1 DEF Begin, RateLimited
  <2>2. Fresh' = Fresh
    BY <2>1 DEF Fresh
  <2>3. IsFiniteSet(Fresh) /\ Cardinality(Fresh) \in Nat
    <3>1. Fresh \subseteq Asks
      BY DEF TypeOK, Fresh
    <3>2. QED BY <3>1, FS_Subset, FS_CardinalityType
  <2>4. IsFiniteSet(InFlight) /\ Cardinality(InFlight) \in Nat
    <3>1. InFlight \subseteq Asks
      BY DEF InFlight
    <3>2. QED BY <3>1, FS_Subset, FS_CardinalityType
  <2>5. Admitted' \subseteq InFlight \cup {a}
    BY <2>1 DEF Admitted, InFlight, TypeOK
  <2>6. /\ IsFiniteSet(InFlight \cup {a})
        /\ Cardinality(InFlight \cup {a}) <= Workers
    <3>1. a \notin InFlight
      BY <2>1 DEF InFlight
    <3>2. /\ IsFiniteSet(InFlight \cup {a})
          /\ Cardinality(InFlight \cup {a}) = Cardinality(InFlight) + 1
      BY <2>4, <3>1, FS_AddElement
    <3>3. QED BY <2>1, <2>4, <3>2
  <2>7. /\ IsFiniteSet(Admitted') /\ Cardinality(Admitted') \in Nat
        /\ Cardinality(InFlight \cup {a}) \in Nat
        /\ Cardinality(Admitted') <= Workers
    <3>1. /\ IsFiniteSet(Admitted')
          /\ Cardinality(Admitted') <= Cardinality(InFlight \cup {a})
      BY <2>5, <2>6, FS_Subset
    <3>2. Cardinality(Admitted') \in Nat /\ Cardinality(InFlight \cup {a}) \in Nat
      BY <2>6, <3>1, FS_CardinalityType
    <3>3. QED BY <2>6, <3>1, <3>2
  <2>8. IsFiniteSet(Fresh \cap Admitted') /\ Cardinality(Fresh \cap Admitted') \in Nat
    <3>1. Fresh \cap Admitted' \subseteq Fresh
      OBVIOUS
    <3>2. QED BY <2>3, <3>1, FS_Subset, FS_CardinalityType
  <2>9. Cardinality(Fresh \cup Admitted') =
          Cardinality(Fresh) + Cardinality(Admitted') - Cardinality(Fresh \cap Admitted')
    BY <2>3, <2>7, FS_Union
  <2>10. Cardinality(Fresh \cup Admitted') <= RateLimit + Workers - 1
    BY <2>1, <2>3, <2>7, <2>8, <2>9
  <2>11. QED BY <2>2, <2>10 DEF Counted
<1>2. ASSUME NEW a \in Asks, Begin(a), RateLimited PROVE Counted'
  <2>1. /\ pc' = [pc EXCEPT ![a] = "done"] /\ recent' = Fresh /\ age' = age
    BY <1>2 DEF Begin
  <2>2. Fresh' \cup Admitted' \subseteq Fresh \cup Admitted
    BY <2>1 DEF Fresh, Admitted, TypeOK
  <2>3. QED BY <2>2, CountedShrinks
<1>3. ASSUME NEW a \in Asks, AskStep(a) PROVE Counted'
  <2>1. CASE Enqueue(a)
    <3>1. Fresh' \cup Admitted' \subseteq Fresh \cup Admitted
      BY <2>1 DEF Enqueue, Fresh, Admitted, TypeOK
    <3>2. QED BY <3>1, CountedShrinks
  <2>2. CASE ~Enqueue(a)
    <3>1. /\ \E s \in {"waiting", "expired", "done"} : pc' = [pc EXCEPT ![a] = s]
          /\ recent' = recent /\ age' = age
      BY <1>3, <2>2 DEF AskStep, RefuseUnattended, Present, Wake, WaitExpires, GiveUp
    <3>2. Fresh' \cup Admitted' \subseteq Fresh \cup Admitted
      BY <3>1 DEF Fresh, Admitted, TypeOK
    <3>3. QED BY <3>2, CountedShrinks
  <2>3. QED BY <2>1, <2>2
<1>4. ASSUME UNCHANGED <<pc, age, recent>> PROVE Counted'
  BY <1>4, CountedShrinks DEF Fresh, Admitted
<1>5. ASSUME Tick PROVE Counted'
  <2>1. pc' = pc /\ recent' = recent /\ \A a \in Asks : age'[a] >= age[a] /\ age[a] \in Nat
    BY <1>5 DEF Tick, TypeOK, Horizon
  <2>2. Fresh' \cup Admitted' \subseteq Fresh \cup Admitted
    <3>1. \A a \in Asks : age'[a] \in Nat
      BY <1>5, <2>1 DEF Tick
    <3>2. QED BY <2>1, <3>1 DEF Fresh, Admitted, TypeOK
  <2>3. QED BY <2>2, CountedShrinks
<1>6. CASE \E a \in Asks : \/ \E o \in Choices : Respond(a, o)
                           \/ WindowExpires(a) \/ SetEvent(a) \/ DenyOne(a)
  BY <1>4, <1>6 DEF Respond, WindowExpires, SetEvent, DenyOne
<1>7. CASE DenyAll \/ DenyAllReturns \/ UNCHANGED vars
  BY <1>4, <1>7 DEF DenyAll, DenyAllReturns, vars
<1>8. QED BY <1>1, <1>2, <1>3, <1>5, <1>6, <1>7 DEF Next

-----------------------------------------------------------------------------
LEMMA Inductive == Spec => []IInv
<1>1. Init => IInv
  BY InitTypeOK, InitConsistent, InitCounted DEF IInv
<1>2. IInv /\ [Next]_vars => IInv'
  BY NextTypeOK, NextConsistent, NextCounted DEF IInv
<1>3. QED BY <1>1, <1>2, PTL DEF Spec

(* Whoever races to settle a request, it is settled once, and a call that  *)
(* has returned leaves nothing to answer.                                  *)
THEOREM OnceOnly == Spec => []SettledOnce
<1>1. IInv => SettledOnce
  <2> SUFFICES ASSUME IInv, NEW a \in Asks
               PROVE  /\ Len(history[a]) <= 1
                      /\ (Len(history[a]) = 1 \/ pc[a] = "done") => a \notin pending
    BY DEF SettledOnce
  <2>1. Fits(a) /\ pc[a] \in Stage
    BY DEF IInv, Consistent, TypeOK
  <2>2. CASE history[a] = <<>>
    BY <2>1, <2>2 DEF Fits
  <2>3. CASE Settled(a)
    BY <2>3 DEF Settled
  <2>4. CASE history[a] = <<"rate_limited">> /\ a \notin pending
    BY <2>4
  <2>5. QED BY <2>1, <2>2, <2>3, <2>4 DEF Fits, Stage, Unsettled
<1>2. QED BY <1>1, Inductive, PTL

(* The queue fails closed: no call comes back approved unless the history  *)
(* shows that very approval.                                               *)
THEOREM FailsClosed == Spec => []ApprovedIsRecorded
<1>1. IInv => ApprovedIsRecorded
  <2> SUFFICES ASSUME IInv, NEW a \in Asks, result[a] \in Approved
               PROVE  history[a] = <<result[a]>>
    BY DEF ApprovedIsRecorded
  <2>1. Fits(a) /\ pc[a] \in Stage
    BY DEF IInv, Consistent, TypeOK
  <2>2. pc[a] = "done"
    BY <2>1 DEF Fits, Stage, Approved
  <2>3. Settled(a) /\ result[a] = decision[a]
    BY <2>1, <2>2 DEF Fits, Approved
  <2>4. QED BY <2>3 DEF Settled
<1>2. QED BY <1>1, Inductive, PTL

(* The rate limit is overrun by fewer calls than there are worker threads. *)
THEOREM BoundedBurst == Spec => []BurstBound
<1>1. IInv => BurstBound
  <2> SUFFICES ASSUME IInv PROVE Cardinality(Fresh) <= RateLimit + Workers - 1
    BY DEF BurstBound
  <2>1. IsFiniteSet(Fresh \cup Admitted)
    <3>1. Fresh \cup Admitted \subseteq Asks
      BY DEF IInv, TypeOK, Fresh, Admitted
    <3>2. QED BY <3>1, FS_Subset
  <2>2. /\ IsFiniteSet(Fresh)
        /\ Cardinality(Fresh) <= Cardinality(Fresh \cup Admitted)
    BY <2>1, FS_Subset
  <2>3. Cardinality(Fresh) \in Nat /\ Cardinality(Fresh \cup Admitted) \in Nat
    BY <2>1, <2>2, FS_CardinalityType
  <2>4. QED BY <2>2, <2>3 DEF IInv, Counted
<1>2. QED BY <1>1, Inductive, PTL

-----------------------------------------------------------------------------
(* A step that concerns only request a leaves every other ruling alone.    *)
LEMMA RulingFrame ==
  ASSUME NEW a \in Asks,
         \A b \in Asks : b # a => history'[b] = history[b] /\ (b \in pending' <=> b \in pending)
  PROVE  Ruling' = [Ruling EXCEPT ![a] = Ruling'[a]]
  BY DEF Ruling

LEMMA RulingUnchanged ==
  ASSUME history' = history, pending' = pending
  PROVE  Ruling' = Ruling
  BY DEF Ruling

(* Settling rules an open request and leaves a settled one alone.          *)
LEMMA SettleRules ==
  ASSUME TypeOK, NEW a \in Asks, NEW o \in Outcome, Settle(a, o),
         Unsettled(a) \/ Settled(a)
  PROVE  /\ Ruling' = [Ruling EXCEPT ![a] = IF @ = "open" THEN o ELSE @]
         /\ Unsettled(a) => Ruling[a] = "open"
         /\ Settled(a) => Ruling[a] = decision[a] /\ Ruling' = Ruling
<1>1. Ruling' = [Ruling EXCEPT ![a] = Ruling'[a]]
  <2>1. \A b \in Asks : b # a => history'[b] = history[b] /\ (b \in pending' <=> b \in pending)
    BY SettleOthers
  <2>2. QED BY <2>1, RulingFrame
<1>2. ASSUME Unsettled(a)
      PROVE  Ruling[a] = "open" /\ Ruling'[a] = o
  <2>1. Ruling[a] = "open"
    BY <1>2 DEF Unsettled, Ruling
  <2>2. history'[a] = <<o>>
    BY <1>2, SettleEffect DEF Settled
  <2>3. QED BY <2>1, <2>2 DEF Ruling
<1>3. ASSUME Settled(a)
      PROVE  Ruling[a] = decision[a] /\ Ruling' = Ruling /\ Ruling[a] # "open"
  <2>1. Ruling[a] = decision[a] /\ decision[a] # "open"
    BY <1>3 DEF Settled, Ruling, Outcome, Approved
  <2>2. history'[a] = history[a] /\ a \notin pending /\ a \notin pending'
    BY <1>3, SettleEffect DEF Settled
  <2>3. Ruling'[a] = Ruling[a]
    BY <2>2 DEF Ruling
  <2>4. Ruling' = Ruling
    BY <1>1, <2>3 DEF Ruling
  <2>5. QED BY <2>1, <2>4
<1>4. CASE Unsettled(a)
  <2>1. Ruling[a] = "open" /\ Ruling'[a] = o
    BY <1>2, <1>4
  <2>2. Ruling' = [Ruling EXCEPT ![a] = IF @ = "open" THEN o ELSE @]
    BY <1>1, <2>1 DEF Ruling
  <2>3. ~Settled(a)
    BY <1>4 DEF Unsettled, Settled
  <2>4. QED BY <2>1, <2>2, <2>3
<1>5. CASE Settled(a)
  <2>1. Ruling[a] = decision[a] /\ Ruling' = Ruling /\ Ruling[a] # "open"
    BY <1>3, <1>5
  <2>2. Ruling' = [Ruling EXCEPT ![a] = IF @ = "open" THEN o ELSE @]
    BY <2>1 DEF Ruling
  <2>3. ~Unsettled(a)
    BY <1>5 DEF Unsettled, Settled
  <2>4. QED BY <2>1, <2>2, <2>3
<1>6. QED BY <1>4, <1>5

LEMMA InitPromise == Init => Promise!Init
  BY DEF Init, Promise!Init, Ruling

LEMMA StepPromise ==
  TypeOK /\ Consistent /\ [Next]_vars => [Promise!Next]_<<Ruling, result>>
<1> SUFFICES ASSUME TypeOK, Consistent, [Next]_vars
             PROVE  Promise!Next \/ UNCHANGED <<Ruling, result>>
  BY DEF Promise!vars
<1> USE DEF Promise!Next
<1>1. ASSUME NEW a \in Asks, Begin(a), RateLimited PROVE Promise!Next
  <2>1. /\ pc[a] = "idle" /\ pending' = pending
        /\ history' = [history EXCEPT ![a] = Append(@, "rate_limited")]
        /\ result' = [result EXCEPT ![a] = "rate_limited"]
    BY <1>1 DEF Begin
  <2>2. history[a] = <<>> /\ a \notin pending
    BY <2>1 DEF Consistent, Fits
  <2>3. history'[a] = <<"rate_limited">>
    BY <2>1, <2>2 DEF TypeOK
  <2>4. Ruling[a] = "none" /\ Ruling'[a] = "rate_limited"
    BY <2>2, <2>3 DEF Ruling
  <2>5. Ruling' = [Ruling EXCEPT ![a] = "rate_limited"]
    <3>1. \A b \in Asks : b # a => history'[b] = history[b] /\ (b \in pending' <=> b \in pending)
      BY <2>1 DEF TypeOK
    <3>2. QED BY <2>4, <3>1, RulingFrame
  <2>6. Promise!TurnAway(a)
    BY <2>1, <2>4, <2>5 DEF Promise!TurnAway
  <2>7. QED BY <2>6
<1>2. ASSUME NEW a \in Asks, Begin(a), ~RateLimited PROVE UNCHANGED <<Ruling, result>>
  BY <1>2, RulingUnchanged DEF Begin
<1>3. ASSUME NEW a \in Asks, Enqueue(a) PROVE Promise!Next
  <2>1. /\ history' = history /\ pending' = pending \cup {a} /\ result' = result
        /\ pc[a] = "admitted"
    BY <1>3 DEF Enqueue
  <2>2. history[a] = <<>> /\ a \notin pending
    BY <2>1 DEF Consistent, Fits
  <2>3. Ruling[a] = "none" /\ Ruling'[a] = "open"
    BY <2>1, <2>2 DEF Ruling
  <2>4. Ruling' = [Ruling EXCEPT ![a] = "open"]
    BY <2>1, <2>3, RulingFrame
  <2>5. Promise!Open(a)
    BY <2>1, <2>3, <2>4 DEF Promise!Open
  <2>6. QED BY <2>5
<1>4. ASSUME NEW a \in Asks, NEW o \in {"deny", "timed_out"}, Settle(a, o),
             pc[a] \in {"refusing", "expired"},
             result' = [result EXCEPT ![a] = o]
      PROVE  Promise!Next
  <2>1. result[a] = "none" /\ (Unsettled(a) \/ Settled(a))
    BY <1>4 DEF Consistent, Fits
  <2>2. o \in Outcome /\ o \in Promise!Refused
    BY DEF Outcome, Promise!Refused
  <2>3. /\ Ruling' = [Ruling EXCEPT ![a] = IF @ = "open" THEN o ELSE @]
        /\ Ruling[a] # "none"
    BY <1>4, <2>1, <2>2, SettleRules DEF Settled, Outcome, Approved
  <2>4. Promise!GiveUp(a, o)
    BY <1>4, <2>1, <2>3 DEF Promise!GiveUp
  <2>5. QED BY <2>2, <2>4
<1>5. ASSUME NEW a \in Asks, Wake(a) PROVE Promise!Next
  <2>1. /\ pc[a] = "waiting" /\ event[a]
        /\ result' = [result EXCEPT ![a] = decision[a]]
        /\ history' = history /\ pending' = pending
    BY <1>5 DEF Wake
  <2>2. Settled(a) /\ result[a] = "none"
    BY <2>1 DEF Consistent, Fits, Unsettled
  <2>3. Ruling[a] = decision[a] /\ decision[a] \in Promise!Outcomes
    BY <2>2 DEF Settled, Ruling, Outcome, Approved, Promise!Outcomes, Promise!Approved,
                Promise!Refused
  <2>4. Ruling' = Ruling
    BY <2>1, RulingUnchanged
  <2>5. Promise!Reply(a)
    BY <2>1, <2>2, <2>3, <2>4 DEF Promise!Reply
  <2>6. QED BY <2>5
<1>6. ASSUME NEW a \in Asks, NEW o \in Outcome, Settle(a, o), result' = result
      PROVE  Promise!Next \/ UNCHANGED <<Ruling, result>>
  <2>1. CASE a \notin pending
    <3>1. history' = history /\ pending' = pending
      BY <1>6, <2>1 DEF Settle, TypeOK
    <3>2. QED BY <1>6, <3>1, RulingUnchanged
  <2>2. CASE a \in pending
    <3>1. Unsettled(a)
      BY <2>2 DEF Consistent, Fits, Settled, TypeOK, Stage
    <3>2. Ruling' = [Ruling EXCEPT ![a] = o] /\ Ruling[a] = "open"
      BY <1>6, <3>1, SettleRules
    <3>3. o \in Promise!Outcomes
      BY DEF Outcome, Approved, Promise!Outcomes, Promise!Approved, Promise!Refused
    <3>4. Promise!Rule(a, o)
      BY <1>6, <3>2 DEF Promise!Rule
    <3>5. QED BY <3>3, <3>4
  <2>3. QED BY <2>1, <2>2
<1>7. ASSUME history' = history, pending' = pending, result' = result
      PROVE  UNCHANGED <<Ruling, result>>
  BY <1>7, RulingUnchanged
<1>8. ASSUME NEW a \in Asks, AskStep(a)
      PROVE  Promise!Next \/ UNCHANGED <<Ruling, result>>
  <2>1. CASE RefuseUnattended(a)
    BY <1>4, <2>1 DEF RefuseUnattended
  <2>2. CASE GiveUp(a)
    BY <1>4, <2>2 DEF GiveUp
  <2>3. CASE Present(a) \/ WaitExpires(a)
    BY <1>7, <2>3 DEF Present, WaitExpires
  <2>4. QED BY <1>3, <1>5, <1>8, <2>1, <2>2, <2>3 DEF AskStep
<1>9. ASSUME NEW a \in Asks, NEW o \in Choices, Respond(a, o)
      PROVE  Promise!Next \/ UNCHANGED <<Ruling, result>>
  <2>1. o \in Outcome
    BY DEF Outcome, Approved
  <2>2. QED BY <1>6, <1>9, <2>1 DEF Respond
<1>10. ASSUME NEW a \in Asks, WindowExpires(a) \/ DenyOne(a)
       PROVE  Promise!Next \/ UNCHANGED <<Ruling, result>>
  <2>1. "timed_out" \in Outcome /\ "deny" \in Outcome
    BY DEF Outcome
  <2>2. CASE WindowExpires(a)
    BY <1>6, <2>1, <2>2 DEF WindowExpires
  <2>3. CASE DenyOne(a)
    BY <1>6, <2>1, <2>3 DEF DenyOne
  <2>4. QED BY <1>10, <2>2, <2>3
<1>11. ASSUME NEW a \in Asks, SetEvent(a) PROVE UNCHANGED <<Ruling, result>>
  BY <1>7, <1>11 DEF SetEvent
<1>12. CASE DenyAll \/ DenyAllReturns \/ Tick \/ UNCHANGED vars
  BY <1>7, <1>12 DEF DenyAll, DenyAllReturns, Tick, vars
<1>13. CASE \E a \in Asks : \/ Begin(a) \/ AskStep(a)
                            \/ \E o \in Choices : Respond(a, o)
                            \/ WindowExpires(a) \/ SetEvent(a) \/ DenyOne(a)
  BY <1>1, <1>2, <1>8, <1>9, <1>10, <1>11, <1>13
<1>14. QED BY <1>12, <1>13 DEF Next

(* The queue implements its promise: a reply is the final ruling, or a     *)
(* refusal, and comes only after the request was opened and ruled on.      *)
THEOREM ImplementsPromise == Spec => Promise!Spec
<1>1. IInv /\ [Next]_vars => [Promise!Next]_<<Ruling, result>>
  BY StepPromise DEF IInv
<1>2. Spec => Promise!Init /\ [][Promise!Next]_<<Ruling, result>>
  BY <1>1, InitPromise, Inductive, PTL DEF Spec
<1>3. QED BY <1>2 DEF Promise!Spec, Promise!vars

-----------------------------------------------------------------------------
(***************************************************************************)
(* However many requests there are: while a call waits for its answer a    *)
(* prompt can still give it.  A window goes only by answering first, or    *)
(* by being doomed, and only the thread that has stopped waiting dooms it. *)
(***************************************************************************)

PromptOutcomes == {Answered, "timed out"}

PromptTypeI ==
  /\ settled \in [Requests -> {"unasked", "pending"} \cup PromptOutcomes]
  /\ asker \in [Requests -> {"off", "waiting", "expired", "back"}]
  /\ prompt \in [Requests -> {"none", "starting", "rooted", "up", "gone", "dead"}]
  /\ windows \subseteq Requests /\ doomed \subseteq Requests
  /\ owed \in [Requests -> {Nothing} \cup PromptOutcomes]

(* What goes with a request that nobody has asked about yet.               *)
Untouched ==
  \A r \in Requests : settled[r] = "unasked" => asker[r] = "off" /\ prompt[r] = "none"

DoomedByItsCall == \A r \in doomed : asker[r] \in {"expired", "back"}

(* A prompt that is gone had an answer to report, unless its call had left *)
(* it; a report settles the request.                                       *)
GoneForAReason ==
  \A r \in Requests :
    asker[r] = "waiting" /\ settled[r] = "pending"
    => prompt[r] \in {"starting", "rooted", "up", "dead"} \/ owed[r] # Nothing

(* A prompt has nothing to report before it goes.                          *)
ReportsLast == \A r \in Requests : prompt[r] # "gone" => owed[r] = Nothing

PromptInv == PromptTypeI /\ Untouched /\ DoomedByItsCall /\ GoneForAReason /\ ReportsLast

LEMMA InitPromptInv == PromptInit => PromptInv
BY DEF PromptInit, PromptInv, PromptTypeI, Untouched, DoomedByItsCall, GoneForAReason, ReportsLast,
       Nothing, Answered, PromptOutcomes

LEMMA NextPromptInv == PromptInv /\ [PromptNext]_promptVars => PromptInv'
<1> SUFFICES ASSUME PromptInv, [PromptNext]_promptVars PROVE PromptInv'
  OBVIOUS
<1> USE DEF PromptInv, PromptTypeI, Untouched, DoomedByItsCall, GoneForAReason, ReportsLast,
            Nothing, Answered, PromptOutcomes
<1>1. ASSUME NEW r \in Requests, Presents(r) PROVE PromptInv'
  BY <1>1 DEF Presents, Turn
<1>2. ASSUME NEW r \in Requests, Roots(r) PROVE PromptInv'
  BY <1>2 DEF Roots, Turn
<1>3. ASSUME NEW r \in Requests, Registers(r) PROVE PromptInv'
  BY <1>3 DEF Registers, Turn
<1>4. ASSUME NEW r \in Requests, NEW outcome \in PromptOutcomes, Answers(r, outcome) PROVE PromptInv'
  BY <1>4 DEF Answers, Turn
<1>5. ASSUME NEW r \in Requests, Responds(r) PROVE PromptInv'
  BY <1>5 DEF Responds
<1>6. ASSUME NEW r \in Requests, Elsewhere(r) PROVE PromptInv'
  BY <1>6 DEF Elsewhere
<1>7. ASSUME NEW r \in Requests, TimePasses(r) PROVE PromptInv'
  BY <1>7 DEF TimePasses
<1>8. ASSUME NEW r \in Requests, Returns(r) PROVE PromptInv'
  BY <1>8 DEF Returns
<1>9. ASSUME NEW r \in Requests, Withdraws(r) PROVE PromptInv'
  BY <1>9 DEF Withdraws
<1>10. ASSUME NEW r \in Requests, Expires(r) PROVE PromptInv'
  BY <1>10 DEF Expires
<1>11. ASSUME NEW r \in Requests, Destroys(r) PROVE PromptInv'
  BY <1>11 DEF Destroys, Turn
<1>12. ASSUME UNCHANGED promptVars PROVE PromptInv'
  BY <1>12 DEF promptVars
<1>13. ASSUME NEW r \in Requests, Breaks(r) \/ ReaderFails(r) PROVE PromptInv'
  <2>1. /\ prompt' = [prompt EXCEPT ![r] = "dead"] /\ prompt[r] \in {"starting", "rooted", "up"}
        /\ UNCHANGED <<settled, asker, windows, doomed, owed>>
    BY <1>13 DEF Breaks, ReaderFails, Turn
  <2> QED BY <2>1
<1> QED
  BY <1>1, <1>2, <1>3, <1>4, <1>5, <1>6, <1>7, <1>8, <1>9, <1>10, <1>11, <1>12, <1>13
  DEF PromptNext, WindowStep, CallStep, Presses, Types, Ticks

(* No other request's end takes away the prompt of a call that waits       *)
(* (notifier_tk.py:75-81, 104-112).                                        *)
THEOREM PromptsStand == PromptSpec => []PromptStands
<1>1. PromptInv => PromptStands
  BY DEF PromptInv, DoomedByItsCall, GoneForAReason, PromptStands
<1> QED BY InitPromptInv, NextPromptInv, <1>1, PTL DEF PromptSpec

(* How many steps a request that was asked about has before it, at the     *)
(* most: those of its call, of its prompt, a report, and the clock's.      *)
PromptLeft(r) ==
  (CASE asker[r] = "waiting" -> 2 [] asker[r] = "expired" -> 1 [] OTHER -> 0)
  + (CASE prompt[r] = "starting" -> 4 [] prompt[r] = "rooted" -> 3 [] prompt[r] = "up" -> 2 [] OTHER -> 0)
  + (IF owed[r] = Nothing THEN 0 ELSE 1) + (IF r \in late THEN 0 ELSE 1)

PromptStep(r) == \/ TimePasses(r) \/ WindowStep(r) \/ CallStep(r)
                 \/ Presses(r) \/ Types(r) \/ Breaks(r) \/ ReaderFails(r)

PromptsRunOut ==
  [][\A r \in Requests :
       settled[r] # "unasked" => /\ PromptLeft(r) <= 7
                                 /\ PromptStep(r)  => PromptLeft(r)' < PromptLeft(r)
                                 /\ ~PromptStep(r) => PromptLeft(r)' = PromptLeft(r)]_promptVars

(* Each of its steps ends something, ...                                   *)
LEMMA PromptStepsDown ==
  ASSUME PromptTypeI, NEW r \in Requests, PromptStep(r)
  PROVE  PromptLeft(r)' < PromptLeft(r)
<1> USE DEF PromptTypeI, PromptLeft, Turn
<1>1. CASE TimePasses(r) BY <1>1 DEF TimePasses
<1>2. CASE Roots(r) BY <1>2 DEF Roots
<1>3. CASE Registers(r) BY <1>3 DEF Registers
<1>4. ASSUME NEW outcome, Answers(r, outcome) PROVE PromptLeft(r)' < PromptLeft(r)
  BY <1>4 DEF Answers
<1>5. CASE Destroys(r) BY <1>5 DEF Destroys
<1>6. CASE Responds(r) BY <1>6 DEF Responds
<1>7. CASE Returns(r) BY <1>7 DEF Returns
<1>8. CASE Withdraws(r) BY <1>8 DEF Withdraws
<1>9. CASE Expires(r)
  <2>1. asker[r] = "expired" /\ asker'[r] = "back" /\ UNCHANGED <<prompt, owed, late>>
    BY <1>9 DEF Expires
  <2> QED BY <2>1
<1>10. CASE Breaks(r) \/ ReaderFails(r) BY <1>10 DEF Breaks, ReaderFails
<1> HIDE DEF PromptTypeI, PromptLeft, Turn
<1> QED BY <1>1, <1>2, <1>3, <1>4, <1>5, <1>6, <1>7, <1>8, <1>9, <1>10
        DEF PromptStep, WindowStep, CallStep, Presses, Types, Ticks

(* ... and no other request's, nor a ruling from elsewhere, brings         *)
(* anything back.                                                          *)
LEMMA PromptsApart ==
  ASSUME PromptTypeI, [PromptNext]_promptVars, NEW r \in Requests, settled[r] # "unasked", ~PromptStep(r)
  PROVE  PromptLeft(r)' = PromptLeft(r)
<1> SUFFICES UNCHANGED <<asker[r], prompt[r], owed[r]>> /\ (r \in late' <=> r \in late)
  BY DEF PromptLeft
<1> USE DEF PromptTypeI, Turn
<1>1. ASSUME NEW q \in Requests \ {r}, PromptStep(q) \/ Presents(q)
      PROVE  UNCHANGED <<asker[r], prompt[r], owed[r]>> /\ (r \in late' <=> r \in late)
  <2>1. CASE Presents(q) BY <2>1 DEF Presents
  <2>2. CASE TimePasses(q) BY <2>2 DEF TimePasses
  <2>3. CASE Roots(q) \/ Registers(q) \/ Destroys(q) BY <2>3 DEF Roots, Registers, Destroys
  <2>4. ASSUME NEW outcome, Answers(q, outcome)
        PROVE  UNCHANGED <<asker[r], prompt[r], owed[r]>> /\ (r \in late' <=> r \in late)
    BY <2>4 DEF Answers
  <2>5. CASE Responds(q) BY <2>5 DEF Responds
  <2>6. CASE CallStep(q) BY <2>6 DEF CallStep, Returns, Withdraws, Expires
  <2>7. CASE Breaks(q) \/ ReaderFails(q) BY <2>7 DEF Breaks, ReaderFails
  <2> QED BY <1>1, <2>1, <2>2, <2>3, <2>4, <2>5, <2>6, <2>7 DEF PromptStep, WindowStep, Presses, Types, Ticks
<1>2. ~Presents(r) BY DEF Presents
<1>3. CASE (\E q \in Requests : Elsewhere(q)) \/ UNCHANGED promptVars BY <1>3 DEF Elsewhere, promptVars
<1> QED BY <1>1, <1>2, <1>3 DEF PromptNext, PromptStep

(* From the moment a request is shown at most seven steps are left of its  *)
(* call, its prompt and its clock, whoever answers it and whatever is      *)
(* asked besides: so none of them can hold off another for ever            *)
(* (notifier_tk.py:75-81, 154-164; approvals.py:180-193).                  *)
THEOREM PromptsComeToAnEnd == PromptSpec => PromptsRunOut
<1>1. PromptInv /\ [PromptNext]_promptVars =>
        [\A r \in Requests :
           settled[r] # "unasked" => /\ PromptLeft(r) <= 7
                                     /\ PromptStep(r)  => PromptLeft(r)' < PromptLeft(r)
                                     /\ ~PromptStep(r) => PromptLeft(r)' = PromptLeft(r)]_promptVars
  <2> SUFFICES ASSUME PromptInv, [PromptNext]_promptVars, NEW r \in Requests, settled[r] # "unasked"
               PROVE  /\ PromptLeft(r) <= 7
                      /\ PromptStep(r)  => PromptLeft(r)' < PromptLeft(r)
                      /\ ~PromptStep(r) => PromptLeft(r)' = PromptLeft(r)
    OBVIOUS
  <2>1. PromptTypeI BY DEF PromptInv
  <2>2. PromptLeft(r) <= 7 BY DEF PromptInv, ReportsLast, PromptLeft
  <2> QED BY <2>1, <2>2, PromptStepsDown, PromptsApart
<1> QED BY <1>1, InitPromptInv, NextPromptInv, PTL DEF PromptSpec, PromptsRunOut
=============================================================================
