------------------------ MODULE RunbookDeliveryProofs ------------------------
(***************************************************************************)
(* RunbookWorker implements RunbookDelivery, for every set of pods,        *)
(* payloads, configuration and bound: each shape of step is a step of the  *)
(* abstract specification or leaves all of its variables alone.  OrderInv  *)
(* is needed for the order in which positions are performed.               *)
(***************************************************************************)
EXTENDS RunbookHistoryProofs

\* An interval from 1 tells its length.
LEMMA SameInterval ==
    ASSUME NEW m \in Nat, NEW n \in Nat, 1..m = 1..n
    PROVE  m = n
<1>1. ASSUME NEW i \in Nat, NEW j \in Nat, i < j
      PROVE  1..i # 1..j
  <2>1. j \in 1..j /\ j \notin 1..i
    BY <1>1
  <2>2. QED
    BY <2>1
<1>2. ~(m < n) /\ ~(n < m)
  BY <1>1
<1>3. QED
  BY <1>2

\* The variables of RunbookDelivery.
Held      == {m \in DOMAIN fate : fate[m].status = "in_hand"}
Ahead     == UNION {{<<hand[w], i>> : i \in todo[w]} : w \in Workers}
Performed == {<<s.msg, s.index>> : s \in steps}

AheadOf(m) == {e \in Ahead : e[1] = m}

\* Nobody else has work on the message a worker has in hand.
LEMMA WorkDiffers ==
    ASSUME CooldownInv, NEW v \in Workers, NEW w \in Workers, v # w, todo[v] # {}
    PROVE  hand[v] # hand[w]
<1>1. pc[v] \in Handling /\ hand[v] # 0
  BY DEF CooldownInv, WorkIsPlanned, InHandIsHeld, Handling
<1>2. CASE pc[w] \in Handling
  BY <1>1, <1>2, HandsDiffer
<1>3. CASE pc[w] \notin Handling
  BY <1>1, <1>3 DEF CooldownInv, InHandIsHeld, Handling
<1>4. QED
  BY <1>2, <1>3

\* What is ahead of w is replaced; what is ahead of the others stays.
LEMMA AheadReplaced ==
    ASSUME CooldownInv, NEW w \in Workers, \A v \in Workers : v # w => Still(v)
    PROVE  Ahead' = (Ahead \ AheadOf(hand[w])) \cup {<<hand'[w], i>> : i \in todo'[w]}
<1> DEFINE new == {<<hand'[w], i>> : i \in todo'[w]}
<1>1. ASSUME NEW e \in Ahead'
      PROVE  e \in (Ahead \ AheadOf(hand[w])) \cup new
  <2>1. PICK v \in Workers : \E i \in todo'[v] : e = <<hand'[v], i>>
    BY <1>1 DEF Ahead
  <2>2. CASE v = w
    BY <2>1, <2>2
  <2>3. CASE v # w
    <3>1. PICK i \in todo[v] : e = <<hand[v], i>>
      BY <2>1, <2>3 DEF Still
    <3>2. e \in Ahead /\ e[1] = hand[v] /\ hand[v] # hand[w]
      BY <2>3, <3>1, WorkDiffers DEF Ahead
    <3>3. QED
      BY <3>2 DEF AheadOf
  <2>4. QED
    BY <2>2, <2>3
<1>2. new \subseteq Ahead'
  BY DEF Ahead
<1>3. ASSUME NEW e \in Ahead \ AheadOf(hand[w])
      PROVE  e \in Ahead'
  <2>1. PICK v \in Workers : \E i \in todo[v] : e = <<hand[v], i>>
    BY <1>3 DEF Ahead
  <2>2. v # w
    BY <1>3, <2>1 DEF AheadOf
  <2>3. \E i \in todo'[v] : e = <<hand'[v], i>>
    BY <2>1, <2>2 DEF Still
  <2>4. QED
    BY <2>3 DEF Ahead
<1>4. QED
  BY <1>1, <1>2, <1>3

\* What is ahead of w is what it has to run of the message in hand.
LEMMA AheadIsWork ==
    ASSUME CooldownInv, NEW w \in Workers
    PROVE  AheadOf(hand[w]) = {<<hand[w], i>> : i \in todo[w]}
<1>1. ASSUME NEW e \in AheadOf(hand[w])
      PROVE  e \in {<<hand[w], i>> : i \in todo[w]}
  <2>1. PICK v \in Workers : \E i \in todo[v] : e = <<hand[v], i>>
    BY <1>1 DEF AheadOf, Ahead
  <2>2. hand[v] = hand[w]
    BY <1>1, <2>1 DEF AheadOf
  <2>3. v = w
    BY <2>1, <2>2, WorkDiffers
  <2>4. QED
    BY <2>1, <2>3
<1>2. \A i \in todo[w] : <<hand[w], i>> \in AheadOf(hand[w])
  BY DEF AheadOf, Ahead
<1>3. QED
  BY <1>1, <1>2

\* A position to be validated or run is one some plan has.
LEMMA PositionKnown ==
    ASSUME CooldownInv, NEW w \in Workers, NEW i \in pending[w] \cup todo[w]
    PROVE  i \in PlanPositions
<1>1. pc[w] \in Planning
  BY DEF CooldownInv, WorkIsPlanned, Planning
<1>2. sent[hand[w]].kind = "runbook" /\ i \in BuildExecutionPlan(sent[hand[w]])
  BY <1>1 DEF CooldownInv, WorkIsPlanned, Planning
<1>3. sent[hand[w]] \in Payloads
  BY <1>1, HandTaken DEF CooldownInv, TypedInv, Planning
<1>4. QED
  BY <1>2, <1>3 DEF BuildExecutionPlan, PlanPositions

-----------------------------------------------------------------------------
(* The shapes of steps, as steps of RunbookDelivery.                       *)

DeliveryStep == [Delivery!Next]_(Delivery!vars)

\* What the holder of a message may do.
LEMMA HolderStep ==
    ASSUME NEW w \in Workers, hand[w] \in Held,
           \/ Delivery!Settle(hand[w])
           \/ \E i \in PlanPositions : \/ Delivery!Plan(hand[w], i)
                                       \/ Delivery!Perform(hand[w], i)
    PROVE  DeliveryStep
<1>1. PICK m \in Held : m = hand[w]
  OBVIOUS
<1>2. Delivery!Settle(m)
        \/ \E i \in PlanPositions : Delivery!Plan(m, i) \/ Delivery!Perform(m, i)
  BY <1>1 DEF Delivery!Settle, Delivery!Plan, Delivery!Perform, Delivery!Of
<1>3. Delivery!Next
  BY <1>2 DEF Delivery!Next, Held
<1>4. QED
  BY <1>3 DEF DeliveryStep

\* Nothing RunbookDelivery speaks of changes.
LEMMA StutterStep ==
    ASSUME Len(sent') = Len(sent), Len(fate') = Len(fate),
           Held' = Held, Ahead' = Ahead, Performed' = Performed
    PROVE  DeliveryStep
  BY DEF DeliveryStep, Delivery!vars, Held, Ahead, Performed

\* Agent 1 pushes a payload, or nothing of RunbookDelivery happens.
LEMMA RestStep ==
    ASSUME CooldownInv, Rests
    PROVE  DeliveryStep
<1>1. /\ Len(sent') \in {Len(sent), Len(sent) + 1}
      /\ UNCHANGED <<fate, steps, hand, todo>>
  BY DEF Rests
<1>2. Len(fate') = Len(fate) /\ Held' = Held /\ Ahead' = Ahead /\ Performed' = Performed
  BY <1>1 DEF Held, Ahead, Performed
<1>3. CASE Len(sent') = Len(sent)
  BY <1>2, <1>3, StutterStep
<1>4. CASE Len(sent') = Len(sent) + 1
  <2>1. Delivery!Send
    BY <1>2, <1>4 DEF Delivery!Send, Held, Ahead, Performed
  <2>2. QED
    BY <2>1 DEF DeliveryStep, Delivery!Next
<1>5. QED
  BY <1>1, <1>3, <1>4

\* A worker that has nothing to run before and after, or the same.
LEMMA SameAhead ==
    ASSUME CooldownInv, NEW w \in Workers, \A v \in Workers : v # w => Still(v),
           todo'[w] = todo[w], hand'[w] = hand[w] \/ todo[w] = {}
    PROVE  Ahead' = Ahead
<1>1. /\ Ahead' = (Ahead \ AheadOf(hand[w])) \cup {<<hand'[w], i>> : i \in todo'[w]}
      /\ AheadOf(hand[w]) = {<<hand[w], i>> : i \in todo[w]}
  BY AheadReplaced, AheadIsWork
<1>2. {<<hand'[w], i>> : i \in todo'[w]} = AheadOf(hand[w])
  <2>1. CASE hand'[w] = hand[w]
    BY <1>1, <2>1
  <2>2. CASE todo[w] = {}
    BY <1>1, <2>2
  <2>3. QED
    BY <2>1, <2>2
<1>3. AheadOf(hand[w]) \subseteq Ahead
  BY DEF AheadOf
<1>4. QED
  BY <1>1, <1>2, <1>3

\* A message leaves the list, for the worker or for nobody.
LEMMA TakeStep ==
    ASSUME CooldownInv, CooldownInv', NEW w \in Workers, Takes(w)
    PROVE  DeliveryStep
<1> DEFINE n == Len(fate) + 1
<1>1. /\ sent' = sent /\ steps' = steps /\ todo' = todo /\ pc[w] = "polling"
      /\ DOMAIN fate' = DOMAIN fate \cup {n} /\ n \notin DOMAIN fate
      /\ \A v \in Workers : v # w => Still(v)
      /\ \A m \in DOMAIN fate : fate'[m] = fate[m]
  BY DEF Takes, Only
<1>2. fate \in Seq(Fate) /\ fate' \in Seq(Fate) /\ Len(fate') <= Len(sent')
  BY DEF CooldownInv, TypeOK
<1>3. Len(fate') = n /\ Len(fate) < Len(sent)
  <2>1. Len(fate) \in Nat /\ Len(fate') \in Nat
        /\ DOMAIN fate = 1..Len(fate) /\ DOMAIN fate' = 1..Len(fate')
    BY <1>2
  <2>2. 1..Len(fate) \cup {Len(fate) + 1} = 1..(Len(fate) + 1)
    BY <2>1
  <2>3. Len(fate') = n
    BY <1>1, <2>1, <2>2, SameInterval
  <2>4. Len(sent) \in Nat
    BY DEF CooldownInv, TypeOK
  <2>5. QED
    BY <1>1, <1>2, <2>1, <2>3, <2>4
<1>4. todo[w] = {}
  BY <1>1 DEF CooldownInv, WorkIsPlanned
<1>5. Ahead' = Ahead /\ Performed' = Performed
  <2>1. Ahead' = Ahead
    BY <1>1, <1>4, SameAhead
  <2>2. QED
    BY <1>1, <2>1 DEF Performed
<1>6. Held' = Held \/ Held' = Held \cup {n}
  BY <1>1 DEF Held
<1>7. Delivery!Take \/ Delivery!Lose
  BY <1>1, <1>3, <1>5, <1>6 DEF Delivery!Take, Delivery!Lose, Held, Ahead, Performed
<1>8. QED
  BY <1>7 DEF DeliveryStep, Delivery!Next

\* The handling of the message in hand ends, in whatever way.
LEMMA SettleStep ==
    ASSUME CooldownInv, CooldownInv', NEW w \in Workers, NEW status,
           status # "in_hand", Only(w),
           steps' = steps, Rewritten(w, status), todo'[w] = {}, pc[w] \in Handling
    PROVE  DeliveryStep
<1> DEFINE h == hand[w]
<1>1. h \in Held
  BY DEF Rewritten, Held, CooldownInv, InHandIsHeld, Handling
<1>2. Held' = Held \ {h}
  BY DEF Rewritten, Settled, Held
<1>3. Ahead' = Ahead \ AheadOf(h)
  BY AheadReplaced DEF Only
<1>4. Len(fate') = Len(fate) /\ Len(sent') = Len(sent) /\ Performed' = Performed
  <2>1. DOMAIN fate' = DOMAIN fate /\ sent' = sent /\ steps' = steps
    BY DEF Rewritten, Only
  <2>2. fate \in Seq(Fate) /\ fate' \in Seq(Fate)
    BY DEF CooldownInv, TypeOK
  <2>3. Len(fate') = Len(fate)
    BY <2>1, <2>2, SameInterval
  <2>4. QED
    BY <2>1, <2>3 DEF Performed
<1>5. Delivery!Settle(h)
  BY <1>1, <1>2, <1>3, <1>4 DEF Delivery!Settle, Delivery!Of, Held, Ahead, AheadOf, Performed
<1>6. QED
  BY <1>1, <1>5, HolderStep

\* The process ends: what it had in hand is settled, the rest never begins.
LEMMA LeaveStep ==
    ASSUME CooldownInv, CooldownInv', NEW w \in Workers, Leaves(w)
    PROVE  DeliveryStep
<1>1. /\ Only(w) /\ sent' = sent /\ steps' = steps /\ todo'[w] = {} /\ hand'[w] = 0
      /\ \A v \in Workers : v # w => Still(v)
      /\ fate' = fate \/ Rewritten(w, "crashed")
  BY DEF Leaves, Only
<1>2. CASE hand[w] = 0
  <2>1. pc[w] \notin Handling /\ todo[w] = {}
    BY <1>2 DEF CooldownInv, InHandIsHeld, WorkIsPlanned, Handling
  <2>2. fate' = fate
    BY <1>1, <1>2 DEF Rewritten, CooldownInv, TypeOK
  <2>3. Ahead' = Ahead
    BY <1>1, <2>1, SameAhead
  <2>4. QED
    BY <1>1, <2>2, <2>3, StutterStep DEF Held, Performed
<1>3. CASE hand[w] # 0
  <2>1. hand[w] \in DOMAIN fate /\ fate[hand[w]].status = "in_hand" /\ fate[hand[w]].by = w
        /\ pc[w] \in Handling
    BY <1>3 DEF CooldownInv, InHandIsHeld, Handling
  <2>2. fate' # fate
    BY <1>1, <1>3, <2>1 DEF CooldownInv, InHandIsHeld
  <2>3. QED
    BY <1>1, <2>1, <2>2, SettleStep
<1>4. QED
  BY <1>2, <1>3

\* A process or a call starts: nobody's work changes.
LEMMA WaitStep ==
    ASSUME CooldownInv, NEW w \in Workers, Starts(w) \/ \E i \in Nat : StartsCall(w, i)
    PROVE  DeliveryStep
<1>1. /\ sent' = sent /\ steps' = steps /\ fate' = fate /\ hand' = hand /\ todo' = todo
  BY DEF Starts, StartsCall, Only
<1>2. Held' = Held /\ Ahead' = Ahead /\ Performed' = Performed
  BY <1>1 DEF Held, Ahead, Performed
<1>3. QED
  BY <1>1, <1>2, StutterStep

\* Completing the plan changes neither it nor who holds the message.
LEMMA CommitStep ==
    ASSUME CooldownInv, CooldownInv', NEW w \in Workers, Commits(w)
    PROVE  DeliveryStep
<1>1. /\ sent' = sent /\ steps' = steps /\ hand' = hand /\ todo' = todo
      /\ DOMAIN fate' = DOMAIN fate
      /\ \A m \in DOMAIN fate : fate'[m].status = fate[m].status
  BY DEF Commits, Only
<1>2. Held' = Held /\ Ahead' = Ahead /\ Performed' = Performed
  BY <1>1 DEF Held, Ahead, Performed
<1>3. Len(fate') = Len(fate)
  <2>1. fate \in Seq(Fate) /\ fate' \in Seq(Fate)
    BY DEF CooldownInv, TypeOK
  <2>2. QED
    BY <1>1, <2>1, SameInterval
<1>4. QED
  BY <1>1, <1>2, <1>3, StutterStep

\* An action of the plan is approved, or nothing is.
LEMMA PlanStep ==
    ASSUME CooldownInv, OrderInv, NEW w \in Workers, Plans(w)
    PROVE  DeliveryStep
<1> DEFINE h == hand[w]
<1>1. /\ sent' = sent /\ steps' = steps /\ fate' = fate /\ hand' = hand
      /\ \A v \in Workers : v # w => Still(v)
      /\ pc[w] \in {"decoding", "validating"}
      /\ todo'[w] = todo[w] \/ \E i \in pending[w] : todo'[w] = todo[w] \cup {i}
  BY DEF Plans, Only
<1>2. Held' = Held /\ Performed' = Performed
  BY <1>1 DEF Held, Performed
<1>3. CASE todo'[w] = todo[w]
  <2>1. Ahead' = Ahead
    BY <1>1, <1>3, SameAhead
  <2>2. QED
    BY <1>1, <1>2, <2>1, StutterStep
<1>4. ASSUME NEW i \in pending[w], todo'[w] = todo[w] \cup {i}
      PROVE  DeliveryStep
  <2>1. h \in Held
    BY <1>1 DEF Held, CooldownInv, InHandIsHeld
  <2>2. Delivery!Of(h, Performed) = {}
    <3>1. Ran(h) = {}
      BY <1>1 DEF OrderInv, Untouched
    <3>2. \A s \in steps : s.msg # h
      BY <3>1 DEF Ran
    <3>3. QED
      BY <3>2 DEF Delivery!Of, Performed
  <2>3. Ahead' = Ahead \cup {<<h, i>>}
    <3>1. Ahead' = (Ahead \ AheadOf(h)) \cup {<<h, j>> : j \in todo'[w]}
      BY <1>1, AheadReplaced
    <3>2. AheadOf(h) = {<<h, j>> : j \in todo[w]} /\ AheadOf(h) \subseteq Ahead
      BY AheadIsWork DEF AheadOf
    <3>3. {<<h, j>> : j \in todo'[w]} = {<<h, j>> : j \in todo[w]} \cup {<<h, i>>}
      BY <1>4
    <3> HIDE DEF h
    <3>4. QED
      BY <3>1, <3>2, <3>3
  <2>4. Delivery!Plan(h, i)
    BY <1>1, <1>2, <2>1, <2>2, <2>3 DEF Delivery!Plan, Held, Ahead, Performed
  <2>5. i \in PlanPositions
    BY PositionKnown
  <2>6. QED
    BY <2>1, <2>4, <2>5, HolderStep
<1>5. QED
  BY <1>1, <1>3, <1>4

\* What has been run of a plan lies before what is to be run.
LEMMA RanBefore ==
    ASSUME CooldownInv, OrderInv, NEW w \in Workers, NEW i \in todo[w],
           pc[w] \in {"executing", "calling"}, NEW j \in Ran(hand[w])
    PROVE  j < i
<1> DEFINE h == hand[w]
<1>1. h \in DOMAIN fate /\ InOrder(h)
  BY DEF CooldownInv, InHandIsHeld, OrderInv
<1>2. fate[h].plan \subseteq Nat
  <2>1. fate[h] \in Fate
    BY <1>1 DEF CooldownInv, TypeOK
  <2>2. QED
    BY <2>1 DEF Fate
<1>3. todo[w] = fate[h].plan \ Ran(h)
  BY DEF OrderInv, Split
<1>4. i \in fate[h].plan /\ i \notin Ran(h) /\ j \in fate[h].plan
  BY <1>1, <1>3 DEF InOrder
<1>5. ~(i < j)
  BY <1>1, <1>4 DEF InOrder
<1>6. i \in Nat /\ j \in Nat /\ i # j
  BY <1>2, <1>4
<1>7. QED
  BY <1>5, <1>6

\* A position is performed; the rest of the plan stays, or is abandoned.
LEMMA RunStep ==
    ASSUME CooldownInv, OrderInv, NEW w \in Workers, NEW i \in Nat,
           NEW status \in StepStatuses, Runs(w, i, status)
    PROVE  DeliveryStep
<1> DEFINE h == hand[w]
           new == [msg |-> h, index |-> i, status |-> status, at |-> now]
<1>1. /\ sent' = sent /\ fate' = fate /\ hand' = hand /\ i \in todo[w]
      /\ \A v \in Workers : v # w => Still(v)
      /\ pc[w] \in {"executing", "calling"} /\ steps' = steps \cup {new}
      /\ todo'[w] = IF status = "failed" THEN AfterFailure(todo[w], i) ELSE todo[w] \ {i}
  BY DEF Runs, Only, StepEnds
<1>2. new.msg = h /\ new.index = i
  OBVIOUS
<1> HIDE DEF new
<1>3. Held' = Held /\ h \in Held
  BY <1>1 DEF Held, CooldownInv, InHandIsHeld
<1>4. Performed' = Performed \cup {<<h, i>>}
  BY <1>1, <1>2 DEF Performed
<1>5. <<h, i>> \in Ahead
  BY <1>1 DEF Ahead
<1>6. \A e \in Delivery!Of(h, Performed) : e[2] < i
  <2>1. ASSUME NEW e \in Performed, e[1] = h
        PROVE  e[2] < i
    <3>1. PICK s \in steps : e = <<s.msg, s.index>>
      BY DEF Performed
    <3>2. s.msg = h /\ e[2] = s.index
      BY <2>1, <3>1
    <3>3. s.index \in Ran(h)
      BY <3>2 DEF Ran
    <3>4. QED
      BY <1>1, <3>2, <3>3, RanBefore
  <2>2. QED
    BY <2>1 DEF Delivery!Of
<1>7. Ahead' \in {Ahead \ {<<h, i>>}, Ahead \ AheadOf(h)}
  <2>1. Ahead' = (Ahead \ AheadOf(h)) \cup {<<h, j>> : j \in todo'[w]}
    BY <1>1, AheadReplaced
  <2>2. AheadOf(h) = {<<h, j>> : j \in todo[w]} /\ AheadOf(h) \subseteq Ahead
    BY AheadIsWork DEF AheadOf
  <2>3. todo'[w] = {} \/ todo'[w] = todo[w] \ {i}
    BY <1>1 DEF AfterFailure
  <2> HIDE DEF h
  <2>4. CASE todo'[w] = {}
    BY <2>1, <2>4
  <2>5. CASE todo'[w] = todo[w] \ {i}
    <3>1. {<<h, j>> : j \in todo'[w]} = {<<h, j>> : j \in todo[w]} \ {<<h, i>>}
      BY <2>5
    <3>2. Ahead' = Ahead \ {<<h, i>>}
      BY <1>1, <2>1, <2>2, <3>1
    <3>3. QED
      BY <3>2
  <2>6. QED
    BY <2>3, <2>4, <2>5
<1>8. Delivery!Perform(h, i)
  <2>1. /\ Len(sent') = Len(sent) /\ Len(fate') = Len(fate)
        /\ Ahead' \in {Ahead \ {<<h, i>>}, Ahead \ Delivery!Of(h, Ahead)}
    BY <1>1, <1>7 DEF AheadOf, Delivery!Of
  <2> HIDE DEF h
  <2>2. QED
    BY <1>3, <1>4, <1>5, <1>6, <2>1 DEF Delivery!Perform, Held, Ahead, Performed
<1>9. i \in PlanPositions
  BY <1>1, PositionKnown
<1>10. QED
  BY <1>3, <1>8, <1>9, HolderStep

-----------------------------------------------------------------------------
\* Every step of the workers is a step of RunbookDelivery, or none of its own.
LEMMA NextDelivery ==
    ASSUME CooldownInv, CooldownInv', OrderInv, [Next]_vars
    PROVE  DeliveryStep
<1>1. CASE Rests
  BY <1>1, RestStep
<1>2. ASSUME NEW w \in Workers,
             Starts(w) \/ Leaves(w) \/ Takes(w) \/ Plans(w) \/ Commits(w)
      PROVE  DeliveryStep
  BY <1>2, WaitStep, LeaveStep, TakeStep, PlanStep, CommitStep
<1>3. ASSUME NEW w \in Workers, NEW status \in Statuses, Lets(w, status)
      PROVE  DeliveryStep
  <2>1. /\ Only(w) /\ steps' = steps /\ Rewritten(w, status) /\ todo'[w] = {}
        /\ status # "in_hand" /\ pc[w] \in Handling
    BY <1>3 DEF Lets
  <2>2. QED
    BY <2>1, SettleStep
<1>4. ASSUME NEW w \in Workers, NEW i \in Nat, StartsCall(w, i)
      PROVE  DeliveryStep
  BY <1>4, WaitStep
<1>5. ASSUME NEW w \in Workers, NEW i \in Nat, NEW status \in StepStatuses, Runs(w, i, status)
      PROVE  DeliveryStep
  BY <1>5, RunStep
<1>6. QED
  BY <1>1, <1>2, <1>3, <1>4, <1>5, StepShapes DEF Shapes

\* The pods deliver at most once and in order, whatever crashes.
THEOREM DeliveredAtMostOnce == Spec => DeliversAtMostOnce
<1>1. Init => Delivery!Init
  BY DEF Init, Delivery!Init
<1>2. CooldownInv /\ CooldownInv' /\ OrderInv /\ [Next]_vars
        => [Delivery!Next]_(Delivery!vars)
  BY NextDelivery DEF DeliveryStep
<1>3. Init => OrderInv
  BY DEF Init, OrderInv
<1>4. CooldownInv /\ OrderInv /\ [Next]_vars => OrderInv'
  BY NextOrder
<1>5. QED
  BY <1>1, <1>2, <1>3, <1>4, CooldownInvariant, PTL
     DEF Spec, DeliversAtMostOnce, Delivery!Spec
=============================================================================
