-------------------------- MODULE ScanConsumerProofs --------------------------
(***************************************************************************)
(* Proofs about ScanConsumer, for any messages, scans, workers and         *)
(* prefetch: its types, what becomes of a message, and the cost of a death. *)
(***************************************************************************)
EXTENDS ScanConsumer, FiniteSetTheorems, TLAPS

-----------------------------------------------------------------------------
(* The inductive invariant.                                                *)

\* A message is held by a running worker, whose onMessage is somewhere.
Custody ==
    \A m \in Message :
        /\ where[m] = "held" => holder[m] \in alive /\ pc[m] # "none"
        /\ where[m] # "held" => holder[m] = NoWorker /\ pc[m] = "none"

\* Where onMessage is says what the message is and how far its scan.
Progress ==
    \A m \in Message :
        /\ pc[m] = "thrown" => body[m] = "not_json"
        /\ pc[m] = "claiming" => body[m] \in Scan
        /\ pc[m] = "checking" => body[m] \in Known /\ status[body[m]] # "pending"
        /\ pc[m] = "acking" => body[m] \in Known /\ status[body[m]] # "pending"
        /\ pc[m] = "nacking" => body[m] \notin Known \cup {"not_json"}

\* The broker keeps to the prefetch.
WithinPrefetch == \A w \in Worker : Cardinality(HeldBy(w)) <= Prefetch

IInv == TypeOK /\ Custody /\ Progress /\ WithinPrefetch /\ SettledRightly

LEMMA HeldByFinite ==
    ASSUME NEW w
    PROVE  IsFiniteSet(HeldBy(w)) /\ Cardinality(HeldBy(w)) \in Nat
  BY MessageAssumption, FS_Subset, FS_CardinalityType DEF HeldBy

LEMMA InitIInv == Init => IInv
<1> SUFFICES ASSUME Init PROVE IInv
  OBVIOUS
<1>1. TypeOK /\ Custody /\ Progress /\ SettledRightly
  BY DEF Init, TypeOK, Custody, Progress, SettledRightly
<1>2. WithinPrefetch
  <2> SUFFICES ASSUME NEW w \in Worker PROVE Cardinality(HeldBy(w)) <= Prefetch
    BY DEF WithinPrefetch
  <2>1. HeldBy(w) = {}
    BY WorkerAssumption DEF Init, HeldBy
  <2> QED
    BY <2>1, FS_EmptySet, PrefetchAssumption
<1> QED
  BY <1>1, <1>2 DEF IInv

\* Whoever holds no more than before keeps within the prefetch.
LEMMA FewerHeld ==
    ASSUME IInv, \A w \in Worker : HeldBy(w)' \subseteq HeldBy(w)
    PROVE  WithinPrefetch'
<1> SUFFICES ASSUME NEW w \in Worker PROVE Cardinality(HeldBy(w)') <= Prefetch
  BY DEF WithinPrefetch
<1>1. Cardinality(HeldBy(w)') <= Cardinality(HeldBy(w))
  BY HeldByFinite, FS_Subset
<1>2. Cardinality(HeldBy(w)') \in Nat
  BY HeldByFinite, FS_Subset, FS_CardinalityType
<1> QED
  BY <1>1, <1>2, HeldByFinite, PrefetchAssumption DEF IInv, WithinPrefetch

LEMMA PublishStep ==
    ASSUME IInv, NEW m \in Message, Publish(m)
    PROVE  IInv'
<1>1. TypeOK' /\ Custody' /\ Progress' /\ SettledRightly'
  BY DEF IInv, TypeOK, Custody, Progress, SettledRightly, Publish
<1>2. WithinPrefetch'
  BY FewerHeld DEF HeldBy, Publish
<1> QED
  BY <1>1, <1>2 DEF IInv

LEMMA DeliverStep ==
    ASSUME IInv, NEW w \in Worker, NEW m \in Message, Deliver(w, m)
    PROVE  IInv'
<1>1. Parsed(m) \in {"thrown", "nacking", "claiming"}
  BY DEF Parsed
<1>2. TypeOK'
  BY <1>1 DEF IInv, TypeOK, Deliver
<1>3. Custody'
  BY <1>1 DEF IInv, TypeOK, Custody, Deliver
<1>4. Progress'
  <2>1. /\ Parsed(m) = "thrown" => body[m] = "not_json"
        /\ Parsed(m) = "claiming" => body[m] \in Scan
        /\ Parsed(m) = "nacking" => body[m] \notin Known \cup {"not_json"}
    BY ScanAssumption, KnownAssumption DEF Parsed, IInv, TypeOK, Malformed
  <2> QED
    BY <1>1, <2>1 DEF IInv, TypeOK, Progress, Deliver
<1>5. SettledRightly'
  BY DEF IInv, TypeOK, SettledRightly, Deliver
<1>6. WithinPrefetch'
  <2> SUFFICES ASSUME NEW v \in Worker PROVE Cardinality(HeldBy(v)') <= Prefetch
    BY DEF WithinPrefetch
  <2>1. CASE v = w
    <3>1. HeldBy(v)' = HeldBy(v) \cup {m}
      BY <2>1 DEF HeldBy, Deliver, IInv, TypeOK
    <3>2. m \notin HeldBy(v)
      BY <2>1, WorkerAssumption DEF HeldBy, Deliver, IInv, Custody
    <3>3. Cardinality(HeldBy(v)') = Cardinality(HeldBy(v)) + 1
      BY <3>1, <3>2, HeldByFinite, FS_AddElement
    <3>4. Cardinality(HeldBy(v)) < Prefetch
      BY <2>1 DEF Deliver, HasRoom
    <3> QED
      BY <3>3, <3>4, HeldByFinite, PrefetchAssumption
  <2>2. CASE v # w
    <3>1. HeldBy(v)' = HeldBy(v)
      <4>1. \A n \in Message : holder'[n] = v <=> holder[n] = v
        BY <2>2, WorkerAssumption DEF Deliver, IInv, TypeOK, Custody
      <4> QED
        BY <4>1 DEF HeldBy
    <3> QED
      BY <3>1 DEF IInv, WithinPrefetch
  <2> QED
    BY <2>1, <2>2
<1> QED
  BY <1>2, <1>3, <1>4, <1>5, <1>6 DEF IInv

\* A status only moves on, so what was settled by it stays right.
LEMMA HandlerStepIInv ==
    ASSUME IInv, NEW m \in Message, HandlerStep(m)
    PROVE  IInv'
<1>1. CASE Claim(m)
  <2>1. TypeOK' /\ Custody'
    BY <1>1 DEF IInv, TypeOK, Custody, Claim
  <2>2. Progress'
    BY <1>1, ScanAssumption, KnownAssumption
       DEF IInv, TypeOK, Progress, Claim, Malformed
  <2>3. SettledRightly'
    BY <1>1 DEF IInv, TypeOK, SettledRightly, Claim
  <2>4. WithinPrefetch'
    BY <1>1, FewerHeld DEF Claim, HeldBy
  <2> QED
    BY <2>1, <2>2, <2>3, <2>4 DEF IInv
<1>2. CASE Complete(m)
  <2>1. TypeOK' /\ Custody' /\ Progress' /\ SettledRightly'
    BY <1>2 DEF IInv, TypeOK, Custody, Progress, SettledRightly, Complete
  <2>2. WithinPrefetch'
    BY <1>2, FewerHeld DEF Complete, HeldBy
  <2> QED
    BY <2>1, <2>2 DEF IInv
<1>3. CASE Ack(m) \/ Nack(m)
  <2>1. TypeOK' /\ Custody' /\ Progress' /\ SettledRightly'
    BY <1>3 DEF IInv, TypeOK, Custody, Progress, SettledRightly, Ack, Nack, Settle
  <2>2. \A w \in Worker : HeldBy(w)' \subseteq HeldBy(w)
    BY <1>3, WorkerAssumption DEF Ack, Nack, Settle, HeldBy, IInv, TypeOK
  <2> QED
    BY <2>1, <2>2, FewerHeld DEF IInv
<1> QED
  BY <1>1, <1>2, <1>3 DEF HandlerStep

LEMMA DieStep ==
    ASSUME IInv, NEW w \in Worker, Die(w)
    PROVE  IInv'
<1>1. TypeOK'
  BY DEF IInv, TypeOK, Die
<1>2. Custody'
  BY DEF IInv, TypeOK, Custody, Die, HeldBy
<1>3. Progress' /\ SettledRightly'
  BY DEF IInv, TypeOK, Progress, SettledRightly, Die
<1>4. \A v \in Worker : HeldBy(v)' \subseteq HeldBy(v)
  BY WorkerAssumption DEF Die, HeldBy
<1> QED
  BY <1>1, <1>2, <1>3, <1>4, FewerHeld DEF IInv

LEMMA StepIInv == IInv /\ [Next]_vars => IInv'
<1> SUFFICES ASSUME IInv, [Next]_vars PROVE IInv'
  OBVIOUS
<1>1. CASE \E m \in Message : Publish(m)
  BY <1>1, PublishStep
<1>2. CASE SomeDelivery
  BY <1>2, DeliverStep DEF SomeDelivery
<1>3. CASE \E m \in Message : HandlerStep(m)
  BY <1>3, HandlerStepIInv
<1>4. CASE \E w \in Worker : Die(w)
  BY <1>4, DieStep
<1>5. CASE \E w \in Worker : Restart(w)
  <2>1. TypeOK' /\ Custody' /\ Progress' /\ SettledRightly'
    BY <1>5 DEF IInv, TypeOK, Custody, Progress, SettledRightly, Restart
  <2>2. WithinPrefetch'
    BY <1>5, FewerHeld DEF Restart, HeldBy
  <2> QED
    BY <2>1, <2>2 DEF IInv
<1>6. CASE UNCHANGED vars
  <2>1. TypeOK' /\ Custody' /\ Progress' /\ SettledRightly'
    BY <1>6 DEF IInv, TypeOK, Custody, Progress, SettledRightly, vars
  <2>2. WithinPrefetch'
    BY <1>6, FewerHeld DEF vars, HeldBy
  <2> QED
    BY <2>1, <2>2 DEF IInv
<1> QED
  BY <1>1, <1>2, <1>3, <1>4, <1>5, <1>6 DEF Next

-----------------------------------------------------------------------------
(* The cost of a death.                                                    *)

\* Only a death changes which scans are without an owner.
LEMMA OnlyDeathsOrphan ==
    ASSUME IInv, [Next]_vars, \A w \in Worker : ~ Die(w)
    PROVE  Ownerless' = Ownerless
<1>1. CASE \E m \in Message : Publish(m)
  BY <1>1 DEF Publish, Ownerless
<1>2. CASE SomeDelivery
  <2>1. PICK w \in Worker, m \in Message : Deliver(w, m)
    BY <1>2 DEF SomeDelivery
  <2>2. pc[m] # "checking" /\ pc'[m] # "checking"
    BY <2>1 DEF Deliver, IInv, TypeOK, Custody, Parsed
  <2> QED
    BY <2>1, <2>2 DEF Deliver, Ownerless, IInv, TypeOK
<1>3. CASE \E m \in Message : HandlerStep(m)
  <2>1. PICK m \in Message : HandlerStep(m)
    BY <1>3
  <2>2. CASE Claim(m)
    BY <2>2 DEF Claim, Ownerless, IInv, TypeOK
  <2>3. CASE Complete(m)
    BY <2>3 DEF Complete, Ownerless, IInv, TypeOK
  <2>4. CASE Ack(m) \/ Nack(m)
    BY <2>4 DEF Ack, Nack, Settle, Ownerless, IInv, TypeOK
  <2> QED
    BY <2>1, <2>2, <2>3, <2>4 DEF HandlerStep
<1>4. CASE \E w \in Worker : Restart(w)
  BY <1>4 DEF Restart, Ownerless
<1>5. CASE UNCHANGED vars
  BY <1>5 DEF vars, Ownerless
<1> QED
  BY <1>1, <1>2, <1>3, <1>4, <1>5 DEF Next

\* The deliveries of the worker that dies, without the one that kills it.
LEMMA DeathOrphansFew ==
    ASSUME IInv, NEW w \in Worker, Die(w)
    PROVE  Cardinality(Ownerless' \ Ownerless) < Prefetch /\ Poison # {}
<1>1. PICK p \in HeldBy(w) : pc[p] = "thrown"
  BY DEF Die
<1>2. p \in Message /\ body[p] = "not_json" /\ where[p] # "unsent"
  BY <1>1 DEF HeldBy, IInv, Progress, Custody
<1> DEFINE Others == HeldBy(w) \ {p}
           Orphans == {body[m] : m \in Others}
<1>3. Ownerless' \ Ownerless \subseteq Orphans
  <2> SUFFICES ASSUME NEW s \in Ownerless', s \notin Ownerless PROVE s \in Orphans
    OBVIOUS
  <2>1. s \in Known /\ status[s] = "in_progress"
    BY DEF Ownerless, Die
  <2>2. PICK m \in Message : pc[m] = "checking" /\ body[m] = s
    BY <2>1 DEF Ownerless
  <2>3. pc'[m] # "checking"
    BY <2>2 DEF Ownerless, Die
  <2>4. m \in HeldBy(w)
    BY <2>2, <2>3 DEF Die
  <2> QED
    BY <1>1, <2>2, <2>4
<1>4. /\ IsFiniteSet(Others) /\ Cardinality(Others) = Cardinality(HeldBy(w)) - 1
  BY HeldByFinite, FS_RemoveElement
<1>5. IsFiniteSet(Orphans) /\ Cardinality(Orphans) <= Cardinality(Others)
  <2> DEFINE f == [m \in Others |-> body[m]]
  <2>1. f \in Surjection(Others, Orphans)
    BY DEF Surjection
  <2> QED
    BY <1>4, <2>1, FS_Surjection
<1>6. /\ Cardinality(Ownerless' \ Ownerless) <= Cardinality(Orphans)
      /\ IsFiniteSet(Ownerless' \ Ownerless)
  BY <1>3, <1>5, FS_Subset
<1>7. /\ Cardinality(Ownerless' \ Ownerless) \in Nat /\ Cardinality(Orphans) \in Nat
      /\ Cardinality(Others) \in Nat
  BY <1>4, <1>5, <1>6, FS_CardinalityType
<1>8. Cardinality(HeldBy(w)) <= Prefetch
  BY DEF IInv, WithinPrefetch
<1>9. Cardinality(Ownerless' \ Ownerless) < Prefetch
  BY <1>4, <1>5, <1>6, <1>7, <1>8, HeldByFinite, PrefetchAssumption
<1> QED
  BY <1>2, <1>9 DEF Poison

-----------------------------------------------------------------------------
LEMMA InvariantIInv == Spec => []IInv
  BY InitIInv, StepIInv, PTL DEF Spec

\* The types of the model, for any messages, scans and workers.
THEOREM TypeCorrect == Spec => []TypeOK
<1>1. IInv => TypeOK
  BY DEF IInv
<1> QED
  BY InvariantIInv, <1>1, PTL

\* An acknowledged message had its scan taken on; a discarded one had none.
THEOREM Settled == Spec => []SettledRightly
<1>1. IInv => SettledRightly
  BY DEF IInv
<1> QED
  BY InvariantIInv, <1>1, PTL

\* The death of a worker leaves fewer scans behind than the prefetch, and only
\* a body that is not JSON causes one.
THEOREM DeathsAreCheap == Spec => DeathCost
<1> DEFINE Step == Ownerless' # Ownerless =>
                     /\ Cardinality(Ownerless' \ Ownerless) < Prefetch
                     /\ Poison # {}
<1>1. IInv /\ [Next]_vars => [Step]_vars
  BY OnlyDeathsOrphan, DeathOrphansFew
<1>2. Spec => [][Step]_vars
  BY InvariantIInv, <1>1, PTL DEF Spec
<1> QED
  BY <1>2 DEF DeathCost

-----------------------------------------------------------------------------
(* What QueueDrains rests on.                                              *)

\* Only a body that is not JSON ends a worker.
AliveWithoutPoison == Poison = {} => alive = Worker

LEMMA PoisonStays ==
    ASSUME IInv, [Next]_vars
    PROVE  Poison \subseteq Poison'
<1>1. body' = body
  BY DEF Next, vars, Publish, SomeDelivery, Deliver, HandlerStep, Claim, Complete, Ack, Nack,
         Settle, Die, Restart
<1>2. \A m \in Message : where[m] # "unsent" => where'[m] # "unsent"
  <2>1. CASE \E m \in Message : Publish(m) BY <2>1 DEF Publish, IInv, TypeOK
  <2>2. CASE SomeDelivery BY <2>2 DEF SomeDelivery, Deliver, IInv, TypeOK
  <2>3. CASE \E m \in Message : HandlerStep(m)
    BY <2>3 DEF HandlerStep, Claim, Complete, Ack, Nack, Settle, IInv, TypeOK
  <2>4. CASE \E w \in Worker : Die(w) BY <2>4 DEF Die, IInv, TypeOK
  <2>5. CASE (\E w \in Worker : Restart(w)) \/ UNCHANGED vars BY <2>5 DEF Restart, vars
  <2> QED BY <2>1, <2>2, <2>3, <2>4, <2>5 DEF Next
<1> QED BY <1>1, <1>2 DEF Poison

LEMMA StepAlive ==
    ASSUME IInv, AliveWithoutPoison, [Next]_vars
    PROVE  AliveWithoutPoison'
<1>1. ASSUME Poison' = {} PROVE alive' = Worker
  <2>1. Poison = {} /\ alive = Worker BY <1>1, PoisonStays DEF AliveWithoutPoison
  <2>2. ~ \E w \in Worker : Die(w) BY <2>1, DeathOrphansFew
  <2> QED
    BY <2>1, <2>2 DEF Next, vars, Publish, SomeDelivery, Deliver, HandlerStep, Claim, Complete,
                      Ack, Nack, Settle, Restart
<1> QED BY <1>1 DEF AliveWithoutPoison

LEMMA WorkersAlive == Spec => []AliveWithoutPoison
<1>1. Init => AliveWithoutPoison BY DEF Init, AliveWithoutPoison
<1> QED BY InvariantIInv, <1>1, StepAlive, PTL DEF Spec

\* No worker is down or full of deliveries that go nowhere.
THEOREM NothingForgotten == Spec => []WorkersGoOn
<1>1. ASSUME IInv, AliveWithoutPoison PROVE WorkersGoOn
  <2> SUFFICES ASSUME Poison = {}, NEW w \in Worker, ~ HasRoom(w)
               PROVE  \E m \in Message : holder[m] = w /\ CanStep(m)
    BY <1>1 DEF WorkersGoOn, AliveWithoutPoison
  <2>1. Cardinality(HeldBy(w)) # 0
    BY PrefetchAssumption DEF HasRoom
  <2>2. PICK m \in HeldBy(w) : TRUE
    BY <2>1, FS_EmptySet
  <2>3. m \in Message /\ holder[m] = w /\ w # NoWorker
    BY <2>2, WorkerAssumption DEF HeldBy
  <2>4. where[m] = "held" /\ pc[m] # "none"
    BY <1>1, <2>3 DEF IInv, Custody
  <2>5. pc[m] # "thrown"
    BY <1>1, <2>3, <2>4 DEF IInv, Progress, Poison
  <2>6. CanStep(m)
    BY <1>1, <2>3, <2>4, <2>5 DEF IInv, TypeOK, CanStep
  <2> QED
    BY <2>3, <2>6
<1> QED
  BY InvariantIInv, WorkersAlive, <1>1, PTL

\* Without poison a message is delivered once, and each step brings one nearer
\* its end: with NothingForgotten, the queue drains in a bounded number of steps.
THEOREM DrainsForward == Spec => OnlyPoisonSetsBack
<1> DEFINE Forward == /\ \A m \in Message : StepsLeft(m)' <= StepsLeft(m)
                      /\ \E m \in Message : StepsLeft(m)' < StepsLeft(m)
<1>1. ASSUME IInv, AliveWithoutPoison, Next, Poison = {}
      PROVE  Forward
  <2>1. ASSUME NEW m \in Message, StepsLeft(m)' < StepsLeft(m),
               \A n \in Message \ {m} : where'[n] = where[n] /\ pc'[n] = pc[n]
        PROVE  Forward
    <3>1. \A n \in Message \ {m} : StepsLeft(n)' = StepsLeft(n) BY <2>1 DEF StepsLeft
    <3>2. \A n \in Message : StepsLeft(n) \in 0 .. 5 BY DEF StepsLeft
    <3>3. \A n \in Message : StepsLeft(n)' \in 0 .. 5 BY DEF StepsLeft
    <3> QED BY <2>1, <3>1, <3>2, <3>3
  <2>2. ASSUME NEW m \in Message, Publish(m) PROVE Forward
    <3>1. StepsLeft(m)' < StepsLeft(m)
      <4>1. where[m] = "unsent" /\ where'[m] = "ready" BY <1>1, <2>2 DEF Publish, IInv, TypeOK
      <4>2. StepsLeft(m) = 5 BY <4>1 DEF StepsLeft
      <4>3. StepsLeft(m)' = 4 BY <4>1 DEF StepsLeft
      <4> QED BY <4>2, <4>3
    <3> QED BY <1>1, <2>1, <2>2, <3>1 DEF Publish, IInv, TypeOK
  <2>3. ASSUME NEW w \in Worker, NEW m \in Message, Deliver(w, m) PROVE Forward
    <3>1. StepsLeft(m)' < StepsLeft(m)
      BY <1>1, <2>3 DEF Deliver, StepsLeft, IInv, TypeOK
    <3> QED BY <1>1, <2>1, <2>3, <3>1 DEF Deliver, IInv, TypeOK
  <2>4. ASSUME NEW m \in Message, HandlerStep(m) PROVE Forward
    <3>1. where[m] = "held"
      BY <1>1, <2>4 DEF HandlerStep, Claim, Complete, Ack, Nack, Settle, IInv, Custody
    <3>2. StepsLeft(m)' < StepsLeft(m)
      <4>1. CASE Claim(m)
        <5>1. pc[m] = "claiming" /\ pc'[m] \in {"checking", "acking", "nacking"} /\ where'[m] = "held"
          BY <1>1, <3>1, <4>1 DEF Claim, IInv, TypeOK
        <5>2. StepsLeft(m) = 3 BY <3>1, <5>1 DEF StepsLeft
        <5>3. StepsLeft(m)' \in {1, 2} BY <5>1 DEF StepsLeft
        <5> QED BY <5>2, <5>3
      <4>2. CASE Complete(m)
        <5>1. pc[m] = "checking" /\ pc'[m] = "acking" /\ where'[m] = "held"
          BY <1>1, <3>1, <4>2 DEF Complete, IInv, TypeOK
        <5>2. StepsLeft(m) = 2 BY <3>1, <5>1 DEF StepsLeft
        <5>3. StepsLeft(m)' = 1 BY <5>1 DEF StepsLeft
        <5> QED BY <5>2, <5>3
      <4>3. CASE Ack(m) \/ Nack(m)
        <5>1. /\ pc[m] \in {"acking", "nacking"} /\ pc'[m] = "none"
              /\ where'[m] \in {"acked", "discarded"}
          BY <1>1, <4>3 DEF Ack, Nack, Settle, IInv, TypeOK
        <5>2. StepsLeft(m) = 1 BY <3>1, <5>1 DEF StepsLeft
        <5>3. StepsLeft(m)' = 0 BY <5>1 DEF StepsLeft
        <5> QED BY <5>2, <5>3
      <4> QED BY <2>4, <4>1, <4>2, <4>3 DEF HandlerStep
    <3> QED
      BY <1>1, <2>1, <2>4, <3>2
         DEF HandlerStep, Claim, Complete, Ack, Nack, Settle, IInv, TypeOK
  <2>5. ~ \E w \in Worker : Die(w)
    BY <1>1, DeathOrphansFew
  <2>6. ~ \E w \in Worker : Restart(w)
    BY <1>1 DEF AliveWithoutPoison, Restart
  <2> QED
    BY <1>1, <2>2, <2>3, <2>4, <2>5, <2>6 DEF Next, SomeDelivery
<1> HIDE DEF Forward
<1>2. IInv /\ AliveWithoutPoison /\ [Next]_vars => [Poison = {} => Forward]_vars
  BY <1>1
<1>3. Spec => [][Poison = {} => Forward]_vars
  BY InvariantIInv, WorkersAlive, <1>2, PTL DEF Spec
<1> QED
  BY <1>3 DEF OnlyPoisonSetsBack, Forward
=============================================================================
