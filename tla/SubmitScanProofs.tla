--------------------------- MODULE SubmitScanProofs ---------------------------
(***************************************************************************)
(* Proofs about SubmitScan, for any sets of requests, processes, clients,  *)
(* keys and bodies, any pool size and any bound on faults.                 *)
(***************************************************************************)
EXTENDS SubmitScan, FiniteSetTheorems, TLAPS

-----------------------------------------------------------------------------
(* The inductive invariant.                                                *)

\* What the request's rows, its answer and its input are at each point of its
\* handler: neither row outlives the transaction without the other.
RowsByPc ==
    \A r \in Request :
        /\ pc[r] = "new" <=> asked[r] = NoAsk
        /\ pc[r] \in {"new", "waiting", "insert", "violated"} =>
              scanRow[r] = "none" /\ event[r] = "none"
        /\ pc[r] = "outbox" => scanRow[r] = "uncommitted" /\ event[r] = "none"
        /\ pc[r] = "commit" => scanRow[r] = "uncommitted" /\ event[r] = "uncommitted"
        /\ pc[r] = "committed" => scanRow[r] = "committed" /\ event[r] = "committed"
        /\ pc[r] = "answered" => scanRow[r] # "uncommitted" /\ event[r] = scanRow[r]

AnswerByPc ==
    \A r \in Request :
        /\ answer[r] = "none" <=> pc[r] # "answered"
        /\ named[r] \in Request <=> answer[r] \in {"created", "replayed"}

\* The unique index, over the rows of open transactions too.
OneRowPerKey ==
    \A r1, r2 \in Request :
        scanRow[r1] # "none" /\ scanRow[r2] # "none" /\ SameKey(r1, r2) => r1 = r2

\* What each answer was based on still holds.
AnswerHolds(r) ==
    /\ answer[r] = "created" => named[r] = r /\ scanRow[r] = "committed"
    /\ answer[r] = "replayed" =>
          /\ scanRow[named[r]] = "committed"
          /\ SameKey(named[r], r)
          /\ SameBody(named[r], r)
    /\ answer[r] = "conflict" =>
          \E e \in Request : scanRow[e] = "committed" /\ SameKey(e, r) /\ ~ SameBody(e, r)

AnswersHold == \A r \in Request : AnswerHolds(r)

Inv == TypeOK /\ RowsByPc /\ AnswerByPc /\ OneRowPerKey /\ WinnerIsThere /\ AnswersHold

\* The initial state satisfies the invariant: no request, no row, no answer.
LEMMA InvInit == Init => Inv
BY NoRequestAssumption
   DEF Init, Inv, TypeOK, RowsByPc, AnswerByPc, OneRowPerKey, WinnerIsThere, AnswersHold,
       AnswerHolds, InFlight

\* A request that was received has a body, so it differs from NoAsk.
LEMMA AskIsNotNoAsk == \A a \in Ask : a # NoAsk
BY NoKeyAssumption DEF Ask, NoAsk

-----------------------------------------------------------------------------
(* Steps by what they do to what the requests relate to.                   *)

\* A step that changes no input and undoes no committed row keeps what
\* answers and losers rest on.
LEMMA CommittedStays ==
    ASSUME Inv, UNCHANGED asked,
           \A r \in Request : scanRow[r] = "committed" => scanRow'[r] = "committed"
    PROVE  /\ \A r1, r2 \in Request :
                /\ SameKey(r1, r2)' <=> SameKey(r1, r2)
                /\ SameBody(r1, r2)' <=> SameBody(r1, r2)
           /\ \A r \in Request : Existing(r) \subseteq Existing(r)'
BY DEF SameKey, SameBody, Existing, Rivals

\* A step that inserts no row and sends no answer but "error" and "lost".
LEMMA NothingNew ==
    ASSUME Inv, TypeOK', RowsByPc', AnswerByPc', UNCHANGED asked,
           \A r \in Request :
              /\ scanRow[r] = "committed" <=> scanRow'[r] = "committed"
              /\ scanRow[r] = "none" => scanRow'[r] = "none"
              /\ pc'[r] = "violated" => pc[r] = "violated" \/ Existing(r) # {}
              /\ \/ answer'[r] = answer[r] /\ named'[r] = named[r]
                 \/ answer'[r] \in {"error", "lost"}
    PROVE  Inv'
<1>1. /\ \A r1, r2 \in Request :
            /\ SameKey(r1, r2)' <=> SameKey(r1, r2)
            /\ SameBody(r1, r2)' <=> SameBody(r1, r2)
      /\ \A r \in Request : Existing(r) \subseteq Existing(r)'
  BY CommittedStays
<1>2. OneRowPerKey'
  BY <1>1 DEF Inv, OneRowPerKey
<1>3. WinnerIsThere'
  BY <1>1 DEF Inv, WinnerIsThere
<1>4. AnswersHold'
  BY <1>1 DEF Inv, AnswersHold, AnswerHolds, AnswerByPc, TypeOK
<1> QED
  BY <1>2, <1>3, <1>4 DEF Inv

\* Every step keeps the invariant: an insert waits for its rivals' rows to be
\* gone, and every answer is read off committed rows, which stay.
LEMMA InvStep == Inv /\ [Next]_vars => Inv'
<1> SUFFICES ASSUME Inv, [Next]_vars PROVE Inv'
  OBVIOUS
<1> USE DEF InFlight
<1>1. ASSUME NEW r \in Request, Receive(r) PROVE Inv'
  <2>1. TypeOK' /\ RowsByPc' /\ AnswerByPc'
    BY <1>1, AskIsNotNoAsk DEF Receive, Inv, TypeOK, RowsByPc, AnswerByPc
  <2>2. \A e \in Request : e # r => asked'[e] = asked[e]
    BY <1>1 DEF Receive, Inv, TypeOK
  <2>3. scanRow[r] = "none" /\ answer[r] = "none" /\ pc'[r] = "waiting"
    BY <1>1 DEF Receive, Inv, RowsByPc, AnswerByPc, TypeOK
  <2>4. \A e \in Request : e # r => pc'[e] = pc[e]
    BY <1>1 DEF Receive, Inv, TypeOK
  <2>5. OneRowPerKey'
    BY <1>1, <2>2, <2>3 DEF Receive, Inv, OneRowPerKey, SameKey
  <2>6. WinnerIsThere'
    BY <1>1, <2>2, <2>3, <2>4 DEF Receive, Inv, WinnerIsThere, Existing, Rivals, SameKey
  <2>7. AnswersHold'
    BY <1>1, <2>2, <2>3 DEF Receive, Inv, AnswersHold, AnswerHolds, AnswerByPc, SameKey, SameBody
  <2> QED
    BY <2>1, <2>5, <2>6, <2>7 DEF Inv
<1>2. ASSUME NEW r \in Request, Begin(r) PROVE Inv'
  <2>1. TypeOK' /\ RowsByPc' /\ AnswerByPc'
    BY <1>2 DEF Begin, Inv, TypeOK, RowsByPc, AnswerByPc
  <2> QED
    BY <1>2, <2>1, NothingNew DEF Begin, Inv, TypeOK
<1>3. ASSUME NEW r \in Request, InsertScan(r) PROVE Inv'
  <2>1. TypeOK' /\ RowsByPc' /\ AnswerByPc'
    BY <1>3 DEF InsertScan, Inv, TypeOK, RowsByPc, AnswerByPc
  <2>2. \A e \in Request \ {r} : scanRow[e] # "none" => ~ SameKey(e, r) /\ ~ SameKey(r, e)
    BY <1>3 DEF InsertScan, Inv, TypeOK, Rivals, SameKey
  <2>3. \A e \in Request : scanRow[e] = "committed" => scanRow'[e] = "committed"
    BY <1>3 DEF InsertScan, Inv, TypeOK, RowsByPc
  <2>4. /\ \A r1, r2 \in Request : SameKey(r1, r2)' <=> SameKey(r1, r2)
        /\ \A r1, r2 \in Request : SameBody(r1, r2)' <=> SameBody(r1, r2)
        /\ \A e \in Request : Existing(e) \subseteq Existing(e)'
    BY <1>3, <2>3, CommittedStays DEF InsertScan
  <2>5. OneRowPerKey' /\ WinnerIsThere'
    BY <1>3, <2>2, <2>4 DEF InsertScan, Inv, TypeOK, OneRowPerKey, WinnerIsThere
  <2>6. AnswersHold'
    BY <1>3, <2>3, <2>4 DEF InsertScan, Inv, TypeOK, AnswersHold, AnswerHolds, AnswerByPc
  <2> QED
    BY <2>1, <2>5, <2>6 DEF Inv
<1>4. ASSUME NEW r \in Request, InsertViolates(r) PROVE Inv'
  <2>1. TypeOK' /\ RowsByPc' /\ AnswerByPc'
    BY <1>4 DEF InsertViolates, Inv, TypeOK, RowsByPc, AnswerByPc
  <2>2. Existing(r) # {}
    BY <1>4 DEF InsertViolates, Existing
  <2> QED
    BY <1>4, <2>1, <2>2, NothingNew DEF InsertViolates, Inv, TypeOK
<1>5. ASSUME NEW r \in Request, InsertOutbox(r) PROVE Inv'
  <2>1. TypeOK' /\ RowsByPc' /\ AnswerByPc'
    BY <1>5 DEF InsertOutbox, Inv, TypeOK, RowsByPc, AnswerByPc
  <2> QED
    BY <1>5, <2>1, NothingNew DEF InsertOutbox, Inv, TypeOK
<1>6. ASSUME NEW r \in Request, Commit(r) PROVE Inv'
  <2>1. TypeOK' /\ RowsByPc' /\ AnswerByPc'
    BY <1>6 DEF Commit, Inv, TypeOK, RowsByPc, AnswerByPc
  <2>2. scanRow[r] = "uncommitted"
    BY <1>6 DEF Commit, Inv, RowsByPc
  <2>3. \A e \in Request : /\ scanRow[e] = "committed" => scanRow'[e] = "committed"
                           /\ scanRow'[e] # "none" => scanRow[e] # "none"
                           /\ pc'[e] = "violated" => pc[e] = "violated"
    BY <1>6, <2>2 DEF Commit, Inv, TypeOK
  <2>4. /\ \A r1, r2 \in Request : SameKey(r1, r2)' <=> SameKey(r1, r2)
        /\ \A r1, r2 \in Request : SameBody(r1, r2)' <=> SameBody(r1, r2)
        /\ \A e \in Request : Existing(e) \subseteq Existing(e)'
    BY <1>6, <2>3, CommittedStays DEF Commit
  <2>5. OneRowPerKey' /\ WinnerIsThere'
    BY <2>3, <2>4 DEF Inv, OneRowPerKey, WinnerIsThere
  <2>6. AnswersHold'
    BY <1>6, <2>3, <2>4 DEF Commit, Inv, TypeOK, AnswersHold, AnswerHolds, AnswerByPc
  <2> QED
    BY <2>1, <2>5, <2>6 DEF Inv
<1>7. ASSUME NEW r \in Request, RespondCreated(r) \/ Replay(r) \/ RespondConflict(r) PROVE Inv'
  <2>1. PICK kind \in {"created", "replayed", "conflict"}, e \in Request \cup {NoRequest} :
           /\ Respond(r, kind, e)
           /\ e \in Request <=> kind # "conflict"
           /\ kind = "created" => e = r /\ scanRow[r] = "committed"
           /\ kind = "replayed" => scanRow[e] = "committed" /\ SameKey(e, r) /\ SameBody(e, r)
           /\ kind = "conflict" =>
                 \E f \in Request : scanRow[f] = "committed" /\ SameKey(f, r) /\ ~ SameBody(f, r)
    BY <1>7, NoRequestAssumption
       DEF RespondCreated, Replay, RespondConflict, Existing, Rivals, Inv, RowsByPc
  <2>2. pc[r] \in {"committed", "violated"} /\ UNCHANGED <<asked, api, scanRow, event, faults>>
    BY <1>7 DEF RespondCreated, Replay, RespondConflict
  <2>3. TypeOK' /\ RowsByPc' /\ AnswerByPc'
    BY <2>1, <2>2 DEF Respond, Inv, TypeOK, RowsByPc, AnswerByPc
  <2>4. /\ \A r1, r2 \in Request : SameKey(r1, r2)' <=> SameKey(r1, r2)
        /\ \A r1, r2 \in Request : SameBody(r1, r2)' <=> SameBody(r1, r2)
        /\ \A f \in Request : Existing(f) \subseteq Existing(f)'
    BY <2>2, CommittedStays
  <2>5. OneRowPerKey' /\ WinnerIsThere'
    BY <2>1, <2>2, <2>4 DEF Respond, Inv, TypeOK, OneRowPerKey, WinnerIsThere
  <2>6. AnswersHold'
    <3>1. \A q \in Request : q # r => answer'[q] = answer[q] /\ named'[q] = named[q]
      BY <2>1 DEF Respond, Inv, TypeOK
    <3>2. answer'[r] = kind /\ named'[r] = e
      BY <2>1 DEF Respond, Inv, TypeOK
    <3>3. \A q \in Request : q # r => AnswerHolds(q)'
      BY <2>2, <2>4, <3>1 DEF Inv, TypeOK, AnswerByPc, AnswersHold, AnswerHolds
    <3>4. AnswerHolds(r)'
      BY <2>1, <2>2, <2>4, <3>2 DEF AnswerHolds
    <3> QED
      BY <3>3, <3>4 DEF AnswersHold
  <2> QED
    BY <2>3, <2>5, <2>6 DEF Inv
<1>8. ASSUME NEW r \in Request, DbFails(r) PROVE Inv'
  <2>1. TypeOK' /\ RowsByPc' /\ AnswerByPc'
    BY <1>8, NoRequestAssumption
       DEF DbFails, Fault, Undone, Respond, Inv, TypeOK, RowsByPc, AnswerByPc
  <2> QED
    BY <1>8, <2>1, NothingNew DEF DbFails, Undone, Respond, Inv, TypeOK
<1>9. ASSUME NEW a \in Api, ApiCrash(a) PROVE Inv'
  <2> DEFINE R == {r \in Request : api[r] = a /\ pc[r] \in InFlight}
  <2>1. /\ scanRow' = [r \in Request |->
                         IF r \in R /\ scanRow[r] = "uncommitted" THEN "none" ELSE scanRow[r]]
        /\ event' = [r \in Request |->
                       IF r \in R /\ event[r] = "uncommitted" THEN "none" ELSE event[r]]
        /\ pc' = [r \in Request |-> IF r \in R THEN "answered" ELSE pc[r]]
        /\ answer' = [r \in Request |-> IF r \in R THEN "lost" ELSE answer[r]]
        /\ faults' = faults + 1
        /\ UNCHANGED <<asked, api, named>>
    BY <1>9 DEF ApiCrash, Undone, Fault
  <2>2. \A r \in R : pc[r] \in InFlight
    OBVIOUS
  <2> HIDE DEF R
  <2>3. TypeOK'
    BY <2>1 DEF Inv, TypeOK
  <2>4. RowsByPc' /\ AnswerByPc'
    BY <2>1, <2>2 DEF Inv, TypeOK, RowsByPc, AnswerByPc
  <2> QED
    BY <2>1, <2>3, <2>4, NothingNew DEF Inv, TypeOK
<1>10. CASE UNCHANGED vars
  BY <1>10, NothingNew DEF vars, Inv, TypeOK, RowsByPc, AnswerByPc
<1> QED
  BY <1>1, <1>2, <1>3, <1>4, <1>5, <1>6, <1>7, <1>8, <1>9, <1>10 DEF Next, Step, Done

\* The invariant holds in every reachable state.
LEMMA InvInvariant == Spec => []Inv
BY InvInit, InvStep, PTL DEF Spec

-----------------------------------------------------------------------------
(* The theorems.                                                           *)

\* Every reachable state of SubmitScan has the type TypeOK states.
THEOREM TypeCorrect == Spec => []TypeOK
<1>1. Inv => TypeOK
  BY DEF Inv
<1> QED
  BY <1>1, InvInvariant, PTL

\* However many requests submit one client's key at once, one scan exists for
\* it at most.
THEOREM OneScan == Spec => []OneScanPerKey
<1>1. Inv => OneScanPerKey
  BY DEF Inv, OneRowPerKey, OneScanPerKey
<1> QED
  BY <1>1, InvInvariant, PTL

\* A scan is committed with its event or not at all.
THEOREM ScanWithEvent == Spec => []EventWithScan
<1>1. Inv => EventWithScan
  BY DEF Inv, TypeOK, InFlight, RowsByPc, EventWithScan
<1> QED
  BY <1>1, InvInvariant, PTL

\* The loser of a race finds the winner's row: the rethrow is unreachable.
THEOREM RethrowUnreachable == Spec => []WinnerIsThere
<1>1. Inv => WinnerIsThere
  BY DEF Inv
<1> QED
  BY <1>1, InvInvariant, PTL

\* Answers to requests with one key agree, and what they say is so.
THEOREM ClientsAgree == Spec => []AnswersAgree
<1>1. ASSUME Inv PROVE AnswersAgree
  <2>1. ASSUME NEW r \in Request, answer[r] \in {"created", "replayed"}
        PROVE  /\ named[r] \in Request
               /\ scanRow[named[r]] = "committed"
               /\ SameBody(named[r], r)
               /\ named[r] = r \/ SameKey(named[r], r)
    BY <1>1, <2>1 DEF Inv, AnswerByPc, AnswersHold, AnswerHolds, SameBody
  <2>2. ASSUME NEW r \in Request, NEW q \in Request, SameKey(q, r),
               answer[r] \in {"created", "replayed"}, answer[q] \in {"created", "replayed"}
        PROVE  named[q] = named[r]
    <3>1. SameKey(named[q], named[r])
      BY <2>1, <2>2 DEF SameKey
    <3> QED
      BY <1>1, <2>1, <2>2, <3>1 DEF Inv, OneRowPerKey
  <2> QED
    BY <1>1, <2>1, <2>2 DEF Inv, AnswersHold, AnswerHolds, AnswersAgree
<1> QED
  BY <1>1, InvInvariant, PTL

-----------------------------------------------------------------------------
(* The safety half of EveryRequestAnswered: somebody can always go on, and *)
(* no request has more than six steps to go.                               *)

\* A process without a free connection has a request that holds one.
LEMMA SomebodyHolds ==
    ASSUME NEW a \in Api, ~ ConnectionFree(a)
    PROVE  \E q \in Request : api[q] = a /\ HoldsConnection(q)
<1> SUFFICES ASSUME {r \in Request : api[r] = a /\ HoldsConnection(r)} = {} PROVE FALSE
  OBVIOUS
<1>1. Cardinality({r \in Request : api[r] = a /\ HoldsConnection(r)}) = 0
  BY FS_EmptySet
<1> QED
  BY <1>1, PoolSizeAssumption DEF ConnectionFree

\* The owner of an open row only has its outbox row and its commit to do.
LEMMA OpenRowsGoOn ==
    ASSUME Inv, NEW r \in Request, NEW q \in Rivals(r, "uncommitted")
    PROVE  q \in Request /\ CanStep(q)
BY DEF Inv, TypeOK, InFlight, RowsByPc, Rivals, CanStep

\* A request at its INSERT goes on, or waits for one that does.
LEMMA InsertGoesOn ==
    ASSUME Inv, NEW r \in Request, pc[r] = "insert"
    PROVE  CanStep(r) \/ \E e \in Request : WaitsFor(r, e) /\ CanStep(e)
<1>1. CASE Rivals(r, "uncommitted") = {}
  BY <1>1 DEF CanStep
<1>2. ASSUME NEW e \in Rivals(r, "uncommitted") PROVE e \in Request /\ WaitsFor(r, e) /\ CanStep(e)
  BY <1>2, OpenRowsGoOn DEF WaitsFor
<1> QED
  BY <1>1, <1>2

\* However small the pool and whoever shares a key, no request is stuck.
THEOREM NoDeadlock == Spec => []NobodyStuck
<1>1. ASSUME Inv PROVE NobodyStuck
  <2> SUFFICES ASSUME NEW r \in Request, pc[r] \in InFlight, ~ CanStep(r)
               PROVE  \E q \in Request :
                         /\ WaitsFor(r, q)
                         /\ CanStep(q) \/ \E e \in Request : WaitsFor(q, e) /\ CanStep(e)
    BY DEF NobodyStuck
  <2>1. CASE pc[r] = "insert"
    BY <1>1, <2>1, InsertGoesOn
  <2>2. CASE pc[r] # "insert"
    <3>1. pc[r] \in {"waiting", "violated"} /\ ~ ConnectionFree(api[r])
      BY <1>1, <2>2 DEF InFlight, CanStep, Inv, WinnerIsThere
    <3>2. PICK q \in Request : api[q] = api[r] /\ HoldsConnection(q)
      BY <1>1, <3>1, SomebodyHolds DEF Inv, TypeOK
    <3>3. WaitsFor(r, q)
      BY <3>1, <3>2 DEF WaitsFor
    <3>4. CanStep(q) \/ \E e \in Request : WaitsFor(q, e) /\ CanStep(e)
      <4>1. CASE pc[q] = "insert"
        BY <1>1, <4>1, InsertGoesOn
      <4>2. CASE pc[q] # "insert"
        BY <3>2, <4>2 DEF HoldsConnection, CanStep
      <4> QED
        BY <4>1, <4>2
    <3> QED
      BY <3>3, <3>4
  <2> QED
    BY <2>1, <2>2
<1> QED
  BY <1>1, InvInvariant, PTL

\* A step of one request, or the end of several, sets none back.
THEOREM Terminates == Spec => NoRequestSetBack
<1> DEFINE Onward == /\ \A r \in Request : StepsLeft(r)' <= StepsLeft(r)
                     /\ \E r \in Request : StepsLeft(r)' < StepsLeft(r)
<1>1. ASSUME Inv, [Next]_vars PROVE [Onward]_vars
  <2> USE <1>1 DEF Inv, TypeOK, InFlight
  <2>1. ASSUME NEW r \in Request, NEW p \in InFlight \cup {"answered"}, pc' = [pc EXCEPT ![r] = p],
               StepsLeft(r)' < StepsLeft(r)
        PROVE  Onward
    BY <2>1 DEF StepsLeft
  <2>2. ASSUME NEW r \in Request, Receive(r) PROVE Onward
    <3>1. pc' = [pc EXCEPT ![r] = "waiting"] /\ StepsLeft(r)' < StepsLeft(r)
      BY <2>2 DEF Receive, StepsLeft
    <3> QED
      BY <2>1, <3>1
  <2>3. ASSUME NEW r \in Request, Begin(r) PROVE Onward
    <3>1. pc' = [pc EXCEPT ![r] = "insert"] /\ StepsLeft(r)' < StepsLeft(r)
      BY <2>3 DEF Begin, StepsLeft
    <3> QED
      BY <2>1, <3>1
  <2>4. ASSUME NEW r \in Request, InsertScan(r) PROVE Onward
    <3>1. pc' = [pc EXCEPT ![r] = "outbox"] /\ StepsLeft(r)' < StepsLeft(r)
      BY <2>4 DEF InsertScan, StepsLeft
    <3> QED
      BY <2>1, <3>1
  <2>5. ASSUME NEW r \in Request, InsertViolates(r) PROVE Onward
    <3>1. pc' = [pc EXCEPT ![r] = "violated"] /\ StepsLeft(r)' < StepsLeft(r)
      BY <2>5 DEF InsertViolates, StepsLeft
    <3> QED
      BY <2>1, <3>1
  <2>6. ASSUME NEW r \in Request, InsertOutbox(r) PROVE Onward
    <3>1. pc' = [pc EXCEPT ![r] = "commit"] /\ StepsLeft(r)' < StepsLeft(r)
      BY <2>6 DEF InsertOutbox, StepsLeft
    <3> QED
      BY <2>1, <3>1
  <2>7. ASSUME NEW r \in Request, Commit(r) PROVE Onward
    <3>1. pc' = [pc EXCEPT ![r] = "committed"] /\ StepsLeft(r)' < StepsLeft(r)
      BY <2>7 DEF Commit, StepsLeft
    <3> QED
      BY <2>1, <3>1
  <2>8. ASSUME NEW r \in Request, RespondCreated(r) \/ Replay(r) \/ RespondConflict(r) \/ DbFails(r)
        PROVE  Onward
    <3>1. pc[r] \in InFlight /\ pc' = [pc EXCEPT ![r] = "answered"]
      BY <2>8 DEF RespondCreated, Replay, RespondConflict, DbFails, Respond
    <3> QED
      BY <2>1, <3>1 DEF StepsLeft
  <2>9. ASSUME NEW a \in Api, ApiCrash(a) PROVE Onward
    <3>1. PICK r \in Request : api[r] = a /\ pc[r] \in InFlight
      BY <2>9 DEF ApiCrash
    <3>2. \A q \in Request :
             pc'[q] = IF api[q] = a /\ pc[q] \in InFlight THEN "answered" ELSE pc[q]
      BY <2>9 DEF ApiCrash
    <3> QED
      BY <3>1, <3>2 DEF StepsLeft
  <2>10. CASE UNCHANGED vars
    BY <2>10
  <2> HIDE DEF Onward
  <2> QED
    BY <2>2, <2>3, <2>4, <2>5, <2>6, <2>7, <2>8, <2>9, <2>10 DEF Next, Step, Done
<1> QED
  BY <1>1, InvInvariant, PTL DEF Spec, NoRequestSetBack

-----------------------------------------------------------------------------
(* The refinement.                                                         *)

\* Every step of submit is a step of IdempotentSubmit, or changes nothing a
\* client sees: the commit accepts, the answers are justified.
THEOREM SubmitImplementsPromise == Spec => ImplementsPromise
<1> DEFINE Accepted == {r \in Request : scanRow[r] = "committed"}
<1>1. Init => Promise!Init
  BY DEF Init, Promise!Init, NoAsk, Promise!NoAsk
<1>2. Inv /\ [Next]_vars => [Promise!Next]_(Promise!vars)
  <2> SUFFICES ASSUME Inv, [Next]_vars
               PROVE  Promise!Next \/ UNCHANGED <<asked, Accepted, answer, named>>
    BY DEF Promise!vars
  <2> USE DEF Inv, TypeOK, InFlight, NoAsk, Promise!NoAsk
  <2>1. ASSUME NEW r \in Request, Receive(r) PROVE Promise!Next
    <3>1. PICK a \in Ask : asked' = [asked EXCEPT ![r] = a]
      BY <2>1 DEF Receive
    <3>2. Promise!Receive(r, a)
      BY <2>1, <3>1 DEF Receive, RowsByPc, Promise!Receive
    <3> QED
      BY <3>2 DEF Ask, Promise!Ask, Promise!Next
  <2>2. ASSUME NEW r \in Request, Commit(r) PROVE Promise!Next
    <3>1. scanRow[r] = "uncommitted" /\ asked[r] # NoAsk /\ answer[r] = "none"
      BY <2>2 DEF Commit, RowsByPc, AnswerByPc
    <3>2. ~ \E e \in Accepted : Promise!SameKey(e, r)
      BY <3>1 DEF OneRowPerKey, SameKey, Promise!SameKey
    <3>3. Accepted' = Accepted \cup {r}
      BY <2>2 DEF Commit
    <3> QED
      BY <2>2, <3>1, <3>2, <3>3 DEF Commit, Promise!Next, Promise!Accept, Promise!Acceptable
  <2>3. ASSUME NEW r \in Request, NEW kind \in {"created", "replayed", "conflict", "error"},
               NEW e \in Request \cup {NoRequest},
               Respond(r, kind, e), pc[r] \in InFlight, Accepted' = Accepted, UNCHANGED asked,
               Promise!Justified(r, kind, e)
        PROVE  Promise!Next
    <3>1. asked[r] # NoAsk /\ answer[r] = "none"
      BY <2>3 DEF RowsByPc, AnswerByPc
    <3>2. Promise!Answer(r, kind, e)
      BY <2>3, <3>1 DEF Respond, Promise!Answer
    <3> QED
      BY <3>2 DEF Promise!Next
  <2>4. ASSUME NEW r \in Request, RespondCreated(r) PROVE Promise!Next
    <3>1. r \in Accepted
      BY <2>4 DEF RespondCreated, RowsByPc
    <3> QED
      BY <2>3, <2>4, <3>1 DEF RespondCreated, Promise!Justified
  <2>5. ASSUME NEW r \in Request, Replay(r) PROVE Promise!Next
    <3>1. PICK e \in Existing(r) : SameBody(e, r) /\ Respond(r, "replayed", e)
      BY <2>5 DEF Replay
    <3>2. Promise!Justified(r, "replayed", e)
      BY <3>1 DEF Existing, Rivals, SameKey, SameBody, Promise!Justified, Promise!SameKey,
                  Promise!SameBody
    <3> QED
      BY <2>3, <2>5, <3>1, <3>2 DEF Replay, Existing, Rivals
  <2>6. ASSUME NEW r \in Request, RespondConflict(r) PROVE Promise!Next
    <3>1. PICK e \in Existing(r) : ~ SameBody(e, r) /\ Respond(r, "conflict", NoRequest)
      BY <2>6 DEF RespondConflict
    <3>2. Promise!Justified(r, "conflict", NoRequest)
      BY <3>1 DEF Existing, Rivals, SameKey, SameBody, Promise!Justified, Promise!SameKey,
                  Promise!SameBody
    <3> QED
      BY <2>3, <2>6, <3>1, <3>2 DEF RespondConflict
  <2>7. ASSUME NEW r \in Request, DbFails(r) PROVE Promise!Next
    <3>1. Accepted' = Accepted
      BY <2>7 DEF DbFails, Undone
    <3> QED
      BY <2>3, <2>7, <3>1 DEF DbFails, Promise!Justified
  <2>8. ASSUME NEW a \in Api, ApiCrash(a) PROVE Promise!Next
    <3> DEFINE R == {r \in Request : api[r] = a /\ pc[r] \in InFlight}
    <3>1. /\ Undone(R)
          /\ answer' = [r \in Request |-> IF r \in R THEN "lost" ELSE answer[r]]
          /\ UNCHANGED <<asked, named>>
      BY <2>8 DEF ApiCrash
    <3>2. \A r \in R : asked[r] # NoAsk /\ answer[r] = "none"
      BY DEF RowsByPc, AnswerByPc
    <3>3. R \in SUBSET Request
      OBVIOUS
    <3> HIDE DEF R
    <3>4. Accepted' = Accepted
      BY <3>1 DEF Undone
    <3> QED
      BY <3>1, <3>2, <3>3, <3>4 DEF Promise!Next, Promise!Lose
  <2>9. ASSUME NEW r \in Request, Begin(r) \/ InsertScan(r) \/ InsertViolates(r) \/ InsertOutbox(r)
        PROVE  UNCHANGED <<asked, Accepted, answer, named>>
    <3>1. Accepted' = Accepted
      BY <2>9 DEF Begin, InsertScan, InsertViolates, InsertOutbox, RowsByPc
    <3> QED
      BY <2>9, <3>1 DEF Begin, InsertScan, InsertViolates, InsertOutbox
  <2>10. CASE UNCHANGED vars
    BY <2>10 DEF vars
  <2> QED
    BY <2>1, <2>2, <2>4, <2>5, <2>6, <2>7, <2>8, <2>9, <2>10 DEF Next, Step, Done
<1> QED
  BY <1>1, <1>2, InvInvariant, PTL DEF Spec, ImplementsPromise, Promise!Spec
=============================================================================
