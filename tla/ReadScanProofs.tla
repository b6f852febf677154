---------------------------- MODULE ReadScanProofs ----------------------------
(***************************************************************************)
(* Proofs about ReadScan for any scans, clients and requests.              *)
(*                                                                         *)
(* The argument: a scan only moves forward, so what a request has read of  *)
(* it is never ahead of the scan (Behind), and a request that was sent     *)
(* after an answer reads a scan that is at least where that answer left    *)
(* it (Ordered).                                                           *)
(***************************************************************************)
EXTENDS ReadScan, TLAPS

\* The columns of a scan appear together.
RowInv(s) ==
    /\ checkRows[s] = verdict[s]
    /\ status[s] = "completed" <=> verdict[s] # NoResult

\* What a request has read is a state its scan has been in.
Behind(r) ==
    /\ pc[r] # "corrupt"
    /\ pc[r] \in {"row", "answered"} =>
          /\ status[ScanOf[r]] # "absent"
          /\ Passed(view[r].status) \subseteq Passed(status[ScanOf[r]])
          /\ view[r].status = "completed" =>
                status[ScanOf[r]] = "completed" /\ view[r].verdict = verdict[ScanOf[r]]
          /\ view[r].status # "completed" => view[r].verdict = NoResult
    /\ pc[r] = "answered" =>
          /\ OwnerOf[ScanOf[r]] = ClientOf[r]
          /\ view[r].status = "completed" => view[r].checks = view[r].verdict
          /\ view[r].checks # NoResult =>
                status[ScanOf[r]] = "completed" /\ view[r].checks = verdict[ScanOf[r]]

\* A request does not read less than its client had seen when it was sent.
Ordered(q, r) ==
    /\ pc[q] = "answered"
    /\ SameReader(q, r)
    /\ pc[r] # "unsent"
    /\ pc[r] # "notFound"
    /\ pc[r] \in {"row", "answered"} =>
          /\ Passed(view[q].status) \subseteq Passed(view[r].status)
          /\ view[q].status = "completed" \/ view[q].checks # NoResult =>
                view[r].status = "completed"

Inv ==
    /\ TypeOK
    /\ \A s \in Scan : RowInv(s)
    /\ \A r \in Request : Behind(r)
    /\ \A r \in Request : \A q \in before[r] : Ordered(q, r)

\* The statuses are passed in one order.
LEMMA PassedOrder ==
    /\ Passed("pending") = {"accept"}
    /\ Passed("in_progress") = {"accept", "start"}
    /\ Passed("completed") = {"accept", "start", "finish"}
BY DEF Passed

\* The inductive invariant implies both safety properties.
LEMMA InvImplies == Inv => TypeOK /\ CompletedIsWhole /\ ViewsNeverGoBack
<1> SUFFICES ASSUME Inv PROVE CompletedIsWhole /\ ViewsNeverGoBack
  BY DEF Inv
<1> USE RequestAssumption
<1>1. CompletedIsWhole
  BY DEF Inv, TypeOK, CompletedIsWhole, Behind, RowInv
<1>2. ASSUME NEW r \in Request, NEW q \in before[r]
      PROVE  /\ pc[r] # "notFound"
             /\ pc[r] = "answered" =>
                   /\ Passed(view[q].status) \subseteq Passed(view[r].status)
                   /\ view[q].status = "completed" => view[r] = view[q]
                   /\ view[q].checks # NoResult => view[r].checks = view[q].checks
  <2>1. Ordered(q, r) /\ Behind(r) /\ Behind(q) /\ q \in Request
    BY <1>2 DEF Inv, TypeOK
  <2>2. ScanOf[q] = ScanOf[r] /\ ScanOf[r] \in Scan
    BY <2>1 DEF Ordered, SameReader
  <2>3. /\ view[r] \in [status : Status \cup {"absent"}, verdict : Outcome, checks : Outcome]
        /\ view[q] \in [status : Status \cup {"absent"}, verdict : Outcome, checks : Outcome]
    BY <2>1 DEF Inv, TypeOK
  <2> QED
    BY <2>1, <2>2, <2>3 DEF Ordered, Behind
<1> QED
  BY <1>1, <1>2 DEF ViewsNeverGoBack

\* Nothing is read and nobody has read at the start.
LEMMA InvInit == Init => Inv
BY DEF Init, Nothing, Inv, TypeOK, RowInv, Behind, Outcome

\* A step of a scan keeps the invariant: rows only move forward.
LEMMA ScanStep ==
    ASSUME Inv, NEW s \in Scan,
           Accept(s) \/ Start(s) \/ \E v \in Result : Finish(s, v)
    PROVE  Inv'
<1> USE RequestAssumption, NoResultAssumption DEF Inv
<1>1. TypeOK'
  BY DEF TypeOK, Accept, Start, Finish, Status, Outcome
<1>2. \A t \in Scan : RowInv(t)'
  BY DEF TypeOK, RowInv, Accept, Start, Finish
<1>3. UNCHANGED <<pc, view, before>>
  BY DEF Accept, Start, Finish
<1>4. \A t \in Scan : /\ status[t] # "absent" =>
                            status'[t] # "absent" /\ Passed(status[t]) \subseteq Passed(status'[t])
                      /\ status[t] = "completed" =>
                            status'[t] = "completed" /\ verdict'[t] = verdict[t]
  BY PassedOrder DEF TypeOK, Accept, Start, Finish
<1>5. ASSUME NEW r \in Request PROVE Behind(r)'
  <2>1. ScanOf[r] \in Scan /\ Behind(r)
    BY DEF Inv
  <2>2. pc' = pc /\ view' = view
    BY <1>3
  <2>3. pc[r] \in {"row", "answered"} =>
           Passed(view[r].status) \subseteq Passed(status'[ScanOf[r]])
    BY <1>4, <2>1 DEF Behind
  <2> QED
    BY <1>4, <2>1, <2>2, <2>3 DEF Behind
<1>6. \A r \in Request : \A q \in before'[r] : Ordered(q, r)'
  BY <1>3 DEF Ordered
<1> QED
  BY <1>1, <1>2, <1>5, <1>6

\* A step of a request keeps the invariant.
LEMMA RequestStep ==
    ASSUME Inv, NEW r \in Request,
           Send(r) \/ ReadRow(r) \/ ReadNoRow(r) \/ ReadChecks(r) \/ ReadFails(r)
    PROVE  Inv'
<1> USE RequestAssumption, NoResultAssumption DEF Inv
<1>0. UNCHANGED rows
  BY DEF Send, ReadRow, ReadNoRow, ReadChecks, ReadFails, rows
<1>1. \A s \in Scan : RowInv(s)'
  BY <1>0 DEF RowInv, rows
<1>2. CASE Send(r)
  <2>1. TypeOK'
    BY <1>2 DEF TypeOK, Send
  <2>2. \A p \in Request : Behind(p)'
    BY <1>2 DEF TypeOK, Behind, Send
  <2>3. \A p \in Request : \A q \in before'[p] : Ordered(q, p)'
    <3> SUFFICES ASSUME NEW p \in Request, NEW q \in before'[p] PROVE Ordered(q, p)'
      OBVIOUS
    <3>1. CASE p = r
      BY <1>2, <3>1 DEF TypeOK, Ordered, SameReader, Send
    <3>2. CASE p # r
      <4>1. q \in before[p] /\ Ordered(q, p) /\ q \in Request /\ q # r
        BY <1>2, <3>2 DEF TypeOK, Ordered, Send
      <4> QED
        BY <1>2, <3>2, <4>1 DEF TypeOK, Ordered, SameReader, Send
    <3> QED
      BY <3>1, <3>2
  <2> QED
    BY <1>1, <2>1, <2>2, <2>3
<1>3. CASE ReadRow(r)
  <2>1. TypeOK'
    BY <1>3 DEF TypeOK, ReadRow, Outcome
  <2>2. \A p \in Request : Behind(p)'
    BY <1>3 DEF TypeOK, Behind, ReadRow, RowInv
  <2>3. \A p \in Request : \A q \in before'[p] : Ordered(q, p)'
    <3> SUFFICES ASSUME NEW p \in Request, NEW q \in before[p] PROVE Ordered(q, p)'
      BY <1>3 DEF ReadRow
    <3>1. Ordered(q, p) /\ Behind(q) /\ q \in Request /\ q # r
      BY <1>3 DEF TypeOK, Ordered, ReadRow
    <3> QED
      BY <1>3, <3>1 DEF TypeOK, Ordered, SameReader, Behind, ReadRow
  <2> QED
    BY <1>1, <2>1, <2>2, <2>3
<1>4. CASE ReadNoRow(r)
  <2>1. TypeOK'
    BY <1>4 DEF TypeOK, ReadNoRow
  <2>2. \A p \in Request : Behind(p)'
    BY <1>4 DEF TypeOK, Behind, ReadNoRow
  <2>3. \A p \in Request : \A q \in before'[p] : Ordered(q, p)'
    <3> SUFFICES ASSUME NEW p \in Request, NEW q \in before[p] PROVE Ordered(q, p)'
      BY <1>4 DEF ReadNoRow
    <3>1. Ordered(q, p) /\ Behind(q) /\ q \in Request /\ q # r
      BY <1>4 DEF TypeOK, Ordered, ReadNoRow
    <3> QED
      BY <1>4, <3>1 DEF TypeOK, Ordered, SameReader, Behind, ReadNoRow
  <2> QED
    BY <1>1, <2>1, <2>2, <2>3
<1>5. CASE ReadChecks(r)
  <2>0. ~Corrupt(view[r])
    BY <1>5 DEF Corrupt, Behind, RowInv, ReadChecks
  <2>1. TypeOK'
    BY <1>5, <2>0 DEF TypeOK, ReadChecks
  <2>2. ASSUME NEW p \in Request PROVE Behind(p)'
    <3>1. CASE p # r
      BY <1>5, <3>1 DEF TypeOK, Behind, ReadChecks
    <3>2. CASE p = r
      <4>0. PICK s \in Scan : s = ScanOf[r]
        OBVIOUS
      <4>1. RowInv(s) /\ Behind(r)
        BY <4>0
      <4>2. view'[r] = [view[r] EXCEPT !.checks = checkRows[s]]
        BY <1>5, <4>0 DEF TypeOK, ReadChecks
      <4>3. /\ view[r] \in [status : Status \cup {"absent"}, verdict : Outcome, checks : Outcome]
            /\ pc[r] = "row"
        BY <1>5 DEF TypeOK, ReadChecks
      <4>4. /\ view'[r].status = view[r].status
            /\ view'[r].verdict = view[r].verdict
            /\ view'[r].checks = checkRows[s]
        BY <4>2, <4>3
      <4>5. pc'[r] = "notFound" \/ (pc'[r] = "answered" /\ OwnerOf[s] = ClientOf[r])
        BY <1>5, <2>0, <4>0 DEF TypeOK, ReadChecks
      <4>6. status' = status /\ verdict' = verdict
        BY <1>0 DEF rows
      <4>7. /\ status[s] # "absent" /\ Passed(view'[r].status) \subseteq Passed(status'[s])
            /\ view'[r].status = "completed" =>
                  status'[s] = "completed" /\ view'[r].verdict = verdict'[s]
            /\ view'[r].status # "completed" => view'[r].verdict = NoResult
        BY <4>0, <4>1, <4>3, <4>4, <4>6 DEF Behind
      <4>8. /\ view'[r].status = "completed" => view'[r].checks = view'[r].verdict
            /\ view'[r].checks # NoResult =>
                  status'[s] = "completed" /\ view'[r].checks = verdict'[s]
        BY <4>1, <4>4, <4>6, <4>7 DEF RowInv
      <4> HIDE DEF Inv
      <4> QED
        BY <3>2, <4>0, <4>5, <4>6, <4>7, <4>8 DEF Behind
    <3> QED
      BY <3>1, <3>2
  <2>3. \A p \in Request : \A q \in before'[p] : Ordered(q, p)'
    <3> SUFFICES ASSUME NEW p \in Request, NEW q \in before[p] PROVE Ordered(q, p)'
      BY <1>5 DEF ReadChecks
    <3>1. Ordered(q, p) /\ Behind(q) /\ q \in Request /\ q # r
      BY <1>5 DEF TypeOK, Ordered, ReadChecks
    <3> QED
      BY <1>5, <2>0, <3>1 DEF TypeOK, Ordered, SameReader, Behind, ReadChecks
  <2> QED
    BY <1>1, <2>1, <2>2, <2>3
<1>6. CASE ReadFails(r)
  <2>1. TypeOK'
    BY <1>6 DEF TypeOK, ReadFails
  <2>2. \A p \in Request : Behind(p)'
    BY <1>6 DEF TypeOK, Behind, ReadFails
  <2>3. \A p \in Request : \A q \in before'[p] : Ordered(q, p)'
    <3> SUFFICES ASSUME NEW p \in Request, NEW q \in before[p] PROVE Ordered(q, p)'
      BY <1>6 DEF ReadFails
    <3>1. Ordered(q, p) /\ q \in Request /\ q # r
      BY <1>6 DEF TypeOK, Ordered, ReadFails
    <3> QED
      BY <1>6, <3>1 DEF TypeOK, Ordered, SameReader, ReadFails
  <2> QED
    BY <1>1, <2>1, <2>2, <2>3
<1> QED
  BY <1>2, <1>3, <1>4, <1>5, <1>6

\* The inductive invariant holds in every reachable state.
LEMMA InvHolds == Spec => []Inv
<1>1. Inv /\ [Next]_vars => Inv'
  <2> SUFFICES ASSUME Inv, [Next]_vars PROVE Inv'
    OBVIOUS
  <2>1. CASE UNCHANGED vars
    <3>1. TypeOK'
      BY <2>1 DEF vars, Inv, TypeOK
    <3>2. \A s \in Scan : RowInv(s)'
      BY <2>1 DEF vars, Inv, RowInv
    <3>3. \A r \in Request : Behind(r)'
      BY <2>1 DEF vars, Inv, Behind
    <3>4. \A r \in Request : \A q \in before'[r] : Ordered(q, r)'
      BY <2>1 DEF vars, Inv, Ordered
    <3> QED
      BY <3>1, <3>2, <3>3, <3>4 DEF Inv
  <2>2. CASE Next
    BY <2>2, ScanStep, RequestStep DEF Next
  <2> QED
    BY <2>1, <2>2
<1> QED
  BY <1>1, InvInit, PTL DEF Spec

\* Type correctness: a view is never built from a row that is not there.
THEOREM TypeCorrect == Spec => []TypeOK
BY InvHolds, InvImplies, PTL

\* A "completed" view always carries the check rows of its own verdict.
THEOREM WholeViews == Spec => []CompletedIsWhole
BY InvHolds, InvImplies, PTL

\* A polling client sees a scan move forward only.
THEOREM MonotoneViews == Spec => []ViewsNeverGoBack
BY InvHolds, InvImplies, PTL
=============================================================================
