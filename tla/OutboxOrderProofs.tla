-------------------------- MODULE OutboxOrderProofs --------------------------
(***************************************************************************)
(* Proofs about OutboxOrder: the encoding of ids sorts by time, for any    *)
(* base and width, and what that gives the order of publication, for any   *)
(* sets of events, processes and relays and any clocks.                    *)
(***************************************************************************)
EXTENDS OutboxOrder, FiniteSetTheorems, WellFoundedInduction, TLAPS

-----------------------------------------------------------------------------
(* The encoding.                                                           *)

\* Integer division, as a product and a remainder.
LEMMA Division ==
    ASSUME NEW t \in Nat, NEW p \in Nat \ {0}
    PROVE  /\ t \div p \in Nat /\ t % p \in Nat
           /\ t = p * (t \div p) + (t % p)
           /\ t % p < p
OBVIOUS

\* A quotient is known from any such product and remainder.
LEMMA QuotientUnique ==
    ASSUME NEW p \in Nat \ {0}, NEW a \in Nat, NEW b \in Nat, NEW r \in Nat, NEW s \in Nat,
           r < p, s < p, p * a + r = p * b + s
    PROVE  a = b
<1>1. ASSUME NEW x \in Nat, NEW y \in Nat, NEW u1 \in Nat, NEW v1 \in Nat, x < y, u1 < p
      PROVE  p * x + u1 < p * y + v1
  <2>1. p * (x + 1) <= p * y
    BY <1>1
  <2>2. p * (x + 1) = p * x + p
    OBVIOUS
  <2> QED
    BY <2>1, <2>2, <1>1
<1>2. p * a + r \in Nat /\ p * b + s \in Nat
  OBVIOUS
<1> QED
  BY <1>1, <1>2

\* Dividing by a product is dividing twice.
LEMMA DivideTwice ==
    ASSUME NEW t \in Nat, NEW p \in Nat \ {0}, NEW q \in Nat \ {0}
    PROVE  t \div (q * p) = (t \div p) \div q
<1> DEFINE a == t \div p
           c == a \div q
           rest == p * (a % q) + (t % p)
<1>1. a \in Nat /\ t = p * a + (t % p) /\ t % p \in Nat /\ t % p < p
  BY Division
<1>2. c \in Nat /\ a = q * c + (a % q) /\ a % q \in Nat /\ a % q < q
  BY <1>1, Division
<1>3. q * p \in Nat \ {0}
  OBVIOUS
<1>4. t = (q * p) * c + rest
  <2>1. \A x, y \in Nat : p * (q * x + y) = (q * p) * x + p * y
    OBVIOUS
  <2>2. p * (q * c + (a % q)) = (q * p) * c + p * (a % q)
    BY <1>2, <2>1
  <2>3. p * a = (q * p) * c + p * (a % q)
    BY <1>2, <2>2
  <2>4. (q * p) * c \in Int /\ p * (a % q) \in Int /\ p * a \in Int
    BY <1>1, <1>2, <1>3
  <2> HIDE DEF a, c
  <2> QED
    BY <1>1, <2>3, <2>4
<1>5. rest \in Nat /\ rest < q * p
  <2>1. p * (a % q) + p <= p * q
    BY <1>2
  <2> QED
    BY <1>1, <1>2, <2>1
<1>6. /\ t \div (q * p) \in Nat /\ t % (q * p) \in Nat
      /\ t = (q * p) * (t \div (q * p)) + (t % (q * p))
      /\ t % (q * p) < q * p
  BY <1>3, Division
<1> QED
  BY <1>2, <1>3, <1>4, <1>5, <1>6, QuotientUnique

\* What a timestamp is at the first places: the places' digits as a number.
Prefix(t, i) == t \div Weight[Width - i]

\* A prefix is the one before it, times the base, plus a digit.
LEMMA PrefixStep ==
    ASSUME NEW t \in Nat, NEW i \in 1 .. Width
    PROVE  /\ Prefix(t, i) \in Nat /\ Prefix(t, i - 1) \in Nat
           /\ Digit(t, i) \in Nat /\ Digit(t, i) < Base
           /\ Prefix(t, i) = Base * Prefix(t, i - 1) + Digit(t, i)
<1>1. /\ Width - i \in 0 .. Width /\ Width - (i - 1) \in 1 .. Width
      /\ (Width - (i - 1)) - 1 = Width - i
  BY EncodingAssumption
<1>2. Weight[Width - (i - 1)] = Base * Weight[Width - i]
  BY <1>1, EncodingAssumption
<1>3. Weight[Width - i] \in Nat \ {0}
  BY <1>1, EncodingAssumption
<1>4. Prefix(t, i) \in Nat
  BY <1>3, Division DEF Prefix
<1>5. Prefix(t, i - 1) = Prefix(t, i) \div Base
  <2> DEFINE p == Weight[Width - i]
  <2>1. p \in Nat \ {0} /\ Base \in Nat \ {0}
    BY <1>3, EncodingAssumption
  <2>2. Prefix(t, i) = t \div p /\ Prefix(t, i - 1) = t \div (Base * p)
    BY <1>2 DEF Prefix
  <2> HIDE DEF p
  <2>3. t \div (Base * p) = (t \div p) \div Base
    BY ONLY <2>1, DivideTwice
  <2> QED
    BY ONLY <2>2, <2>3
<1>6. Digit(t, i) = Prefix(t, i) % Base
  BY DEF Digit, Prefix
<1> QED
  BY <1>4, <1>5, <1>6, Division, EncodingAssumption

\* Two earlier times have no larger prefixes.
LEMMA PrefixMonotone ==
    ASSUME NEW t1 \in Nat, NEW t2 \in Nat, t1 < t2, NEW i \in 1 .. Width
    PROVE  Prefix(t1, i) <= Prefix(t2, i)
<1>0. \A p \in Nat \ {0}, a, b \in Nat : b < a => p * b + p <= p * a
  <2> SUFFICES ASSUME NEW p \in Nat \ {0}, NEW a \in Nat, NEW b \in Nat, b < a
               PROVE  p * b + p <= p * a
    OBVIOUS
  <2>1. p * (b + 1) <= p * a
    OBVIOUS
  <2>2. p * (b + 1) = p * b + p
    OBVIOUS
  <2> QED
    BY <2>1, <2>2
<1> DEFINE p == Weight[Width - i]
           a == Prefix(t1, i)
           b == Prefix(t2, i)
<1>1. p \in Nat \ {0}
  BY EncodingAssumption
<1>2. a \in Nat /\ b \in Nat /\ t1 % p \in Nat /\ t2 % p \in Nat /\ t2 % p < p
      /\ t1 = p * a + (t1 % p) /\ t2 = p * b + (t2 % p)
  BY <1>1, Division DEF Prefix
<1>3. SUFFICES ASSUME b < a PROVE FALSE
  BY <1>2
<1>4. p * b + p <= p * a
  BY <1>0, <1>1, <1>2, <1>3
<1>5. p * a \in Int /\ p * b \in Int
  BY <1>1, <1>2
<1> HIDE DEF p, a, b
<1> QED
  BY <1>1, <1>2, <1>4, <1>5

\* id.utils.ts, "a fixed-width base-62 encoding sort[s] lexicographically in
\* the same order it sorts numerically": of two ids, the one of the earlier
\* millisecond sorts first, whatever their random tails.
THEOREM EncodingSorts ==
    ASSUME NEW t1 \in Nat, NEW t2 \in Nat, t1 < t2, t2 < Weight[Width],
           NEW x1 \in Nat, NEW x2 \in Nat
    PROVE  Before(UniqueId(t1, x1), UniqueId(t2, x2))
<1>0. Width \in Nat \ {0} /\ Base \in Nat \ {0}
  BY EncodingAssumption
<1> DEFINE Differ == {i \in 1 .. Width : Prefix(t1, i) # Prefix(t2, i)}
<1>1. Width \in Differ
  <2>1. Weight[Width - Width] = 1
    BY EncodingAssumption
  <2>2. Prefix(t1, Width) = t1 /\ Prefix(t2, Width) = t2
    BY <2>1 DEF Prefix
  <2> QED
    BY <2>2, EncodingAssumption
<1>2. PICK i \in Differ : \A j \in Differ : ~ (j < i)
  <2>1. Differ \subseteq Nat /\ Differ # {}
    BY <1>1
  <2>2. PICK i \in Differ : \A j \in Differ : <<j, i>> \notin OpToRel(<, Nat)
    BY <2>1, NatLessThanWellFounded, WFMin
  <2> QED
    BY <2>1, <2>2 DEF OpToRel
<1>3. \A j \in 0 .. i - 1 : Prefix(t1, j) = Prefix(t2, j)
  <2>1. Prefix(t1, 0) = 0 /\ Prefix(t2, 0) = 0
    <3>1. \A t \in Nat : t < Weight[Width] => Prefix(t, 0) = 0
      <4> SUFFICES ASSUME NEW t \in Nat, t < Weight[Width] PROVE Prefix(t, 0) = 0
        OBVIOUS
      <4>1. Weight[Width] \in Nat \ {0} /\ Width - 0 = Width
        BY EncodingAssumption
      <4>2. /\ t \div Weight[Width] \in Nat /\ t % Weight[Width] \in Nat
            /\ t = Weight[Width] * (t \div Weight[Width]) + (t % Weight[Width])
            /\ t % Weight[Width] < Weight[Width]
        BY <4>1, Division
      <4>3. Weight[Width] * 0 + t = t
        BY <4>1
      <4>4. t \div Weight[Width] = 0
        BY <4>1, <4>2, <4>3, QuotientUnique
      <4> QED
        BY <4>1, <4>4 DEF Prefix
    <3> QED
      BY <3>1, EncodingAssumption
  <2>2. \A j \in 1 .. i - 1 : j \in 1 .. Width /\ j < i
    BY <1>2, EncodingAssumption
  <2>3. \A j \in 1 .. i - 1 : Prefix(t1, j) = Prefix(t2, j)
    BY <1>2, <2>2
  <2> QED
    BY <2>1, <2>3, <1>2
<1>4. i \in 1 .. Width /\ Prefix(t1, i) < Prefix(t2, i)
  <2>1. i \in 1 .. Width /\ Prefix(t1, i) # Prefix(t2, i)
    BY <1>2
  <2>2. Prefix(t1, i) <= Prefix(t2, i)
    BY <2>1, PrefixMonotone
  <2>3. Prefix(t1, i) \in Nat /\ Prefix(t2, i) \in Nat
    BY <2>1, PrefixStep
  <2> QED
    BY <2>1, <2>2, <2>3
<1>5. /\ Digit(t1, i) \in Nat /\ Digit(t2, i) \in Nat
      /\ Digit(t1, i) < Digit(t2, i)
  <2>1. i - 1 \in 0 .. i - 1
    BY <1>4
  <2>2. Prefix(t1, i - 1) = Prefix(t2, i - 1)
    BY <1>3, <2>1
  <2>3. /\ Prefix(t1, i) = Base * Prefix(t1, i - 1) + Digit(t1, i)
        /\ Digit(t1, i) \in Nat /\ Prefix(t1, i - 1) \in Nat
    BY <1>4, PrefixStep
  <2>4. /\ Prefix(t2, i) = Base * Prefix(t1, i - 1) + Digit(t2, i)
        /\ Digit(t2, i) \in Nat
    BY <1>4, <2>2, PrefixStep
  <2>5. Base * Prefix(t1, i - 1) \in Nat
    BY <1>0, <2>3
  <2> QED
    BY <2>3, <2>4, <2>5, <1>4
<1>6. \A j \in 1 .. i - 1 : Digit(t1, j) = Digit(t2, j)
  <2> SUFFICES ASSUME NEW j \in 1 .. i - 1 PROVE Digit(t1, j) = Digit(t2, j)
    OBVIOUS
  <2>1. j \in 0 .. i - 1
    BY <1>4
  <2> QED
    BY <2>1, <1>3 DEF Digit, Prefix
<1>7. \A j \in 1 .. i : /\ UniqueId(t1, x1)[j] = Digit(t1, j)
                         /\ UniqueId(t2, x2)[j] = Digit(t2, j)
  <2> SUFFICES ASSUME NEW j \in 1 .. i
               PROVE  /\ UniqueId(t1, x1)[j] = Digit(t1, j)
                      /\ UniqueId(t2, x2)[j] = Digit(t2, j)
    OBVIOUS
  <2>1. j \in 1 .. Width + 1 /\ j <= Width
    BY <1>0, <1>4
  <2> QED
    BY <2>1 DEF UniqueId
<1>8. UniqueId(t1, x1)[i] < UniqueId(t2, x2)[i]
  BY <1>4, <1>5, <1>7
<1>9. \A j \in 1 .. i - 1 : UniqueId(t1, x1)[j] = UniqueId(t2, x2)[j]
  <2> SUFFICES ASSUME NEW j \in 1 .. i - 1
               PROVE  UniqueId(t1, x1)[j] = UniqueId(t2, x2)[j]
    OBVIOUS
  <2>1. j \in 1 .. i
    BY <1>4
  <2> QED
    BY <2>1, <1>6, <1>7
<1>10. i \in 1 .. Width + 1
  BY <1>4, EncodingAssumption
<1> QED
  BY <1>8, <1>9, <1>10 DEF Before
-----------------------------------------------------------------------------
(* Ids as sequences of digits.                                             *)

LEMMA UniqueIdType ==
    ASSUME NEW t \in Nat, NEW x \in Nat
    PROVE  UniqueId(t, x) \in [1 .. Width + 1 -> Nat]
<1>1. Width \in Nat
  BY EncodingAssumption
<1>2. ASSUME NEW i \in 1 .. Width + 1, i <= Width PROVE Digit(t, i) \in Nat
  <2>1. i \in 1 .. Width
    BY <1>1, <1>2
  <2> QED
    BY <2>1, PrefixStep
<1> QED
  BY <1>1, <1>2 DEF UniqueId

\* The comparison is transitive.
LEMMA BeforeTransitive ==
    ASSUME NEW a \in [1 .. Width + 1 -> Nat], NEW b \in [1 .. Width + 1 -> Nat],
           NEW c \in [1 .. Width + 1 -> Nat], Before(a, b), Before(b, c)
    PROVE  Before(a, c)
<1>1. Width \in Nat
  BY EncodingAssumption
<1>2. PICK i \in 1 .. Width + 1 : a[i] < b[i] /\ \A j \in 1 .. i - 1 : a[j] = b[j]
  BY DEF Before
<1>3. PICK k \in 1 .. Width + 1 : b[k] < c[k] /\ \A j \in 1 .. k - 1 : b[j] = c[j]
  BY DEF Before
<1>4. \A j \in 1 .. Width + 1 : a[j] \in Nat /\ b[j] \in Nat /\ c[j] \in Nat
  OBVIOUS
<1>5. CASE i <= k
  <2>1. a[i] < c[i]
    BY <1>1, <1>2, <1>3, <1>4, <1>5
  <2>2. \A j \in 1 .. i - 1 : a[j] = c[j]
    BY <1>1, <1>2, <1>3, <1>5
  <2> QED
    BY <2>1, <2>2 DEF Before
<1>6. CASE k < i
  <2>1. a[k] < c[k]
    BY <1>1, <1>2, <1>3, <1>4, <1>6
  <2>2. \A j \in 1 .. k - 1 : a[j] = c[j]
    BY <1>1, <1>2, <1>3, <1>6
  <2> QED
    BY <2>1, <2>2 DEF Before
<1> QED
  BY <1>1, <1>5, <1>6

-----------------------------------------------------------------------------
(* The inductive invariant.                                                *)

Ids ==
    \A e \in Event : stage[e] # "absent" =>
        \E a \in Api, x \in Tails : id[e] = UniqueId(born[e] + Offset[a], x)

Times ==
    \A e \in Event : /\ born[e] <= now
                     /\ stage[e] = "committed" => born[e] <= committedAt[e]

\* A relay holds committed rows, and what it no longer has to publish arrived.
Batches ==
    \A r \in Relay : /\ left[r] \subseteq batch[r]
                     /\ \A e \in batch[r] : stage[e] = "committed"
                     /\ \A e \in batch[r] \ left[r] : e \in arrived

\* What is older than a row of a batch was in the batch with it, or skipped as
\* locked, or published already.
NothingMissed ==
    \A r \in Relay : \A e \in batch[r], f \in Event :
        Older(f, e) => f \in batch[r] \/ f \in skipped[r] \/ f \in published

IInv == TypeOK /\ MarkedReachedBroker /\ Ids /\ Times /\ Batches /\ NothingMissed

\* An older event's id sorts first: the clocks cannot hide that much time.
LEMMA OlderSortsFirst ==
    ASSUME TypeOK, Ids, Times, NEW e \in Event, NEW f \in Event, Older(f, e)
    PROVE  Before(id[f], id[e])
<1>1. PICK a \in Api, x \in Tails : id[f] = UniqueId(born[f] + Offset[a], x)
  BY DEF Ids, Older
<1>2. PICK b \in Api, y \in Tails : id[e] = UniqueId(born[e] + Offset[b], y)
  BY DEF Ids, Older
<1>3. /\ born[f] \in Nat /\ born[e] \in Nat /\ committedAt[f] \in Nat /\ MaxSkew \in Nat
      /\ Offset[a] \in Nat /\ Offset[b] \in Nat /\ Offset[a] - Offset[b] <= MaxSkew
      /\ x \in Nat /\ y \in Nat /\ born[e] <= MaxTime /\ MaxTime \in Nat
  BY ClockAssumption, TailAssumption, BoundAssumption DEF TypeOK
<1>4. born[f] <= committedAt[f] /\ committedAt[f] + MaxSkew < born[e]
  BY DEF Times, Older
<1>5. born[f] + Offset[a] < born[e] + Offset[b]
  BY <1>3, <1>4
<1>6. born[e] + Offset[b] < Weight[Width]
  <2>1. MaxTime + Offset[b] < Weight[Width] /\ Weight[Width] \in Nat
    BY ClockAssumption, EncodingAssumption
  <2> QED
    BY <1>3, <2>1
<1> QED
  BY <1>1, <1>2, <1>3, <1>5, <1>6, EncodingSorts

\* A batch holds, with a row, every drainable row that sorts before it.
LEMMA BatchIsFirst ==
    ASSUME TypeOK, NEW e \in FirstBatch, NEW f \in Drainable, Before(id[f], id[e])
    PROVE  f \in FirstBatch
<1> DEFINE Ahead(g) == {h \in Drainable : Before(id[h], id[g])}
<1>1. Drainable \subseteq Event /\ e \in Drainable
  BY DEF FirstBatch, Drainable, Unpublished
<1>2. IsFiniteSet(Ahead(e)) /\ IsFiniteSet(Ahead(f))
  BY <1>1, EventAssumption, FS_Subset
<1>3. Ahead(f) \subseteq Ahead(e)
  BY <1>1, BeforeTransitive DEF TypeOK
<1>4. Cardinality(Ahead(f)) <= Cardinality(Ahead(e))
  BY <1>2, <1>3, FS_Subset
<1>5. Cardinality(Ahead(e)) < BatchSize
  BY DEF FirstBatch
<1>6. /\ Cardinality(Ahead(e)) \in Nat /\ Cardinality(Ahead(f)) \in Nat /\ BatchSize \in Nat
  BY <1>2, FS_CardinalityType, BatchSizeAssumption
<1>7. Cardinality(Ahead(f)) < BatchSize
  BY <1>4, <1>5, <1>6
<1> QED
  BY <1>7 DEF FirstBatch

-----------------------------------------------------------------------------
(* The steps.                                                              *)

LEMMA InitIInv == Init => IInv
  BY BoundAssumption
     DEF Init, IInv, TypeOK, MarkedReachedBroker, Ids, Times, Batches, NothingMissed

\* The API's steps leave the relays' variables alone.
LEMMA ApiStep ==
    ASSUME IInv, NEW a, NEW e \in Event,
           (a \in Api /\ InsertEvent(a, e)) \/ CommitEvent(e)
    PROVE  IInv'
<1>1. TypeOK'
  <2>1. CASE a \in Api /\ InsertEvent(a, e)
    <3>1. PICK tail \in Tails : id' = [id EXCEPT ![e] = UniqueId(Reading(a), tail)]
      BY <2>1 DEF InsertEvent
    <3>2. Reading(a) \in Nat /\ tail \in Nat
      <4>1. a \in Api /\ now \in Nat
        BY <2>1, BoundAssumption DEF IInv, TypeOK
      <4> QED
        BY <4>1, ClockAssumption, TailAssumption DEF Reading
    <3>3. UniqueId(Reading(a), tail) \in [1 .. Width + 1 -> Nat]
      BY <3>2, UniqueIdType
    <3> QED
      BY <2>1, <3>1, <3>3 DEF IInv, TypeOK, InsertEvent
  <2>2. CASE CommitEvent(e)
    BY <2>2 DEF IInv, TypeOK, CommitEvent
  <2> QED
    BY <2>1, <2>2
<1>2. MarkedReachedBroker'
  BY DEF IInv, MarkedReachedBroker, InsertEvent, CommitEvent
<1>3. Ids'
  <2>1. CASE a \in Api /\ InsertEvent(a, e)
    <3> SUFFICES ASSUME NEW f \in Event, stage'[f] # "absent"
                 PROVE  \E b \in Api, x \in Tails : id'[f] = UniqueId(born'[f] + Offset[b], x)
      BY DEF Ids
    <3>1. CASE f = e
      <4>1. PICK x \in Tails : id' = [id EXCEPT ![e] = UniqueId(Reading(a), x)]
        BY <2>1 DEF InsertEvent
      <4>2. born'[e] = now /\ id'[e] = UniqueId(now + Offset[a], x)
        BY <2>1, <4>1 DEF InsertEvent, Reading, IInv, TypeOK
      <4> QED
        BY <2>1, <3>1, <4>2
    <3>2. CASE f # e
      BY <2>1, <3>2 DEF InsertEvent, IInv, TypeOK, Ids
    <3> QED
      BY <3>1, <3>2
  <2>2. CASE CommitEvent(e)
    BY <2>2 DEF CommitEvent, IInv, TypeOK, Ids
  <2> QED
    BY <2>1, <2>2
<1>4. Times'
  <2>1. now \in Nat /\ \A f \in Event : born[f] \in Nat /\ committedAt[f] \in Nat
    BY BoundAssumption DEF IInv, TypeOK
  <2>2. CASE a \in Api /\ InsertEvent(a, e)
    BY <2>1, <2>2 DEF InsertEvent, IInv, TypeOK, Times
  <2>3. CASE CommitEvent(e)
    BY <2>1, <2>3 DEF CommitEvent, IInv, TypeOK, Times
  <2> QED
    BY <2>2, <2>3
<1>5. Batches'
  BY DEF InsertEvent, CommitEvent, IInv, TypeOK, Batches
<1>6. NothingMissed'
  <2> SUFFICES ASSUME NEW r \in Relay, NEW g \in batch[r], NEW f \in Event, Older(f, g)'
               PROVE  f \in batch[r] \/ f \in skipped[r] \/ f \in published
    BY DEF NothingMissed, InsertEvent, CommitEvent
  <2>1. g \in Event /\ stage[g] = "committed" /\ g # e
    BY DEF IInv, TypeOK, Batches, InsertEvent, CommitEvent
  <2>2. Older(f, g)
    <3>1. CASE a \in Api /\ InsertEvent(a, e)
      BY <2>1, <3>1 DEF InsertEvent, Older, IInv, TypeOK
    <3>2. CASE CommitEvent(e)
      <4>1. f # e
        <5> SUFFICES ASSUME f = e PROVE FALSE
          OBVIOUS
        <5>1. committedAt'[f] = now /\ born'[g] = born[g] /\ born[g] <= now
          BY <2>1, <3>2 DEF CommitEvent, IInv, TypeOK, Times
        <5>2. now \in Nat /\ born[g] \in Nat /\ MaxSkew \in Nat
          BY <2>1, BoundAssumption, ClockAssumption DEF IInv, TypeOK
        <5> QED
          BY <5>1, <5>2 DEF Older
      <4> QED
        BY <2>1, <3>2, <4>1 DEF CommitEvent, Older, IInv, TypeOK
    <3> QED
      BY <3>1, <3>2
  <2> QED
    BY <2>2 DEF IInv, NothingMissed
<1> QED
  BY <1>1, <1>2, <1>3, <1>4, <1>5, <1>6 DEF IInv

LEMMA TickStep == IInv /\ Tick => IInv'
<1> SUFFICES ASSUME IInv, Tick PROVE IInv'
  OBVIOUS
<1>1. now \in Nat /\ now' \in 0 .. MaxTime /\ now' = now + 1
      /\ \A e \in Event : born[e] \in Nat
  BY BoundAssumption DEF IInv, TypeOK, Tick
<1>2. TypeOK'
  BY <1>1 DEF IInv, TypeOK, Tick, apiVars
<1>3. MarkedReachedBroker' /\ Ids' /\ Batches'
  BY DEF IInv, MarkedReachedBroker, Ids, Batches, Tick, apiVars
<1>4. Times'
  BY <1>1 DEF IInv, Times, Tick, apiVars
<1>5. NothingMissed'
  BY DEF IInv, NothingMissed, Older, Tick, apiVars
<1> QED
  BY <1>2, <1>3, <1>4, <1>5 DEF IInv

\* A drain takes the first of what it can see and lock.
LEMMA DrainStep ==
    ASSUME IInv, NEW r \in Relay, Drain(r)
    PROVE  IInv'
<1>1. FirstBatch \subseteq Drainable /\ Drainable \subseteq Event
  BY DEF FirstBatch, Drainable, Unpublished
<1>2. TypeOK'
  BY <1>1 DEF IInv, TypeOK, Drain, apiVars, Unpublished
<1>3. MarkedReachedBroker' /\ Ids' /\ Times'
  BY DEF IInv, MarkedReachedBroker, Ids, Times, Drain, apiVars
<1>4. Batches'
  BY <1>1 DEF IInv, TypeOK, Batches, Drain, apiVars, Drainable, Unpublished
<1>5. NothingMissed'
  <2> SUFFICES ASSUME NEW s \in Relay, NEW e \in batch'[s], NEW f \in Event, Older(f, e)'
               PROVE  f \in batch'[s] \/ f \in skipped'[s] \/ f \in published'
    BY DEF NothingMissed
  <2>1. Older(f, e)
    BY DEF Older, Drain, apiVars
  <2>2. CASE s # r
    <3>1. e \in batch[s] /\ batch'[s] = batch[s] /\ skipped'[s] = skipped[s]
      BY <2>2 DEF Drain, IInv, TypeOK
    <3> QED
      BY <2>1, <3>1 DEF IInv, NothingMissed, Drain
  <2>3. CASE s = r
    <3>1. /\ batch'[s] = FirstBatch /\ skipped'[s] = Unpublished \cap Locked
          /\ published' = published
      BY <2>3 DEF Drain, IInv, TypeOK
    <3>2. e \in FirstBatch /\ e \in Event
      BY <1>1, <3>1
    <3>3. f \in Unpublished \/ f \in published
      BY <2>1 DEF Older, Unpublished
    <3>4. f \in Drainable => f \in FirstBatch
      BY <2>1, <3>2, OlderSortsFirst, BatchIsFirst DEF IInv
    <3> QED
      BY <3>1, <3>3, <3>4 DEF Drainable
  <2> QED
    BY <2>2, <2>3
<1> QED
  BY <1>2, <1>3, <1>4, <1>5 DEF IInv

\* A message goes out, of a relay that keeps its batch.
LEMMA PublishStep ==
    ASSUME IInv, NEW r \in Relay, PublishRow(r)
    PROVE  IInv'
<1>1. PICK e \in Routable : /\ IsNext(e, left[r])
                            /\ arrived' = arrived \cup {e}
                            /\ left' = [left EXCEPT ![r] = @ \ {e}]
  BY DEF PublishRow
<1>2. e \in Event
  BY EventAssumption
<1>3. TypeOK'
  BY <1>1, <1>2 DEF IInv, TypeOK, PublishRow, apiVars
<1>4. MarkedReachedBroker'
  BY <1>1 DEF IInv, MarkedReachedBroker, PublishRow
<1>5. Ids' /\ Times' /\ NothingMissed'
  BY DEF IInv, Ids, Times, NothingMissed, Older, PublishRow, apiVars
<1>6. Batches'
  BY <1>1 DEF IInv, TypeOK, Batches, PublishRow, apiVars
<1> QED
  BY <1>3, <1>4, <1>5, <1>6 DEF IInv

\* A transaction ends: rolled back, with perhaps one more message sent, or
\* committed with its batch marked.
LEMMA EndStep ==
    ASSUME IInv, NEW r \in Relay,
           RefuseUnroutable(r) \/ PublishFails(r) \/ MarkPublished(r)
    PROVE  IInv'
<1>1. /\ batch' = [batch EXCEPT ![r] = {}] /\ left' = [left EXCEPT ![r] = {}]
      /\ skipped' = [skipped EXCEPT ![r] = {}] /\ UNCHANGED <<now, apiVars>>
  BY DEF RefuseUnroutable, PublishFails, MarkPublished, EndDrain
<1>2. /\ arrived \subseteq arrived' /\ published \subseteq published'
      /\ arrived' \subseteq Routable /\ failures' \in 0 .. MaxFailures
      /\ published' \subseteq arrived'
  <2>1. failures \in 0 .. MaxFailures /\ MaxFailures \in Nat
    BY BoundAssumption DEF IInv, TypeOK
  <2>2. CASE RefuseUnroutable(r)
    BY <2>1, <2>2 DEF RefuseUnroutable, IInv, MarkedReachedBroker
  <2>3. CASE PublishFails(r)
    BY <2>1, <2>3 DEF PublishFails, IInv, MarkedReachedBroker
  <2>4. CASE MarkPublished(r)
    BY <2>1, <2>4 DEF MarkPublished, IInv, TypeOK, MarkedReachedBroker, Batches
  <2> QED
    BY <2>2, <2>3, <2>4
<1>3. TypeOK'
  BY <1>1, <1>2, EventAssumption DEF IInv, TypeOK, apiVars
<1>4. MarkedReachedBroker'
  BY <1>2 DEF MarkedReachedBroker
<1>5. Ids' /\ Times'
  BY <1>1 DEF IInv, Ids, Times, apiVars
<1>6. Batches'
  BY <1>1, <1>2 DEF IInv, TypeOK, Batches, apiVars
<1>7. NothingMissed'
  BY <1>1, <1>2 DEF IInv, TypeOK, NothingMissed, Older, apiVars
<1> QED
  BY <1>3, <1>4, <1>5, <1>6, <1>7 DEF IInv

LEMMA StepIInv == IInv /\ [Next]_vars => IInv'
<1> SUFFICES ASSUME IInv, [Next]_vars PROVE IInv'
  OBVIOUS
<1>1. CASE Tick
  BY <1>1, TickStep
<1>2. CASE \E a \in Api, e \in Event : InsertEvent(a, e)
  BY <1>2, ApiStep
<1>3. CASE \E e \in Event : CommitEvent(e)
  BY <1>3, ApiStep
<1>4. CASE \E r \in Relay : RelayStep(r)
  BY <1>4, DrainStep, PublishStep, EndStep DEF RelayStep
<1>5. CASE \E r \in Relay : PublishFails(r)
  BY <1>5, EndStep
<1>6. CASE UNCHANGED vars
  BY <1>6 DEF vars, apiVars, IInv, TypeOK, MarkedReachedBroker, Ids, Times, Batches,
              NothingMissed, Older
<1> QED
  BY <1>1, <1>2, <1>3, <1>4, <1>5, <1>6 DEF Next

\* Whatever e a step sends, its older events went before it.
LEMMA StepNoOvertaking ==
    ASSUME IInv, [Next]_vars, NEW e \in arrived' \ arrived, NEW f \in Event, Older(f, e)
    PROVE  \/ f \in arrived
           \/ \E r \in Relay : e \in batch[r] /\ f \in skipped[r]
<1>1. PICK r \in Relay : e \in Routable /\ IsNext(e, left[r])
  BY DEF Next, vars, apiVars, Tick, InsertEvent, CommitEvent, RelayStep, Drain,
         PublishRow, RefuseUnroutable, PublishFails, MarkPublished
<1>2. e \in batch[r] /\ e \in Event
  BY <1>1, EventAssumption DEF IInv, TypeOK, Batches, IsNext
<1>3. f # e
  <2> SUFFICES ASSUME f = e PROVE FALSE
    OBVIOUS
  <2>1. born[e] <= committedAt[e] /\ committedAt[e] + MaxSkew < born[e]
    BY <1>2 DEF Older, IInv, Times
  <2>2. born[e] \in Nat /\ committedAt[e] \in Nat /\ MaxSkew \in Nat
    BY <1>2, BoundAssumption, ClockAssumption DEF IInv, TypeOK
  <2> QED
    BY <2>1, <2>2
<1>4. Before(id[f], id[e])
  BY <1>2, OlderSortsFirst DEF IInv
<1>5. f \notin left[r]
  BY <1>1, <1>3, <1>4 DEF IsNext
<1>6. f \in batch[r] => f \in arrived
  BY <1>5 DEF IInv, Batches
<1>7. f \in published => f \in arrived
  BY DEF IInv, MarkedReachedBroker
<1>8. f \in batch[r] \/ f \in skipped[r] \/ f \in published
  BY <1>2 DEF IInv, NothingMissed
<1> QED
  BY <1>2, <1>6, <1>7, <1>8

-----------------------------------------------------------------------------
LEMMA InvariantIInv == Spec => []IInv
  BY InitIInv, StepIInv, PTL DEF Spec

\* The types of the model, for any sets of events, processes and relays.
THEOREM TypeCorrect == Spec => []TypeOK
<1>1. IInv => TypeOK
  BY DEF IInv
<1> QED
  BY InvariantIInv, <1>1, PTL

\* No relay marks a row as published whose message the broker has not taken,
\* and no message goes out for a type that nobody routes.
THEOREM MarkedArrived == Spec => []MarkedReachedBroker
<1>1. IInv => MarkedReachedBroker
  BY DEF IInv
<1> QED
  BY InvariantIInv, <1>1, PTL

\* The outbox's "roughly the order events happened": an event overtakes only
\* those that became visible no earlier than its id, give or take the clocks'
\* skew, and those another relay holds.
THEOREM OrderRespected == Spec => NoOvertaking
<1> DEFINE Step == \A e \in arrived' \ arrived, f \in Event :
                      Older(f, e) => \/ f \in arrived
                                     \/ \E r \in Relay : e \in batch[r] /\ f \in skipped[r]
<1>1. IInv /\ [Next]_vars => [Step]_vars
  BY StepNoOvertaking
<1>2. Spec => [][Step]_vars
  BY InvariantIInv, <1>1, PTL DEF Spec
<1> QED
  BY <1>2 DEF NoOvertaking

-----------------------------------------------------------------------------
(* What RoutableReachesBroker rests on.                                    *)

LEMMA BeforeIrreflexive == \A a \in [1 .. Width + 1 -> Nat] : ~ Before(a, a)
  BY DEF Before

\* Ids that differ are sorted by the first digit in which they do.
LEMMA BeforeTotal ==
    ASSUME NEW a \in [1 .. Width + 1 -> Nat], NEW b \in [1 .. Width + 1 -> Nat], a # b
    PROVE  Before(a, b) \/ Before(b, a)
<1> DEFINE Differ == {i \in 1 .. Width + 1 : a[i] # b[i]}
<1>0. Width \in Nat BY EncodingAssumption
<1>1. Differ \subseteq Nat /\ Differ # {}
  <2>1. Differ \subseteq Nat BY <1>0
  <2>2. a = [i \in 1 .. Width + 1 |-> a[i]] /\ b = [i \in 1 .. Width + 1 |-> b[i]] OBVIOUS
  <2>3. \E i \in 1 .. Width + 1 : a[i] # b[i] BY <2>2
  <2> QED BY <2>1, <2>3
<1>2. PICK i \in Differ : \A j \in Differ : <<j, i>> \notin OpToRel(<, Nat)
  BY <1>1, NatLessThanWellFounded, WFMin
<1>3. \A j \in Differ : ~ (j < i)
  BY <1>1, <1>2 DEF OpToRel
<1>4. i \in 1 .. Width + 1 BY <1>2
<1>5. \A j \in 1 .. i - 1 : j \in 1 .. Width + 1 /\ j < i BY <1>0, <1>4
<1>6. \A j \in 1 .. i - 1 : a[j] = b[j] BY <1>3, <1>5
<1>7. a[i] \in Nat /\ b[i] \in Nat /\ a[i] # b[i] BY <1>2
<1>8. a[i] < b[i] \/ b[i] < a[i] BY <1>7
<1> QED
  BY <1>2, <1>6, <1>8 DEF Before

\* Of any rows one comes first.
LEMMA FirstExists ==
    ASSUME TypeOK, NEW S \in SUBSET Event, S # {}
    PROVE  \E e \in S : \A f \in S : ~ Before(id[f], id[e])
<1> DEFINE Ahead(g) == {h \in S : Before(id[h], id[g])}
           Counts == {Cardinality(Ahead(g)) : g \in S}
<1>1. \A g \in S : IsFiniteSet(Ahead(g)) /\ Cardinality(Ahead(g)) \in Nat
  BY EventAssumption, FS_Subset, FS_CardinalityType
<1>2. Counts \subseteq Nat /\ Counts # {} BY <1>1
<1> HIDE DEF Counts
<1>3. PICK n \in Counts : \A k \in Counts : <<k, n>> \notin OpToRel(<, Nat)
  BY <1>2, NatLessThanWellFounded, WFMin
<1>4. \A k \in Counts : ~ (k < n) BY <1>2, <1>3 DEF OpToRel
<1>5. PICK e \in S : n = Cardinality(Ahead(e)) BY <1>3 DEF Counts
<1>6. ASSUME NEW f \in S, Before(id[f], id[e]) PROVE FALSE
  <2>1. \A g \in S : id[g] \in [1 .. Width + 1 -> Nat] BY DEF TypeOK
  <2>2. Ahead(f) \subseteq Ahead(e) BY <1>6, <2>1, BeforeTransitive
  <2>3. f \in Ahead(e) /\ f \notin Ahead(f) BY <1>6, <2>1, BeforeIrreflexive
  <2> HIDE DEF Ahead
  <2>4. Cardinality(Ahead(f)) <= Cardinality(Ahead(e)) BY <1>1, <2>2, FS_Subset
  <2>5. Cardinality(Ahead(f)) # Cardinality(Ahead(e)) BY <1>1, <2>2, <2>3, FS_Subset
  <2>6. Cardinality(Ahead(f)) < Cardinality(Ahead(e)) BY <1>1, <2>4, <2>5
  <2>7. Cardinality(Ahead(f)) \in Counts BY DEF Counts
  <2> QED BY <1>4, <1>5, <2>6, <2>7
<1> QED BY <1>6

\* A drain never comes away with nothing while there is something to drain.
LEMMA BatchNotEmpty ==
    ASSUME TypeOK, Drainable # {}
    PROVE  FirstBatch # {}
<1>1. Drainable \subseteq Event BY DEF Drainable, Unpublished
<1>2. PICK e \in Drainable : \A f \in Drainable : ~ Before(id[f], id[e])
  BY <1>1, FirstExists
<1>3. {f \in Drainable : Before(id[f], id[e])} = {} BY <1>2
<1>4. Cardinality({f \in Drainable : Before(id[f], id[e])}) = 0 BY <1>3, FS_EmptySet
<1>5. 0 < BatchSize BY BatchSizeAssumption
<1> QED BY <1>4, <1>5 DEF FirstBatch

\* A relay with an open transaction can go on with it.
LEMMA DrainGoesOn ==
    ASSUME IInv, NEW r \in Relay, batch[r] # {}
    PROVE  CanStep(r)
<1>1. CASE left[r] = {} BY <1>1 DEF CanStep
<1>2. CASE left[r] # {}
  <2>1. left[r] \in SUBSET Event BY DEF IInv, TypeOK
  <2>2. PICK e \in left[r] : \A f \in left[r] : ~ Before(id[f], id[e])
    BY <1>2, <2>1, FirstExists DEF IInv
  <2> QED BY <2>2 DEF CanStep, IsNext
<1> QED BY <1>1, <1>2

\* A row that is not published is with a relay that can go on, or one can find it.
THEOREM NoneForgotten == Spec => []NoRowForgotten
<1>1. ASSUME IInv, NEW e \in Unpublished
      PROVE  \E r \in Relay : CanStep(r) /\ (e \in batch[r] \/ e \notin Locked)
  <2>1. CASE e \in Locked
    <3>1. PICK r \in Relay : e \in batch[r] BY <2>1 DEF Locked
    <3> QED BY <1>1, <3>1, DrainGoesOn
  <2>2. CASE e \notin Locked
    <3>1. PICK r \in Relay : TRUE BY RelayAssumption
    <3>2. FirstBatch # {} BY <1>1, <2>2, BatchNotEmpty DEF Drainable, IInv
    <3>3. CanStep(r) BY <1>1, <3>2, DrainGoesOn DEF CanStep
    <3> QED BY <2>2, <3>3
  <2> QED BY <2>1, <2>2
<1>2. IInv => NoRowForgotten BY <1>1 DEF NoRowForgotten
<1> QED BY InvariantIInv, <1>2, PTL

\* The primary key.
UniqueIds ==
    \A e, f \in Event :
        stage[e] # "absent" /\ stage[f] # "absent" /\ id[e] = id[f] => e = f

LEMMA IdsUnique == Spec => []UniqueIds
<1>1. Init => UniqueIds BY DEF Init, UniqueIds
<1>2. ASSUME TypeOK, UniqueIds, [Next]_vars PROVE UniqueIds'
  <2>1. ASSUME NEW a \in Api, NEW e \in Event, InsertEvent(a, e) PROVE UniqueIds'
    <3>1. PICK tail \in Tails :
             /\ \A f \in Event : stage[f] # "absent" => id[f] # UniqueId(Reading(a), tail)
             /\ id' = [id EXCEPT ![e] = UniqueId(Reading(a), tail)]
      BY <2>1 DEF InsertEvent
    <3>2. stage' = [stage EXCEPT ![e] = "inserted"] BY <2>1 DEF InsertEvent
    <3> HIDE DEF Reading
    <3>3. \A f \in Event \ {e} : stage'[f] = stage[f] /\ id'[f] = id[f]
      BY <1>2, <3>1, <3>2 DEF TypeOK
    <3>4. id'[e] = UniqueId(Reading(a), tail) BY <1>2, <3>1 DEF TypeOK
    <3> QED BY <1>2, <3>1, <3>3, <3>4 DEF UniqueIds
  <2>2. ASSUME NEW e \in Event, CommitEvent(e) PROVE UniqueIds'
    BY <1>2, <2>2 DEF CommitEvent, UniqueIds, TypeOK
  <2>3. CASE UNCHANGED <<stage, id>> BY <1>2, <2>3 DEF UniqueIds
  <2> QED
    BY <1>2, <2>1, <2>2, <2>3
       DEF Next, vars, apiVars, Tick, RelayStep, Drain, PublishRow, RefuseUnroutable,
           MarkPublished, PublishFails
<1> QED BY <1>1, <1>2, TypeCorrect, PTL DEF Spec

\* A drain that ends without a failed publish has sent all of its batch that no
\* unroutable event sorts before.
THEOREM UnroutableBlocksOnlyBehind == Spec => OnlyBehindUnroutable
<1> DEFINE Step == \A r \in Relay : batch[r] # {} /\ batch'[r] = {} /\ failures' = failures =>
                      \A e \in batch[r] \cap Routable :
                          \/ e \in arrived
                          \/ \E u \in batch[r] \ Routable : Before(id[u], id[e])
<1>1. ASSUME IInv, UniqueIds, Next PROVE Step
  <2> SUFFICES ASSUME NEW r \in Relay, batch[r] # {}, batch'[r] = {}, failures' = failures,
                      NEW e \in batch[r] \cap Routable, e \notin arrived
               PROVE  \E u \in batch[r] \ Routable : Before(id[u], id[e])
    OBVIOUS
  <2>1. e \in left[r] BY <1>1 DEF IInv, Batches
  <2>2. failures \in Nat BY <1>1, BoundAssumption DEF IInv, TypeOK
  <2>3. ~ \E q \in Relay : PublishFails(q) BY <2>2 DEF PublishFails
  <2>4. batch' # batch BY <2>1, <1>1
  <2>5. PICK q \in Relay : Drain(q) \/ RefuseUnroutable(q) \/ MarkPublished(q)
    BY <1>1, <2>3, <2>4 DEF Next, Tick, InsertEvent, CommitEvent, RelayStep, PublishRow
  <2>6. q = r
    BY <1>1, <2>5 DEF Drain, RefuseUnroutable, MarkPublished, EndDrain, IInv, TypeOK
  <2>7. RefuseUnroutable(r)
    BY <2>1, <2>5, <2>6 DEF Drain, MarkPublished
  <2>8. PICK u \in Event \ Routable : IsNext(u, left[r]) BY <2>7 DEF RefuseUnroutable
  <2>9. u # e /\ e \in Event /\ u \in left[r] /\ ~ Before(id[e], id[u])
    BY <2>1, <2>8, EventAssumption DEF IsNext
  <2>10. u \in batch[r] /\ stage[u] # "absent" /\ stage[e] # "absent"
    BY <1>1, <2>9 DEF IInv, Batches
  <2>11. id[u] # id[e] BY <1>1, <2>8, <2>9, <2>10 DEF UniqueIds
  <2>12. Before(id[u], id[e])
    BY <1>1, <2>8, <2>9, <2>11, BeforeTotal DEF IInv, TypeOK
  <2> QED BY <2>8, <2>10, <2>12
<1> HIDE DEF Step
<1>2. IInv /\ UniqueIds /\ [Next]_vars => [Step]_vars BY <1>1
<1>3. Spec => [][Step]_vars BY InvariantIInv, IdsUnique, <1>2, PTL DEF Spec
<1> QED BY <1>3 DEF OnlyBehindUnroutable, Step
=============================================================================
