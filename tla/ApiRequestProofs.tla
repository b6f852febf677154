--------------------------- MODULE ApiRequestProofs ---------------------------
(***************************************************************************)
(* Proofs about ScanTarget and ApiRequest: for every host the two ways of  *)
(* saying that it is reserved agree, and for any requests and keys only    *)
(* what is admitted is stored, refusals are exact and retries recognised.  *)
(***************************************************************************)
EXTENDS ApiRequest, TLAPS, WellFoundedInduction

(* The powers of two that the masks need, as numbers.                      *)
LEMMA Powers ==
    /\ Power[0] = 1 /\ Power[1] = 2 /\ Power[4] = 16 /\ Power[6] = 64
    /\ Power[8] = 256 /\ Power[9] = 512 /\ Power[12] = 4096
<1>1. \A k \in 1 .. 16 : Power[k] = 2 * Power[k - 1] BY PowerAssumption
<1>2. Power[0] = 1 BY PowerAssumption
<1>3. Power[1] = 2 * Power[0] /\ Power[2] = 2 * Power[1] /\ Power[3] = 2 * Power[2]
  <2>1. 1 \in 1 .. 16 /\ 2 \in 1 .. 16 /\ 3 \in 1 .. 16 OBVIOUS
  <2>2. 1 - 1 = 0 /\ 2 - 1 = 1 /\ 3 - 1 = 2 OBVIOUS
  <2> QED BY ONLY <1>1, <2>1, <2>2, SMT
<1>4. Power[4] = 2 * Power[3] /\ Power[5] = 2 * Power[4] /\ Power[6] = 2 * Power[5]
  <2>1. 4 \in 1 .. 16 /\ 5 \in 1 .. 16 /\ 6 \in 1 .. 16 OBVIOUS
  <2>2. 4 - 1 = 3 /\ 5 - 1 = 4 /\ 6 - 1 = 5 OBVIOUS
  <2> QED BY ONLY <1>1, <2>1, <2>2, SMT
<1>5. Power[7] = 2 * Power[6] /\ Power[8] = 2 * Power[7] /\ Power[9] = 2 * Power[8]
  <2>1. 7 \in 1 .. 16 /\ 8 \in 1 .. 16 /\ 9 \in 1 .. 16 OBVIOUS
  <2>2. 7 - 1 = 6 /\ 8 - 1 = 7 /\ 9 - 1 = 8 OBVIOUS
  <2> QED BY ONLY <1>1, <2>1, <2>2, SMT
<1>6. Power[10] = 2 * Power[9] /\ Power[11] = 2 * Power[10] /\ Power[12] = 2 * Power[11]
  <2>1. 10 \in 1 .. 16 /\ 11 \in 1 .. 16 /\ 12 \in 1 .. 16 OBVIOUS
  <2>2. 10 - 1 = 9 /\ 11 - 1 = 10 /\ 12 - 1 = 11 OBVIOUS
  <2> QED BY ONLY <1>1, <2>1, <2>2, SMT
<1> QED BY ONLY <1>2, <1>3, <1>4, <1>5, <1>6, SMT

-----------------------------------------------------------------------------
(* IPv4.                                                                    *)

Address == Half \X Half

LEMMA HalfIs == \A x : x \in Half <=> x \in Nat /\ x <= 65535
<1>1. MaxHalf \in Nat BY DEF MaxHalf
<1>2. \A x : x \in Half <=> x \in Nat /\ x <= MaxHalf BY <1>1 DEF Half
<1> QED BY <1>2 DEF MaxHalf

(* A bit mask keeps the numbers of an interval and no others: PARSED_BLOCKED_RANGES
   against the first and last address of each range. *)
LEMMA MaskIsInterval ==
    ASSUME NEW a \in Address, NEW range \in BLOCKED_IPV4_RANGES
    PROVE  Matches(a, range) <=> Within(a, range)
<1>1. a[1] \in Nat /\ a[1] <= 65535 /\ a[2] \in Nat /\ a[2] <= 65535 BY HalfIs DEF Address
<1>2. CASE range.bits = 4
  <2>1. Power[16 - range.bits] = 4096 BY <1>2, Powers
  <2>2. range.base \in {<<57344, 0>>, <<61440, 0>>} BY <1>2 DEF BLOCKED_IPV4_RANGES
  <2>3. CASE range.base = <<57344, 0>> BY <1>1, <1>2, <2>1, <2>3 DEF Matches, Within, Masked, ClearBelow
  <2>4. CASE range.base = <<61440, 0>> BY <1>1, <1>2, <2>1, <2>4 DEF Matches, Within, Masked, ClearBelow
  <2> QED BY <2>2, <2>3, <2>4
<1>3. CASE range.bits = 8
  <2>1. Power[16 - range.bits] = 256 BY <1>3, Powers
  <2>2. range.base \in {<<0, 0>>, <<2560, 0>>, <<32512, 0>>} BY <1>3 DEF BLOCKED_IPV4_RANGES
  <2>3. CASE range.base = <<0, 0>> BY <1>1, <1>3, <2>1, <2>3 DEF Matches, Within, Masked, ClearBelow
  <2>4. CASE range.base = <<2560, 0>> BY <1>1, <1>3, <2>1, <2>4 DEF Matches, Within, Masked, ClearBelow
  <2>5. CASE range.base = <<32512, 0>> BY <1>1, <1>3, <2>1, <2>5 DEF Matches, Within, Masked, ClearBelow
  <2> QED BY <2>2, <2>3, <2>4, <2>5
<1>4. CASE range.bits = 10
  <2>1. Power[16 - range.bits] = 64 BY <1>4, Powers
  <2>2. range.base \in {<<25664, 0>>} BY <1>4 DEF BLOCKED_IPV4_RANGES
  <2>3. CASE range.base = <<25664, 0>> BY <1>1, <1>4, <2>1, <2>3 DEF Matches, Within, Masked, ClearBelow
  <2> QED BY <2>2, <2>3
<1>5. CASE range.bits = 12
  <2>1. Power[16 - range.bits] = 16 BY <1>5, Powers
  <2>2. range.base \in {<<44048, 0>>} BY <1>5 DEF BLOCKED_IPV4_RANGES
  <2>3. CASE range.base = <<44048, 0>> BY <1>1, <1>5, <2>1, <2>3 DEF Matches, Within, Masked, ClearBelow
  <2> QED BY <2>2, <2>3
<1>6. CASE range.bits = 15
  <2>1. Power[16 - range.bits] = 2 BY <1>6, Powers
  <2>2. range.base \in {<<50706, 0>>} BY <1>6 DEF BLOCKED_IPV4_RANGES
  <2>3. CASE range.base = <<50706, 0>> BY <1>1, <1>6, <2>1, <2>3 DEF Matches, Within, Masked, ClearBelow
  <2> QED BY <2>2, <2>3
<1>7. CASE range.bits = 16
  <2>1. Power[16 - range.bits] = 1 BY <1>7, Powers
  <2>2. range.base \in {<<43518, 0>>, <<49320, 0>>} BY <1>7 DEF BLOCKED_IPV4_RANGES
  <2>3. CASE range.base = <<43518, 0>> BY <1>1, <1>7, <2>1, <2>3 DEF Matches, Within, Masked, ClearBelow
  <2>4. CASE range.base = <<49320, 0>> BY <1>1, <1>7, <2>1, <2>4 DEF Matches, Within, Masked, ClearBelow
  <2> QED BY <2>2, <2>3, <2>4
<1>8. CASE range.bits = 24
  <2>1. Power[32 - range.bits] = 256 BY <1>8, Powers
  <2>2. range.base \in {<<49152, 0>>, <<49152, 512>>, <<50739, 25600>>, <<51968, 28928>>} BY <1>8 DEF BLOCKED_IPV4_RANGES
  <2>3. CASE range.base = <<49152, 0>> BY <1>1, <1>8, <2>1, <2>3 DEF Matches, Within, Masked, ClearBelow
  <2>4. CASE range.base = <<49152, 512>> BY <1>1, <1>8, <2>1, <2>4 DEF Matches, Within, Masked, ClearBelow
  <2>5. CASE range.base = <<50739, 25600>> BY <1>1, <1>8, <2>1, <2>5 DEF Matches, Within, Masked, ClearBelow
  <2>6. CASE range.base = <<51968, 28928>> BY <1>1, <1>8, <2>1, <2>6 DEF Matches, Within, Masked, ClearBelow
  <2> QED BY <2>2, <2>3, <2>4, <2>5, <2>6
<1> QED BY <1>2, <1>3, <1>4, <1>5, <1>6, <1>7, <1>8 DEF BLOCKED_IPV4_RANGES

LEMMA EveryRangeHasLabel ==
    \A range \in BLOCKED_IPV4_RANGES : range.label # NoLabel
BY DEF BLOCKED_IPV4_RANGES, NoLabel

(* An IPv4 address gets a label exactly when it lies in a reserved range. *)
THEOREM GuardIsExact ==
    ASSUME NEW a \in Address
    PROVE  findBlockedIpv4Label(a) # NoLabel <=> ReservedIpv4(a)
<1> DEFINE matching == {range \in BLOCKED_IPV4_RANGES : Matches(a, range)}
<1>1. CASE matching = {}
  <2>1. findBlockedIpv4Label(a) = NoLabel BY <1>1 DEF findBlockedIpv4Label
  <2>2. ~ ReservedIpv4(a) BY <1>1, MaskIsInterval DEF ReservedIpv4
  <2> QED BY <2>1, <2>2
<1>2. CASE matching # {}
  <2>1. (CHOOSE range \in matching : TRUE) \in matching BY <1>2
  <2>2. findBlockedIpv4Label(a) = (CHOOSE range \in matching : TRUE).label
    BY <1>2 DEF findBlockedIpv4Label
  <2>3. findBlockedIpv4Label(a) # NoLabel BY <2>1, <2>2, EveryRangeHasLabel
  <2>4. ReservedIpv4(a) BY <2>1, MaskIsInterval DEF ReservedIpv4
  <2> QED BY <2>3, <2>4
<1> QED BY <1>1, <1>2

(* The bytes of a number. *)
LEMMA ByteParts ==
    ASSUME NEW m \in Nat
    PROVE  /\ m \div 256 \in Nat /\ m % 256 \in Nat /\ m % 256 <= 255
           /\ m = 256 * (m \div 256) + (m % 256)
           /\ m \div 256 = 0 <=> m <= 255
           /\ m \div 256 <= 255 <=> m <= 65535
           /\ m \div 256 = 0 => m % 256 = m
OBVIOUS

LEMMA BytesAre ==
    ASSUME NEW p
    PROVE  /\ Bytes(p)[1] = p[1] \div 256 /\ Bytes(p)[2] = p[1] % 256
           /\ Bytes(p)[3] = p[2] \div 256 /\ Bytes(p)[4] = p[2] % 256
BY DEF Bytes

LEMMA PartsAre ==
    ASSUME NEW parts \in Parts
    PROVE  /\ Len(parts) \in 1 .. 4
           /\ \A i \in 1 .. Len(parts) : parts[i][1] \in Nat /\ parts[i][2] \in Nat /\ parts[i][2] <= 65535
BY HalfIs DEF Parts, Part

LEMMA AddressOf ==
    ASSUME NEW x \in Nat, NEW y \in Nat, x <= 65535, y <= 65535
    PROVE  <<x, y>> \in Address /\ <<x, y>> # None
BY HalfIs DEF Address, None

(* Every short form is read as inet_aton reads it: parseIpv4 accepts what packs
   into four bytes, and gives those bytes. *)
THEOREM ParsesLikeInetAton ==
    ASSUME NEW parts \in Parts
    PROVE  /\ parseIpv4(parts) # None <=> Packs(parts)
           /\ parseIpv4(parts) # None =>
                 /\ parseIpv4(parts) \in Address
                 /\ parseIpv4(parts) = Joined(Packed(parts))
<1> USE DEF Joined
<1> DEFINE n == Len(parts)
           b == Packed(parts)
           joined == <<256 * b[1] + b[2], 256 * b[3] + b[4]>>
<1>1. /\ n \in 1 .. 4
      /\ \A i \in 1 .. n : parts[i][1] \in Nat /\ parts[i][2] \in Nat /\ parts[i][2] <= 65535
  BY PartsAre
<1>2. CASE n = 1
  <2>1. parts[1][1] \in Nat /\ parts[1][2] \in Nat /\ parts[1][2] <= 65535 BY <1>1, <1>2
  <2>2. parts[1] = <<parts[1][1], parts[1][2]>> BY <1>2 DEF Parts, Part
  <2>3. Packs(parts) <=> parts[1][1] <= 65535
    BY <1>2, <2>1, ByteParts, BytesAre DEF Packs, IsByte
  <2>4. b[1] = parts[1][1] \div 256 /\ b[2] = parts[1][1] % 256
        /\ b[3] = parts[1][2] \div 256 /\ b[4] = parts[1][2] % 256
    BY <1>2 DEF Packed, Bytes
  <2>5. joined = parts[1] BY <2>1, <2>2, <2>4, ByteParts
  <2>6. parseIpv4(parts) = IF parts[1][1] <= 65535 THEN parts[1] ELSE None
    BY <1>2 DEF parseIpv4
  <2>7. parts[1][1] <= 65535 => parts[1] \in Address /\ parts[1] # None BY <2>1, <2>2, AddressOf
  <2> QED BY <2>3, <2>5, <2>6, <2>7
<1>3. CASE n = 2
  <2>1. /\ parts[1][1] \in Nat /\ parts[1][2] \in Nat
        /\ parts[2][1] \in Nat /\ parts[2][2] \in Nat /\ parts[2][2] <= 65535
    BY <1>1, <1>3
  <2>2. Packs(parts) <=> IsByte(parts[1]) /\ parts[2][1] <= 255
    BY <1>3, <2>1, ByteParts, BytesAre DEF Packs, IsByte
  <2>3. b[1] = parts[1][2] /\ b[2] = parts[2][1] % 256
        /\ b[3] = parts[2][2] \div 256 /\ b[4] = parts[2][2] % 256
    BY <1>3 DEF Packed, Bytes
  <2>4. parts[2][1] <= 255 => joined = <<256 * parts[1][2] + parts[2][1], parts[2][2]>>
    BY <2>1, <2>3, ByteParts
  <2>5. parseIpv4(parts) = IF IsByte(parts[1]) /\ parts[2][1] <= 255
                           THEN <<256 * parts[1][2] + parts[2][1], parts[2][2]>> ELSE None
    BY <1>3 DEF parseIpv4
  <2>6. IsByte(parts[1]) /\ parts[2][1] <= 255 =>
          /\ <<256 * parts[1][2] + parts[2][1], parts[2][2]>> \in Address
          /\ <<256 * parts[1][2] + parts[2][1], parts[2][2]>> # None
    BY <2>1, AddressOf DEF IsByte
  <2> QED BY <2>2, <2>4, <2>5, <2>6
<1>4. CASE n = 3
  <2>1. /\ parts[1][1] \in Nat /\ parts[1][2] \in Nat /\ parts[2][1] \in Nat /\ parts[2][2] \in Nat
        /\ parts[3][1] \in Nat /\ parts[3][2] \in Nat /\ parts[3][2] <= 65535
    BY <1>1, <1>4
  <2>2. Packs(parts) <=> IsByte(parts[1]) /\ IsByte(parts[2]) /\ parts[3][1] = 0
    <3>1. Packs(parts) <=> /\ IsByte(parts[1]) /\ parts[3][1] \div 256 = 0
                           /\ IsByte(parts[2]) /\ parts[3][1] % 256 = 0
                           /\ parts[3][1] \div 256 <= 255
      <4>1. 1 .. n - 1 = {1, 2} BY <1>4
      <4> QED BY <1>4, <4>1, BytesAre DEF Packs, IsByte
    <3> QED BY <2>1, <3>1, ByteParts
  <2>3. b[1] = parts[1][2] /\ b[2] = parts[2][2]
        /\ b[3] = parts[3][2] \div 256 /\ b[4] = parts[3][2] % 256
    BY <1>4 DEF Packed, Bytes
  <2>4. joined = <<256 * parts[1][2] + parts[2][2], parts[3][2]>>
    BY <2>1, <2>3, ByteParts
  <2>5. parseIpv4(parts) = IF IsByte(parts[1]) /\ IsByte(parts[2]) /\ parts[3][1] = 0
                           THEN <<256 * parts[1][2] + parts[2][2], parts[3][2]>> ELSE None
    BY <1>4 DEF parseIpv4
  <2>6. IsByte(parts[1]) /\ IsByte(parts[2]) =>
          /\ <<256 * parts[1][2] + parts[2][2], parts[3][2]>> \in Address
          /\ <<256 * parts[1][2] + parts[2][2], parts[3][2]>> # None
    BY <2>1, AddressOf DEF IsByte
  <2> QED BY <2>2, <2>4, <2>5, <2>6
<1>5. CASE n = 4
  <2> DEFINE whole == <<256 * parts[1][2] + parts[2][2], 256 * parts[3][2] + parts[4][2]>>
             bytes == IsByte(parts[1]) /\ IsByte(parts[2]) /\ IsByte(parts[3]) /\ IsByte(parts[4])
  <2>1. /\ parts[1][2] \in Nat /\ parts[2][2] \in Nat /\ parts[3][2] \in Nat
        /\ parts[4][1] \in Nat /\ parts[4][2] \in Nat /\ parts[4][2] <= 65535
    BY <1>1, <1>5
  <2>2. Packs(parts) <=> bytes
    <3>1. Packs(parts) <=> /\ IsByte(parts[1]) /\ parts[4][1] \div 256 = 0
                           /\ IsByte(parts[2]) /\ parts[4][1] % 256 = 0
                           /\ IsByte(parts[3]) /\ parts[4][2] \div 256 = 0
                           /\ parts[4][1] \div 256 <= 255
      <4>1. 1 .. n - 1 = {1, 2, 3} BY <1>5
      <4> QED BY <1>5, <4>1, BytesAre DEF Packs, IsByte
    <3> QED BY <2>1, <3>1, ByteParts DEF IsByte
  <2>3. b[1] = parts[1][2] /\ b[2] = parts[2][2]
        /\ b[3] = parts[3][2] /\ b[4] = parts[4][2] % 256
    BY <1>5 DEF Packed, Bytes
  <2>4. bytes => joined = whole BY <2>1, <2>3, ByteParts DEF IsByte
  <2>5. parseIpv4(parts) = IF bytes THEN whole ELSE None
    <3>1. 1 .. 4 = {1, 2, 3, 4} OBVIOUS
    <3> QED BY <1>5, <3>1 DEF parseIpv4
  <2>6. bytes => whole \in Address /\ whole # None BY <2>1, AddressOf DEF IsByte
  <2> QED BY <2>2, <2>4, <2>5, <2>6
<1> QED BY <1>1, <1>2, <1>3, <1>4, <1>5

LEMMA BytesOfParts ==
    ASSUME NEW parts \in Parts, Packs(parts)
    PROVE  \A i \in 1 .. 4 : Packed(parts)[i] \in Nat /\ Packed(parts)[i] <= 255
<1> DEFINE n == Len(parts)
<1>1. /\ n \in 1 .. 4
      /\ \A i \in 1 .. n : parts[i][1] \in Nat /\ parts[i][2] \in Nat /\ parts[i][2] <= 65535
  BY PartsAre
<1>2. /\ \A i \in 1 .. n - 1 : IsByte(parts[i])
      /\ Bytes(parts[n])[1] <= 255
  BY DEF Packs, IsByte
<1>3. parts[n][1] \in Nat /\ parts[n][2] \in Nat /\ parts[n][2] <= 65535 BY <1>1
<1>4. \A i \in 1 .. 4 : Bytes(parts[n])[i] \in Nat /\ Bytes(parts[n])[i] <= 255
  <2> DEFINE p == parts[n]
  <2>1. p[1] \in Nat /\ p[2] \in Nat /\ p[2] <= 65535 /\ Bytes(p)[1] <= 255 BY <1>2, <1>3
  <2> HIDE DEF p
  <2>2. /\ Bytes(p)[1] = p[1] \div 256 /\ Bytes(p)[2] = p[1] % 256
        /\ Bytes(p)[3] = p[2] \div 256 /\ Bytes(p)[4] = p[2] % 256
    BY BytesAre
  <2>3. Bytes(p)[1] \in Nat /\ Bytes(p)[2] \in Nat /\ Bytes(p)[2] <= 255 BY <2>1, <2>2, ByteParts
  <2>4. Bytes(p)[3] \in Nat /\ Bytes(p)[3] <= 255 /\ Bytes(p)[4] \in Nat /\ Bytes(p)[4] <= 255
    BY <2>1, <2>2, ByteParts
  <2> QED BY <2>1, <2>3, <2>4 DEF p
<1>5. ASSUME NEW i \in 1 .. 4 PROVE Packed(parts)[i] \in Nat /\ Packed(parts)[i] <= 255
  <2>1. Packed(parts)[i] = IF i < n THEN parts[i][2] ELSE Bytes(parts[n])[i] BY DEF Packed
  <2>2. CASE i < n
    <3>1. i \in 1 .. n - 1 /\ i \in 1 .. n BY <1>1, <2>2
    <3>2. IsByte(parts[i]) /\ parts[i][2] \in Nat BY <1>1, <1>2, <3>1
    <3> QED BY <2>1, <2>2, <3>2 DEF IsByte
  <2>3. CASE ~ i < n BY <1>4, <2>1, <2>3
  <2> QED BY <2>2, <2>3
<1> QED BY <1>5

(* The canonical dotted quad is read back as the address it was made of. *)
LEMMA QuadReadsBack ==
    ASSUME NEW parts \in Parts, Packs(parts)
    PROVE  parseIpv4(Quad(Packed(parts))) = Joined(Packed(parts))
<1> DEFINE b == Packed(parts)
<1>1. \A i \in 1 .. 4 : b[i] \in Nat /\ b[i] <= 255 BY BytesOfParts
<1> HIDE DEF b
<1>2. Len(Quad(b)) = 4 BY DEF Quad
<1>3. \A i \in 1 .. 4 : IsByte(Quad(b)[i]) /\ Quad(b)[i][2] = b[i] BY <1>1 DEF Quad, IsByte
<1>4. parseIpv4(Quad(b)) = Joined(b) BY <1>2, <1>3 DEF parseIpv4, Joined
<1> QED BY <1>4 DEF b

-----------------------------------------------------------------------------
(* IPv6 and hosts.                                                          *)

Groups == [1 .. 8 -> Half]

LEMMA HostSections ==
    ASSUME NEW host \in Host, host.kind = "v6"
    PROVE  /\ host.head \in Section /\ host.tail \in Section /\ host.gap \in BOOLEAN
           /\ ~ host.gap => Written(host.tail) = <<>>
<1>1. Plain(<<>>) \in Section BY DEF Plain, Section
<1>2. Written(Plain(<<>>)) = <<>> BY DEF Plain, Written
<1> QED BY <1>1, <1>2 DEF Host

LEMMA ConcatenationIs ==
    ASSUME NEW s \in Seq(Half), NEW t \in Seq(Half)
    PROVE  /\ s \o t \in Seq(Half) /\ Len(s \o t) = Len(s) + Len(t)
           /\ \A i \in 1 .. Len(s) + Len(t) :
                 (s \o t)[i] = IF i <= Len(s) THEN s[i] ELSE t[i - Len(s)]
OBVIOUS

(* Eight groups as a sequence and as a function. *)
LEMMA EightGroups ==
    ASSUME NEW s \in Seq(Half), Len(s) = 8
    PROVE  s = [i \in 1 .. 8 |-> s[i]]
<1>1. DOMAIN s = 1 .. 8 OBVIOUS
<1>2. s = [i \in DOMAIN s |-> s[i]] OBVIOUS
<1> QED BY <1>1, <1>2

LEMMA GroupsAreSequence ==
    ASSUME NEW g \in Groups
    PROVE  g \in Seq(Half) /\ Len(g) = 8 /\ g = [i \in 1 .. 8 |-> g[i]]
<1>1. g = [i \in 1 .. 8 |-> g[i]] /\ \A i \in 1 .. 8 : g[i] \in Half BY DEF Groups
<1> DEFINE s == [i \in 1 .. 8 |-> g[i]]
<1>2. s \in Seq(Half) /\ Len(s) = 8
  <2>1. 8 \in Nat /\ \A i \in 1 .. 8 : g[i] \in Half BY <1>1
  <2> QED BY ONLY <2>1
<1> QED BY <1>1, <1>2

(* A section is read as the groups that are written there. *)
LEMMA SectionsAlike ==
    ASSUME NEW section \in Section, WellFormed(section)
    PROVE  /\ QuadParses(section) /\ toIpv6Groups(section) = Written(section)
           /\ Written(section) \in Seq(Half)
<1>1. section.groups \in Seq(Half) /\ section.quad \in Parts \cup {None} BY DEF Section
<1>2. CASE section.quad = None
  BY <1>1, <1>2 DEF QuadParses, toIpv6Groups, Written, None
<1>3. CASE section.quad # None
  <2>1. /\ parseIpv4(section.quad) # None /\ parseIpv4(section.quad) \in Address
        /\ parseIpv4(section.quad) = Joined(Packed(section.quad))
    BY <1>1, <1>3, ParsesLikeInetAton DEF WellFormed
  <2>2. PICK x \in Half, y \in Half : parseIpv4(section.quad) = <<x, y>> BY <2>1 DEF Address
  <2>3. <<x, y>> \in Seq(Half) OBVIOUS
  <2> QED BY <1>1, <1>3, <2>1, <2>2, <2>3 DEF QuadParses, toIpv6Groups, Written
<1> QED BY <1>2, <1>3

LEMMA ExpandedIsGroups ==
    ASSUME NEW host \in Host, host.kind = "v6", Expands(host)
    PROVE  Expanded(host) \in Groups
<1> DEFINE head == Written(host.head)
           tail == Written(host.tail)
<1>1. head \in Seq(Half) /\ tail \in Seq(Half)
  BY SectionsAlike, HostSections DEF Expands
<1>2. Len(head) + Len(tail) <= 8 BY <1>1 DEF Expands
<1> HIDE DEF head, tail
<1>3. ASSUME NEW i \in 1 .. 8
      PROVE  (IF i <= Len(head) THEN head[i]
              ELSE IF i > 8 - Len(tail) THEN tail[i - (8 - Len(tail))] ELSE 0) \in Half
  <2>1. 0 \in Half BY HalfIs
  <2>2. CASE i <= Len(head) BY <1>1, <2>2
  <2>3. CASE ~ i <= Len(head) /\ i > 8 - Len(tail) BY <1>1, <1>2, <2>3
  <2> QED BY <2>1, <2>2, <2>3
<1> QED BY <1>3 DEF Expanded, Groups, head, tail

(* parseIpv6 gives the groups that the URL standard gives. *)
LEMMA ParsesLikeUrlStandard ==
    ASSUME NEW host \in Host, host.kind = "v6", Expands(host)
    PROVE  parseIpv6(host) = Expanded(host) /\ parseIpv6(host) # None
<1> DEFINE head == Written(host.head)
           tail == Written(host.tail)
           zeros == 8 - Len(head) - Len(tail)
           middle == [i \in 1 .. zeros |-> 0]
<1>1. /\ QuadParses(host.head) /\ toIpv6Groups(host.head) = head /\ head \in Seq(Half)
      /\ QuadParses(host.tail) /\ toIpv6Groups(host.tail) = tail /\ tail \in Seq(Half)
  BY SectionsAlike, HostSections DEF Expands
<1>2. /\ host.gap \in BOOLEAN /\ (host.gap => Len(head) + Len(tail) <= 7)
      /\ (~ host.gap => Len(head) + Len(tail) = 8 /\ tail = <<>>)
  BY HostSections DEF Expands
<1>3. Expanded(host) = [i \in 1 .. 8 |-> IF i <= Len(head) THEN head[i]
                                         ELSE IF i > 8 - Len(tail) THEN tail[i - (8 - Len(tail))] ELSE 0]
  BY DEF Expanded
<1>4. parseIpv6(host) = IF host.gap /\ zeros >= 1 THEN head \o middle \o tail
                        ELSE IF ~ host.gap /\ Len(head) = 8 THEN head ELSE None
  BY <1>1 DEF parseIpv6
<1>5. Expanded(host) # None
  <2>1. Expanded(host) \in Groups BY ExpandedIsGroups
  <2> QED BY <2>1 DEF Groups, None
<1> HIDE DEF head, tail
<1>6. Len(head) \in Nat /\ Len(tail) \in Nat BY <1>1
<1>7. CASE host.gap
  <2>1. zeros \in Nat /\ zeros >= 1 BY <1>2, <1>6, <1>7
  <2>2. 0 \in Half BY HalfIs
  <2>3. middle \in Seq(Half) /\ Len(middle) = zeros /\ \A i \in 1 .. zeros : middle[i] = 0
    BY <2>1, <2>2
  <2> HIDE DEF middle
  <2>4. /\ head \o middle \in Seq(Half) /\ Len(head \o middle) = Len(head) + zeros
        /\ \A i \in 1 .. Len(head) + zeros :
              (head \o middle)[i] = IF i <= Len(head) THEN head[i] ELSE 0
    <3>1. /\ head \o middle \in Seq(Half) /\ Len(head \o middle) = Len(head) + Len(middle)
          /\ \A i \in 1 .. Len(head) + Len(middle) :
                (head \o middle)[i] = IF i <= Len(head) THEN head[i] ELSE middle[i - Len(head)]
      BY <1>1, <2>3, ConcatenationIs
    <3>2. \A i \in 1 .. Len(head) + zeros : ~ i <= Len(head) => i - Len(head) \in 1 .. zeros
      BY <1>6, <2>1
    <3> HIDE DEF zeros
    <3> QED BY ONLY <2>3, <3>1, <3>2
  <2> DEFINE most == head \o middle
  <2> HIDE DEF most
  <2>5. most \in Seq(Half) /\ Len(most) = 8 - Len(tail)
        /\ \A i \in 1 .. 8 - Len(tail) : most[i] = IF i <= Len(head) THEN head[i] ELSE 0
    BY <1>6, <2>4 DEF most
  <2>6. /\ most \o tail \in Seq(Half) /\ Len(most \o tail) = 8
        /\ \A i \in 1 .. 8 : (most \o tail)[i] =
              IF i <= 8 - Len(tail) THEN most[i] ELSE tail[i - (8 - Len(tail))]
    <3>1. /\ most \o tail \in Seq(Half) /\ Len(most \o tail) = Len(most) + Len(tail)
          /\ \A i \in 1 .. Len(most) + Len(tail) :
                (most \o tail)[i] = IF i <= Len(most) THEN most[i] ELSE tail[i - Len(most)]
      BY <1>1, <2>5, ConcatenationIs
    <3>2. Len(most) = 8 - Len(tail) /\ Len(most) + Len(tail) = 8 BY <1>6, <2>5
    <3> QED BY ONLY <3>1, <3>2
  <2>7. most \o tail = [i \in 1 .. 8 |-> (most \o tail)[i]] BY <2>6, EightGroups
  <2>8. ASSUME NEW i \in 1 .. 8
        PROVE  (most \o tail)[i] = IF i <= Len(head) THEN head[i]
                                   ELSE IF i > 8 - Len(tail) THEN tail[i - (8 - Len(tail))] ELSE 0
    <3>1. Len(head) + Len(tail) <= 7 BY <1>2, <1>7
    <3>2. (most \o tail)[i] = IF i <= 8 - Len(tail) THEN most[i] ELSE tail[i - (8 - Len(tail))]
      BY <2>6
    <3>3. CASE i <= 8 - Len(tail)
      <4>1. i \in 1 .. 8 - Len(tail) /\ ~ i > 8 - Len(tail) BY <1>6, <3>3
      <4>2. most[i] = IF i <= Len(head) THEN head[i] ELSE 0 BY <2>5, <4>1
      <4> QED BY <3>2, <3>3, <4>1, <4>2
    <3>4. CASE ~ i <= 8 - Len(tail)
      <4>1. ~ i <= Len(head) /\ i > 8 - Len(tail) BY <1>6, <3>1, <3>4
      <4> QED BY <3>2, <3>4, <4>1
    <3> QED BY <3>3, <3>4
  <2>9. most \o tail = Expanded(host) BY <1>3, <2>7, <2>8
  <2>10. parseIpv6(host) = most \o tail BY <1>4, <1>7, <2>1 DEF most
  <2> QED BY <1>5, <2>9, <2>10
<1>8. CASE ~ host.gap
  <2>1. Len(head) = 8
    <3>1. Len(tail) = 0 BY <1>2, <1>8
    <3>2. Len(head) + Len(tail) = 8 BY <1>2, <1>8
    <3> QED BY ONLY <1>6, <3>1, <3>2
  <2>2. parseIpv6(host) = head BY <1>4, <1>8, <2>1
  <2>3. head = [i \in 1 .. 8 |-> head[i]] BY <1>1, <2>1, EightGroups
  <2>4. Expanded(host) = head BY <1>3, <2>1, <2>3
  <2> QED BY <1>5, <2>2, <2>4
<1> QED BY <1>2, <1>7, <1>8

(* Some run of zeros is longest, and of those as long first. *)
LEMMA LongestRunIsRun ==
    ASSUME NEW g, ZeroRuns(g) # {}
    PROVE  LongestRun(g) \in ZeroRuns(g)
<1> DEFINE left == {56 - Weight(run) : run \in ZeroRuns(g)}
<1>1. \A run \in ZeroRuns(g) : Weight(run) \in Int /\ 56 - Weight(run) \in Nat
  BY DEF ZeroRuns, Weight
<1>2. left \subseteq Nat /\ left # {} BY <1>1
<1>3. PICK m \in left : \A n \in left : ~ (<<n, m>> \in OpToRel(<, Nat))
  <2> HIDE DEF left
  <2> QED BY <1>2, NatLessThanWellFounded, WFMin
<1>4. \A n \in left : m <= n
  <2>1. ASSUME NEW n \in left PROVE ~ (n < m)
    <3>1. n \in Nat /\ m \in Nat BY <1>2
    <3>2. n < m => <<n, m>> \in OpToRel(<, Nat) BY <3>1 DEF OpToRel
    <3> QED BY <1>3, <3>2
  <2>2. ASSUME NEW n \in left PROVE m <= n
    <3>1. n \in Nat /\ m \in Nat BY <1>2
    <3> QED BY <2>1, <3>1
  <2> QED BY <2>2
<1>5. PICK run \in ZeroRuns(g) : m = 56 - Weight(run) OBVIOUS
<1>6. \A other \in ZeroRuns(g) : Weight(other) <= Weight(run)
  <2>1. ASSUME NEW other \in ZeroRuns(g) PROVE Weight(other) <= Weight(run)
    <3>1. m <= 56 - Weight(other) BY <1>4
    <3> QED BY <1>1, <1>5, <3>1
  <2> QED BY <2>1
<1> QED BY <1>6 DEF LongestRun

(* The canonical text of an IPv6 address denotes that address. *)
LEMMA SerialisedDenotes ==
    ASSUME NEW g \in Groups
    PROVE  /\ Serialised(g) \in Host /\ Serialised(g).kind = "v6"
           /\ Expands(Serialised(g)) /\ Expanded(Serialised(g)) = g
<1>1. g \in Seq(Half) /\ Len(g) = 8 /\ g = [i \in 1 .. 8 |-> g[i]] BY GroupsAreSequence
<1>2. <<>> \in Seq(Half) OBVIOUS
<1>3. ASSUME NEW groups \in Seq(Half)
      PROVE  /\ Plain(groups) \in Section /\ Plain(groups).quad = None
             /\ WellFormed(Plain(groups)) /\ Written(Plain(groups)) = groups
  BY <1>3 DEF Plain, Section, WellFormed, Written
<1>4. CASE ZeroRuns(g) = {}
  <2> DEFINE host == [kind |-> "v6", head |-> Plain(g), gap |-> FALSE, tail |-> Plain(<<>>)]
  <2>1. Serialised(g) = host BY <1>4 DEF Serialised
  <2>2. host \in Host BY <1>1, <1>3 DEF Host
  <2>3. Written(host.head) = g /\ Written(host.tail) = <<>> BY <1>1, <1>2, <1>3
  <2>4. ~ host.gap /\ WellFormed(host.head) /\ WellFormed(host.tail) BY <1>1, <1>2, <1>3
  <2>5. host.kind = "v6" OBVIOUS
  <2> HIDE DEF host
  <2>6. Len(<<>>) = 0 /\ Len(g) + 0 = 8 BY <1>1
  <2>7. Expands(host) BY <2>3, <2>4, <2>6 DEF Expands
  <2>8. Expanded(host) = [i \in 1 .. 8 |-> IF i <= Len(g) THEN g[i]
                                          ELSE IF i > 8 - Len(<<>>) THEN <<>>[i - (8 - Len(<<>>))] ELSE 0]
    BY <2>3 DEF Expanded
  <2>9. Expanded(host) = [i \in 1 .. 8 |-> g[i]] BY <1>1, <2>8
  <2> QED BY <1>1, <2>1, <2>2, <2>5, <2>7, <2>9
<1>5. CASE ZeroRuns(g) # {}
  <2> DEFINE run == LongestRun(g)
             before == [i \in 1 .. run[1] - 1 |-> g[i]]
             after == [i \in 1 .. 8 - run[2] |-> g[run[2] + i]]
             host == [kind |-> "v6", gap |-> TRUE, head |-> Plain(before), tail |-> Plain(after)]
  <2>1. Serialised(g) = host BY <1>5 DEF Serialised
  <2>2. run \in ZeroRuns(g) BY <1>5, LongestRunIsRun
  <2>3. /\ run[1] \in 1 .. 8 /\ run[2] \in 1 .. 8 /\ run[1] < run[2]
        /\ \A i \in run[1] .. run[2] : g[i] = 0
    BY <2>2 DEF ZeroRuns
  <2> HIDE DEF run
  <2>4. before \in Seq(Half) /\ Len(before) = run[1] - 1
    <3>1. run[1] - 1 \in Nat BY <2>3
    <3>2. \A i \in 1 .. run[1] - 1 : g[i] \in Half BY <2>3 DEF Groups
    <3> QED BY <3>1, <3>2
  <2>5. after \in Seq(Half) /\ Len(after) = 8 - run[2]
    <3>1. 8 - run[2] \in Nat BY <2>3
    <3>2. \A i \in 1 .. 8 - run[2] : g[run[2] + i] \in Half BY <2>3 DEF Groups
    <3> QED BY <3>1, <3>2
  <2>6. host \in Host BY <1>3, <2>4, <2>5 DEF Host
  <2>7. Written(host.head) = before /\ Written(host.tail) = after BY <1>3, <2>4, <2>5
  <2>8. Expands(host) BY <1>3, <2>3, <2>4, <2>5, <2>7 DEF Expands
  <2>9. Expanded(host) = [i \in 1 .. 8 |-> IF i <= run[1] - 1 THEN before[i]
                                          ELSE IF i > run[2] THEN after[i - run[2]] ELSE 0]
    <3>1. 8 - (8 - run[2]) = run[2] BY <2>3
    <3> HIDE DEF host, before, after
    <3> QED BY <2>4, <2>5, <2>7, <3>1 DEF Expanded
  <2>10. ASSUME NEW i \in 1 .. 8
         PROVE  (IF i <= run[1] - 1 THEN before[i] ELSE IF i > run[2] THEN after[i - run[2]] ELSE 0) = g[i]
    <3>1. CASE i <= run[1] - 1 BY <2>3, <3>1
    <3>2. CASE i > run[2]
      <4>1. i - run[2] \in 1 .. 8 - run[2] /\ run[2] + (i - run[2]) = i /\ ~ i <= run[1] - 1
        <5> DEFINE first == run[1]
                   last == run[2]
        <5>1. first \in Int /\ last \in Int /\ last \in 1 .. 8 /\ first < last /\ i > last
          BY <2>3, <3>2
        <5> HIDE DEF first, last
        <5>2. i - last \in 1 .. 8 - last /\ last + (i - last) = i /\ ~ i <= first - 1
          BY <5>1
        <5> QED BY <5>2 DEF first, last
      <4>2. after[i - run[2]] = g[run[2] + (i - run[2])] BY <4>1
      <4> QED BY <3>2, <4>1, <4>2
    <3>3. CASE ~ i <= run[1] - 1 /\ ~ i > run[2]
      <4>1. i \in run[1] .. run[2] BY <2>3, <3>3
      <4> QED BY <2>3, <3>3, <4>1
    <3> QED BY <3>1, <3>2, <3>3
  <2>11. Expanded(host) = g
    <3>1. g = [i \in 1 .. 8 |-> g[i]] BY DEF Groups
    <3> HIDE DEF host, before, after
    <3> QED BY <2>9, <2>10, <3>1
  <2>12. host.kind = "v6" OBVIOUS
  <2> HIDE DEF host
  <2> QED BY <2>1, <2>6, <2>8, <2>11, <2>12
<1> QED BY <1>4, <1>5

(* The addresses that :: and ::1 carry are in 0.0.0.0/8. *)
LEMMA UnspecifiedIsReserved == ReservedIpv4(<<0, 0>>) /\ ReservedIpv4(<<0, 1>>)
<1> DEFINE range == [base |-> <<0, 0>>, bits |-> 8, label |-> "unspecified"]
<1>1. range \in BLOCKED_IPV4_RANGES BY DEF BLOCKED_IPV4_RANGES
<1>2. Within(<<0, 0>>, range) /\ Within(<<0, 1>>, range) BY Powers DEF Within
<1> QED BY <1>1, <1>2 DEF ReservedIpv4

(* The guard's cases on eight groups against what is reserved: the addresses
   left wrapped are the only ones that it misses. *)
LEMMA GroupsGuardIsExact ==
    ASSUME NEW g \in Groups
    PROVE  findBlockedIpv6Label(g) # NoLabel <=> ReservedIpv6(g) /\ ~ LeftWrapped(g)
<1>1. \A i \in 1 .. 8 : g[i] \in Half BY DEF Groups
<1>2. g[1] \in Nat /\ g[7] \in Nat /\ g[8] \in Nat BY <1>1, HalfIs
<1>3. Power[9] = 512 /\ Power[6] = 64 BY Powers
<1>4. ClearBelow(g[1], Power[9]) = 64512 <=> 64512 <= g[1] /\ g[1] <= 65023
  BY <1>2, <1>3 DEF ClearBelow
<1>5. ClearBelow(g[1], Power[6]) = 65152 <=> 65152 <= g[1] /\ g[1] <= 65215
  BY <1>2, <1>3 DEF ClearBelow
<1>6. /\ Carries(g, Mapped) <=> /\ g[1] = 0 /\ g[2] = 0 /\ g[3] = 0 /\ g[4] = 0 /\ g[5] = 0
                                /\ g[6] = 65535
      /\ Carries(g, Nat64) => g[1] = 100
      /\ Carries(g, Compatible) <=> /\ g[1] = 0 /\ g[2] = 0 /\ g[3] = 0 /\ g[4] = 0 /\ g[5] = 0
                                    /\ g[6] = 0
  BY DEF Carries, Mapped, Nat64, Compatible
<1>7. ReservedIpv6(g) <=> \/ /\ Carries(g, Mapped) \/ Carries(g, Nat64) \/ Carries(g, Compatible)
                             /\ ReservedIpv4(<<g[7], g[8]>>)
                          \/ 64512 <= g[1] /\ g[1] <= 65023
                          \/ 65152 <= g[1] /\ g[1] <= 65215
  BY DEF ReservedIpv6
<1>8. IsIpv4Mapped(g) <=> Carries(g, Mapped) BY <1>6 DEF IsIpv4Mapped
<1>9. CASE IsIpv4Mapped(g)
  <2>1. <<g[7], g[8]>> \in Address BY <1>1 DEF Address
  <2>2. g[1] = 0 /\ g[6] = 65535 BY <1>9 DEF IsIpv4Mapped
  <2>3. findBlockedIpv6Label(g) = findBlockedIpv4Label(<<g[7], g[8]>>)
    BY <1>4, <1>5, <1>9, <2>2 DEF findBlockedIpv6Label
  <2>4. ReservedIpv6(g) <=> ReservedIpv4(<<g[7], g[8]>>) BY <1>7, <1>8, <1>9, <2>2
  <2>5. ~ LeftWrapped(g) BY <1>6, <2>2 DEF LeftWrapped
  <2> QED BY <2>1, <2>3, <2>4, <2>5, GuardIsExact
<1>10. CASE ~ IsIpv4Mapped(g)
  <2> DEFINE first == 64512 <= g[1] /\ g[1] <= 65023
             second == 65152 <= g[1] /\ g[1] <= 65215
             known == Carries(g, Compatible) /\ g[7] = 0 /\ g[8] <= 1
  <2>1. known <=> \/ \A i \in 1 .. 8 : g[i] = 0
                  \/ (\A i \in 1 .. 7 : g[i] = 0) /\ g[8] = 1
    <3>1. /\ (\A i \in 1 .. 8 : g[i] = 0) <=> /\ g[1] = 0 /\ g[2] = 0 /\ g[3] = 0 /\ g[4] = 0
                                              /\ g[5] = 0 /\ g[6] = 0 /\ g[7] = 0 /\ g[8] = 0
          /\ (\A i \in 1 .. 7 : g[i] = 0) <=> /\ g[1] = 0 /\ g[2] = 0 /\ g[3] = 0 /\ g[4] = 0
                                              /\ g[5] = 0 /\ g[6] = 0 /\ g[7] = 0
      OBVIOUS
    <3>2. g[8] <= 1 <=> g[8] = 0 \/ g[8] = 1 BY <1>2
    <3> QED BY <1>6, <3>1, <3>2
  <2>2. findBlockedIpv6Label(g) # NoLabel <=> known \/ first \/ second
    BY <1>4, <1>5, <1>10, <2>1 DEF findBlockedIpv6Label, NoLabel
  <2>3. known => ReservedIpv4(<<g[7], g[8]>>) /\ ~ LeftWrapped(g)
    <3>1. known => g[7] = 0 /\ (g[8] = 0 \/ g[8] = 1) /\ g[1] = 0 BY <1>2, <1>6
    <3>2. known => ReservedIpv4(<<g[7], g[8]>>) BY <3>1, UnspecifiedIsReserved
    <3>3. known => ~ LeftWrapped(g) BY <1>6, <3>1 DEF LeftWrapped
    <3> QED BY <3>2, <3>3
  <2>4. first \/ second => ~ LeftWrapped(g) BY <1>2, <1>6 DEF LeftWrapped
  <2>5. ~ LeftWrapped(g) => known \/ ~ (Carries(g, Nat64) \/ Carries(g, Compatible))
    BY DEF LeftWrapped
  <2>6. ReservedIpv6(g) /\ ~ LeftWrapped(g) <=> known \/ first \/ second
    <3> HIDE DEF known, first, second
    <3>1. ~ Carries(g, Mapped) BY <1>8, <1>10
    <3>2. known => Carries(g, Compatible) BY DEF known
    <3>3. ReservedIpv6(g) <=> \/ /\ Carries(g, Nat64) \/ Carries(g, Compatible)
                                 /\ ReservedIpv4(<<g[7], g[8]>>)
                              \/ first \/ second
      BY <1>7, <3>1 DEF first, second
    <3> QED BY <2>3, <2>4, <2>5, <3>2, <3>3
  <2> QED BY <2>2, <2>6
<1> QED BY <1>9, <1>10

Denotes(host) == /\ host.kind = "v4" => Packs(host.parts)
                 /\ host.kind = "v6" => Expands(host)

(* findBlockedHostLabel, given the canonical host that URL.parse makes of any
   text, misses of the reserved addresses those left wrapped and labels no
   other: whatever is spelled, what is denoted is judged. *)
THEOREM HostGuardIsExact ==
    ASSUME NEW host \in Host, Denotes(host)
    PROVE  findBlockedHostLabel(Canonical(host)) # NoLabel
             <=> Reserved(host) /\ ~ IsLeftWrapped(host)
<1>1. CASE host.kind = "v4"
  <2> DEFINE a == Joined(Packed(host.parts))
             canonical == [kind |-> "v4", parts |-> Quad(Packed(host.parts))]
  <2>1. host.parts \in Parts BY <1>1 DEF Host
  <2>2. Packs(host.parts) BY <1>1 DEF Denotes
  <2>3. a \in Address /\ a # None BY <2>1, <2>2, ParsesLikeInetAton
  <2>4. Canonical(host) = canonical BY <1>1 DEF Canonical
  <2>5. parseIpv4(canonical.parts) = a BY <2>1, <2>2, QuadReadsBack
  <2> HIDE DEF a
  <2>6. findBlockedHostLabel(canonical) = findBlockedIpv4Label(a)
    BY <2>3, <2>5 DEF findBlockedHostLabel
  <2>7. findBlockedIpv4Label(a) # NoLabel <=> ReservedIpv4(a) BY <2>3, GuardIsExact
  <2>8. Reserved(host) <=> ReservedIpv4(a) BY <1>1 DEF Reserved, a
  <2>9. ~ IsLeftWrapped(host) BY <1>1 DEF IsLeftWrapped
  <2> QED BY <2>4, <2>6, <2>7, <2>8, <2>9
<1>2. CASE host.kind = "v6"
  <2> DEFINE g == Expanded(host)
             canonical == Serialised(g)
  <2>1. Expands(host) BY <1>2 DEF Denotes
  <2>2. g \in Groups BY <1>2, <2>1, ExpandedIsGroups
  <2>3. Canonical(host) = canonical BY <1>2 DEF Canonical
  <2> HIDE DEF g
  <2>4. /\ canonical \in Host /\ canonical.kind = "v6"
        /\ Expands(canonical) /\ Expanded(canonical) = g
    BY <2>2, SerialisedDenotes
  <2> HIDE DEF canonical
  <2>5. parseIpv6(canonical) = g /\ g # None BY <2>4, ParsesLikeUrlStandard
  <2>6. findBlockedHostLabel(canonical) = findBlockedIpv6Label(g)
    BY <2>4, <2>5 DEF findBlockedHostLabel
  <2>7. findBlockedIpv6Label(g) # NoLabel <=> ReservedIpv6(g) /\ ~ LeftWrapped(g)
    BY <2>2, GroupsGuardIsExact
  <2>8. Reserved(host) <=> ReservedIpv6(g) BY <1>2 DEF Reserved, g
  <2>9. IsLeftWrapped(host) <=> LeftWrapped(g) BY <1>2 DEF IsLeftWrapped, g
  <2> QED BY <2>3, <2>6, <2>7, <2>8, <2>9
<1>3. CASE host.kind = "name"
  <2>1. Canonical(host) = [host EXCEPT !.upper = FALSE] BY <1>3 DEF Canonical
  <2>2. Canonical(host).kind = "name" BY <1>3, <2>1 DEF Host
  <2>3. findBlockedHostLabel(Canonical(host)) = NoLabel BY <2>2 DEF findBlockedHostLabel
  <2> QED BY <1>3, <2>3 DEF Reserved
<1> QED BY <1>1, <1>2, <1>3 DEF Host

(* "belt and braces": should the parser of URLs stop normalising hosts, the
   guard would judge every one of them as it does now. *)
THEOREM GuardReadsRawText ==
    ASSUME NEW host \in Host, Denotes(host)
    PROVE  findBlockedHostLabel(host) # NoLabel <=> Reserved(host) /\ ~ IsLeftWrapped(host)
<1>1. CASE host.kind = "v4"
  <2>1. host.parts \in Parts /\ Packs(host.parts) BY <1>1 DEF Host, Denotes
  <2>2. /\ parseIpv4(host.parts) # None /\ parseIpv4(host.parts) \in Address
        /\ parseIpv4(host.parts) = Joined(Packed(host.parts))
    BY <2>1, ParsesLikeInetAton
  <2>3. findBlockedHostLabel(host) = findBlockedIpv4Label(parseIpv4(host.parts))
    BY <1>1, <2>2 DEF findBlockedHostLabel
  <2> QED BY <1>1, <2>2, <2>3, GuardIsExact DEF Reserved, IsLeftWrapped
<1>2. CASE host.kind = "v6"
  <2>1. Expands(host) BY <1>2 DEF Denotes
  <2>2. Expanded(host) \in Groups BY <1>2, <2>1, ExpandedIsGroups
  <2>3. parseIpv6(host) = Expanded(host) /\ parseIpv6(host) # None
    BY <1>2, <2>1, ParsesLikeUrlStandard
  <2>4. findBlockedHostLabel(host) = findBlockedIpv6Label(Expanded(host))
    BY <1>2, <2>3 DEF findBlockedHostLabel
  <2> QED BY <1>2, <2>2, <2>4, GroupsGuardIsExact DEF Reserved, IsLeftWrapped
<1>3. CASE host.kind = "name" BY <1>3 DEF findBlockedHostLabel, Reserved
<1> QED BY <1>1, <1>2, <1>3 DEF Host

(* A URL is what its seven fields are. *)
Fields == {"protocol", "credentials", "host", "port", "path", "query", "fragment"}

HasFields(url) == DOMAIN url = Fields /\ url = [f \in Fields |-> url[f]]

LEMMA SameFieldsSameUrl ==
    ASSUME NEW u, NEW v, HasFields(u), HasFields(v),
           u.protocol = v.protocol, u.credentials = v.credentials, u.host = v.host,
           u.port = v.port, u.path = v.path, u.query = v.query, u.fragment = v.fragment
    PROVE  u = v
BY DEF HasFields, Fields

(* What normalize leaves of a URL: the hash is over these fields. *)
LEMMA HashFields ==
    ASSUME NEW raw \in Url
    PROVE  LET u == normalize(Parsed(raw))
           IN  /\ HasFields(u) /\ u.protocol = raw.protocol /\ u.host = Canonical(raw.host)
               /\ u.port = IF raw.port = DefaultPort(raw.protocol) THEN 0 ELSE raw.port
               /\ u.path = IF raw.path = "absent" THEN "root" ELSE raw.path
               /\ u.query = IF raw.query = "empty" THEN "absent" ELSE raw.query
               /\ u.fragment = "absent" /\ u.credentials = FALSE
<1> DEFINE parsed == Parsed(raw)
<1>1. DOMAIN parsed = Fields /\ parsed.protocol = raw.protocol /\ parsed.host = Canonical(raw.host)
  BY DEF Parsed, Url, Fields
<1>2. parsed.port = IF raw.port = DefaultPort(raw.protocol) THEN 0 ELSE raw.port
  BY DEF Parsed, Url
<1>3. parsed.path = IF raw.path = "absent" THEN "root" ELSE raw.path
  BY DEF Parsed, Url
<1>4. parsed.query = IF raw.query = "empty" THEN "absent" ELSE raw.query
  BY DEF Parsed, Url
<1> HIDE DEF parsed
<1>5. LET u == normalize(parsed)
      IN  /\ u.protocol = parsed.protocol /\ u.host = parsed.host /\ u.port = parsed.port
          /\ u.path = parsed.path /\ u.query = parsed.query
          /\ u.fragment = "absent" /\ u.credentials = FALSE
  BY ONLY <1>1 DEF normalize, Fields
<1>6. HasFields(normalize(Parsed(raw))) BY DEF HasFields, Fields, normalize, Parsed, Url
<1> QED BY <1>1, <1>2, <1>3, <1>4, <1>5, <1>6 DEF parsed

(* requestHash distinguishes what SameTarget does: buildRequestHash. *)
LEMMA HashIsTarget ==
    ASSUME NEW raw1 \in Url, NEW raw2 \in Url,
           CanParse(raw1), CanParse(raw2),
           raw1.protocol \in {"http", "https"}, raw2.protocol \in {"http", "https"}
    PROVE  normalize(parseUrl(raw1)) = normalize(parseUrl(raw2)) <=> SameTarget(raw1, raw2)
<1> DEFINE port(raw) == IF raw.port = DefaultPort(raw.protocol) THEN 0 ELSE raw.port
           path(raw) == IF raw.path = "absent" THEN "root" ELSE raw.path
           query(raw) == IF raw.query = "empty" THEN "absent" ELSE raw.query
           u == normalize(parseUrl(raw1))
           v == normalize(parseUrl(raw2))
<1>1. /\ HasFields(u) /\ u.protocol = raw1.protocol /\ u.host = Canonical(raw1.host)
      /\ u.port = port(raw1) /\ u.path = path(raw1) /\ u.query = query(raw1)
      /\ u.fragment = "absent" /\ u.credentials = FALSE
  BY HashFields DEF parseUrl
<1>2. /\ HasFields(v) /\ v.protocol = raw2.protocol /\ v.host = Canonical(raw2.host)
      /\ v.port = port(raw2) /\ v.path = path(raw2) /\ v.query = query(raw2)
      /\ v.fragment = "absent" /\ v.credentials = FALSE
  BY HashFields DEF parseUrl
<1>3. ASSUME raw1.protocol = raw2.protocol
      PROVE  port(raw1) = port(raw2) <=>
               (IF raw1.port = 0 THEN DefaultPort(raw1.protocol) ELSE raw1.port)
               = (IF raw2.port = 0 THEN DefaultPort(raw2.protocol) ELSE raw2.port)
  <2>1. DefaultPort(raw1.protocol) \in {80, 443} BY DEF DefaultPort
  <2> QED BY <1>3, <2>1
<1> HIDE DEF u, v, port
<1>4. u = v <=> /\ raw1.protocol = raw2.protocol /\ port(raw1) = port(raw2)
                /\ Canonical(raw1.host) = Canonical(raw2.host)
                /\ path(raw1) = path(raw2) /\ query(raw1) = query(raw2)
  BY ONLY <1>1, <1>2, SameFieldsSameUrl
<1>5. u = v <=> SameTarget(raw1, raw2) BY ONLY <1>3, <1>4 DEF SameTarget
<1> QED BY <1>5 DEF u, v

(* What is left of validateSubmittedUrl once the URL parses. *)
LEMMA ValidationOfParsed ==
    ASSUME NEW raw \in Url, CanParse(raw)
    PROVE  validateSubmittedUrl(raw) =
             IF raw.protocol \notin {"http", "https"} THEN "scheme"
             ELSE IF raw.credentials THEN "credentials"
             ELSE IF findBlockedHostLabel(Canonical(raw.host)) # NoLabel THEN "blocked"
             ELSE "valid"
<1> DEFINE parsed == Parsed(raw)
<1>1. /\ DOMAIN parsed = Fields /\ parsed.protocol = raw.protocol
      /\ parsed.credentials = raw.credentials /\ parsed.host = Canonical(raw.host)
  BY DEF Parsed, Url, Fields
<1> HIDE DEF parsed
<1>2. "host" \in DOMAIN parsed /\ DOMAIN None = {} BY <1>1 DEF Fields, None
<1>3. parsed # None BY <1>2
<1>4. parseUrl(raw) = parsed BY DEF parseUrl, parsed
<1> QED BY <1>1, <1>3, <1>4 DEF validateSubmittedUrl

LEMMA ValidParses ==
    ASSUME NEW raw \in Url, validateSubmittedUrl(raw) = "valid"
    PROVE  CanParse(raw) /\ raw.protocol \in {"http", "https"}
<1>1. CanParse(raw) BY DEF validateSubmittedUrl, parseUrl
<1> QED BY <1>1, ValidationOfParsed

-----------------------------------------------------------------------------
(* Requests.                                                                *)

(* Only an admitted request reaches the handler's submit, and an answer tells
   how far the request came. *)
AnswersByAdmission ==
    \A r \in Request :
        /\ pc[r] \in {"reading", "submitting"} => code[r] = 0
        /\ pc[r] = "submitting" => Admitted(r)
        /\ code[r] \in {200, 201, 409, 500} /\ input[r].path = "scans" => Admitted(r)
        /\ code[r] = 400 /\ input[r].body = "ok" => validateSubmittedUrl(input[r].url) # "valid"

StoredByOne ==
    \A s \in stored :
        /\ Admitted(s[1]) /\ s[2] \in clientIds(s[1])
        /\ pc[s[1]] = "answered"
        /\ (code[s[1]] = 201 /\ named[s[1]] = s[1]) \/ code[s[1]] = 500

(* The scans that a client has stored under one idempotency key are one. *)
OnePerKey ==
    \A s, u \in stored :
        /\ input[s[1]].idempotencyKey # NoKey
        /\ input[s[1]].idempotencyKey = input[u[1]].idempotencyKey
        /\ s[2] = u[2]
        => s = u

(* An answer of submit is justified by a stored scan. *)
Created(r) == \E c \in clientIds(r) : <<r, c>> \in stored /\ named[r] = r

Recalled(r) ==
    \E s \in Earlier(r) :
        /\ code[r] = IF requestHash(s[1]) = requestHash(r) THEN 200 ELSE 409
        /\ code[r] = 200 => named[r] = s[1]

AnswersByStored ==
    \A r \in Request :
        /\ code[r] = 201 => Created(r)
        /\ code[r] \in {200, 409} /\ input[r].path = "scans" => Recalled(r)

IInv == TypeOK /\ AnswersByAdmission /\ StoredByOne /\ OnePerKey /\ AnswersByStored

(* A key has at most one client, that of its last entry. *)
LEMMA ClientOfKey ==
    ASSUME NEW r, NEW c \in clientIds(r)
    PROVE  /\ c \in Client
           /\ \E i \in DOMAIN API_KEYS :
                 /\ API_KEYS[i] = <<c, input[r].apiKey>>
                 /\ \A j \in i + 1 .. Len(API_KEYS) : API_KEYS[j][2] # input[r].apiKey
<1>1. PICK i \in EntryFor(input[r].apiKey) : c = API_KEYS[i][1] BY DEF clientIds
<1>2. /\ i \in DOMAIN API_KEYS /\ API_KEYS[i][2] = input[r].apiKey
      /\ \A j \in DOMAIN API_KEYS : API_KEYS[j][2] = input[r].apiKey => j <= i
  BY <1>1 DEF EntryFor
<1>3. DOMAIN API_KEYS = 1 .. Len(API_KEYS) /\ Len(API_KEYS) \in Nat BY KeysAssumption
<1>4. API_KEYS[i] \in Client \X STRING BY <1>2, <1>3, KeysAssumption
<1>5. API_KEYS[i] = <<c, input[r].apiKey>> BY <1>1, <1>2, <1>4
<1>6. ASSUME NEW j \in i + 1 .. Len(API_KEYS) PROVE API_KEYS[j][2] # input[r].apiKey
  <2>1. i \in 1 .. Len(API_KEYS) BY <1>2, <1>3
  <2>2. j \in DOMAIN API_KEYS /\ ~ (j <= i) BY <1>3, <2>1
  <2> QED BY <1>2, <2>2
<1> QED BY <1>1, <1>2, <1>4, <1>5, <1>6

LEMMA OneClient ==
    ASSUME NEW r, NEW c \in clientIds(r), NEW d \in clientIds(r)
    PROVE  c = d
<1>1. PICK i \in EntryFor(input[r].apiKey) : c = API_KEYS[i][1] BY DEF clientIds
<1>2. PICK j \in EntryFor(input[r].apiKey) : d = API_KEYS[j][1] BY DEF clientIds
<1>3. i \in DOMAIN API_KEYS /\ j \in DOMAIN API_KEYS /\ i <= j /\ j <= i
  BY <1>1, <1>2 DEF EntryFor
<1>4. DOMAIN API_KEYS = 1 .. Len(API_KEYS) /\ Len(API_KEYS) \in Nat BY KeysAssumption
<1>5. i = j BY <1>3, <1>4
<1> QED BY <1>1, <1>2, <1>5

(* What is asked for does not change while it is answered. *)
LEMMA InputFixed ==
    ASSUME input' = input
    PROVE  \A r : /\ clientIds(r)' = clientIds(r)
                  /\ Admitted(r)' <=> Admitted(r)
                  /\ requestHash(r)' = requestHash(r)
BY DEF clientIds, Admitted, requestHash

LEMMA EarlierGrows ==
    ASSUME input' = input, stored \subseteq stored'
    PROVE  \A r : Earlier(r) \subseteq Earlier(r)'
BY InputFixed DEF Earlier

LEMMA InitIInv == Init => IInv
BY DEF Init, IInv, TypeOK, AnswersByAdmission, StoredByOne, OnePerKey, AnswersByStored

(* An answer that does not come from submit. *)
LEMMA AnswerKeepsIInv ==
    ASSUME IInv, NEW r \in Request, NEW status \in {200, 400, 401, 404, 413, 503},
           Reading(r), Answer(r, status),
           status = 200 => input[r].path # "scans",
           status = 400 /\ input[r].body = "ok" => validateSubmittedUrl(input[r].url) # "valid"
    PROVE  IInv'
<1>1. input' = input /\ named' = named /\ stored' = stored BY DEF Answer
<1>2. TypeOK' BY DEF IInv, TypeOK, Answer
<1>3. pc' = [pc EXCEPT ![r] = "answered"] /\ code' = [code EXCEPT ![r] = status] BY DEF Answer
<1>4. pc[r] = "reading" /\ code[r] = 0 BY DEF Reading, IInv, AnswersByAdmission
<1>5. /\ \A q \in Request \ {r} : pc'[q] = pc[q] /\ code'[q] = code[q]
      /\ pc'[r] = "answered" /\ code'[r] = status
  BY <1>3 DEF IInv, TypeOK
<1>6. AnswersByAdmission' BY <1>1, <1>5, InputFixed DEF IInv, AnswersByAdmission
<1>7. StoredByOne'
  <2>1. \A s \in stored : s[1] \in Request \ {r} BY <1>4 DEF IInv, StoredByOne, TypeOK
  <2> QED BY <1>1, <1>5, <2>1, InputFixed DEF IInv, StoredByOne
<1>8. OnePerKey' BY <1>1 DEF IInv, OnePerKey
<1>9. AnswersByStored'
  <2>1. ASSUME NEW q \in Request, code'[q] = 201
        PROVE  Created(q)'
    <3>1. q # r /\ Created(q) BY <1>5, <2>1 DEF IInv, AnswersByStored
    <3> QED BY <1>1, <3>1, InputFixed DEF Created
  <2>2. ASSUME NEW q \in Request, code'[q] \in {200, 409}, input'[q].path = "scans"
        PROVE  Recalled(q)'
    <3>1. q # r /\ Recalled(q) BY <1>1, <1>5, <2>2 DEF IInv, AnswersByStored
    <3> QED BY <1>1, <1>5, <3>1, InputFixed, EarlierGrows DEF Recalled
  <2> QED BY <2>1, <2>2 DEF AnswersByStored
<1> QED BY <1>2, <1>6, <1>7, <1>8, <1>9 DEF IInv

LEMMA CallSubmitKeepsIInv ==
    ASSUME IInv, NEW r \in Request, CallSubmit(r)
    PROVE  IInv'
<1>1. input' = input /\ named' = named /\ stored' = stored /\ code' = code BY DEF CallSubmit
<1>2. TypeOK' BY DEF IInv, TypeOK, CallSubmit
<1>3. pc[r] = "reading" BY DEF CallSubmit, IsAuthenticated, AtScans, Readable, Reading
<1>4. pc'[r] = "submitting" /\ \A q \in Request \ {r} : pc'[q] = pc[q]
  BY DEF CallSubmit, IInv, TypeOK
<1>5. Admitted(r) BY DEF CallSubmit, IsAuthenticated, AtScans, Admitted
<1>6. AnswersByAdmission'
  BY <1>1, <1>3, <1>4, <1>5, InputFixed DEF IInv, AnswersByAdmission
<1>7. StoredByOne'
  <2>1. \A s \in stored : s[1] \in Request \ {r} BY <1>3 DEF IInv, StoredByOne, TypeOK
  <2> QED BY <1>1, <1>4, <2>1, InputFixed DEF IInv, StoredByOne
<1>8. OnePerKey' BY <1>1 DEF IInv, OnePerKey
<1>9. AnswersByStored'
  <2>1. \A q : Created(q) => Created(q)' BY <1>1, InputFixed DEF Created
  <2>2. \A q : Recalled(q) => Recalled(q)' BY <1>1, InputFixed, EarlierGrows DEF Recalled
  <2> QED BY <1>1, <2>1, <2>2 DEF IInv, AnswersByStored
<1> QED BY <1>2, <1>6, <1>7, <1>8, <1>9 DEF IInv

(* What a new row leaves true: no earlier one has its client and key. *)
LEMMA StoreKeepsOnePerKey ==
    ASSUME IInv, NEW r \in Request, Store(r), input' = input
    PROVE  OnePerKey' /\ stored' \in SUBSET (Request \X Client)
<1>1. PICK c \in clientIds(r) : stored' = stored \cup {<<r, c>>} BY DEF Store
<1>2. c \in Client BY ClientOfKey
<1>3. stored' \in SUBSET (Request \X Client) BY <1>1, <1>2 DEF IInv, TypeOK
<1>4. ASSUME NEW s \in stored, input[s[1]].idempotencyKey # NoKey,
             input[s[1]].idempotencyKey = input[r].idempotencyKey, s[2] = c
      PROVE  FALSE
  <2>1. s \in Earlier(r) BY <1>4 DEF Earlier
  <2> QED BY <2>1 DEF Store
<1>5. ASSUME NEW s \in stored', NEW u \in stored',
             input[s[1]].idempotencyKey # NoKey,
             input[s[1]].idempotencyKey = input[u[1]].idempotencyKey, s[2] = u[2]
      PROVE  s = u
  <2>1. CASE s \in stored /\ u \in stored BY <1>5, <2>1 DEF IInv, OnePerKey
  <2>2. CASE s \in stored /\ u = <<r, c>> BY <1>4, <1>5, <2>2
  <2>3. CASE s = <<r, c>> /\ u \in stored BY <1>4, <1>5, <2>3
  <2>4. CASE s = <<r, c>> /\ u = <<r, c>> BY <2>4
  <2> QED BY <1>1, <2>1, <2>2, <2>3, <2>4
<1>6. OnePerKey' BY <1>5 DEF OnePerKey
<1> QED BY <1>3, <1>6

LEMMA SubmitKeepsIInv ==
    ASSUME IInv, NEW r \in Request, Submit(r)
    PROVE  IInv'
<1>1. input' = input /\ pc[r] = "submitting" BY DEF Submit
<1>2. pc'[r] = "answered" /\ \A q \in Request \ {r} : pc'[q] = pc[q] BY DEF Submit, IInv, TypeOK
<1>3. code[r] = 0 /\ Admitted(r) BY <1>1 DEF IInv, AnswersByAdmission
<1>4. \A s \in stored : s[1] \in Request \ {r} BY <1>1 DEF IInv, StoredByOne, TypeOK
<1>5. CASE Store(r) /\ code' = [code EXCEPT ![r] = 201] /\ named' = [named EXCEPT ![r] = r]
  <2>1. PICK c \in clientIds(r) : stored' = stored \cup {<<r, c>>} BY <1>5 DEF Store
  <2>2. /\ code'[r] = 201 /\ named'[r] = r
        /\ \A q \in Request \ {r} : code'[q] = code[q] /\ named'[q] = named[q]
    BY <1>5 DEF IInv, TypeOK
  <2>3. TypeOK' BY <1>1, <1>5, StoreKeepsOnePerKey DEF IInv, TypeOK, Submit
  <2>4. AnswersByAdmission'
    BY <1>1, <1>2, <1>3, <2>2, InputFixed DEF IInv, AnswersByAdmission
  <2>5. StoredByOne'
    BY <1>1, <1>2, <1>3, <1>4, <2>1, <2>2, InputFixed DEF IInv, StoredByOne
  <2>6. OnePerKey' BY <1>1, <1>5, StoreKeepsOnePerKey
  <2>7. AnswersByStored'
    <3>1. ASSUME NEW q \in Request, code'[q] = 201
          PROVE  Created(q)'
      <4>1. CASE q = r BY <1>1, <2>1, <2>2, <4>1, InputFixed DEF Created
      <4>2. CASE q # r
        <5>1. Created(q) BY <2>2, <3>1, <4>2 DEF IInv, AnswersByStored
        <5> QED BY <1>1, <2>1, <2>2, <4>2, <5>1, InputFixed DEF Created
      <4> QED BY <4>1, <4>2
    <3>2. ASSUME NEW q \in Request, code'[q] \in {200, 409}, input'[q].path = "scans"
          PROVE  Recalled(q)'
      <4>1. q # r /\ Recalled(q) BY <1>1, <2>2, <3>2 DEF IInv, AnswersByStored
      <4>2. Earlier(q) \subseteq Earlier(q)' BY <1>1, <2>1, EarlierGrows
      <4> QED BY <1>1, <2>2, <4>1, <4>2, InputFixed DEF Recalled
    <3> QED BY <3>1, <3>2 DEF AnswersByStored
  <2> QED BY <2>3, <2>4, <2>5, <2>6, <2>7 DEF IInv
<1>6. CASE \E s \in Earlier(r) :
             /\ code' = [code EXCEPT ![r] = IF requestHash(s[1]) = requestHash(r) THEN 200 ELSE 409]
             /\ named' = [named EXCEPT ![r] = IF requestHash(s[1]) = requestHash(r) THEN s[1] ELSE NoKey]
             /\ UNCHANGED stored
  <2>1. PICK s \in Earlier(r) :
             /\ code' = [code EXCEPT ![r] = IF requestHash(s[1]) = requestHash(r) THEN 200 ELSE 409]
             /\ named' = [named EXCEPT ![r] = IF requestHash(s[1]) = requestHash(r) THEN s[1] ELSE NoKey]
             /\ UNCHANGED stored
    BY <1>6
  <2>2. /\ code'[r] = IF requestHash(s[1]) = requestHash(r) THEN 200 ELSE 409
        /\ code'[r] = 200 => named'[r] = s[1]
        /\ \A q \in Request \ {r} : code'[q] = code[q] /\ named'[q] = named[q]
    BY <2>1 DEF IInv, TypeOK
  <2>3. s \in stored /\ s[1] \in Request BY <1>4 DEF Earlier
  <2>4. TypeOK' BY <1>1, <2>1, <2>3 DEF IInv, TypeOK, Submit
  <2>5. AnswersByAdmission'
    BY <1>1, <1>2, <1>3, <2>2, InputFixed DEF IInv, AnswersByAdmission
  <2>6. StoredByOne' BY <1>1, <1>2, <1>4, <2>1, <2>2, InputFixed DEF IInv, StoredByOne
  <2>7. OnePerKey' BY <1>1, <2>1 DEF IInv, OnePerKey
  <2>8. AnswersByStored'
    <3>1. \A q : Earlier(q) \subseteq Earlier(q)' BY <1>1, <2>1, EarlierGrows
    <3>2. ASSUME NEW q \in Request, code'[q] = 201
          PROVE  Created(q)'
      <4>1. q # r /\ Created(q) BY <2>2, <3>2 DEF IInv, AnswersByStored
      <4> QED BY <1>1, <2>1, <2>2, <4>1, InputFixed DEF Created
    <3>3. ASSUME NEW q \in Request, code'[q] \in {200, 409}, input'[q].path = "scans"
          PROVE  Recalled(q)'
      <4>1. CASE q = r BY <1>1, <2>1, <2>2, <3>1, <4>1, InputFixed DEF Recalled
      <4>2. CASE q # r
        <5>1. Recalled(q) BY <1>1, <2>2, <3>3, <4>2 DEF IInv, AnswersByStored
        <5> QED BY <1>1, <2>2, <3>1, <4>2, <5>1, InputFixed DEF Recalled
      <4> QED BY <4>1, <4>2
    <3> QED BY <3>2, <3>3 DEF AnswersByStored
  <2> QED BY <2>4, <2>5, <2>6, <2>7, <2>8 DEF IInv
<1> QED BY <1>5, <1>6 DEF Submit

LEMMA SubmitFailsKeepsIInv ==
    ASSUME IInv, NEW r \in Request, SubmitFails(r)
    PROVE  IInv'
<1>1. input' = input /\ named' = named /\ pc[r] = "submitting" BY DEF SubmitFails
<1>2. /\ pc'[r] = "answered" /\ code'[r] = 500
      /\ \A q \in Request \ {r} : pc'[q] = pc[q] /\ code'[q] = code[q]
  BY DEF SubmitFails, IInv, TypeOK
<1>3. code[r] = 0 /\ Admitted(r) BY <1>1 DEF IInv, AnswersByAdmission
<1>4. \A s \in stored : s[1] \in Request \ {r} BY <1>1 DEF IInv, StoredByOne, TypeOK
<1>5. OnePerKey' /\ stored' \in SUBSET (Request \X Client)
  <2>1. CASE Store(r) BY <1>1, <2>1, StoreKeepsOnePerKey
  <2>2. CASE UNCHANGED stored BY <1>1, <2>2 DEF IInv, TypeOK, OnePerKey
  <2> QED BY <2>1, <2>2 DEF SubmitFails
<1>6. /\ stored \subseteq stored'
      /\ \A s \in stored' \ stored : s[1] = r /\ s[2] \in clientIds(r)
  BY DEF SubmitFails, Store
<1>7. TypeOK' BY <1>1, <1>5 DEF IInv, TypeOK, SubmitFails
<1>8. AnswersByAdmission' BY <1>1, <1>2, <1>3, InputFixed DEF IInv, AnswersByAdmission
<1>9. StoredByOne'
  BY <1>1, <1>2, <1>3, <1>4, <1>6, InputFixed DEF IInv, StoredByOne
<1>10. AnswersByStored'
  <2>1. ASSUME NEW q \in Request, code'[q] = 201
        PROVE  Created(q)'
    <3>1. q # r /\ Created(q) BY <1>2, <2>1 DEF IInv, AnswersByStored
    <3> QED BY <1>1, <1>6, <3>1, InputFixed DEF Created
  <2>2. ASSUME NEW q \in Request, code'[q] \in {200, 409}, input'[q].path = "scans"
        PROVE  Recalled(q)'
    <3>1. q # r /\ Recalled(q) BY <1>1, <1>2, <2>2 DEF IInv, AnswersByStored
    <3> QED BY <1>1, <1>2, <1>6, <3>1, InputFixed, EarlierGrows DEF Recalled
  <2> QED BY <2>1, <2>2 DEF AnswersByStored
<1> QED BY <1>5, <1>7, <1>8, <1>9, <1>10 DEF IInv

LEMMA NextIInv == IInv /\ [Next]_vars => IInv'
<1> SUFFICES ASSUME IInv, [Next]_vars PROVE IInv' OBVIOUS
<1>1. ASSUME NEW r \in Request, RejectBody(r) PROVE IInv'
  BY <1>1, AnswerKeepsIInv DEF RejectBody
<1>2. ASSUME NEW r \in Request, AnswerHealth(r) PROVE IInv'
  BY <1>2, AnswerKeepsIInv DEF AnswerHealth, Readable
<1>3. ASSUME NEW r \in Request, AnswerNotFound(r) PROVE IInv'
  BY <1>3, AnswerKeepsIInv DEF AnswerNotFound, Readable
<1>4. ASSUME NEW r \in Request, RejectKey(r) PROVE IInv'
  BY <1>4, AnswerKeepsIInv DEF RejectKey, AtScans, Readable
<1>5. ASSUME NEW r \in Request, RejectTarget(r) PROVE IInv'
  <2>1. Reading(r) /\ Answer(r, 400) BY <1>5 DEF RejectTarget, IsAuthenticated, AtScans, Readable
  <2>2. input[r].body = "ok" => validateSubmittedUrl(input[r].url) # "valid"
    BY <1>5 DEF RejectTarget
  <2> QED BY <2>1, <2>2, AnswerKeepsIInv
<1>6. ASSUME NEW r \in Request, CallSubmit(r) PROVE IInv' BY <1>6, CallSubmitKeepsIInv
<1>7. ASSUME NEW r \in Request, Submit(r) PROVE IInv' BY <1>7, SubmitKeepsIInv
<1>8. ASSUME NEW r \in Request, SubmitFails(r) PROVE IInv' BY <1>8, SubmitFailsKeepsIInv
<1>9. CASE UNCHANGED vars
  <2>1. input' = input /\ pc' = pc /\ code' = code /\ named' = named /\ stored' = stored
    BY <1>9 DEF vars
  <2>2. \A q : Created(q) => Created(q)' BY <2>1, InputFixed DEF Created
  <2>3. \A q : Recalled(q) => Recalled(q)' BY <2>1, InputFixed, EarlierGrows DEF Recalled
  <2>4. AnswersByStored' BY <2>1, <2>2, <2>3 DEF IInv, AnswersByStored
  <2>5. TypeOK' /\ OnePerKey' BY <2>1 DEF IInv, TypeOK, OnePerKey
  <2>6. AnswersByAdmission' BY <2>1, InputFixed DEF IInv, AnswersByAdmission
  <2>7. StoredByOne' BY <2>1, InputFixed DEF IInv, StoredByOne
  <2> QED BY <2>4, <2>5, <2>6, <2>7 DEF IInv
<1> QED BY <1>1, <1>2, <1>3, <1>4, <1>5, <1>6, <1>7, <1>8, <1>9 DEF Next

LEMMA Invariant == Spec => []IInv
BY InitIInv, NextIInv, PTL DEF Spec

(* Every state is typed. *)
THEOREM TypeCorrect == Spec => []TypeOK
<1>1. IInv => TypeOK BY DEF IInv
<1> QED BY <1>1, Invariant, PTL

(* A scan row is attributed to the client of the last entry of the key, and
   stands for a request that authenticate, validateBody and the handler let
   through. *)
THEOREM OnlyAdmittedStored == Spec => []StoredIsAdmitted
<1>1. ASSUME IInv PROVE StoredIsAdmitted
  <2> SUFFICES ASSUME NEW s \in stored
               PROVE  /\ \E i \in DOMAIN API_KEYS :
                            /\ API_KEYS[i] = <<s[2], input[s[1]].apiKey>>
                            /\ \A j \in i + 1 .. Len(API_KEYS) : API_KEYS[j][2] # input[s[1]].apiKey
                      /\ input[s[1]].path = "scans" /\ input[s[1]].method = "POST"
                      /\ input[s[1]].body = "ok"
                      /\ (code[s[1]] = 201 /\ named[s[1]] = s[1]) \/ code[s[1]] = 500
    BY DEF StoredIsAdmitted
  <2>1. Admitted(s[1]) /\ s[2] \in clientIds(s[1]) BY <1>1 DEF IInv, StoredByOne
  <2>2. (code[s[1]] = 201 /\ named[s[1]] = s[1]) \/ code[s[1]] = 500 BY <1>1 DEF IInv, StoredByOne
  <2> QED BY <2>1, <2>2, ClientOfKey DEF Admitted
<1> QED BY <1>1, Invariant, PTL

(* Of the authenticated submissions, those of a reserved address do not reach
   submit unless findBlockedIpv6Label leaves the address wrapped, and no other
   is refused for its host. *)
THEOREM RefusalsExact == Spec => []RefusedExactly
<1>1. ASSUME IInv PROVE RefusedExactly
  <2> SUFFICES ASSUME NEW r \in Request, pc[r] = "answered", input[r].path = "scans",
                      input[r].method = "POST", input[r].body = "ok", CanParse(input[r].url)
               PROVE  LET url == input[r].url
                      IN  /\ code[r] \in {200, 201, 409, 500} =>
                                ~ Reserved(url.host) \/ IsLeftWrapped(url.host)
                          /\ code[r] = 400 /\ url.protocol \in {"http", "https"} /\ ~ url.credentials
                                => Reserved(url.host)
    BY DEF RefusedExactly
  <2> DEFINE url == input[r].url
  <2>1. url \in Url BY <1>1, InputAssumption DEF IInv, TypeOK
  <2>2. url.host \in Host BY <2>1 DEF Url
  <2>3. Denotes(url.host) BY DEF CanParse, Denotes
  <2>4. findBlockedHostLabel(Canonical(url.host)) # NoLabel
          <=> Reserved(url.host) /\ ~ IsLeftWrapped(url.host)
    BY <2>2, <2>3, HostGuardIsExact
  <2>5. code[r] \in {200, 201, 409, 500} => validateSubmittedUrl(url) = "valid"
    BY <1>1 DEF IInv, AnswersByAdmission, Admitted
  <2>6. code[r] = 400 => validateSubmittedUrl(url) # "valid"
    BY <1>1 DEF IInv, AnswersByAdmission
  <2>7. CanParse(url) OBVIOUS
  <2> HIDE DEF url
  <2>8. validateSubmittedUrl(url) =
          IF url.protocol \notin {"http", "https"} THEN "scheme"
          ELSE IF url.credentials THEN "credentials"
          ELSE IF findBlockedHostLabel(Canonical(url.host)) # NoLabel THEN "blocked"
          ELSE "valid"
    BY <2>1, <2>7, ValidationOfParsed
  <2>9. /\ code[r] \in {200, 201, 409, 500} => ~ Reserved(url.host) \/ IsLeftWrapped(url.host)
        /\ code[r] = 400 /\ url.protocol \in {"http", "https"} /\ ~ url.credentials
              => Reserved(url.host)
    BY ONLY <2>4, <2>5, <2>6, <2>8
  <2> QED BY <2>9 DEF url
<1> QED BY <1>1, Invariant, PTL

(* A retry is the same request exactly when it asks for the same target:
   buildRequestHash and the comparison in submit. *)
THEOREM RetriesKnown == Spec => []RetriesRecognised
<1>1. ASSUME IInv PROVE RetriesRecognised
  <2> SUFFICES ASSUME NEW s \in stored, NEW r \in Request,
                      input[r].idempotencyKey # NoKey,
                      input[r].idempotencyKey = input[s[1]].idempotencyKey,
                      input[r].path = "scans", code[r] \in {200, 201, 409},
                      input[r].apiKey = input[s[1]].apiKey
               PROVE  IF SameTarget(input[r].url, input[s[1]].url)
                      THEN named[r] = s[1] /\ code[r] = IF r = s[1] THEN 201 ELSE 200
                      ELSE code[r] = 409
    BY DEF RetriesRecognised
  <2>1. clientIds(r) = clientIds(s[1]) BY DEF clientIds
  <2>2. s[2] \in clientIds(r) /\ Admitted(s[1]) /\ s[1] \in Request
    BY <1>1, <2>1 DEF IInv, StoredByOne, TypeOK
  <2>3. CASE code[r] = 201
    <3>1. PICK c \in clientIds(r) : <<r, c>> \in stored /\ named[r] = r
      BY <1>1, <2>3 DEF IInv, AnswersByStored, Created
    <3>2. c = s[2] BY <2>2, <3>1, OneClient
    <3>3. s = <<r, c>> BY <1>1, <3>1, <3>2 DEF IInv, OnePerKey
    <3>4. s[1] = r BY <3>3
    <3>5. SameTarget(input[r].url, input[r].url) BY DEF SameTarget
    <3> QED BY <2>3, <3>1, <3>4, <3>5
  <2>4. CASE code[r] \in {200, 409}
    <3>1. PICK t \in Earlier(r) :
             /\ code[r] = IF requestHash(t[1]) = requestHash(r) THEN 200 ELSE 409
             /\ code[r] = 200 => named[r] = t[1]
      BY <1>1, <2>4 DEF IInv, AnswersByStored, Recalled
    <3>2. /\ t \in stored /\ t[2] \in clientIds(r)
          /\ input[t[1]].idempotencyKey = input[r].idempotencyKey
      BY <3>1 DEF Earlier
    <3>3. t[2] = s[2] BY <2>2, <3>2, OneClient
    <3>4. t = s BY <1>1, <3>2, <3>3 DEF IInv, OnePerKey
    <3>5. Admitted(r) BY <1>1, <2>4 DEF IInv, AnswersByAdmission
    <3>6. ASSUME NEW q \in Request, Admitted(q)
          PROVE  /\ input[q].url \in Url /\ input[q].url.protocol \in {"http", "https"}
                 /\ CanParse(input[q].url)
      <4>1. validateSubmittedUrl(input[q].url) = "valid" BY <3>6 DEF Admitted
      <4>2. input[q].url \in Url BY <1>1, InputAssumption DEF IInv, TypeOK
      <4> QED BY <4>1, <4>2, ValidParses
    <3>7. requestHash(s[1]) = requestHash(r) <=> SameTarget(input[r].url, input[s[1]].url)
      <4>1. requestHash(r) = requestHash(s[1]) <=> SameTarget(input[r].url, input[s[1]].url)
        BY <2>2, <3>5, <3>6, HashIsTarget DEF requestHash
      <4> QED BY <4>1
    <3>8. code[r] = 200 => r # s[1] BY <1>1 DEF IInv, StoredByOne
    <3> QED BY <3>1, <3>4, <3>7, <3>8
  <2> QED BY <2>3, <2>4
<1> QED BY <1>1, Invariant, PTL

-----------------------------------------------------------------------------
(* The API as a whole keeps submit's promise.                               *)

(* Until it is answered a request names no scan. *)
NamedByAnswer == \A r \in Request : pc[r] # "answered" => named[r] = NoKey

(* The abstract state. *)
Asked == [r \in Request |-> IF Asks(r) THEN Ask(r) ELSE NoAsk]

Accepted == {s[1] : s \in stored}

Told == [r \in Request |-> IF Asks(r) THEN Meaning(code[r]) ELSE "none"]

LEMMA NamedHolds == Spec => []NamedByAnswer
<1>1. Init => NamedByAnswer BY DEF Init, NamedByAnswer
<1>2. ASSUME TypeOK, NamedByAnswer, [Next]_vars PROVE NamedByAnswer'
  <2> USE <1>2 DEF TypeOK, NamedByAnswer
  <2>1. ASSUME NEW r \in Request, NEW status, Answer(r, status) PROVE NamedByAnswer'
    BY <2>1 DEF Answer
  <2>2. ASSUME NEW r \in Request, CallSubmit(r) PROVE NamedByAnswer'
    BY <2>2 DEF CallSubmit, IsAuthenticated, AtScans, Readable, Reading
  <2>3. ASSUME NEW r \in Request, Submit(r) PROVE NamedByAnswer'
    BY <2>3 DEF Submit
  <2>4. ASSUME NEW r \in Request, SubmitFails(r) PROVE NamedByAnswer'
    BY <2>4 DEF SubmitFails
  <2>5. CASE UNCHANGED vars BY <2>5 DEF vars
  <2> QED
    BY <2>1, <2>2, <2>3, <2>4, <2>5
       DEF Next, RejectBody, AnswerHealth, AnswerNotFound, RejectKey, RejectTarget
<1> QED BY <1>1, <1>2, TypeCorrect, PTL DEF Spec

(* An admitted request asks for one client, the one its scan is stored for. *)
LEMMA AskIs ==
    ASSUME IInv, NEW r \in Request, Admitted(r)
    PROVE  /\ Ask(r).client \in clientIds(r) /\ Ask(r) \in Promise!Ask /\ Ask(r) # NoAsk
           /\ Ask(r).key = input[r].idempotencyKey /\ Ask(r).hash = requestHash(r)
<1>1. Ask(r).client \in clientIds(r) BY DEF Ask, Admitted
<1>2. Ask(r).client \in Client /\ Ask(r).client # NoKey BY <1>1, ClientOfKey, NoKeyAssumption
<1>3. input[r] \in Input /\ validateSubmittedUrl(input[r].url) = "valid"
  BY DEF IInv, TypeOK, Admitted
<1>4. Ask(r).key = input[r].idempotencyKey /\ Ask(r).hash = requestHash(r) BY DEF Ask
<1>5. Ask(r).key \in AskedKeys BY <1>3, <1>4 DEF AskedKeys
<1>6. Ask(r).hash \in AskedHashes BY <1>3, <1>4 DEF AskedHashes, requestHash
<1>7. Ask(r) \in Promise!Ask BY <1>2, <1>5, <1>6 DEF Ask, Promise!Ask
<1>8. Ask(r) # NoAsk BY <1>2 DEF NoAsk
<1> QED BY <1>1, <1>4, <1>7, <1>8

LEMMA AskFixed ==
    ASSUME input' = input
    PROVE  \A r : Ask(r)' = Ask(r)
BY DEF Ask, clientIds, requestHash

(* The abstract specification's rivals of r are the rows that submit finds. *)
LEMMA RivalsAreEarlier ==
    ASSUME IInv, NEW r \in Request, Asks(r)
    PROVE  \A e \in Accepted :
              /\ e \in Request /\ Asks(e)
              /\ Promise!SameKey(e, r) <=> \E s \in Earlier(r) : s[1] = e
              /\ Promise!SameBody(e, r) <=> requestHash(e) = requestHash(r)
<1> SUFFICES ASSUME NEW s \in stored
             PROVE  /\ s[1] \in Request /\ Asks(s[1])
                    /\ Promise!SameKey(s[1], r) <=> \E t \in Earlier(r) : t[1] = s[1]
                    /\ Promise!SameBody(s[1], r) <=> requestHash(s[1]) = requestHash(r)
  BY DEF Accepted
<1> DEFINE e == s[1]
<1>1. e \in Request /\ Admitted(e) /\ s[2] \in clientIds(e) /\ Asks(e)
  BY DEF IInv, TypeOK, StoredByOne, Asks
<1>2. Asked[e] = Ask(e) /\ Asked[r] = Ask(r) BY <1>1 DEF Asked
<1>3. Admitted(r) BY DEF Asks
<1>4. s[2] = Ask(e).client BY <1>1, AskIs, OneClient
<1>5. \A t \in stored : t[1] = e => t[2] \in clientIds(e) BY DEF IInv, StoredByOne
<1>6. Ask(r).client \in clientIds(r) /\ Ask(r).key = input[r].idempotencyKey
      /\ Ask(r).hash = requestHash(r)
  BY <1>3, AskIs
<1>7. Ask(e).client \in clientIds(e) /\ Ask(e).key = input[e].idempotencyKey
      /\ Ask(e).hash = requestHash(e)
  BY <1>1, AskIs
<1> HIDE DEF e
<1>8. Promise!SameKey(e, r) <=> /\ Ask(e).key # NoKey
                                /\ Ask(e).key = Ask(r).key
                                /\ Ask(e).client = Ask(r).client
  BY <1>2 DEF Promise!SameKey, Asked
<1>9. Promise!SameBody(e, r) <=> Ask(e).hash = Ask(r).hash
  BY <1>2 DEF Promise!SameBody, Asked
<1>10. ASSUME Promise!SameKey(e, r) PROVE s \in Earlier(r)
  BY <1>4, <1>6, <1>7, <1>8, <1>10 DEF Earlier, e
<1>11. ASSUME NEW t \in Earlier(r), t[1] = e PROVE Promise!SameKey(e, r)
  <2>1. /\ t \in stored /\ t[2] \in clientIds(r)
        /\ input[r].idempotencyKey # NoKey /\ input[e].idempotencyKey = input[r].idempotencyKey
    BY <1>11 DEF Earlier
  <2>2. t[2] = Ask(e).client BY <1>5, <1>7, <1>11, <2>1, OneClient
  <2>3. t[2] = Ask(r).client BY <1>6, <2>1, OneClient
  <2> QED BY <1>6, <1>7, <1>8, <2>1, <2>2, <2>3
<1> QED BY <1>1, <1>6, <1>7, <1>9, <1>10, <1>11 DEF e

(* What a step of r changes of the abstract state, at r only. *)
LEMMA AbstractStep ==
    ASSUME IInv, NEW r \in Request, input' = input,
           \A q \in Request \ {r} : pc'[q] = pc[q] /\ code'[q] = code[q],
           NEW ask, NEW kind,
           (IF Asks(r) THEN Ask(r) ELSE NoAsk)' = ask,
           (IF Asks(r) THEN Meaning(code[r]) ELSE "none")' = kind
    PROVE  Asked' = [Asked EXCEPT ![r] = ask] /\ Told' = [Told EXCEPT ![r] = kind]
<1>1. \A q \in Request \ {r} : /\ (Asks(q)' <=> Asks(q)) /\ Ask(q)' = Ask(q)
                              /\ Meaning(code'[q]) = Meaning(code[q])
  BY InputFixed, AskFixed DEF Asks
<1>2. \A q \in Request \ {r} :
         /\ (IF Asks(q) THEN Ask(q) ELSE NoAsk)' = IF Asks(q) THEN Ask(q) ELSE NoAsk
         /\ (IF Asks(q) THEN Meaning(code[q]) ELSE "none")' = IF Asks(q) THEN Meaning(code[q]) ELSE "none"
  BY <1>1 DEF NoAsk, Meaning
<1>3. Asked' = [q \in Request |-> (IF Asks(q) THEN Ask(q) ELSE NoAsk)'] BY DEF Asked
<1>4. Told' = [q \in Request |-> (IF Asks(q) THEN Meaning(code[q]) ELSE "none")'] BY DEF Told
<1>5. Asked' = [Asked EXCEPT ![r] = ask] BY <1>2, <1>3 DEF Asked
<1>6. Told' = [Told EXCEPT ![r] = kind] BY <1>2, <1>4 DEF Told
<1> QED BY <1>5, <1>6

(* A request that is answered before submit asks for nothing. *)
LEMMA RefusedUnasked ==
    ASSUME IInv, NEW r \in Request, NEW status, Reading(r), Answer(r, status), ~ Admitted(r)
    PROVE  UNCHANGED <<Asked, Accepted, Told, named>>
<1>1. input' = input /\ named' = named /\ stored' = stored /\ pc[r] = "reading" /\ ~ Admitted(r)'
      /\ \A q \in Request \ {r} : pc'[q] = pc[q] /\ code'[q] = code[q]
  BY InputFixed DEF Answer, Reading, IInv, TypeOK
<1>2. ~ Asks(r) /\ ~ Asks(r)' BY <1>1 DEF Asks
<1>3. Asked' = [Asked EXCEPT ![r] = NoAsk] /\ Told' = [Told EXCEPT ![r] = "none"]
  BY <1>1, <1>2, AbstractStep
<1>4. Asked[r] = NoAsk /\ Told[r] = "none" BY <1>2 DEF Asked, Told
<1>5. Asked' = Asked /\ Told' = Told BY <1>3, <1>4 DEF Asked, Told
<1> QED BY <1>1, <1>5 DEF Accepted

(* CallSubmit is where the abstract request begins. *)
LEMMA CallReceives ==
    ASSUME IInv, NEW r \in Request, CallSubmit(r)
    PROVE  Promise!Next
<1>1. input' = input /\ named' = named /\ stored' = stored /\ code' = code
      /\ pc[r] = "reading" /\ pc'[r] = "submitting"
      /\ \A q \in Request \ {r} : pc'[q] = pc[q]
  BY DEF CallSubmit, IsAuthenticated, AtScans, Readable, Reading, IInv, TypeOK
<1>2. Admitted(r) BY DEF CallSubmit, IsAuthenticated, AtScans, Admitted
<1>3. ~ Asks(r) /\ Asks(r)' /\ Ask(r)' = Ask(r)
  BY <1>1, <1>2, InputFixed, AskFixed DEF Asks
<1>4. code'[r] = 0 BY <1>1 DEF IInv, AnswersByAdmission
<1>5. Asked' = [Asked EXCEPT ![r] = Ask(r)] /\ Told' = [Told EXCEPT ![r] = "none"]
  BY <1>1, <1>3, <1>4, AbstractStep DEF Meaning
<1>6. Asked[r] = NoAsk /\ Told[r] = "none" BY <1>3 DEF Asked, Told
<1>7. Told' = Told BY <1>5, <1>6 DEF Told
<1>8. Accepted' = Accepted BY <1>1 DEF Accepted
<1>9. Promise!Receive(r, Ask(r))
  BY <1>1, <1>5, <1>6, <1>7, <1>8 DEF Promise!Receive, NoAsk, Promise!NoAsk, Asked, Told, Accepted
<1> QED BY <1>2, <1>9, AskIs DEF Promise!Next

(* submit accepts and answers, answers by what was accepted, or fails. *)
LEMMA SubmitPromises ==
    ASSUME IInv, NamedByAnswer, NEW r \in Request, Submit(r) \/ SubmitFails(r)
    PROVE  Promise!Next
<1>1. input' = input /\ pc[r] = "submitting" /\ pc'[r] = "answered"
      /\ \A q \in Request \ {r} : pc'[q] = pc[q] /\ code'[q] = code[q]
  BY DEF Submit, SubmitFails, IInv, TypeOK
<1>2. Admitted(r) /\ code[r] = 0 /\ named[r] = NoKey
  BY <1>1 DEF IInv, AnswersByAdmission, NamedByAnswer
<1>3. Asks(r) /\ Asks(r)' /\ Ask(r)' = Ask(r)
  BY <1>1, <1>2, InputFixed, AskFixed DEF Asks
<1>4. Asked[r] = Ask(r) /\ Asked[r] # NoAsk /\ Told[r] = "none"
  BY <1>2, <1>3, AskIs DEF Asked, Told, Meaning
<1>5. Asked' = Asked /\ Told' = [Told EXCEPT ![r] = Meaning(code'[r])]
  <2>1. Asked' = [Asked EXCEPT ![r] = Ask(r)] /\ Told' = [Told EXCEPT ![r] = Meaning(code'[r])]
    BY <1>1, <1>3, AbstractStep DEF Meaning
  <2> QED BY <1>4, <2>1 DEF Asked
<1>6. named \in [Request -> Request \cup {NoKey}] BY DEF IInv, TypeOK
<1>7. ASSUME NEW kind \in {"created", "replayed", "conflict", "error"},
             NEW e \in Request \cup {NoKey},
             Meaning(code'[r]) = kind, named' = [named EXCEPT ![r] = e],
             \/ Accepted' = Accepted /\ Promise!Justified(r, kind, e)
             \/ /\ Accepted' = Accepted \cup {r} /\ Store(r)
                /\ (kind = "created" /\ e = r) \/ (kind = "error" /\ e = NoKey)
      PROVE  Promise!Next
  <2>1. CASE Accepted' = Accepted /\ Promise!Justified(r, kind, e)
    <3>1. Promise!Answer(r, kind, e)
      BY <1>4, <1>5, <1>7, <2>1 DEF Promise!Answer, NoAsk, Promise!NoAsk, Asked, Told, Accepted
    <3> QED BY <3>1 DEF Promise!Next
  <2>2. CASE /\ Accepted' = Accepted \cup {r} /\ Store(r)
             /\ (kind = "created" /\ e = r) \/ (kind = "error" /\ e = NoKey)
    <3>1. ~ \E q \in Accepted : Promise!SameKey(q, r)
      BY <1>3, <2>2, RivalsAreEarlier DEF Store
    <3>2. Promise!Acceptable(r)
      BY <1>4, <3>1 DEF Promise!Acceptable, NoAsk, Promise!NoAsk, Asked, Told, Accepted
    <3>3. Promise!AcceptAnswering(r, kind, e)
      BY <1>5, <1>7, <2>2, <3>2 DEF Promise!AcceptAnswering, Asked, Told, Accepted
    <3> QED BY <3>3 DEF Promise!Next
  <2> QED BY <1>7, <2>1, <2>2
<1>8. ASSUME Store(r) PROVE Accepted' = Accepted \cup {r}
  <2>1. PICK c \in clientIds(r) : stored' = stored \cup {<<r, c>>} BY <1>8 DEF Store
  <2>2. Accepted' = {s[1] : s \in stored'} BY DEF Accepted
  <2>3. <<r, c>>[1] = r OBVIOUS
  <2>4. Accepted' \subseteq Accepted \cup {r} BY <2>1, <2>2, <2>3 DEF Accepted
  <2>5. <<r, c>> \in stored' /\ stored \subseteq stored' BY <2>1
  <2>6. Accepted \cup {r} \subseteq Accepted' BY <2>2, <2>3, <2>5 DEF Accepted
  <2> QED BY <2>4, <2>6
<1>9. CASE Submit(r) /\ Store(r) /\ code' = [code EXCEPT ![r] = 201] /\ named' = [named EXCEPT ![r] = r]
  <2>1. Meaning(code'[r]) = "created" BY <1>9 DEF Meaning, IInv, TypeOK
  <2> QED BY <1>7, <1>8, <1>9, <2>1
<1>10. ASSUME NEW s \in Earlier(r), UNCHANGED stored,
              code' = [code EXCEPT ![r] = IF requestHash(s[1]) = requestHash(r) THEN 200 ELSE 409],
              named' = [named EXCEPT ![r] = IF requestHash(s[1]) = requestHash(r) THEN s[1] ELSE NoKey]
       PROVE  Promise!Next
  <2>1. Accepted' = Accepted BY <1>10 DEF Accepted
  <2>2. s[1] \in Accepted BY DEF Earlier, Accepted
  <2>3. /\ s[1] \in Request /\ Promise!SameKey(s[1], r)
        /\ Promise!SameBody(s[1], r) <=> requestHash(s[1]) = requestHash(r)
    BY <1>3, <2>2, RivalsAreEarlier
  <2>4. CASE requestHash(s[1]) = requestHash(r)
    <3>1. Meaning(code'[r]) = "replayed" BY <1>10, <2>4 DEF Meaning, IInv, TypeOK
    <3>2. Promise!Justified(r, "replayed", s[1])
      BY <2>2, <2>3, <2>4 DEF Promise!Justified, Accepted
    <3> QED BY <1>7, <1>10, <2>1, <2>3, <2>4, <3>1, <3>2
  <2>5. CASE requestHash(s[1]) # requestHash(r)
    <3>1. Meaning(code'[r]) = "conflict" BY <1>10, <2>5 DEF Meaning, IInv, TypeOK
    <3>2. Promise!Justified(r, "conflict", NoKey)
      BY <2>2, <2>3, <2>5 DEF Promise!Justified, Accepted
    <3> QED BY <1>7, <1>10, <2>1, <2>5, <3>1, <3>2
  <2> QED BY <2>4, <2>5
<1>11. CASE SubmitFails(r)
  <2>1. Meaning(code'[r]) = "error" BY <1>11 DEF SubmitFails, Meaning, IInv, TypeOK
  <2>2. named' = [named EXCEPT ![r] = NoKey] BY <1>2, <1>6, <1>11 DEF SubmitFails
  <2>3. Promise!Justified(r, "error", NoKey) BY DEF Promise!Justified
  <2>4. Store(r) \/ Accepted' = Accepted BY <1>11 DEF SubmitFails, Accepted
  <2> QED BY <1>7, <1>8, <2>1, <2>2, <2>3, <2>4
<1> QED BY <1>9, <1>10, <1>11 DEF Submit

(* Whatever clients type, the API answers retries as IdempotentSubmit says. *)
THEOREM ApiKeepsPromise == Spec => ImplementsPromise
<1>1. Init => Promise!Init
  BY DEF Init, Promise!Init, Asks, NoAsk, Promise!NoAsk
<1>2. ASSUME IInv, NamedByAnswer, [Next]_vars PROVE [Promise!Next]_(Promise!vars)
  <2> SUFFICES Promise!Next \/ UNCHANGED <<Asked, Accepted, Told, named>>
    BY DEF Promise!vars, Asked, Accepted, Told
  <2>1. ASSUME NEW r \in Request,
               RejectBody(r) \/ AnswerHealth(r) \/ AnswerNotFound(r) \/ RejectKey(r) \/ RejectTarget(r)
        PROVE  UNCHANGED <<Asked, Accepted, Told, named>>
    <3>1. Reading(r) /\ ~ Admitted(r)
      BY <2>1 DEF RejectBody, AnswerHealth, AnswerNotFound, RejectKey, RejectTarget,
                  IsAuthenticated, AtScans, Readable, Admitted
    <3>2. \E status : Answer(r, status)
      BY <2>1 DEF RejectBody, AnswerHealth, AnswerNotFound, RejectKey, RejectTarget
    <3> QED BY <1>2, <3>1, <3>2, RefusedUnasked
  <2>2. CASE UNCHANGED vars
    BY <2>2 DEF vars, Asked, Accepted, Told, Asks, Ask, Admitted, clientIds, requestHash
  <2> QED BY <1>2, <2>1, <2>2, CallReceives, SubmitPromises DEF Next
<1> QED
  BY <1>1, <1>2, Invariant, NamedHolds, PTL DEF Spec, ImplementsPromise, Promise!Spec
=============================================================================
