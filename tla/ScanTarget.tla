------------------------------ MODULE ScanTarget ------------------------------
(***************************************************************************)
(* What a submitted URL is taken to be: URL.parse gives its canonical form, *)
(* the guard reads the address of its host and looks up the reserved range *)
(* that one is in, and normalize gives what two submissions are compared by. *)
(*                                                                         *)
(* Text is split already.  An IPv4 host is a sequence of numeric parts,    *)
(* whatever their radix; an IPv6 host has a section before its "::" and    *)
(* one after, each of hexadecimal groups and perhaps a dotted quad.  A     *)
(* number of 32 bits and more is a pair, the high part and the low 16 bits. *)
(***************************************************************************)
EXTENDS Integers, Sequences

CONSTANT Power   \* 2 ** k

ASSUME PowerAssumption ==
    /\ Power \in [0 .. 16 -> Nat \ {0}]
    /\ Power[0] = 1
    /\ \A k \in 1 .. 16 : Power[k] = 2 * Power[k - 1]

\* What a hexadecimal group and a numeric part of a host may be.
MaxHalf == 65535
Half == 0 .. MaxHalf
Part == Nat \X Half

\* undefined, of the functions that parse and of those that look up a label.
None == <<>>
NoLabel == "none"

Parts == {p \in Seq(Part) : Len(p) \in 1 .. 4}

Section == [groups : Seq(Half), quad : Parts \cup {None}]

Plain(groups) == [groups |-> groups, quad |-> None]

\* Without a "::" there is one section only.
Host == [kind : {"name"}, name : STRING, upper : BOOLEAN]
        \cup [kind : {"v4"}, parts : Parts]
        \cup [kind : {"v6"}, head : Section, gap : {TRUE}, tail : Section]
        \cup [kind : {"v6"}, head : Section, gap : {FALSE}, tail : {Plain(<<>>)}]

\* A URL that the client may send; port 0 and "absent" are not there.
Url == [protocol : STRING, credentials : BOOLEAN, host : Host, port : Nat,
        path : STRING, query : STRING, fragment : STRING]

-----------------------------------------------------------------------------
(* URL.parse, by the URL standard: the numbers of an IPv4 host fill four     *)
(* bytes, an IPv6 host is eight groups, and both have one canonical text.   *)

Bytes(p) == <<p[1] \div 256, p[1] % 256, p[2] \div 256, p[2] % 256>>

\* Byte i of an address is part i, or what the last part has there, and
\* nothing is left over.
Packed(parts) ==
    [i \in 1 .. 4 |-> IF i < Len(parts) THEN parts[i][2] ELSE Bytes(parts[Len(parts)])[i]]

Packs(parts) ==
    /\ \A i \in 1 .. Len(parts) - 1 :
          parts[i][1] = 0 /\ parts[i][2] <= 255 /\ Bytes(parts[Len(parts)])[i] = 0
    /\ Bytes(parts[Len(parts)])[1] <= 255

Joined(b) == <<256 * b[1] + b[2], 256 * b[3] + b[4]>>

\* A quad inside an IPv6 host is four bytes, and stands at its end.
Written(section) ==
    section.groups \o IF section.quad = None THEN <<>> ELSE Joined(Packed(section.quad))

WellFormed(section) ==
    section.quad = None \/ (Len(section.quad) = 4 /\ Packs(section.quad))

Expands(host) ==
    LET given == Len(Written(host.head)) + Len(Written(host.tail))
    IN  /\ WellFormed(host.head) /\ WellFormed(host.tail)
        /\ IF host.gap THEN given <= 7 /\ host.head.quad = None ELSE given = 8

\* What is before the gap comes first, what is after it last, and zeros between.
Expanded(host) ==
    LET head == Written(host.head)
        tail == Written(host.tail)
    IN  [i \in 1 .. 8 |-> IF i <= Len(head) THEN head[i]
                          ELSE IF i > 8 - Len(tail) THEN tail[i - (8 - Len(tail))] ELSE 0]

\* In the canonical text "::" stands for the longest run of zeros, and of runs
\* as long as it for the first.
ZeroRuns(g) ==
    {run \in (1 .. 8) \X (1 .. 8) : run[1] < run[2] /\ \A i \in run[1] .. run[2] : g[i] = 0}

Weight(run) == 8 * (run[2] - run[1]) - run[1]

LongestRun(g) ==
    CHOOSE run \in ZeroRuns(g) : \A other \in ZeroRuns(g) : Weight(other) <= Weight(run)

Serialised(g) ==
    IF ZeroRuns(g) = {} THEN [kind |-> "v6", head |-> Plain(g), gap |-> FALSE, tail |-> Plain(<<>>)]
    ELSE LET run == LongestRun(g)
         IN  [kind |-> "v6", gap |-> TRUE,
              head |-> Plain([i \in 1 .. run[1] - 1 |-> g[i]]),
              tail |-> Plain([i \in 1 .. 8 - run[2] |-> g[run[2] + i]])]

Quad(b) == [i \in 1 .. 4 |-> <<0, b[i]>>]

Canonical(host) ==
    CASE host.kind = "v4"   -> [kind |-> "v4", parts |-> Quad(Packed(host.parts))]
      [] host.kind = "v6"   -> Serialised(Expanded(host))
      [] host.kind = "name" -> [host EXCEPT !.upper = FALSE]

CanParse(raw) == /\ raw.host.kind = "v4" => Packs(raw.host.parts)
                 /\ raw.host.kind = "v6" => Expands(raw.host)

DefaultPort(protocol) == CASE protocol = "http" -> 80
                           [] protocol = "https" -> 443
                           [] OTHER -> 0

\* The path is at least the root; a scheme's default port and an empty query go.
Parsed(raw) ==
    [raw EXCEPT !.host = Canonical(raw.host),
                !.port = IF @ = DefaultPort(raw.protocol) THEN 0 ELSE @,
                !.path = IF @ = "absent" THEN "root" ELSE @,
                !.query = IF @ = "empty" THEN "absent" ELSE @]

-----------------------------------------------------------------------------
(* The code's own reading of a host.                                        *)

IsByte(p) == p[1] = 0 /\ p[2] <= 255

\* inet_aton: the last part holds the bytes that the others leave.
parseIpv4(parts) ==
    LET n == Len(parts)
        first == parts[1]
    IN  CASE n = 1 /\ first[1] <= 65535 -> first
          [] n = 2 /\ IsByte(first) /\ parts[2][1] <= 255 ->
                <<256 * first[2] + parts[2][1], parts[2][2]>>
          [] n = 3 /\ IsByte(first) /\ IsByte(parts[2]) /\ parts[3][1] = 0 ->
                <<256 * first[2] + parts[2][2], parts[3][2]>>
          [] n = 4 /\ \A i \in 1 .. 4 : IsByte(parts[i]) ->
                <<256 * first[2] + parts[2][2], 256 * parts[3][2] + parts[4][2]>>
          [] OTHER -> None

\* A section of IPv6, whose quad is read by the same function.
QuadParses(section) == section.quad = None \/ parseIpv4(section.quad) # None

toIpv6Groups(section) ==
    IF section.quad = None THEN section.groups
    ELSE section.groups \o parseIpv4(section.quad)

parseIpv6(host) ==
    LET head == toIpv6Groups(host.head)
        tail == toIpv6Groups(host.tail)
        zeros == 8 - Len(head) - Len(tail)
    IN  IF ~ QuadParses(host.head) \/ ~ QuadParses(host.tail) THEN None
        ELSE IF host.gap /\ zeros >= 1 THEN head \o [i \in 1 .. zeros |-> 0] \o tail
        ELSE IF ~ host.gap /\ Len(head) = 8 THEN head
        ELSE None

-----------------------------------------------------------------------------
(* Reserved ranges.                                                        *)

BLOCKED_IPV4_RANGES ==
    { [base |-> <<0, 0>>,         bits |-> 8,  label |-> "unspecified"],
      [base |-> <<2560, 0>>,      bits |-> 8,  label |-> "private"],
      [base |-> <<25664, 0>>,     bits |-> 10, label |-> "carrier_grade_NAT"],
      [base |-> <<32512, 0>>,     bits |-> 8,  label |-> "loopback"],
      [base |-> <<43518, 0>>,     bits |-> 16, label |-> "link_local"],
      [base |-> <<44048, 0>>,     bits |-> 12, label |-> "private"],
      [base |-> <<49152, 0>>,     bits |-> 24, label |-> "IETF_protocol"],
      [base |-> <<49152, 512>>,   bits |-> 24, label |-> "TEST_NET_1"],
      [base |-> <<49320, 0>>,     bits |-> 16, label |-> "private"],
      [base |-> <<50706, 0>>,     bits |-> 15, label |-> "benchmarking"],
      [base |-> <<50739, 25600>>, bits |-> 24, label |-> "TEST_NET_2"],
      [base |-> <<51968, 28928>>, bits |-> 24, label |-> "TEST_NET_3"],
      [base |-> <<57344, 0>>,     bits |-> 4,  label |-> "multicast"],
      [base |-> <<61440, 0>>,     bits |-> 4,  label |-> "future_use"] }

\* AND with a mask whose clear bits are those below p, a power of 2.
ClearBelow(v, p) == v - (v % p)

\* value & mask, where mask is 0xffffffff << (32 - bits)
Masked(a, bits) ==
    IF bits <= 16 THEN <<ClearBelow(a[1], Power[16 - bits]), 0>>
    ELSE <<a[1], ClearBelow(a[2], Power[32 - bits])>>

\* Mutant: no >>> 0 after the AND, which JavaScript makes a signed number.
MatchesSigned(a, range) == a[1] < 32768 /\ Masked(a, range.bits) = range.base

Matches(a, range) == Masked(a, range.bits) = range.base

findBlockedIpv4Label(a) ==
    LET matching == {range \in BLOCKED_IPV4_RANGES : Matches(a, range)}
    IN  IF matching = {} THEN NoLabel ELSE (CHOOSE range \in matching : TRUE).label

\* ::ffff:a.b.c.d
IsIpv4Mapped(g) == (\A i \in 1 .. 5 : g[i] = 0) /\ g[6] = 65535

findBlockedIpv6Label(g) ==
    CASE IsIpv4Mapped(g) -> findBlockedIpv4Label(<<g[7], g[8]>>)
      [] \A i \in 1 .. 8 : g[i] = 0 -> "unspecified"
      [] (\A i \in 1 .. 7 : g[i] = 0) /\ g[8] = 1 -> "loopback"
      [] ClearBelow(g[1], Power[9]) = 64512 -> "unique_local"
      [] ClearBelow(g[1], Power[6]) = 65152 -> "link_local"
      [] OTHER -> NoLabel

findBlockedHostLabel(host) ==
    CASE host.kind = "v4" /\ parseIpv4(host.parts) # None ->
            findBlockedIpv4Label(parseIpv4(host.parts))
      [] host.kind = "v6" /\ parseIpv6(host) # None ->
            findBlockedIpv6Label(parseIpv6(host))
      [] OTHER -> NoLabel

-----------------------------------------------------------------------------
(* Submitted URLs.                                                          *)

parseUrl(raw) == IF CanParse(raw) THEN Parsed(raw) ELSE None

\* Mutant: url.href, which has the fragment.
normalizeToHref(url) == url

normalize(url) == [url EXCEPT !.fragment = "absent", !.credentials = FALSE]

\* With the reason for a refusal.
validateSubmittedUrl(raw) ==
    LET parsed == parseUrl(raw)
    IN  IF parsed = None THEN "unparseable"
        ELSE IF parsed.protocol \notin {"http", "https"} THEN "scheme"
        ELSE IF parsed.credentials THEN "credentials"
        ELSE IF findBlockedHostLabel(parsed.host) # NoLabel THEN "blocked"
        ELSE "valid"

-----------------------------------------------------------------------------
(* What they should come to, said another way.                             *)

\* The address is at or after the first of the range, and not after its last.
Within(a, range) ==
    IF range.bits <= 16
    THEN range.base[1] <= a[1] /\ a[1] < range.base[1] + Power[16 - range.bits]
    ELSE /\ a[1] = range.base[1]
         /\ range.base[2] <= a[2] /\ a[2] < range.base[2] + Power[32 - range.bits]

ReservedIpv4(a) == \E range \in BLOCKED_IPV4_RANGES : Within(a, range)

\* The prefixes of 96 bits behind which an IPv6 address carries one of IPv4.
Mapped     == <<0, 0, 0, 0, 0, 65535>>
Nat64      == <<100, 65435, 0, 0, 0, 0>>
Compatible == <<0, 0, 0, 0, 0, 0>>

Carries(g, prefix) == \A i \in 1 .. 6 : g[i] = prefix[i]

\* What an address carries is reserved (:: and ::1 carry 0.0.0.0 and 0.0.0.1),
\* or it is between the ends of fc00::/7 or of fe80::/10.
ReservedIpv6(g) ==
    \/ /\ \E prefix \in {Mapped, Nat64, Compatible} : Carries(g, prefix)
       /\ ReservedIpv4(<<g[7], g[8]>>)
    \/ 64512 <= g[1] /\ g[1] <= 65023
    \/ 65152 <= g[1] /\ g[1] <= 65215

Reserved(host) ==
    \/ host.kind = "v4" /\ ReservedIpv4(Joined(Packed(host.parts)))
    \/ host.kind = "v6" /\ ReservedIpv6(Expanded(host))

\* The carriers that findBlockedIpv6Label does not unwrap: docs/plan.md, 9.3
\* and 9.4.  :: and ::1 it knows by themselves.
LeftWrapped(g) ==
    \/ Carries(g, Nat64)
    \/ Carries(g, Compatible) /\ ~ (g[7] = 0 /\ g[8] <= 1)

IsLeftWrapped(host) == host.kind = "v6" /\ LeftWrapped(Expanded(host))

\* Two submissions ask for the same page: buildRequestHash, "a retry that
\* differs only in fragment or host casing is correctly recognised".
SameTarget(raw1, raw2) ==
    LET port(raw) == IF raw.port = 0 THEN DefaultPort(raw.protocol) ELSE raw.port
        path(raw) == IF raw.path = "absent" THEN "root" ELSE raw.path
        query(raw) == IF raw.query = "empty" THEN "absent" ELSE raw.query
    IN  /\ raw1.protocol = raw2.protocol /\ port(raw1) = port(raw2)
        /\ Canonical(raw1.host) = Canonical(raw2.host)
        /\ path(raw1) = path(raw2) /\ query(raw1) = query(raw2)
=============================================================================
