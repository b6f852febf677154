----------------------------- MODULE MCApiRequest -----------------------------
(* An instance of ApiRequest for TLC: addresses at the ends of the reserved *)
(* ranges in every spelling, and retries in every spelling of one page.     *)
EXTENDS ApiRequest, TLC

CONSTANTS q1, q2, c1, c2, none

PowersOfTwo == [k \in 0 .. 16 |-> 2 ^ k]

\* Three keys, the first of them given to another client by a later entry.
Keys == <<<<c1, "key1">>, <<c2, "key2">>, <<c1, "key4">>, <<c2, "key1">>>>

Name == [kind |-> "name", name |-> "example.com", upper |-> FALSE]

Page == [protocol |-> "https", credentials |-> FALSE, host |-> Name, port |-> 0,
         path |-> "root", query |-> "absent",
         fragment |-> "absent"]

Post == [method |-> "POST", path |-> "scans", apiKey |-> "key1", body |-> "ok", 
         idempotencyKey |-> none, url |-> Page]

\* The ends of some ranges, and their neighbours.
Ends(ranges) ==
    UNION {LET last == IF r.bits <= 16 THEN <<r.base[1] + Power[16 - r.bits] - 1, 65535>>
                       ELSE <<r.base[1], r.base[2] + Power[32 - r.bits] - 1>>
               next == IF last[2] = 65535 THEN <<last[1] + 1, 0>> ELSE <<last[1], last[2] + 1>>
               previous == IF r.base[2] = 0 THEN <<r.base[1] - 1, 65535>>
                           ELSE <<r.base[1], r.base[2] - 1>>
           IN  {a \in {r.base, last, next, previous} : a[1] \in Half} :
           r \in ranges}

NoSection == Plain(<<>>)

\* The ways to write an IPv4 address, alone and in an IPv6 address.
V4(parts) == [kind |-> "v4", parts |-> parts]
V6(head, gap, tail) == [kind |-> "v6", head |-> head, gap |-> gap, tail |-> tail]

Dotted(a) == {V4(Quad(Bytes(a))), V6(NoSection, TRUE, [groups |-> <<65535>>, quad |-> Quad(Bytes(a))])}

OtherSpellings(a) ==
    LET b == Bytes(a)
    IN  {V4(<<a>>), V4(<<<<0, b[1]>>, <<b[2], a[2]>>>>),
         V4(<<<<0, b[1]>>, <<0, b[2]>>, <<0, a[2]>>>>),
         V6(Plain(<<0, 0, 0, 0, 0, 65535, a[1], a[2]>>), FALSE, NoSection)}

\* The addresses that carry one of IPv4 and are left wrapped, and one that only
\* looks like an IPv4-mapped address.
Carriers(a) ==
    {V6(Plain(<<100, 65435>>), TRUE, [groups |-> <<>>, quad |-> Quad(Bytes(a))]),
     V6(NoSection, TRUE, Plain(a)), V6(Plain(<<1>>), TRUE, Plain(<<65535>> \o a))}

\* Parts too large for their place, sections too long or misplaced, and IPv6
\* addresses at the ends of its ranges.
Overflows == {V4(<<<<65536, 0>>>>), V4(<<<<0, 256>>, <<0, 1>>>>), V4(<<<<0, 10>>, <<256, 0>>>>),
              V4(<<<<0, 10>>, <<0, 0>>, <<1, 0>>>>),
              V4(<<<<0, 10>>, <<0, 0>>, <<0, 0>>, <<0, 256>>>>),
              V6(Plain(<<1, 2, 3, 4>>), TRUE, Plain(<<5, 6, 7, 8>>)),
              V6(Plain(<<1, 2, 3>>), FALSE, NoSection),
              V6([groups |-> <<>>, quad |-> Quad(<<10, 0, 0, 1>>)], TRUE, NoSection)}
Sixes == {V6(Plain(<<g>>), TRUE, Plain(<<1>>)) :
            g \in {0, 1, 64511, 64512, 65023, 65024, 65151, 65152, 65215, 65216}}
         \cup {V6(NoSection, TRUE, NoSection), V6(Plain(<<1, 0, 0, 2, 3, 0, 0>>), TRUE, Plain(<<4>>)),
               V6(Plain(<<1, 2, 3, 4, 5, 6, 0, 8>>), FALSE, NoSection)}
         \cup UNION {Carriers(a) : a \in {<<32512, 1>>, <<2560, 0>>, <<2056, 2056>>, <<0, 2>>}}

\* Every end as a dotted quad, those of two ranges in the other spellings too.
Hosts == UNION {Dotted(a) : a \in Ends(BLOCKED_IPV4_RANGES)}
         \cup UNION {OtherSpellings(a) : a \in Ends({r \in BLOCKED_IPV4_RANGES :
                                                    r.label \in {"loopback", "link_local"}})}
         \cup Overflows \cup Sixes

Variants == {[Page EXCEPT !.host.upper = TRUE], [Page EXCEPT !.port = 443],
             [Page EXCEPT !.port = 80], [Page EXCEPT !.path = "absent"], [Page EXCEPT !.query = "empty"],
             [Page EXCEPT !.query = "page2"], [Page EXCEPT !.fragment = "top"],
             [Page EXCEPT !.protocol = "http", !.port = 443], [Page EXCEPT !.protocol = "ftp"],
             [Page EXCEPT !.credentials = TRUE]}

Targets == {[Post EXCEPT !.url.host = h] : h \in Hosts}

Retries == {[Post EXCEPT !.url = u, !.idempotencyKey = "idem", !.apiKey = k] :
              u \in Variants \cup {Page}, k \in {"key1", "key2", "key4"}}

Others == {[Post EXCEPT !.body = b] : b \in {"malformed", "too_large", "invalid"}}
          \cup {[Post EXCEPT !.method = m, !.path = p] :
                   m \in {"GET", "POST"}, p \in {"scans", "health", "ready", "elsewhere"}}
          \cup {[Post EXCEPT !.apiKey = k] : k \in {none, "key3"}}

Inputs == Targets \cup Retries \cup Others

Symmetry == Permutations(Request)
=============================================================================
