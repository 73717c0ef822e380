------------------------------ MODULE AddressPolicy ------------------------------
(* Which IP addresses the program may connect to: the predicates of             *)
(* src/stream/proxy.rs and src/signaling/transport.rs, and the table of special  *)
(* address blocks they are meant to cover.  An address is [v |-> 4, a |-> four   *)
(* octets] or [v |-> 6, a |-> eight 16-bit segments].                            *)
EXTENDS Integers, Sequences

V4(a) == [v |-> 4, a |-> a]
V6(a) == [v |-> 6, a |-> a]

\* std::net::IpAddr
Segment == 0..65535
IPs == [v : {4}, a : [1..4 -> 0..255]] \cup [v : {6}, a : [1..8 -> Segment]]

---------------------------------------------------------------------------------
(* Methods of std::net::Ipv4Addr and Ipv6Addr that both files call.              *)

is_unspecified(ip) == \A i \in DOMAIN ip.a : ip.a[i] = 0
is_broadcast(ip) == ip.v = 4 /\ \A i \in DOMAIN ip.a : ip.a[i] = 255
is_multicast(ip) == IF ip.v = 4 THEN ip.a[1] \in 224..239 ELSE ip.a[1] \div 256 = 255
is_loopback(ip) == IF ip.v = 4 THEN ip.a[1] = 127 ELSE ip.a = <<0, 0, 0, 0, 0, 0, 0, 1>>
is_private(ip) ==
    \/ ip.a[1] = 10
    \/ ip.a[1] = 172 /\ ip.a[2] \in 16..31
    \/ ip.a[1] = 192 /\ ip.a[2] = 168
is_link_local(ip) == ip.a[1] = 169 /\ ip.a[2] = 254

is_mapped(ip) == ip.v = 6 /\ SubSeq(ip.a, 1, 6) = <<0, 0, 0, 0, 0, 65535>>
to_ipv4(ip) == V4(<<ip.a[7] \div 256, ip.a[7] % 256, ip.a[8] \div 256, ip.a[8] % 256>>)

---------------------------------------------------------------------------------
(* src/stream/proxy.rs                                                           *)

is_reserved_ipv4(ip) ==
    LET o == ip.a IN
    \/ o[1] = 0
    \/ o[1] = 100 /\ o[2] \in 64..127
    \/ SubSeq(o, 1, 3) \in {<<192, 0, 0>>, <<192, 0, 2>>, <<192, 88, 99>>,
                            <<198, 51, 100>>, <<203, 0, 113>>}
    \/ o[1] = 198 /\ o[2] \in 18..19
    \/ o[1] \in 240..255

\* segments[0] & 0xfe00 == 0xfc00 or segments[0] & 0xffc0 == 0xfe80
is_unique_or_link_local(ip) == ip.a[1] \div 512 = 126 \/ ip.a[1] \div 64 = 1018
is_documentation(ip) == ip.a[1] = 8193 /\ ip.a[2] = 3512

always_disallowed_v4(ip) ==
    is_unspecified(ip) \/ is_multicast(ip) \/ is_broadcast(ip) \/ is_reserved_ipv4(ip)

is_always_disallowed(ip) ==
    IF ip.v = 4 THEN always_disallowed_v4(ip)
    ELSE \/ is_unspecified(ip) \/ is_multicast(ip) \/ is_documentation(ip)
         \/ is_mapped(ip) /\ always_disallowed_v4(to_ipv4(ip))

private_or_local_v4(ip) == is_private(ip) \/ is_loopback(ip) \/ is_link_local(ip)

is_private_or_local(ip) ==
    IF ip.v = 4 THEN private_or_local_v4(ip)
    ELSE \/ is_loopback(ip) \/ is_unique_or_link_local(ip)
         \/ is_mapped(ip) /\ private_or_local_v4(to_ipv4(ip))

\* ProxyPolicy::validate_ip
proxy_allows(ip, allowLocal) ==
    ~is_always_disallowed(ip) /\ (is_private_or_local(ip) => allowLocal)

---------------------------------------------------------------------------------
(* src/signaling/transport.rs                                                    *)

is_unspecified_or_multicast(ip) ==
    IF ip.v = 4 THEN ip.a[1] = 0 \/ is_multicast(ip) \/ is_broadcast(ip)
    ELSE is_unspecified(ip) \/ is_multicast(ip)

is_ipv4_shared_or_reserved(ip) ==
    LET o == ip.a IN
    \/ o[1] = 100 /\ o[2] \in 64..127
    \/ SubSeq(o, 1, 3) \in {<<192, 0, 0>>, <<192, 0, 2>>, <<192, 88, 99>>,
                            <<198, 51, 100>>, <<203, 0, 113>>}
    \/ o[1] = 198 /\ o[2] \in 18..19
    \/ o[1] \in 240..255

non_public_v4(ip) ==
    \/ is_unspecified_or_multicast(ip)
    \/ is_private(ip) \/ is_loopback(ip) \/ is_link_local(ip)
    \/ is_ipv4_shared_or_reserved(ip)

is_non_public_ip(ip) ==
    IF ip.v = 4 THEN non_public_v4(ip)
    ELSE \/ is_unspecified_or_multicast(ip)
         \/ is_mapped(ip) /\ non_public_v4(to_ipv4(ip))
         \/ is_loopback(ip) \/ is_unique_or_link_local(ip) \/ is_documentation(ip)

\* EndpointPolicy::validate_ip
endpoint_allows(ip, endpointPolicy) ==
    IF endpointPolicy = "PublicOnly" THEN ~is_non_public_ip(ip)
    ELSE ~is_unspecified_or_multicast(ip)

---------------------------------------------------------------------------------
(* The reference the predicates are compared with: address blocks in prefix      *)
(* notation, and what it means for an address to lie in one.                     *)

Smaller(x, y) == IF x < y THEN x ELSE y
Larger(x, y) == IF x > y THEN x ELSE y

\* The first len bits of a and of base agree; a part of an address has w bits.
InPrefix(a, base, len, w) ==
    \A i \in DOMAIN a :
        LET free == w - Larger(0, Smaller(w, len - w * (i - 1)))
        IN a[i] \div (2^free) = base[i] \div (2^free)

LocalBlocks4 == {<<<<10, 0, 0, 0>>, 8>>, <<<<127, 0, 0, 0>>, 8>>, <<<<169, 254, 0, 0>>, 16>>,
                 <<<<172, 16, 0, 0>>, 12>>, <<<<192, 168, 0, 0>>, 16>>}
BarredBlocks4 == {<<<<0, 0, 0, 0>>, 8>>, <<<<100, 64, 0, 0>>, 10>>, <<<<192, 0, 0, 0>>, 24>>,
                  <<<<192, 0, 2, 0>>, 24>>, <<<<192, 88, 99, 0>>, 24>>,
                  <<<<198, 18, 0, 0>>, 15>>, <<<<198, 51, 100, 0>>, 24>>,
                  <<<<203, 0, 113, 0>>, 24>>, <<<<224, 0, 0, 0>>, 4>>,
                  <<<<240, 0, 0, 0>>, 4>>}
Words(x, y, last) == <<x, y, 0, 0, 0, 0, 0, last>>
LocalBlocks6 == {<<Words(0, 0, 1), 128>>, <<Words(64512, 0, 0), 7>>, <<Words(65152, 0, 0), 10>>}
BarredBlocks6 == {<<Words(0, 0, 0), 128>>, <<Words(65280, 0, 0), 8>>, <<Words(8193, 3512, 0), 32>>}

\* The address to judge: an IPv4-mapped one counts as the IPv4 address in it.
Plain(ip) == IF is_mapped(ip) THEN to_ipv4(ip) ELSE ip

InBlocks(ip, blocks4, blocks6) ==
    IF ip.v = 4 THEN \E b \in blocks4 : InPrefix(ip.a, b[1], b[2], 8)
    ELSE \E b \in blocks6 : InPrefix(ip.a, b[1], b[2], 16)

Local(ip) == InBlocks(Plain(ip), LocalBlocks4, LocalBlocks6)
Barred(ip) == InBlocks(Plain(ip), BarredBlocks4, BarredBlocks6)
=================================================================================
