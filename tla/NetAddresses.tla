---------------------------- MODULE NetAddresses ----------------------------
(***************************************************************************)
(* The addresses of om-lib (net/net.cc) and their conversions: to text and *)
(* back, to numbers and back, to bytes, to the kernel's sockaddr_in and    *)
(* back.  An address is the sequence of its octets.  So is a number of 32, *)
(* 48 or 64 bits that an address is made of, the highest octet first, for  *)
(* these conversions only shift and mask by octets.                        *)
(*                                                                         *)
(* The host is little-endian, as the library takes for granted.  What      *)
(* copies all members is left out.                                         *)
(***************************************************************************)
EXTENDS Integers, Sequences, FiniteSets

CONSTANTS
    Refused,        \* the conversion throws invalid_argument
    Undefined       \* it reads what is not its own: anything may come of it

Octets == 0 .. 255
Ports == 0 .. 65535

NwAddrs == [1 .. 4 -> Octets]
HwAddrs == [1 .. 6 -> Octets]
TpAddrs == [addr : NwAddrs, proto : Octets, port : Ports]
TpPairs == [src : TpAddrs, dst : TpAddrs]
NwPairs == [src : NwAddrs, dst : NwAddrs]

\* The octets in the other order.
Swapped(s) == [i \in 1 .. Len(s) |-> s[Len(s) + 1 - i]]

\* string::split(): how many parts a text has.  Without a separator it finds
\* none, not one.
split_size(text, separator) ==
    LET n == Cardinality({i \in DOMAIN text : text[i] = separator})
    IN IF n = 0 THEN 0 ELSE n + 1

-----------------------------------------------------------------------------
(***************************************************************************)
(* IPv4.  The text of an address is the sequence of the numbers that atoi()*)
(* makes of its parts.                                                     *)
(***************************************************************************)
nw_empty == [i \in 1 .. 4 |-> 0]
nw_is_empty(a) == \A i \in 1 .. 4 : a[i] = 0

nw_read_string(parts) ==
    IF Len(parts) = 4 /\ \A i \in 1 .. 4 : parts[i] \in Octets THEN parts ELSE Refused

\* operator=() of a string does not look at it.
nw_assign(parts) == nw_empty

nw_to_string(a) == [i \in 1 .. 4 |-> a[i]]

\* A pointer into a string that is gone by then: the text may still be there.
nw_to_cstring(a) == {nw_to_string(a), Undefined}

\* From and to a uint32_t: the first octet is the lowest.
nw_addr(n) == [i \in 1 .. 4 |-> n[5 - i]]
nw_packed(a) == Swapped(a)

-----------------------------------------------------------------------------
(***************************************************************************)
(* Ethernet.  A text is a sequence of characters, by their numbers.        *)
(***************************************************************************)
Colon == 58
Zero == 48

hw_empty == [i \in 1 .. 6 |-> 0]
hw_is_empty(a) == \A i \in 1 .. 6 : a[i] = 0

\* The octets are printed as characters; only the first one is padded.
hw_to_string(a) ==
    <<Zero, a[1], Colon, a[2], Colon, a[3], Colon, a[4], Colon, a[5], Colon, a[6]>>

\* Four parts are asked for, and then six are read.
hw_read_string(text) ==
    IF split_size(text, Colon) = 4 THEN Undefined ELSE Refused

\* From a uint64_t: what has more than 48 bits is refused.
hw_addr(n) == IF n[1] # 0 \/ n[2] # 0 THEN Refused ELSE [i \in 1 .. 6 |-> n[i + 2]]

\* operator=() of a string and of a uint64_t.
hw_assign(text) == hw_read_string(text)
hw_assign_number(n) == IF n[1] + n[2] > 0 THEN Refused ELSE SubSeq(n, 3, 8)

\* To a uint64_t: the third octet is shifted as an int, which is negative from
\* 128 on, and its sign fills the 32 bits above it.
hw_packed(a) ==
    IF a[3] >= 128 THEN <<255, 255, 255, 255>> \o SubSeq(a, 3, 6)
    ELSE <<0, 0>> \o SubSeq(a, 1, 6)

-----------------------------------------------------------------------------
(***************************************************************************)
(* Numbers in buffers.                                                     *)
(***************************************************************************)
pack_uint8(n) == <<n>>
unpack_uint8(buf) == buf[1]

pack_uint16(n) == <<n \div 256, n % 256>>
unpack_uint16(buf) == buf[1] * 256 + buf[2]

pack_uint32(n) ==
    <<n \div 16777216, (n \div 65536) % 256, (n \div 256) % 256, n % 256>>
unpack_uint32(buf) == buf[1] * 16777216 + buf[2] * 65536 + buf[3] * 256 + buf[4]

\* The version that takes four octets shifts none of them.
unpack_octets(buf) ==
    LET Bit(k) == IF \E i \in 1 .. 4 : (buf[i] \div k) % 2 = 1 THEN k ELSE 0
    IN Bit(1) + Bit(2) + Bit(4) + Bit(8) + Bit(16) + Bit(32) + Bit(64) + Bit(128)

ntoh64(n) == Swapped(n)
hton64(n) == ntoh64(n)

htons(n) == unpack_uint16(Swapped(pack_uint16(n)))

-----------------------------------------------------------------------------
(***************************************************************************)
(* Transport.                                                              *)
(***************************************************************************)
tp_proto_tcp == 6
tp_proto_undefined == 255

tp_empty == [addr |-> nw_empty, proto |-> tp_proto_undefined, port |-> 0]

\* Without the protocol.
tp_to_string(t) == <<nw_to_string(t.addr), t.port>>

\* INADDR_ANY for the empty address.  For another, inet_pton() reads its text,
\* or leaves sin_addr as it was.
sin_addr_of(a) == IF nw_is_empty(a) THEN {nw_empty} ELSE nw_to_cstring(a)

\* What may become of the structure; without a transport address, port 0.
sockaddr_from_tp_addr(t) == [sin_addr : sin_addr_of(t.addr), sin_port : {htons(t.port)}]
sockaddr_from_nw_addr(a) == [sin_addr : sin_addr_of(a), sin_port : {0}]

tp_addr_from_sockaddr(sa) ==
    [addr |-> nw_addr(Swapped(sa.sin_addr)), proto |-> tp_proto_undefined,
     port |-> htons(sa.sin_port)]

tp_copy_bytes(t) == t.addr \o <<t.proto>> \o pack_uint16(t.port)

\* The source is written twice, to the same place.
pair_copy_bytes(p) == tp_copy_bytes(p.src)

-----------------------------------------------------------------------------
(***************************************************************************)
(* operator==, and operator<: one member is less, whatever those before it *)
(* are.                                                                    *)
(***************************************************************************)
hw_equal(a, b) == \A i \in 1 .. 6 : a[i] = b[i]
nw_equal(a, b) == \A i \in 1 .. 4 : a[i] = b[i]
tp_equal(t, u) == nw_equal(t.addr, u.addr) /\ t.proto = u.proto /\ t.port = u.port

hw_less(a, b) == \E i \in 1 .. 6 : a[i] < b[i]
nw_less(a, b) == \E i \in 1 .. 4 : a[i] < b[i]
tp_less(t, u) == nw_less(t.addr, u.addr) \/ t.proto < u.proto \/ t.port < u.port

nw_pair_equal(p, q) == nw_equal(p.src, q.src) /\ nw_equal(p.dst, q.dst)
nw_pair_less(p, q) == nw_less(p.src, q.src) \/ nw_less(p.dst, q.dst)

tp_pair_equal(p, q) == tp_equal(p.src, q.src) /\ tp_equal(p.dst, q.dst)
tp_pair_less(p, q) == tp_less(p.src, q.src) \/ tp_less(p.dst, q.dst)

-----------------------------------------------------------------------------
(***************************************************************************)
(* The header of an IP packet of msg_len octets, as far as it is not the   *)
(* same for all: its length goes into it in the order of the host.         *)
(***************************************************************************)
SizeOfHeader == 20

setup_ip_header(src, dst, proto, msg_len) ==
    [version |-> 4, ihl |-> SizeOfHeader \div 4, ttl |-> 255, check |-> 0,
     tot_len |-> Swapped(pack_uint16((SizeOfHeader + msg_len) % 65536)),
     protocol |-> proto, saddr |-> src, daddr |-> dst]
=============================================================================
