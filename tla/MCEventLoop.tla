----------------------------- MODULE MCEventLoop -----------------------------
(***************************************************************************)
(* Descriptors 3, 4, ... of an adapter, and samples of the addresses that  *)
(* its listener binds to and hands to its callbacks.                       *)
(***************************************************************************)
EXTENDS EventLoop, NetAddresses

CONSTANT LastFd     \* the highest descriptor of the process

MCFds == 3 .. LastFd

-----------------------------------------------------------------------------
\* Octets next to zero, to a colon, to the sign bit and to the end.
SomeOctets == {0, 1, 58, 127, 128, 255}
SomeNw == [1 .. 4 -> SomeOctets]
SomeHw == [1 .. 6 -> {0, 58, 127, 128}]
SomePorts == {0, 255, 256, 6633, 65535}
SomeTp == [addr : {nw_empty, <<10, 0, 0, 1>>, <<128, 255, 1, 0>>},
           proto : {tp_proto_tcp, tp_proto_undefined}, port : {0, 6633}]

\* An IPv4 address comes back from its text and from its number; a string that
\* is assigned to one is lost.
ASSUME NwReadsBack ==
    \A a \in SomeNw : /\ nw_read_string(nw_to_string(a)) = a
                      /\ nw_addr(nw_packed(a)) = a
                      /\ nw_assign(nw_to_string(a)) = nw_empty

\* An Ethernet address comes back from its number unless its third octet has
\* the sign bit, and then the library refuses the number it made itself.
ASSUME HwReadsBack ==
    \A a \in SomeHw : hw_addr(hw_packed(a)) = IF a[3] >= 128 THEN Refused ELSE a

\* The text of an Ethernet address is never read back: it has six parts, or
\* more where an octet is printed as a colon, and four are asked for.
ASSUME HwTextRefused == \A a \in SomeHw : hw_read_string(hw_to_string(a)) = Refused

\* Numbers come back from buffers, but not from four octets on their own.
ASSUME NumbersReadBack ==
    /\ \A n \in SomePorts : /\ unpack_uint16(pack_uint16(n)) = n
                            /\ htons(htons(n)) = n
    /\ \A n \in SomePorts \cup {65536, 16777216, 2147483647} :
          unpack_uint32(pack_uint32(n)) = n
    /\ unpack_octets(pack_uint32(6633)) # 6633
    /\ \A n \in [1 .. 8 -> {0, 255}] : hton64(ntoh64(n)) = n

\* What the kernel is given for the empty address is what it says, and what it
\* says of a peer is the peer's address; any other address to bind to may fail.
ASSUME SockaddrReadsBack ==
    \A t \in SomeTp : \A sa \in sockaddr_from_tp_addr(t) :
       \/ sa.sin_addr = Undefined /\ t.addr # nw_empty
       \/ tp_addr_from_sockaddr(sa) = [t EXCEPT !.proto = tp_proto_undefined]

\* A text does not say which protocol, and no address starts other than empty.
ASSUME TextsAndDefaults ==
    /\ \A t, u \in SomeTp :
          tp_to_string(t) = tp_to_string(u) <=> t.addr = u.addr /\ t.port = u.port
    /\ nw_is_empty(tp_empty.addr) /\ tp_empty \in TpAddrs
    /\ \A a \in SomeHw : hw_is_empty(a) <=> a = hw_empty

\* A number is assigned as it is constructed from, a text is refused as well.
ASSUME Assigned ==
    /\ \A n \in {<<0, 0>> \o a : a \in SomeHw} \cup {<<0, 1, 0, 0, 0, 0, 0, 0>>} :
          hw_assign_number(n) = hw_addr(n)
    /\ \A a \in SomeHw : hw_assign(hw_to_string(a)) = Refused
    /\ \A n \in Octets : unpack_uint8(pack_uint8(n)) = n

\* Two connections of one source have the same bytes, and each may be less than
\* the other: neither is a key for a table.
ASSUME PairsCollide ==
    /\ \A p, q \in [src : SomeTp, dst : SomeTp] :
          p.src = q.src => pair_copy_bytes(p) = pair_copy_bytes(q)
    /\ \E p, q \in [src : SomeTp, dst : SomeTp] : tp_pair_less(p, q) /\ tp_pair_less(q, p)

\* Of two addresses or pairs that are not equal, one is less, or each is.
ASSUME OneIsLess ==
    /\ \A a, b \in [1 .. 6 -> {0, 128}] : hw_equal(a, b) <=> ~hw_less(a, b) /\ ~hw_less(b, a)
    /\ \A p, q \in [src : SomeTp, dst : SomeTp] :
          tp_pair_equal(p, q) <=> ~tp_pair_less(p, q) /\ ~tp_pair_less(q, p)
    /\ LET some == {nw_empty, <<10, 0, 0, 1>>, <<0, 0, 1, 10>>} IN
       \A p, q \in [src : some, dst : some] :
          nw_pair_equal(p, q) <=> ~nw_pair_less(p, q) /\ ~nw_pair_less(q, p)

\* A receiver that takes a header's length at its word takes it for another.
ASSUME LengthSwapped ==
    \A len \in {6, 1400} :
       unpack_uint16(setup_ip_header(nw_empty, nw_empty, 17, len).tot_len) # SizeOfHeader + len
=============================================================================
