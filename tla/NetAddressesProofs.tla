------------------------- MODULE NetAddressesProofs -------------------------
(***************************************************************************)
(* What the conversions of om-lib return for every address and number.     *)
(***************************************************************************)
EXTENDS NetAddresses, FiniteSetTheorems, TLAPS

(***************************************************************************)
(* Every IPv4 address comes back from the uint32_t that packed() makes of  *)
(* it (net.cc, nw_addr).                                                   *)
(***************************************************************************)
THEOREM NwNumberReadsBack == ASSUME NEW a \in NwAddrs PROVE nw_addr(nw_packed(a)) = a
<1>1. Len(a) = 4 /\ a = [i \in 1 .. 4 |-> a[i]]
  BY DEF NwAddrs
<1>2. \A i \in 1 .. 4 : nw_packed(a)[5 - i] = a[i]
  BY <1>1 DEF nw_packed, Swapped
<1> QED BY <1>1, <1>2 DEF nw_addr

(***************************************************************************)
(* An Ethernet address comes back from the uint64_t that packed() makes of *)
(* it exactly if its third octet is below 128; otherwise the constructor   *)
(* refuses the number (net.cc, hw_addr).                                   *)
(***************************************************************************)
THEOREM HwNumberReadsBack ==
    ASSUME NEW a \in HwAddrs
    PROVE  hw_addr(hw_packed(a)) = IF a[3] >= 128 THEN Refused ELSE a
<1>1. a \in Seq(Octets) /\ Len(a) = 6 /\ a = [i \in 1 .. 6 |-> a[i]] /\ a[3] \in Int
  <2>1. a = [i \in 1 .. 6 |-> a[i]] /\ \A i \in 1 .. 6 : a[i] \in Octets
    BY DEF HwAddrs
  <2>2. a \in Seq(Octets) /\ Len(a) = 6
    BY <2>1
  <2> QED BY <2>1, <2>2 DEF Octets
<1>2. CASE a[3] >= 128
  <2>1. hw_packed(a)[1] = 255
    BY <1>1, <1>2 DEF hw_packed
  <2> QED BY <1>2, <2>1 DEF hw_addr
<1>3. CASE ~(a[3] >= 128)
  <2>1. hw_packed(a) = <<0, 0>> \o a
    BY <1>1, <1>3 DEF hw_packed
  <2>2. /\ hw_packed(a)[1] = 0
        /\ hw_packed(a)[2] = 0
        /\ \A i \in 1 .. 6 : hw_packed(a)[i + 2] = a[i]
    BY <1>1, <2>1
  <2> QED BY <1>1, <1>3, <2>2 DEF hw_addr
<1> QED BY <1>2, <1>3

(***************************************************************************)
(* The text that to_string() makes of an Ethernet address is never read    *)
(* back: read_string() asks for four parts (net.cc, hw_addr).              *)
(***************************************************************************)
THEOREM HwTextIsRefused ==
    ASSUME NEW a \in HwAddrs PROVE hw_read_string(hw_to_string(a)) = Refused
<1> DEFINE text == hw_to_string(a)
           colons == {i \in DOMAIN text : text[i] = Colon}
<1>1. DOMAIN text = 1 .. 12 /\ {3, 5, 7, 9, 11} \subseteq colons
  BY DEF hw_to_string, Colon
<1>2. IsFiniteSet(colons)
  <2>1. colons \subseteq 1 .. 12
    BY <1>1
  <2>2. IsFiniteSet(1 .. 12)
    <3>1. \A k, l \in Int : IsFiniteSet(k .. l)
      BY FS_Interval
    <3>2. 1 \in Int /\ 12 \in Int
      OBVIOUS
    <3> QED BY <3>1, <3>2, Zenon
  <2> QED BY <2>1, <2>2, FS_Subset
<1>3. Cardinality({3, 5, 7, 9, 11}) = 5
  <2>1. Cardinality({3}) = 1 /\ IsFiniteSet({3})
    BY FS_Singleton
  <2>2. Cardinality({3} \cup {5}) = 2 /\ IsFiniteSet({3} \cup {5})
    BY <2>1, FS_AddElement
  <2>3. Cardinality({3} \cup {5} \cup {7}) = 3 /\ IsFiniteSet({3} \cup {5} \cup {7})
    BY <2>2, FS_AddElement
  <2>4. /\ Cardinality({3} \cup {5} \cup {7} \cup {9}) = 4
        /\ IsFiniteSet({3} \cup {5} \cup {7} \cup {9})
    BY <2>3, FS_AddElement
  <2>5. Cardinality({3} \cup {5} \cup {7} \cup {9} \cup {11}) = 5
    BY <2>4, FS_AddElement
  <2>6. {3} \cup {5} \cup {7} \cup {9} \cup {11} = {3, 5, 7, 9, 11}
    OBVIOUS
  <2> QED BY <2>5, <2>6
<1>4. Cardinality(colons) \in Nat /\ Cardinality(colons) >= 5
  BY <1>1, <1>2, <1>3, FS_Subset, FS_CardinalityType
<1>5. split_size(text, Colon) # 4
  <2> HIDE DEF text
  <2> QED BY <1>4 DEF split_size
<1> QED BY <1>5 DEF hw_read_string

(***************************************************************************)
(* Every number of 16 or 32 bits comes back from the buffer it is packed   *)
(* into (net.cc, pack_uint16 to unpack_uint32).                            *)
(***************************************************************************)
LEMMA Uint16ReadsBack ==
    ASSUME NEW n \in 0 .. 65535 PROVE unpack_uint16(pack_uint16(n)) = n
BY SMT DEF pack_uint16, unpack_uint16

THEOREM Uint32ReadsBack ==
    ASSUME NEW n \in Nat, n < 65536 * 65536
    PROVE  /\ pack_uint32(n) \in [1 .. 4 -> Octets]
           /\ unpack_uint32(pack_uint32(n)) = n
<1>1. n \div 16777216 \in Octets
  BY SMT DEF Octets
<1>2. /\ (n \div 65536) % 256 \in Octets
      /\ (n \div 256) % 256 \in Octets
      /\ n % 256 \in Octets
  BY SMT DEF Octets
<1>3. n = (n \div 16777216) * 16777216 + ((n \div 65536) % 256) * 65536
          + ((n \div 256) % 256) * 256 + (n % 256)
  BY SMT
<1> QED BY <1>1, <1>2, <1>3, SMT DEF pack_uint32, unpack_uint32

\* A port swapped twice is what it was.
LEMMA HtonsTwice == ASSUME NEW n \in Ports PROVE htons(htons(n)) = n
<1> DEFINE h == n \div 256
           l == n % 256
<1>1. h \in 0 .. 255 /\ l \in 0 .. 255 /\ n = h * 256 + l BY SMT DEF Ports
<1>2. htons(n) = l * 256 + h
  <2>1. pack_uint16(n) = <<h, l>> BY SMT DEF pack_uint16
  <2> HIDE DEF h, l
  <2>2. Swapped(<<h, l>>)[1] = l /\ Swapped(<<h, l>>)[2] = h BY SMT DEF Swapped
  <2> QED BY <2>1, <2>2, SMT DEF htons, unpack_uint16
<1> HIDE DEF h, l
<1>3. (l * 256 + h) \div 256 = l /\ (l * 256 + h) % 256 = h BY <1>1, SMT
<1>4. htons(l * 256 + h) = h * 256 + l
  <2> DEFINE m == l * 256 + h
  <2>1. m \div 256 = l /\ m % 256 = h BY <1>3, SMT
  <2> HIDE DEF m
  <2>2. pack_uint16(m) = <<l, h>> BY <2>1, SMT DEF pack_uint16
  <2>3. Swapped(<<l, h>>)[1] = h /\ Swapped(<<l, h>>)[2] = l BY SMT DEF Swapped
  <2>4. htons(m) = h * 256 + l BY <2>2, <2>3, SMT DEF htons, unpack_uint16
  <2> QED BY <2>4, SMT DEF m
<1> QED BY <1>1, <1>2, <1>4, SMT

\* A transport address is its fields.
LEMMA TpFields ==
    ASSUME NEW t \in TpAddrs
    PROVE  /\ t = [addr |-> t.addr, proto |-> t.proto, port |-> t.port]
           /\ t.addr \in NwAddrs /\ t.proto \in Octets /\ t.port \in Ports
BY SMT DEF TpAddrs

(***************************************************************************)
(* The kernel's structure says what the address says that it was made of:  *)
(* the empty address, or any other if its text was still there, and its    *)
(* port; the protocol is not in it (net.cc, sockaddr_from_tp_addr).        *)
(***************************************************************************)
THEOREM SockaddrSaysAddr ==
    ASSUME NEW t \in TpAddrs, NEW sa \in sockaddr_from_tp_addr(t),
           sa.sin_addr # Undefined
    PROVE  tp_addr_from_sockaddr(sa) = [t EXCEPT !.proto = tp_proto_undefined]
<1>1. PICK a \in NwAddrs, q \in Octets, p \in Ports :
         t = [addr |-> a, proto |-> q, port |-> p]
  BY TpFields, SMT
<1>2. PICK ip \in sin_addr_of(a), n \in {htons(p)} : sa = [sin_addr |-> ip, sin_port |-> n]
  BY <1>1, SMT DEF sockaddr_from_tp_addr
<1>3. a = [i \in 1 .. 4 |-> a[i]] BY SMT DEF NwAddrs
<1>4. ip = a
  <2>0. ip # Undefined BY <1>2, SMT
  <2>1. CASE nw_is_empty(a)
    <3>1. \A i \in 1 .. 4 : a[i] = 0 BY <2>1 DEF nw_is_empty
    <3>2. a = nw_empty BY <1>3, <3>1 DEF nw_empty
    <3> QED BY <2>1, <3>2 DEF sin_addr_of
  <2>2. CASE ~nw_is_empty(a)
    <3>1. ip = nw_to_string(a) BY <2>0, <2>2 DEF sin_addr_of, nw_to_cstring
    <3> QED BY <1>3, <3>1 DEF nw_to_string
  <2> QED BY <2>1, <2>2
<1>5. nw_addr(Swapped(ip)) = a BY <1>4, NwNumberReadsBack DEF nw_packed
<1>6. htons(n) = p BY HtonsTwice
<1>7. tp_addr_from_sockaddr(sa) = [addr |-> a, proto |-> tp_proto_undefined, port |-> p]
  BY <1>2, <1>5, <1>6, SMT DEF tp_addr_from_sockaddr
<1> DEFINE u == tp_proto_undefined
<1> HIDE DEF u
<1>8. [t EXCEPT !.proto = u] = [addr |-> a, proto |-> u, port |-> p] BY <1>1, SMT
<1> QED BY <1>7, <1>8, SMT DEF u

\* Two IPv4 addresses are equal or one is less.
LEMMA NwOneIsLess ==
    ASSUME NEW a \in NwAddrs, NEW b \in NwAddrs
    PROVE  nw_equal(a, b) <=> ~nw_less(a, b) /\ ~nw_less(b, a)
<1>1. \A i \in 1 .. 4 : a[i] \in Int /\ b[i] \in Int BY DEF NwAddrs, Octets
<1> QED BY <1>1 DEF nw_equal, nw_less

\* The same of transport addresses.
LEMMA TpOneIsLess ==
    ASSUME NEW t \in TpAddrs, NEW u \in TpAddrs
    PROVE  tp_equal(t, u) <=> ~tp_less(t, u) /\ ~tp_less(u, t)
<1>1. \A x \in TpAddrs : x.addr \in NwAddrs /\ x.proto \in Octets /\ x.port \in Ports
  BY TpFields
<1>2. \A n \in Octets \cup Ports : n \in Int BY DEF Octets, Ports
<1>3. \A x \in TpAddrs : x.addr \in NwAddrs /\ x.proto \in Int /\ x.port \in Int
  BY <1>1, <1>2, Zenon
<1> QED BY <1>3, NwOneIsLess DEF tp_equal, tp_less

(***************************************************************************)
(* Two addresses, or pairs of them, are equal exactly if neither is less,  *)
(* which is what a std::map takes for equal (net.cc, operator< and ==).    *)
(***************************************************************************)
THEOREM UnequalIsLess ==
    /\ \A a, b \in HwAddrs : hw_equal(a, b) <=> ~hw_less(a, b) /\ ~hw_less(b, a)
    /\ \A p, q \in NwPairs :
          nw_pair_equal(p, q) <=> ~nw_pair_less(p, q) /\ ~nw_pair_less(q, p)
    /\ \A p, q \in TpPairs :
          tp_pair_equal(p, q) <=> ~tp_pair_less(p, q) /\ ~tp_pair_less(q, p)
<1>1. ASSUME NEW a \in HwAddrs, NEW b \in HwAddrs
      PROVE  hw_equal(a, b) <=> ~hw_less(a, b) /\ ~hw_less(b, a)
  <2>1. \A i \in 1 .. 6 : a[i] \in Int /\ b[i] \in Int BY DEF HwAddrs, Octets
  <2> QED BY <2>1 DEF hw_equal, hw_less
<1>2. ASSUME NEW p \in NwPairs, NEW q \in NwPairs
      PROVE  nw_pair_equal(p, q) <=> ~nw_pair_less(p, q) /\ ~nw_pair_less(q, p)
  <2>1. {p.src, p.dst, q.src, q.dst} \subseteq NwAddrs BY DEF NwPairs
  <2> QED BY <2>1, NwOneIsLess DEF nw_pair_equal, nw_pair_less
<1>3. ASSUME NEW p \in TpPairs, NEW q \in TpPairs
      PROVE  tp_pair_equal(p, q) <=> ~tp_pair_less(p, q) /\ ~tp_pair_less(q, p)
  <2>1. {p.src, p.dst, q.src, q.dst} \subseteq TpAddrs BY DEF TpPairs
  <2> QED BY <2>1, TpOneIsLess DEF tp_pair_equal, tp_pair_less
<1> QED BY <1>1, <1>2, <1>3

(***************************************************************************)
(* But it is no order, and a std::set or std::map needs one: addresses are *)
(* each less than the other, and three are less in turn of which the first *)
(* is not less than the last.                                              *)
(***************************************************************************)
THEOREM LessIsNoOrder ==
    \E a, b, c \in NwAddrs : /\ nw_less(a, b) /\ nw_less(b, a)
                            /\ nw_less(b, c) /\ ~nw_less(a, c)
<1> DEFINE a == [i \in 1 .. 4 |-> 1]
           b == [i \in 1 .. 4 |-> IF i = 1 THEN 0 ELSE 2]
           c == [i \in 1 .. 4 |-> IF i = 1 THEN 1 ELSE 0]
<1>1. a \in NwAddrs /\ b \in NwAddrs /\ c \in NwAddrs BY DEF NwAddrs, Octets
<1>2. a[2] < b[2] /\ b[1] < a[1] /\ b[1] < c[1] OBVIOUS
<1>3. \A i \in 1 .. 4 : ~(a[i] < c[i]) OBVIOUS
<1> HIDE DEF a, b, c
<1>4. nw_less(a, b) /\ nw_less(b, a) /\ nw_less(b, c) /\ ~nw_less(a, c)
  BY <1>2, <1>3 DEF nw_less
<1> QED BY <1>1, <1>4

=============================================================================
