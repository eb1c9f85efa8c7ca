---------------------------- MODULE MCPacketPath ----------------------------
(* Instances of PacketPath: a switch with a named and a nameless port, or  *)
(* with two ports of one name.                                             *)
EXTENDS PacketPath, TLC

PacketDir(n, k) == <<"packet_in", n, k>>
NamedPort == <<"ports", <<"a">>, 0>>
NamelessPort == <<"ports", <<"2">>, 0>>

MCDigits == [n \in 0 .. 7 |-> <<ToString(n)>>]

MCFiles ==
    {<<SwitchDir, "flags">>}
    \cup ({NamedPort, NamelessPort} \X {"port_no", "name"})
    \cup ({PacketDir(<<"a">>, 1)} \X {"total_len", "in_port", "data"})
    \cup ({PacketDir(<< >>, 1)} \X {"total_len", "data"})
    \cup {<<PacketDir(<<"a">>, 2), "total_len">>}

MCTypeOf ==
    [f \in Files |->
        CASE f[2] \in {"flags", "total_len"} -> "u16"
          [] f[2] \in {"port_no", "in_port"} -> "u32"
          [] f[2] = "name" -> "str" [] f[2] = "data" -> "raw"]

\* Integers of three bits.
MCModulus == [t \in Ints |-> 8]

Number(n) == [form |-> "number", n |-> n, mask |-> -1, closed |-> TRUE]

\* What others write.
MCTexts ==
    [f \in Files |->
        CASE f = <<NamelessPort, "port_no">> -> {Number(1)}
          [] f = <<PacketDir(<<"a">>, 1), "total_len">> -> {Number(5)}
          [] OTHER -> {}]

Port(n, name) == [port_no |-> n, name |-> name]

FeaturesReply(v, len, ports) == [version |-> v, length |-> len, ports |-> ports]

\* Two ports, one without a name; no ports that can be counted; a version that is
\* not supported; version 1.1, of whose ports the middle is taken for their
\* names, here one.
MCReplies ==
    {FeaturesReply(1, 128, <<Port(1, <<"a">>), Port(2, << >>)>>),
     FeaturesReply(1, 100, << >>), FeaturesReply(4, 32, << >>),
     FeaturesReply(2, 160, <<Port(1, <<"a">>), Port(2, <<"a">>)>>)}

MCConfigs == {[flags |-> 1]}

PacketOf(v, p, data, len) ==
    [version |-> v, in_port |-> p, data |-> data, total_len |-> len]

\* A whole frame, the first part of one in version 1.1, and nothing of one.
MCPackets ==
    {PacketOf(1, 1, <<"h", "a", "b", "d">>, 4), PacketOf(2, 2, <<"h", " ">>, 3),
     PacketOf(1, 1, << >>, 3)}

=============================================================================
