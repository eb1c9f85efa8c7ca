------------------------------- MODULE MCYanc -------------------------------
(* Instances of Yanc: parts of schema.txt, with scaled numbers. *)
EXTENDS Yanc, FiniteSets, TLC

LOCAL Sq == INSTANCE SequencesExt

\* A part of schema.txt.
SwitchSchema ==
    <<"switches", "{", "u64", "datapath_id", ";",
        "flows", "{", "u16", "priority", ";",
          "\"", "match", "\"", "{", "u32", "wildcards", ";", "eth", "dl_dst", ";",
                            "ip32", "nw_src", ";", "ip32", "nw_dst", ";", "}",
          "\"", "actions", "\"", "{", "str", "actions", ";", "u16", "output", ";", "}",
        "}",
        "packet_out", "{", "raw", "data", ";", "u32", "in_port", ";", "}",
      "}">>

\* More than fits into the first buffer.
LongSchema == Sq!FlattenSeq([i \in 1 .. 17 |-> <<"u8", "vlan", ";">>])

\* An object that is empty, a type that is none, a brace too many, words that
\* are two types of one meaning.
OddSchemas ==
    {SwitchSchema,
     <<"hosts", "{", "}", "'", "batch", "'", "{", "compound", "*", ";", "}">>,
     <<"ports", "{", "link", "peer", ";", "}">>,
     <<"u32", "state", ";", "}">>,
     <<"mac", "hw_addr", ";", "eth", "dl_src", ";", "linke", "port", ";", "i8", "vlan", ";">>,
     LongSchema, << >>}

FlowFiles ==
    {<<"match", "wildcards">>, <<"match", "dl_dst">>, <<"match", "nw_src">>,
     <<"match", "nw_dst">>, <<"actions", "actions">>, <<"actions", "output">>, <<"out", "data">>}

MCTypeOf ==
    [f \in Files |-> CASE f[2] \in {"nw_src", "nw_dst"} -> "ip32" [] f[2] = "actions" -> "str"
                       [] f[2] = "output" -> "u16" [] f[2] = "wildcards" -> "u32"
                       [] f[2] = "dl_dst" -> "eth"
                       [] f[2] = "data" -> "raw"]

\* Integers of two bits.
MCModulus == [t \in Ints |-> 4]

Number(n) == [form |-> "number", n |-> n, mask |-> -1, closed |-> TRUE]
MacNumber == [form |-> "number", n |-> <<1, 2>>, mask |-> -1, closed |-> TRUE]
Junk == [form |-> "junk", n |-> 0, mask |-> -1, closed |-> TRUE]
Prefix(l, m, c) == [form |-> "address", n |-> <<1, l>>, mask |-> m, closed |-> c]

MCTexts ==
    (<<"match", "wildcards">> :> {Number(3)}) @@ (<<"match", "nw_dst">> :> {Prefix(2, -1, FALSE)})
    @@ (<<"match", "nw_src">> :> {Prefix(2, 24, TRUE)})
    @@ (<<"actions", "actions">> :> {<<"output", Blank>>, <<"x", Blank, "output">>})
    @@ (<<"match", "dl_dst">> :> {MacNumber})
    @@ (<<"actions", "output">> :> {Number(1)})
    @@ (<<"out", "data">> :> {<<"x">>})

\* With the path of a flow as its argument.
Signal(member) == append_string(SignalOf("/", member), "/switches/s1/flows/f1")
Call(member) == append_string(set_header(NewMessage("method_call"), "member", member), "x")

\* What programs send: signals and a call without an interface.
MCBusMsgs ==
    {Signal("NewFlow"), Call("PacketOut")}

\* Every message of at most two arguments has as many as were appended, and
\* gives each back by its position and type; past the end, or for another type,
\* it throws.
ASSUME ArgumentsReadBack ==
    LET none == NewMessage("signal")
        one == {append_string(none, "a"), append_int32(none, 21)}
        two == UNION {{append_string(m, "b"), append_int32(m, 22)} : m \in one}
    IN \A m \in {none} \cup one \cup two :
          /\ m \in Messages
          /\ num_args(m) = Len(arguments(m))
          /\ \A pos \in 0 .. 2 :
                /\ pos >= num_args(m) =>
                      get_string(m, pos).throws \in {"logic_error", "out_of_range"}
                /\ pos < num_args(m) =>
                      (get_string(m, pos).throws = "nothing") =
                         (arguments(m)[pos + 1] = "string")
                /\ (get_string(m, pos).throws = "nothing") =>
                      get_int32(m, pos).throws = "logic_error"
          /\ num_args(m) > 0 => read_string(m, init_msg_read_iter(m).value) = get_string(m, 0)

\* What a message claims as its length is that of a FLOW_MOD or PACKET_OUT with
\* eight bytes for every action and eight more for an Ethernet address, and with
\* its data; data without room shortens it by 28, the number of ENOSPC.
ASSUME LengthsSayActions ==
    LET Names == (DOMAIN ActionReads) \cup {"x"}
        Line(w) == [i \in 1 .. 2 * Len(w) |-> IF i % 2 = 1 THEN w[(i + 1) \div 2] ELSE Blank]
        Count(w, S) == Cardinality({i \in DOMAIN w : w[i] \in S})
    IN \A n \in 0 .. 3 : \A w \in [1 .. n -> Names] :
          LET buf == [NewBuf EXCEPT !.text = Line(w)]
              alen == 8 * Count(w, DOMAIN ActionReads) + 8 * Count(w, {"dl_src", "dl_dst"})
              data == Fill(buf, <<0, "out", "data">>, <<"x", "x">>).data
          IN /\ FlowMod(buf).length = 72 + alen
             /\ PacketOut(buf).actions_len = alen
             /\ PacketOut([buf EXCEPT !.data = data]).length =
                   IF 16 + alen + 2 <= BufLen THEN 16 + alen + 2 ELSE (16 + alen - 28) % 65536

\* Who subscribes to the adapter's signals is told the path.
ASSUME SignalsSayPath ==
    /\ get_string(NewSwitchSignal("/switches/s1"), 0) = Returns("/switches/s1")
    /\ message_signature(PacketInSignal("x")) = Returns(<<Interface, "PacketIn">>)
    /\ get_string(AdapterStarted, 0).throws = "logic_error"
    /\ OfYanc(AdapterStarted) /\ ~OfYanc(NewMessage("error"))

-----------------------------------------------------------------------------
\* Paths, and command lines of at most three options and three words.
Mnt == <<"", "net">>
Etc == <<"", "etc", "schema.txt">>

Opts(letters) == {<<l, IF l = "p" THEN 6634 ELSE Etc>> : l \in letters}

Lines3(letters) ==
    [opts : UNION {[1 .. n -> Opts(letters)] : n \in 0 .. 3},
     words : UNION {[1 .. n -> {Mnt}] : n \in 0 .. 3}]

MCStartLines ==
    {[opts |-> o, words |-> <<Mnt>>] :
        o \in {<< >>, <<<<"f", Etc>>>>, <<<<"S", Etc>>>>, <<<<"o", Etc>>, <<"h", Etc>>>>}}

\* Whatever its options, yanc serves FUSE in one thread, on which SchemaFS
\* relies, and logs at a level that syslog has; it starts with one word or two.
ASSUME YancOneThread ==
    \A line \in Lines3({"S", "f", "s", "v", "q", "o", "h", "?"}) :
        LET opts == y_parse_cmdline(line)
        IN /\ ~opts.multi_threaded
           /\ opts.verbosity \in LOG_EMERG .. LOG_DEBUG
           /\ opts.exit = "none" => Len(line.words) \in {1, 2} /\ opts.mountpoint = Mnt

\* The adapter starts with two words and options it knows, and with nothing
\* else.  -h helps if something follows it: on its own, it is too few words.
ASSUME AdapterStarts ==
    /\ \A line \in Lines3({"p", "v", "h", "?"}) :
          LET options == parse_options(line)
              given == {line.opts[i][1] : i \in DOMAIN line.opts}
          IN /\ options.exit = "none" <=> Len(line.words) = 2 /\ given \subseteq {"p", "v"}
             /\ options.exit = "success" <=>
                   "h" \in given /\ "?" \notin given /\ Words(line) >= 2
             /\ options.exit = "none" =>
                   options.port = IF "p" \in given THEN 6634 ELSE 6633
    /\ parse_options([opts |-> <<<<"h", Etc>>>>, words |-> << >>]).exit = "failure"

=============================================================================
