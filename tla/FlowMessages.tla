---------------------------- MODULE FlowMessages ----------------------------
(***************************************************************************)
(* The OpenFlow 1.0 messages the adapter makes from the files of a         *)
(* directory: of_flow.cc, of_match.cc, of_actions.cc, of_packet_out.cc, and*)
(* the bindings that name the files (y_flow.h and the like).  What is kept *)
(* is which file is read when, for every read opens the file anew and other*)
(* programs may write in between; which field its value goes to; what a    *)
(* message claims its length to be; and the word of wildcards, whose bits  *)
(* two files and a flag share.                                             *)
(*                                                                         *)
(* The name of an action stands for its letters in the file of actions, and*)
(* an action is known by the place of its name there.  Byte order is left  *)
(* out, and with it that the cookie is sent unconverted.  The actions fit  *)
(* into the buffer: fill() never looks.                                    *)
(***************************************************************************)
EXTENDS OpenFlow10

CONSTANTS
    Space,          \* white space between the names of actions
    BufLen,         \* bytes of the buffer a message is made in
    Unset           \* a value never given

LOCAL Funs == INSTANCE Functions

\* A step of fill(): a file, which is a directory and a name, and the field its
\* value goes to: the place of the action it belongs to, or 0, the structure
\* (an action's is called by its name) and the field's name.
Step(dir, name, field) == [file |-> <<dir, name>>, to |-> <<0, dir, field>>]

\* Mutant: the two addresses are exchanged.
IntoExchanged(dir, name) ==
    Step(dir, name, CASE name = "nw_src" -> "nw_dst" [] name = "nw_dst" -> "nw_src"
                      [] OTHER -> name)

\* Most fields are called as their files.
Into(dir, name) == Step(dir, name, name)

\* Some files are only looked at.
Aside(dir, name) == Step(dir, name, "none")

\* The constructor of OFFlow, update() and fill() each look at the version.
\* OFMatch::fill() reads the addresses twice, the second time for the mask.
FlowReads ==
    <<Aside("flow", "version"), Aside("flow", "version"), Aside("flow", "version"),
      Into("flow", "cookie"), Into("flow", "idle_timeout"), Into("flow", "hard_timeout"),
      Into("flow", "priority"), Into("flow", "buffer_id"),
      Into("match", "in_port"), Into("match", "dl_src"), Into("match", "dl_dst"),
      Into("match", "dl_vlan"), Into("match", "dl_vlan_pcp"), Into("match", "dl_type"),
      Into("match", "nw_tos"), Into("match", "nw_proto"),
      Into("match", "nw_src"), Into("match", "nw_dst"), Into("match", "wildcards"),
      Step("match", "nw_src", "nw_src_mask"), Step("match", "nw_dst", "nw_dst_mask"),
      Into("match", "tp_src"), Into("match", "tp_dst"),
      Into("actions", "actions")>>

\* OFPacketOut::update(), before its actions and behind them
PacketOutReads == <<Aside("out", "state"), Into("out/actions", "actions")>>
DataReads == <<Into("out", "data"), Into("out", "buffer_id"), Into("out", "in_port")>>

\* The files OFActions::fill() reads for each action it knows, and the fields.
ActionReads ==
    [output |-> <<<<"output", "port">>, <<"output_max_len", "max_len">>>>,
     vlan |-> <<<<"vlan", "vlan_vid">>>>, vlan_pcp |-> <<<<"vlan_pcp", "vlan_pcp">>>>,
     strip_vlan |-> << >>,
     dl_src |-> <<<<"dl_src", "dl_addr">>>>, dl_dst |-> <<<<"dl_dst", "dl_addr">>>>,
     nw_src |-> <<<<"nw_src", "nw_addr">>>>, nw_dst |-> <<<<"nw_dst", "nw_addr">>>>,
     nw_tos |-> <<<<"nw_tos", "nw_tos">>>>,
     tp_src |-> <<<<"tp_src", "tp_port">>>>, tp_dst |-> <<<<"tp_dst", "tp_port">>>>]

\* The words of s that are names of actions, at their places; others are ignored.
Actions(s) ==
    [i \in {j \in DOMAIN s : /\ s[j] \in DOMAIN ActionReads
                             /\ j = 1 \/ s[j - 1] = Space
                             /\ j = Len(s) \/ s[j + 1] = Space} |-> s[i]]

\* The p-th read of the action at place k, if it has one.
ActionStep(dir, acts, k, p) ==
    IF k \in DOMAIN acts /\ p \in DOMAIN ActionReads[acts[k]]
    THEN [file |-> <<dir, ActionReads[acts[k]][p][1]>>,
          to |-> <<k, acts[k], ActionReads[acts[k]][p][2]>>]
    ELSE Aside(dir, "none")

\* What is read for the actions of the text s; none has more than two reads.
ReadsFor(dir, s) ==
    [i \in 1 .. 2 * Len(s) |->
        ActionStep(dir, Actions(s), (i + 1) \div 2, IF i % 2 = 1 THEN 1 ELSE 2)]

\* All reads for a message when its file of actions had the text s.
Script(kind, s) ==
    IF kind = "flow" THEN FlowReads \o ReadsFor("actions", s)
    ELSE PacketOutReads \o (ReadsFor("out/actions", s) \o DataReads)

\* The structure of each action.
ActionOf ==
    [output |-> ofp_action_output, vlan |-> ofp_action_vlan_vid,
     vlan_pcp |-> ofp_action_vlan_pcp, strip_vlan |-> ofp_action_header,
     dl_src |-> ofp_action_dl_addr, dl_dst |-> ofp_action_dl_addr,
     nw_src |-> ofp_action_nw_addr, nw_dst |-> ofp_action_nw_addr,
     nw_tos |-> ofp_action_nw_tos,
     tp_src |-> ofp_action_tp_port, tp_dst |-> ofp_action_tp_port]

ActionLen == [a \in DOMAIN ActionOf |-> SizeOf(ActionOf[a])]

\* The structures end where the actions begin.
FlowModLen == SizeOf(ofp_flow_mod)
PacketOutLen == SizeOf(ofp_packet_out)

ActionsLen(acts) == Funs!SumFunction([k \in DOMAIN acts |-> ActionLen[acts[k]]])

\* The positions of the bits of n, of those OpenFlow gives a meaning.
Bits(n) == {i \in 0 .. 21 : (n \div 2^i) % 2 = 1}
Shifted(S, k) == {i + k : i \in S}

NW_SRC_SHIFT == 8
NW_DST_SHIFT == 14

\* The bits of the word, if it was ever set.
Word(v) == IF v = Unset THEN {} ELSE {Bits(v)}

\* fill() adds the length of an address's prefix to the bits.
WithMask(word, addr, shift) == {bits \cup Shifted(Bits(addr[3]), shift) : bits \in word}

\* What a field holds when v was read for it: an IP address goes without its
\* mask, and htons() of one byte leaves nothing of an action's vlan_pcp.
Content(to, v) ==
    IF to[3] \in {"nw_src", "nw_dst", "nw_addr"} THEN <<v[1], v[2]>>
    ELSE IF to[3] = "vlan_pcp" THEN 0 ELSE v

\* DirentRaw::get() returns -ENOSPC for data that does not fit, which is added
\* to the length like a number of bytes.
Room(acts) == BufLen - (PacketOutLen + ActionsLen(acts))
DataLen(data, room) == IF room < Len(data) THEN -28 ELSE Len(data)

\* The buffer of update() before fill(): no field is set, the text of the
\* actions is not read, and no data was added.
NewBuf == [fields |-> << >>, wildcards |-> {}, text |-> << >>, data |-> 0]

Set(fields, to, v) ==
    [x \in DOMAIN fields \cup {to} |-> IF x = to THEN Content(to, v) ELSE fields[x]]

\* A value that was read is put where it belongs.
Fill(buf, to, v) ==
    CASE to[3] = "none" -> buf
      [] to[3] = "actions" -> [buf EXCEPT !.text = v]
      [] to[3] = "wildcards" -> [buf EXCEPT !.wildcards = Word(v)]
      [] to[3] = "nw_src_mask" -> [buf EXCEPT !.wildcards = WithMask(@, v, NW_SRC_SHIFT)]
      [] to[3] = "nw_dst_mask" -> [buf EXCEPT !.wildcards = WithMask(@, v, NW_DST_SHIFT)]
      [] to[3] = "data" ->
            LET room == Room(Actions(buf.text))
            IN [buf EXCEPT !.data = DataLen(v, room),
                           !.fields = IF room < Len(v) THEN @ ELSE Set(@, to, v)]
      [] OTHER -> [buf EXCEPT !.fields = Set(@, to, v)]

\* OFFlow::update(): the command is ADD, whatever the version says.
FlowMod(buf) ==
    LET acts == Actions(buf.text) IN
    [type |-> "FLOW_MOD", command |-> "ADD", fields |-> buf.fields,
     wildcards |-> buf.wildcards, actions |-> acts,
     length |-> FlowModLen + ActionsLen(acts)]

PacketOut(buf) ==
    LET acts == Actions(buf.text) IN
    [type |-> "PACKET_OUT", fields |-> buf.fields, actions |-> acts,
     actions_len |-> ActionsLen(acts),
     length |-> (PacketOutLen + ActionsLen(acts) + buf.data) % 65536]

=============================================================================
