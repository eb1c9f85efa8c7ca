--------------------------- MODULE FlowPathProofs ---------------------------
(***************************************************************************)
(* Theorems of FlowPath.  The files keep an invariant of their own (FInv,  *)
(* in TypedFileProofs), the bus keeps another (BInv), and the handler's job*)
(* a third (JInv): every read up to now said what was promised, and its    *)
(* value is in the field it belongs to, until another read of the same file*)
(* puts a new one there (JobOK).  Which reads there are, for each text of  *)
(* actions, is told by lemmas about the scripts.                           *)
(***************************************************************************)
EXTENDS FlowPath, TypedFileProofs

-----------------------------------------------------------------------------
(* The connection to the bus *)

\* The adapter dispatches only when all handlers are subscribed.
BInv == BusTypeOK /\ SignalsInOrder /\ (phase = "open" => nsub = Len(Subscriptions))

\* The fields of what was dispatched.
LEMMA HandledFields ==
    ASSUME NEW M, NEW s \in Seq([msg : M, to : Handlers]), NEW i \in 1 .. Len(s)
    PROVE s[i].msg \in M
<1> DEFINE S == [msg : M, to : Handlers]
<1>1. s[i] \in S
  <2> HIDE DEF S
  <2>1. s \in Seq(S) BY DEF S
  <2> QED BY <2>1
<1> QED BY <1>1

\* What was handed over is a sequence of messages.
LEMMA HandedType ==
    ASSUME BusTypeOK
    PROVE Handed \in Seq(BusMsgs) /\ Len(Handed) = Len(handled)
<1>1. handled \in Seq([msg : BusMsgs, to : Handlers]) BY DEF BusTypeOK
<1>2. \A i \in 1 .. Len(handled) : handled[i].msg \in BusMsgs BY <1>1, HandledFields
<1>3. Handed = [i \in 1 .. Len(handled) |-> handled[i].msg] BY <1>1 DEF Handed
<1>4. Handed \in [1 .. Len(handled) -> BusMsgs] BY <1>2, <1>3
<1> QED BY <1>1, <1>4

\* Reading moves messages, and changes none.
LEMMA ReadsKeep ==
    ASSUME BusTypeOK, NEW k \in 0 .. Len(socket), Reads(k)
    PROVE /\ incoming' \in Seq(BusMsgs) /\ socket' \in Seq(BusMsgs)
          /\ incoming' \o socket' = incoming \o socket
<1> DEFINE a == SubSeq(socket, 1, k)
           b == SubSeq(socket, k + 1, Len(socket))
<1>1. socket \in Seq(BusMsgs) /\ incoming \in Seq(BusMsgs) BY DEF BusTypeOK
<1>2. a \in Seq(BusMsgs) /\ b \in Seq(BusMsgs) BY <1>1
<1>3. a \o b = SubSeq(socket, 1, Len(socket))
  <2>1. 1 \in 1 .. Len(socket) + 1 /\ k \in 1 - 1 .. Len(socket) /\ Len(socket) \in k .. Len(socket)
    BY <1>1
  <2> QED BY <1>1, <2>1, ConcatAdjacentSubSeq
<1>4. SubSeq(socket, 1, Len(socket)) = socket BY <1>1, SubSeqFull
<1>5. incoming' = incoming \o a /\ socket' = b BY DEF Reads, Front, Rest
<1> HIDE DEF a, b
<1>6. (incoming \o a) \o b = incoming \o (a \o b) BY <1>1, <1>2, ConcatAssociative
<1>7. incoming \o a \in Seq(BusMsgs) BY <1>1, <1>2
<1> QED BY <1>2, <1>3, <1>4, <1>5, <1>6, <1>7

\* Messages may be read at any time.
LEMMA ReadingInv ==
    ASSUME BInv, NEW k \in 0 .. Len(socket), Reads(k), UNCHANGED <<handled, sent>>,
           phase' \in {"closed", "registered", "named", "matched", "open", "dead"},
           nsub' \in 0 .. Len(Subscriptions), reading' \in BOOLEAN,
           nsub' >= nsub, phase' = "open" => nsub' = Len(Subscriptions)
    PROVE BInv'
<1> USE DEF BInv
<1>1. /\ incoming' \in Seq(BusMsgs) /\ socket' \in Seq(BusMsgs)
      /\ incoming' \o socket' = incoming \o socket
  BY ReadsKeep
<1>2. BusTypeOK' BY <1>1 DEF BusTypeOK
<1>3. Handed' = Handed BY DEF Handed
<1>4. Handed \in Seq(BusMsgs) BY HandedType
<1>8. \A a, b, c \in Seq(BusMsgs) : (a \o b) \o c = a \o (b \o c) BY ConcatAssociative
<1>5. Handed' \o incoming' \o socket' = Handed \o (incoming' \o socket')
  BY <1>1, <1>3, <1>4, <1>8
<1>6. Handed \o incoming \o socket = Handed \o (incoming \o socket)
  BY <1>4, <1>8 DEF BusTypeOK
<1>7. SignalsInOrder' BY <1>1, <1>5, <1>6 DEF SignalsInOrder, For
<1> QED BY <1>2, <1>7

\* A handler is called: with a message, which it has been handed then.
LEMMA DispatchInv ==
    ASSUME BInv, NEW m, Dispatch(m)
    PROVE  BInv' /\ m \in BusMsgs /\ Handed' = Append(Handed, m)
<1> USE DEF BInv
<1> DEFINE h == [msg |-> m, to |-> Route(m)]
           S == [msg : BusMsgs, to : Handlers]
<1>1. phase = "open" /\ nsub = 3 /\ incoming # << >> /\ m = Head(incoming)
        /\ incoming \in Seq(BusMsgs) /\ socket \in Seq(BusMsgs)
        /\ handled \in Seq(S)
  BY DEF Dispatch, BusTypeOK, Subscriptions
<1>2. m \in BusMsgs /\ Tail(incoming) \in Seq(BusMsgs) BY <1>1, HeadTailProperties
<1>3. m.type \in MsgTypes BY <1>2, BusAssumption DEF Messages
<1>4. h \in S
  <2>1. Route(m) \in Handlers
    <3>1. CASE HasHandler(m)
      <4>1. \A i \in 1 .. 3 : i = 1 \/ i = 2 \/ i = 3 OBVIOUS
      <4>2. header(m, "member") \in {"NewFlow", "FlowMod", "PacketOut"}
        BY <1>1, <3>1, <4>1 DEF HasHandler, Subscriptions
      <4> QED BY <3>1, <4>2 DEF Route, Handlers
    <3>2. CASE ~HasHandler(m)
      BY <1>3, <3>2 DEF Route, Handlers, DefaultHandlers
    <3> QED BY <3>1, <3>2
  <2> QED BY <1>2, <2>1
<1>5. /\ handled' = Append(handled, h)
      /\ incoming' = Tail(incoming)
      /\ UNCHANGED <<phase, nsub, socket, sent>>
  BY DEF Dispatch
<1>6. reading' \in BOOLEAN BY DEF Dispatch, GoesOn
<1>7. handled' \in Seq(S) /\ Len(handled') = Len(handled) + 1 BY <1>1, <1>4, <1>5
<1>8. BusTypeOK' BY <1>2, <1>5, <1>6, <1>7 DEF BusTypeOK
<1>9. Handed \in Seq(BusMsgs) /\ Len(Handed) = Len(handled) BY HandedType
<1>10. Handed' \in Seq(BusMsgs) /\ Len(Handed') = Len(handled')
  <2>1. \A i \in 1 .. Len(handled') : handled'[i].msg \in BusMsgs BY <1>7, HandledFields
  <2>2. Handed' = [i \in 1 .. Len(handled') |-> handled'[i].msg] BY <1>7 DEF Handed
  <2>3. Handed' \in [1 .. Len(handled') -> BusMsgs] BY <2>1, <2>2
  <2> QED BY <1>7, <2>3
<1>11. Handed' = Append(Handed, m)
  <2> DEFINE a == Append(Handed, m)
             b == Handed'
  <2>1. /\ a \in Seq(BusMsgs) /\ Len(a) = Len(handled) + 1
        /\ a[Len(handled) + 1] = m
        /\ \A i \in 1 .. Len(handled) : a[i] = Handed[i]
    BY <1>2, <1>9, AppendProperties
  <2>2. \A i \in 1 .. Len(handled) + 1 : b[i] = handled'[i].msg BY <1>7 DEF Handed
  <2>3. b \in Seq(BusMsgs) /\ Len(b) = Len(handled) + 1 BY <1>7, <1>10
  <2> HIDE DEF a, b
  <2>4. ASSUME NEW i \in 1 .. Len(handled) + 1
        PROVE b[i] = a[i]
    <3>1. CASE i = Len(handled) + 1
      <4>1. handled'[i] = h BY <1>1, <1>4, <1>5, <3>1
      <4>2. handled'[i].msg = m BY <4>1
      <4> QED BY <2>1, <2>2, <2>4, <3>1, <4>2
    <3>2. CASE i \in 1 .. Len(handled)
      <4>1. handled'[i] = handled[i] BY <1>1, <1>4, <1>5, <3>2
      <4>2. Handed[i] = handled[i].msg BY <1>1, <3>2 DEF Handed
      <4>3. b[i] = handled[i].msg BY <2>2, <2>4, <4>1
      <4>4. a[i] = Handed[i] BY <2>1, <3>2
      <4> QED BY <4>2, <4>3, <4>4
    <3> QED BY <1>1, <2>4, <3>1, <3>2
  <2>5. b = a BY <2>1, <2>3, <2>4, SeqEqual
  <2> QED BY <2>5 DEF a, b
<1>12. Handed' \o incoming' = Handed \o incoming
  <2>1. Append(Handed, m) = Handed \o <<m>> BY <1>2, <1>9, AppendIsConcat
  <2>2. <<m>> \o Tail(incoming) = incoming BY <1>1, <1>2
  <2>3. <<m>> \in Seq(BusMsgs) BY <1>2
  <2>4. (Handed \o <<m>>) \o Tail(incoming) = Handed \o (<<m>> \o Tail(incoming))
    BY <1>2, <1>9, <2>3, ConcatAssociative
  <2> QED BY <1>5, <1>11, <2>1, <2>2, <2>4
<1>13. Route(m) = For(m)
  <2>1. \A i \in 1 .. 3 : i = 1 \/ i = 2 \/ i = 3 OBVIOUS
  <2>2. HasHandler(m) <=> /\ m.type \in {"signal", "method_call"}
                          /\ header(m, "member") \in {"NewFlow", "FlowMod", "PacketOut"}
    BY <1>1, <2>1 DEF HasHandler, Subscriptions
  <2> QED BY <1>3, <2>2 DEF Route, For, DefaultHandlers
<1>14. \A i \in DOMAIN handled' : handled'[i].to = For(handled'[i].msg)
  <2> SUFFICES ASSUME NEW i \in 1 .. Len(handled) + 1
               PROVE handled'[i].to = For(handled'[i].msg)
    BY <1>7
  <2>1. CASE i = Len(handled) + 1
    <3>1. handled'[i] = h BY <1>1, <1>4, <1>5, <2>1
    <3> QED BY <1>13, <3>1
  <2>2. CASE i \in 1 .. Len(handled)
    <3>1. handled'[i] = handled[i] /\ i \in DOMAIN handled BY <1>1, <1>4, <1>5, <2>2
    <3> QED BY <3>1 DEF SignalsInOrder
  <2> QED BY <1>1, <2>1, <2>2
<1>15. SignalsInOrder' BY <1>5, <1>12, <1>14 DEF SignalsInOrder, For
<1> QED BY <1>1, <1>2, <1>5, <1>8, <1>11, <1>15 DEF Subscriptions

\* A message comes.
LEMMA BusSendsInv ==
    ASSUME BInv, NEW m \in BusMsgs, BusSends(m)
    PROVE BInv'
<1> USE DEF BInv
<1>1. socket' = Append(socket, m) /\ sent' = Append(sent, m)
        /\ UNCHANGED <<phase, nsub, incoming, reading, handled>>
  BY DEF BusSends
<1>2. BusTypeOK' BY <1>1 DEF BusTypeOK
<1>3. Handed' = Handed /\ Handed \in Seq(BusMsgs) BY <1>1, HandedType DEF Handed
<1>4. Handed \o incoming \in Seq(BusMsgs) /\ socket \in Seq(BusMsgs) /\ <<m>> \in Seq(BusMsgs)
  BY <1>3 DEF BusTypeOK
<1>5. (Handed \o incoming) \o socket' = Append((Handed \o incoming) \o socket, m)
  <2> DEFINE p == Handed \o incoming
  <2> HIDE DEF p
  <2>1. p \in Seq(BusMsgs) BY <1>4 DEF p
  <2>2. p \o (socket \o <<m>>) = (p \o socket) \o <<m>> BY <1>4, <2>1, ConcatAssociative
  <2>3. p \o socket \in Seq(BusMsgs) BY <1>4, <2>1
  <2>4. Append(socket, m) = socket \o <<m>> BY <1>4, AppendIsConcat
  <2>5. Append(p \o socket, m) = (p \o socket) \o <<m>> BY <2>3, AppendIsConcat
  <2>6. p \o socket' = Append(p \o socket, m) BY <1>1, <2>2, <2>4, <2>5
  <2> QED BY <2>6 DEF p
<1>6. SignalsInOrder' BY <1>1, <1>3, <1>5 DEF SignalsInOrder, For
<1> QED BY <1>1, <1>2, <1>6

\* The rest of the connection's steps.
LEMMA ConnectionInv ==
    ASSUME BInv, Opening \/ OpenFails \/ Ready \/ DispatchThrows
    PROVE BInv'
<1> USE DEF BInv
<1>1. BusTypeOK OBVIOUS
<1>2. CASE Register \/ RequestName \/ AddMatch \/ Subscribe
  <2>1. PICK k \in 0 .. Len(socket) : Reads(k)
    BY <1>2 DEF Register, RequestName, AddMatch, Subscribe, Blocking
  <2>2. UNCHANGED <<reading, handled, sent>>
    BY <1>2 DEF Register, RequestName, AddMatch, Subscribe, Blocking
  <2>3. phase' \in {"registered", "named", "matched"}
    BY <1>2 DEF Register, RequestName, AddMatch, Subscribe
  <2>4. nsub' \in {nsub, nsub + 1} /\ nsub' <= Len(Subscriptions)
    BY <1>1, <1>2 DEF Register, RequestName, AddMatch, Subscribe, BusTypeOK, Subscriptions
  <2>5. nsub' \in 0 .. Len(Subscriptions) /\ nsub' >= nsub
    BY <1>1, <2>4 DEF BusTypeOK
  <2> QED BY <1>1, <2>1, <2>2, <2>3, <2>5, ReadingInv DEF BusTypeOK
<1>3. CASE AddFilter \/ OpenFails \/ DispatchThrows
  <2>1. /\ UNCHANGED <<nsub, socket, incoming, reading, handled, sent>>
        /\ phase' \in {"open", "dead"}
        /\ phase' = "open" => nsub = Len(Subscriptions)
    BY <1>3 DEF AddFilter, OpenFails, DispatchThrows
  <2> QED BY <2>1 DEF BusTypeOK, SignalsInOrder, Handed, For
<1>4. CASE Ready
  <2>1. PICK k \in 1 .. Len(socket) : Reads(k) BY <1>4 DEF Ready
  <2>2. k \in 0 .. Len(socket) BY <2>1
  <2>3. reading' = TRUE /\ UNCHANGED <<phase, nsub, handled, sent>> BY <1>4 DEF Ready
  <2> QED BY <1>1, <2>1, <2>2, <2>3, ReadingInv DEF BusTypeOK
<1> QED BY <1>2, <1>3, <1>4 DEF Opening


\* At first nothing was sent.
LEMMA BusInitInv == BusInit => BInv
<1> SUFFICES ASSUME BusInit PROVE BInv OBVIOUS
<1>1. phase = "closed" /\ nsub = 0 /\ socket = << >> /\ incoming = << >> /\ reading = FALSE
        /\ handled = << >> /\ sent = << >>
  BY DEF BusInit
<1>2. BusTypeOK
  <2>1. \A S : << >> \in Seq(S) OBVIOUS
  <2>2. Len(Subscriptions) = 3 BY DEF Subscriptions
  <2>3. nsub \in 0 .. Len(Subscriptions) BY <1>1, <2>2
  <2>4. socket \in Seq(BusMsgs) /\ incoming \in Seq(BusMsgs) /\ sent \in Seq(BusMsgs)
          /\ handled \in Seq([msg : BusMsgs, to : Handlers])
    BY <1>1, <2>1
  <2> QED BY <1>1, <2>3, <2>4 DEF BusTypeOK
<1>3. Handed \in Seq(BusMsgs) /\ Len(Handed) = 0 BY <1>1, <1>2, HandedType
<1>4. Handed = << >> BY <1>3
<1>5. Handed \o incoming \o socket = sent BY <1>1, <1>4
<1>6. SignalsInOrder BY <1>1, <1>5 DEF SignalsInOrder
<1> QED BY <1>1, <1>2, <1>6 DEF BInv

-----------------------------------------------------------------------------
(* The reads for a message *)

\* What is read, by place.
LEMMA FlowReadsAre ==
    /\ Sequence(FlowReads) /\ Len(FlowReads) = 24
    /\ FlowReads[1] = Aside("flow", "version") /\ FlowReads[2] = Aside("flow", "version")
    /\ FlowReads[3] = Aside("flow", "version") /\ FlowReads[4] = Into("flow", "cookie")
    /\ FlowReads[5] = Into("flow", "idle_timeout")
    /\ FlowReads[6] = Into("flow", "hard_timeout")
    /\ FlowReads[7] = Into("flow", "priority") /\ FlowReads[8] = Into("flow", "buffer_id")
    /\ FlowReads[9] = Into("match", "in_port") /\ FlowReads[10] = Into("match", "dl_src")
    /\ FlowReads[11] = Into("match", "dl_dst") /\ FlowReads[12] = Into("match", "dl_vlan")
    /\ FlowReads[13] = Into("match", "dl_vlan_pcp") /\ FlowReads[14] = Into("match", "dl_type")
    /\ FlowReads[15] = Into("match", "nw_tos") /\ FlowReads[16] = Into("match", "nw_proto")
    /\ FlowReads[17] = Into("match", "nw_src") /\ FlowReads[18] = Into("match", "nw_dst")
    /\ FlowReads[19] = Into("match", "wildcards")
    /\ FlowReads[20] = Step("match", "nw_src", "nw_src_mask")
    /\ FlowReads[21] = Step("match", "nw_dst", "nw_dst_mask")
    /\ FlowReads[22] = Into("match", "tp_src") /\ FlowReads[23] = Into("match", "tp_dst")
    /\ FlowReads[24] = Into("actions", "actions")
<1>1. FlowReads \in Seq({FlowReads[i] : i \in 1 .. 24}) /\ Len(FlowReads) = 24
  BY DEF FlowReads
<1> QED BY <1>1 DEF FlowReads, Sequence

LEMMA PacketOutReadsAre ==
    /\ Sequence(PacketOutReads) /\ Len(PacketOutReads) = 2
    /\ Sequence(DataReads) /\ Len(DataReads) = 3
    /\ PacketOutReads[1] = Aside("out", "state")
    /\ PacketOutReads[2] = Into("out/actions", "actions")
    /\ DataReads[1] = Into("out", "data") /\ DataReads[2] = Into("out", "buffer_id")
    /\ DataReads[3] = Into("out", "in_port")
<1>1. /\ PacketOutReads \in Seq({PacketOutReads[i] : i \in 1 .. 2}) /\ Len(PacketOutReads) = 2
      /\ DataReads \in Seq({DataReads[i] : i \in 1 .. 3}) /\ Len(DataReads) = 3
  BY DEF PacketOutReads, DataReads
<1> QED BY <1>1 DEF PacketOutReads, DataReads, Sequence

\* Where a value of these steps goes is no field.
Inert == {"none", "wildcards", "nw_src_mask", "nw_dst_mask", "actions"}
MaskWords == {"wildcards", "nw_src_mask", "nw_dst_mask"}

\* FileOf() of a kind of message.
DirFor(kind) == IF kind = "flow" THEN "actions" ELSE "out/actions"
FileFor(kind, x) ==
    IF x[1] = 0 THEN <<x[2], x[3]>>
    ELSE <<DirFor(kind), IF x[3] = "max_len" THEN "output_max_len" ELSE x[2]>>

StepFits(kind, s) == s.to[3] \in Inert \/ s.file = FileFor(kind, s.to)

\* Where a step's value goes.
LEMMA StepParts ==
    ASSUME NEW dir, NEW name, NEW field
    PROVE  /\ Step(dir, name, field).file = <<dir, name>>
           /\ Step(dir, name, field).to[1] = 0 /\ Step(dir, name, field).to[2] = dir
           /\ Step(dir, name, field).to[3] = field
           /\ Step(dir, name, field).to = <<0, dir, field>>
BY DEF Step

\* The names in a structure that begins with a part of its own.
LEMMA NamesOfParts ==
    ASSUME NEW a, NEW b, Sequence(a), Sequence(b)
    PROVE  NamesOf(a \o b) \subseteq NamesOf(a) \cup NamesOf(b)
<1>1. IsConcat(a \o b, a, b) BY ConcatAny
<1>2. DOMAIN (a \o b) = 1 .. Len(a) + Len(b) /\ DOMAIN a = 1 .. Len(a) /\ DOMAIN b = 1 .. Len(b)
        /\ Len(a) \in Nat /\ Len(b) \in Nat
  BY <1>1, SequenceAny DEF IsConcat
<1>3. ASSUME NEW i \in DOMAIN (a \o b)
      PROVE  (\E j \in DOMAIN a : (a \o b)[i] = a[j]) \/ (\E j \in DOMAIN b : (a \o b)[i] = b[j])
  <2>1. CASE i <= Len(a)
    <3>1. i \in DOMAIN a BY <1>2, <1>3, <2>1
    <3>2. (a \o b)[i] = a[i] BY <1>1, <1>2, <3>1 DEF IsConcat
    <3> QED BY <3>1, <3>2
  <2>2. CASE i > Len(a)
    <3>1. i - Len(a) \in DOMAIN b /\ Len(a) + (i - Len(a)) = i BY <1>2, <1>3, <2>2
    <3>2. (a \o b)[i] = b[i - Len(a)] BY <1>1, <1>2, <3>1 DEF IsConcat
    <3> QED BY <3>1, <3>2
  <2> QED BY <1>2, <1>3, <2>1, <2>2
<1> QED BY <1>3 DEF NamesOf

\* The fields of the structures of actions.
LEMMA ActionNames ==
    /\ NamesOf(ofp_action_output) \subseteq {"port", "max_len"}
    /\ NamesOf(ofp_action_vlan_vid) \subseteq {"vlan_vid"}
    /\ NamesOf(ofp_action_vlan_pcp) \subseteq {"vlan_pcp"}
    /\ NamesOf(ofp_action_header) = {}
    /\ NamesOf(ofp_action_dl_addr) \subseteq {"dl_addr"}
    /\ NamesOf(ofp_action_nw_addr) \subseteq {"nw_addr"}
    /\ NamesOf(ofp_action_nw_tos) \subseteq {"nw_tos"}
    /\ NamesOf(ofp_action_tp_port) \subseteq {"tp_port"}
<1> DEFINE head == <<<<"type", 2>>, <<"len", 2>>>>
<1>1. ASSUME NEW s, Sequence(s)
      PROVE  NamesOf(Action(s)) \subseteq NamesOf(s)
  <2>1. Sequence(head)
    <3>1. head \in Seq({head[1], head[2]}) OBVIOUS
    <3> QED BY <3>1 DEF Sequence
  <2>2. NamesOf(head) = {} BY DEF NamesOf
  <2>3. Action(s) = head \o s BY DEF Action
  <2> HIDE DEF head
  <2> QED BY <1>1, <2>1, <2>2, <2>3, NamesOfParts
<1> HIDE DEF head
<1>2. ASSUME NEW x
      PROVE  Sequence(<<x>>) /\ NamesOf(<<x>>) \subseteq {x[1]}
                             /\ (x[1] = "pad" => NamesOf(<<x>>) = {})
  <2>1. <<x>> \in Seq({x}) OBVIOUS
  <2>2. DOMAIN <<x>> = {1} /\ <<x>>[1] = x OBVIOUS
  <2>3. {<<x>>[i][1] : i \in DOMAIN <<x>>} = {x[1]} BY <2>2
  <2> QED BY <2>1, <2>3 DEF Sequence, NamesOf
<1>3. ASSUME NEW x, NEW y
      PROVE  Sequence(<<x, y>>) /\ NamesOf(<<x, y>>) \subseteq {x[1], y[1]}
                                /\ (y[1] = "pad" => NamesOf(<<x, y>>) \subseteq {x[1]})
  <2>1. <<x, y>> \in Seq({x, y}) OBVIOUS
  <2>2. DOMAIN <<x, y>> = {1, 2} /\ <<x, y>>[1] = x /\ <<x, y>>[2] = y OBVIOUS
  <2>3. {<<x, y>>[i][1] : i \in DOMAIN <<x, y>>} = {x[1], y[1]} BY <2>2
  <2> QED BY <2>1, <2>3 DEF Sequence, NamesOf
<1>4. \A n, m : <<n, m>>[1] = n OBVIOUS
<1>5. NamesOf(ofp_action_output) \subseteq {"port", "max_len"}
  BY <1>1, <1>3, <1>4 DEF ofp_action_output
<1>6. NamesOf(ofp_action_vlan_vid) \subseteq {"vlan_vid"}
  BY <1>1, <1>3, <1>4 DEF ofp_action_vlan_vid
<1>7. NamesOf(ofp_action_vlan_pcp) \subseteq {"vlan_pcp"}
  BY <1>1, <1>3, <1>4 DEF ofp_action_vlan_pcp
<1>8. NamesOf(ofp_action_header) = {} BY <1>1, <1>2, <1>4 DEF ofp_action_header
<1>9. NamesOf(ofp_action_dl_addr) \subseteq {"dl_addr"}
  BY <1>1, <1>3, <1>4 DEF ofp_action_dl_addr
<1>10. NamesOf(ofp_action_nw_addr) \subseteq {"nw_addr"}
  BY <1>1, <1>2, <1>4 DEF ofp_action_nw_addr
<1>11. NamesOf(ofp_action_nw_tos) \subseteq {"nw_tos"}
  BY <1>1, <1>3, <1>4 DEF ofp_action_nw_tos
<1>12. NamesOf(ofp_action_tp_port) \subseteq {"tp_port"}
  BY <1>1, <1>3, <1>4 DEF ofp_action_tp_port
<1> QED BY <1>5, <1>6, <1>7, <1>8, <1>9, <1>10, <1>11, <1>12

\* The fields of the messages' own structures.
LEMMA MessageNames ==
    /\ NamesOf(ofp_flow_mod) \subseteq
          {"cookie", "idle_timeout", "hard_timeout", "priority", "buffer_id"}
    /\ NamesOf(ofp_match) \subseteq
          {"in_port", "dl_src", "dl_dst", "dl_vlan", "dl_vlan_pcp", "dl_type", "nw_tos",
           "nw_proto", "nw_src", "nw_dst", "tp_src", "tp_dst"}
    /\ NamesOf(ofp_packet_out) \subseteq {"buffer_id", "in_port"}
<1> DEFINE head == <<<<"header", SizeOf(ofp_header)>>>>
           flow == <<<<"match", SizeOf(ofp_match)>>, <<"cookie", 8>>, <<"command", 2>>,
                     <<"idle_timeout", 2>>, <<"hard_timeout", 2>>, <<"priority", 2>>,
                     <<"buffer_id", 4>>, <<"out_port", 2>>, <<"flags", 2>>>>
           out == <<<<"buffer_id", 4>>, <<"in_port", 2>>, <<"actions_len", 2>>>>
<1>1. Sequence(head) /\ NamesOf(head) = {}
  <2>1. head \in Seq({head[1]}) OBVIOUS
  <2>2. NamesOf(head) = {} BY DEF NamesOf
  <2> QED BY <2>1, <2>2 DEF Sequence
<1>2. Sequence(flow) /\ NamesOf(flow) \subseteq
          {"cookie", "idle_timeout", "hard_timeout", "priority", "buffer_id"}
  <2>1. flow \in Seq({flow[i] : i \in 1 .. 9}) OBVIOUS
  <2>2. NamesOf(flow) \subseteq
          {"cookie", "idle_timeout", "hard_timeout", "priority", "buffer_id"}
    BY DEF NamesOf
  <2> QED BY <2>1, <2>2 DEF Sequence
<1>3. Sequence(out) /\ NamesOf(out) \subseteq {"buffer_id", "in_port"}
  <2>1. out \in Seq({out[i] : i \in 1 .. 3}) OBVIOUS
  <2>2. NamesOf(out) \subseteq {"buffer_id", "in_port"} BY DEF NamesOf
  <2> QED BY <2>1, <2>2 DEF Sequence
<1>4. ofp_flow_mod = head \o flow /\ ofp_packet_out = head \o out
  BY DEF ofp_flow_mod, ofp_packet_out, Message
<1>5. NamesOf(ofp_match) \subseteq
          {"in_port", "dl_src", "dl_dst", "dl_vlan", "dl_vlan_pcp", "dl_type", "nw_tos",
           "nw_proto", "nw_src", "nw_dst", "tp_src", "tp_dst"}
  BY DEF NamesOf, ofp_match
<1> HIDE DEF head, flow, out
<1> QED BY <1>1, <1>2, <1>3, <1>4, <1>5, NamesOfParts

\* What is read for each action.
LEMMA ActionReadsAre ==
    ASSUME NEW a \in DOMAIN ActionReads
    PROVE  /\ \A p \in DOMAIN ActionReads[a] :
                 LET n == ActionReads[a][p][2] IN
                 /\ ActionReads[a][p][1] = IF n = "max_len" THEN "output_max_len" ELSE a
                 /\ n \notin Inert \cup {"data"}
           /\ \A n \in NamesOf(ActionOf[a]) :
                 \E p \in DOMAIN ActionReads[a] \cap {1, 2} : ActionReads[a][p][2] = n
<1>1. a \in {"output", "vlan", "vlan_pcp", "strip_vlan", "dl_src", "dl_dst", "nw_src", "nw_dst",
             "nw_tos", "tp_src", "tp_dst"}
  BY DEF ActionReads
<1>2. ASSUME NEW x
      PROVE  DOMAIN <<x>> = {1} /\ <<x>>[1] = x
  OBVIOUS
<1>3. ASSUME NEW x, NEW y
      PROVE  /\ DOMAIN <<x, y>> = {1, 2}
             /\ <<x, y>>[1] = x /\ <<x, y>>[2] = y
  OBVIOUS
<1>4. CASE a = "output"
  <2>1. /\ ActionReads[a] = <<<<"output", "port">>, <<"output_max_len", "max_len">>>>
        /\ ActionOf[a] = ofp_action_output
    BY <1>4 DEF ActionReads, ActionOf
  <2> QED BY <1>3, <1>4, <2>1, ActionNames DEF Inert
<1>5. CASE a = "strip_vlan"
  <2>1. ActionReads[a] = << >> /\ ActionOf[a] = ofp_action_header
    BY <1>5 DEF ActionReads, ActionOf
  <2> QED BY <2>1, ActionNames
<1>6. ASSUME NEW field, ActionReads[a] = <<<<a, field>>>>, field \notin Inert \cup {"data", "max_len"},
             NamesOf(ActionOf[a]) \subseteq {field}
      PROVE  /\ \A p \in DOMAIN ActionReads[a] :
                   LET n == ActionReads[a][p][2] IN
                   /\ ActionReads[a][p][1] = IF n = "max_len" THEN "output_max_len" ELSE a
                   /\ n \notin Inert \cup {"data"}
             /\ \A n \in NamesOf(ActionOf[a]) :
                   \E p \in DOMAIN ActionReads[a] \cap {1, 2} : ActionReads[a][p][2] = n
  <2>1. DOMAIN ActionReads[a] = {1} /\ ActionReads[a][1] = <<a, field>> BY <1>2, <1>6
  <2> QED BY <1>6, <2>1
<1>7. CASE a = "vlan"
  <2>1. ActionReads[a] = <<<<a, "vlan_vid">>>> /\ ActionOf[a] = ofp_action_vlan_vid
    BY <1>7 DEF ActionReads, ActionOf
  <2> QED BY <1>6, <2>1, ActionNames DEF Inert
<1>8. CASE a = "vlan_pcp"
  <2>1. ActionReads[a] = <<<<a, "vlan_pcp">>>> /\ ActionOf[a] = ofp_action_vlan_pcp
    BY <1>8 DEF ActionReads, ActionOf
  <2> QED BY <1>6, <2>1, ActionNames DEF Inert
<1>9. CASE a \in {"dl_src", "dl_dst"}
  <2>1. ActionReads[a] = <<<<a, "dl_addr">>>> /\ ActionOf[a] = ofp_action_dl_addr
    BY <1>9 DEF ActionReads, ActionOf
  <2> QED BY <1>6, <2>1, ActionNames DEF Inert
<1>10. CASE a \in {"nw_src", "nw_dst"}
  <2>1. ActionReads[a] = <<<<a, "nw_addr">>>> /\ ActionOf[a] = ofp_action_nw_addr
    BY <1>10 DEF ActionReads, ActionOf
  <2> QED BY <1>6, <2>1, ActionNames DEF Inert
<1>11. CASE a = "nw_tos"
  <2>1. ActionReads[a] = <<<<a, "nw_tos">>>> /\ ActionOf[a] = ofp_action_nw_tos
    BY <1>11 DEF ActionReads, ActionOf
  <2> QED BY <1>6, <2>1, ActionNames DEF Inert
<1>12. CASE a \in {"tp_src", "tp_dst"}
  <2>1. ActionReads[a] = <<<<a, "tp_port">>>> /\ ActionOf[a] = ofp_action_tp_port
    BY <1>12 DEF ActionReads, ActionOf
  <2> QED BY <1>6, <2>1, ActionNames DEF Inert
<1> QED BY <1>1, <1>4, <1>5, <1>7, <1>8, <1>9, <1>10, <1>11, <1>12

\* The reads of actions fill the fields of their structures, each from its file.
LEMMA ActionStepFits ==
    ASSUME NEW kind, NEW s, Sequence(s), NEW k \in Nat \ {0}, NEW p
    PROVE  LET st == ActionStep(DirFor(kind), Actions(s), k, p) IN
           StepFits(kind, st) /\ st.to[3] \notin MaskWords \cup {"actions", "data"}
<1> DEFINE acts == Actions(s)
           st == ActionStep(DirFor(kind), acts, k, p)
<1>1. CASE k \in DOMAIN acts /\ p \in DOMAIN ActionReads[acts[k]]
  <2> DEFINE a == acts[k]
             n == ActionReads[a][p][2]
  <2>1. a \in DOMAIN ActionReads BY <1>1 DEF Actions
  <2>2. /\ ActionReads[a][p][1] = IF n = "max_len" THEN "output_max_len" ELSE a
        /\ n \notin Inert \cup {"data"}
    BY <1>1, <2>1, ActionReadsAre
  <2>3. st.file = <<DirFor(kind), ActionReads[a][p][1]>> /\ st.to = <<k, a, n>>
    BY <1>1 DEF ActionStep
  <2> HIDE DEF st, n, a, acts
  <2>4. st.to[1] # 0 /\ st.to[2] = a /\ st.to[3] = n BY <2>3
  <2> QED BY <2>2, <2>3, <2>4 DEF StepFits, FileFor, Inert, MaskWords, st, acts
<1>2. CASE ~(k \in DOMAIN acts /\ p \in DOMAIN ActionReads[acts[k]])
  <2>1. st = Step(DirFor(kind), "none", "none") BY <1>2 DEF ActionStep, Aside
  <2>2. st.to[3] = "none" BY <2>1, StepParts
  <2> QED BY <2>2 DEF StepFits, Inert, MaskWords
<1> QED BY <1>1, <1>2

\* The reads of the actions of a text.
LEMMA ReadsForAre ==
    ASSUME NEW kind, NEW s, Sequence(s)
    PROVE  LET r == ReadsFor(DirFor(kind), s) IN
           /\ Sequence(r) /\ Len(r) = 2 * Len(s) /\ Len(s) \in Nat
           /\ \A i \in 1 .. Len(r) :
                 /\ StepFits(kind, r[i])
                 /\ r[i].to[3] \notin MaskWords \cup {"actions", "data"}
           /\ \A k \in DOMAIN Actions(s) : \A n \in NamesOf(ActionOf[Actions(s)[k]]) :
                 \E i \in 1 .. Len(r) : /\ r[i].to = <<k, Actions(s)[k], n>>
                                        /\ r[i].to[3] \notin Inert
<1> DEFINE r == ReadsFor(DirFor(kind), s)
           part(i) == IF i % 2 = 1 THEN 1 ELSE 2
<1>1. Len(s) \in Nat /\ DOMAIN s = 1 .. Len(s) /\ 2 * Len(s) \in Nat BY SequenceAny
<1>2. r = [i \in 1 .. 2 * Len(s) |-> r[i]] BY DEF ReadsFor
<1>3. Sequence(r) /\ Len(r) = 2 * Len(s) BY <1>1, <1>2, FunctionAny
<1>4. ASSUME NEW i \in 1 .. 2 * Len(s)
      PROVE  /\ (i + 1) \div 2 \in Nat \ {0}
             /\ r[i] = ActionStep(DirFor(kind), Actions(s), (i + 1) \div 2, part(i))
  BY <1>1 DEF ReadsFor
<1> HIDE DEF r
<1>5. ASSUME NEW i \in 1 .. 2 * Len(s)
      PROVE  StepFits(kind, r[i]) /\ r[i].to[3] \notin MaskWords \cup {"actions", "data"}
  BY <1>4, ActionStepFits
<1>6. ASSUME NEW k \in DOMAIN Actions(s), NEW n \in NamesOf(ActionOf[Actions(s)[k]])
      PROVE  \E i \in 1 .. Len(r) : r[i].to = <<k, Actions(s)[k], n>> /\ r[i].to[3] \notin Inert
  <2> DEFINE a == Actions(s)[k]
  <2>1. a \in DOMAIN ActionReads /\ k \in 1 .. Len(s) BY <1>1 DEF Actions
  <2>2. PICK p \in DOMAIN ActionReads[a] \cap {1, 2} : ActionReads[a][p][2] = n
    BY <1>6, <2>1, ActionReadsAre
  <2>3. n \notin Inert BY <2>1, <2>2, ActionReadsAre
  <2> DEFINE i == 2 * k - 2 + p
  <2>4. i \in 1 .. 2 * Len(s) /\ (i + 1) \div 2 = k /\ part(i) = p
    <3>1. CASE p = 1 BY <1>1, <2>1, <3>1
    <3>2. CASE p = 2 BY <1>1, <2>1, <3>2
    <3> QED BY <2>2, <3>1, <3>2
  <2> HIDE DEF i, part
  <2>5. r[i] = ActionStep(DirFor(kind), Actions(s), k, p) BY <1>4, <2>4
  <2>6. r[i].to = <<k, a, n>> BY <1>6, <2>2, <2>5 DEF ActionStep
  <2>7. r[i].to[3] = n BY <2>6
  <2> QED BY <1>3, <2>3, <2>4, <2>6, <2>7
<1> QED BY <1>1, <1>3, <1>5, <1>6 DEF r

\* The reads up to that of the actions' text do not depend on it.
Base(kind) == IF kind = "flow" THEN FlowReads ELSE PacketOutReads
TextAt(kind) == IF kind = "flow" THEN 24 ELSE 2

\* The steps of the structures themselves.
LEMMA IntoParts ==
    ASSUME NEW dir, NEW name
    PROVE  /\ Into(dir, name).to = <<0, dir, name>> /\ Into(dir, name).file = <<dir, name>>
           /\ Into(dir, name).to[3] = name /\ Aside(dir, name).to[3] = "none"
BY StepParts DEF Into, Aside

\* They fit.
LEMMA IntoFits ==
    ASSUME NEW kind, NEW dir, NEW name
    PROVE  StepFits(kind, Into(dir, name)) /\ StepFits(kind, Aside(dir, name))
<1>1. Into(dir, name).to[1] = 0 /\ Into(dir, name).to[2] = dir BY StepParts DEF Into
<1>2. StepFits(kind, Into(dir, name)) BY <1>1, IntoParts DEF StepFits, FileFor
<1>3. StepFits(kind, Aside(dir, name)) BY IntoParts DEF StepFits, Inert
<1> QED BY <1>2, <1>3

\* The two masks.
LEMMA MasksFit ==
    ASSUME NEW kind
    PROVE  /\ StepFits(kind, Step("match", "nw_src", "nw_src_mask"))
           /\ StepFits(kind, Step("match", "nw_dst", "nw_dst_mask"))
           /\ Step("match", "nw_src", "nw_src_mask").to[3] = "nw_src_mask"
           /\ Step("match", "nw_dst", "nw_dst_mask").to[3] = "nw_dst_mask"
BY StepParts DEF StepFits, Inert

\* The steps of FlowReads and PacketOutReads.
LEMMA BaseAre ==
    ASSUME NEW kind \in {"flow", "packet_out"}
    PROVE  LET b == Base(kind) IN
           /\ Sequence(b) /\ Len(b) = TextAt(kind) /\ TextAt(kind) \in Nat \ {0}
           /\ \A i \in 1 .. TextAt(kind) : StepFits(kind, b[i]) /\ b[i].to[3] # "data"
           /\ \A i \in 1 .. TextAt(kind) - 1 : b[i].to[3] # "actions"
           /\ b[TextAt(kind)].to[3] = "actions"
           /\ b[TextAt(kind)].file = <<DirFor(kind), "actions">>
<1>1. CASE kind = "flow"
  <2> DEFINE b == FlowReads
  <2>1. Base(kind) = b /\ TextAt(kind) = 24 BY <1>1 DEF Base, TextAt
  <2> DEFINE Good(s) == StepFits(kind, s) /\ s.to[3] # "data"
             Early(s) == s.to[3] # "actions"
  <2>5. \A d, n : (n # "data" => Good(Into(d, n))) /\ Good(Aside(d, n))
    BY IntoFits, IntoParts
  <2>6. \A d, n : (n # "actions" => Early(Into(d, n))) /\ Early(Aside(d, n))
    BY IntoParts
  <2>7. /\ Good(Step("match", "nw_src", "nw_src_mask")) /\ Good(Step("match", "nw_dst", "nw_dst_mask"))
        /\ Early(Step("match", "nw_src", "nw_src_mask"))
        /\ Early(Step("match", "nw_dst", "nw_dst_mask"))
    BY MasksFit
  <2> HIDE DEF Good, Early
  <2>2. \A i \in 1 .. 24 : Good(b[i])
    <3>1. \A i \in 1 .. 8 : Good(b[i])
      <4>1. /\ Good(b[1]) /\ Good(b[2]) /\ Good(b[3]) /\ Good(b[4]) /\ Good(b[5]) /\ Good(b[6])
            /\ Good(b[7]) /\ Good(b[8])
        BY <2>5, FlowReadsAre
      <4> QED BY <4>1
    <3>2. \A i \in 9 .. 16 : Good(b[i])
      <4>1. /\ Good(b[9]) /\ Good(b[10]) /\ Good(b[11]) /\ Good(b[12]) /\ Good(b[13])
            /\ Good(b[14]) /\ Good(b[15]) /\ Good(b[16])
        BY <2>5, FlowReadsAre
      <4> QED BY <4>1
    <3>3. \A i \in 17 .. 24 : Good(b[i])
      <4>1. /\ Good(b[17]) /\ Good(b[18]) /\ Good(b[19]) /\ Good(b[20]) /\ Good(b[21])
            /\ Good(b[22]) /\ Good(b[23]) /\ Good(b[24])
        BY <2>5, <2>7, FlowReadsAre
      <4> QED BY <4>1
    <3>4. \A i \in 1 .. 24 : i \in 1 .. 8 \/ i \in 9 .. 16 \/ i \in 17 .. 24 OBVIOUS
    <3> QED BY <3>1, <3>2, <3>3, <3>4
  <2>3. \A i \in 1 .. 23 : Early(b[i])
    <3>1. \A i \in 1 .. 8 : Early(b[i])
      <4>1. /\ Early(b[1]) /\ Early(b[2]) /\ Early(b[3]) /\ Early(b[4]) /\ Early(b[5])
            /\ Early(b[6]) /\ Early(b[7]) /\ Early(b[8])
        BY <2>6, FlowReadsAre
      <4> QED BY <4>1
    <3>2. \A i \in 9 .. 16 : Early(b[i])
      <4>1. /\ Early(b[9]) /\ Early(b[10]) /\ Early(b[11]) /\ Early(b[12]) /\ Early(b[13])
            /\ Early(b[14]) /\ Early(b[15]) /\ Early(b[16])
        BY <2>6, FlowReadsAre
      <4> QED BY <4>1
    <3>3. \A i \in 17 .. 23 : Early(b[i])
      <4>1. /\ Early(b[17]) /\ Early(b[18]) /\ Early(b[19]) /\ Early(b[20]) /\ Early(b[21])
            /\ Early(b[22]) /\ Early(b[23])
        BY <2>6, <2>7, FlowReadsAre
      <4> QED BY <4>1
    <3>4. \A i \in 1 .. 23 : i \in 1 .. 8 \/ i \in 9 .. 16 \/ i \in 17 .. 23 OBVIOUS
    <3> QED BY <3>1, <3>2, <3>3, <3>4
  <2>4. b[24].to[3] = "actions" /\ b[24].file = <<DirFor(kind), "actions">>
    BY <1>1, FlowReadsAre, IntoParts DEF DirFor
  <2> QED BY <2>1, <2>2, <2>3, <2>4, FlowReadsAre DEF Good, Early
<1>2. CASE kind = "packet_out"
  <2> DEFINE b == PacketOutReads
  <2>1. Base(kind) = b /\ TextAt(kind) = 2 BY <1>2 DEF Base, TextAt
  <2>2. \A i \in 1 .. 2 : i = 1 \/ i = 2 OBVIOUS
  <2>3. \A i \in 1 .. 2 : StepFits(kind, b[i]) /\ b[i].to[3] # "data"
    BY <2>2, PacketOutReadsAre, IntoParts, IntoFits
  <2>4. \A i \in 1 .. 1 : b[i].to[3] # "actions"
    BY PacketOutReadsAre, IntoParts
  <2>5. b[2].to[3] = "actions" /\ b[2].file = <<DirFor(kind), "actions">>
    BY <1>2, PacketOutReadsAre, IntoParts DEF DirFor
  <2> QED BY <2>1, <2>3, <2>4, <2>5, PacketOutReadsAre
<1> QED BY <1>1, <1>2

\* What is read behind the actions.
Behind(kind) == IF kind = "flow" THEN << >> ELSE DataReads

\* c is b, then r, then d.
Joined(c, b, r, d) ==
    /\ Sequence(c) /\ Len(c) = Len(b) + Len(r) + Len(d)
    /\ Len(b) \in Nat /\ Len(r) \in Nat /\ Len(d) \in Nat
    /\ \A i \in 1 .. Len(b) : c[i] = b[i]
    /\ \A i \in 1 .. Len(r) : c[Len(b) + i] = r[i]
    /\ \A i \in 1 .. Len(d) : c[Len(b) + Len(r) + i] = d[i]

\* Three sequences, and two with an empty one.
LEMMA JoinAny ==
    ASSUME NEW b, NEW r, NEW d, Sequence(b), Sequence(r), Sequence(d)
    PROVE  Joined(b \o (r \o d), b, r, d) /\ Joined(b \o r, b, r, << >>)
<1> DEFINE t == r \o d
           c == b \o t
           e == b \o r
<1>1. Len(b) \in Nat /\ Len(r) \in Nat /\ Len(d) \in Nat BY SequenceAny
<1>2. IsConcat(t, r, d) BY ConcatAny
<1>3. IsConcat(e, b, r) BY ConcatAny
<1>4. Joined(e, b, r, << >>)
  <2> DEFINE n == << >>
  <2>1. Len(n) = 0 OBVIOUS
  <2> HIDE DEF e, n
  <2>2. \A i \in 1 .. Len(n) : e[Len(b) + Len(r) + i] = n[i] BY <2>1
  <2>3. Len(e) = Len(b) + Len(r) + Len(n) /\ Sequence(e) /\ Len(n) \in Nat
    BY <1>1, <1>3, <2>1 DEF IsConcat
  <2>4. \A i \in 1 .. Len(b) : e[i] = b[i] BY <1>3 DEF IsConcat
  <2>5. \A i \in 1 .. Len(r) : e[Len(b) + i] = r[i] BY <1>3 DEF IsConcat
  <2> QED BY <1>1, <2>2, <2>3, <2>4, <2>5 DEF Joined, n
<1> HIDE DEF t
<1>5. IsConcat(c, b, t)
  <2>1. Sequence(t) BY <1>2 DEF IsConcat
  <2> QED BY <2>1, ConcatAny
<1> HIDE DEF c, e
<1>6. Len(t) = Len(r) + Len(d) /\ Len(c) = Len(b) + Len(t) /\ Sequence(c)
  BY <1>2, <1>5 DEF IsConcat
<1>7. \A i \in 1 .. Len(b) : c[i] = b[i] BY <1>5 DEF IsConcat
<1>8. ASSUME NEW i \in 1 .. Len(r) PROVE c[Len(b) + i] = r[i]
  <2>1. i \in 1 .. Len(t) BY <1>1, <1>6
  <2>2. c[Len(b) + i] = t[i] BY <1>5, <2>1 DEF IsConcat
  <2>3. t[i] = r[i] BY <1>2 DEF IsConcat
  <2> QED BY <2>2, <2>3
<1>9. ASSUME NEW i \in 1 .. Len(d) PROVE c[Len(b) + Len(r) + i] = d[i]
  <2>1. Len(r) + i \in 1 .. Len(t) /\ Len(b) + (Len(r) + i) = Len(b) + Len(r) + i
    BY <1>1, <1>6
  <2>2. c[Len(b) + (Len(r) + i)] = t[Len(r) + i] BY <1>5, <2>1 DEF IsConcat
  <2>3. t[Len(r) + i] = d[i] BY <1>2 DEF IsConcat
  <2> QED BY <2>1, <2>2, <2>3
<1>10. Len(c) = Len(b) + Len(r) + Len(d) BY <1>1, <1>6
<1>11. Joined(c, b, r, d) BY <1>1, <1>6, <1>7, <1>8, <1>9, <1>10 DEF Joined
<1> QED BY <1>4, <1>11 DEF c, e, t

\* The whole script: the base, the arguments of actions, and what is behind.
LEMMA ScriptIs ==
    ASSUME NEW kind \in {"flow", "packet_out"}, NEW s, Sequence(s)
    PROVE  Joined(Script(kind, s), Base(kind), ReadsFor(DirFor(kind), s), Behind(kind))
<1> DEFINE r == ReadsFor(DirFor(kind), s)
<1>1. Sequence(r) BY ReadsForAre
<1>2. Sequence(Base(kind)) BY BaseAre
<1>3. Sequence(DataReads) BY PacketOutReadsAre
<1>4. CASE kind = "flow"
  <2>1. Script(kind, s) = Base(kind) \o r /\ Behind(kind) = << >>
    BY <1>4 DEF Script, Base, DirFor, Behind
  <2> QED BY <1>1, <1>2, <1>3, <2>1, JoinAny
<1>5. CASE kind = "packet_out"
  <2>1. Script(kind, s) = Base(kind) \o (r \o DataReads) /\ Behind(kind) = DataReads
    BY <1>5 DEF Script, Base, DirFor, Behind
  <2> QED BY <1>1, <1>2, <1>3, <2>1, JoinAny
<1> QED BY <1>4, <1>5

\* Every step of a script puts what it reads where it belongs; only at one place
\* the text of actions is read, and the wildcards and masks at three.
LEMMA ScriptFits ==
    ASSUME NEW kind \in {"flow", "packet_out"}, NEW s, Sequence(s)
    PROVE  LET c == Script(kind, s)  b == TextAt(kind) IN
           /\ Len(c) \in Nat /\ b \in 1 .. Len(c)
           /\ \A i \in 1 .. Len(c) : /\ StepFits(kind, c[i])
                                     /\ c[i].to[3] = "actions" <=> i = b
                                     /\ i <= b => c[i].to[3] # "data" /\ c[i] = Base(kind)[i]
                                     /\ i > b => c[i].to[3] \notin MaskWords
           /\ c[b].file = <<DirFor(kind), "actions">>
<1> DEFINE r == ReadsFor(DirFor(kind), s)
           c == Script(kind, s)
           b == TextAt(kind)
           d == Behind(kind)
<1>1. /\ Len(c) = b + Len(r) + Len(d)
      /\ Len(r) \in Nat /\ Len(d) \in Nat
      /\ \A i \in 1 .. b : c[i] = Base(kind)[i]
      /\ \A i \in 1 .. Len(r) : c[b + i] = r[i]
      /\ \A i \in 1 .. Len(d) : c[b + Len(r) + i] = d[i]
  <2>1. Joined(c, Base(kind), r, d) BY ScriptIs
  <2>2. Len(Base(kind)) = b BY BaseAre
  <2> HIDE DEF c, b, r, d
  <2> QED BY <2>1, <2>2 DEF Joined
<1>2. \A i \in 1 .. Len(r) : /\ StepFits(kind, r[i])
                             /\ r[i].to[3] \notin MaskWords \cup {"actions", "data"}
  BY ReadsForAre
<1>3. \A i \in 1 .. Len(d) : StepFits(kind, d[i]) /\ d[i].to[3] \notin MaskWords \cup {"actions"}
  <2>1. CASE kind = "flow" BY <2>1 DEF Behind
  <2>2. CASE kind = "packet_out"
    <3>1. d = DataReads /\ Len(d) = 3 BY <2>2, PacketOutReadsAre DEF Behind
    <3>2. \A i \in 1 .. 3 : i = 1 \/ i = 2 \/ i = 3 OBVIOUS
    <3> QED BY <3>1, <3>2, PacketOutReadsAre, IntoParts, IntoFits DEF MaskWords
  <2> QED BY <2>1, <2>2
<1>4. /\ b \in Nat \ {0}
      /\ \A i \in 1 .. b : StepFits(kind, Base(kind)[i]) /\ Base(kind)[i].to[3] # "data"
      /\ \A i \in 1 .. b - 1 : Base(kind)[i].to[3] # "actions"
      /\ Base(kind)[b].to[3] = "actions"
      /\ Base(kind)[b].file = <<DirFor(kind), "actions">>
  BY BaseAre
<1> HIDE DEF r, c, b, d
<1>5. ASSUME NEW i \in 1 .. Len(c)
      PROVE  /\ StepFits(kind, c[i])
             /\ c[i].to[3] = "actions" <=> i = b
             /\ i <= b => c[i].to[3] # "data" /\ c[i] = Base(kind)[i]
             /\ i > b => c[i].to[3] \notin MaskWords
  <2>1. CASE i < b
    <3>1. i \in 1 .. b /\ i \in 1 .. b - 1 BY <1>4, <1>5, <2>1
    <3> QED BY <1>1, <1>4, <2>1, <3>1
  <2>2. CASE i = b
    <3>1. i \in 1 .. b BY <1>4, <2>2
    <3> QED BY <1>1, <1>4, <2>2, <3>1
  <2>3. CASE i > b /\ i <= b + Len(r)
    <3>1. i - b \in 1 .. Len(r) /\ b + (i - b) = i BY <1>1, <1>4, <2>3
    <3>2. c[i] = r[i - b] BY <1>1, <3>1
    <3> QED BY <1>2, <1>4, <2>3, <3>1, <3>2
  <2>4. CASE i > b + Len(r)
    <3> DEFINE h == i - b - Len(r)
    <3>1. h \in 1 .. Len(d) /\ b + Len(r) + h = i /\ i > b BY <1>1, <1>4, <1>5, <2>4
    <3> HIDE DEF h
    <3>2. c[i] = d[h] BY <1>1, <3>1
    <3> QED BY <1>3, <1>4, <2>4, <3>1, <3>2
  <2> QED BY <1>1, <1>4, <1>5, <2>1, <2>2, <2>3, <2>4
<1>6. Len(c) \in Nat /\ b \in 1 .. Len(c) BY <1>1, <1>4
<1>7. c[b].file = <<DirFor(kind), "actions">> BY <1>1, <1>4
<1> QED BY <1>5, <1>6, <1>7 DEF c, b

\* Every field a message has is filled by a step of its script.
LEMMA ScriptComplete ==
    ASSUME NEW kind \in {"flow", "packet_out"}, NEW s, Sequence(s),
           NEW m, m.type = IF kind = "flow" THEN "FLOW_MOD" ELSE "PACKET_OUT",
           m.actions = Actions(s), NEW x \in FieldsOf(m)
    PROVE  /\ \E i \in 1 .. Len(Script(kind, s)) :
                 /\ Script(kind, s)[i].to = x /\ Script(kind, s)[i].file = FileOf(m, x)
                 /\ x[3] \notin Inert
<1> DEFINE r == ReadsFor(DirFor(kind), s)
           c == Script(kind, s)
           b == TextAt(kind)
           d == Behind(kind)
<1>1. /\ Len(c) = b + Len(r) + Len(d)
      /\ Len(r) \in Nat /\ Len(d) \in Nat /\ b \in Nat
      /\ \A i \in 1 .. b : c[i] = Base(kind)[i]
      /\ \A i \in 1 .. Len(r) : c[b + i] = r[i]
      /\ \A i \in 1 .. Len(d) : c[b + Len(r) + i] = d[i]
  <2>1. Joined(c, Base(kind), r, d) BY ScriptIs
  <2>2. Len(Base(kind)) = b BY BaseAre
  <2> HIDE DEF c, b, r, d
  <2> QED BY <2>1, <2>2 DEF Joined
<1>2. FileOf(m, x) = FileFor(kind, x) BY DEF FileOf, FileFor, ActionsDir, DirFor
<1>3. \A i \in 1 .. Len(c) : StepFits(kind, c[i]) BY ScriptFits
<1>4. SUFFICES \E i \in 1 .. Len(c) : c[i].to = x /\ x[3] \notin Inert
  BY <1>2, <1>3 DEF StepFits
<1> HIDE DEF r, c, b, d
<1>10. Len(c) \in Nat /\ Len(c) >= b BY <1>1
<1>5. CASE \E n \in NamesOf(ofp_flow_mod) : kind = "flow" /\ x = <<0, "flow", n>>
  <2>1. PICK n \in {"cookie", "idle_timeout", "hard_timeout", "priority", "buffer_id"} :
           kind = "flow" /\ x = <<0, "flow", n>>
    BY <1>5, MessageNames
  <2>2. \E i \in 4 .. 8 : FlowReads[i].to = <<0, "flow", n>>
    <3>1. 4 \in 4 .. 8 /\ 5 \in 4 .. 8 /\ 6 \in 4 .. 8 /\ 7 \in 4 .. 8 /\ 8 \in 4 .. 8 OBVIOUS
    <3> QED BY <2>1, <3>1, FlowReadsAre, IntoParts
  <2>3. b = 24 /\ Base(kind) = FlowReads /\ x[3] = n BY <2>1 DEF TextAt, Base, b
  <2>5. b = 24 BY <2>3
  <2>4. \A i \in 4 .. 8 : i \in 1 .. b /\ i \in 1 .. Len(c) BY <1>10, <2>5
  <2> QED BY <1>1, <2>1, <2>2, <2>3, <2>4 DEF Inert
<1>6. CASE \E n \in NamesOf(ofp_match) : kind = "flow" /\ x = <<0, "match", n>>
  <2>1. PICK n \in {"in_port", "dl_src", "dl_dst", "dl_vlan", "dl_vlan_pcp", "dl_type", "nw_tos",
                    "nw_proto", "nw_src", "nw_dst", "tp_src", "tp_dst"} :
           kind = "flow" /\ x = <<0, "match", n>>
    BY <1>6, MessageNames
  <2>2. \E i \in 9 .. 23 : FlowReads[i].to = <<0, "match", n>>
    <3>1. /\ 9 \in 9 .. 23 /\ 10 \in 9 .. 23 /\ 11 \in 9 .. 23 /\ 12 \in 9 .. 23 /\ 13 \in 9 .. 23
          /\ 14 \in 9 .. 23 /\ 15 \in 9 .. 23 /\ 16 \in 9 .. 23 /\ 17 \in 9 .. 23
          /\ 18 \in 9 .. 23 /\ 22 \in 9 .. 23 /\ 23 \in 9 .. 23
      OBVIOUS
    <3> QED BY <2>1, <3>1, FlowReadsAre, IntoParts
  <2>3. b = 24 /\ Base(kind) = FlowReads /\ x[3] = n BY <2>1 DEF TextAt, Base, b
  <2>5. b = 24 BY <2>3
  <2>4. \A i \in 9 .. 23 : i \in 1 .. b /\ i \in 1 .. Len(c) BY <1>10, <2>5
  <2> QED BY <1>1, <2>1, <2>2, <2>3, <2>4 DEF Inert
<1>7. CASE \E n \in NamesOf(ofp_packet_out) \cup {"data"} :
              kind = "packet_out" /\ x = <<0, "out", n>>
  <2>1. PICK n \in {"buffer_id", "in_port", "data"} : kind = "packet_out" /\ x = <<0, "out", n>>
    BY <1>7, MessageNames
  <2>2. \E i \in 1 .. 3 : DataReads[i].to = <<0, "out", n>>
    <3>1. 1 \in 1 .. 3 /\ 2 \in 1 .. 3 /\ 3 \in 1 .. 3 OBVIOUS
    <3> QED BY <2>1, <3>1, PacketOutReadsAre, IntoParts
  <2>3. d = DataReads /\ Len(d) = 3 /\ x[3] = n BY <2>1, PacketOutReadsAre DEF Behind, d
  <2>4. PICK i \in 1 .. 3 : d[i].to = x BY <2>1, <2>2, <2>3
  <2>5. b + Len(r) + i \in 1 .. Len(c) BY <1>1, <2>3
  <2> QED BY <1>1, <2>1, <2>3, <2>4, <2>5 DEF Inert
<1>8. CASE \E k \in DOMAIN Actions(s) : \E n \in NamesOf(ActionOf[Actions(s)[k]]) :
              x = <<k, Actions(s)[k], n>>
  <2>1. PICK k \in DOMAIN Actions(s) : \E n \in NamesOf(ActionOf[Actions(s)[k]]) :
           x = <<k, Actions(s)[k], n>>
    BY <1>8
  <2>4. PICK n \in NamesOf(ActionOf[Actions(s)[k]]) : x = <<k, Actions(s)[k], n>> BY <2>1
  <2>5. \E i \in 1 .. Len(r) : r[i].to = <<k, Actions(s)[k], n>> /\ r[i].to[3] \notin Inert
    <3>1. \A k2 \in DOMAIN Actions(s) : \A n2 \in NamesOf(ActionOf[Actions(s)[k2]]) :
             \E i \in 1 .. Len(r) : /\ r[i].to = <<k2, Actions(s)[k2], n2>>
                                    /\ r[i].to[3] \notin Inert
      BY ReadsForAre DEF r
    <3> QED BY <3>1
  <2>2. PICK i \in 1 .. Len(r) : r[i].to = x /\ x[3] \notin Inert BY <2>4, <2>5
  <2>3. b + i \in 1 .. Len(c) BY <1>1
  <2> QED BY <1>1, <2>2, <2>3
<1>9. QED
  <2>1. \/ kind = "flow" /\ x \in {<<0, "flow", n>> : n \in NamesOf(ofp_flow_mod)}
        \/ kind = "flow" /\ x \in {<<0, "match", n>> : n \in NamesOf(ofp_match)}
        \/ kind = "packet_out" /\
              x \in {<<0, "out", n>> : n \in NamesOf(ofp_packet_out) \cup {"data"}}
        \/ x \in UNION {{<<k, m.actions[k], n>> : n \in NamesOf(ActionOf[m.actions[k]])} :
                          k \in DOMAIN m.actions}
    BY DEF FieldsOf
  <2> QED BY <1>5, <1>6, <1>7, <1>8, <2>1

-----------------------------------------------------------------------------
(* A message is filled *)

\* v was read from file f.
ReadOf(got, f, v) == \E i \in DOMAIN got : got[i].file = f /\ got[i].val = v

\* Field x of a buffer says v; data for which there is no room is left out.
HoldsIn(buf, x, v) ==
    \/ x \in DOMAIN buf.fields /\ buf.fields[x] = Content(x, v)
    \/ x[3] = "data" /\ Room(Actions(buf.text)) < Len(v)

IsBuf(buf) ==
    buf = [fields |-> buf.fields, wildcards |-> buf.wildcards, text |-> buf.text,
           data |-> buf.data]

\* b is buf after v was put where step to says.
Filled(buf, to, v, b) ==
    /\ IsBuf(b)
    /\ to[3] # "actions" => b.text = buf.text
    /\ to[3] = "actions" => b.text = v
    /\ to[3] \notin MaskWords => b.wildcards = buf.wildcards
    /\ to[3] = "wildcards" => b.wildcards = Word(v)
    /\ to[3] = "nw_src_mask" => b.wildcards = WithMask(buf.wildcards, v, NW_SRC_SHIFT)
    /\ to[3] = "nw_dst_mask" => b.wildcards = WithMask(buf.wildcards, v, NW_DST_SHIFT)
    /\ to[3] \notin Inert => HoldsIn(b, to, v)
    /\ \A x : x # to /\ x \in DOMAIN buf.fields =>
                  x \in DOMAIN b.fields /\ b.fields[x] = buf.fields[x]

\* Fill() does that.
LEMMA FillDoes ==
    ASSUME NEW buf, IsBuf(buf), NEW to, NEW v
    PROVE  Filled(buf, to, v, Fill(buf, to, v))
<1> DEFINE b == Fill(buf, to, v)
           n == to[3]
<1>1. ASSUME NEW f, NEW w, NEW t, NEW d
      PROVE  LET x == [fields |-> f, wildcards |-> w, text |-> t, data |-> d] IN
             x.fields = f /\ x.wildcards = w /\ x.text = t /\ x.data = d /\ IsBuf(x)
  BY DEF IsBuf
<1>2. ASSUME NEW f, NEW w, NEW t, NEW d,
             buf = [fields |-> f, wildcards |-> w, text |-> t, data |-> d]
      PROVE  /\ \A e : [buf EXCEPT !.fields = e] =
                         [fields |-> e, wildcards |-> w, text |-> t, data |-> d]
             /\ \A e : [buf EXCEPT !.wildcards = e] =
                         [fields |-> f, wildcards |-> e, text |-> t, data |-> d]
             /\ \A e : [buf EXCEPT !.text = e] =
                         [fields |-> f, wildcards |-> w, text |-> e, data |-> d]
             /\ \A e, g : [buf EXCEPT !.data = e, !.fields = g] =
                         [fields |-> g, wildcards |-> w, text |-> t, data |-> e]
  <2>1. ASSUME NEW e
        PROVE  [buf EXCEPT !.fields = e] =
                  [fields |-> e, wildcards |-> w, text |-> t, data |-> d]
    BY <1>2
  <2>2. ASSUME NEW e
        PROVE  [buf EXCEPT !.wildcards = e] =
                  [fields |-> f, wildcards |-> e, text |-> t, data |-> d]
    BY <1>2
  <2>3. ASSUME NEW e
        PROVE  [buf EXCEPT !.text = e] =
                  [fields |-> f, wildcards |-> w, text |-> e, data |-> d]
    BY <1>2
  <2>4. ASSUME NEW e, NEW g
        PROVE  [buf EXCEPT !.data = e, !.fields = g] =
                  [fields |-> g, wildcards |-> w, text |-> t, data |-> e]
    <3> DEFINE x == [buf EXCEPT !.data = e]
    <3>1. x = [fields |-> f, wildcards |-> w, text |-> t, data |-> e] BY <1>2
    <3> HIDE DEF x
    <3>2. [x EXCEPT !.fields = g] = [fields |-> g, wildcards |-> w, text |-> t, data |-> e]
      BY <3>1
    <3> QED BY <3>2 DEF x
  <2> QED BY <2>1, <2>2, <2>3, <2>4
<1>3. buf = [fields |-> buf.fields, wildcards |-> buf.wildcards, text |-> buf.text,
             data |-> buf.data]
  BY DEF IsBuf
<1>4. LET F == Set(buf.fields, to, v) IN
      /\ to \in DOMAIN F /\ F[to] = Content(to, v)
      /\ \A x : x # to /\ x \in DOMAIN buf.fields => x \in DOMAIN F /\ F[x] = buf.fields[x]
  BY DEF Set
<1>5. CASE n = "none"
  <2>1. b = buf BY <1>5 DEF Fill
  <2> QED BY <1>5, <2>1 DEF Filled, Inert, MaskWords
<1>6. CASE n = "actions"
  <2>1. b = [buf EXCEPT !.text = v] BY <1>6 DEF Fill
  <2>2. b = [fields |-> buf.fields, wildcards |-> buf.wildcards, text |-> v, data |-> buf.data]
    BY <1>2, <1>3, <2>1
  <2> QED BY <1>1, <1>6, <2>2 DEF Filled, Inert, MaskWords
<1>7. CASE n \in MaskWords
  <2>1. PICK e : /\ b = [buf EXCEPT !.wildcards = e]
                 /\ n = "wildcards" => e = Word(v)
                 /\ n = "nw_src_mask" => e = WithMask(buf.wildcards, v, NW_SRC_SHIFT)
                 /\ n = "nw_dst_mask" => e = WithMask(buf.wildcards, v, NW_DST_SHIFT)
    BY <1>7 DEF Fill, MaskWords
  <2>2. b = [fields |-> buf.fields, wildcards |-> e, text |-> buf.text, data |-> buf.data]
    BY <1>2, <1>3, <2>1
  <2>3. b.fields = buf.fields /\ b.wildcards = e /\ b.text = buf.text /\ IsBuf(b)
    BY <1>1, <2>2
  <2> HIDE DEF b
  <2> QED BY <1>7, <2>1, <2>3 DEF Filled, Inert, MaskWords, b
<1>8. CASE n = "data"
  <2> DEFINE short == Room(Actions(buf.text)) < Len(v)
  <2>1. PICK e, g : /\ b = [buf EXCEPT !.data = e, !.fields = g]
                    /\ g = IF short THEN buf.fields ELSE Set(buf.fields, to, v)
    <3> DEFINE e == DataLen(v, Room(Actions(buf.text)))
               g == IF short THEN buf.fields ELSE Set(buf.fields, to, v)
    <3>1. b = [buf EXCEPT !.data = e, !.fields = g] BY <1>8 DEF Fill
    <3> HIDE DEF e, b, short
    <3> QED BY <3>1
  <2>2. b = [fields |-> g, wildcards |-> buf.wildcards, text |-> buf.text, data |-> e]
    BY <1>2, <1>3, <2>1
  <2>3. b.fields = g /\ b.wildcards = buf.wildcards /\ b.text = buf.text /\ IsBuf(b)
    BY <1>1, <2>2
  <2> HIDE DEF b
  <2>4. HoldsIn(b, to, v)
    <3>1. CASE short BY <1>8, <2>3, <3>1 DEF HoldsIn
    <3>2. CASE ~short BY <1>4, <2>1, <2>3, <3>2 DEF HoldsIn
    <3> QED BY <3>1, <3>2
  <2>5. \A x : x # to /\ x \in DOMAIN buf.fields =>
                   x \in DOMAIN b.fields /\ b.fields[x] = buf.fields[x]
    <3>1. CASE short BY <2>1, <2>3, <3>1
    <3>2. CASE ~short BY <1>4, <2>1, <2>3, <3>2
    <3> QED BY <3>1, <3>2
  <2> QED BY <1>8, <2>3, <2>4, <2>5 DEF Filled, MaskWords, b
<1>9. CASE n \notin {"none", "actions", "data"} \cup MaskWords
  <2> DEFINE F == Set(buf.fields, to, v)
  <2>1. b = [buf EXCEPT !.fields = F] BY <1>9 DEF Fill, MaskWords
  <2> HIDE DEF F
  <2>2. b = [fields |-> F, wildcards |-> buf.wildcards, text |-> buf.text, data |-> buf.data]
    BY <1>2, <1>3, <2>1
  <2>3. b.fields = F /\ b.wildcards = buf.wildcards /\ b.text = buf.text /\ IsBuf(b)
    BY <1>1, <2>2
  <2>4. /\ to \in DOMAIN F /\ F[to] = Content(to, v)
        /\ \A x : x # to /\ x \in DOMAIN buf.fields => x \in DOMAIN F /\ F[x] = buf.fields[x]
    BY <1>4 DEF F
  <2> HIDE DEF b
  <2>5. HoldsIn(b, to, v) BY <2>3, <2>4 DEF HoldsIn
  <2> QED BY <1>9, <2>3, <2>4, <2>5 DEF Filled, MaskWords, b
<1> QED BY <1>5, <1>6, <1>7, <1>8, <1>9

\* A step's field says what was read from its file.
Done(got, buf, s) ==
    s.file \in Files /\ s.to[3] \notin Inert =>
        \E v : ReadOf(got, s.file, v) /\ HoldsIn(buf, s.to, v)

\* What was read stays in the log.
LEMMA ReadOfKept ==
    ASSUME NEW got, Sequence(got), NEW r
    PROVE  /\ \A f, v : ReadOf(got, f, v) => ReadOf(Append(got, r), f, v)
           /\ ReadOf(Append(got, r), r.file, r.val)
<1> DEFINE g == Append(got, r)
<1>1. /\ Sequence(g) /\ Len(g) = Len(got) + 1 /\ g[Len(got) + 1] = r
      /\ \A i \in 1 .. Len(got) : g[i] = got[i]
  BY AppendAny
<1>2. Len(got) \in Nat /\ DOMAIN got = 1 .. Len(got) /\ DOMAIN g = 1 .. Len(got) + 1
  BY <1>1, SequenceAny
<1> HIDE DEF g
<1>3. ReadOf(g, r.file, r.val)
  <2>1. Len(got) + 1 \in DOMAIN g BY <1>2
  <2> QED BY <1>1, <2>1 DEF ReadOf
<1>4. \A f, v : ReadOf(got, f, v) => ReadOf(g, f, v)
  <2>1. \A i \in DOMAIN got : i \in DOMAIN g /\ g[i] = got[i] BY <1>1, <1>2
  <2> QED BY <2>1 DEF ReadOf
<1> QED BY <1>3, <1>4 DEF g

\* A step that is done stays done: the same field is only filled from the same
\* file again.
LEMMA DoneKept ==
    ASSUME NEW kind, NEW got, Sequence(got), NEW buf, NEW s, NEW t, NEW r, NEW b,
           StepFits(kind, s), StepFits(kind, t), r.file = t.file,
           Filled(buf, t.to, r.val, b), Done(got, buf, s),
           t.to[3] = "actions" => s.to[3] # "data"
    PROVE  Done(Append(got, r), b, s)
<1> SUFFICES ASSUME s.file \in Files, s.to[3] \notin Inert
             PROVE  \E v : ReadOf(Append(got, r), s.file, v) /\ HoldsIn(b, s.to, v)
  BY DEF Done
<1>1. CASE s.to = t.to
  <2>1. s.file = r.file BY <1>1 DEF StepFits
  <2>2. HoldsIn(b, s.to, r.val) BY <1>1 DEF Filled
  <2> QED BY <2>1, <2>2, ReadOfKept
<1>2. CASE s.to # t.to
  <2>1. PICK v : ReadOf(got, s.file, v) /\ HoldsIn(buf, s.to, v) BY DEF Done
  <2>2. HoldsIn(b, s.to, v)
    <3>1. CASE s.to \in DOMAIN buf.fields /\ buf.fields[s.to] = Content(s.to, v)
      BY <1>2, <3>1 DEF Filled, HoldsIn
    <3>2. CASE s.to[3] = "data" /\ Room(Actions(buf.text)) < Len(v)
      <4>1. b.text = buf.text BY <3>2 DEF Filled
      <4> QED BY <3>2, <4>1 DEF HoldsIn
    <3> QED BY <2>1, <3>1, <3>2 DEF HoldsIn
  <2> QED BY <2>1, <2>2, ReadOfKept
<1> QED BY <1>1, <1>2

\* A step that was made is done.
LEMMA DoneNow ==
    ASSUME NEW got, Sequence(got), NEW buf, NEW t, NEW r, NEW b, r.file = t.file,
           Filled(buf, t.to, r.val, b)
    PROVE  Done(Append(got, r), b, t)
BY ReadOfKept DEF Done, Filled

-----------------------------------------------------------------------------
(* The word of wildcards *)

WildFile == <<"match", "wildcards">>
SrcFile == <<"match", "nw_src">>
DstFile == <<"match", "nw_dst">>

\* How far the word is made.
WildOK(at, got, word) ==
    /\ at = 20 => \E w : ReadOf(got, WildFile, w) /\ word = Word(w)
    /\ at = 21 => \E w, s : /\ ReadOf(got, WildFile, w) /\ ReadOf(got, SrcFile, s)
                            /\ word = WithMask(Word(w), s, NW_SRC_SHIFT)
    /\ at > 21 => \E w, s, d :
          /\ ReadOf(got, WildFile, w) /\ ReadOf(got, SrcFile, s) /\ ReadOf(got, DstFile, d)
          /\ word = WithMask(WithMask(Word(w), s, NW_SRC_SHIFT), d, NW_DST_SHIFT)

\* The three steps that make it, and those that do not.
LEMMA WildSteps ==
    ASSUME NEW s, Sequence(s)
    PROVE  LET c == Script("flow", s) IN
           /\ Len(c) \in Nat /\ Len(c) >= 24
           /\ c[19].file = WildFile /\ c[19].to[3] = "wildcards"
           /\ c[20].file = SrcFile /\ c[20].to[3] = "nw_src_mask"
           /\ c[21].file = DstFile /\ c[21].to[3] = "nw_dst_mask"
           /\ \A i \in 22 .. Len(c) : c[i].to[3] \notin MaskWords
<1> DEFINE c == Script("flow", s)
<1>1. /\ Len(c) \in Nat /\ 24 \in 1 .. Len(c)
      /\ \A i \in 1 .. Len(c) : /\ i <= 24 => c[i] = Base("flow")[i]
                                /\ i > 24 => c[i].to[3] \notin MaskWords
  BY ScriptFits DEF TextAt
<1>2. Base("flow") = FlowReads BY DEF Base
<1> HIDE DEF c
<1>3. \A i \in 19 .. 24 : i \in 1 .. Len(c) /\ i <= 24 BY <1>1
<1>4. /\ c[19] = Into("match", "wildcards")
      /\ c[20] = Step("match", "nw_src", "nw_src_mask")
      /\ c[21] = Step("match", "nw_dst", "nw_dst_mask")
      /\ c[22] = Into("match", "tp_src") /\ c[23] = Into("match", "tp_dst")
      /\ c[24] = Into("actions", "actions")
  <2>1. \A i \in 19 .. 24 : c[i] = FlowReads[i] BY <1>1, <1>2, <1>3
  <2>2. /\ c[19] = FlowReads[19] /\ c[20] = FlowReads[20] /\ c[21] = FlowReads[21]
        /\ c[22] = FlowReads[22] /\ c[23] = FlowReads[23] /\ c[24] = FlowReads[24]
    BY <2>1
  <2> QED BY <2>2, FlowReadsAre
<1>5. c[22].to[3] \notin MaskWords /\ c[23].to[3] \notin MaskWords /\ c[24].to[3] \notin MaskWords
  BY <1>4, IntoParts DEF MaskWords
<1>6. \A i \in 22 .. Len(c) : c[i].to[3] \notin MaskWords
  <2>1. \A i \in 22 .. Len(c) : i = 22 \/ i = 23 \/ i = 24 \/ (i \in 1 .. Len(c) /\ i > 24)
    BY <1>1
  <2> QED BY <1>1, <1>5, <2>1
<1>7. c[19].file = WildFile /\ c[19].to[3] = "wildcards" BY <1>4, IntoParts DEF WildFile
<1>8. /\ c[20].file = SrcFile /\ c[20].to[3] = "nw_src_mask"
      /\ c[21].file = DstFile /\ c[21].to[3] = "nw_dst_mask"
  BY <1>4, StepParts DEF SrcFile, DstFile
<1>9. Len(c) >= 24 BY <1>1
<1> QED BY <1>1, <1>6, <1>7, <1>8, <1>9 DEF c

\* They are made one after the other.
LEMMA WildKept ==
    ASSUME NEW s, Sequence(s), NEW at \in Nat \ {0}, NEW got, Sequence(got), NEW buf,
           NEW i \in at .. Len(Script("flow", s)), NEW r, NEW b,
           WildFile \in Files,
           \A h \in at .. i - 1 : Script("flow", s)[h].file \notin Files,
           r.file = Script("flow", s)[i].file,
           Filled(buf, Script("flow", s)[i].to, r.val, b),
           WildOK(at, got, buf.wildcards)
    PROVE  WildOK(i + 1, Append(got, r), b.wildcards)
<1> DEFINE c == Script("flow", s)
           g == Append(got, r)
<1>1. /\ Len(c) \in Nat
      /\ c[19].file = WildFile /\ c[19].to[3] = "wildcards"
      /\ c[20].file = SrcFile /\ c[20].to[3] = "nw_src_mask"
      /\ c[21].file = DstFile /\ c[21].to[3] = "nw_dst_mask"
      /\ \A h \in 22 .. Len(c) : c[h].to[3] \notin MaskWords
  BY WildSteps
<1>2. SrcFile \in Files /\ DstFile \in Files
  BY ScriptAssumption DEF WildFile, SrcFile, DstFile
<1>3. /\ \A f, v : ReadOf(got, f, v) => ReadOf(g, f, v)
      /\ ReadOf(g, r.file, r.val)
  BY ReadOfKept
<1> HIDE DEF c, g
<1>4. \A h \in {19, 20, 21} : at <= h => i <= h
  <2>1. \A h \in {19, 20, 21} : c[h].file \in Files BY <1>1, <1>2
  <2>2. \A h \in at .. i - 1 : c[h].file \notin Files BY DEF c
  <2>3. at \in Nat /\ i \in Nat BY <1>1 DEF c
  <2> QED BY <2>1, <2>2, <2>3
<1>5. i \in Nat /\ at \in Nat /\ at <= i /\ i <= Len(c) BY <1>1 DEF c
<1>6. r.file = c[i].file /\ Filled(buf, c[i].to, r.val, b) BY DEF c
<1>7. CASE i < 19
  <2>1. i + 1 # 20 /\ i + 1 # 21 /\ ~(i + 1 > 21) BY <1>5, <1>7
  <2> QED BY <2>1 DEF WildOK
<1>8. CASE i = 19
  <2>1. b.wildcards = Word(r.val) /\ r.file = WildFile BY <1>1, <1>6, <1>8 DEF Filled
  <2>2. i + 1 = 20 /\ i + 1 # 21 /\ ~(i + 1 > 21) BY <1>8
  <2> QED BY <1>3, <2>1, <2>2 DEF WildOK, g
<1>9. CASE i = 20
  <2>1. at = 20 BY <1>4, <1>5, <1>9
  <2>2. PICK w : ReadOf(got, WildFile, w) /\ buf.wildcards = Word(w) BY <2>1 DEF WildOK
  <2>3. b.wildcards = WithMask(buf.wildcards, r.val, NW_SRC_SHIFT) /\ r.file = SrcFile
    BY <1>1, <1>6, <1>9 DEF Filled
  <2>4. i + 1 # 20 /\ i + 1 = 21 /\ ~(i + 1 > 21) BY <1>9
  <2> QED BY <1>3, <2>2, <2>3, <2>4 DEF WildOK, g
<1>10. CASE i = 21
  <2>1. at = 21 BY <1>4, <1>5, <1>10
  <2>2. PICK w, a : /\ ReadOf(got, WildFile, w) /\ ReadOf(got, SrcFile, a)
                    /\ buf.wildcards = WithMask(Word(w), a, NW_SRC_SHIFT)
    BY <2>1 DEF WildOK
  <2>3. b.wildcards = WithMask(buf.wildcards, r.val, NW_DST_SHIFT) /\ r.file = DstFile
    BY <1>1, <1>6, <1>10 DEF Filled
  <2>4. i + 1 # 20 /\ i + 1 # 21 /\ i + 1 > 21 BY <1>10
  <2> QED BY <1>3, <2>2, <2>3, <2>4 DEF WildOK, g
<1>11. CASE i > 21
  <2>1. at > 21 BY <1>4, <1>5, <1>11
  <2>2. PICK w, a, d :
           /\ ReadOf(got, WildFile, w) /\ ReadOf(got, SrcFile, a) /\ ReadOf(got, DstFile, d)
           /\ buf.wildcards = WithMask(WithMask(Word(w), a, NW_SRC_SHIFT), d, NW_DST_SHIFT)
    BY <2>1 DEF WildOK
  <2>3. b.wildcards = buf.wildcards
    <3>1. i \in 22 .. Len(c) BY <1>5, <1>11
    <3>2. c[i].to[3] \notin MaskWords BY <1>1, <3>1
    <3> QED BY <1>6, <3>2 DEF Filled
  <2>4. i + 1 # 20 /\ i + 1 # 21 /\ i + 1 > 21 BY <1>5, <1>11
  <2> QED BY <1>3, <2>2, <2>3, <2>4 DEF WildOK, g
<1> QED BY <1>5, <1>7, <1>8, <1>9, <1>10, <1>11

-----------------------------------------------------------------------------
(* The handler's job *)

\* What a read of file r.file says.
ReadRight(r) ==
    /\ r = [file |-> r.file, val |-> r.val, promised |-> r.promised]
    /\ r.file \in Files
    /\ r.promised # Unsure /\ r.file \notin Of({"u8", "i8"}) =>
          Says(r.file, r.val, Narrow(r.file, r.promised))

IsJob(j) ==
    j = [kind |-> j.kind, at |-> j.at, got |-> j.got, buf |-> j.buf, msg |-> j.msg,
         quiet |-> j.quiet]

TextFile(kind) == <<DirFor(kind), "actions">>

\* The buffer says what was read so far, and so does the message.
JobOK(j) ==
    /\ IsJob(j) /\ IsBuf(j.buf)
    /\ j.kind \in {"flow", "packet_out"} /\ j.quiet \in BOOLEAN
    /\ Sequence(j.got) /\ \A i \in DOMAIN j.got : ReadRight(j.got[i])
    /\ j.at \in Nat \ {0} /\ Sequence(j.buf.text)
    /\ \A i \in 1 .. j.at - 1 : Done(j.got, j.buf, Script(j.kind, j.buf.text)[i])
    /\ j.kind = "flow" /\ WildFile \in Files => WildOK(j.at, j.got, j.buf.wildcards)
    /\ TextFile(j.kind) \in Files /\ j.at > TextAt(j.kind) =>
          ReadOf(j.got, TextFile(j.kind), j.buf.text)
    /\ j.msg # NoMsg =>
          /\ j.msg = IF j.kind = "flow" THEN FlowMod(j.buf) ELSE PacketOut(j.buf)
          /\ LET c == Script(j.kind, j.buf.text) IN
             \A i \in j.at .. Len(c) : c[i].file \notin Files

\* A handler begins with nothing read.
LEMMA BeginOK ==
    ASSUME NEW k \in {"flow", "packet_out"}, NEW q \in BOOLEAN
    PROVE  JobOK([kind |-> k, at |-> 1, got |-> << >>, buf |-> NewBuf, msg |-> NoMsg,
                  quiet |-> q])
<1> DEFINE j == [kind |-> k, at |-> 1, got |-> << >>, buf |-> NewBuf, msg |-> NoMsg, quiet |-> q]
<1>1. /\ j.kind = k /\ j.at = 1 /\ j.got = << >> /\ j.buf = NewBuf /\ j.msg = NoMsg
      /\ j.quiet = q /\ IsJob(j)
  BY DEF IsJob
<1>2. IsBuf(NewBuf) /\ NewBuf.text = << >> BY DEF IsBuf, NewBuf
<1>3. Sequence(<< >>)
  <2>1. << >> \in Seq({}) OBVIOUS
  <2> QED BY <2>1 DEF Sequence
<1> HIDE DEF j
<1>4. 1 \in Nat \ {0} /\ 1 .. 1 - 1 = {} OBVIOUS
<1>5. WildOK(1, << >>, NewBuf.wildcards) BY DEF WildOK
<1>6. ~(1 > TextAt(k)) BY DEF TextAt
<1>7. DOMAIN << >> = {} OBVIOUS
<1> QED BY <1>1, <1>2, <1>3, <1>4, <1>5, <1>6, <1>7 DEF JobOK, j

\* A file is read.
LEMMA ReadOK ==
    ASSUME NEW j, JobOK(j), j.msg = NoMsg,
           NEW i \in j.at .. Len(Script(j.kind, j.buf.text)),
           \A h \in j.at .. i - 1 : Script(j.kind, j.buf.text)[h].file \notin Files,
           NEW r, ReadRight(r), r.file = Script(j.kind, j.buf.text)[i].file,
           r.file = TextFile(j.kind) => Sequence(r.val)
    PROVE  LET step == Script(j.kind, j.buf.text)[i] IN
           JobOK([kind |-> j.kind, at |-> i + 1, got |-> Append(j.got, r),
                  buf |-> Fill(j.buf, step.to, r.val), msg |-> NoMsg, quiet |-> j.quiet])
<1> DEFINE k == j.kind
           s == j.buf.text
           c == Script(k, s)
           t == c[i]
           b == Fill(j.buf, t.to, r.val)
           g == Append(j.got, r)
           n == [kind |-> k, at |-> i + 1, got |-> g, buf |-> b, msg |-> NoMsg,
                 quiet |-> j.quiet]
           B == TextAt(k)
<1>1. /\ IsBuf(j.buf) /\ k \in {"flow", "packet_out"} /\ j.quiet \in BOOLEAN
      /\ Sequence(j.got) /\ Sequence(s) /\ j.at \in Nat \ {0}
      /\ \A h \in DOMAIN j.got : ReadRight(j.got[h])
      /\ \A h \in 1 .. j.at - 1 : Done(j.got, j.buf, c[h])
  BY DEF JobOK
<1>2. Filled(j.buf, t.to, r.val, b) BY <1>1, FillDoes
<1>3. /\ n.kind = k /\ n.at = i + 1 /\ n.got = g /\ n.buf = b /\ n.msg = NoMsg
      /\ n.quiet = j.quiet /\ IsJob(n)
  BY DEF IsJob
<1>4. /\ Len(c) \in Nat /\ B \in 1 .. Len(c)
      /\ \A h \in 1 .. Len(c) : /\ StepFits(k, c[h])
                                /\ c[h].to[3] = "actions" <=> h = B
                                /\ h <= B => c[h].to[3] # "data" /\ c[h] = Base(k)[h]
      /\ c[B].file = TextFile(k)
  <2> HIDE DEF k, s
  <2>1. /\ Len(c) \in Nat /\ B \in 1 .. Len(c)
        /\ \A h \in 1 .. Len(c) : /\ StepFits(k, c[h])
                                  /\ c[h].to[3] = "actions" <=> h = B
                                  /\ h <= B => c[h].to[3] # "data" /\ c[h] = Base(k)[h]
    BY <1>1, ScriptFits
  <2>2. c[B].file = TextFile(k) BY <1>1, ScriptFits DEF TextFile
  <2> QED BY <2>1, <2>2
<1>5. i \in 1 .. Len(c) /\ j.at <= i
  <2>1. i \in j.at .. Len(c) OBVIOUS
  <2> HIDE DEF c
  <2> QED BY <1>1, <1>4, <2>1
<1>6. \A h \in j.at .. i - 1 : c[h].file \notin Files OBVIOUS
<1>7. r.file = t.file /\ (r.file = TextFile(k) => Sequence(r.val)) OBVIOUS
<1>8. /\ k = "flow" /\ WildFile \in Files => WildOK(j.at, j.got, j.buf.wildcards)
      /\ TextFile(k) \in Files /\ j.at > B => ReadOf(j.got, TextFile(k), s)
  BY DEF JobOK
<1> HIDE DEF b, g, n, B
<1>9. Sequence(b.text) /\ (i = B => b.text = r.val) /\ (i # B => b.text = s)
  <2>1. CASE i = B
    <3>1. t.to[3] = "actions" /\ t.file = TextFile(k) BY <1>4, <1>5, <2>1
    <3>2. b.text = r.val BY <1>2, <3>1 DEF Filled
    <3> QED BY <1>7, <2>1, <3>1, <3>2
  <2>2. CASE i # B
    <3>1. t.to[3] # "actions" BY <1>4, <1>5, <2>2
    <3>2. b.text = s BY <1>2, <3>1 DEF Filled
    <3> QED BY <1>1, <2>2, <3>2
  <2> QED BY <2>1, <2>2
<1>10. \A h \in 1 .. i : Script(k, b.text)[h] = c[h]
  <2>1. CASE i # B BY <1>9, <2>1
  <2>2. CASE i = B
    <3>1. \A h \in 1 .. Len(Script(k, b.text)) : h <= B => Script(k, b.text)[h] = Base(k)[h]
      BY <1>1, <1>9, ScriptFits DEF B
    <3>2. B \in 1 .. Len(Script(k, b.text)) /\ Len(Script(k, b.text)) \in Nat
      BY <1>1, <1>9, ScriptFits DEF B
    <3>3. ASSUME NEW h \in 1 .. i
          PROVE  h \in 1 .. Len(Script(k, b.text)) /\ h \in 1 .. Len(c) /\ h <= B
      <4> HIDE DEF c
      <4> QED BY <1>4, <1>5, <2>2, <3>2
    <3> QED BY <1>4, <3>1, <3>3
  <2> QED BY <2>1, <2>2
<1>11. ASSUME NEW h \in 1 .. i
       PROVE  Done(g, b, c[h])
  <2>1. h \in 1 .. Len(c) /\ h \in Nat /\ j.at \in Nat /\ i \in Nat
    <3> HIDE DEF c
    <3> QED BY <1>1, <1>4, <1>5
  <2>2. CASE h = i BY <1>1, <1>2, <1>7, <2>2, DoneNow DEF g
  <2>3. CASE h \in j.at .. i - 1
    <3>1. c[h].file \notin Files BY <1>6, <2>3
    <3> QED BY <3>1 DEF Done
  <2>4. CASE h \in 1 .. j.at - 1
    <3>1. Done(j.got, j.buf, c[h]) BY <1>1, <2>4
    <3>2. StepFits(k, c[h]) /\ StepFits(k, t) BY <1>4, <1>5, <2>1
    <3>3. t.to[3] = "actions" => c[h].to[3] # "data"
      <4>1. SUFFICES ASSUME t.to[3] = "actions" PROVE c[h].to[3] # "data" OBVIOUS
      <4>2. i = B BY <1>4, <1>5, <4>1
      <4>3. h <= B BY <2>1, <4>2
      <4> QED BY <1>4, <2>1, <4>3
    <3> HIDE DEF t, c, k, s
    <3> QED BY <1>1, <1>2, <1>7, <3>1, <3>2, <3>3, DoneKept DEF g
  <2>5. h = i \/ h \in j.at .. i - 1 \/ h \in 1 .. j.at - 1 BY <2>1, <1>11
  <2> QED BY <2>2, <2>3, <2>4, <2>5
<1>12. Sequence(g) /\ \A h \in DOMAIN g : ReadRight(g[h])
  <2>1. /\ Sequence(g)
        /\ \A h \in DOMAIN g : (h \in DOMAIN j.got /\ g[h] = j.got[h]) \/ g[h] = r
    BY <1>1, AppendAny DEF g
  <2> QED BY <1>1, <2>1
<1>13. k = "flow" /\ WildFile \in Files => WildOK(i + 1, g, b.wildcards)
  <2> SUFFICES ASSUME k = "flow", WildFile \in Files PROVE WildOK(i + 1, g, b.wildcards)
    OBVIOUS
  <2>1. c = Script("flow", s) OBVIOUS
  <2>2. i \in j.at .. Len(Script("flow", s)) BY <2>1
  <2>3. \A h \in j.at .. i - 1 : Script("flow", s)[h].file \notin Files BY <1>6, <2>1
  <2>4. r.file = Script("flow", s)[i].file /\ Filled(j.buf, Script("flow", s)[i].to, r.val, b)
    BY <1>2, <1>7, <2>1
  <2>5. WildOK(j.at, j.got, j.buf.wildcards) BY <1>8
  <2> HIDE DEF c, t, k, s
  <2> QED BY <1>1, <2>2, <2>3, <2>4, <2>5, WildKept DEF g
<1>14. TextFile(k) \in Files /\ i + 1 > B => ReadOf(g, TextFile(k), b.text)
  <2> SUFFICES ASSUME TextFile(k) \in Files, i + 1 > B PROVE ReadOf(g, TextFile(k), b.text)
    OBVIOUS
  <2>1. i \in Nat /\ B \in Nat /\ j.at \in Nat
    <3> HIDE DEF c
    <3> QED BY <1>1, <1>4, <1>5
  <2>2. CASE i = B
    <3>1. r.file = TextFile(k) BY <1>4, <1>7, <2>2
    <3> QED BY <1>1, <1>9, <2>2, <3>1, ReadOfKept DEF g
  <2>3. CASE i > B
    <3>1. j.at > B
      <4>1. B \in j.at .. i - 1 => c[B].file \notin Files BY <1>6
      <4>2. B \notin j.at .. i - 1 BY <1>4, <4>1
      <4> QED BY <2>1, <2>3, <4>2
    <3>2. ReadOf(j.got, TextFile(k), s) BY <1>8, <3>1
    <3>3. b.text = s BY <1>9, <2>1, <2>3
    <3> QED BY <1>1, <3>2, <3>3, ReadOfKept DEF g
  <2> QED BY <2>1, <2>2, <2>3
<1>15. i + 1 \in Nat \ {0} /\ 1 .. (i + 1) - 1 = 1 .. i
  <2> HIDE DEF c
  <2> QED BY <1>4, <1>5
<1>16. \A h \in 1 .. i : Done(g, b, Script(k, b.text)[h]) BY <1>10, <1>11
<1>17. IsBuf(b) BY <1>2 DEF Filled
<1> HIDE DEF c, t, k, s
<1>18. JobOK(n)
  BY <1>1, <1>3, <1>8, <1>9, <1>12, <1>13, <1>14, <1>15, <1>16, <1>17 DEF JobOK, B
<1> QED BY <1>18 DEF n, g, b, t, c, k, s

\* The message is made.
LEMMA SendOK ==
    ASSUME NEW j, JobOK(j),
           \A i \in j.at .. Len(Script(j.kind, j.buf.text)) :
              Script(j.kind, j.buf.text)[i].file \notin Files
    PROVE  JobOK([j EXCEPT !.msg = IF j.kind = "flow" THEN FlowMod(j.buf) ELSE PacketOut(j.buf)])
<1> DEFINE m == IF j.kind = "flow" THEN FlowMod(j.buf) ELSE PacketOut(j.buf)
           n == [j EXCEPT !.msg = m]
<1> HIDE DEF m
<1>1. /\ n.kind = j.kind /\ n.at = j.at /\ n.got = j.got /\ n.buf = j.buf /\ n.msg = m
      /\ n.quiet = j.quiet /\ IsJob(n)
  <2>1. j = [kind |-> j.kind, at |-> j.at, got |-> j.got, buf |-> j.buf, msg |-> j.msg,
             quiet |-> j.quiet]
    BY DEF JobOK, IsJob
  <2>2. n = [kind |-> j.kind, at |-> j.at, got |-> j.got, buf |-> j.buf, msg |-> m,
             quiet |-> j.quiet]
    BY <2>1
  <2> HIDE DEF n
  <2> QED BY <2>2 DEF IsJob
<1> HIDE DEF n
<1>2. JobOK(n) BY <1>1 DEF JobOK, m
<1> QED BY <1>2 DEF n, m

\* And somebody writes.
LEMMA WriteOK ==
    ASSUME NEW j, JobOK(j)
    PROVE  /\ JobOK([j EXCEPT !.quiet = FALSE])
           /\ [j EXCEPT !.quiet = FALSE].got = j.got
           /\ [j EXCEPT !.quiet = FALSE].quiet = FALSE
<1> DEFINE n == [j EXCEPT !.quiet = FALSE]
<1>1. /\ n.kind = j.kind /\ n.at = j.at /\ n.got = j.got /\ n.buf = j.buf /\ n.msg = j.msg
      /\ n.quiet = FALSE /\ IsJob(n)
  <2>1. j = [kind |-> j.kind, at |-> j.at, got |-> j.got, buf |-> j.buf, msg |-> j.msg,
             quiet |-> j.quiet]
    BY DEF JobOK, IsJob
  <2>3. \A q : [j EXCEPT !.quiet = q] =
                  [kind |-> j.kind, at |-> j.at, got |-> j.got, buf |-> j.buf, msg |-> j.msg,
                   quiet |-> q]
    BY <2>1
  <2>2. n = [kind |-> j.kind, at |-> j.at, got |-> j.got, buf |-> j.buf, msg |-> j.msg,
             quiet |-> FALSE]
    BY <2>3, Zenon
  <2> HIDE DEF n
  <2> QED BY <2>2 DEF IsJob
<1> HIDE DEF n
<1>2. JobOK(n) BY <1>1 DEF JobOK
<1> QED BY <1>1, <1>2 DEF n


JInv ==
    job # NoJob =>
        /\ phase = "open"
        /\ \E j : j = job /\ JobOK(j)
        /\ job.quiet => \A i \in DOMAIN job.got : job.got[i].val = Bound(job.got[i].file)

Inv == FInv /\ BInv /\ JInv /\ writes \in 0 .. MaxWrites

\* A read returns what was promised.
LEMMA ReadKeepsPromise ==
    ASSUME FInv, NEW f \in Files
    PROVE ReadRight([file |-> f, val |-> Bound(f), promised |-> asked[f]])
<1> SUFFICES ASSUME asked[f] # Unsure, f \notin Of({"u8", "i8"})
             PROVE Says(f, Bound(f), Narrow(f, asked[f]))
  BY DEF ReadRight
<1>1. sized[f] /\ Says(f, val[f], asked[f]) BY DEF FInv, PromisesHold
<1>2. Read(f) = val[f] BY <1>1 DEF Read, ReadNumber, ReadAddress, ReadText
<1>3. CASE f \in Of(Strings)
  <2>1. f \notin Of({"u32"}) BY <1>3 DEF Of, Strings
  <2> QED BY <1>1, <1>2, <2>1 DEF Bound, Narrow
<1>4. CASE f \notin Of(Strings)
  <2>1. val[f] = asked[f] BY <1>1, <1>4 DEF Says
  <2> QED BY <1>2, <1>4, <2>1 DEF Bound, Says
<1> QED BY <1>3, <1>4

\* The file of actions is text.
LEMMA TextIsRead ==
    ASSUME FInv, NEW kind, TextFile(kind) \in Files
    PROVE  Sequence(Bound(TextFile(kind)))
<1> DEFINE f == TextFile(kind)
<1>1. f \in Of({"str"})
  <2>1. DirFor(kind) \in {"actions", "out/actions"} BY DEF DirFor
  <2> QED BY <2>1, ScriptAssumption DEF TextFile
<1> HIDE DEF f
<1>2. f \in Files /\ TypeOf[f] = "str" BY <1>1 DEF Of
<1>3. f \notin Of(Ints) /\ f \notin Of(Addrs) /\ f \notin Of({"u32"})
  BY <1>2 DEF Of, Ints, Signed, Addrs
<1>4. val[f] \in Seq(Chars) BY <1>2, <1>3 DEF FInv, FilesTypeOK
<1>5. Bound(f) = val[f] BY <1>3 DEF Bound, Narrow, Read, ReadText
<1> QED BY <1>4, <1>5 DEF Sequence, f

\* No file changes, and so nothing that is read of files.
LEMMA ReadsKept ==
    ASSUME FInv, UNCHANGED fileVars
    PROVE FInv' /\ \A f : Bound(f)' = Bound(f)
<1>1. FInv' BY FilesKept
<1>2. \A f : Bound(f)' = Bound(f)
  BY DEF fileVars, Bound, Narrow, Read, ReadNumber, ReadAddress, ReadText
<1> QED BY <1>1, <1>2

\* Nothing of the connection changes.
LEMMA BusKept ==
    ASSUME BInv, UNCHANGED busVars
    PROVE BInv'
BY DEF busVars, BInv, BusTypeOK, SignalsInOrder, Handed, For

\* A signal's handler begins.
LEMMA HandleInv ==
    ASSUME Inv, NEW m \in BusMsgs, Handle(m)
    PROVE Inv'
<1> USE DEF Inv
<1>1. Dispatch(m) /\ job' = JobOf(Route(m)) /\ UNCHANGED fileVars /\ UNCHANGED writes
  BY DEF Handle
<1>2. BInv' BY <1>1, DispatchInv
<1>3. FInv' BY <1>1, ReadsKept
<1>4. JInv'
  <2> SUFFICES ASSUME job' # NoJob PROVE JInv' BY DEF JInv
  <2>1. PICK k \in {"flow", "packet_out"} : job' = Begin(k)
    BY <1>1 DEF JobOf
  <2>2. PICK q \in BOOLEAN : q = (pending = NoWrite) OBVIOUS
  <2>3. PICK j : j = job' OBVIOUS
  <2>4. j = [kind |-> k, at |-> 1, got |-> << >>, buf |-> NewBuf, msg |-> NoMsg, quiet |-> q]
    BY <2>1, <2>2, <2>3 DEF Begin
  <2>5. JobOK(j) BY <2>4, BeginOK
  <2>6. phase' = "open" BY <1>1 DEF Dispatch
  <2>7. DOMAIN j.got = {} BY <2>4
  <2> QED BY <2>3, <2>5, <2>6, <2>7 DEF JInv
<1> QED BY <1>1, <1>2, <1>3, <1>4

\* A file is read.
LEMMA ReadNextInv ==
    ASSUME Inv, ReadNext
    PROVE Inv'
<1> USE DEF Inv
<1>1. /\ job # NoJob /\ job.msg = NoMsg
      /\ UNCHANGED fileVars /\ UNCHANGED busVars /\ UNCHANGED writes
  BY DEF ReadNext
<1>2. FInv' /\ \A h : Bound(h)' = Bound(h) BY <1>1, ReadsKept
<1>3. BInv' BY <1>1, BusKept
<1>4. PICK j : j = job /\ JobOK(j) BY <1>1 DEF JInv
<1> DEFINE c == Script(j.kind, j.buf.text)
<1>5. PICK i \in j.at .. Len(c) :
         /\ c[i].file \in Files
         /\ \A h \in j.at .. i - 1 : c[h].file \notin Files
         /\ job' = [job EXCEPT !.at = i + 1,
                               !.got = Append(@, [file |-> c[i].file, val |-> Bound(c[i].file),
                                                  promised |-> asked[c[i].file]]),
                               !.buf = Fill(@, c[i].to, Bound(c[i].file))]
  BY <1>4 DEF ReadNext, Steps, Untracked
<1> DEFINE f == c[i].file
           to == c[i].to
<1> HIDE DEF c
<1>6. PICK v, p : v = Bound(f) /\ p = asked[f] OBVIOUS
<1> DEFINE r == [file |-> f, val |-> v, promised |-> p]
<1>7. ReadRight(r) BY <1>5, <1>6, ReadKeepsPromise
<1>8. r.file = f /\ r.val = v OBVIOUS
<1>9. f = TextFile(j.kind) => Sequence(v) BY <1>5, <1>6, TextIsRead
<1>10. PICK n : n = job' OBVIOUS
<1>11. n = [j EXCEPT !.at = i + 1, !.got = Append(@, r), !.buf = Fill(@, to, v)]
  BY <1>4, <1>5, <1>6, <1>10
<1> HIDE DEF r, f, to
<1>12. n = [kind |-> j.kind, at |-> i + 1, got |-> Append(j.got, r),
            buf |-> Fill(j.buf, to, v), msg |-> NoMsg, quiet |-> j.quiet]
  <2>1. j = [kind |-> j.kind, at |-> j.at, got |-> j.got, buf |-> j.buf, msg |-> NoMsg,
             quiet |-> j.quiet]
    BY <1>1, <1>4 DEF JobOK, IsJob
  <2>2. \A a, g, b : [j EXCEPT !.at = a, !.got = g, !.buf = b] =
           [kind |-> j.kind, at |-> a, got |-> g, buf |-> b, msg |-> NoMsg, quiet |-> j.quiet]
    <3> SUFFICES ASSUME NEW a, NEW g, NEW b
                 PROVE  [j EXCEPT !.at = a, !.got = g, !.buf = b] =
                           [kind |-> j.kind, at |-> a, got |-> g, buf |-> b, msg |-> NoMsg,
                            quiet |-> j.quiet]
      OBVIOUS
    <3> DEFINE x == [j EXCEPT !.at = a]
               y == [x EXCEPT !.got = g]
    <3>1. x = [kind |-> j.kind, at |-> a, got |-> j.got, buf |-> j.buf, msg |-> NoMsg,
               quiet |-> j.quiet]
      BY <2>1
    <3> HIDE DEF x
    <3>2. y = [kind |-> j.kind, at |-> a, got |-> g, buf |-> j.buf, msg |-> NoMsg,
               quiet |-> j.quiet]
      BY <3>1
    <3> HIDE DEF y
    <3>3. [y EXCEPT !.buf = b] = [kind |-> j.kind, at |-> a, got |-> g, buf |-> b,
                                  msg |-> NoMsg, quiet |-> j.quiet]
      BY <3>2
    <3> QED BY <3>3 DEF x, y
  <2>3. n = [j EXCEPT !.at = i + 1, !.got = Append(j.got, r), !.buf = Fill(j.buf, to, v)]
    BY <1>11
  <2> QED BY <2>2, <2>3
<1>13. JobOK(n)
  <2>1. j.msg = NoMsg BY <1>1, <1>4
  <2>2. i \in j.at .. Len(Script(j.kind, j.buf.text)) BY <1>5 DEF c
  <2>3. \A h \in j.at .. i - 1 : Script(j.kind, j.buf.text)[h].file \notin Files
    BY <1>5 DEF c
  <2>4. r.file = Script(j.kind, j.buf.text)[i].file BY <1>8 DEF c, f
  <2>5. r.file = TextFile(j.kind) => Sequence(r.val) BY <1>8, <1>9
  <2>6. n = [kind |-> j.kind, at |-> i + 1, got |-> Append(j.got, r),
             buf |-> Fill(j.buf, Script(j.kind, j.buf.text)[i].to, r.val), msg |-> NoMsg,
             quiet |-> j.quiet]
    BY <1>8, <1>12 DEF to, c
  <2> QED BY <1>4, <1>7, <2>1, <2>2, <2>3, <2>4, <2>5, <2>6, ReadOK
<1>14. n.got = Append(j.got, r) /\ n.quiet = j.quiet BY <1>12
<1>15. n.quiet => \A h \in DOMAIN n.got : n.got[h].val = Bound(n.got[h].file)
  <2> SUFFICES ASSUME n.quiet, NEW h \in DOMAIN n.got
               PROVE  n.got[h].val = Bound(n.got[h].file)
    OBVIOUS
  <2>1. (h \in DOMAIN j.got /\ n.got[h] = j.got[h]) \/ n.got[h] = r
    BY <1>4, <1>14, AppendAny DEF JobOK
  <2>2. \A k \in DOMAIN j.got : j.got[k].val = Bound(j.got[k].file)
    BY <1>1, <1>4, <1>14 DEF JInv
  <2>3. r.val = Bound(r.file) BY <1>6, <1>8
  <2> QED BY <2>1, <2>2, <2>3
<1>16. JInv'
  <2>1. phase' = "open" BY <1>1 DEF JInv, busVars
  <2>2. (job.quiet => \A h \in DOMAIN job.got : job.got[h].val = Bound(job.got[h].file))'
    BY <1>1, <1>10, <1>15
       DEF Bound, Narrow, Read, ReadNumber, ReadAddress, ReadText, fileVars
  <2> QED BY <1>10, <1>13, <2>1, <2>2 DEF JInv
<1> QED BY <1>1, <1>2, <1>3, <1>16

\* What was read stays right as long as the job and the files stay.
LEMMA JobKept ==
    ASSUME JInv, UNCHANGED job, UNCHANGED fileVars, job # NoJob => phase' = phase
    PROVE JInv'
<1> SUFFICES ASSUME job # NoJob PROVE JInv' BY DEF JInv
<1>1. PICK j : j = job /\ JobOK(j) BY DEF JInv
<1>2. (job.quiet => \A i \in DOMAIN job.got : job.got[i].val = Bound(job.got[i].file))'
  BY DEF JInv, Bound, Narrow, Read, ReadNumber, ReadAddress, ReadText, fileVars
<1>3. j = job' BY <1>1
<1> QED BY <1>1, <1>2, <1>3 DEF JInv

\* The message is made of the buffer.
LEMMA SendMessageInv ==
    ASSUME Inv, SendMessage
    PROVE Inv'
<1> USE DEF Inv
<1>1. /\ job # NoJob /\ UNCHANGED fileVars /\ UNCHANGED busVars /\ UNCHANGED writes
  BY DEF SendMessage
<1>2. FInv' BY <1>1, ReadsKept
<1>3. BInv' BY <1>1, BusKept
<1>4. PICK j : j = job /\ JobOK(j) BY <1>1 DEF JInv
<1>5. PICK n : n = job' OBVIOUS
<1>6. /\ n = [j EXCEPT !.msg = IF j.kind = "flow" THEN FlowMod(j.buf) ELSE PacketOut(j.buf)]
      /\ \A i \in j.at .. Len(Script(j.kind, j.buf.text)) :
            Script(j.kind, j.buf.text)[i].file \notin Files
  BY <1>4, <1>5 DEF SendMessage, Steps, Untracked
<1>7. JobOK(n) BY <1>4, <1>6, SendOK
<1>8. n.got = j.got /\ n.quiet = j.quiet
  <2>1. j = [kind |-> j.kind, at |-> j.at, got |-> j.got, buf |-> j.buf, msg |-> j.msg,
             quiet |-> j.quiet]
    BY <1>4 DEF JobOK, IsJob
  <2>2. \A m : [j EXCEPT !.msg = m].got = j.got /\ [j EXCEPT !.msg = m].quiet = j.quiet
    BY <2>1
  <2> QED BY <1>6, <2>2
<1>9. JInv'
  <2>1. phase' = "open" BY <1>1 DEF JInv, busVars
  <2>2. n.quiet => \A h \in DOMAIN n.got : n.got[h].val = Bound(n.got[h].file)
    BY <1>1, <1>4, <1>8 DEF JInv
  <2>3. (job.quiet => \A h \in DOMAIN job.got : job.got[h].val = Bound(job.got[h].file))'
    BY <1>1, <1>5, <2>2
       DEF Bound, Narrow, Read, ReadNumber, ReadAddress, ReadText, fileVars
  <2> QED BY <1>5, <1>7, <2>1, <2>3 DEF JInv
<1> QED BY <1>1, <1>2, <1>3, <1>9

\* The handler returns, or the connection is used while none runs.
LEMMA ReturnInv ==
    ASSUME Inv, Return \/ ConnectionStep
    PROVE Inv'
<1> USE DEF Inv
<1>1. UNCHANGED fileVars /\ UNCHANGED writes BY DEF Return, ConnectionStep
<1>2. FInv' BY <1>1, ReadsKept
<1>3. job' = NoJob BY DEF Return, ConnectionStep
<1>4. CASE Return
  <2>1. BInv' BY <1>4, BusKept DEF Return
  <2> QED BY <1>1, <1>2, <1>3, <2>1 DEF JInv
<1>5. CASE ConnectionStep
  <2>1. BInv' BY <1>5, ConnectionInv DEF ConnectionStep
  <2> QED BY <1>1, <1>2, <1>3, <2>1 DEF JInv
<1> QED BY <1>4, <1>5

\* An application writes: from now on the job is not quiet.
LEMMA AppWritesInv ==
    ASSUME Inv, AppWrites
    PROVE Inv'
<1> USE DEF Inv
<1>1. BInv' BY BusKept DEF AppWrites
<1>2. FInv'
  <2>1. CASE WriteRest BY <2>1, WriteRestInv
  <2>2. CASE \E f \in Files : \E t \in Texts[f] : Write(f, t)
    <3>1. PICK f \in Files : \E t \in Texts[f] : Write(f, t) BY <2>2
    <3>2. PICK t \in Texts[f] : Write(f, t) BY <3>1
    <3> QED BY <3>2, TextsAreTexts, WriteInv
  <2> QED BY <2>1, <2>2 DEF AppWrites
<1>3. writes' \in 0 .. MaxWrites BY WritesAssumption DEF AppWrites
<1>4. JInv'
  <2>1. CASE job = NoJob BY <2>1 DEF AppWrites, JInv
  <2>2. CASE job # NoJob
    <3>1. job' = [job EXCEPT !.quiet = FALSE] /\ UNCHANGED busVars BY <2>2 DEF AppWrites
    <3>2. PICK j : j = job /\ JobOK(j) BY <2>2 DEF JInv
    <3>3. PICK n : n = job' OBVIOUS
    <3>4. n = [j EXCEPT !.quiet = FALSE] BY <3>1, <3>2, <3>3
    <3>5. JobOK(n) /\ n.quiet = FALSE BY <3>2, <3>4, WriteOK
    <3>6. phase' = "open" BY <2>2, <3>1 DEF JInv, busVars
    <3>7. ~(job.quiet)' BY <3>3, <3>5
    <3> QED BY <3>3, <3>5, <3>6, <3>7 DEF JInv
  <2> QED BY <2>1, <2>2
<1> QED BY <1>1, <1>2, <1>3, <1>4

\* A program sends a message.
LEMMA AppSignalsInv ==
    ASSUME Inv, AppSignals
    PROVE Inv'
<1> USE DEF Inv
<1>1. PICK m \in BusMsgs : BusSends(m) BY DEF AppSignals
<1>2. UNCHANGED <<fileVars, job, writes>> BY DEF AppSignals
<1>3. FInv' BY <1>2, ReadsKept
<1>4. BInv' BY <1>1, BusSendsInv
<1>5. phase' = phase BY <1>1 DEF BusSends
<1>6. JInv' BY <1>2, <1>5, JobKept
<1> QED BY <1>2, <1>3, <1>4, <1>6

-----------------------------------------------------------------------------
(* Theorems *)

\* The invariant holds at first and every step keeps it.
LEMMA InvInvariant == Spec => []Inv
<1>1. Init => Inv
  <2> SUFFICES ASSUME Init PROVE Inv OBVIOUS
  <2>1. FInv BY FilesInitInv DEF Init
  <2>2. BInv BY BusInitInv DEF Init
  <2>3. JInv BY DEF Init, JInv
  <2>4. writes \in 0 .. MaxWrites BY WritesAssumption DEF Init
  <2> QED BY <2>1, <2>2, <2>3, <2>4 DEF Inv
<1>2. Inv /\ [Next]_vars => Inv'
  <2> SUFFICES ASSUME Inv, [Next]_vars PROVE Inv' OBVIOUS
  <2>1. CASE \E m \in BusMsgs : Handle(m) BY <2>1, HandleInv
  <2>2. CASE ReadNext BY <2>2, ReadNextInv
  <2>3. CASE SendMessage BY <2>3, SendMessageInv
  <2>4. CASE Return \/ ConnectionStep BY <2>4, ReturnInv
  <2>5. CASE AppWrites BY <2>5, AppWritesInv
  <2>6. CASE AppSignals BY <2>6, AppSignalsInv
  <2>7. CASE UNCHANGED vars
    <3>1. UNCHANGED fileVars /\ UNCHANGED busVars /\ UNCHANGED <<job, writes>> BY <2>7 DEF vars
    <3>2. phase' = phase BY <3>1 DEF busVars
    <3>3. FInv' BY <3>1, ReadsKept DEF Inv
    <3>4. BInv' BY <3>1, BusKept DEF Inv
    <3>5. JInv' BY <3>1, <3>2, JobKept DEF Inv
    <3> QED BY <3>1, <3>3, <3>4, <3>5 DEF Inv
  <2> QED BY <2>1, <2>2, <2>3, <2>4, <2>5, <2>6, <2>7 DEF Next, AdapterStep
<1> QED BY <1>1, <1>2, PTL DEF Spec

\* TypedFile, DBusConnection and the handlers of yanc_of_adapter.cc keep the
\* types of their variables, and a handler runs only while the connection is
\* open.
THEOREM TypeCorrect == Spec => []TypeOK
<1>1. Inv => TypeOK
  <2> SUFFICES ASSUME Inv PROVE TypeOK OBVIOUS
  <2>1. job # NoJob => /\ phase = "open"
                       /\ job.kind \in {"flow", "packet_out"} /\ job.quiet \in BOOLEAN
                       /\ \A i \in DOMAIN job.got : job.got[i].file \in Files
    BY DEF Inv, JInv, JobOK, ReadRight
  <2> QED BY <2>1 DEF Inv, FInv, BInv, TypeOK
<1> QED BY <1>1, InvInvariant, PTL

\* What a write of fs/types.c accepted is what a reader gets, for every set of
\* files, of texts, and of bytes left behind a request.
THEOREM WritesReadBack == Spec => []WrittenReadsBack
<1>1. Inv => WrittenReadsBack
  BY DEF Inv, FInv, PromisesHold, WrittenReadsBack, Shown, ShownNumber, ShownAddress, ShownData
<1> QED BY <1>1, InvInvariant, PTL

\* What a message says, when it was made of a buffer that is right.
LEMMA MessageSays ==
    ASSUME JInv, job # NoJob, job.msg # NoMsg
    PROVE  FieldsSayFiles(job.msg) /\ WildcardsSayFiles(job.msg) /\ ActionsSayFile(job.msg)
<1>1. PICK j : j = job /\ JobOK(j) BY DEF JInv
<1> DEFINE m == j.msg
           k == j.kind
           s == j.buf.text
           c == Script(k, s)
<1>2. \A f, v : ReadOf(j.got, f, v) => v \in Values(f)
  BY <1>1 DEF ReadOf, Values
<1>3. /\ k \in {"flow", "packet_out"} /\ Sequence(s) /\ j.at \in Nat \ {0}
      /\ m = IF k = "flow" THEN FlowMod(j.buf) ELSE PacketOut(j.buf)
      /\ \A i \in j.at .. Len(c) : c[i].file \notin Files
      /\ \A i \in 1 .. j.at - 1 : Done(j.got, j.buf, c[i])
      /\ k = "flow" /\ WildFile \in Files => WildOK(j.at, j.got, j.buf.wildcards)
      /\ TextFile(k) \in Files /\ j.at > TextAt(k) => ReadOf(j.got, TextFile(k), s)
  BY <1>1 DEF JobOK
<1>4. /\ m.type = IF k = "flow" THEN "FLOW_MOD" ELSE "PACKET_OUT"
      /\ m.fields = j.buf.fields /\ m.actions = Actions(s)
      /\ k = "flow" => m.wildcards = j.buf.wildcards
  BY <1>3 DEF FlowMod, PacketOut
<1>5. ActionsDir(m) = DirFor(k) BY <1>3, <1>4 DEF ActionsDir, DirFor
<1>6. Len(c) \in Nat /\ TextAt(k) \in 1 .. Len(c) /\ c[TextAt(k)].file = TextFile(k)
  BY <1>3, ScriptFits DEF TextFile
<1> HIDE DEF m, k, s, c
<1>7. FieldsSayFiles(m)
  <2> SUFFICES ASSUME NEW x \in FieldsOf(m), FileOf(m, x) \in Files
               PROVE  \E v \in Values(FileOf(m, x)) : Holds(m, x, v)
    BY DEF FieldsSayFiles
  <2>1. PICK i \in 1 .. Len(c) : c[i].to = x /\ c[i].file = FileOf(m, x) /\ x[3] \notin Inert
    BY <1>3, <1>4, ScriptComplete DEF c
  <2>2. i \in 1 .. j.at - 1 BY <1>3, <1>6, <2>1
  <2>3. Done(j.got, j.buf, c[i]) BY <1>3, <2>2
  <2>4. PICK v : ReadOf(j.got, FileOf(m, x), v) /\ HoldsIn(j.buf, x, v) BY <2>1, <2>3 DEF Done
  <2>5. Holds(m, x, v) BY <1>4, <2>4 DEF Holds, HoldsIn, s
  <2> QED BY <1>2, <2>4, <2>5
<1>8. WildcardsSayFiles(m)
  <2> SUFFICES ASSUME m.type = "FLOW_MOD", WildFile \in Files
               PROVE  \E w \in Values(WildFile), a \in Values(SrcFile), d \in Values(DstFile) :
                         \/ w = Unset
                         \/ m.wildcards = {Bits(w) \cup {i + 8 : i \in Bits(a[3])}
                                                   \cup {i + 14 : i \in Bits(d[3])}}
    BY DEF WildcardsSayFiles, WildFile, SrcFile, DstFile
  <2>1. k = "flow" BY <1>3, <1>4
  <2>2. j.at > 21
    <3>1. Len(c) >= 24 /\ c[21].file = DstFile BY <1>3, <2>1, WildSteps DEF c
    <3>2. DstFile \in Files BY ScriptAssumption DEF WildFile, DstFile
    <3>3. j.at <= 21 => 21 \in j.at .. Len(c) BY <1>3, <1>6, <3>1
    <3> QED BY <1>3, <3>1, <3>2, <3>3
  <2>3. PICK w, a, d :
           /\ ReadOf(j.got, WildFile, w) /\ ReadOf(j.got, SrcFile, a) /\ ReadOf(j.got, DstFile, d)
           /\ m.wildcards = WithMask(WithMask(Word(w), a, NW_SRC_SHIFT), d, NW_DST_SHIFT)
    BY <1>3, <1>4, <2>1, <2>2 DEF WildOK
  <2>4. w # Unset => m.wildcards = {Bits(w) \cup {i + 8 : i \in Bits(a[3])}
                                            \cup {i + 14 : i \in Bits(d[3])}}
    <3> SUFFICES ASSUME w # Unset
                 PROVE  m.wildcards = {Bits(w) \cup {i + 8 : i \in Bits(a[3])}
                                               \cup {i + 14 : i \in Bits(d[3])}}
      OBVIOUS
    <3>1. Word(w) = {Bits(w)} BY DEF Word
    <3> DEFINE A == Shifted(Bits(a[3]), NW_SRC_SHIFT)
               D == Shifted(Bits(d[3]), NW_DST_SHIFT)
    <3>2. A = {i + 8 : i \in Bits(a[3])} /\ D = {i + 14 : i \in Bits(d[3])}
      BY DEF Shifted, NW_SRC_SHIFT, NW_DST_SHIFT
    <3> HIDE DEF A, D
    <3>3. m.wildcards = {bits \cup D : bits \in {bits \cup A : bits \in {Bits(w)}}}
      BY <2>3, <3>1 DEF WithMask, A, D
    <3>4. {bits \cup A : bits \in {Bits(w)}} = {Bits(w) \cup A} OBVIOUS
    <3>5. m.wildcards = {bits \cup D : bits \in {Bits(w) \cup A}} BY <3>3, <3>4
    <3>6. m.wildcards = {Bits(w) \cup A \cup D} BY <3>5
    <3> QED BY <3>2, <3>6
  <2> QED BY <1>2, <2>3, <2>4
<1>9. ActionsSayFile(m)
  <2> SUFFICES ASSUME TextFile(k) \in Files
               PROVE  \E t \in Values(TextFile(k)) : m.actions = Actions(t)
    BY <1>5 DEF ActionsSayFile, TextFile
  <2>1. j.at > TextAt(k)
    <3>1. j.at <= TextAt(k) => TextAt(k) \in j.at .. Len(c) BY <1>3, <1>6
    <3> QED BY <1>3, <1>6, <3>1
  <2> QED BY <1>2, <1>3, <1>4, <2>1
<1>10. m = job.msg BY <1>1 DEF m
<1> QED BY <1>7, <1>8, <1>9, <1>10

\* A message of of_flow.cc or of_packet_out.cc has every field of its structures,
\* and each says what was read of the file of its name; its actions and its
\* wildcards say what was read of theirs; and what was read is what the writes of
\* the files promised, however writes and reads are interleaved, and without
\* writes in between what the files hold.
THEOREM MessagesSayFiles == Spec => []FlowModSaysFiles
<1>1. Inv => FlowModSaysFiles
  <2> SUFFICES ASSUME Inv, job # NoJob, job.msg # NoMsg
               PROVE  /\ \A i \in DOMAIN job.got :
                            LET r == job.got[i] IN
                            /\ r.promised # Unsure /\ r.file \notin Of({"u8", "i8"}) =>
                                  Says(r.file, r.val, Narrow(r.file, r.promised))
                            /\ job.quiet => r.val = Bound(r.file)
                      /\ FieldsSayFiles(job.msg) /\ WildcardsSayFiles(job.msg)
                      /\ ActionsSayFile(job.msg)
    BY DEF FlowModSaysFiles
  <2>1. \A i \in DOMAIN job.got : ReadRight(job.got[i]) BY DEF Inv, JInv, JobOK
  <2>2. job.quiet => \A i \in DOMAIN job.got : job.got[i].val = Bound(job.got[i].file)
    BY DEF Inv, JInv
  <2> QED BY <2>1, <2>2, MessageSays DEF Inv, ReadRight
<1> QED BY <1>1, InvInvariant, PTL

\* Between the bus and the handlers of connection.cc nothing is lost, doubled,
\* overtaken or given to the wrong handler, for every number of messages.
THEOREM SignalsKeepOrder == Spec => []SignalsInOrder
<1>1. Inv => SignalsInOrder BY DEF Inv, BInv
<1> QED BY <1>1, InvInvariant, PTL

-----------------------------------------------------------------------------
(* Refinement: the bus as a queue of messages *)

\* Who sends a message writes it.
LEMMA SendIsWrite ==
    ASSUME NEW m \in BusMsgs, BusSends(m)
    PROVE  BusFifo!Write("bus")
<1>1. sent' = Append(sent, m) /\ UNCHANGED <<phase, handled>> BY DEF BusSends
<1>2. [c \in {"bus"} |-> sent'] =
          [[c \in {"bus"} |-> sent] EXCEPT !["bus"] = Append(@, m)]
  BY <1>1
<1>3. UNCHANGED Handed BY <1>1 DEF Handed
<1> QED BY <1>1, <1>2, <1>3 DEF BusFifo!Write

\* The next message to be taken is the first of those that libdbus has read.
LEMMA DispatchIsTake ==
    ASSUME BInv, NEW m, Dispatch(m)
    PROVE  BusFifo!Take("bus")
<1>1. /\ phase = "open" /\ incoming # << >> /\ m = Head(incoming)
      /\ UNCHANGED <<phase, sent>>
  BY DEF Dispatch
<1>2. Handed' = Append(Handed, m) /\ m \in BusMsgs BY DispatchInv
<1>3. /\ Handed \in Seq(BusMsgs) /\ incoming \in Seq(BusMsgs) /\ socket \in Seq(BusMsgs)
      /\ Handed \o incoming \o socket = sent
  BY HandedType DEF BInv, BusTypeOK, SignalsInOrder
<1>4. Len(Handed) < Len(sent) /\ sent[Len(Handed) + 1] = m
  <2> DEFINE p == Handed \o incoming
  <2>1. Len(incoming) > 0 /\ m = incoming[1] BY <1>1, <1>3
  <2>2. /\ p \in Seq(BusMsgs) /\ Len(p) = Len(Handed) + Len(incoming)
        /\ p[Len(Handed) + 1] = m
    BY <1>3, <2>1
  <2> HIDE DEF p
  <2>3. sent = p \o socket BY <1>3 DEF p
  <2> QED BY <1>3, <2>1, <2>2, <2>3
<1>5. [c \in {"bus"} |-> Handed'] =
          [[c \in {"bus"} |-> Handed] EXCEPT
              !["bus"] = Append(@, [c \in {"bus"} |-> sent]["bus"][Len(@) + 1])]
  BY <1>2, <1>4
<1> QED BY <1>1, <1>4, <1>5 DEF BusFifo!Take

\* What is not seen of the bus does not matter.
LEMMA Unseen ==
    ASSUME UNCHANGED <<sent, handled>>, UNCHANGED phase \/ {phase, phase'} \cap {"open", "dead"} = {}
    PROVE  UNCHANGED BusFifo!vars
BY DEF BusFifo!vars, Handed

(***************************************************************************)
(* The bus and connection.cc hand messages to the handlers of the adapter  *)
(* as a connection promises it: in order, each once, and only while the    *)
(* connection is open; the calls of open() and the reads of libdbus are    *)
(* not seen.                                                               *)
(***************************************************************************)
THEOREM BusIsFifo == Spec => BusImplementsFifo
<1>1. Init => BusFifo!Init
  <2> SUFFICES ASSUME Init PROVE BusFifo!Init OBVIOUS
  <2>1. sent = << >> /\ handled = << >> /\ phase = "closed" BY DEF Init, BusInit
  <2>2. Handed = << >> BY <2>1 DEF Handed
  <2> QED BY <2>1, <2>2 DEF BusFifo!Init
<1>2. ASSUME Inv, [Next]_vars PROVE [BusFifo!Next]_BusFifo!vars
  <2>1. BInv BY <1>2 DEF Inv
  <2>2. ASSUME NEW m \in BusMsgs, Handle(m) PROVE BusFifo!Take("bus")
    BY <2>1, <2>2, DispatchIsTake DEF Handle
  <2>3. CASE ConnectionStep
    <3>1. CASE Register \/ RequestName \/ AddMatch \/ Subscribe \/ Ready
      <4>1. UNCHANGED <<sent, handled>>
        BY <3>1 DEF Register, RequestName, AddMatch, Subscribe, Blocking, Ready
      <4>2. UNCHANGED phase \/ {phase, phase'} \cap {"open", "dead"} = {}
        BY <3>1 DEF Register, RequestName, AddMatch, Subscribe, Ready
      <4> QED BY <4>1, <4>2, Unseen
    <3>2. CASE AddFilter
      <4>1. phase = "matched" /\ phase' = "open" /\ UNCHANGED <<sent, handled>>
        BY <3>2 DEF AddFilter
      <4>2. UNCHANGED Handed BY <4>1 DEF Handed
      <4>3. BusFifo!Open("bus") BY <4>1, <4>2 DEF BusFifo!Open
      <4> QED BY <4>3 DEF BusFifo!Next
    <3>3. CASE OpenFails \/ DispatchThrows
      <4>1. phase # "dead" /\ phase' = "dead" /\ UNCHANGED <<sent, handled>>
        BY <3>3 DEF OpenFails, DispatchThrows
      <4>2. UNCHANGED Handed BY <4>1 DEF Handed
      <4>3. BusFifo!Close({"bus"}) BY <4>1, <4>2 DEF BusFifo!Close
      <4> QED BY <4>3 DEF BusFifo!Next
    <3> QED BY <2>3, <3>1, <3>2, <3>3 DEF ConnectionStep, Opening
  <2>4. CASE AppSignals
    <3>1. BusFifo!Write("bus") BY <2>4, SendIsWrite DEF AppSignals
    <3> QED BY <3>1 DEF BusFifo!Next
  <2>5. CASE ReadNext \/ SendMessage \/ Return \/ AppWrites \/ UNCHANGED vars
    <3>1. UNCHANGED <<sent, handled, phase>>
      BY <2>5 DEF ReadNext, SendMessage, Return, AppWrites, vars, busVars
    <3> QED BY <3>1, Unseen
  <2> QED BY <1>2, <2>2, <2>3, <2>4, <2>5 DEF Next, AdapterStep, BusFifo!Next
<1> QED BY <1>1, <1>2, InvInvariant, PTL DEF Spec, BusImplementsFifo, BusFifo!Spec

-----------------------------------------------------------------------------
(* Messages of the bus *)

\* When a function that reads an argument throws, and what it returns if not.
LEMMA ArgOf ==
    ASSUME NEW m, m.args \in Seq(Args), NEW pos \in Nat, NEW type
    PROVE  get_arg(m, pos, type) =
              IF m.args = << >> THEN Throws("logic_error")
              ELSE IF pos >= Len(m.args) THEN Throws("out_of_range")
              ELSE IF m.args[pos + 1][1] = type THEN Returns(m.args[pos + 1][2])
              ELSE Throws("logic_error")
<1>1. Len(m.args) \in Nat OBVIOUS
<1>2. 1 + pos = pos + 1 /\ (1 + pos <= Len(m.args) <=> ~(pos >= Len(m.args))) BY <1>1
<1> QED BY <1>1, <1>2 DEF get_arg, init_iter, advance_iter, get_basic, Throws, Returns

\* What is read of w, which has one string more than m.
LEMMA OneMore ==
    ASSUME NEW m, NEW w, NEW s \in STRING,
           m.args \in Seq(Args), w.args = Append(m.args, <<"string", s>>)
    PROVE  LET n == num_args(m) IN
           /\ num_args(w) = n + 1
           /\ get_string(w, n) = Returns(s)
           /\ get_int32(w, n) = Throws("logic_error")
           /\ get_string(w, n + 1) = Throws("out_of_range")
           /\ \A pos \in 0 .. n - 1 : /\ get_string(w, pos) = get_string(m, pos)
                                     /\ get_int32(w, pos) = get_int32(m, pos)
<1> DEFINE a == <<"string", s>>
           n == num_args(m)
<1>1. a \in Args BY DEF Args
<1>2. /\ w.args \in Seq(Args) /\ Len(w.args) = Len(m.args) + 1
      /\ w.args[Len(m.args) + 1] = a
      /\ \A i \in 1 .. Len(m.args) : w.args[i] = m.args[i]
  BY <1>1, AppendProperties
<1>3. Len(m.args) \in Nat OBVIOUS
<1>4. n = Len(m.args) /\ w.args # << >>
  <2>1. Len(<< >>) = 0 OBVIOUS
  <2>2. w.args # << >> BY <1>2, <1>3, <2>1
  <2>3. n = Len(m.args) BY <2>1 DEF num_args, init_iter, Throws, Returns
  <2> QED BY <2>2, <2>3
<1>5. num_args(w) = n + 1 BY <1>2, <1>4 DEF num_args, init_iter, Throws, Returns
<1> HIDE DEF n
<1>6. n \in Nat /\ n + 1 \in Nat BY <1>3, <1>4
<1>10. ASSUME NEW x \in {m, w}, NEW pos \in Nat, NEW type
       PROVE  get_arg(x, pos, type) =
                 IF x.args = << >> THEN Throws("logic_error")
                 ELSE IF pos >= Len(x.args) THEN Throws("out_of_range")
                 ELSE IF x.args[pos + 1][1] = type THEN Returns(x.args[pos + 1][2])
                 ELSE Throws("logic_error")
  <2>1. x.args \in Seq(Args) BY <1>2
  <2> QED BY <2>1, ArgOf
<1>7. get_string(w, n) = Returns(s) /\ get_int32(w, n) = Throws("logic_error")
  <2>1. w.args[n + 1][1] = "string" /\ w.args[n + 1][2] = s BY <1>2, <1>4
  <2>2. ~(n >= Len(w.args)) BY <1>2, <1>4, <1>6
  <2>3. \A type : get_arg(w, n, type) =
                     IF type = "string" THEN Returns(s) ELSE Throws("logic_error")
    BY <1>4, <1>6, <1>10, <2>1, <2>2
  <2> QED BY <2>3 DEF get_string, get_int32
<1>8. get_string(w, n + 1) = Throws("out_of_range")
  <2> DEFINE p == n + 1
  <2>1. p \in Nat /\ p >= Len(w.args) BY <1>2, <1>4, <1>6
  <2> HIDE DEF p
  <2>2. get_arg(w, p, "string") = Throws("out_of_range") BY <1>4, <1>10, <2>1
  <2> QED BY <2>2 DEF get_string, p
<1>9. ASSUME NEW pos \in 0 .. n - 1
      PROVE  get_string(w, pos) = get_string(m, pos) /\ get_int32(w, pos) = get_int32(m, pos)
  <2>1. pos \in Nat /\ ~(pos >= Len(w.args)) /\ ~(pos >= Len(m.args)) /\ m.args # << >>
    BY <1>2, <1>4, <1>6
  <2>2. w.args[pos + 1] = m.args[pos + 1] BY <1>2, <1>4, <1>6
  <2>3. \A type : get_arg(w, pos, type) = get_arg(m, pos, type)
    BY <1>4, <1>10, <2>1, <2>2
  <2> QED BY <2>3 DEF get_string, get_int32
<1> QED BY <1>5, <1>7, <1>8, <1>9 DEF n

(***************************************************************************)
(* Arguments come back: a string that is appended to a message is read at  *)
(* the place behind those it had, nothing can be read behind it, as        *)
(* another type it is refused, and what was read before is read as before  *)
(* (message.cc, append_string to get_string).                              *)
(***************************************************************************)
THEOREM ArgumentsComeBack ==
    ASSUME NEW m \in Messages, NEW s \in STRING
    PROVE  LET w == append_string(m, s)  n == num_args(m) IN
           /\ w \in Messages /\ num_args(w) = n + 1
           /\ get_string(w, n) = Returns(s)
           /\ get_int32(w, n) = Throws("logic_error")
           /\ get_string(w, n + 1) = Throws("out_of_range")
           /\ \A pos \in 0 .. n - 1 : /\ get_string(w, pos) = get_string(m, pos)
                                     /\ get_int32(w, pos) = get_int32(m, pos)
<1> DEFINE a == <<"string", s>>
           w == append_string(m, s)
<1>1. /\ m.args \in Seq(Args) /\ w.args = Append(m.args, a)
      /\ w = [type |-> m.type, fields |-> m.fields, args |-> Append(m.args, a)]
  <2>1. PICK t \in MsgTypes, h \in Headers, g \in Seq(Args) :
           m = [type |-> t, fields |-> h, args |-> g]
    BY DEF Messages
  <2> DEFINE x == Append(g, a)
  <2>2. w = [m EXCEPT !.args = x] BY <2>1 DEF append_string
  <2> HIDE DEF x, w
  <2>3. w = [type |-> t, fields |-> h, args |-> x] BY <2>1, <2>2
  <2>4. m.args = g /\ m.type = t /\ m.fields = h BY <2>1
  <2> QED BY <2>3, <2>4 DEF x
<1>2. a \in Args BY DEF Args
<1> HIDE DEF w, a
<1>3. Append(m.args, a) \in Seq(Args) BY <1>1, <1>2, AppendProperties
<1>4. w \in Messages BY <1>1, <1>3 DEF Messages
<1> QED BY <1>1, <1>4, OneMore DEF w, a

(***************************************************************************)
(* Whoever subscribes to the signals of of_switch.cc finds them by their   *)
(* interface and name, and reads in their only argument the path of the    *)
(* switch or of the packet.                                                *)
(***************************************************************************)
THEOREM SignalsSayWhere ==
    ASSUME NEW path \in STRING
    PROVE  /\ message_signature(NewSwitchSignal(path)) = Returns(<<Interface, "NewSwitch">>)
           /\ message_signature(PacketInSignal(path)) = Returns(<<Interface, "PacketIn">>)
           /\ \A m \in {NewSwitchSignal(path), PacketInSignal(path)} :
                 /\ num_args(m) = 1 /\ get_string(m, 0) = Returns(path)
                 /\ get_string(m, 1) = Throws("out_of_range")
<1>1. ASSUME NEW at, NEW name
      PROVE  /\ SignalOf(at, name) = [type |-> "signal", args |-> << >>,
                                       fields |-> SignalOf(at, name).fields]
             /\ SignalOf(at, name).fields["interface"] = {Interface}
             /\ SignalOf(at, name).fields["member"] = {name}
  <2> DEFINE f0 == [f \in HeaderFields |-> {}]
             f1 == [f0 EXCEPT !["interface"] = {Interface}]
             f2 == [f1 EXCEPT !["path"] = {at}]
             f3 == [f2 EXCEPT !["member"] = {name}]
  <2>1. SignalOf(at, name) = [type |-> "signal", fields |-> f3, args |-> << >>]
    <3>1. ASSUME NEW m, NEW t, NEW h, NEW g, NEW f, NEW v,
                 m = [type |-> t, fields |-> h, args |-> g]
          PROVE  set_header(m, f, v) = [type |-> t, fields |-> [h EXCEPT ![f] = {v}], args |-> g]
      BY <3>1 DEF set_header
    <3>2. NewMessage("signal") = [type |-> "signal", fields |-> f0, args |-> << >>]
      BY DEF NewMessage
    <3> HIDE DEF f0
    <3>3. set_header(NewMessage("signal"), "interface", Interface)
             = [type |-> "signal", fields |-> f1, args |-> << >>]
      BY <3>1, <3>2
    <3> HIDE DEF f1
    <3>4. set_header(set_header(NewMessage("signal"), "interface", Interface), "path", at)
             = [type |-> "signal", fields |-> f2, args |-> << >>]
      BY <3>1, <3>3
    <3> HIDE DEF f2
    <3> QED BY <3>1, <3>4 DEF SignalOf
  <2>2. f3["interface"] = {Interface} /\ f3["member"] = {name} BY DEF HeaderFields
  <2> HIDE DEF f3
  <2> QED BY <2>1, <2>2
<1>2. ASSUME NEW name
      PROVE  LET m == append_string(SignalOf("/", name), path) IN
             /\ message_signature(m) = Returns(<<Interface, name>>)
             /\ num_args(m) = 1 /\ get_string(m, 0) = Returns(path)
             /\ get_string(m, 1) = Throws("out_of_range")
  <2> DEFINE b == SignalOf("/", name)
             m == append_string(b, path)
  <2>1. /\ b = [type |-> "signal", args |-> << >>, fields |-> b.fields]
        /\ b.fields["interface"] = {Interface} /\ b.fields["member"] = {name}
    BY <1>1
  <2> HIDE DEF b
  <2>2. /\ b.args = << >> /\ m.args = Append(b.args, <<"string", path>>)
        /\ m.fields = b.fields
    BY <2>1 DEF append_string
  <2> HIDE DEF m
  <2>3. /\ num_args(m) = 1 /\ get_string(m, 0) = Returns(path)
        /\ get_string(m, 1) = Throws("out_of_range")
    <3>1. num_args(b) = 0 /\ 0 + 1 = 1 BY <2>2 DEF num_args, init_iter, Throws, Returns
    <3>2. b.args \in Seq(Args) BY <2>2
    <3>3. LET n == num_args(b) IN
          /\ num_args(m) = n + 1 /\ get_string(m, n) = Returns(path)
          /\ get_string(m, n + 1) = Throws("out_of_range")
      BY <2>2, <3>2, OneMore
    <3> QED BY <3>1, <3>3
  <2>4. message_signature(m) = Returns(<<Interface, name>>)
    <3>1. \A x : {x} # {} /\ (CHOOSE s \in {x} : TRUE) = x OBVIOUS
    <3> QED BY <2>1, <2>2, <3>1 DEF message_signature, header, has_header
  <2> QED BY <2>3, <2>4 DEF b, m
<1> QED BY <1>2 DEF NewSwitchSignal, PacketInSignal

=============================================================================
