------------------------------ MODULE FlowPath ------------------------------
(***************************************************************************)
(* The way of a flow from an application to a switch: the application      *)
(* writes the flow's files (TypedFile) and sends a signal (DBusConnection);*)
(* the adapter's handler reads the files one by one and makes a message of *)
(* them (FlowMessages).  new_flow() and packet_out() of the adapter are    *)
(* taken apart here into their reads, between which applications go on     *)
(* writing; which switch gets the message is in OFNetwork.                 *)
(***************************************************************************)
EXTENDS TypedFile, DBusConnection, FlowMessages

CONSTANTS
    NoJob,          \* no handler is running
    NoMsg,          \* no message is made yet
    MaxWrites       \* bound on the writes of applications

ASSUME WritesAssumption == MaxWrites \in Nat

\* The file of actions holds text, as in schema.txt; an instance that has the
\* wildcards has the addresses whose masks go into them.
ASSUME ScriptAssumption ==
    /\ \A d \in {"actions", "out/actions"} :
          <<d, "actions">> \in Files => <<d, "actions">> \in Of({"str"})
    /\ <<"match", "wildcards">> \in Files =>
          {<<"match", "nw_src">>, <<"match", "nw_dst">>} \subseteq Files

VARIABLES
    job,            \* what the handler of a signal is doing
    writes          \* writes of applications so far

vars == <<fileVars, busVars, job, writes>>

Init == FilesInit /\ BusInit /\ job = NoJob /\ writes = 0

-----------------------------------------------------------------------------
Begin(kind) ==
    [kind |-> kind, at |-> 1, got |-> << >>, buf |-> NewBuf, msg |-> NoMsg,
     quiet |-> pending = NoWrite]

\* new_flow() and packet_out(); flow_mod() of a switch is empty.
JobOf(to) ==
    CASE to = "NewFlow" -> Begin("flow")
      [] to = "PacketOut" -> Begin("packet_out")
      [] OTHER -> NoJob

\* The binding of a packet_out's in_port is narrower than the file: more is
\* read as the largest number.
Narrow(f, v) ==
    IF f = <<"out", "in_port">> /\ f \in Of({"u32"}) /\ v # Undef /\ v >= Modulus["u16"]
    THEN Modulus["u16"] - 1 ELSE v

Bound(f) == Narrow(f, Read(f))

\* The reads of the message that is being made; files that are not of this
\* instance are left out.
Steps == Script(job.kind, job.buf.text)
Untracked(steps, is) == \A i \in is : steps[i].file \notin Files

\* One read of a file, whose value goes into the message.
ReadNext ==
    /\ job # NoJob /\ job.msg = NoMsg
    /\ LET steps == Steps IN
       \E i \in job.at .. Len(steps) :
          LET f == steps[i].file IN
          /\ f \in Files /\ Untracked(steps, job.at .. i - 1)
          /\ job' = [job EXCEPT !.at = i + 1,
                                !.got = Append(@, [file |-> f, val |-> Bound(f),
                                                   promised |-> asked[f]]),
                                !.buf = Fill(@, steps[i].to, Bound(f))]
    /\ UNCHANGED <<fileVars, busVars, writes>>

\* The message is complete and sent.
SendMessage ==
    /\ job # NoJob /\ job.msg = NoMsg /\ Untracked(Steps, job.at .. Len(Steps))
    /\ job' = [job EXCEPT !.msg = IF job.kind = "flow" THEN FlowMod(job.buf)
                                  ELSE PacketOut(job.buf)]
    /\ UNCHANGED <<fileVars, busVars, writes>>

\* The handler returns to libdbus.
Return ==
    /\ job # NoJob /\ job.msg # NoMsg
    /\ job' = NoJob
    /\ UNCHANGED <<fileVars, busVars, writes>>

\* The adapter has one thread: libdbus waits while a handler runs.
Handle(m) ==
    /\ job = NoJob /\ Dispatch(m) /\ job' = JobOf(Route(m))
    /\ UNCHANGED <<fileVars, writes>>

\* Mutant: the connection is used again while a handler runs.
ConnectionStepWithin ==
    /\ Opening \/ OpenFails \/ Ready \/ DispatchThrows
    /\ UNCHANGED <<fileVars, job, writes>>

ConnectionStep ==
    /\ job = NoJob
    /\ Opening \/ OpenFails \/ Ready \/ DispatchThrows
    /\ UNCHANGED <<fileVars, job, writes>>

AdapterStep ==
    \/ ConnectionStep
    \/ \E m \in BusMsgs : Handle(m)
    \/ ReadNext \/ SendMessage \/ Return

\* An application writes; a handler that is reading may see some of it.
AppWrites ==
    /\ \/ /\ writes < MaxWrites /\ writes' = writes + 1
          /\ \E f \in Files : \E t \in Texts[f] : Write(f, t)
       \/ WriteRest /\ UNCHANGED writes
    /\ job' = IF job = NoJob THEN NoJob ELSE [job EXCEPT !.quiet = FALSE]
    /\ UNCHANGED busVars

AppSignals == (\E m \in BusMsgs : BusSends(m)) /\ UNCHANGED <<fileVars, job, writes>>

Next == AdapterStep \/ AppWrites \/ AppSignals

Spec == Init /\ [][Next]_vars

\* The adapter's thread runs.
FairSpec == Spec /\ WF_vars(AdapterStep)

(***************************************************************************)
(* Properties                                                              *)
(***************************************************************************)
\* The three parts keep their types, and a handler runs only while ready()
\* dispatches.
TypeOK ==
    /\ FilesTypeOK /\ BusTypeOK
    /\ job # NoJob =>
          /\ job.kind \in {"flow", "packet_out"} /\ job.quiet \in BOOLEAN
          /\ \A i \in DOMAIN job.got : job.got[i].file \in Files
          /\ phase = "open"
    /\ writes \in 0 .. MaxWrites

\* The fields a structure has for values: not its pads, nor what is the same
\* for every message or says where others are.
NamesOf(struct) ==
    {struct[i][1] : i \in DOMAIN struct} \
        {"header", "pad", "pad1", "pad2", "type", "len", "match", "wildcards",
         "command", "out_port", "flags", "actions_len"}

FieldsOf(m) ==
    (IF m.type = "FLOW_MOD"
     THEN {<<0, "flow", n>> : n \in NamesOf(ofp_flow_mod)}
             \cup {<<0, "match", n>> : n \in NamesOf(ofp_match)}
     ELSE {<<0, "out", n>> : n \in NamesOf(ofp_packet_out) \cup {"data"}})
    \cup UNION {{<<k, m.actions[k], n>> : n \in NamesOf(ActionOf[m.actions[k]])} :
                   k \in DOMAIN m.actions}

\* The file that says what is in a field: the one of that name, and the one of
\* an action's name for its argument.
ActionsDir(m) == IF m.type = "FLOW_MOD" THEN "actions" ELSE "out/actions"
FileOf(m, x) ==
    IF x[1] = 0 THEN <<x[2], x[3]>>
    ELSE <<ActionsDir(m), IF x[3] = "max_len" THEN "output_max_len" ELSE x[2]>>

\* What was read from f for this message.
Values(f) == {job.got[i].val : i \in {j \in DOMAIN job.got : job.got[j].file = f}}

\* Field x of m says v; data for which there is no room is not in the message.
Holds(m, x, v) ==
    \/ x \in DOMAIN m.fields /\ m.fields[x] = Content(x, v)
    \/ x[3] = "data" /\ Room(m.actions) < Len(v)

FieldsSayFiles(m) ==
    \A x \in FieldsOf(m) : FileOf(m, x) \in Files => \E v \in Values(FileOf(m, x)) : Holds(m, x, v)

WildcardsSayFiles(m) ==
    m.type = "FLOW_MOD" /\ <<"match", "wildcards">> \in Files =>
        \E w \in Values(<<"match", "wildcards">>), s \in Values(<<"match", "nw_src">>),
           d \in Values(<<"match", "nw_dst">>) :
              \/ w = Unset
              \/ m.wildcards = {Bits(w) \cup {i + 8 : i \in Bits(s[3])}
                                       \cup {i + 14 : i \in Bits(d[3])}}

ActionsSayFile(m) ==
    LET f == <<ActionsDir(m), "actions">> IN
    f \in Files => \E t \in Values(f) : m.actions = Actions(t)

\* A FLOW_MOD or PACKET_OUT that update() sends has every field of its
\* structures, and each was read from the file of its name, an action's argument
\* from the file of the action; its actions are those of their file, and its
\* wildcards the bits of their file and of the two masks, whoever wrote in
\* between.  What was read is what the last write of the file promised, but for
\* numbers of one byte; and if nobody wrote while the handler ran, it is what the
\* files hold when the message is sent: an address and its mask, which are read
\* apart, belong together.  Two things are said of the code, and not that they
\* are right: an action's vlan_pcp is sent as zero, and a mask's bits are the
\* length of the prefix, where OpenFlow wants the number of bits to ignore.
FlowModSaysFiles ==
    job # NoJob /\ job.msg # NoMsg =>
        /\ \A i \in DOMAIN job.got :
              LET r == job.got[i] IN
              /\ r.promised # Unsure /\ r.file \notin Of({"u8", "i8"}) =>
                    Says(r.file, r.val, Narrow(r.file, r.promised))
              /\ job.quiet => r.val = Bound(r.file)
        /\ FieldsSayFiles(job.msg) /\ WildcardsSayFiles(job.msg) /\ ActionsSayFile(job.msg)

\* Once the connection is open, messages that wait on the socket, and those
\* that were read before them, all reach their handlers, unless the adapter
\* ends; only finitely many are sent.
SignalsHandled ==
    phase = "open" /\ socket # << >>
        ~> phase = "dead" \/ (socket = << >> /\ incoming = << >> /\ job = NoJob)

=============================================================================
