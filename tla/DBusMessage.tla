----------------------------- MODULE DBusMessage -----------------------------
(***************************************************************************)
(* om-lib's messages of the bus (ipc/dbus/message.cc, dbus.cc): their      *)
(* header fields, the arguments that are appended at the end and read by   *)
(* position, and the signals that the adapter makes of them.               *)
(*                                                                         *)
(* An argument is its type and its value.  A function of the library       *)
(* throws or returns.  libdbus is external: an iterator over no arguments  *)
(* cannot be had, and one at the last argument does not go on.             *)
(***************************************************************************)
EXTENDS Integers, Sequences

Throws(what) == [throws |-> what]
Returns(value) == [throws |-> "nothing", value |-> value]

-----------------------------------------------------------------------------
(***************************************************************************)
(* The header.  A field is the set of what it says: one string, or none,   *)
(* and then it reads as empty.                                             *)
(***************************************************************************)
HeaderFields == {"destination", "interface", "member", "path"}
EmptyString == ""

MsgTypes == {"signal", "method_call", "method_return", "error"}
Args == ({"string"} \X STRING) \cup ({"int32"} \X Int) \cup ({"other"} \X STRING)

Headers ==
    {h \in [HeaderFields -> SUBSET STRING] :
        \A f \in HeaderFields : \A s, t \in h[f] : s = t}

Messages == [type : MsgTypes, fields : Headers, args : Seq(Args)]

\* Message(type)
NewMessage(type) == [type |-> type, fields |-> [f \in HeaderFields |-> {}], args |-> << >>]

set_header(m, f, s) == [m EXCEPT !.fields = [@ EXCEPT ![f] = {s}]]
has_header(m, f) == m.fields[f] # {}
header(m, f) == IF has_header(m, f) THEN CHOOSE s \in m.fields[f] : TRUE ELSE EmptyString

-----------------------------------------------------------------------------
(***************************************************************************)
(* The arguments.                                                          *)
(***************************************************************************)
append_string(m, s) == [m EXCEPT !.args = Append(@, <<"string", s>>)]
append_int32(m, n) == [m EXCEPT !.args = Append(@, <<"int32", n>>)]

init_iter(m) == IF m.args = << >> THEN Throws("logic_error") ELSE Returns(1)

\* k times to the next argument.
advance_iter(m, iter, k) ==
    IF iter + k <= Len(m.args) THEN Returns(iter + k) ELSE Throws("out_of_range")

\* What is there, if it is of the type.
get_basic(m, iter, type) ==
    IF m.args[iter][1] = type THEN Returns(m.args[iter][2]) ELSE Throws("logic_error")

get_arg(m, pos, type) ==
    IF init_iter(m).throws # "nothing" THEN init_iter(m)
    ELSE IF advance_iter(m, 1, pos).throws # "nothing" THEN advance_iter(m, 1, pos)
    ELSE get_basic(m, 1 + pos, type)

get_string(m, pos) == get_arg(m, pos, "string")
get_int32(m, pos) == get_arg(m, pos, "int32")

\* The older functions of dbus.cc: an iterator, and the string it is at.
init_msg_read_iter(m) == init_iter(m)
read_string(m, iter) == get_basic(m, iter, "string")

num_args(m) == IF init_iter(m).throws # "nothing" THEN 0 ELSE Len(m.args)

arguments(m) ==
    IF init_iter(m).throws # "nothing" THEN << >>
    ELSE [i \in 1 .. Len(m.args) |-> m.args[i][1]]

-----------------------------------------------------------------------------
(***************************************************************************)
(* What the adapter signals: that it is there, and the path of a new       *)
(* switch or packet.                                                       *)
(***************************************************************************)
Interface == "edu.colorado.cs.ngn.yanc"

SignalOf(path, member) ==
    set_header(set_header(set_header(NewMessage("signal"), "interface", Interface),
                        "path", path), "member", member)

AdapterStarted == SignalOf("/edu/colorado/cs/ngn/yanc", "AdapterStarted")
NewSwitchSignal(path) == append_string(SignalOf("/", "NewSwitch"), path)
PacketInSignal(path) == append_string(SignalOf("/", "PacketIn"), path)

\* default_dbus_handler() asks for the interface of any message.
OfYanc(m) == header(m, "interface") = Interface

\* message_signature(msg) makes strings of what is there, and throws if it is
\* not.
message_signature(m) ==
    IF has_header(m, "interface") /\ has_header(m, "member")
    THEN Returns(<<header(m, "interface"), header(m, "member")>>)
    ELSE Throws("logic_error")
=============================================================================
