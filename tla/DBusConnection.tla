--------------------------- MODULE DBusConnection ---------------------------
(***************************************************************************)
(* om-lib's connection to the message bus, as the adapter uses it: it is   *)
(* opened in several blocking calls, it reads and dispatches when epoll    *)
(* finds the socket readable, and it routes messages to handlers.          *)
(*                                                                         *)
(* A blocking call waits for its own reply and leaves every other message  *)
(* it reads in libdbus's queue.  Handlers are subscribed one by one and the*)
(* filter that calls them is set last, so a message that comes early must  *)
(* wait; and ready() stops only when libdbus has nothing more to dispatch, *)
(* for epoll knows nothing of that queue.                                  *)
(*                                                                         *)
(* libdbus and the bus are external.  All messages have the interface      *)
(* edu.colorado.cs.ngn.yanc or none: with more than one, the order of      *)
(* message_signature would not be an order.  What libdbus cannot write at  *)
(* once is left out.                                                       *)
(***************************************************************************)
EXTENDS DBusMessage

CONSTANTS
    BusMsgs,        \* messages other programs send
    MaxSent         \* bound on them

\* set_signal_handler() in _set_dbus_signal_handlers(), in this order.
Subscriptions == <<"NewFlow", "FlowMod", "PacketOut">>

ASSUME BusAssumption ==
    /\ MaxSent \in Nat
    /\ BusMsgs \subseteq Messages
    /\ \A m \in BusMsgs : /\ has_header(m, "interface") => OfYanc(m)
                         /\ m.type \in {"signal", "method_call"} => has_header(m, "member")

\* Where messages go: to a handler, or to default_handler.
Handlers == {"NewFlow", "FlowMod", "PacketOut", "default"}

VARIABLES
    phase,          \* how far open() is, "open", or "dead"
    nsub,           \* handlers subscribed
    socket,         \* messages not yet read
    incoming,       \* messages read and not dispatched
    reading,        \* in ready()
    handled,        \* messages dispatched, and where they went
    sent            \* messages the bus has given to the connection

busVars == <<phase, nsub, socket, incoming, reading, handled, sent>>

BusInit ==
    /\ phase = "closed" /\ nsub = 0
    /\ socket = << >> /\ incoming = << >> /\ reading = FALSE
    /\ handled = << >> /\ sent = << >>

-----------------------------------------------------------------------------
Front(s, k) == SubSeq(s, 1, k)
Rest(s, k) == SubSeq(s, k + 1, Len(s))

\* Mutant: what is not the reply is thrown away.
ReadsDropping(k) == socket' = Rest(socket, k) /\ UNCHANGED incoming

\* Mutant: what comes is put in front of what a blocking call has left.
ReadsInFront(k) ==
    incoming' = Front(socket, k) \o incoming /\ socket' = Rest(socket, k)

\* libdbus reads k messages off the socket.
Reads(k) ==
    /\ incoming' = incoming \o Front(socket, k)
    /\ socket' = Rest(socket, k)

\* dbus_connection_send_with_reply_and_block(), in all of libdbus's calls that
\* wait for the bus.
Blocking ==
    /\ \E k \in 0 .. Len(socket) : Reads(k)
    /\ UNCHANGED <<reading, handled, sent>>

\* open(): dbus_connection_open(), dbus_bus_register().
Register == phase = "closed" /\ phase' = "registered" /\ Blocking /\ UNCHANGED nsub

\* _request_bus_name()
RequestName == phase = "registered" /\ phase' = "named" /\ Blocking /\ UNCHANGED nsub

\* _set_watch_functions() calls _add_watch(), which calls _connected().
AddMatch == phase = "named" /\ phase' = "matched" /\ Blocking /\ UNCHANGED nsub

\* set_signal_handler(): also a handler of method calls.
Subscribe ==
    /\ phase = "matched" /\ nsub < Len(Subscriptions)
    /\ nsub' = nsub + 1
    /\ Blocking /\ UNCHANGED phase

\* The connected callback is done; dbus_connection_add_filter().
AddFilter ==
    /\ phase = "matched" /\ nsub = Len(Subscriptions)
    /\ phase' = "open"
    /\ UNCHANGED <<nsub, socket, incoming, reading, handled, sent>>

\* Each of the calls may fail, and then open() throws.
OpenFails ==
    /\ phase \in {"closed", "registered", "matched"}
    /\ phase' = "dead"
    /\ UNCHANGED <<nsub, socket, incoming, reading, handled, sent>>

\* What libdbus is told of what epoll says of the socket, one thing at a time.
epoll_to_dbus_watch_event(events) ==
    CASE "EPOLLIN" \in events -> "readable"
      [] "EPOLLOUT" \in events \ {"EPOLLIN"} -> "writable"
      [] OTHER -> IF "EPOLLHUP" \in events THEN "hangup" ELSE "error"

\* ready(): dbus_watch_handle() reads what it finds, or the first part of it,
\* whatever it is that epoll has found.
Ready ==
    /\ phase = "open" /\ ~reading /\ socket # << >>
    /\ epoll_to_dbus_watch_event({"EPOLLIN"}) = "readable"
    /\ \E k \in 1 .. Len(socket) : Reads(k)
    /\ reading' = TRUE
    /\ UNCHANGED <<phase, nsub, handled, sent>>

\* set_default_handler(): one handler for all types.
DefaultHandlers ==
    [type \in MsgTypes |-> "default"]

\* message_signature(msg) is made of the null interface of a call that has
\* none, and throws.
HasSignature(m) == message_signature(m).throws = "nothing"

\* get_string(0): there is an argument, and it is a string.
HasString(m) == get_string(m, 0).throws = "nothing"

\* Handlers are looked up by signature.
HasHandler(m) ==
    /\ m.type \in {"signal", "method_call"}
    /\ \E i \in 1 .. nsub : header(m, "member") = Subscriptions[i]

Breaks(m) ==
    \/ m.type \in {"signal", "method_call"} /\ ~HasSignature(m)
    \/ HasHandler(m) /\ ~HasString(m)

\* _route_message()
Route(m) == IF HasHandler(m) THEN header(m, "member") ELSE DefaultHandlers[m.type]

\* Mutant: one message for each time the socket is readable.
DispatchOne(left) == FALSE

\* ready() goes on while something is left.
GoesOn(left) == left # << >>

Dispatch(m) ==
    /\ phase = "open" /\ reading /\ incoming # << >> /\ m = Head(incoming)
    /\ ~Breaks(m)
    /\ handled' = Append(handled, [msg |-> m, to |-> Route(m)])
    /\ incoming' = Tail(incoming)
    /\ reading' = GoesOn(Tail(incoming))
    /\ UNCHANGED <<phase, nsub, socket, sent>>

DispatchThrows ==
    /\ phase = "open" /\ reading /\ incoming # << >> /\ Breaks(Head(incoming))
    /\ phase' = "dead"
    /\ UNCHANGED <<nsub, socket, incoming, reading, handled, sent>>

\* Calls come when the connection has its name, signals when it has a match.
BusSends(m) ==
    /\ Len(sent) < MaxSent
    /\ phase \in {"matched", "open"} \/ (phase = "named" /\ m.type = "method_call")
    /\ sent' = Append(sent, m) /\ socket' = Append(socket, m)
    /\ UNCHANGED <<phase, nsub, incoming, reading, handled>>

Opening == Register \/ RequestName \/ AddMatch \/ Subscribe \/ AddFilter

(***************************************************************************)
(* Properties                                                              *)
(***************************************************************************)
BusTypeOK ==
    /\ phase \in {"closed", "registered", "named", "matched", "open", "dead"}
    /\ nsub \in 0 .. Len(Subscriptions)
    /\ socket \in Seq(BusMsgs) /\ incoming \in Seq(BusMsgs) /\ sent \in Seq(BusMsgs)
    /\ handled \in Seq([msg : BusMsgs, to : Handlers])
    /\ reading \in BOOLEAN

\* The messages handlers were called with, in order.
Handed == [i \in DOMAIN handled |-> handled[i].msg]

\* A signal for one of the adapter's handlers, or a call of its name.
For(m) ==
    IF /\ m.type \in {"signal", "method_call"}
       /\ header(m, "member") \in {"NewFlow", "FlowMod", "PacketOut"}
    THEN header(m, "member") ELSE "default"

\* No message is lost, doubled or overtaken between the bus and the handlers
\* of connection.cc, also those that come while open() is still at work, and
\* each goes to the handler that was set for it.
SignalsInOrder ==
    /\ Handed \o incoming \o socket = sent
    /\ \A i \in DOMAIN handled : handled[i].to = For(handled[i].msg)

\* The bus is to the adapter what a switch is (MsgFifo): nobody knows of the
\* two queues in between, of the calls that fill them, or of filters.
BusFifo == INSTANCE MsgFifo WITH
    Conns <- {"bus"}, Msgs <- BusMsgs,
    written <- [c \in {"bus"} |-> sent],
    taken <- [c \in {"bus"} |-> Handed],
    state <- [c \in {"bus"} |-> CASE phase = "open" -> "open"
                                 [] phase = "dead" -> "closed"
                                 [] OTHER -> "none"]

\* Handlers are called only while the connection is open, with the next message
\* that was sent, once, and with none after an exception has closed it
\* (connection.cc, open() to ready()).
BusImplementsFifo == BusFifo!Spec

=============================================================================
