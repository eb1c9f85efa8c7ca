------------------------------- MODULE MsgFifo -------------------------------
(***************************************************************************)
(* What a connection promises to who is called with its messages: they     *)
(* come one by one, in the order in which the peer has written them, until *)
(* the connection closes.  A switch's connection promises that to          *)
(* OFNetwork::handle_message (OFChannel), and the connection to the bus to *)
(* the handlers of the adapter (DBusConnection).                           *)
(***************************************************************************)
EXTENDS Naturals, Sequences

CONSTANTS Conns, Msgs

VARIABLES
    written,        \* messages the peer has written
    taken,          \* messages handed to a handler
    state           \* "none", "open" or "closed"

vars == <<written, taken, state>>

Init ==
    /\ written = [c \in Conns |-> << >>]
    /\ taken = [c \in Conns |-> << >>]
    /\ state = [c \in Conns |-> "none"]

Write(c) ==
    /\ \E m \in Msgs : written' = [written EXCEPT ![c] = Append(@, m)]
    /\ UNCHANGED <<taken, state>>

Open(c) ==
    /\ state[c] = "none"
    /\ state' = [state EXCEPT ![c] = "open"]
    /\ UNCHANGED <<written, taken>>

Take(c) ==
    /\ state[c] = "open"
    /\ Len(taken[c]) < Len(written[c])
    /\ taken' = [taken EXCEPT ![c] = Append(@, written[c][Len(@) + 1])]
    /\ UNCHANGED <<written, state>>

\* Connections close, all at once when the process at one end of them ends.
Close(C) ==
    /\ \A c \in C : state[c] # "closed"
    /\ state' = [c \in Conns |-> IF c \in C THEN "closed" ELSE state[c]]
    /\ UNCHANGED <<written, taken>>

Next ==
    \/ \E c \in Conns : Write(c) \/ Open(c) \/ Take(c)
    \/ \E C \in SUBSET Conns : Close(C)

Spec == Init /\ [][Next]_vars

=============================================================================
