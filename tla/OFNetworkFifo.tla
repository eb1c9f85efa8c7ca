--------------------------- MODULE OFNetworkFifo ---------------------------
(***************************************************************************)
(* OFNetwork takes for granted what OFChannel delivers: connections as     *)
(* MsgFifo has them.  OFNetwork keeps of a connection only the messages    *)
(* that nobody has handled yet; here it is given a memory of all that were *)
(* written and of all that were handled, which no action looks at, and     *)
(* with it it implements MsgFifo, which OFChannel implements, too.         *)
(***************************************************************************)
EXTENDS OFNetwork

VARIABLES
    written,        \* messages a switch has written
    taken           \* messages handle_message() has returned from

hvars == <<vars, written, taken>>

\* What can come over a connection.
InMsgs ==
    [type : {"hello", "echo", "other"}] \cup
    [type : {"packet_in"}, port : Ports \cup NewPorts, nth : 1 .. MaxMsgs] \cup
    [type : {"features_reply"}, kind : FeatureKinds]

HInit ==
    /\ Init
    /\ written = [c \in Conns |-> << >>] /\ taken = [c \in Conns |-> << >>]

\* A callback of c after which its connection is what it was has handled the
\* first of its messages; the others accept it, close it or end the adapter.
Calls(c) ==
    /\ Deliver(c)
    /\ taken' = IF conn' = conn THEN [taken EXCEPT ![c] = Append(@, Head(inq[c]))]
                ELSE taken
    /\ UNCHANGED written

Arrives(c) == Len(inq'[c]) > Len(inq[c])

\* A message that comes is the last one of its connection.
Comes ==
    /\ Environment
    /\ written' = [c \in Conns |->
                      IF Arrives(c) THEN Append(written[c], inq'[c][Len(inq'[c])])
                      ELSE written[c]]
    /\ UNCHANGED taken

HNext ==
    \/ \E c \in Conns : Calls(c)
    \/ Comes
    \/ (Dispatch \/ AppStep) /\ UNCHANGED <<written, taken>>

HSpec == HInit /\ [][HNext]_hvars

-----------------------------------------------------------------------------
\* A connection that nobody has accepted is not open yet.
Fifo == INSTANCE MsgFifo WITH
    Msgs <- InMsgs,
    state <- [c \in Conns |-> IF conn[c] = "backlog" THEN "none" ELSE conn[c]]

\* Whatever switches, other programs, crashes and restarts do, handle_message()
\* of OFNetwork is called with the messages of each switch one by one, in their
\* order, on no connection before it is accepted or after it is closed; a
\* connection that was closed never comes back (yanc_of_adapter.cc,
\* new_switch() to closed_connection()).
NetworkImplementsFifo == Fifo!Spec

=============================================================================
