------------------------------ MODULE OFChannel ------------------------------
(***************************************************************************)
(* The connections of the OpenFlow adapter (yanc_of_adapter.cc): accepting *)
(* a switch and cutting its byte stream into messages.                     *)
(*                                                                         *)
(* The adapter is one thread around epoll_wait(); each readiness callback  *)
(* is one action.  receive_data() calls recv() once, for no more than the  *)
(* rest of the header or, with the header there, the rest of the message;  *)
(* TCP may return less.  A byte is identified by the message it belongs to *)
(* (the how-manieth the switch wrote) and its place in that message, so    *)
(* that a mistake in the framing shows.                                    *)
(*                                                                         *)
(* The switch and TCP are external: a switch writes whole messages, may go *)
(* away in the middle of one, and the connection may be reset.             *)
(***************************************************************************)
EXTENDS Integers, Sequences

CONSTANTS
    Conns,          \* connections; their objects are never used again
    Msgs,           \* messages
    Length,         \* length field of a message, in bytes
    HdrSize,        \* sizeof(struct ofp_header)
    LenAt,          \* last byte of the length field in the header
    BufLen,         \* YOF_BUF_LEN
    MaxWrites       \* bound on the messages of a connection

\* OpenFlow's lengths include the header, which the adapter's buffer holds;
\* a message may be longer than the buffer.
ASSUME ChannelAssumption ==
    /\ HdrSize \in Nat /\ LenAt \in 1 .. HdrSize
    /\ BufLen \in Nat /\ HdrSize <= BufLen
    /\ Length \in [Msgs -> Nat] /\ \A m \in Msgs : Length[m] >= HdrSize
    /\ MaxWrites \in Nat

VARIABLES
    sent,           \* messages a switch wrote, each with its offset
    size,           \* bytes of them that TCP carries
    peer,           \* the switch's end: "up", "gone" or "reset"
    status,         \* the adapter's end: "none", "open", "unread" or "closed"
    rd,             \* bytes recv() has returned
    buf,            \* the bytes from bufs[c] to curs[c]
    got,            \* the buffers handed to handle_message()
    overrun         \* recv() has written past the end of a buffer

vars == <<sent, size, peer, status, rd, buf, got, overrun>>

Written(c) ==
    IF sent[c] = << >> THEN 0
    ELSE LET last == sent[c][Len(sent[c])] IN last.from + Length[last.msg]

\* The p-th byte of the stream.
Covers(s, p) == s.from < p /\ p <= s.from + Length[s.msg]
Byte(c, p) ==
    LET k == CHOOSE k \in DOMAIN sent[c] : Covers(sent[c][k], p)
    IN  [nth |-> k, at |-> p - sent[c][k].from]

\* What ntohs(hdr->length) yields: the length of the message whose header is
\* in the buffer, or anything if the bytes there are no header.
HdrLengths(c, b) ==
    IF b[LenAt].at = LenAt THEN {Length[sent[c][b[LenAt].nth].msg]}
    ELSE 0 .. BufLen + 1

\* Mutants: what is in the buffer already is not subtracted, for the header
\* or for the rest; a complete header is taken for an incomplete one.
RemainingOfHeader(b, h) ==
    IF Len(b) < HdrSize THEN HdrSize ELSE IF Len(b) < h THEN h - Len(b) ELSE 0

RemainingOfBody(b, h) ==
    IF Len(b) < HdrSize THEN HdrSize - Len(b) ELSE IF Len(b) < h THEN h ELSE 0

RemainingPast(b, h) ==
    IF Len(b) <= HdrSize THEN HdrSize - Len(b)
    ELSE IF Len(b) < h THEN h - Len(b)
    ELSE 0

\* The bytes receive_data() asks for; h is the length in the header.
Remaining(b, h) ==
    IF Len(b) < HdrSize THEN HdrSize - Len(b)
    ELSE IF Len(b) < h THEN h - Len(b)
    ELSE 0

-----------------------------------------------------------------------------
Init ==
    /\ sent = [c \in Conns |-> << >>]
    /\ size = [c \in Conns |-> 0]
    /\ peer = [c \in Conns |-> "up"]
    /\ status = [c \in Conns |-> "none"]
    /\ rd = [c \in Conns |-> 0]
    /\ buf = [c \in Conns |-> << >>]
    /\ got = [c \in Conns |-> << >>]
    /\ overrun = FALSE

\* The switch writes a message.
Write(c, m) ==
    /\ peer[c] = "up"
    /\ Len(sent[c]) < MaxWrites
    /\ sent' = [sent EXCEPT ![c] = Append(@, [msg |-> m, from |-> Written(c)])]
    /\ size' = [size EXCEPT ![c] = @ + Length[m]]
    /\ UNCHANGED <<peer, status, rd, buf, got, overrun>>

\* The switch goes away; what it has not got out by then is lost.  After a
\* reset recv() may still return what had arrived, or fail at once.
Leave(c, how) ==
    /\ peer[c] = "up"
    /\ peer' = [peer EXCEPT ![c] = how]
    /\ \E n \in rd[c] .. size[c] : size' = [size EXCEPT ![c] = n]
    /\ UNCHANGED <<sent, status, rd, buf, got, overrun>>

\* new_switch(): without memory for a buffer the connection is closed; if its
\* descriptor has an entry in the event loop already, it is neither read nor
\* closed.
Accept(c) ==
    /\ ~overrun /\ status[c] = "none"
    /\ \E s \in {"open", "unread", "closed"} :
          status' = [status EXCEPT ![c] = s]
    /\ UNCHANGED <<sent, size, peer, rd, buf, got, overrun>>

\* receive_data() with n bytes from recv(), or with no call if there was
\* nothing to ask for.  The length in the header is never compared with the
\* buffer's: bytes beyond it are written all the same, and of what the adapter
\* does after that nothing is said.
Receive(c, n) ==
    /\ ~overrun /\ status[c] = "open"
    /\ rd[c] < size[c] /\ n <= size[c] - rd[c]
    /\ \E h \in IF Len(buf[c]) < HdrSize THEN {0} ELSE HdrLengths(c, buf[c]) :
          LET r == Remaining(buf[c], h)
              b == buf[c] \o [i \in 1 .. n |-> Byte(c, rd[c] + i)]
          IN  /\ n <= r /\ (n = 0 => r = 0)
              /\ \/ /\ Len(b) > BufLen
                    /\ overrun' = TRUE
                    /\ UNCHANGED <<rd, buf, got>>
                 \/ /\ Len(b) <= BufLen
                    /\ \E len \in IF n < r THEN {0} ELSE HdrLengths(c, b) :
                          IF n = r /\ Len(b) >= len
                          THEN /\ got' = [got EXCEPT ![c] = Append(@, b)]
                               /\ buf' = [buf EXCEPT ![c] = << >>]
                          ELSE /\ buf' = [buf EXCEPT ![c] = b]
                               /\ UNCHANGED got
                    /\ rd' = [rd EXCEPT ![c] = @ + n]
                    /\ UNCHANGED overrun
    /\ UNCHANGED <<sent, size, peer, status>>

\* Mutants: the buffer is not erased; the end of the stream is no error.
HangUpKeepsBuffer(c) ==
    /\ ~overrun /\ status[c] = "open"
    /\ peer[c] = "reset" \/ (peer[c] = "gone" /\ rd[c] = size[c])
    /\ status' = [status EXCEPT ![c] = "closed"]
    /\ UNCHANGED <<sent, size, peer, rd, buf, got, overrun>>

HangUpOnError(c) ==
    /\ ~overrun /\ status[c] = "open"
    /\ peer[c] = "reset"
    /\ status' = [status EXCEPT ![c] = "closed"]
    /\ buf' = [buf EXCEPT ![c] = << >>]
    /\ UNCHANGED <<sent, size, peer, rd, got, overrun>>

\* receive_data() when recv() returns 0 or an error.
HangUp(c) ==
    /\ ~overrun /\ status[c] = "open"
    /\ peer[c] = "reset" \/ (peer[c] = "gone" /\ rd[c] = size[c])
    /\ status' = [status EXCEPT ![c] = "closed"]
    /\ buf' = [buf EXCEPT ![c] = << >>]
    /\ UNCHANGED <<sent, size, peer, rd, got, overrun>>

Next ==
    \E c \in Conns :
        \/ \E m \in Msgs : Write(c, m)
        \/ \E how \in {"gone", "reset"} : Leave(c, how)
        \/ Accept(c)
        \/ \E n \in 0 .. size[c] - rd[c] : Receive(c, n)
        \/ HangUp(c)

Spec == Init /\ [][Next]_vars

(***************************************************************************)
(* epoll is level-triggered and dispatch() calls back every descriptor it  *)
(* reports, so the listener and each connection that stays readable get    *)
(* their turn.  Nothing is assumed of the switches.                        *)
(***************************************************************************)
Fairness ==
    \A c \in Conns :
        /\ WF_vars(Accept(c))
        /\ WF_vars(\E n \in 0 .. size[c] - rd[c] : Receive(c, n))
        /\ WF_vars(HangUp(c))

FairSpec == Spec /\ Fairness

-----------------------------------------------------------------------------
Bytes == [nth : Nat, at : Nat]

\* bufs and curs have an entry for the open connections.
TypeOK ==
    /\ sent \in [Conns -> Seq([msg : Msgs, from : Nat])]
    /\ size \in [Conns -> Nat]
    /\ peer \in [Conns -> {"up", "gone", "reset"}]
    /\ status \in [Conns -> {"none", "open", "unread", "closed"}]
    /\ rd \in [Conns -> Nat]
    /\ buf \in [Conns -> Seq(Bytes)]
    /\ got \in [Conns -> Seq(Seq(Bytes))]
    /\ overrun \in BOOLEAN
    /\ \A c \in Conns : status[c] # "open" => buf[c] = << >>

\* The first n bytes of the k-th message.
Prefix(k, n) == [i \in 1 .. n |-> [nth |-> k, at |-> i]]

\* However TCP cuts the stream, handle_message() gets every message whole,
\* once and in the order the switch wrote them.
WholeMessages ==
    \A c \in Conns : \A k \in DOMAIN got[c] :
        /\ k \in DOMAIN sent[c]
        /\ got[c][k] = Prefix(k, Length[sent[c][k].msg])

\* The message coming in on a connection is longer than the buffer.
TooLong(c) ==
    LET k == Len(got[c]) + 1
    IN  k \in DOMAIN sent[c] /\ Length[sent[c][k].msg] > BufLen

\* Since receive_data() does not compare a message's length with YOF_BUF_LEN,
\* a longer message is written past the end of the buffer.  Nothing else is:
\* a request that goes beyond the buffer is always for such a message, however
\* the stream was cut before, and such a message never gets to
\* handle_message() without an overrun.
NoOverrun ==
    /\ overrun => \E c \in Conns : TooLong(c)
    /\ \A c \in Conns :
          LET b == buf[c]
          IN  /\ \A h \in IF Len(b) < HdrSize THEN {0} ELSE HdrLengths(c, b) :
                    Len(b) + Remaining(b, h) <= BufLen \/ TooLong(c)
              /\ \A k \in DOMAIN got[c] : Len(got[c][k]) <= BufLen

\* A callback for a readable connection always asks for something: it is
\* never called for the same byte for ever.
AlwaysReads ==
    \A c \in Conns :
        LET b == buf[c]
        IN  \A h \in IF Len(b) < HdrSize THEN {0} ELSE HdrLengths(c, b) :
                Remaining(b, h) > 0

\* A message on a connection that stays up is handed over in the end, unless
\* the connection is never read or a message was too long for its buffer.
EveryMessageTaken ==
    \A c \in Conns : \A k \in 1 .. MaxWrites :
        Len(sent[c]) >= k
            ~> \/ Len(got[c]) >= k
               \/ status[c] \in {"unread", "closed"} \/ peer[c] # "up"
               \/ overrun

\* The adapter notices that a switch is gone, with the same exceptions.
EveryLossNoticed ==
    \A c \in Conns :
        peer[c] # "up" ~> status[c] \in {"unread", "closed"} \/ overrun

-----------------------------------------------------------------------------
(***************************************************************************)
(* The connections implement MsgFifo: a buffer that was handed over stands *)
(* for the message its first byte belongs to, if it is all of it and no    *)
(* more, and for no message of the switch otherwise.  A connection that is *)
(* accepted but never read is one that never opens.                        *)
(***************************************************************************)
MsgsOf(s) == [k \in DOMAIN s |-> s[k].msg]
Taken(s, b) ==
    LET m == s[b[1].nth].msg
    IN  IF b = Prefix(b[1].nth, Length[m]) THEN m ELSE "garbled"
TakenMsgs(s, g) == [k \in DOMAIN g |-> Taken(s, g[k])]

AbsWritten == [c \in Conns |-> MsgsOf(sent[c])]
AbsTaken == [c \in Conns |-> TakenMsgs(sent[c], got[c])]
AbsState == [c \in Conns |-> IF status[c] = "unread" THEN "none" ELSE status[c]]

Fifo == INSTANCE MsgFifo WITH
            written <- AbsWritten, taken <- AbsTaken, state <- AbsState

\* The byte-level adapter behaves as a queue of whole messages.
ImplementsFifo == Fifo!Spec

=============================================================================
