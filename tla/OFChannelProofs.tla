--------------------------- MODULE OFChannelProofs ---------------------------
(***************************************************************************)
(* The framing of the adapter's connections is right for every message     *)
(* length, header size and fragmentation.  The invariant ties the buffer   *)
(* to the stream: what is in it is the beginning of the first message not  *)
(* yet handed over, and less than all of it; and the messages handed over  *)
(* fit the buffer, past which recv() has written only if the message that  *)
(* is coming in does not.                                                  *)
(***************************************************************************)
EXTENDS OFChannel, SequenceTheorems, TLAPS

SentMsgs == [msg : Msgs, from : Nat]

\* Where the k-th message of s begins; for k = Len(s) + 1, where s ends.
Begin(s, k) ==
    IF k = 1 THEN 0 ELSE s[k - 1].from + Length[s[k - 1].msg]

\* The messages lie end to end in the stream.
Layout(s) ==
    \A k \in 1 .. Len(s) :
        /\ s[k].from = Begin(s, k)
        /\ \A j \in 1 .. k - 1 : s[j].from + Length[s[j].msg] <= s[k].from

\* The messages handed over are the first ones of s.
Whole(s, g) ==
    /\ Len(g) <= Len(s)
    /\ \A k \in 1 .. Len(g) : /\ g[k] = Prefix(k, Length[s[k].msg])
                              /\ Length[s[k].msg] <= BufLen

\* r bytes were read: the messages of g and, in b, a part of the next one.
Place(s, r, b, g) ==
    LET k == Len(g) + 1
    IN  /\ b = Prefix(k, Len(b))
        /\ r = Begin(s, k) + Len(b)
        /\ Len(b) < IF k <= Len(s) THEN Length[s[k].msg] ELSE 1

\* The invariant of one connection.
Conn(s, z, st, r, b, g) ==
    /\ r <= z /\ z <= Begin(s, Len(s) + 1)
    /\ Layout(s)
    /\ Whole(s, g)
    /\ st # "closed" => Place(s, r, b, g)

ChInv ==
    /\ TypeOK
    /\ overrun => \E c \in Conns : TooLong(c)
    /\ \A c \in Conns :
          Conn(sent[c], size[c], status[c], rd[c], buf[c], got[c])

-----------------------------------------------------------------------------
\* A message has at least a header, and the buffer holds that.
LEMMA LengthBounds ==
    /\ \A m \in Msgs : Length[m] \in Nat /\ Length[m] >= HdrSize
    /\ HdrSize \in Nat /\ HdrSize >= 1 /\ HdrSize <= BufLen /\ BufLen \in Nat
    /\ LenAt \in 1 .. HdrSize
BY ChannelAssumption

\* What the entries of sent are.
LEMMA SentTypes ==
    ASSUME NEW s \in Seq(SentMsgs), NEW k \in 1 .. Len(s)
    PROVE  /\ s[k].from \in Nat
           /\ s[k].msg \in Msgs
           /\ Length[s[k].msg] \in Nat
<1>1. s[k] \in SentMsgs
  BY ElementOfSeq
<1>2. s[k].msg \in Msgs /\ s[k].from \in Nat
  BY <1>1 DEF SentMsgs
<1> QED BY <1>2, LengthBounds

\* Beginnings are byte positions.
LEMMA BeginNat ==
    ASSUME NEW s \in Seq(SentMsgs), NEW k \in 1 .. Len(s) + 1
    PROVE  Begin(s, k) \in Nat
<1>1. CASE k = 1
  BY <1>1 DEF Begin
<1>2. CASE k # 1
  <2>1. k - 1 \in 1 .. Len(s)
    BY <1>2
  <2>2. s[k - 1].from \in Nat /\ Length[s[k - 1].msg] \in Nat
    BY <2>1, SentTypes
  <2> QED BY <1>2, <2>2 DEF Begin
<1> QED BY <1>1, <1>2

\* Prefixes as sequences, and how they grow.
LEMMA PrefixSeq ==
    ASSUME NEW k \in Nat, NEW n \in Nat
    PROVE  /\ Prefix(k, n) \in Seq(Bytes)
           /\ Len(Prefix(k, n)) = n
           /\ \A i \in 1 .. n : Prefix(k, n)[i] = [nth |-> k, at |-> i]
<1>1. \A i \in 1 .. n : [nth |-> k, at |-> i] \in Bytes
  BY DEF Bytes
<1> QED BY <1>1 DEF Prefix

\* The empty beginning is the empty sequence.
LEMMA PrefixEmpty ==
    ASSUME NEW k \in Nat
    PROVE  Prefix(k, 0) = << >>
BY PrefixSeq, EmptySeq

\* A sequence that begins with a and goes on with t is a \o t.
LEMMA ConcatIs ==
    ASSUME NEW S, NEW a \in Seq(S), NEW t \in Seq(S), NEW b \in Seq(S),
           Len(b) = Len(a) + Len(t),
           \A i \in 1 .. Len(a) : b[i] = a[i],
           \A i \in 1 .. Len(t) : b[Len(a) + i] = t[i]
    PROVE  a \o t = b
<1>1. Len(a) \in Nat /\ Len(t) \in Nat
  OBVIOUS
<1>2. /\ a \o t \in Seq(S) /\ Len(a \o t) = Len(a) + Len(t)
      /\ \A i \in 1 .. Len(a) + Len(t) :
            (a \o t)[i] = IF i <= Len(a) THEN a[i] ELSE t[i - Len(a)]
  BY ConcatProperties
<1>3. ASSUME NEW i \in 1 .. Len(a) + Len(t) PROVE (a \o t)[i] = b[i]
  <2>1. CASE i <= Len(a)
    BY <1>1, <1>2, <2>1
  <2>2. CASE ~(i <= Len(a))
    <3> DEFINE j == i - Len(a)
    <3>1. j \in 1 .. Len(t) /\ Len(a) + j = i
      BY <1>1, <2>2
    <3>2. (a \o t)[i] = t[j]
      BY <1>2, <2>2
    <3> HIDE DEF j
    <3>3. b[Len(a) + j] = t[j]
      BY <3>1
    <3> QED BY <3>1, <3>2, <3>3
  <2> QED BY <2>1, <2>2
<1> QED BY <1>2, <1>3, SeqEqual

\* Bytes n + 1 to n + m of the k-th message.
Piece(k, n, m) == [i \in 1 .. m |-> [nth |-> k, at |-> n + i]]

\* Bytes that follow a beginning of a message make a longer one.
LEMMA PrefixGrows ==
    ASSUME NEW k \in Nat, NEW n \in Nat, NEW m \in Nat
    PROVE  Prefix(k, n) \o Piece(k, n, m) = Prefix(k, n + m)
<1>1. /\ Prefix(k, n) \in Seq(Bytes) /\ Len(Prefix(k, n)) = n
      /\ \A i \in 1 .. n : Prefix(k, n)[i] = [nth |-> k, at |-> i]
  BY PrefixSeq
<1>2. /\ Prefix(k, n + m) \in Seq(Bytes) /\ Len(Prefix(k, n + m)) = n + m
      /\ \A i \in 1 .. n + m : Prefix(k, n + m)[i] = [nth |-> k, at |-> i]
  BY PrefixSeq
<1>3. /\ Piece(k, n, m) \in Seq(Bytes) /\ Len(Piece(k, n, m)) = m
      /\ \A i \in 1 .. m : Piece(k, n, m)[i] = [nth |-> k, at |-> n + i]
  <2>1. \A i \in 1 .. m : [nth |-> k, at |-> n + i] \in Bytes
    BY DEF Bytes
  <2> QED BY <2>1 DEF Piece
<1>4. \A i \in 1 .. n : i \in 1 .. n + m
  OBVIOUS
<1>5. \A i \in 1 .. n : Prefix(k, n + m)[i] = Prefix(k, n)[i]
  BY <1>1, <1>2, <1>4
<1>6. \A i \in 1 .. m : n + i \in 1 .. n + m
  OBVIOUS
<1>7. \A i \in 1 .. m : Prefix(k, n + m)[n + i] = Piece(k, n, m)[i]
  BY <1>2, <1>3, <1>6
<1> DEFINE a == Prefix(k, n)
           b == Prefix(k, n + m)
           t == Piece(k, n, m)
<1>8. a \in Seq(Bytes) /\ b \in Seq(Bytes) /\ t \in Seq(Bytes)
  BY <1>1, <1>2, <1>3
<1>9. /\ Len(b) = Len(a) + Len(t)
      /\ \A i \in 1 .. Len(a) : b[i] = a[i]
      /\ \A i \in 1 .. Len(t) : b[Len(a) + i] = t[i]
  BY <1>1, <1>2, <1>3, <1>5, <1>7
<1> HIDE DEF a, b, t
<1>10. a \o t = b
  BY <1>8, <1>9, ConcatIs
<1> QED BY <1>10 DEF a, b, t

\* A byte of the k-th message is found as such.
LEMMA ByteAt ==
    ASSUME NEW c \in Conns, sent[c] \in Seq(SentMsgs), Layout(sent[c]),
           NEW k \in 1 .. Len(sent[c]),
           NEW o \in 1 .. Length[sent[c][k].msg]
    PROVE  Byte(c, sent[c][k].from + o) = [nth |-> k, at |-> o]
<1> DEFINE s == sent[c]
           p == s[k].from + o
<1>1. \A j \in 1 .. Len(s) : /\ s[j].from \in Nat
                             /\ Length[s[j].msg] \in Nat
  BY SentTypes
<1>2. DOMAIN s = 1 .. Len(s) /\ Len(s) \in Nat
  OBVIOUS
<1>3. Covers(s[k], p)
  BY <1>1 DEF Covers
<1>4. ASSUME NEW j \in 1 .. Len(s), Covers(s[j], p) PROVE j = k
  <2>1. ~(j < k)
    BY <1>1, <1>4 DEF Covers, Layout
  <2>2. ~(k < j)
    <3>1. s[j].from < p
      BY <1>4 DEF Covers
    <3>2. CASE k < j
      <4>1. s[k].from + Length[s[k].msg] <= s[j].from
        BY <3>2 DEF Layout
      <4>2. p <= s[k].from + Length[s[k].msg]
        BY <1>3 DEF Covers
      <4>3. s[j].from \in Nat /\ s[k].from \in Nat /\ Length[s[k].msg] \in Nat /\ p \in Nat
        BY <1>1
      <4> HIDE DEF p
      <4> QED BY <3>1, <4>1, <4>2, <4>3
    <3> QED BY <3>2
  <2> QED BY <1>2, <2>1, <2>2
<1>5. p - s[k].from = o
  BY <1>1
<1> HIDE DEF p
<1>6. (CHOOSE j \in DOMAIN s : Covers(s[j], p)) = k
  BY <1>2, <1>3, <1>4
<1>7. Byte(c, p) = [nth |-> k, at |-> p - s[k].from]
  BY <1>6 DEF Byte
<1> QED BY <1>5, <1>7 DEF p

\* The length field of a buffer that starts with the header of the k-th
\* message is that message's length.
LEMMA HeaderLength ==
    ASSUME NEW c \in Conns, NEW k \in Nat, NEW n \in Nat, n >= HdrSize
    PROVE  HdrLengths(c, Prefix(k, n)) = {Length[sent[c][k].msg]}
<1>1. LenAt \in 1 .. n
  BY LengthBounds
<1>2. Prefix(k, n)[LenAt] = [nth |-> k, at |-> LenAt]
  BY <1>1, PrefixSeq
<1> QED BY <1>2 DEF HdrLengths

\* A switch that writes a message makes the stream longer at its end.
LEMMA AppendLayout ==
    ASSUME NEW s \in Seq(SentMsgs), Layout(s), NEW m \in Msgs
    PROVE  LET t == Append(s, [msg |-> m, from |-> Begin(s, Len(s) + 1)])
           IN  /\ t \in Seq(SentMsgs) /\ Len(t) = Len(s) + 1
               /\ \A k \in 1 .. Len(s) : t[k] = s[k]
               /\ t[Len(s) + 1].msg = m
               /\ Layout(t)
               /\ \A k \in 1 .. Len(s) + 1 : Begin(t, k) = Begin(s, k)
               /\ Begin(t, Len(t) + 1) = Begin(s, Len(s) + 1) + Length[m]
<1> DEFINE L == Len(s)
           e == [msg |-> m, from |-> Begin(s, L + 1)]
           t == Append(s, e)
<1>1. L \in Nat
  OBVIOUS
<1>2. Begin(s, L + 1) \in Nat
  BY <1>1, BeginNat
<1>3. e \in SentMsgs
  BY <1>2 DEF SentMsgs
<1>4. e.msg = m /\ e.from = Begin(s, L + 1)
  OBVIOUS
<1> HIDE DEF e
<1>5. /\ t \in Seq(SentMsgs) /\ Len(t) = L + 1
      /\ \A k \in 1 .. L : t[k] = s[k]
      /\ t[L + 1] = e
  BY <1>3 DEF e
<1> HIDE DEF t
<1>6. \A k \in 1 .. L + 1 : Begin(t, k) = Begin(s, k)
  BY <1>1, <1>5 DEF Begin
<1>7. Begin(t, Len(t) + 1) = Begin(s, L + 1) + Length[m]
  BY <1>1, <1>4, <1>5 DEF Begin
<1>8. Layout(t)
  <2> SUFFICES ASSUME NEW k \in 1 .. L + 1
               PROVE  /\ t[k].from = Begin(t, k)
                      /\ \A j \in 1 .. k - 1 :
                            t[j].from + Length[t[j].msg] <= t[k].from
    BY <1>5 DEF Layout
  <2>1. CASE k <= L
    BY <1>1, <1>5, <1>6, <2>1 DEF Layout
  <2>2. CASE k = L + 1
    <3>1. t[k].from = Begin(s, L + 1)
      BY <1>4, <1>5, <2>2
    <3>2. ASSUME NEW j \in 1 .. L
          PROVE  s[j].from + Length[s[j].msg] <= Begin(s, L + 1)
      <4>1. Begin(s, L + 1) = s[L].from + Length[s[L].msg]
        BY <1>1 DEF Begin
      <4>2. /\ s[L].from \in Nat /\ Length[s[L].msg] \in Nat
            /\ s[j].from \in Nat /\ Length[s[j].msg] \in Nat
        BY <1>1, SentTypes
      <4>3. CASE j = L
        BY <4>1, <4>2, <4>3
      <4>4. CASE j < L
        <5>1. s[j].from + Length[s[j].msg] <= s[L].from
          BY <1>1, <4>4 DEF Layout
        <5> QED BY <4>1, <4>2, <5>1
      <4> QED BY <1>1, <4>3, <4>4
    <3> QED BY <1>1, <1>5, <1>6, <2>2, <3>1, <3>2
  <2> QED BY <1>1, <2>1, <2>2
<1> QED BY <1>4, <1>5, <1>6, <1>7, <1>8 DEF t, e

-----------------------------------------------------------------------------
\* The types of one connection's state.
LEMMA ConnTypes ==
    ASSUME TypeOK, NEW c \in Conns
    PROVE  /\ sent[c] \in Seq(SentMsgs) /\ Len(sent[c]) \in Nat
           /\ size[c] \in Nat /\ rd[c] \in Nat
           /\ buf[c] \in Seq(Bytes) /\ Len(buf[c]) \in Nat
           /\ got[c] \in Seq(Seq(Bytes)) /\ Len(got[c]) \in Nat
           /\ status[c] # "open" => buf[c] = << >>
<1>1. /\ sent[c] \in Seq(SentMsgs)
      /\ size[c] \in Nat /\ rd[c] \in Nat
      /\ buf[c] \in Seq(Bytes) /\ got[c] \in Seq(Seq(Bytes))
      /\ status[c] # "open" => buf[c] = << >>
  BY DEF TypeOK, SentMsgs
<1> QED BY <1>1

\* Where the stream ends.
LEMMA WrittenIs ==
    ASSUME NEW c \in Conns, sent[c] \in Seq(SentMsgs)
    PROVE  Written(c) = Begin(sent[c], Len(sent[c]) + 1)
<1>1. CASE sent[c] = << >>
  BY <1>1 DEF Written, Begin
<1>2. CASE sent[c] # << >>
  <2>1. Len(sent[c]) \in Nat \ {0}
    BY <1>2, EmptySeq
  <2> QED BY <1>2, <2>1 DEF Written, Begin
<1> QED BY <1>1, <1>2

\* What receive_data() asks for while the k-th message is coming in: more than
\* nothing, and no more than the rest of it, which goes beyond the buffer only
\* if the message does.
LEMMA Asks ==
    ASSUME ChInv, NEW c \in Conns, status[c] # "closed",
           NEW h \in IF Len(buf[c]) < HdrSize THEN {0} ELSE HdrLengths(c, buf[c])
    PROVE  LET k == Len(got[c]) + 1
               n == Len(buf[c])
               r == Remaining(buf[c], h)
           IN  /\ r \in Nat /\ r > 0 /\ (n + r <= BufLen \/ TooLong(c))
               /\ n < HdrSize => r = HdrSize - n
               /\ n >= HdrSize =>
                     /\ k <= Len(sent[c])
                     /\ r = Length[sent[c][k].msg] - n
<1> DEFINE k == Len(got[c]) + 1
           n == Len(buf[c])
<1>1. /\ n \in Nat /\ k \in Nat /\ k >= 1
      /\ sent[c] \in Seq(SentMsgs) /\ Len(sent[c]) \in Nat
  BY ConnTypes DEF ChInv
<1>2. /\ buf[c] = Prefix(k, n)
      /\ n < IF k <= Len(sent[c]) THEN Length[sent[c][k].msg] ELSE 1
  BY DEF ChInv, Conn, Place
<1>3. CASE n < HdrSize
  BY <1>1, <1>3, LengthBounds DEF Remaining
<1>4. CASE n >= HdrSize
  <2>1. k <= Len(sent[c])
    BY <1>1, <1>2, <1>4, LengthBounds
  <2>2. h = Length[sent[c][k].msg]
    <3>1. HdrLengths(c, Prefix(k, n)) = {Length[sent[c][k].msg]}
      BY <1>1, <1>4, HeaderLength
    <3> QED BY <1>1, <1>2, <1>4, <3>1, LengthBounds
  <2>3. h \in Nat /\ n < h
    <3>1. k \in 1 .. Len(sent[c]) /\ n < Length[sent[c][k].msg]
      BY <1>1, <1>2, <2>1
    <3>2. sent[c][k].msg \in Msgs
      BY <1>1, <3>1, SentTypes
    <3> QED BY <2>2, <3>1, <3>2, LengthBounds
  <2>4. ~(n < HdrSize)
    BY <1>1, <1>4, LengthBounds
  <2>5. Remaining(buf[c], h) = h - n
    BY <2>3, <2>4, Zenon DEF Remaining
  <2>6. h - n \in Nat /\ h - n > 0 /\ n + (h - n) = h
    BY <1>1, <2>3
  <2>7. h <= BufLen \/ TooLong(c)
    <3>1. k \in DOMAIN sent[c]
      BY <1>1, <2>1
    <3> QED BY <2>2, <2>3, <3>1, LengthBounds DEF TooLong
  <2> QED BY <2>1, <2>2, <2>4, <2>5, <2>6, <2>7
<1> QED BY <1>1, <1>3, <1>4, LengthBounds

\* What a callback does: it adds a piece of the next message to the buffer and
\* hands the message over as soon as it is complete, or writes past the end of
\* the buffer.
LEMMA ReceiveEffect ==
    ASSUME ChInv, NEW c \in Conns, NEW n \in 0 .. size[c] - rd[c], Receive(c, n)
    PROVE  LET k == Len(got[c]) + 1
               l == Length[sent[c][k].msg]
               b == Len(buf[c])
           IN  /\ k \in 1 .. Len(sent[c])
               /\ n \in Nat /\ n > 0
               /\ rd[c] = sent[c][k].from + b
               /\ \/ /\ TooLong(c) /\ overrun'
                     /\ UNCHANGED <<rd, buf, got>>
                  \/ /\ b + n = l /\ l <= BufLen
                     /\ got' = [got EXCEPT ![c] = Append(@, Prefix(k, l))]
                     /\ buf' = [buf EXCEPT ![c] = << >>]
                     /\ rd' = [rd EXCEPT ![c] = @ + n]
                     /\ UNCHANGED overrun
                  \/ /\ b + n < l
                     /\ buf' = [buf EXCEPT ![c] = Prefix(k, b + n)]
                     /\ got' = got
                     /\ rd' = [rd EXCEPT ![c] = @ + n]
                     /\ UNCHANGED overrun
<1> DEFINE s == sent[c]
           k == Len(got[c]) + 1
           l == Length[s[k].msg]
           b == Len(buf[c])
<1>1. /\ b \in Nat /\ k \in Nat /\ k >= 1 /\ n \in Nat
      /\ s \in Seq(SentMsgs) /\ Len(s) \in Nat /\ rd[c] \in Nat
      /\ size[c] \in Nat
  BY ConnTypes, LengthBounds DEF ChInv
<1>2. status[c] = "open" /\ rd[c] < size[c] /\ n <= size[c] - rd[c]
  BY DEF Receive
<1>3. /\ buf[c] = Prefix(k, b)
      /\ rd[c] = Begin(s, k) + b
      /\ b < IF k <= Len(s) THEN l ELSE 1
      /\ size[c] <= Begin(s, Len(s) + 1)
      /\ k <= Len(s) + 1
      /\ Layout(s)
  BY <1>1, <1>2 DEF ChInv, Conn, Place, Whole
<1>4. k \in 1 .. Len(s)
  <2>1. CASE k = Len(s) + 1
    <3>1. b = 0 /\ Begin(s, k) \in Nat
      BY <1>1, <1>3, <2>1, BeginNat
    <3> QED BY <1>1, <1>2, <1>3, <2>1, <3>1
  <2> QED BY <1>1, <1>3, <2>1
<1>5. l \in Nat /\ l >= HdrSize /\ b < l /\ s[k].from \in Nat
  <2>1. s[k].msg \in Msgs /\ s[k].from \in Nat
    BY <1>1, <1>4, SentTypes
  <2>2. b < l
    BY <1>3, <1>4
  <2> QED BY <2>1, <2>2, LengthBounds
<1>6. rd[c] = s[k].from + b
  BY <1>3, <1>4 DEF Layout
<1>7. PICK h \in IF b < HdrSize THEN {0} ELSE HdrLengths(c, buf[c]) :
        LET r == Remaining(buf[c], h)
            e == buf[c] \o [i \in 1 .. n |-> Byte(c, rd[c] + i)]
        IN  /\ n <= r /\ (n = 0 => r = 0)
            /\ \/ /\ Len(e) > BufLen
                  /\ overrun' = TRUE
                  /\ UNCHANGED <<rd, buf, got>>
               \/ /\ Len(e) <= BufLen
                  /\ \E len \in IF n < r THEN {0} ELSE HdrLengths(c, e) :
                        IF n = r /\ Len(e) >= len
                        THEN /\ got' = [got EXCEPT ![c] = Append(@, e)]
                             /\ buf' = [buf EXCEPT ![c] = << >>]
                        ELSE /\ buf' = [buf EXCEPT ![c] = e]
                             /\ UNCHANGED got
                  /\ rd' = [rd EXCEPT ![c] = @ + n]
                  /\ UNCHANGED overrun
  BY DEF Receive
<1> DEFINE r == Remaining(buf[c], h)
           e == buf[c] \o [i \in 1 .. n |-> Byte(c, rd[c] + i)]
<1>8. /\ r \in Nat /\ r > 0
      /\ b < HdrSize => r = HdrSize - b
      /\ b >= HdrSize => r = l - b
  BY <1>2, Asks
<1>9. n > 0 /\ n <= r /\ b + n <= l
  <2>1. n <= r /\ (n = 0 => r = 0)
    BY <1>7
  <2>2. b \in Nat /\ n \in Nat /\ l \in Nat /\ l >= HdrSize /\ HdrSize \in Nat
    BY <1>1, <1>5, LengthBounds
  <2> HIDE DEF r, b, l
  <2>3. n > 0
    BY <1>8, <2>1, <2>2
  <2>4. CASE b < HdrSize
    BY <1>8, <2>1, <2>2, <2>3, <2>4
  <2>5. CASE b >= HdrSize
    BY <1>8, <2>1, <2>2, <2>3, <2>5
  <2> QED BY <2>2, <2>4, <2>5
<1>10. e = Prefix(k, b + n)
  <2>1. \A i \in 1 .. n : Byte(c, rd[c] + i) = [nth |-> k, at |-> b + i]
    <3> TAKE i \in 1 .. n
    <3>1. b + i \in 1 .. l
      <4>1. b \in Nat /\ n \in Nat /\ l \in Nat /\ b + n <= l
        BY <1>1, <1>5, <1>9
      <4> HIDE DEF b, l
      <4> QED BY <4>1
    <3>2. Byte(c, s[k].from + (b + i)) = [nth |-> k, at |-> b + i]
      BY <1>1, <1>3, <1>4, <3>1, ByteAt
    <3>3. rd[c] + i = s[k].from + (b + i)
      <4> DEFINE f == s[k].from
      <4>1. b \in Nat /\ f \in Nat /\ rd[c] = f + b
        BY <1>1, <1>5, <1>6
      <4>2. i \in Nat
        BY <1>1
      <4> SUFFICES rd[c] + i = f + (b + i)
        OBVIOUS
      <4> HIDE DEF b, f
      <4> QED BY <4>1, <4>2
    <3> QED BY <3>2, <3>3
  <2>2. [i \in 1 .. n |-> Byte(c, rd[c] + i)] = Piece(k, b, n)
    BY <2>1 DEF Piece
  <2>3. e = Prefix(k, b) \o Piece(k, b, n)
    BY <1>3, <2>2
  <2> HIDE DEF e
  <2> QED BY <1>1, <2>3, PrefixGrows
<1>11. Len(e) = b + n
  BY <1>1, <1>10, PrefixSeq
<1>15. CASE Len(e) > BufLen /\ overrun' = TRUE /\ UNCHANGED <<rd, buf, got>>
  <2>1. l > BufLen
    <3>1. b \in Nat /\ n \in Nat /\ l \in Nat /\ BufLen \in Nat /\ b + n > BufLen
      BY <1>1, <1>5, <1>11, <1>15, LengthBounds
    <3>2. b + n <= l
      BY <1>9
    <3> HIDE DEF b, l
    <3> QED BY <3>1, <3>2
  <2>2. k \in DOMAIN s
    BY <1>1, <1>4
  <2>3. TooLong(c)
    BY <2>1, <2>2 DEF TooLong
  <2> QED BY <1>1, <1>4, <1>6, <1>9, <1>15, <2>3
<1> DEFINE Read(len) ==
              IF n = r /\ Len(e) >= len
              THEN /\ got' = [got EXCEPT ![c] = Append(@, e)]
                   /\ buf' = [buf EXCEPT ![c] = << >>]
              ELSE /\ buf' = [buf EXCEPT ![c] = e]
                   /\ UNCHANGED got
<1> SUFFICES ASSUME Len(e) <= BufLen,
                    \E len \in IF n < r THEN {0} ELSE HdrLengths(c, e) : Read(len),
                    rd' = [rd EXCEPT ![c] = @ + n], UNCHANGED overrun
             PROVE  \/ /\ b + n = l /\ l <= BufLen
                       /\ got' = [got EXCEPT ![c] = Append(@, Prefix(k, l))]
                       /\ buf' = [buf EXCEPT ![c] = << >>]
                    \/ /\ b + n < l
                       /\ buf' = [buf EXCEPT ![c] = Prefix(k, b + n)]
                       /\ got' = got
  BY <1>1, <1>4, <1>6, <1>7, <1>9, <1>15
<1>12. PICK len \in IF n < r THEN {0} ELSE HdrLengths(c, e) : Read(len)
  OBVIOUS
<1> HIDE DEF e, r
<1>13. CASE n < r
  <2>1. b + n < l
    <3>1. /\ b \in Nat /\ n \in Nat /\ l \in Nat /\ HdrSize \in Nat
          /\ l >= HdrSize
      BY <1>1, <1>5, LengthBounds
    <3> HIDE DEF b, l
    <3>2. CASE b < HdrSize
      BY <1>8, <1>13, <3>1, <3>2
    <3>3. CASE b >= HdrSize
      BY <1>8, <1>13, <3>1, <3>3
    <3> QED BY <3>1, <3>2, <3>3
  <2>2. buf' = [buf EXCEPT ![c] = e] /\ got' = got
    BY <1>1, <1>8, <1>12, <1>13
  <2> QED BY <1>10, <2>1, <2>2
<1>14. CASE n = r
  <2>1. b + n >= HdrSize
    BY <1>1, <1>5, <1>8, <1>14, LengthBounds
  <2>2. len = l
    <3>1. HdrLengths(c, e) = {l}
      BY <1>1, <1>10, <2>1, HeaderLength
    <3> QED BY <1>1, <1>8, <1>12, <1>14, <3>1
  <2>3. CASE b + n = l
    <3>1. Len(e) >= len
      BY <1>5, <1>11, <2>2, <2>3
    <3>2. got' = [got EXCEPT ![c] = Append(@, e)] /\ buf' = [buf EXCEPT ![c] = << >>]
      BY <1>12, <1>14, <3>1
    <3>3. l <= BufLen
      BY <1>11, <2>3
    <3> QED BY <1>10, <2>3, <3>2, <3>3
  <2>4. CASE b + n < l
    <3>1. ~(Len(e) >= len)
      BY <1>1, <1>5, <1>11, <2>2, <2>4
    <3>2. buf' = [buf EXCEPT ![c] = e] /\ got' = got
      BY <1>12, <3>1
    <3> QED BY <1>10, <2>4, <3>2
  <2>5. b + n = l \/ b + n < l
    <3>1. b \in Nat /\ n \in Nat /\ l \in Nat /\ b + n <= l
      BY <1>1, <1>5, <1>9
    <3> HIDE DEF b, l
    <3> QED BY <3>1
  <2> QED BY <2>3, <2>4, <2>5
<1> QED BY <1>1, <1>8, <1>9, <1>13, <1>14

-----------------------------------------------------------------------------
\* The initial state satisfies the invariant.
LEMMA InitChInv == Init => ChInv
<1> SUFFICES ASSUME Init PROVE ChInv
  OBVIOUS
<1>1. TypeOK
  <2>1. /\ << >> \in Seq([msg : Msgs, from : Nat]) /\ << >> \in Seq(Bytes)
        /\ << >> \in Seq(Seq(Bytes)) /\ 0 \in Nat
    OBVIOUS
  <2>2. overrun \in BOOLEAN
    BY DEF Init
  <2>3. /\ sent \in [Conns -> Seq([msg : Msgs, from : Nat])]
        /\ size \in [Conns -> Nat] /\ rd \in [Conns -> Nat]
        /\ buf \in [Conns -> Seq(Bytes)] /\ got \in [Conns -> Seq(Seq(Bytes))]
    BY <2>1 DEF Init
  <2>4. /\ peer \in [Conns -> {"up", "gone", "reset"}]
        /\ status \in [Conns -> {"none", "open", "unread", "closed"}]
        /\ \A c \in Conns : status[c] # "open" => buf[c] = << >>
    BY DEF Init
  <2> QED BY <2>2, <2>3, <2>4 DEF TypeOK
<1>2. ASSUME NEW c \in Conns
      PROVE  Conn(sent[c], size[c], status[c], rd[c], buf[c], got[c])
  <2>1. /\ sent[c] = << >> /\ size[c] = 0 /\ rd[c] = 0
        /\ buf[c] = << >> /\ got[c] = << >>
    BY DEF Init
  <2>2. Len(<< >>) = 0
    OBVIOUS
  <2>3. Layout(<< >>) /\ Whole(<< >>, << >>) /\ Begin(<< >>, 1) = 0
    BY DEF Layout, Whole, Begin
  <2>4. Place(<< >>, 0, << >>, << >>)
    BY <2>2, <2>3, PrefixEmpty DEF Place
  <2> QED BY <2>1, <2>2, <2>3, <2>4 DEF Conn
<1>3. ~overrun
  BY DEF Init
<1> QED BY <1>1, <1>2, <1>3 DEF ChInv

\* What was too long stays so as long as nothing more is handed over.
LEMMA StaysTooLong ==
    ASSUME NEW c \in Conns, TooLong(c), got' = got,
           sent[c] \in Seq(SentMsgs), sent'[c] \in Seq(SentMsgs),
           Len(sent'[c]) >= Len(sent[c]),
           \A k \in 1 .. Len(sent[c]) : sent'[c][k] = sent[c][k]
    PROVE  TooLong(c)'
<1> DEFINE k == Len(got[c]) + 1
<1>1. k \in 1 .. Len(sent[c]) /\ Length[sent[c][k].msg] > BufLen
  BY DEF TooLong
<1>2. k \in DOMAIN sent'[c] /\ sent'[c][k] = sent[c][k]
  BY <1>1
<1> QED BY <1>1, <1>2 DEF TooLong

\* The connections but those written to keep their messages.
LEMMA KeepsTooLong ==
    ASSUME ChInv, sent' = sent, got' = got, overrun' = overrun
    PROVE  overrun' => (\E c \in Conns : TooLong(c))'
<1>1. ASSUME NEW c \in Conns, TooLong(c) PROVE TooLong(c)'
  BY <1>1 DEF TooLong
<1> QED BY <1>1 DEF ChInv

\* A switch writes: the next message may begin to exist, with nothing read.
LEMMA WriteChInv ==
    ASSUME ChInv, NEW c \in Conns, NEW m \in Msgs, Write(c, m)
    PROVE  ChInv'
<1> DEFINE s == sent[c]
           t == Append(s, [msg |-> m, from |-> Begin(s, Len(s) + 1)])
<1>1. /\ s \in Seq(SentMsgs) /\ Len(s) \in Nat
      /\ size[c] \in Nat /\ rd[c] \in Nat /\ Len(got[c]) \in Nat
      /\ Len(buf[c]) \in Nat
  BY ConnTypes DEF ChInv
<1>2. Conn(s, size[c], status[c], rd[c], buf[c], got[c])
  BY DEF ChInv
<1>3. /\ sent' = [sent EXCEPT ![c] = t]
      /\ size' = [size EXCEPT ![c] = @ + Length[m]]
      /\ UNCHANGED <<peer, status, rd, buf, got, overrun>>
  BY <1>1, WrittenIs DEF Write
<1>4. Length[m] \in Nat /\ Length[m] > 0
  BY LengthBounds
<1>5. Begin(s, Len(s) + 1) \in Nat
  BY <1>1, BeginNat
<1>6. /\ t \in Seq(SentMsgs) /\ Len(t) = Len(s) + 1
      /\ \A k \in 1 .. Len(s) : t[k] = s[k]
      /\ t[Len(s) + 1].msg = m
      /\ Layout(t)
      /\ \A k \in 1 .. Len(s) + 1 : Begin(t, k) = Begin(s, k)
      /\ Begin(t, Len(t) + 1) = Begin(s, Len(s) + 1) + Length[m]
  <2>1. Layout(s)
    BY <1>2 DEF Conn
  <2> QED BY <1>1, <2>1, AppendLayout
<1> HIDE DEF t
<1>7. TypeOK'
  <2>1. sent' \in [Conns -> Seq(SentMsgs)]
    BY <1>3, <1>6 DEF ChInv, TypeOK, SentMsgs
  <2>2. size' \in [Conns -> Nat]
    BY <1>3, <1>4 DEF ChInv, TypeOK
  <2> QED BY <1>3, <2>1, <2>2 DEF ChInv, TypeOK, SentMsgs
<1>8. Conn(t, size[c] + Length[m], status[c], rd[c], buf[c], got[c])
  <2>1. /\ rd[c] <= size[c] + Length[m]
        /\ size[c] + Length[m] <= Begin(t, Len(t) + 1)
    BY <1>1, <1>2, <1>4, <1>5, <1>6 DEF Conn
  <2>2. Whole(t, got[c])
    <3>1. Whole(s, got[c])
      BY <1>2 DEF Conn
    <3>2. \A k \in 1 .. Len(got[c]) : k \in 1 .. Len(s)
      BY <1>1, <3>1 DEF Whole
    <3>3. \A k \in 1 .. Len(got[c]) : /\ got[c][k] = Prefix(k, Length[t[k].msg])
                                      /\ Length[t[k].msg] <= BufLen
      BY <1>6, <3>1, <3>2 DEF Whole
    <3>4. Len(got[c]) <= Len(t)
      BY <1>1, <1>6, <3>1 DEF Whole
    <3> QED BY <3>3, <3>4 DEF Whole
  <2>3. ASSUME status[c] # "closed" PROVE Place(t, rd[c], buf[c], got[c])
    <3> DEFINE k == Len(got[c]) + 1
    <3>1. /\ Place(s, rd[c], buf[c], got[c])
          /\ k \in 1 .. Len(s) + 1
      BY <1>1, <1>2, <2>3 DEF Conn, Whole
    <3>2. k \in Nat /\ Len(t) = Len(s) + 1 /\ Begin(t, k) = Begin(s, k)
      BY <1>1, <1>6, <3>1
    <3>3. /\ buf[c] = Prefix(k, Len(buf[c]))
          /\ rd[c] = Begin(s, k) + Len(buf[c])
          /\ Len(buf[c]) < IF k <= Len(s) THEN Length[s[k].msg] ELSE 1
      BY <3>1 DEF Place
    <3>4. k <= Len(t)
      BY <1>1, <3>1, <3>2
    <3>5. Len(buf[c]) < Length[t[k].msg]
      <4>1. CASE k <= Len(s)
        <5>1. t[k] = s[k]
          BY <1>1, <1>6, <3>2, <4>1
        <5> QED BY <3>3, <4>1, <5>1
      <4>2. CASE k = Len(s) + 1
        <5>1. Length[t[k].msg] = Length[m]
          BY <1>6, <4>2
        <5>2. Len(buf[c]) < 1
          BY <1>1, <3>3, <4>2
        <5> HIDE DEF k
        <5> QED BY <1>1, <1>4, <5>1, <5>2
      <4> QED BY <1>1, <3>1, <4>1, <4>2
    <3> QED BY <3>2, <3>3, <3>4, <3>5 DEF Place
  <2> QED BY <1>6, <2>1, <2>2, <2>3 DEF Conn
<1>9. ASSUME NEW d \in Conns
      PROVE  Conn(sent[d], size[d], status[d], rd[d], buf[d], got[d])'
  <2>1. CASE d = c
    <3>1. sent'[d] = t /\ size'[d] = size[c] + Length[m]
      BY <1>3, <2>1 DEF ChInv, TypeOK
    <3> QED BY <1>3, <1>8, <2>1, <3>1
  <2>2. CASE d # c
    <3>1. sent'[d] = sent[d] /\ size'[d] = size[d]
      BY <1>3, <2>2 DEF ChInv, TypeOK
    <3> QED BY <1>3, <3>1 DEF ChInv
  <2> QED BY <2>1, <2>2
<1>10. ASSUME overrun' PROVE (\E d \in Conns : TooLong(d))'
  <2>1. PICK d \in Conns : TooLong(d)
    BY <1>3, <1>10 DEF ChInv
  <2>2. sent[d] \in Seq(SentMsgs)
    BY ConnTypes DEF ChInv
  <2>3. /\ sent'[d] \in Seq(SentMsgs) /\ Len(sent'[d]) >= Len(sent[d])
        /\ \A k \in 1 .. Len(sent[d]) : sent'[d][k] = sent[d][k]
    <3>1. CASE d = c
      <4>1. sent'[d] = t
        BY <1>3, <3>1 DEF ChInv, TypeOK
      <4> QED BY <1>1, <1>6, <3>1, <4>1
    <3>2. CASE d # c
      <4>1. sent'[d] = sent[d]
        BY <1>3, <3>2 DEF ChInv, TypeOK
      <4> QED BY <2>2, <4>1
    <3> QED BY <3>1, <3>2
  <2>4. got' = got
    BY <1>3
  <2>5. TooLong(d)'
    BY <2>1, <2>2, <2>3, <2>4, StaysTooLong
  <2> QED BY <2>5
<1> QED BY <1>7, <1>9, <1>10 DEF ChInv

\* A switch that leaves takes what was not read yet.
LEMMA LeaveChInv ==
    ASSUME ChInv, NEW c \in Conns, NEW how \in {"gone", "reset"}, Leave(c, how)
    PROVE  ChInv'
<1>1. PICK n \in rd[c] .. size[c] : size' = [size EXCEPT ![c] = n]
  BY DEF Leave
<1>2. /\ peer' = [peer EXCEPT ![c] = how]
      /\ UNCHANGED <<sent, status, rd, buf, got, overrun>>
  BY DEF Leave
<1>3. /\ n \in Nat /\ rd[c] <= n /\ n <= size[c]
      /\ rd[c] \in Nat /\ size[c] \in Nat
  BY <1>1, ConnTypes DEF ChInv
<1>4. TypeOK'
  BY <1>1, <1>2, <1>3 DEF ChInv, TypeOK
<1>5. ASSUME NEW d \in Conns
      PROVE  Conn(sent[d], size[d], status[d], rd[d], buf[d], got[d])'
  <2>1. Conn(sent[d], size[d], status[d], rd[d], buf[d], got[d])
    BY DEF ChInv
  <2>2. CASE d = c
    <3>1. size'[d] = n
      BY <1>1, <2>2 DEF ChInv, TypeOK
    <3>2. Begin(sent[c], Len(sent[c]) + 1) \in Nat
      <4>1. sent[c] \in Seq(SentMsgs) /\ Len(sent[c]) + 1 \in 1 .. Len(sent[c]) + 1
        BY ConnTypes DEF ChInv
      <4> QED BY <4>1, BeginNat
    <3> QED BY <1>2, <1>3, <2>1, <2>2, <3>1, <3>2 DEF Conn
  <2>3. CASE d # c
    <3>1. size'[d] = size[d]
      BY <1>1, <2>3 DEF ChInv, TypeOK
    <3> QED BY <1>2, <2>1, <3>1
  <2> QED BY <2>2, <2>3
<1> QED BY <1>2, <1>4, <1>5, KeepsTooLong DEF ChInv

\* Accepting a connection, leaving it unread, or closing it for want of memory.
LEMMA AcceptChInv ==
    ASSUME ChInv, NEW c \in Conns, Accept(c)
    PROVE  ChInv'
<1>1. PICK st \in {"open", "unread", "closed"} : status' = [status EXCEPT ![c] = st]
  BY DEF Accept
<1>2. status[c] = "none" /\ UNCHANGED <<sent, size, peer, rd, buf, got, overrun>>
  BY DEF Accept
<1>3. TypeOK'
  BY <1>1, <1>2 DEF ChInv, TypeOK
<1>4. ASSUME NEW d \in Conns
      PROVE  Conn(sent[d], size[d], status[d], rd[d], buf[d], got[d])'
  <2>1. Conn(sent[d], size[d], status[d], rd[d], buf[d], got[d])
    BY DEF ChInv
  <2>2. status'[d] # "closed" => status[d] # "closed"
    BY <1>1, <1>2 DEF ChInv, TypeOK
  <2> QED BY <1>2, <2>1, <2>2 DEF Conn
<1> QED BY <1>2, <1>3, <1>4, KeepsTooLong DEF ChInv

\* A closed connection has lost its buffer; nothing is said of its place.
LEMMA HangUpChInv ==
    ASSUME ChInv, NEW c \in Conns, HangUp(c)
    PROVE  ChInv'
<1>1. /\ status' = [status EXCEPT ![c] = "closed"]
      /\ buf' = [buf EXCEPT ![c] = << >>]
      /\ UNCHANGED <<sent, size, peer, rd, got, overrun>>
  BY DEF HangUp
<1>2. TypeOK'
  <2>1. << >> \in Seq(Bytes)
    OBVIOUS
  <2> QED BY <1>1, <2>1 DEF ChInv, TypeOK
<1>3. ASSUME NEW d \in Conns
      PROVE  Conn(sent[d], size[d], status[d], rd[d], buf[d], got[d])'
  <2>1. Conn(sent[d], size[d], status[d], rd[d], buf[d], got[d])
    BY DEF ChInv
  <2>2. status'[d] # "closed" => d # c /\ status[d] # "closed"
    BY <1>1 DEF ChInv, TypeOK
  <2>3. d # c => buf'[d] = buf[d]
    BY <1>1 DEF ChInv, TypeOK
  <2> QED BY <1>1, <2>1, <2>2, <2>3 DEF Conn
<1> QED BY <1>1, <1>2, <1>3, KeepsTooLong DEF ChInv

\* A callback advances the place by the piece it read, and past the message
\* when that completes it.
LEMMA ReceiveChInv ==
    ASSUME ChInv, NEW c \in Conns, NEW n \in 0 .. size[c] - rd[c], Receive(c, n)
    PROVE  ChInv'
<1> DEFINE s == sent[c]
           k == Len(got[c]) + 1
           l == Length[s[k].msg]
           b == Len(buf[c])
<1>1. /\ s \in Seq(SentMsgs) /\ Len(s) \in Nat
      /\ size[c] \in Nat /\ rd[c] \in Nat
      /\ got[c] \in Seq(Seq(Bytes)) /\ Len(got[c]) \in Nat /\ k \in Nat
      /\ buf[c] \in Seq(Bytes) /\ b \in Nat
  BY ConnTypes DEF ChInv
<1>2. Conn(s, size[c], status[c], rd[c], buf[c], got[c])
  BY DEF ChInv
<1>3. /\ ~overrun /\ status[c] = "open"
      /\ rd[c] + n <= size[c]
      /\ UNCHANGED <<sent, size, peer, status>>
  BY <1>1 DEF Receive
<1>4. /\ k \in 1 .. Len(s)
      /\ n \in Nat /\ n > 0
      /\ rd[c] = s[k].from + b
      /\ \/ /\ TooLong(c) /\ overrun'
            /\ UNCHANGED <<rd, buf, got>>
         \/ /\ b + n = l /\ l <= BufLen
            /\ got' = [got EXCEPT ![c] = Append(@, Prefix(k, l))]
            /\ buf' = [buf EXCEPT ![c] = << >>]
            /\ rd' = [rd EXCEPT ![c] = @ + n]
            /\ UNCHANGED overrun
         \/ /\ b + n < l
            /\ buf' = [buf EXCEPT ![c] = Prefix(k, b + n)]
            /\ got' = got
            /\ rd' = [rd EXCEPT ![c] = @ + n]
            /\ UNCHANGED overrun
  BY ReceiveEffect
<1>11. CASE TooLong(c) /\ overrun' /\ UNCHANGED <<rd, buf, got>>
  <2>1. UNCHANGED <<sent, size, peer, status, rd, buf, got>> /\ overrun' \in BOOLEAN
    <3>1. overrun' \in BOOLEAN
      BY DEF Receive, ChInv, TypeOK
    <3> QED BY <1>3, <1>11, <3>1
  <2>2. TypeOK'
    BY <2>1 DEF ChInv, TypeOK
  <2>3. TooLong(c)'
    BY <1>11, <2>1 DEF TooLong
  <2>4. ASSUME NEW d \in Conns
        PROVE  Conn(sent[d], size[d], status[d], rd[d], buf[d], got[d])'
    BY <2>1 DEF ChInv
  <2> QED BY <2>2, <2>3, <2>4 DEF ChInv
<1> SUFFICES ASSUME rd' = [rd EXCEPT ![c] = @ + n], ~overrun',
                    overrun' \in BOOLEAN,
                    \/ /\ b + n = l /\ l <= BufLen
                       /\ got' = [got EXCEPT ![c] = Append(@, Prefix(k, l))]
                       /\ buf' = [buf EXCEPT ![c] = << >>]
                    \/ /\ b + n < l
                       /\ buf' = [buf EXCEPT ![c] = Prefix(k, b + n)]
                       /\ got' = got
             PROVE  ChInv'
  <2>1. overrun \in BOOLEAN
    BY DEF ChInv, TypeOK
  <2> QED BY <1>3, <1>4, <1>11, <2>1
<1>5. s[k].from \in Nat /\ l \in Nat /\ l > 0
  <2>1. s[k].from \in Nat /\ s[k].msg \in Msgs
    BY <1>1, <1>4, SentTypes
  <2> QED BY <2>1, LengthBounds
<1>6. s[k].from = Begin(s, k)
  BY <1>2, <1>4 DEF Conn, Layout
<1>7. rd' \in [Conns -> Nat] /\ rd'[c] = s[k].from + (b + n)
  <2>1. rd \in [Conns -> Nat]
    BY DEF ChInv, TypeOK
  <2>2. rd' \in [Conns -> Nat] /\ rd'[c] = rd[c] + n
    BY <1>3, <1>4, <2>1
  <2>3. rd[c] = s[k].from + b /\ n \in Nat /\ b \in Nat
    BY <1>1, <1>4
  <2>4. rd[c] + n = s[k].from + (b + n)
    BY <1>5, <2>3
  <2> QED BY <2>2, <2>4
<1>8. ASSUME NEW d \in Conns, d # c
      PROVE  /\ rd'[d] = rd[d] /\ buf'[d] = buf[d] /\ got'[d] = got[d]
             /\ Conn(sent[d], size[d], status[d], rd[d], buf[d], got[d])
  BY <1>8 DEF ChInv, TypeOK
<1>9. CASE /\ b + n = l /\ l <= BufLen
           /\ got' = [got EXCEPT ![c] = Append(@, Prefix(k, l))]
           /\ buf' = [buf EXCEPT ![c] = << >>]
  <2> DEFINE g == Append(got[c], Prefix(k, l))
  <2>1. Prefix(k, l) \in Seq(Bytes)
    BY <1>1, <1>5, PrefixSeq
  <2>2. /\ g \in Seq(Seq(Bytes)) /\ Len(g) = k
        /\ \A j \in 1 .. Len(got[c]) : g[j] = got[c][j]
        /\ g[k] = Prefix(k, l)
    BY <1>1, <2>1
  <2> HIDE DEF g
  <2>3. got' = [got EXCEPT ![c] = g]
    BY <1>9 DEF g
  <2>4. TypeOK'
    <3>1. << >> \in Seq(Bytes)
      OBVIOUS
    <3>2. buf' \in [Conns -> Seq(Bytes)]
      BY <1>9, <3>1 DEF ChInv, TypeOK
    <3>3. got' \in [Conns -> Seq(Seq(Bytes))]
      BY <2>2, <2>3 DEF ChInv, TypeOK
    <3>4. \A d \in Conns : status'[d] # "open" => buf'[d] = << >>
      BY <1>3, <1>9 DEF ChInv, TypeOK
    <3> QED BY <1>3, <1>7, <3>2, <3>3, <3>4 DEF ChInv, TypeOK
  <2>5. Whole(s, g)
    <3>1. \A j \in 1 .. Len(got[c]) : /\ got[c][j] = Prefix(j, Length[s[j].msg])
                                      /\ Length[s[j].msg] <= BufLen
      BY <1>2 DEF Conn, Whole
    <3>2. ASSUME NEW j \in 1 .. k
          PROVE  g[j] = Prefix(j, Length[s[j].msg]) /\ Length[s[j].msg] <= BufLen
      <4>1. CASE j = k
        BY <1>9, <2>2, <4>1
      <4>2. CASE j # k
        <5>1. j \in 1 .. Len(got[c])
          <6>1. Len(got[c]) \in Nat
            BY <1>1
          <6> QED BY <4>2, <6>1
        <5> QED BY <2>2, <3>1, <5>1
      <4> QED BY <4>1, <4>2
    <3>3. k <= Len(s)
      BY <1>4
    <3> QED BY <2>2, <3>2, <3>3 DEF Whole
  <2>6. Place(s, rd'[c], << >>, g)
    <3>1. Begin(s, k + 1) = s[k].from + l
      BY <1>1, <1>4 DEF Begin
    <3>2. rd'[c] = Begin(s, k + 1) + 0
      BY <1>5, <1>7, <1>9, <3>1
    <3>3. k + 1 <= Len(s) => Length[s[k + 1].msg] > 0
      <4>1. k + 1 <= Len(s) => k + 1 \in 1 .. Len(s)
        BY <1>1
      <4>2. k + 1 <= Len(s) => s[k + 1].msg \in Msgs
        BY <1>1, <4>1, SentTypes
      <4> QED BY <4>2, LengthBounds
    <3>4. << >> = Prefix(k + 1, 0) /\ Len(<< >>) = 0
      BY <1>1, PrefixEmpty
    <3> QED BY <2>2, <3>2, <3>3, <3>4 DEF Place
  <2>7. Conn(s, size[c], status[c], rd'[c], << >>, g)
    BY <1>1, <1>2, <1>3, <1>4, <1>5, <1>7, <2>5, <2>6 DEF Conn
  <2>8. buf'[c] = << >> /\ got'[c] = g
    BY <1>9, <2>3 DEF ChInv, TypeOK
  <2>9. ASSUME NEW d \in Conns
        PROVE  Conn(sent[d], size[d], status[d], rd[d], buf[d], got[d])'
    BY <1>3, <1>8, <2>7, <2>8
  <2> QED BY <2>4, <2>9 DEF ChInv
<1>10. CASE /\ b + n < l
            /\ buf' = [buf EXCEPT ![c] = Prefix(k, b + n)]
            /\ got' = got
  <2> DEFINE e == Prefix(k, b + n)
  <2>1. e \in Seq(Bytes) /\ Len(e) = b + n
    <3>1. b + n \in Nat
      BY <1>1, <1>4
    <3> QED BY <1>1, <3>1, PrefixSeq
  <2>2. e = Prefix(k, b + n)
    OBVIOUS
  <2> HIDE DEF e
  <2>3. buf' = [buf EXCEPT ![c] = e]
    BY <1>10, <2>2
  <2>4. TypeOK'
    <3>1. buf' \in [Conns -> Seq(Bytes)]
      BY <2>1, <2>3 DEF ChInv, TypeOK
    <3>2. \A d \in Conns : status'[d] # "open" => buf'[d] = << >>
      BY <1>3, <2>3 DEF ChInv, TypeOK
    <3> QED BY <1>3, <1>7, <1>10, <3>1, <3>2 DEF ChInv, TypeOK
  <2>5. Place(s, rd'[c], e, got[c])
    <3>1. rd'[c] = Begin(s, k) + Len(e)
      BY <1>6, <1>7, <2>1
    <3>2. e = Prefix(k, Len(e))
      BY <2>1, <2>2
    <3>3. Len(e) < IF k <= Len(s) THEN l ELSE 1
      BY <1>4, <1>10, <2>1
    <3> QED BY <3>1, <3>2, <3>3 DEF Place
  <2>6. Conn(s, size[c], status[c], rd'[c], e, got[c])
    BY <1>1, <1>2, <1>3, <1>4, <1>5, <1>7, <2>5 DEF Conn
  <2>7. buf'[c] = e /\ got'[c] = got[c]
    BY <1>10, <2>3 DEF ChInv, TypeOK
  <2>8. ASSUME NEW d \in Conns
        PROVE  Conn(sent[d], size[d], status[d], rd[d], buf[d], got[d])'
    BY <1>3, <1>8, <2>6, <2>7
  <2> QED BY <2>4, <2>8 DEF ChInv
<1> QED BY <1>9, <1>10

\* Steps that leave every variable alone.
LEMMA StutterChInv == ChInv /\ UNCHANGED vars => ChInv'
BY KeepsTooLong DEF ChInv, TypeOK, vars

\* The invariant holds in every behaviour.
THEOREM Invariant == Spec => []ChInv
<1>1. ASSUME ChInv, [Next]_vars PROVE ChInv'
  BY <1>1, WriteChInv, LeaveChInv, AcceptChInv, ReceiveChInv, HangUpChInv,
     StutterChInv DEF Next
<1> QED BY InitChInv, <1>1, PTL DEF Spec

\* Every connection's state keeps its type, and only an open connection has
\* an entry in bufs and curs (yanc_of_adapter.cc).
THEOREM TypeCorrect == Spec => []TypeOK
BY Invariant, PTL DEF ChInv

\* handle_message() gets every message whole, once and in order, whatever the
\* lengths of the messages and wherever recv() cuts the stream.
THEOREM Framing == Spec => []WholeMessages
<1>1. ASSUME ChInv PROVE WholeMessages
  <2> SUFFICES ASSUME NEW c \in Conns, NEW k \in DOMAIN got[c]
               PROVE  /\ k \in DOMAIN sent[c]
                      /\ got[c][k] = Prefix(k, Length[sent[c][k].msg])
    BY DEF WholeMessages
  <2>1. /\ sent[c] \in Seq(SentMsgs) /\ Len(sent[c]) \in Nat
        /\ got[c] \in Seq(Seq(Bytes)) /\ Len(got[c]) \in Nat
    BY <1>1, ConnTypes DEF ChInv
  <2>2. Whole(sent[c], got[c])
    BY <1>1 DEF ChInv, Conn
  <2>3. k \in 1 .. Len(got[c])
    BY <2>1
  <2> QED BY <2>1, <2>2, <2>3 DEF Whole
<1> QED BY Invariant, <1>1, PTL

\* Whatever the lengths of the messages, recv() writes past the end of the
\* buffer, or is told to, only for a message that is longer than the buffer, and
\* no such message is handed over: the comparison with YOF_BUF_LEN that
\* receive_data() does not make is all that is missing.
THEOREM BufferBound == Spec => []NoOverrun
<1>1. ASSUME ChInv PROVE NoOverrun
  <2>1. overrun => \E c \in Conns : TooLong(c)
    BY <1>1 DEF ChInv
  <2>2. ASSUME NEW c \in Conns,
               NEW h \in IF Len(buf[c]) < HdrSize THEN {0}
                         ELSE HdrLengths(c, buf[c])
        PROVE  Len(buf[c]) + Remaining(buf[c], h) <= BufLen \/ TooLong(c)
    <3>1. CASE status[c] # "closed"
      BY <1>1, <3>1, Asks
    <3>2. CASE status[c] = "closed"
      <4>1. Len(buf[c]) = 0
        BY <1>1, <3>2, ConnTypes DEF ChInv
      <4> QED BY <4>1, LengthBounds DEF Remaining
    <3> QED BY <3>1, <3>2
  <2>3. ASSUME NEW c \in Conns, NEW k \in DOMAIN got[c]
        PROVE  Len(got[c][k]) <= BufLen
    <3>1. /\ sent[c] \in Seq(SentMsgs) /\ Len(sent[c]) \in Nat
          /\ got[c] \in Seq(Seq(Bytes)) /\ Len(got[c]) \in Nat
      BY <1>1, ConnTypes DEF ChInv
    <3>2. Whole(sent[c], got[c])
      BY <1>1 DEF ChInv, Conn
    <3>3. k \in 1 .. Len(got[c])
      BY <3>1
    <3>4. k \in 1 .. Len(sent[c]) /\ k \in Nat
      BY <3>1, <3>2, <3>3 DEF Whole
    <3>5. Length[sent[c][k].msg] \in Nat
      BY <3>1, <3>4, SentTypes
    <3>6. Len(got[c][k]) = Length[sent[c][k].msg]
      <4>1. got[c][k] = Prefix(k, Length[sent[c][k].msg])
        BY <3>2, <3>3 DEF Whole
      <4>2. Len(Prefix(k, Length[sent[c][k].msg])) = Length[sent[c][k].msg]
        BY <3>4, <3>5, PrefixSeq
      <4> QED BY <4>1, <4>2
    <3> QED BY <3>2, <3>3, <3>6 DEF Whole
  <2> QED BY <2>1, <2>2, <2>3 DEF NoOverrun
<1> QED BY Invariant, <1>1, PTL

\* No callback of receive_data() is without effect.
THEOREM NeverIdle == Spec => []AlwaysReads
<1>1. ASSUME ChInv PROVE AlwaysReads
  <2> SUFFICES ASSUME NEW c \in Conns,
                      NEW h \in IF Len(buf[c]) < HdrSize THEN {0}
                                ELSE HdrLengths(c, buf[c])
               PROVE  Remaining(buf[c], h) > 0
    BY DEF AlwaysReads
  <2>1. CASE status[c] # "closed"
    BY <1>1, <2>1, Asks
  <2>2. CASE status[c] = "closed"
    <3>1. Len(buf[c]) = 0
      BY <1>1, <2>2, ConnTypes DEF ChInv
    <3> QED BY <3>1, LengthBounds DEF Remaining
  <2> QED BY <2>1, <2>2
<1> QED BY Invariant, <1>1, PTL

-----------------------------------------------------------------------------
(***************************************************************************)
(* Refinement: the queue of messages a connection stands for.              *)
(***************************************************************************)

\* What was taken is a beginning of what was written.
LEMMA TakenIs ==
    ASSUME NEW s \in Seq(SentMsgs), NEW g \in Seq(Seq(Bytes)), Whole(s, g)
    PROVE  TakenMsgs(s, g) = [k \in 1 .. Len(g) |-> s[k].msg]
<1>1. DOMAIN g = 1 .. Len(g) /\ Len(g) \in Nat /\ Len(s) \in Nat /\ Len(g) <= Len(s)
  BY DEF Whole
<1>2. ASSUME NEW k \in 1 .. Len(g) PROVE g[k][1].nth = k
  <2>1. k \in 1 .. Len(s) /\ k \in Nat
    BY <1>1
  <2>2. s[k].msg \in Msgs
    BY <2>1, SentTypes
  <2>3. /\ Length[s[k].msg] \in Nat /\ 1 \in 1 .. Length[s[k].msg]
    BY <2>2, LengthBounds
  <2>4. g[k][1] = [nth |-> k, at |-> 1]
    <3>1. g[k] = Prefix(k, Length[s[k].msg])
      BY <1>2 DEF Whole
    <3>2. Prefix(k, Length[s[k].msg])[1] = [nth |-> k, at |-> 1]
      BY <2>1, <2>3, PrefixSeq
    <3> QED BY <3>1, <3>2
  <2> QED BY <2>4
<1>3. ASSUME NEW k \in 1 .. Len(g) PROVE Taken(s, g[k]) = s[k].msg
  <2>1. g[k] = Prefix(k, Length[s[k].msg])
    BY <1>3 DEF Whole
  <2>2. g[k][1].nth = k
    BY <1>2, <1>3
  <2> QED BY <2>1, <2>2, Zenon DEF Taken
<1> QED BY <1>1, <1>3 DEF TakenMsgs

\* Appending a message to the stream appends it to the queue.
LEMMA MsgsOfAppend ==
    ASSUME NEW s \in Seq(SentMsgs), NEW e \in SentMsgs
    PROVE  MsgsOf(Append(s, e)) = Append(MsgsOf(s), e.msg)
<1>1. e.msg \in Msgs /\ \A k \in 1 .. Len(s) : s[k].msg \in Msgs
  BY SentTypes DEF SentMsgs
<1>2. /\ DOMAIN s = 1 .. Len(s) /\ Len(s) \in Nat
  OBVIOUS
<1>3. /\ MsgsOf(s) \in Seq(Msgs) /\ Len(MsgsOf(s)) = Len(s)
      /\ \A k \in 1 .. Len(s) : MsgsOf(s)[k] = s[k].msg
  BY <1>1, <1>2 DEF MsgsOf
<1> DEFINE t == Append(s, e)
<1>4. /\ DOMAIN t = 1 .. Len(s) + 1
      /\ \A k \in 1 .. Len(s) : t[k] = s[k]
      /\ t[Len(s) + 1] = e
  BY <1>2
<1> HIDE DEF t
<1>5. /\ MsgsOf(t) \in Seq(Msgs) /\ Len(MsgsOf(t)) = Len(s) + 1
      /\ \A k \in 1 .. Len(s) : MsgsOf(t)[k] = s[k].msg
      /\ MsgsOf(t)[Len(s) + 1] = e.msg
  <2>1. \A k \in 1 .. Len(s) + 1 : t[k].msg \in Msgs
    <3>1. ASSUME NEW k \in 1 .. Len(s) + 1 PROVE k \in 1 .. Len(s) \/ k = Len(s) + 1
      BY <1>2
    <3> QED BY <1>1, <1>4, <3>1
  <2> QED BY <1>2, <1>4, <2>1 DEF MsgsOf
<1> DEFINE v == MsgsOf(s)
           w == MsgsOf(t)
           x == Append(v, e.msg)
<1>6. /\ x \in Seq(Msgs) /\ Len(x) = Len(s) + 1
      /\ \A k \in 1 .. Len(s) : x[k] = s[k].msg
      /\ x[Len(s) + 1] = e.msg
  <2>1. v \in Seq(Msgs) /\ Len(v) = Len(s) /\ \A k \in 1 .. Len(s) : v[k] = s[k].msg
    BY <1>3
  <2> HIDE DEF v
  <2> QED BY <1>1, <1>2, <2>1
<1>7. w \in Seq(Msgs) /\ Len(w) = Len(s) + 1
  BY <1>5
<1>8. \A k \in 1 .. Len(s) + 1 : w[k] = x[k]
  <2>1. ASSUME NEW k \in 1 .. Len(s) + 1 PROVE k \in 1 .. Len(s) \/ k = Len(s) + 1
    BY <1>2
  <2> QED BY <1>5, <1>6, <2>1
<1> HIDE DEF w, x
<1>9. w = x
  BY <1>6, <1>7, <1>8, SeqEqual
<1> QED BY <1>9 DEF w, x, v, t

\* What the abstract queues are, for the proof.
LEMMA AbsIs ==
    ASSUME ChInv
    PROVE  /\ AbsTaken = [c \in Conns |-> [k \in 1 .. Len(got[c]) |-> sent[c][k].msg]]
           /\ \A c \in Conns : /\ DOMAIN AbsWritten[c] = 1 .. Len(sent[c])
                               /\ Len(AbsWritten[c]) = Len(sent[c])
                               /\ \A k \in 1 .. Len(sent[c]) :
                                     AbsWritten[c][k] = sent[c][k].msg
<1>1. ASSUME NEW c \in Conns
      PROVE  TakenMsgs(sent[c], got[c]) = [k \in 1 .. Len(got[c]) |-> sent[c][k].msg]
  BY ConnTypes, TakenIs DEF ChInv, Conn
<1>2. ASSUME NEW c \in Conns
      PROVE  /\ DOMAIN AbsWritten[c] = 1 .. Len(sent[c])
             /\ Len(AbsWritten[c]) = Len(sent[c])
             /\ \A k \in 1 .. Len(sent[c]) : AbsWritten[c][k] = sent[c][k].msg
  BY ConnTypes DEF ChInv, AbsWritten, MsgsOf
<1> QED BY <1>1, <1>2 DEF AbsTaken

\* The same of the next state.
LEMMA NextTaken ==
    ASSUME ChInv'
    PROVE  AbsTaken' = [c \in Conns |-> [k \in 1 .. Len(got'[c]) |-> sent'[c][k].msg]]
<1>1. ASSUME NEW c \in Conns
      PROVE  /\ sent'[c] \in Seq(SentMsgs) /\ got'[c] \in Seq(Seq(Bytes))
             /\ Whole(sent'[c], got'[c])
  BY DEF ChInv, TypeOK, SentMsgs, Conn
<1>2. ASSUME NEW c \in Conns
      PROVE  TakenMsgs(sent'[c], got'[c]) = [k \in 1 .. Len(got'[c]) |-> sent'[c][k].msg]
  BY <1>1, TakenIs
<1>3. AbsTaken' = [c \in Conns |-> TakenMsgs(sent'[c], got'[c])]
  BY DEF AbsTaken
<1> QED BY <1>2, <1>3

\* A message written to a connection is written to its queue.
LEMMA WriteStep ==
    ASSUME ChInv, ChInv', NEW c \in Conns, NEW m \in Msgs, Write(c, m)
    PROVE  /\ AbsWritten' = [AbsWritten EXCEPT ![c] = Append(@, m)]
           /\ AbsTaken' = AbsTaken
           /\ AbsState' = AbsState
<1> DEFINE e == [msg |-> m, from |-> Written(c)]
<1>1. /\ sent' = [sent EXCEPT ![c] = Append(@, e)]
      /\ got' = got /\ status' = status
  BY DEF Write
<1>2. \A d \in Conns : /\ sent[d] \in Seq(SentMsgs) /\ Len(sent[d]) \in Nat
                       /\ Len(got[d]) \in Nat /\ Len(got[d]) <= Len(sent[d])
  BY ConnTypes DEF ChInv, Conn, Whole
<1>3. e \in SentMsgs /\ e.msg = m
  <2>1. Begin(sent[c], Len(sent[c]) + 1) \in Nat
    BY <1>2, BeginNat
  <2> QED BY <1>2, <2>1, WrittenIs DEF SentMsgs
<1> HIDE DEF e
<1>4. sent \in [Conns -> Seq(SentMsgs)]
  BY DEF ChInv, TypeOK, SentMsgs
<1>5. /\ sent'[c] = Append(sent[c], e)
      /\ \A d \in Conns : d # c => sent'[d] = sent[d]
  BY <1>1, <1>4
<1>6. AbsWritten' = [AbsWritten EXCEPT ![c] = Append(@, m)]
  <2>1. MsgsOf(sent'[c]) = Append(MsgsOf(sent[c]), m)
    BY <1>2, <1>3, <1>5, MsgsOfAppend
  <2>2. AbsWritten' = [d \in Conns |-> MsgsOf(sent'[d])]
    BY DEF AbsWritten
  <2> QED BY <1>5, <2>1, <2>2 DEF AbsWritten
<1>7. AbsTaken' = AbsTaken
  <2>1. ASSUME NEW d \in Conns, NEW k \in 1 .. Len(got[d])
        PROVE  sent'[d][k] = sent[d][k]
    <3>1. k \in 1 .. Len(sent[d])
      BY <1>2
    <3>2. CASE d = c
      BY <1>2, <1>3, <1>5, <3>1, <3>2
    <3>3. CASE d # c
      BY <1>5, <3>3
    <3> QED BY <3>2, <3>3
  <2>2. AbsTaken = [d \in Conns |-> [k \in 1 .. Len(got[d]) |-> sent[d][k].msg]]
    BY AbsIs
  <2>3. AbsTaken' = [d \in Conns |-> [k \in 1 .. Len(got'[d]) |-> sent'[d][k].msg]]
    BY NextTaken
  <2>4. ASSUME NEW d \in Conns
        PROVE  [k \in 1 .. Len(got[d]) |-> sent'[d][k].msg]
                 = [k \in 1 .. Len(got[d]) |-> sent[d][k].msg]
    BY <2>1
  <2>5. AbsTaken' = [d \in Conns |-> [k \in 1 .. Len(got[d]) |-> sent'[d][k].msg]]
    BY <1>1, <2>3, Zenon
  <2> QED BY <2>2, <2>4, <2>5, Zenon
<1> QED BY <1>1, <1>6, <1>7 DEF AbsState

\* A callback that completes a message takes the next one from the queue; the
\* others leave the queue alone.
LEMMA ReceiveStep ==
    ASSUME ChInv, ChInv', NEW c \in Conns, NEW n \in 0 .. size[c] - rd[c], Receive(c, n)
    PROVE  /\ AbsWritten' = AbsWritten /\ AbsState' = AbsState
           /\ \/ AbsTaken' = AbsTaken
              \/ /\ AbsState[c] = "open"
                 /\ Len(AbsTaken[c]) < Len(AbsWritten[c])
                 /\ AbsTaken' = [AbsTaken EXCEPT
                       ![c] = Append(@, AbsWritten[c][Len(@) + 1])]
<1> DEFINE k == Len(got[c]) + 1
<1>1. /\ sent' = sent /\ status' = status /\ AbsState' = AbsState
      /\ AbsState[c] = "open"
  BY DEF Receive, AbsState
<1>2. AbsWritten' = AbsWritten
  BY <1>1 DEF AbsWritten
<1>3. \A d \in Conns : /\ sent[d] \in Seq(SentMsgs) /\ Len(sent[d]) \in Nat
                       /\ got[d] \in Seq(Seq(Bytes)) /\ Len(got[d]) \in Nat
                       /\ Len(got[d]) <= Len(sent[d])
  BY ConnTypes DEF ChInv, Conn, Whole
<1>4. got' = got \/ (/\ k \in 1 .. Len(sent[c])
                     /\ Len(got'[c]) = k
                     /\ \A d \in Conns : d # c => got'[d] = got[d])
  <2> DEFINE l == Length[sent[c][k].msg]
  <2>1. /\ k \in 1 .. Len(sent[c])
        /\ got' = [got EXCEPT ![c] = Append(@, Prefix(k, l))] \/ got' = got
    BY ReceiveEffect
  <2>2. CASE got' = [got EXCEPT ![c] = Append(@, Prefix(k, l))]
    <3>1. got'[c] = Append(got[c], Prefix(k, l))
      BY <2>2 DEF ChInv, TypeOK
    <3>2. l \in Nat /\ k \in Nat
      BY <1>3, <2>1, SentTypes
    <3>3. Prefix(k, l) \in Seq(Bytes)
      BY <3>2, PrefixSeq
    <3>4. Len(got'[c]) = k
      BY <1>3, <3>1, <3>3
    <3> QED BY <2>1, <2>2, <3>4 DEF ChInv, TypeOK
  <2> QED BY <2>1, <2>2
<1>5. CASE got' = got
  BY <1>1, <1>2, <1>5 DEF AbsTaken
<1>6. CASE /\ k \in 1 .. Len(sent[c])
           /\ Len(got'[c]) = k
           /\ \A d \in Conns : d # c => got'[d] = got[d]
  <2>1. AbsTaken = [d \in Conns |-> [j \in 1 .. Len(got[d]) |-> sent[d][j].msg]]
    BY AbsIs
  <2>2. AbsTaken' = [d \in Conns |-> [j \in 1 .. Len(got'[d]) |-> sent[d][j].msg]]
    BY <1>1, NextTaken
  <2>3. /\ AbsTaken[c] = [j \in 1 .. Len(got[c]) |-> sent[c][j].msg]
        /\ AbsTaken'[c] = [j \in 1 .. k |-> sent[c][j].msg]
        /\ \A d \in Conns : d # c => AbsTaken'[d] = AbsTaken[d]
    BY <1>6, <2>1, <2>2
  <2>4. \A j \in 1 .. k : sent[c][j].msg \in Msgs
    BY <1>3, <1>6, SentTypes
  <2>5. /\ AbsTaken[c] \in Seq(Msgs) /\ Len(AbsTaken[c]) = Len(got[c])
        /\ \A j \in 1 .. Len(got[c]) : AbsTaken[c][j] = sent[c][j].msg
    <3>1. \A j \in 1 .. Len(got[c]) : sent[c][j].msg \in Msgs
      BY <1>3, SentTypes
    <3>2. Len(got[c]) \in Nat
      BY <1>3
    <3> QED BY <2>3, <3>1, <3>2
  <2>6. /\ AbsTaken'[c] \in Seq(Msgs) /\ Len(AbsTaken'[c]) = k
        /\ \A j \in 1 .. k : AbsTaken'[c][j] = sent[c][j].msg
    BY <1>3, <2>3, <2>4
  <2>7. /\ Len(AbsWritten[c]) = Len(sent[c])
        /\ AbsWritten[c][k] = sent[c][k].msg
    BY <1>6, AbsIs
  <2>8. Len(AbsTaken[c]) < Len(AbsWritten[c])
    BY <1>3, <1>6, <2>5, <2>7
  <2>9. AbsTaken'[c] = Append(AbsTaken[c], AbsWritten[c][Len(AbsTaken[c]) + 1])
    <3> DEFINE v == AbsTaken[c]
               w == AbsTaken'[c]
               m == sent[c][k].msg
               x == Append(v, m)
    <3>1. m \in Msgs /\ Len(got[c]) \in Nat
      BY <1>3, <1>6, <2>4
    <3>2. v \in Seq(Msgs) /\ Len(v) = Len(got[c])
      BY <2>5
    <3>3. /\ x \in Seq(Msgs) /\ Len(x) = k
          /\ \A j \in 1 .. Len(got[c]) : x[j] = v[j]
          /\ x[k] = m
      <4> HIDE DEF v, m
      <4> QED BY <3>1, <3>2
    <3>4. \A j \in 1 .. k : j \in 1 .. Len(got[c]) \/ j = k
      BY <3>1
    <3> HIDE DEF x
    <3>5. \A j \in 1 .. k : w[j] = x[j]
      BY <2>5, <2>6, <3>3, <3>4
    <3>6. w = x
      BY <2>6, <3>3, <3>5, SeqEqual
    <3> QED BY <2>5, <2>7, <3>6 DEF x
  <2>10. AbsTaken' = [AbsTaken EXCEPT
             ![c] = Append(@, AbsWritten[c][Len(@) + 1])]
    <3>1. AbsTaken = [d \in Conns |-> AbsTaken[d]] /\ AbsTaken' = [d \in Conns |-> AbsTaken'[d]]
      BY DEF AbsTaken
    <3> QED BY <2>3, <2>9, <3>1
  <2> QED BY <1>1, <1>2, <2>8, <2>10
<1> QED BY <1>4, <1>5, <1>6

\* The connections of the adapter behave as queues of whole messages.
THEOREM Refinement == Spec => ImplementsFifo
<1>1. Init => Fifo!Init
  <2> SUFFICES ASSUME Init PROVE Fifo!Init
    OBVIOUS
  <2>1. \A c \in Conns : sent[c] = << >> /\ got[c] = << >>
    BY DEF Init
  <2>2. AbsWritten = [c \in Conns |-> << >>] /\ AbsTaken = [c \in Conns |-> << >>]
    BY <2>1 DEF AbsWritten, AbsTaken, MsgsOf, TakenMsgs
  <2>3. AbsState = [c \in Conns |-> "none"]
    BY DEF Init, AbsState
  <2> QED BY <2>2, <2>3 DEF Fifo!Init
<1>2. ASSUME ChInv, ChInv', [Next]_vars PROVE [Fifo!Next]_Fifo!vars
  <2>1. ASSUME NEW c \in Conns, NEW m \in Msgs, Write(c, m)
        PROVE  Fifo!Write(c)
    BY <1>2, <2>1, WriteStep DEF Fifo!Write
  <2>2. ASSUME NEW c \in Conns, NEW how \in {"gone", "reset"}, Leave(c, how)
        PROVE  UNCHANGED Fifo!vars
    BY <2>2 DEF Leave, Fifo!vars, AbsWritten, AbsTaken, AbsState
  <2>3. ASSUME NEW c \in Conns, Accept(c)
        PROVE  Fifo!Open(c) \/ Fifo!Close({c}) \/ UNCHANGED Fifo!vars
    <3>1. UNCHANGED <<AbsWritten, AbsTaken>>
      BY <2>3 DEF Accept, AbsWritten, AbsTaken
    <3>2. PICK s \in {"open", "unread", "closed"} :
              status' = [status EXCEPT ![c] = s]
      BY <2>3 DEF Accept
    <3>3. AbsState[c] = "none"
      BY <2>3 DEF Accept, AbsState
    <3>4. \A d \in Conns : status'[d] = IF d = c THEN s ELSE status[d]
      BY <1>2, <3>2 DEF ChInv, TypeOK
    <3>5. AbsState' = [AbsState EXCEPT ![c] = IF s = "unread" THEN "none" ELSE s]
      BY <3>4 DEF AbsState
    <3>6. CASE s = "open"
      BY <3>1, <3>3, <3>5, <3>6 DEF Fifo!Open
    <3>7. CASE s = "unread"
      <4>1. AbsState' = AbsState
        BY <3>3, <3>5, <3>7 DEF AbsState
      <4> QED BY <3>1, <4>1 DEF Fifo!vars
    <3>8. CASE s = "closed"
      <4>1. AbsState' = [d \in Conns |-> IF d \in {c} THEN "closed" ELSE AbsState[d]]
        BY <3>5, <3>8 DEF AbsState
      <4> QED BY <3>1, <3>3, <4>1 DEF Fifo!Close
    <3> QED BY <3>6, <3>7, <3>8
  <2>4. ASSUME NEW c \in Conns, NEW n \in 0 .. size[c] - rd[c], Receive(c, n)
        PROVE  Fifo!Take(c) \/ UNCHANGED Fifo!vars
    BY <1>2, <2>4, ReceiveStep DEF Fifo!Take, Fifo!vars
  <2>5. ASSUME NEW c \in Conns, HangUp(c)
        PROVE  Fifo!Close({c})
    <3>1. UNCHANGED <<AbsWritten, AbsTaken>>
      BY <2>5 DEF HangUp, AbsWritten, AbsTaken
    <3>2. status[c] = "open" /\ status' = [status EXCEPT ![c] = "closed"]
      BY <2>5 DEF HangUp
    <3>3. \A d \in Conns : status'[d] = IF d = c THEN "closed" ELSE status[d]
      BY <1>2, <3>2 DEF ChInv, TypeOK
    <3>4. AbsState' = [d \in Conns |-> IF d \in {c} THEN "closed" ELSE AbsState[d]]
      BY <3>3 DEF AbsState
    <3>5. AbsState[c] # "closed"
      BY <3>2 DEF AbsState
    <3> QED BY <3>1, <3>4, <3>5 DEF Fifo!Close
  <2>6. ASSUME UNCHANGED vars PROVE UNCHANGED Fifo!vars
    BY <2>6 DEF vars, Fifo!vars, AbsWritten, AbsTaken, AbsState
  <2> QED BY <1>2, <2>1, <2>2, <2>3, <2>4, <2>5, <2>6 DEF Next, Fifo!Next
<1> QED BY Invariant, <1>1, <1>2, PTL DEF Spec, ImplementsFifo, Fifo!Spec

=============================================================================
