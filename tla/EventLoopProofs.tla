--------------------------- MODULE EventLoopProofs ---------------------------
(***************************************************************************)
(* What holds of the event loop for every set of connections and           *)
(* descriptors, and every length of epoll's batches.                       *)
(***************************************************************************)
EXTENDS EventLoop, FiniteSetTheorems, TLAPS

\* A descriptor and the object that has it name each other, but for the bus
\* when libdbus has closed it.
Own ==
    /\ \A f \in Fds : owner[f] # Nobody => fd[owner[f]] = f
    /\ \A o \in Objects :
          fd[o] \in Fds => owner[fd[o]] = o \/ (o = Bus /\ bus = "lost")

\* No descriptor is twice in a batch.
Distinct ==
    \A i, j \in DOMAIN batch : batch[i].fd = batch[j].fd => i = j

\* A connection waits for accept() once, and has no descriptor yet.
Waiting ==
    /\ \A i \in DOMAIN backlog : fd[backlog[i]] = -1 /\ peer[backlog[i]] # "none"
    /\ \A i, j \in DOMAIN backlog : backlog[i] = backlog[j] => i = j
    /\ \A c \in Conns : peer[c] = "none" => fd[c] = -1

\* An accepted connection that epoll does not watch has the number the bus
\* had.
Left == \A c \in LeftOut : bus = "lost" /\ fd[c] = fd[Bus]

\* Before the bus is opened; and there are events only in the loop.
Started ==
    /\ loop = "starting" => bus = "up" /\ fd[Bus] = -1
    /\ loop # "running" => batch = << >>

IInv ==
    /\ TypeOK
    /\ EventsReachOwner /\ TablesAgree
    /\ Own /\ Distinct /\ Waiting /\ Left /\ Started

-----------------------------------------------------------------------------
\* The events after the first are others', on other descriptors.
LEMMA RestOfBatch ==
    ASSUME IInv, batch # << >>
    PROVE  /\ Head(batch) = batch[1]
           /\ DOMAIN Tail(batch) = 1 .. Len(batch) - 1
           /\ \A i \in DOMAIN Tail(batch) :
                 /\ i + 1 \in DOMAIN batch /\ Tail(batch)[i] = batch[i + 1]
                 /\ batch[i + 1].fd \in Fds /\ batch[i + 1].obj \in Objects
                 /\ batch[i + 1].fd # batch[1].fd
                 /\ batch[i + 1].obj # batch[1].obj
           /\ Tail(batch) \in Seq(Events)
           /\ 1 \in DOMAIN batch /\ batch[1].fd \in Fds /\ batch[1].obj \in Objects
<1>1. batch \in Seq(Events)
  BY DEF IInv, TypeOK
<1>2. Len(batch) \in Nat /\ Len(batch) > 0 /\ DOMAIN batch = 1 .. Len(batch)
  BY <1>1
<1>3. \A i \in DOMAIN batch : batch[i].fd \in Fds /\ batch[i].obj \in Objects
  <2> TAKE i \in DOMAIN batch
  <2>1. batch[i] \in Events
    BY <1>1, <1>2
  <2> QED BY <2>1 DEF Events
<1>4. /\ Tail(batch) \in Seq(Events)
      /\ DOMAIN Tail(batch) = 1 .. Len(batch) - 1
      /\ \A i \in 1 .. Len(batch) - 1 : Tail(batch)[i] = batch[i + 1]
  BY <1>1, <1>2
<1>5. \A i \in 1 .. Len(batch) - 1 :
          batch[i + 1].fd # batch[1].fd /\ batch[i + 1].obj # batch[1].obj
  <2> TAKE i \in 1 .. Len(batch) - 1
  <2>1. i + 1 \in DOMAIN batch /\ 1 \in DOMAIN batch /\ i + 1 # 1
    BY <1>2
  <2>2. batch[i + 1].fd # batch[1].fd
    BY <2>1 DEF IInv, Distinct
  <2>3. /\ owner[batch[i + 1].fd] = batch[i + 1].obj
        /\ owner[batch[1].fd] = batch[1].obj
    BY <2>1 DEF IInv, EventsReachOwner
  <2>4. batch[i + 1].obj # Nobody /\ batch[1].obj # Nobody
    BY <2>1, <1>3, LoopAssumption DEF Objects
  <2>5. fd[batch[i + 1].obj] = batch[i + 1].fd /\ fd[batch[1].obj] = batch[1].fd
    BY <2>1, <2>3, <2>4, <1>3 DEF IInv, Own
  <2> QED BY <2>2, <2>5
<1> QED BY <1>1, <1>2, <1>3, <1>4, <1>5

\* What the callback of object o knows of it.
LEMMA CallbackOf ==
    ASSUME IInv, NEW o \in Objects, Called(o)
    PROVE  /\ batch # << >> /\ batch[1].obj = o
           /\ batch[1].fd \in Fds /\ fd[o] = batch[1].fd
           /\ owner[fd[o]] = o /\ _fds[fd[o]] = o
           /\ fd[o] \in interest \/ (o = Bus /\ bus = "lost")
<1>1. batch # << >> /\ _fds[batch[1].fd] = o
  BY RestOfBatch DEF Called
<1>2. 1 \in DOMAIN batch /\ batch[1].fd \in Fds
  BY <1>1, RestOfBatch
<1>3. batch[1].obj = o /\ owner[batch[1].fd] = o
  BY <1>1, <1>2 DEF IInv, EventsReachOwner
<1>4. o # Nobody
  BY LoopAssumption
<1>5. fd[o] = batch[1].fd
  BY <1>2, <1>3, <1>4 DEF IInv, Own
<1> QED BY <1>1, <1>2, <1>3, <1>4, <1>5 DEF IInv, TablesAgree, monitors_fd

-----------------------------------------------------------------------------
\* The invariant holds at first.
LEMMA InitIInv == Init => IInv
<1> SUFFICES ASSUME Init PROVE IInv
  OBVIOUS
<1>1. PICK f \in Lowest(Fds) :
        /\ loop = "starting"
        /\ owner = [g \in Fds |-> IF g = f THEN Listener ELSE Nobody]
        /\ interest = {f} /\ rdl = << >>
        /\ _fds = owner
        /\ fd = [o \in Objects |-> IF o = Listener THEN f ELSE -1]
        /\ batch = << >>
        /\ backlog = << >>
        /\ peer = [c \in Conns |-> "none"]
        /\ input = [c \in Conns |-> 0]
        /\ bus = "up" /\ busIn = 0 /\ queued = 0
  BY DEF Init
<1>2. f \in Fds /\ -1 \notin Fds
  BY LoopAssumption DEF Lowest
<1>3. TypeOK
  BY <1>1, <1>2, LoopAssumption DEF TypeOK, Objects
<1>4. EventsReachOwner /\ Distinct /\ Waiting
  BY <1>1, LoopAssumption DEF EventsReachOwner, Distinct, Waiting, Objects
<1>5. TablesAgree /\ Own
  BY <1>1, <1>2, LoopAssumption DEF TablesAgree, Own, monitors_fd, Objects
<1>6. Left /\ Started
  BY <1>1, <1>2, LoopAssumption DEF Left, LeftOut, Started, Objects
<1> QED BY <1>3, <1>4, <1>5, <1>6 DEF IInv

\* The bus gets a descriptor nobody has.
LEMMA OpenBusIInv == IInv /\ OpenBus => IInv'
<1> SUFFICES ASSUME IInv, OpenBus PROVE IInv'
  OBVIOUS
<1>1. PICK f \in Lowest(Free) :
          /\ owner' = [owner EXCEPT ![f] = Bus]
          /\ fd' = [fd EXCEPT ![Bus] = f]
          /\ _fds' = [_fds EXCEPT ![f] = Bus]
          /\ interest' = interest \cup {f}
  BY DEF OpenBus
<1>2. f \in Fds /\ owner[f] = Nobody /\ -1 \notin Fds
  BY LoopAssumption DEF Lowest, Free
<1>3. bus = "up" /\ fd[Bus] = -1 /\ TypeOK
  BY DEF IInv, Started, OpenBus
<1>u. UNCHANGED <<rdl, batch, backlog, peer, input, bus, busIn, queued>>
      /\ loop' = "subscribing"
  BY DEF OpenBus, switchVars, busVars
<1>4. \A o \in Objects : fd[o] # f
  BY <1>2, <1>3, LoopAssumption DEF IInv, Own, Objects
<1>5. _fds[f] = Nobody
  BY <1>2, <1>3, <1>4 DEF TypeOK
<1>6. TypeOK'
  BY <1>1, <1>2, <1>3, <1>4, <1>5, <1>u, LoopAssumption DEF TypeOK, Objects
<1>7. EventsReachOwner'
  <2> SUFFICES ASSUME NEW i \in DOMAIN batch
               PROVE  /\ _fds'[batch[i].fd] = batch[i].obj
                      /\ owner'[batch[i].fd] = batch[i].obj
                      /\ Readable(batch[i].obj)'
    BY <1>u DEF EventsReachOwner
  <2>1. batch[i] \in Events
    BY <1>3 DEF TypeOK
  <2>2. batch[i].fd # f
    BY <1>2, <2>1, LoopAssumption DEF Events, IInv, EventsReachOwner, Objects
  <2> QED BY <1>1, <1>2, <1>3, <1>u, <2>1, <2>2
          DEF Events, IInv, EventsReachOwner, Readable, TypeOK
<1>8. TablesAgree'
  BY <1>1, <1>2, <1>3, <1>u, LoopAssumption
  DEF IInv, TablesAgree, monitors_fd, TypeOK, Objects
<1>9. Own'
  BY <1>1, <1>2, <1>3, <1>4, <1>u, LoopAssumption DEF IInv, Own, TypeOK, Objects
<1>10. Distinct' /\ Waiting'
  <2>1. \A i \in DOMAIN backlog : backlog[i] \in Conns
    BY <1>3 DEF TypeOK
  <2> QED BY <1>1, <1>3, <1>u, <2>1, LoopAssumption
          DEF IInv, Distinct, Waiting, TypeOK, Objects
<1>11. Left'
  BY <1>1, <1>2, <1>3, <1>4, <1>u, LoopAssumption DEF IInv, Left, LeftOut, TypeOK, Objects
<1>12. Started'
  BY <1>u DEF IInv, Started, OpenBus
<1> QED BY <1>6, <1>7, <1>8, <1>9, <1>10, <1>11, <1>12 DEF IInv

\* Steps that open and close nothing keep the tables; Keeps says so.
Keeps ==
    /\ UNCHANGED <<owner, interest, _fds, fd, backlog>>
    /\ bus' = bus \/ (bus = "up" /\ bus' = "down")

\* What they keep: the tables, and the backlog, are as they were.
LEMMA KeepsTables ==
    ASSUME IInv, Keeps,
           \A c \in Conns : peer'[c] = peer[c] \/ (peer[c] # "none" /\ peer'[c] # "none")
    PROVE  TablesAgree' /\ Own' /\ Left' /\ Waiting'
<1>1. TablesAgree' /\ Own' /\ Left'
  BY DEF IInv, Keeps, TablesAgree, Own, Left, LeftOut, monitors_fd
<1>2. \A i \in DOMAIN backlog : backlog[i] \in Conns
  BY DEF IInv, TypeOK
<1>3. Waiting'
  BY <1>2 DEF IInv, Keeps, Waiting
<1> QED BY <1>1, <1>3

\* The start, and its end by an error.
LEMMA StartIInv ==
    ASSUME IInv,
           \/ \E l \in {"subscribing", "running"} : Subscribe(l)
           \/ SubscribeThrows \/ Interrupted \/ AcceptThrows
    PROVE  IInv'
<1>1. Keeps /\ UNCHANGED <<rdl, peer, input, bus>>
  BY DEF Subscribe, SubscribeThrows, Interrupted, AcceptThrows, Throws, Keeps,
         kernelVars, adapterVars, switchVars, busVars
<1>2. TablesAgree' /\ Own' /\ Left' /\ Waiting'
  BY <1>1, KeepsTables
<1>3. /\ loop' \in {"subscribing", "running", "dead"}
      /\ busIn' \in Nat /\ queued' \in Nat
      /\ batch' = << >>
  BY DEF Subscribe, SubscribeThrows, Interrupted, AcceptThrows, Throws,
         busVars, IInv, TypeOK, Started
<1>4. TypeOK'
  BY <1>1, <1>3 DEF Keeps, IInv, TypeOK
<1>5. EventsReachOwner' /\ Distinct' /\ Started'
  BY <1>3 DEF EventsReachOwner, Distinct, Started
<1> QED BY <1>2, <1>4, <1>5 DEF IInv

\* What switches and the bus do takes nothing away that could be read.
LEMMA ArrivalIInv ==
    ASSUME IInv,
           \/ \E c \in Conns : SwitchSends(c) \/ SwitchLeaves(c)
           \/ BusSends \/ BusGoes
    PROVE  IInv'
<1>1. /\ Keeps /\ UNCHANGED <<rdl, loop, batch, queued>>
      /\ \A c \in Conns :
            peer'[c] = peer[c] \/ (peer[c] # "none" /\ peer'[c] = "gone")
      /\ \A o \in Objects : Readable(o) => Readable(o)'
      /\ peer' \in [Conns -> {"none", "up", "gone"}]
      /\ input' \in [Conns -> Nat] /\ busIn' \in Nat
      /\ bus' = bus \/ loop # "starting"
  <2>1. CASE \E c \in Conns : SwitchSends(c)
    BY <2>1 DEF SwitchSends, Keeps, kernelVars, adapterVars, busVars, IInv, TypeOK, Readable
  <2>2. CASE \E c \in Conns : SwitchLeaves(c)
    BY <2>2 DEF SwitchLeaves, Keeps, kernelVars, adapterVars, busVars, IInv, TypeOK, Readable
  <2>3. CASE BusSends \/ BusGoes
    BY <2>3 DEF BusSends, BusGoes, Keeps, kernelVars, adapterVars, switchVars,
                IInv, TypeOK, Readable
  <2> QED BY <2>1, <2>2, <2>3
<1>2. TablesAgree' /\ Own' /\ Left' /\ Waiting'
  <2>1. \A c \in Conns : peer'[c] = peer[c] \/ (peer[c] # "none" /\ peer'[c] # "none")
    BY <1>1
  <2> QED BY <1>1, <2>1, KeepsTables
<1>3. TypeOK'
  BY <1>1 DEF Keeps, IInv, TypeOK
<1>4. EventsReachOwner'
  <2> SUFFICES ASSUME NEW i \in DOMAIN batch
               PROVE  /\ _fds[batch[i].fd] = batch[i].obj
                      /\ owner[batch[i].fd] = batch[i].obj
                      /\ Readable(batch[i].obj)'
    BY <1>1 DEF EventsReachOwner, Keeps
  <2>1. batch[i] \in Events
    BY DEF IInv, TypeOK
  <2> QED BY <1>1, <2>1 DEF IInv, EventsReachOwner, Events
<1>5. Distinct' /\ Started'
  BY <1>1 DEF IInv, Distinct, Started, Keeps
<1> QED BY <1>2, <1>3, <1>4, <1>5 DEF IInv

\* A connection waits at the end of the backlog.
LEMMA ConnectIInv == \A c \in Conns : IInv /\ Connect(c) => IInv'
<1> SUFFICES ASSUME NEW c \in Conns, IInv, Connect(c) PROVE IInv'
  OBVIOUS
<1>1. /\ peer[c] = "none" /\ peer' = [peer EXCEPT ![c] = "up"]
      /\ backlog' = Append(backlog, c)
      /\ UNCHANGED <<loop, owner, interest, rdl, _fds, fd, batch, input, bus, busIn, queued>>
  BY DEF Connect, kernelVars, adapterVars, busVars
<1>2. /\ backlog \in Seq(Conns) /\ backlog' \in Seq(Conns) /\ backlog' # << >>
      /\ DOMAIN backlog' = 1 .. Len(backlog) + 1
      /\ \A i \in DOMAIN backlog : backlog'[i] = backlog[i] /\ backlog[i] \in Conns
      /\ backlog'[Len(backlog) + 1] = c
      /\ DOMAIN backlog = 1 .. Len(backlog) /\ Len(backlog) \in Nat
  <2>1. backlog \in Seq(Conns)
    BY DEF IInv, TypeOK
  <2>2. Len(backlog) \in Nat /\ DOMAIN backlog = 1 .. Len(backlog)
    BY <2>1
  <2>3. backlog' \in Seq(Conns) /\ Len(backlog') = Len(backlog) + 1
    BY <1>1, <2>1
  <2>4. \A i \in 1 .. Len(backlog) : backlog'[i] = backlog[i] /\ backlog[i] \in Conns
    BY <1>1, <2>1
  <2>5. backlog'[Len(backlog) + 1] = c
    BY <1>1, <2>1
  <2>6. DOMAIN backlog' = 1 .. Len(backlog) + 1 /\ backlog' # << >>
    BY <2>2, <2>3
  <2> QED BY <2>1, <2>2, <2>3, <2>4, <2>5, <2>6
<1>3. TypeOK'
  BY <1>1, <1>2 DEF IInv, TypeOK
<1>4. EventsReachOwner' /\ Distinct'
  BY <1>1, <1>2 DEF IInv, TypeOK, EventsReachOwner, Distinct, Readable
<1>5. TablesAgree' /\ Own' /\ Left' /\ Started'
  BY <1>1 DEF IInv, TablesAgree, Own, Left, LeftOut, Started, monitors_fd
<1>6. Waiting'
  <2>1. fd[c] = -1 /\ \A i \in DOMAIN backlog : backlog[i] # c
    BY <1>1 DEF IInv, Waiting
  <2>2. \A i \in DOMAIN backlog' :
           \/ i \in DOMAIN backlog /\ backlog'[i] = backlog[i]
           \/ i = Len(backlog) + 1 /\ backlog'[i] = c
    BY <1>2
  <2>3. peer'[c] = "up" /\ \A d \in Conns : d # c => peer'[d] = peer[d]
    BY <1>1 DEF IInv, TypeOK
  <2>4. \A i \in DOMAIN backlog' : fd'[backlog'[i]] = -1 /\ peer'[backlog'[i]] # "none"
    BY <1>1, <1>2, <2>1, <2>2, <2>3 DEF IInv, Waiting
  <2>5. \A i, j \in DOMAIN backlog' : backlog'[i] = backlog'[j] => i = j
    BY <2>1, <2>2 DEF IInv, Waiting
  <2>6. \A d \in Conns : peer'[d] = "none" => fd'[d] = -1
    BY <1>1, <2>3 DEF IInv, Waiting
  <2> QED BY <2>4, <2>5, <2>6 DEF Waiting
<1> QED BY <1>3, <1>4, <1>5, <1>6 DEF IInv

\* What is reported was ready, each descriptor once.
LEMMA WaitIInv == IInv /\ epoll_wait => IInv'
<1> SUFFICES ASSUME IInv, epoll_wait PROVE IInv'
  OBVIOUS
<1>1. PICK s \in Orders(Ready) :
        LET n == IF QLen < Len(s) THEN QLen ELSE Len(s) IN
          /\ InTurn(s)
          /\ batch' = [i \in 1 .. n |-> [fd |-> s[i], obj |-> owner[s[i]]]]
          /\ rdl' = SubSeq(s, n + 1, Len(s)) \o SubSeq(s, 1, n)
  BY DEF epoll_wait
<1> DEFINE n == IF QLen < Len(s) THEN QLen ELSE Len(s)
<1>u. /\ loop = "running"
      /\ UNCHANGED <<loop, owner, interest, _fds, fd, backlog, peer, input, bus, busIn, queued>>
  BY DEF epoll_wait, adapterVars, switchVars, busVars
<1>2. Ready \subseteq Fds /\ Cardinality(Ready) \in Nat
  <2>1. Ready \subseteq Fds
    BY DEF Ready, IInv, TypeOK
  <2> QED BY <2>1, LoopAssumption, FS_Subset, FS_CardinalityType
<1>3. /\ s \in Seq(Ready) /\ s \in Seq(Fds \cup {0})
      /\ Len(s) = Cardinality(Ready) /\ DOMAIN s = 1 .. Len(s)
      /\ \A i, j \in DOMAIN s : s[i] = s[j] => i = j
      /\ \A i \in DOMAIN s : s[i] \in Ready
  <2>1. s \in [1 .. Cardinality(Ready) -> Ready]
    BY DEF Orders
  <2> HIDE DEF n
  <2>2. s \in Seq(Ready) /\ Len(s) = Cardinality(Ready) /\ DOMAIN s = 1 .. Len(s)
    BY <1>2, <2>1
  <2>3. s \in Seq(Fds \cup {0})
    BY <1>2, <2>2
  <2> QED BY <2>1, <2>2, <2>3 DEF Orders
<1>4. n \in Nat /\ n <= Len(s)
  BY <1>3, LoopAssumption
<1>5. /\ batch' = [i \in 1 .. n |-> [fd |-> s[i], obj |-> owner[s[i]]]]
      /\ rdl' = SubSeq(s, n + 1, Len(s)) \o SubSeq(s, 1, n)
  BY <1>1
<1> HIDE DEF n
<1>6. \A f \in Ready : /\ f \in Fds /\ owner[f] \in Objects /\ Readable(owner[f])
                      /\ _fds[f] = owner[f]
  BY <1>2 DEF Ready, IInv, TablesAgree, TypeOK
<1>7. DOMAIN batch' = 1 .. n /\ \A i \in 1 .. n : i \in DOMAIN s /\ s[i] \in Ready
  BY <1>3, <1>4, <1>5
<1>8. batch' \in Seq(Events)
  <2>1. \A i \in 1 .. n : [fd |-> s[i], obj |-> owner[s[i]]] \in Events
    BY <1>6, <1>7 DEF Events
  <2> QED BY <1>4, <1>5, <2>1
<1>9. rdl' \in Seq(Fds \cup {0})
  <2>1. SubSeq(s, 1, n) \in Seq(Fds \cup {0}) /\ SubSeq(s, n + 1, Len(s)) \in Seq(Fds \cup {0})
    BY <1>3, <1>4
  <2> QED BY <1>5, <2>1
<1>10. TypeOK'
  BY <1>u, <1>8, <1>9 DEF IInv, TypeOK
<1>11. EventsReachOwner'
  <2>1. \A o : Readable(o)' <=> Readable(o)
    BY <1>u DEF Readable
  <2> QED BY <1>u, <1>5, <1>6, <1>7, <2>1 DEF EventsReachOwner
<1>12. Distinct'
  BY <1>3, <1>5, <1>7 DEF Distinct
<1>13. TablesAgree' /\ Own' /\ Left' /\ Waiting' /\ Started'
  BY <1>u DEF IInv, TablesAgree, Own, Left, LeftOut, Waiting, Started, monitors_fd
<1> QED BY <1>10, <1>11, <1>12, <1>13 DEF IInv

-----------------------------------------------------------------------------
(***************************************************************************)
(* Callbacks.  The event that is handled leaves the batch; the others are  *)
(* still true when the object of each keeps its descriptor, its entry and  *)
(* what can be read of it.                                                 *)
(***************************************************************************)
LEMMA CallbackBatch ==
    ASSUME IInv, batch # << >>, batch' = Tail(batch), loop' = loop,
           \A o \in Objects \ {batch[1].obj} :
              fd[o] \in Fds /\ owner[fd[o]] = o =>
                 /\ _fds'[fd[o]] = _fds[fd[o]] /\ owner'[fd[o]] = o
                 /\ Readable(o) => Readable(o)'
    PROVE  batch' \in Seq(Events) /\ EventsReachOwner' /\ Distinct' /\ loop = "running"
<1>1. /\ \A i \in DOMAIN batch' :
            /\ i + 1 \in DOMAIN batch /\ batch'[i] = batch[i + 1]
            /\ batch[i + 1].fd \in Fds /\ batch[i + 1].obj \in Objects \ {batch[1].obj}
      /\ DOMAIN batch' = 1 .. Len(batch) - 1 /\ batch' \in Seq(Events)
  BY RestOfBatch
<1>2. EventsReachOwner'
  <2> SUFFICES ASSUME NEW i \in DOMAIN batch'
               PROVE  /\ _fds'[batch'[i].fd] = batch'[i].obj
                      /\ owner'[batch'[i].fd] = batch'[i].obj
                      /\ Readable(batch[i].obj)'
    BY DEF EventsReachOwner
  <2> DEFINE f == batch[i + 1].fd
             o == batch[i + 1].obj
  <2>1. f \in Fds /\ o \in Objects \ {batch[1].obj} /\ o # Nobody
    BY <1>1, LoopAssumption
  <2>2. _fds[f] = o /\ owner[f] = o /\ Readable(o)
    BY <1>1 DEF IInv, EventsReachOwner
  <2>3. fd[o] = f
    BY <2>1, <2>2 DEF IInv, Own
  <2> QED BY <1>1, <2>1, <2>2, <2>3
<1>3. Distinct'
  <2> SUFFICES ASSUME NEW i \in DOMAIN batch', NEW j \in DOMAIN batch',
                      batch'[i].fd = batch'[j].fd
               PROVE  i = j
    BY DEF Distinct
  <2>1. i + 1 = j + 1
    BY <1>1 DEF IInv, Distinct
  <2> QED BY <1>1, <2>1
<1>4. loop = "running"
  BY DEF IInv, Started
<1> QED BY <1>1, <1>2, <1>3, <1>4

\* A callback that opens and closes nothing: messages are read.
LEMMA ReadIInv ==
    ASSUME IInv, BusReady \/ \E c \in Conns : ReceiveData(c)
    PROVE  IInv'
<1>1. /\ batch # << >> /\ batch' = Tail(batch) /\ loop' = loop
      /\ Keeps /\ UNCHANGED <<rdl, peer, bus>>
      /\ input' \in [Conns -> Nat] /\ busIn' \in Nat /\ queued' \in Nat
      /\ \A o \in Objects \ {batch[1].obj} : Readable(o) => Readable(o)'
  <2>1. CASE BusReady
    <3>1. batch # << >> /\ batch[1].obj = Bus
      BY <2>1, CallbackOf DEF BusReady, Objects
    <3>2. PICK m \in 0 .. busIn - 1 : busIn' = m
      BY <2>1 DEF BusReady
    <3>3. busIn' \in Nat
      BY <3>2
    <3> QED BY <2>1, <3>1, <3>3, LoopAssumption
            DEF BusReady, Rest, Keeps, kernelVars, adapterVars, switchVars,
                Undispatched, IInv, TypeOK, Readable, Objects
  <2>2. ASSUME NEW c \in Conns, ReceiveData(c)
        PROVE  /\ batch # << >> /\ batch' = Tail(batch) /\ loop' = loop
               /\ Keeps /\ UNCHANGED <<rdl, peer, bus>>
               /\ input' \in [Conns -> Nat] /\ busIn' \in Nat /\ queued' \in Nat
               /\ \A o \in Objects \ {batch[1].obj} : Readable(o) => Readable(o)'
    <3>1. batch # << >> /\ batch[1].obj = c
      BY <2>2, CallbackOf DEF ReceiveData, receive, Objects
    <3>2. PICK m \in 0 .. input[c] - 1 : input' = [input EXCEPT ![c] = m]
      BY <2>2 DEF ReceiveData, receive
    <3>3. input' \in [Conns -> Nat] /\ \A d \in Conns \ {c} : input'[d] = input[d]
      BY <3>2 DEF IInv, TypeOK
    <3> QED BY <2>2, <3>1, <3>3, LoopAssumption
            DEF ReceiveData, receive, Rest, Keeps, kernelVars, adapterVars, busVars,
                IInv, TypeOK, Readable, Objects
  <2> QED BY <2>1, <2>2
<1>2. TablesAgree' /\ Own' /\ Left' /\ Waiting'
  BY <1>1, KeepsTables
<1>3. batch' \in Seq(Events) /\ EventsReachOwner' /\ Distinct' /\ loop = "running"
  BY <1>1, CallbackBatch DEF Keeps
<1>4. TypeOK'
  BY <1>1, <1>3 DEF Keeps, IInv, TypeOK
<1>5. Started'
  BY <1>1, <1>3 DEF Started
<1> QED BY <1>2, <1>3, <1>4, <1>5 DEF IInv

\* The connection accept() returns has waited, and the others go on waiting.
LEMMA Accepted ==
    ASSUME IInv, backlog # << >>, backlog' = Tail(backlog), peer' = peer,
           NEW n, fd' = [fd EXCEPT ![Head(backlog)] = n]
    PROVE  /\ Head(backlog) \in Conns /\ fd[Head(backlog)] = -1
           /\ backlog' \in Seq(Conns) /\ Waiting'
<1> DEFINE c == Head(backlog)
<1>1. backlog \in Seq(Conns) /\ Len(backlog) \in Nat /\ Len(backlog) > 0
      /\ DOMAIN backlog = 1 .. Len(backlog) /\ fd \in [Objects -> Fds \cup {-1, 0}]
  <2>1. backlog \in Seq(Conns) /\ fd \in [Objects -> Fds \cup {-1, 0}]
    BY DEF IInv, TypeOK
  <2> QED BY <2>1
<1>2. c = backlog[1] /\ c \in Conns /\ 1 \in DOMAIN backlog
  BY <1>1
<1>3. /\ backlog' \in Seq(Conns) /\ DOMAIN backlog' = 1 .. Len(backlog) - 1
      /\ \A i \in 1 .. Len(backlog) - 1 : backlog'[i] = backlog[i + 1]
  BY <1>1
<1>4. \A i \in DOMAIN backlog' :
         /\ i + 1 \in DOMAIN backlog /\ backlog'[i] = backlog[i + 1]
         /\ backlog[i + 1] \in Conns /\ i + 1 # 1 /\ i \in Nat
  BY <1>1, <1>3
<1>5. fd[c] = -1 /\ peer[c] # "none"
  BY <1>2 DEF IInv, Waiting
<1>6. \A i \in DOMAIN backlog' : backlog'[i] # c
  BY <1>2, <1>4 DEF IInv, Waiting
<1>7. \A o \in Objects \ {c} : fd'[o] = fd[o]
  BY <1>1
<1>8. \A i \in DOMAIN backlog' : fd'[backlog'[i]] = -1 /\ peer'[backlog'[i]] # "none"
  BY <1>4, <1>6, <1>7 DEF IInv, Waiting, Objects
<1>9. \A i, j \in DOMAIN backlog' : backlog'[i] = backlog'[j] => i = j
  <2> TAKE i, j \in DOMAIN backlog'
  <2>1. backlog'[i] = backlog'[j] => i + 1 = j + 1
    BY <1>4 DEF IInv, Waiting
  <2> QED BY <1>4, <2>1
<1>10. \A d \in Conns : peer'[d] = "none" => fd'[d] = -1
  BY <1>5, <1>7 DEF IInv, Waiting, Objects
<1>11. Waiting'
  BY <1>8, <1>9, <1>10 DEF Waiting
<1> QED BY <1>2, <1>3, <1>5, <1>11

\* Without memory the connection is closed, and nothing points to it.
LEMMA NewSwitchNoMemoryIInv == IInv /\ NewSwitchNoMemory => IInv'
<1> SUFFICES ASSUME IInv, NewSwitchNoMemory PROVE IInv'
  OBVIOUS
<1> DEFINE c == Head(backlog)
<1>1. /\ batch # << >> /\ batch' = Tail(batch) /\ backlog # << >> /\ backlog' = Tail(backlog)
      /\ fd' = [fd EXCEPT ![c] = 0]
      /\ UNCHANGED <<loop, owner, interest, rdl, _fds, peer, input, bus, busIn, queued>>
  BY DEF NewSwitchNoMemory, Called, Rest, kernelVars, busVars
<1>2. c \in Conns /\ fd[c] = -1 /\ backlog' \in Seq(Conns) /\ Waiting'
  BY <1>1, Accepted
<1>3. batch[1].obj = Listener
  BY CallbackOf DEF NewSwitchNoMemory, Objects
<1>4. fd \in [Objects -> Fds \cup {-1, 0}] /\ -1 \notin Fds /\ 0 \notin Fds
      /\ _fds \in [Fds -> Objects \cup {Nobody}] /\ owner \in [Fds -> Objects \cup {Nobody}]
  BY LoopAssumption DEF IInv, TypeOK
<1>5. fd'[c] = 0 /\ \A o \in Objects \ {c} : fd'[o] = fd[o]
  BY <1>1, <1>2, <1>4 DEF Objects
<1>6. \A o \in Objects \ {Listener} : Readable(o) => Readable(o)'
  BY <1>1 DEF Readable
<1>7. batch' \in Seq(Events) /\ EventsReachOwner' /\ Distinct' /\ loop = "running"
  BY <1>1, <1>3, <1>6, CallbackBatch
<1>8. TypeOK'
  <2>1. \A f \in Fds : _fds[f] # Nobody => fd'[_fds[f]] = f
    BY <1>2, <1>4, <1>5 DEF IInv, TypeOK
  <2>2. fd' \in [Objects -> Fds \cup {-1, 0}]
    BY <1>1, <1>4
  <2> QED BY <1>1, <1>2, <1>7, <2>1, <2>2 DEF IInv, TypeOK
<1>9. TablesAgree'
  BY <1>1 DEF IInv, TablesAgree, monitors_fd
<1>10. Own'
  BY <1>1, <1>2, <1>4, <1>5 DEF IInv, Own
<1>11. Left'
  BY <1>1, <1>2, <1>4, <1>5, LoopAssumption DEF IInv, Left, LeftOut, Objects
<1>12. Started'
  BY <1>1, <1>7 DEF Started
<1> QED BY <1>2, <1>7, <1>8, <1>9, <1>10, <1>11, <1>12 DEF IInv

\* An accepted connection has a descriptor nobody had.  If the multiplexer
\* has an entry for it, the entry is the bus's, and stays.
LEMMA NewSwitchIInv == IInv /\ NewSwitch => IInv'
<1> SUFFICES ASSUME IInv, NewSwitch PROVE IInv'
  OBVIOUS
<1> DEFINE c == Head(backlog)
<1>1. /\ batch # << >> /\ batch' = Tail(batch) /\ backlog # << >> /\ backlog' = Tail(backlog)
      /\ UNCHANGED <<loop, rdl, peer, input, bus, busIn, queued>>
  BY DEF NewSwitch, accept, attach, Called, Rest, busVars
<1>f. PICK f \in Lowest(Free) :
        /\ owner' = [owner EXCEPT ![f] = c]
        /\ fd' = [fd EXCEPT ![c] = f]
        /\ Register(f, c)
  BY DEF NewSwitch, accept, attach
<1>2. c \in Conns /\ fd[c] = -1 /\ backlog' \in Seq(Conns) /\ Waiting'
  BY <1>1, <1>f, Accepted
<1>3. batch[1].obj = Listener
  BY CallbackOf DEF NewSwitch, accept, attach, Objects
<1>4. fd \in [Objects -> Fds \cup {-1, 0}] /\ -1 \notin Fds /\ 0 \notin Fds
      /\ _fds \in [Fds -> Objects \cup {Nobody}] /\ owner \in [Fds -> Objects \cup {Nobody}]
      /\ interest \subseteq Fds /\ f \in Fds /\ owner[f] = Nobody
      /\ c \in Objects /\ c # Bus /\ c # Nobody
  BY <1>2, LoopAssumption DEF IInv, TypeOK, Lowest, Free, Objects
<1>5. /\ fd'[c] = f /\ \A o \in Objects \ {c} : fd'[o] = fd[o]
      /\ owner'[f] = c /\ \A g \in Fds \ {f} : owner'[g] = owner[g]
  BY <1>f, <1>4
<1>6. f \notin interest
  BY <1>4 DEF IInv, TablesAgree
<1>7. monitors_fd(f) => _fds[f] = Bus /\ fd[Bus] = f /\ bus = "lost"
  <2> SUFFICES ASSUME _fds[f] # Nobody PROVE _fds[f] = Bus /\ fd[Bus] = f /\ bus = "lost"
    BY DEF monitors_fd
  <2>1. fd[_fds[f]] = f /\ _fds[f] \in Objects
    BY <1>4 DEF IInv, TypeOK
  <2> QED BY <1>4, <2>1 DEF IInv, Own
<1>8. \/ /\ monitors_fd(f) /\ _fds' = _fds /\ interest' = interest
      \/ /\ ~monitors_fd(f) /\ interest' = interest \cup {f}
         /\ _fds'[f] = c /\ \A g \in Fds \ {f} : _fds'[g] = _fds[g]
  BY <1>f, <1>4 DEF Register
<1>9. _fds' \in [Fds -> Objects \cup {Nobody}] /\ interest' \subseteq Fds
  BY <1>f, <1>4 DEF Register
<1>10. batch' \in Seq(Events) /\ EventsReachOwner' /\ Distinct' /\ loop = "running"
  <2>1. \A o \in Objects \ {Listener} : Readable(o) => Readable(o)'
    BY <1>1 DEF Readable
  <2>2. \A o \in Objects : fd[o] \in Fds /\ owner[fd[o]] = o =>
           _fds'[fd[o]] = _fds[fd[o]] /\ owner'[fd[o]] = o
    <3> SUFFICES ASSUME NEW o \in Objects, fd[o] \in Fds, owner[fd[o]] = o
                 PROVE  _fds'[fd[o]] = _fds[fd[o]] /\ owner'[fd[o]] = o
      OBVIOUS
    <3>1. fd[o] # f
      BY <1>4, LoopAssumption
    <3> QED BY <1>5, <1>8, <3>1
  <2> QED BY <1>1, <1>3, <2>1, <2>2, CallbackBatch
<1>11. TypeOK'
  <2>1. \A g \in Fds : _fds'[g] # Nobody => fd'[_fds'[g]] = g
    <3> SUFFICES ASSUME NEW g \in Fds, _fds'[g] # Nobody PROVE fd'[_fds'[g]] = g
      OBVIOUS
    <3>1. CASE _fds'[g] = c
      <4>1. _fds[g] # c
        BY <1>2, <1>4 DEF IInv, TypeOK
      <4> QED BY <1>5, <1>8, <3>1, <4>1
    <3>2. CASE _fds'[g] # c
      BY <1>4, <1>5, <1>8, <1>9, <3>2 DEF IInv, TypeOK
    <3> QED BY <3>1, <3>2
  <2>2. /\ fd' \in [Objects -> Fds \cup {-1, 0}]
        /\ owner' \in [Fds -> Objects \cup {Nobody}]
    BY <1>f, <1>4
  <2> QED BY <1>1, <1>2, <1>9, <1>10, <2>1, <2>2 DEF IInv, TypeOK
<1>12. TablesAgree'
  <2> SUFFICES ASSUME NEW g \in Fds
               PROVE  /\ g \in interest' => _fds'[g] = owner'[g] /\ owner'[g] # Nobody
                      /\ _fds'[g] # Nobody => g \in interest' \/ (_fds'[g] = Bus /\ bus = "lost")
    BY <1>1 DEF TablesAgree, monitors_fd
  <2>1. CASE g = f
    BY <1>4, <1>5, <1>6, <1>7, <1>8, <2>1 DEF monitors_fd
  <2>2. CASE g # f
    BY <1>4, <1>5, <1>8, <2>2 DEF IInv, TablesAgree, monitors_fd
  <2> QED BY <2>1, <2>2
<1>13. Own'
  <2>1. \A g \in Fds : owner'[g] # Nobody => fd'[owner'[g]] = g
    BY <1>2, <1>4, <1>5 DEF IInv, Own
  <2>2. \A o \in Objects : fd'[o] \in Fds => owner'[fd'[o]] = o \/ (o = Bus /\ bus = "lost")
    <3> SUFFICES ASSUME NEW o \in Objects, fd'[o] \in Fds, o # c
                 PROVE  owner'[fd'[o]] = o \/ (o = Bus /\ bus = "lost")
      BY <1>5
    <3>1. fd'[o] = fd[o] /\ (owner[fd[o]] = o \/ (o = Bus /\ bus = "lost"))
      BY <1>5 DEF IInv, Own
    <3>2. owner[fd[o]] = o => fd[o] # f
      BY <1>4, LoopAssumption
    <3> QED BY <1>5, <3>1, <3>2
  <2> QED BY <1>1, <2>1, <2>2 DEF Own
<1>14. Left'
  <2> SUFFICES ASSUME NEW d \in Conns, fd'[d] \in Fds, fd'[d] \notin interest'
               PROVE  bus = "lost" /\ fd'[d] = fd'[Bus]
    BY <1>1 DEF Left, LeftOut
  <2>1. fd'[Bus] = fd[Bus]
    BY <1>4, <1>5 DEF Objects
  <2>2. CASE d = c
    BY <1>5, <1>7, <1>8, <2>1, <2>2
  <2>3. CASE d # c
    BY <1>5, <1>8, <2>1, <2>3 DEF IInv, Left, LeftOut, Objects
  <2> QED BY <2>2, <2>3
<1>15. Started'
  BY <1>1, <1>10 DEF Started
<1> QED BY <1>2, <1>10, <1>11, <1>12, <1>13, <1>14, <1>15 DEF IInv

\* A closed descriptor is in no table of the kernel.
LEMMA Closed ==
    ASSUME IInv, NEW f \in Fds, CloseFd(f)
    PROVE  /\ owner'[f] = Nobody /\ \A g \in Fds \ {f} : owner'[g] = owner[g]
           /\ interest' = interest \ {f}
           /\ owner' \in [Fds -> Objects \cup {Nobody}] /\ interest' \subseteq Fds
           /\ rdl' \in Seq(Fds \cup {0})
<1>1. owner \in [Fds -> Objects \cup {Nobody}] /\ interest \subseteq Fds
      /\ rdl \in Seq(Fds \cup {0})
  BY DEF IInv, TypeOK
<1>2. rdl' \in Seq(Fds \cup {0})
  <2>1. rdl' = [i \in 1 .. Len(rdl) |-> IF rdl[i] = f THEN 0 ELSE rdl[i]]
        /\ Len(rdl) \in Nat
    BY <1>1 DEF CloseFd
  <2>2. \A i \in 1 .. Len(rdl) : rdl[i] \in Fds \cup {0}
    BY <1>1
  <2> QED BY <2>1, <2>2
<1> QED BY <1>1, <1>2 DEF CloseFd

\* A switch that has gone leaves no entry behind.
LEMMA HangUpIInv == \A c \in Conns : IInv /\ HangUp(c) => IInv'
<1> SUFFICES ASSUME NEW c \in Conns, IInv, HangUp(c) PROVE IInv'
  OBVIOUS
<1> DEFINE f == fd[c]
<1>1. /\ batch # << >> /\ batch' = Tail(batch) /\ peer[c] = "gone"
      /\ _fds' = [_fds EXCEPT ![f] = Nobody] /\ CloseFd(f)
      /\ fd' = [fd EXCEPT ![c] = 0]
      /\ UNCHANGED <<loop, backlog, peer, input, bus, busIn, queued>>
  BY DEF HangUp, remove_interface, close, Called, Rest, Unregister, switchVars, busVars
<1>2. /\ batch[1].obj = c /\ f \in Fds /\ owner[f] = c /\ _fds[f] = c
      /\ c \in Objects /\ c # Bus /\ c # Nobody
  BY CallbackOf, LoopAssumption DEF HangUp, remove_interface, close, Objects
<1>3. fd \in [Objects -> Fds \cup {-1, 0}] /\ -1 \notin Fds /\ 0 \notin Fds
      /\ _fds \in [Fds -> Objects \cup {Nobody}]
  BY LoopAssumption DEF IInv, TypeOK
<1>4. /\ fd'[c] = 0 /\ \A o \in Objects \ {c} : fd'[o] = fd[o]
      /\ _fds'[f] = Nobody /\ \A g \in Fds \ {f} : _fds'[g] = _fds[g]
      /\ fd' \in [Objects -> Fds \cup {-1, 0}] /\ _fds' \in [Fds -> Objects \cup {Nobody}]
  BY <1>1, <1>2, <1>3
<1> HIDE DEF f
<1>5. /\ owner'[f] = Nobody /\ \A g \in Fds \ {f} : owner'[g] = owner[g]
      /\ interest' = interest \ {f}
      /\ owner' \in [Fds -> Objects \cup {Nobody}] /\ interest' \subseteq Fds
      /\ rdl' \in Seq(Fds \cup {0})
  BY <1>1, <1>2, Closed
<1>6. \A o \in Objects \ {c} : fd[o] = f => o = Bus /\ bus = "lost"
  BY <1>2 DEF IInv, Own
<1>7. batch' \in Seq(Events) /\ EventsReachOwner' /\ Distinct' /\ loop = "running"
  <2>1. \A o \in Objects : Readable(o) => Readable(o)'
    BY <1>1 DEF Readable
  <2>2. \A o \in Objects \ {c} : fd[o] \in Fds /\ owner[fd[o]] = o =>
           _fds'[fd[o]] = _fds[fd[o]] /\ owner'[fd[o]] = o
    BY <1>2, <1>4, <1>5
  <2> QED BY <1>1, <1>2, <2>1, <2>2, CallbackBatch
<1>8. TypeOK'
  <2>1. \A g \in Fds : _fds'[g] # Nobody => fd'[_fds'[g]] = g
    <3> SUFFICES ASSUME NEW g \in Fds, _fds'[g] # Nobody PROVE fd'[_fds'[g]] = g
      OBVIOUS
    <3>1. g # f /\ _fds'[g] = _fds[g]
      BY <1>4
    <3>2. fd[_fds[g]] = g /\ _fds[g] \in Objects
      BY <1>3, <3>1 DEF IInv, TypeOK
    <3>3. _fds[g] # c
      BY <3>1, <3>2 DEF f
    <3> QED BY <1>4, <3>1, <3>2, <3>3
  <2> QED BY <1>1, <1>4, <1>5, <1>7, <2>1 DEF IInv, TypeOK
<1>9. TablesAgree'
  BY <1>1, <1>4, <1>5 DEF IInv, TablesAgree, monitors_fd
<1>10. Own'
  <2>1. \A g \in Fds : owner'[g] # Nobody => fd'[owner'[g]] = g
    <3> SUFFICES ASSUME NEW g \in Fds, owner'[g] # Nobody PROVE fd'[owner'[g]] = g
      OBVIOUS
    <3>1. g # f /\ owner'[g] = owner[g] /\ owner'[g] \in Objects
      BY <1>5
    <3>2. fd[owner[g]] = g
      BY <3>1 DEF IInv, Own
    <3>3. owner[g] # c
      BY <3>1, <3>2 DEF f
    <3> QED BY <1>4, <3>1, <3>2, <3>3
  <2>2. \A o \in Objects : fd'[o] \in Fds => owner'[fd'[o]] = o \/ (o = Bus /\ bus = "lost")
    BY <1>3, <1>4, <1>5, <1>6 DEF IInv, Own
  <2> QED BY <1>1, <2>1, <2>2 DEF Own
<1>11. Waiting'
  <2>1. \A i \in DOMAIN backlog : backlog[i] # c /\ backlog[i] \in Conns
    BY <1>2, <1>3 DEF IInv, Waiting, TypeOK, f
  <2>2. \A d \in Conns : peer[d] = "none" => d # c
    BY <1>1
  <2> QED BY <1>1, <1>4, <2>1, <2>2 DEF IInv, Waiting, Objects
<1>12. Left'
  <2> SUFFICES ASSUME NEW d \in Conns, fd'[d] \in Fds, fd'[d] \notin interest'
               PROVE  bus = "lost" /\ fd'[d] = fd'[Bus]
    BY <1>1 DEF Left, LeftOut
  <2>1. d # c /\ fd'[d] = fd[d] /\ fd'[Bus] = fd[Bus] /\ d \in Objects /\ d # Bus
    BY <1>2, <1>3, <1>4, LoopAssumption DEF Objects
  <2>2. fd[d] # f
    BY <1>6, <2>1
  <2> QED BY <1>5, <2>1, <2>2 DEF IInv, Left, LeftOut
<1>13. Started'
  BY <1>1, <1>7 DEF Started
<1> QED BY <1>7, <1>8, <1>9, <1>10, <1>11, <1>12, <1>13 DEF IInv

\* libdbus closes its descriptor, and the multiplexer keeps the entry.
LEMMA BusLostIInv == IInv /\ BusLost => IInv'
<1> SUFFICES ASSUME IInv, BusLost PROVE IInv'
  OBVIOUS
<1> DEFINE f == fd[Bus]
<1>1. /\ batch # << >> /\ batch' = Tail(batch) /\ bus = "down" /\ CloseFd(f)
      /\ bus' = "lost" /\ busIn' = 0 /\ queued' = 0
      /\ UNCHANGED <<loop, _fds, fd, backlog, peer, input>>
  BY DEF BusLost, Called, Rest, adapterVars, switchVars
<1>2. batch[1].obj = Bus /\ f \in Fds /\ owner[f] = Bus /\ _fds[f] = Bus /\ Bus \in Objects
  BY CallbackOf DEF BusLost, Objects
<1>3. /\ owner'[f] = Nobody /\ \A g \in Fds \ {f} : owner'[g] = owner[g]
      /\ interest' = interest \ {f}
      /\ owner' \in [Fds -> Objects \cup {Nobody}] /\ interest' \subseteq Fds
      /\ rdl' \in Seq(Fds \cup {0})
  BY <1>1, <1>2, Closed
<1>4. batch' \in Seq(Events) /\ EventsReachOwner' /\ Distinct' /\ loop = "running"
  <2>1. \A o \in Objects \ {Bus} : Readable(o) => Readable(o)'
    BY <1>1, LoopAssumption DEF Readable
  <2>2. \A o \in Objects \ {Bus} : fd[o] \in Fds /\ owner[fd[o]] = o => owner'[fd[o]] = o
    BY <1>2, <1>3
  <2> QED BY <1>1, <1>2, <2>1, <2>2, CallbackBatch
<1>5. TypeOK'
  BY <1>1, <1>3, <1>4 DEF IInv, TypeOK
<1>6. TablesAgree'
  BY <1>1, <1>2, <1>3 DEF IInv, TablesAgree, monitors_fd
<1>7. Own'
  BY <1>1, <1>2, <1>3 DEF IInv, Own
<1>8. Waiting'
  BY <1>1 DEF IInv, Waiting
<1>9. Left'
  BY <1>1, <1>2, <1>3, LoopAssumption DEF IInv, Left, LeftOut, Own, Objects
<1>10. Started'
  BY <1>1, <1>4 DEF Started
<1> QED BY <1>4, <1>5, <1>6, <1>7, <1>8, <1>9, <1>10 DEF IInv

-----------------------------------------------------------------------------
\* Every step keeps the invariant.
LEMMA Inductive == IInv /\ [Next]_vars => IInv'
<1> SUFFICES ASSUME IInv, [Next]_vars PROVE IInv'
  OBVIOUS
<1>1. CASE OpenBus
  BY <1>1, OpenBusIInv
<1>2. CASE \/ \E l \in {"subscribing", "running"} : Subscribe(l)
           \/ SubscribeThrows \/ Interrupted \/ AcceptThrows
  BY <1>2, StartIInv
<1>3. CASE epoll_wait
  BY <1>3, WaitIInv
<1>4. CASE NewSwitchNoMemory
  BY <1>4, NewSwitchNoMemoryIInv
<1>5. CASE NewSwitch
  BY <1>5, NewSwitchIInv
<1>6. CASE BusReady \/ \E c \in Conns : ReceiveData(c)
  BY <1>6, ReadIInv
<1>7. CASE \E c \in Conns : HangUp(c)
  BY <1>7, HangUpIInv
<1>8. CASE BusLost
  BY <1>8, BusLostIInv
<1>9. CASE \E c \in Conns : Connect(c)
  BY <1>9, ConnectIInv
<1>10. CASE (\E c \in Conns : SwitchSends(c) \/ SwitchLeaves(c)) \/ BusSends \/ BusGoes
  BY <1>10, ArrivalIInv
<1>11. CASE UNCHANGED vars
  BY <1>11 DEF vars, kernelVars, adapterVars, switchVars, busVars, IInv, TypeOK,
               EventsReachOwner, TablesAgree, Own, Distinct, Waiting, Left, LeftOut,
               Started, Readable, monitors_fd
<1> QED BY <1>1, <1>2, <1>3, <1>4, <1>5, <1>6, <1>7, <1>8, <1>9, <1>10, <1>11
        DEF Next, Callback, Environment

\* The invariant holds always.
LEMMA Always == Spec => []IInv
  BY InitIInv, Inductive, PTL DEF Spec

\* Whatever Multiplexer::_fds maps a descriptor to knows that descriptor as
\* its own: remove_interface() by fd() removes the right entry.
THEOREM TypeCorrect == Spec => []TypeOK
<1>1. IInv => TypeOK
  BY DEF IInv
<1> QED BY <1>1, Always, PTL

\* EPollWrapper::dispatch() calls the object an event was reported for, and
\* its recv() or accept() does not block the loop, though the callbacks before
\* it have closed descriptors and the kernel has given them out again.
THEOREM RightCallback == Spec => []EventsReachOwner
<1>1. IInv => EventsReachOwner
  BY DEF IInv
<1> QED BY <1>1, Always, PTL

\* epoll's set and Multiplexer::_fds are the same but for the bus's entry.
THEOREM Agreement == Spec => []TablesAgree
<1>1. IInv => TablesAgree
  BY DEF IInv
<1> QED BY <1>1, Always, PTL

\* _remove_watch() does nothing; still no more than one connection is ever
\* accepted and not served, and none before the bus is lost.
THEOREM OneUnserved == Spec => []OneLeftOut
<1>1. IInv => OneLeftOut
  <2> SUFFICES ASSUME IInv, NEW c \in LeftOut, NEW d \in LeftOut
               PROVE  bus = "lost" /\ c = d
    BY DEF OneLeftOut
  <2>1. bus = "lost" /\ fd[c] = fd[Bus] /\ fd[d] = fd[Bus]
    BY DEF IInv, Left
  <2>2. owner[fd[c]] = c /\ owner[fd[d]] = d
    BY LoopAssumption DEF IInv, Own, LeftOut, Objects
  <2> QED BY <2>1, <2>2
<1> QED BY <1>1, Always, PTL

=============================================================================
