------------------------------ MODULE EventLoop ------------------------------
(***************************************************************************)
(* The event loop of the OpenFlow adapter: Multiplexer and EPollWrapper of *)
(* om-lib, with the three kinds of object the adapter gives them: the      *)
(* listener, the connections of switches, and the connection to the bus.   *)
(*                                                                         *)
(* What can go wrong here is that numbers are used again.  The kernel      *)
(* gives a new connection the lowest free descriptor; the multiplexer maps *)
(* descriptors to objects, the objects know their descriptor, and a batch  *)
(* of events names descriptors only.  The modules OFChannel and OFNetwork  *)
(* take for granted that a callback reaches its connection, and its turn.  *)
(*                                                                         *)
(* Messages are counted, not looked at.  The kernel's descriptors, epoll's *)
(* ready list and libdbus are external.                                    *)
(***************************************************************************)
EXTENDS Integers, Sequences, FiniteSets

CONSTANTS
    Conns,          \* StreamConnection objects; none is used again
    Listener,       \* YancOFAdapter::_net_listener
    Bus,            \* YancOFAdapter::_dbus_conn
    Nobody,         \* no object
    Fds,            \* descriptors the process may have beside its own
    QLen,           \* EPollWrapper::_qlen
    MaxIn           \* bound on messages that wait to be read

Objects == Conns \cup {Listener, Bus}

ASSUME LoopAssumption ==
    /\ Listener # Bus /\ Nobody \notin Objects
    /\ Listener \notin Conns /\ Bus \notin Conns
    /\ IsFiniteSet(Fds) /\ Fds \subseteq Nat \ {0}
    /\ QLen \in Nat \ {0} /\ MaxIn \in Nat \ {0}

VARIABLES
    loop,           \* "starting", "subscribing", "running" or "dead"
    owner,          \* the object whose socket a descriptor is
    interest,       \* descriptors epoll watches
    rdl,            \* descriptors in the order epoll reports them next
    _fds,           \* Multiplexer::_fds
    fd,             \* MultiplexInterface::_fd
    batch,          \* events of this epoll_wait() not yet called back
    backlog,        \* connections that wait for accept()
    peer,           \* the switch's end: "none", "up" or "gone"
    input,          \* pieces of messages recv() has not returned
    bus,            \* "up", "down", or "lost" when libdbus has noticed
    busIn,          \* messages in the bus socket
    queued          \* messages libdbus has read and not dispatched

kernelVars == <<owner, interest, rdl>>
adapterVars == <<_fds, fd>>
switchVars == <<backlog, peer, input>>
busVars == <<bus, busIn, queued>>

vars == <<loop, kernelVars, adapterVars, batch, switchVars, busVars>>

-----------------------------------------------------------------------------
Free == {f \in Fds : owner[f] = Nobody}

\* The kernel gives the lowest free descriptor.
Lowest(S) == {f \in S : \A g \in S : f <= g}

\* recv(), accept() or libdbus's read would not block.
Readable(o) ==
    \/ o = Listener /\ backlog # << >>
    \/ o = Bus /\ (busIn > 0 \/ bus = "down")
    \/ o \in Conns /\ (input[o] > 0 \/ peer[o] = "gone")

Ready == {f \in interest : Readable(owner[f])}

\* Closing a descriptor takes it off epoll; its place in the list stays empty.
CloseFd(f) ==
    /\ owner' = [owner EXCEPT ![f] = Nobody]
    /\ interest' = interest \ {f}
    /\ rdl' = [i \in DOMAIN rdl |-> IF rdl[i] = f THEN 0 ELSE rdl[i]]

\* Multiplexer::monitors_fd()
monitors_fd(f) == _fds[f] # Nobody

-----------------------------------------------------------------------------
(***************************************************************************)
(* Start: the constructor opens the listener and then the bus, which calls *)
(* back at once with a descriptor to watch; the subscriptions that follow  *)
(* are blocking calls, and libdbus queues what else it reads meanwhile.    *)
(***************************************************************************)
Init ==
    \E f \in Lowest(Fds) :
        /\ loop = "starting"
        /\ owner = [g \in Fds |-> IF g = f THEN Listener ELSE Nobody]
        /\ interest = {f} /\ rdl = << >>
        /\ _fds = owner
        /\ fd = [o \in Objects |-> IF o = Listener THEN f ELSE -1]
        /\ batch = << >>
        /\ backlog = << >>
        /\ peer = [c \in Conns |-> "none"]
        /\ input = [c \in Conns |-> 0]
        /\ bus = "up" /\ busIn = 0 /\ queued = 0

OpenBus ==
    /\ loop = "starting"
    /\ \E f \in Lowest(Free) :
          /\ owner' = [owner EXCEPT ![f] = Bus]
          /\ fd' = [fd EXCEPT ![Bus] = f]
          /\ _fds' = [_fds EXCEPT ![f] = Bus]
          /\ interest' = interest \cup {f}
    /\ loop' = "subscribing"
    /\ UNCHANGED <<rdl, batch, switchVars, busVars>>

\* A blocking call of dbus_connected(), or the last one.
Subscribe(l) ==
    /\ loop = "subscribing" /\ bus = "up"
    /\ queued' = queued + busIn /\ busIn' = 0
    /\ loop' = l
    /\ UNCHANGED <<kernelVars, adapterVars, batch, switchVars, bus>>

\* Runtime errors nobody catches.
Throws ==
    /\ loop' = "dead" /\ batch' = << >>
    /\ UNCHANGED <<kernelVars, adapterVars, switchVars, busVars>>

\* The bus goes away during a blocking call.
SubscribeThrows == loop = "subscribing" /\ bus = "down" /\ Throws

\* epoll_wait() is interrupted.
Interrupted == loop = "running" /\ batch = << >> /\ Throws

-----------------------------------------------------------------------------
(***************************************************************************)
(* EPollWrapper::dispatch().  epoll reports ready descriptors in turn: a   *)
(* reported one goes to the end of the list.                               *)
(***************************************************************************)
Orders(S) ==
    {s \in [1 .. Cardinality(S) -> S] :
        \A i, j \in 1 .. Cardinality(S) : s[i] = s[j] => i = j}

\* f comes before g in s, or only f is in it.
Before(f, g, s) ==
    \E i \in DOMAIN s : s[i] = f /\ \A j \in 1 .. i : s[j] # g

InTurn(s) == \A i, j \in DOMAIN s : Before(s[i], s[j], rdl) => i <= j

epoll_wait ==
    /\ loop = "running" /\ batch = << >>
    /\ Ready # {}
    /\ \E s \in Orders(Ready) :
          LET n == IF QLen < Len(s) THEN QLen ELSE Len(s) IN
          /\ InTurn(s)
          /\ batch' = [i \in 1 .. n |-> [fd |-> s[i], obj |-> owner[s[i]]]]
          /\ rdl' = SubSeq(s, n + 1, Len(s)) \o SubSeq(s, 1, n)
    /\ UNCHANGED <<loop, owner, interest, adapterVars, switchVars, busVars>>

\* Mutant: only the first event of a batch is looked at.
NoRest(b) == << >>

\* The events dispatch() goes on to.
Rest(b) == Tail(b)

\* dispatch() calls ready() of the object the descriptor is mapped to.  (With
\* none, map::operator[] would make an empty handler, and calling it throws:
\* EventsReachOwner excludes that.)
Called(o) == batch # << >> /\ _fds[Head(batch).fd] = o

\* new_switch(): without memory for a buffer the connection is closed.
NewSwitchNoMemory ==
    /\ Called(Listener) /\ backlog # << >> /\ Free # {}
    /\ batch' = Rest(batch)
    /\ backlog' = Tail(backlog)
    /\ fd' = [fd EXCEPT ![Head(backlog)] = 0]
    /\ UNCHANGED <<loop, kernelVars, _fds, peer, input, busVars>>

\* Mutant: what is monitored already is not looked for, and the multiplexer's
\* emplace() keeps the entry it finds.
RegisterUnchecked(f, c) ==
    /\ _fds' = IF monitors_fd(f) THEN _fds ELSE [_fds EXCEPT ![f] = c]
    /\ interest' = interest \cup {f}

\* add_interface(), unless the descriptor is monitored already.
Register(f, c) ==
    IF monitors_fd(f)
    THEN UNCHANGED <<_fds, interest>>
    ELSE /\ _fds' = [_fds EXCEPT ![f] = c]
         /\ interest' = interest \cup {f}

\* StreamListener::accept() returns the descriptor of a connection.
accept(f, c) == f \in Lowest(Free) /\ owner' = [owner EXCEPT ![f] = c]

\* StreamConnection::attach(), of a new object, which has none.
attach(c, f) == fd' = [fd EXCEPT ![c] = f]

\* new_switch()
NewSwitch ==
    /\ Called(Listener) /\ backlog # << >>
    /\ batch' = Rest(batch)
    /\ backlog' = Tail(backlog)
    /\ \E f \in Fds :
          /\ accept(f, Head(backlog))
          /\ attach(Head(backlog), f)
          /\ Register(f, Head(backlog))
    /\ UNCHANGED <<loop, rdl, peer, input, busVars>>

\* StreamConnection::receive() takes some of what is there.
receive(c) == \E n \in 0 .. input[c] - 1 : input' = [input EXCEPT ![c] = n]

\* receive_data() with something to read.
ReceiveData(c) ==
    /\ Called(c) /\ input[c] > 0
    /\ batch' = Rest(batch)
    /\ receive(c)
    /\ UNCHANGED <<loop, kernelVars, adapterVars, backlog, peer, busVars>>

\* Mutant: the object is not unregistered.
UnregisterNot(f) == UNCHANGED _fds

\* Multiplexer::remove_interface()
Unregister(f) == _fds' = [_fds EXCEPT ![f] = Nobody]

\* EPollWrapper::remove_interface()
remove_interface(f) == Unregister(f) /\ interest' = interest \ {f}

\* StreamConnection::close(): the object forgets its descriptor.
close(c) == CloseFd(fd[c]) /\ fd' = [fd EXCEPT ![c] = 0]

\* receive_data() at the end of the stream: the object is unregistered, then
\* closed.
HangUp(c) ==
    /\ Called(c) /\ input[c] = 0 /\ peer[c] = "gone"
    /\ batch' = Rest(batch)
    /\ remove_interface(fd[c])
    /\ close(c)
    /\ UNCHANGED <<loop, switchVars, busVars>>

\* Mutant: one message is dispatched, instead of all.
AllButOne(n) == n - 1

\* The messages ready() leaves in libdbus's queue: it dispatches until there
\* are none.
Undispatched(n) == 0

\* Connection::ready(): libdbus reads some, and all it has is dispatched.
BusReady ==
    /\ Called(Bus) /\ busIn > 0
    /\ batch' = Rest(batch)
    /\ \E n \in 0 .. busIn - 1 : busIn' = n
    /\ queued' = Undispatched(queued + busIn - busIn')
    /\ UNCHANGED <<loop, kernelVars, adapterVars, switchVars, bus>>

\* libdbus finds the bus gone and closes the descriptor: _remove_watch() does
\* nothing about it.
BusLost ==
    /\ Called(Bus) /\ bus = "down"
    /\ batch' = Rest(batch)
    /\ bus' = "lost" /\ busIn' = 0 /\ queued' = 0
    /\ CloseFd(fd[Bus])
    /\ UNCHANGED <<loop, adapterVars, switchVars>>

\* accept() finds no descriptor free.
AcceptThrows == Called(Listener) /\ Free = {} /\ Throws

Callback ==
    \/ NewSwitchNoMemory \/ NewSwitch
    \/ \E c \in Conns : ReceiveData(c) \/ HangUp(c)
    \/ BusReady \/ BusLost
    \/ AcceptThrows

-----------------------------------------------------------------------------
(***************************************************************************)
(* Switches and the bus, external.                                         *)
(***************************************************************************)
Connect(c) ==
    /\ peer[c] = "none" /\ loop # "dead"
    /\ peer' = [peer EXCEPT ![c] = "up"]
    /\ backlog' = Append(backlog, c)
    /\ UNCHANGED <<loop, kernelVars, adapterVars, batch, input, busVars>>

SwitchSends(c) ==
    /\ peer[c] = "up" /\ input[c] < MaxIn /\ loop # "dead"
    /\ input' = [input EXCEPT ![c] = @ + 1]
    /\ UNCHANGED <<loop, kernelVars, adapterVars, batch, backlog, peer, busVars>>

\* A reset loses what was not read.
SwitchLeaves(c) ==
    /\ peer[c] = "up" /\ loop # "dead"
    /\ peer' = [peer EXCEPT ![c] = "gone"]
    /\ \E n \in {0, input[c]} : input' = [input EXCEPT ![c] = n]
    /\ UNCHANGED <<loop, kernelVars, adapterVars, batch, backlog, busVars>>

BusSends ==
    /\ bus = "up" /\ busIn + queued < MaxIn /\ loop \notin {"starting", "dead"}
    /\ busIn' = busIn + 1
    /\ UNCHANGED <<loop, kernelVars, adapterVars, batch, switchVars, bus, queued>>

BusGoes ==
    /\ bus = "up" /\ loop \notin {"starting", "dead"}
    /\ bus' = "down"
    /\ UNCHANGED <<loop, kernelVars, adapterVars, batch, switchVars, busIn, queued>>

Environment ==
    \/ \E c \in Conns : Connect(c) \/ SwitchSends(c) \/ SwitchLeaves(c)
    \/ BusSends \/ BusGoes

Next ==
    \/ OpenBus \/ (\E l \in {"subscribing", "running"} : Subscribe(l))
    \/ SubscribeThrows \/ Interrupted
    \/ epoll_wait \/ Callback \/ Environment

Spec == Init /\ [][Next]_vars

\* The adapter's one thread goes on while it has something to do.  Which
\* descriptor gets its turn is not assumed.
Fairness ==
    /\ WF_vars(OpenBus)
    /\ WF_vars(Subscribe("running") \/ SubscribeThrows)
    /\ WF_vars(epoll_wait \/ Callback)

FairSpec == Spec /\ Fairness

-----------------------------------------------------------------------------
Events == [fd : Fds, obj : Objects]

\* An object that is registered is so under its own descriptor.
TypeOK ==
    /\ loop \in {"starting", "subscribing", "running", "dead"}
    /\ owner \in [Fds -> Objects \cup {Nobody}]
    /\ interest \subseteq Fds
    /\ rdl \in Seq(Fds \cup {0})
    /\ _fds \in [Fds -> Objects \cup {Nobody}]
    /\ fd \in [Objects -> Fds \cup {-1, 0}]
    /\ batch \in Seq(Events)
    /\ backlog \in Seq(Conns)
    /\ peer \in [Conns -> {"none", "up", "gone"}]
    /\ input \in [Conns -> Nat]
    /\ bus \in {"up", "down", "lost"} /\ busIn \in Nat /\ queued \in Nat
    /\ \A f \in Fds : _fds[f] # Nobody => fd[_fds[f]] = f

\* Descriptors are used again, and events name descriptors: whatever the
\* callbacks before it in a batch close and open, an event reaches the object
\* it was reported for, and that object's recv() or accept() does not block.
EventsReachOwner ==
    \A i \in DOMAIN batch :
        /\ _fds[batch[i].fd] = batch[i].obj
        /\ owner[batch[i].fd] = batch[i].obj
        /\ Readable(batch[i].obj)

\* epoll and the multiplexer watch the same descriptors for the same objects,
\* but for the bus when libdbus has closed it.
TablesAgree ==
    \A f \in Fds :
        /\ f \in interest => _fds[f] = owner[f] /\ owner[f] # Nobody
        /\ monitors_fd(f) => f \in interest \/ (_fds[f] = Bus /\ bus = "lost")

LeftOut == {c \in Conns : fd[c] \in Fds /\ fd[c] \notin interest}

\* A connection that was accepted is served.  After the bus has gone its
\* descriptor stays taken in the multiplexer, and the one connection that is
\* given that number is neither served nor closed: one, and never another.
OneLeftOut == \A c, d \in LeftOut : bus = "lost" /\ c = d

\* A switch that waits is accepted, however busy the others are.
EverySwitchAccepted ==
    \A c \in Conns :
        peer[c] # "none" /\ fd[c] = -1 ~> fd[c] # -1 \/ loop = "dead"

\* However busy the others are, a connection's messages are read, and its end
\* is noticed.
EverySwitchServed ==
    \A c \in Conns :
        /\ fd[c] \in interest /\ input[c] = MaxIn ~> input[c] < MaxIn \/ loop = "dead"
        /\ fd[c] \in interest /\ peer[c] = "gone" ~> fd[c] = 0 \/ loop = "dead"

\* So are those of the bus, and what libdbus held back with them.
BusRead ==
    loop = "running" /\ busIn > 0 /\ busIn + queued = MaxIn
        ~> (queued = 0 /\ busIn < MaxIn) \/ loop = "dead"

=============================================================================
