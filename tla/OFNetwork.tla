------------------------------ MODULE OFNetwork ------------------------------
(***************************************************************************)
(* The OpenFlow adapter between switches, the filesystem and applications  *)
(* (of_network.cc, of_switch.cc, of_packet_in.cc, of_flow.cc,              *)
(* of_packet_out.cc), with yanc-cbench.py as the application.              *)
(*                                                                         *)
(* A switch that introduced itself gets a directory; each PACKET_IN makes  *)
(* a directory there and a D-Bus signal; the application makes a flow      *)
(* directory from it and signals NewFlow; the adapter reads the flow and   *)
(* sends a FLOW_MOD.  The adapter is one thread: a callback is one action. *)
(* The application is another process: the steps of its handler are        *)
(* actions.  A connection delivers whole messages in order, as MsgFifo     *)
(* says; a D-Bus signal is delivered in order to whoever is running.       *)
(*                                                                         *)
(* Of the filesystem only the directories the adapter and the application  *)
(* look for are kept, and of a packet only which one it is.                *)
(***************************************************************************)
EXTENDS Integers, FiniteSets, Sequences

CONSTANTS
    Conns,          \* StreamConnection objects, by address
    SwitchOf,       \* the name OFSwitch::name_from gives the switch at it
    Ports,          \* port numbers a FEATURES_REPLY lists
    NewPorts,       \* ports switches get later
    FeatureKinds,   \* FEATURES_REPLYs: "good", "bad_version", "bad_ports"
    Errors,         \* <<type, code>> of the ERRORs they report
    BufferIdInSchema,\* the values of flowHasBufferId
    MaxMsgs,        \* bound on the messages of a connection but FEATURES_REPLY
    MaxSignals,     \* bound on the signals of other applications
    MaxStarts,      \* bound on the starts of the adapter
    MaxAppStarts    \* bound on the starts of yanc-cbench.py

Names == {SwitchOf[c] : c \in Conns}

ASSUME NetworkAssumption ==
    /\ Conns \subseteq Nat /\ IsFiniteSet(Conns)
    /\ DOMAIN SwitchOf = Conns
    /\ Ports # {}
    /\ FeatureKinds \subseteq {"good", "bad_version", "bad_ports"}
    /\ Errors \subseteq Nat \X Nat
    /\ BufferIdInSchema \subseteq BOOLEAN
    /\ MaxMsgs \in Nat /\ MaxSignals \in Nat
    /\ MaxStarts \in Nat /\ MaxAppStarts \in Nat

VARIABLES
    adapter,        \* "up", or what ended it
    starts,         \* times it was started
    switches,       \* OFNetwork::switches: "absent", "null" or "set"
    ports,          \* OFSwitch::ports_by_no
    counter,        \* OFPacketIn::_counter
    conn,           \* the adapter's end of a connection
    peer,           \* the switch's end
    inq,            \* messages not yet handled
    asked,          \* FEATURES_REQUESTs the switch has not answered
    nsent,          \* messages the switch sent
    dirs,           \* the directories below /switches
    toApp,          \* PacketIn signals on their way
    toAdapter,      \* NewFlow, FlowMod and PacketOut signals on their way
    nsignals,       \* signals other applications sent
    app,            \* where handle_packet_in is
    flow_counter,   \* YCBench.flow_counter
    appStarts,      \* times yanc-cbench.py was started
    flowHasBufferId,\* the schema has a file buffer_id under flows
    mods            \* FLOW_MODs sent

adapterVars == <<adapter, starts, switches, ports, counter>>
connVars == <<conn, peer, inq, asked, nsent>>
busVars == <<toApp, toAdapter, nsignals>>
appVars == <<app, flow_counter, appStarts, flowHasBufferId>>

vars == <<adapterVars, connVars, dirs, busVars, appVars, mods>>

-----------------------------------------------------------------------------
\* A packet is the nth message of a connection.
Packets == [conn : Conns, nth : 1 .. MaxMsgs]

\* The contents of a flow directory: as mkdir makes it, with the match of a
\* packet but not its buffer, or all of it.
Flow(p, done) == [pkt |-> p, done |-> done]

Messages(c) ==
    [type : {"hello", "echo", "other"}] \cup
    [type : {"packet_in"}, port : Ports \cup NewPorts, nth : {nsent[c] + 1}]

\* A new directory of schema type switches, flows or packet_in is empty.
FreshDir == [ports |-> {}, packet_in |-> << >>, flows |-> << >>]

Put(f, k, v) == [x \in DOMAIN f \cup {k} |-> IF x = k THEN v ELSE f[x]]
Drop(f, k) == [x \in DOMAIN f \ {k} |-> f[x]]

HasPort(n, p) == n \in DOMAIN dirs /\ p \in dirs[n].ports
HasPacket(n, k) == n \in DOMAIN dirs /\ k \in DOMAIN dirs[n].packet_in
HasFlow(n, f) == n \in DOMAIN dirs /\ f \in DOMAIN dirs[n].flows

Idle == [pc |-> "idle"]

Init ==
    /\ adapter = "up" /\ starts = 1
    /\ switches = [c \in Conns |-> "absent"]
    /\ ports = [c \in Conns |-> {}]
    /\ counter = [p \in Ports |-> 0]
    /\ conn = [c \in Conns |-> "none"]
    /\ peer = [c \in Conns |-> "up"]
    /\ inq = [c \in Conns |-> << >>]
    /\ asked = [c \in Conns |-> 0]
    /\ nsent = [c \in Conns |-> 0]
    /\ dirs = << >>
    /\ toApp = << >> /\ toAdapter = << >> /\ nsignals = 0
    /\ app = Idle /\ flow_counter = 0 /\ appStarts = 1
    /\ flowHasBufferId \in BufferIdInSchema
    /\ mods = [c \in Conns |-> << >>]

-----------------------------------------------------------------------------
(***************************************************************************)
(* The end of the adapter.  The kernel closes its connections and the bus  *)
(* drops what was on its way to it; directories stay, for no destructor    *)
(* runs.                                                                   *)
(***************************************************************************)
Die(how) ==
    /\ adapter' = how
    /\ switches' = [c \in Conns |-> "absent"]
    /\ ports' = [c \in Conns |-> {}]
    /\ conn' = [c \in Conns |-> IF conn[c] = "none" THEN "none" ELSE "closed"]
    /\ inq' = [c \in Conns |-> << >>]
    /\ asked' = [c \in Conns |-> 0]
    /\ toAdapter' = << >>
    /\ UNCHANGED <<starts, counter, peer, nsent, toApp, nsignals, appVars, mods>>

\* send() to a connection that was reset may raise SIGPIPE, which nobody
\* handles.
SendDies(c) == adapter = "up" /\ peer[c] = "reset" /\ Die("sigpipe")

\* signal_handler(): logs and exits.
Terminate == adapter = "up" /\ Die("stopped") /\ UNCHANGED dirs

Start ==
    /\ adapter # "up" /\ starts < MaxStarts
    /\ adapter' = "up" /\ starts' = starts + 1
    /\ counter' = [p \in Ports |-> 0]
    /\ UNCHANGED <<switches, ports, connVars, dirs, busVars, appVars, mods>>

-----------------------------------------------------------------------------
(***************************************************************************)
(* Switches, external: a switch introduces itself, answers a               *)
(* FEATURES_REQUEST, and otherwise sends what it likes.                    *)
(***************************************************************************)
Connect(c) ==
    /\ adapter = "up" /\ conn[c] = "none"
    /\ conn' = [conn EXCEPT ![c] = "backlog"]
    /\ inq' = [inq EXCEPT ![c] = << [type |-> "hello"] >>]
    /\ UNCHANGED <<adapterVars, peer, asked, nsent, dirs, busVars, appVars, mods>>

Connected(c) == conn[c] \in {"backlog", "open"} /\ peer[c] = "up"

SwitchSends(c, m) ==
    /\ Connected(c)
    /\ nsent[c] < MaxMsgs
    /\ nsent' = [nsent EXCEPT ![c] = @ + 1]
    /\ inq' = [inq EXCEPT ![c] = Append(@, m)]
    /\ UNCHANGED <<adapterVars, conn, peer, asked, dirs, busVars, appVars, mods>>

SwitchAnswers(c, k) ==
    /\ Connected(c)
    /\ asked[c] > 0
    /\ asked' = [asked EXCEPT ![c] = @ - 1]
    /\ inq' = [inq EXCEPT ![c] = Append(@, [type |-> "features_reply", kind |-> k])]
    /\ UNCHANGED <<adapterVars, conn, peer, nsent, dirs, busVars, appVars, mods>>

\* Some of the last messages may be lost with the connection.
SwitchLeaves(c, how) ==
    /\ Connected(c)
    /\ peer' = [peer EXCEPT ![c] = how]
    /\ \E n \in 0 .. Len(inq[c]) : inq' = [inq EXCEPT ![c] = SubSeq(@, 1, n)]
    /\ UNCHANGED <<adapterVars, conn, asked, nsent, dirs, busVars, appVars, mods>>

-----------------------------------------------------------------------------
(***************************************************************************)
(* The callbacks of a connection.                                          *)
(***************************************************************************)

\* new_switch() and new_connection(), which sends HELLO.
Accept(c) ==
    /\ adapter = "up" /\ conn[c] = "backlog"
    /\ conn' = [conn EXCEPT ![c] = "open"]
    /\ UNCHANGED <<adapterVars, peer, inq, asked, nsent, dirs, busVars, appVars, mods>>

AcceptDies(c) ==
    conn[c] = "backlog" /\ SendDies(c) /\ UNCHANGED dirs

\* switches[&cxn] makes an entry where there is none.
Touched(c) ==
    [switches EXCEPT ![c] = IF @ = "absent" THEN "null" ELSE @]

\* handle_message() is called with message m.
Handles(c, m) ==
    /\ adapter = "up" /\ conn[c] = "open"
    /\ inq[c] # << >> /\ m = Head(inq[c])

Popped(c) == inq' = [inq EXCEPT ![c] = Tail(@)]

\* HELLO from a connection that is no switch yet.
HandleHello(c) ==
    /\ Handles(c, [type |-> "hello"])
    /\ Popped(c)
    /\ switches' = Touched(c)
    /\ asked' = IF switches[c] = "set" THEN asked ELSE [asked EXCEPT ![c] = @ + 1]
    /\ UNCHANGED <<adapter, starts, ports, counter, conn, peer, nsent, dirs,
                   busVars, appVars, mods>>

HandleHelloDies(c) ==
    /\ Handles(c, [type |-> "hello"]) /\ switches[c] # "set"
    /\ SendDies(c) /\ UNCHANGED dirs

\* ECHO_REQUEST is answered; ERROR, FLOW_REMOVED, PORT_STATUS and
\* GET_CONFIG_REPLY change nothing that is kept here.
HandleOther(c) ==
    /\ \E y \in {"echo", "other"} : Handles(c, [type |-> y])
    /\ Popped(c)
    /\ switches' = Touched(c)
    /\ UNCHANGED <<adapter, starts, ports, counter, conn, peer, asked, nsent,
                   dirs, busVars, appVars, mods>>

HandleEchoDies(c) ==
    Handles(c, [type |-> "echo"]) /\ SendDies(c) /\ UNCHANGED dirs

\* How many codes each ofp_error_type has.
ofp_error_codes == <<2, 9, 9, 6, 2, 3>>

\* The lengths of "HELLO_FAILED/", "BAD_REQUEST/" and so on.
ErrorLiterals == <<13, 12, 11, 16, 16, 16>>

\* ofp_error_name() has a name for a code, but for one of QUEUE_OP_FAILED; for
\* another it adds the code to the literal, as a number to an address: what
\* is read is within the literal or not.
HasName(e) ==
    LET t == e[1] + 1 IN
    IF t \in DOMAIN ErrorLiterals
    THEN e[2] < ofp_error_codes[t] \/ e[2] <= ErrorLiterals[t]
    ELSE e[1] <= 11                             \* "OFPT_ERROR/"

\* handle_error() reads past the end of the literal, which may end the adapter
\* or, as HandleOther, go well.
HandleErrorDies(c, e) ==
    /\ Handles(c, [type |-> "other"]) /\ ~HasName(e)
    /\ Die("bad_error") /\ UNCHANGED dirs

\* Directory makes the directory of the switch unless it is there.
DirsWith(n) == IF n \in DOMAIN dirs THEN dirs ELSE Put(dirs, n, FreshDir)

\* _add_port() for every port of the reply.
WithPorts(d, n) == [d EXCEPT ![n].ports = @ \cup Ports]

\* Mutant: the version is checked before the directory is made.
DirsOfGoodOnly(n, k) == IF k = "good" THEN WithPorts(DirsWith(n), n) ELSE dirs

\* The directories after OFSwitch::OFSwitch, which returns early for another
\* version and throws for "bad_ports": what it made goes again.
DirsAfterFeatures(n, k) ==
    CASE k = "good" -> WithPorts(DirsWith(n), n)
      [] k = "bad_version" -> DirsWith(n)
      [] k = "bad_ports" -> dirs

\* FEATURES_REPLY from a connection that is no switch yet.
HandleFeatures(c, k) ==
    /\ Handles(c, [type |-> "features_reply", kind |-> k])
    /\ Popped(c)
    /\ IF switches[c] = "set"
       THEN UNCHANGED <<switches, ports, dirs>>
       ELSE /\ switches' = IF k = "bad_ports" THEN Touched(c)
                           ELSE [switches EXCEPT ![c] = "set"]
            /\ ports' = IF k = "good" THEN [ports EXCEPT ![c] = Ports] ELSE ports
            /\ dirs' = DirsAfterFeatures(SwitchOf[c], k)
    /\ UNCHANGED <<adapter, starts, counter, conn, peer, asked, nsent, busVars,
                   appVars, mods>>

\* Mutants: a new directory always gets number one, or none.
PacketNameReused(p) == <<p, 1>>
PacketNameBare(p) == <<p>>

\* OFPacketIn::_name_from(), from the name of the port and a count.
PacketName(p) == <<p, counter[p] + 1>>

PacketIn(c, p, i) == Handles(c, [type |-> "packet_in", port |-> p, nth |-> i])

\* A version other than 1.0 and 1.1 never gets as far as handle_packet_in().
Ignored(c) == switches[c] # "set" \/ ports[c] = {}

HandlePacketIgnored(c, p, i) ==
    /\ PacketIn(c, p, i) /\ Ignored(c)
    /\ Popped(c)
    /\ switches' = Touched(c)
    /\ UNCHANGED <<adapter, starts, ports, counter, conn, peer, asked, nsent,
                   dirs, busVars, appVars, mods>>

\* OFSwitch::handle_packet_in(): the directory, then the signal.
HandlePacketIn(c, p, i) ==
    LET n == SwitchOf[c] IN
    /\ PacketIn(c, p, i) /\ ~Ignored(c)
    /\ p \in ports[c] /\ HasPort(n, p)
    /\ Popped(c)
    /\ counter' = [counter EXCEPT ![p] = @ + 1]
    /\ dirs' = [dirs EXCEPT ![n].packet_in =
                   Put(@, PacketName(p), [conn |-> c, nth |-> i])]
    /\ toApp' = Append(toApp, [switch |-> n, packet |-> PacketName(p)])
    /\ UNCHANGED <<adapter, starts, switches, ports, conn, peer, asked, nsent,
                   toAdapter, nsignals, appVars, mods>>

\* A port that is not in ports_by_no is a null pointer; without the port's
\* directory its name cannot be read, which throws.
HandlePacketDies(c, p, i) ==
    /\ PacketIn(c, p, i) /\ ~Ignored(c)
    /\ \/ p \notin ports[c] /\ Die("null_port")
       \/ p \in ports[c] /\ ~HasPort(SwitchOf[c], p) /\ Die("uncaught")
    /\ UNCHANGED dirs

\* Mutants: the directory is left behind; the registration is.
ClosedKeepsDir(c) == dirs
ClosedKeepsSwitch(c) == Touched(c)

\* closed_connection() and ~OFSwitch(): the directory goes.
DirsAfterClosed(c) == IF switches[c] = "set" THEN Drop(dirs, SwitchOf[c]) ELSE dirs
SwitchesAfterClosed(c) ==
    IF switches[c] = "set" THEN [switches EXCEPT ![c] = "absent"] ELSE Touched(c)

Closed(c) ==
    /\ adapter = "up" /\ conn[c] = "open"
    /\ peer[c] = "reset" \/ (peer[c] = "gone" /\ inq[c] = << >>)
    /\ conn' = [conn EXCEPT ![c] = "closed"]
    /\ inq' = [inq EXCEPT ![c] = << >>]
    /\ asked' = [asked EXCEPT ![c] = 0]
    /\ switches' = SwitchesAfterClosed(c)
    /\ ports' = [ports EXCEPT ![c] = {}]
    /\ dirs' = DirsAfterClosed(c)
    /\ UNCHANGED <<adapter, starts, counter, peer, nsent, busVars, appVars, mods>>

-----------------------------------------------------------------------------
(***************************************************************************)
(* The D-Bus callbacks, which look a switch up by its name.                *)
(***************************************************************************)
\* Mutant: the first switch of the map is taken.
FirstRegistered(n) == {c \in Conns : switches[c] = "set"}

Registered(n) == {c \in Conns : switches[c] = "set" /\ SwitchOf[c] = n}

\* switch_by_name() goes through the map by address and takes the first of
\* that name, but calls name() on null entries too.
ByName(n) ==
    LET found == Registered(n) IN CHOOSE c \in found : \A d \in found : c <= d

MeetsNull(n) ==
    \E c \in Conns : switches[c] = "null" /\ \A d \in Registered(n) : c < d

Signalled(s) ==
    adapter = "up" /\ toAdapter # << >> /\ s = Head(toAdapter)

\* The signals a handler does nothing about: FlowMod, and those for a switch
\* that is not there.
SignalIgnored(s) ==
    /\ Signalled(s) /\ ~MeetsNull(s.switch)
    /\ s.signal = "FlowMod" \/ Registered(s.switch) = {}
    /\ toAdapter' = Tail(toAdapter)
    /\ UNCHANGED <<adapterVars, connVars, dirs, toApp, nsignals, appVars, mods>>

SignalMeetsNull(s) ==
    Signalled(s) /\ MeetsNull(s.switch) /\ Die("null_switch") /\ UNCHANGED dirs

\* new_flow(): reads the flow and sends it.
NewFlow(s) ==
    LET c == ByName(s.switch) IN
    /\ Signalled(s) /\ s.signal = "NewFlow"
    /\ ~MeetsNull(s.switch) /\ Registered(s.switch) # {}
    /\ HasFlow(s.switch, s.flow)
    /\ toAdapter' = Tail(toAdapter)
    /\ mods' = [mods EXCEPT ![c] = Append(@, dirs[s.switch].flows[s.flow])]
    /\ UNCHANGED <<adapterVars, connVars, dirs, toApp, nsignals, appVars>>

\* The first string read from a flow that is gone, match.dl_src, is resized to
\* -1, which throws; sending may raise SIGPIPE.
NewFlowDies(s) ==
    /\ Signalled(s) /\ s.signal = "NewFlow"
    /\ ~MeetsNull(s.switch) /\ Registered(s.switch) # {}
    /\ \/ ~HasFlow(s.switch, s.flow) /\ Die("uncaught")
       \/ HasFlow(s.switch, s.flow) /\ SendDies(ByName(s.switch))
    /\ UNCHANGED dirs

\* new_packet_out(): makes the directory if it must, and sends a PACKET_OUT.
NewPacketOut(s) ==
    /\ Signalled(s) /\ s.signal = "PacketOut"
    /\ ~MeetsNull(s.switch) /\ Registered(s.switch) # {}
    /\ s.switch \in DOMAIN dirs
    /\ toAdapter' = Tail(toAdapter)
    /\ UNCHANGED <<adapterVars, connVars, dirs, toApp, nsignals, appVars, mods>>

NewPacketOutDies(s) ==
    /\ Signalled(s) /\ s.signal = "PacketOut"
    /\ ~MeetsNull(s.switch) /\ Registered(s.switch) # {}
    /\ \/ s.switch \notin DOMAIN dirs /\ Die("uncaught")
       \/ s.switch \in DOMAIN dirs /\ SendDies(ByName(s.switch))
    /\ UNCHANGED dirs

-----------------------------------------------------------------------------
(***************************************************************************)
(* yanc-cbench.py.  An exception in handle_packet_in ends the call.        *)
(***************************************************************************)
AppKeeps ==
    UNCHANGED <<adapterVars, connVars, nsignals, appStarts, flowHasBufferId, mods>>

\* YPacketIn(path) reads the files of the packet.
AppLoad ==
    LET s == Head(toApp) IN
    /\ app = Idle /\ toApp # << >>
    /\ toApp' = Tail(toApp)
    /\ app' = IF HasPacket(s.switch, s.packet)
              THEN [pc |-> "make", switch |-> s.switch,
                    pkt |-> dirs[s.switch].packet_in[s.packet]]
              ELSE Idle
    /\ UNCHANGED <<dirs, toAdapter, flow_counter>> /\ AppKeeps

\* Mutant: the signal goes out before the flow is written.
AfterMakeAnnounce == "announce"

\* What follows YFlowMod() in handle_packet_in.
AfterMake == "fill"

\* YFlowMod(path, mk=True): for a directory that exists there is no load().
AppMake ==
    LET n == app.switch IN
    /\ app.pc = "make"
    /\ flow_counter' = flow_counter + 1
    /\ IF n \notin DOMAIN dirs \/ HasFlow(n, flow_counter)
       THEN app' = Idle /\ UNCHANGED dirs
       ELSE /\ dirs' = [dirs EXCEPT ![n].flows =
                           Put(@, flow_counter, Flow(app.pkt, FALSE))]
            /\ app' = [pc |-> AfterMake, switch |-> n, pkt |-> app.pkt,
                       flow |-> flow_counter]
    /\ UNCHANGED busVars /\ AppKeeps

\* Mutants: the error of a write is lost; a write that went well is taken for one.
FillGoesOn(n, f) == app' = [app EXCEPT !.pc = "announce"]
FillGivesUp(n, f) == app' = Idle

\* What follows create_from_packet_in() when it returns, or throws.
AfterFill(n, f) ==
    app' = IF HasFlow(n, f) /\ flowHasBufferId
           THEN [app EXCEPT !.pc = "announce"] ELSE Idle

\* create_from_packet_in() writes the match and then buffer_id.
AppFill ==
    LET n == app.switch  f == app.flow IN
    /\ app.pc = "fill"
    /\ dirs' = IF HasFlow(n, f)
               THEN [dirs EXCEPT ![n].flows =
                        Put(@, f, Flow(app.pkt, flowHasBufferId))]
               ELSE dirs
    /\ AfterFill(n, f)
    /\ UNCHANGED <<busVars, flow_counter>> /\ AppKeeps

\* NewFlow(); the bus has nobody to give it to while the adapter is down.
AppAnnounce ==
    /\ app.pc = "announce"
    /\ app' = Idle
    /\ toAdapter' = IF adapter # "up" THEN toAdapter
                    ELSE Append(toAdapter, [signal |-> "NewFlow",
                                            switch |-> app.switch, flow |-> app.flow])
    /\ UNCHANGED <<dirs, toApp, flow_counter>> /\ AppKeeps

AppRestart ==
    /\ appStarts < MaxAppStarts
    /\ appStarts' = appStarts + 1
    /\ app' = Idle /\ flow_counter' = 0 /\ toApp' = << >>
    /\ UNCHANGED <<adapterVars, connVars, dirs, toAdapter, nsignals,
                   flowHasBufferId, mods>>

\* Another application makes a packet_out directory, or says that it changed
\* a flow.
OtherSignal(n, s) ==
    /\ adapter = "up" /\ n \in DOMAIN dirs
    /\ nsignals < MaxSignals
    /\ nsignals' = nsignals + 1
    /\ toAdapter' = Append(toAdapter, [signal |-> s, switch |-> n])
    /\ UNCHANGED <<adapterVars, connVars, dirs, toApp, appVars, mods>>

-----------------------------------------------------------------------------
Deliver(c) ==
    \/ Accept(c) \/ AcceptDies(c)
    \/ HandleHello(c) \/ HandleHelloDies(c)
    \/ HandleOther(c) \/ HandleEchoDies(c)
    \/ \E e \in Errors : HandleErrorDies(c, e)
    \/ \E k \in FeatureKinds : HandleFeatures(c, k)
    \/ \E p \in Ports \cup NewPorts, i \in 1 .. MaxMsgs :
          HandlePacketIgnored(c, p, i) \/ HandlePacketIn(c, p, i)
             \/ HandlePacketDies(c, p, i)
    \/ Closed(c)

Dispatch ==
    \E s \in {toAdapter[i] : i \in DOMAIN toAdapter} :
        \/ SignalIgnored(s) \/ SignalMeetsNull(s)
        \/ NewFlow(s) \/ NewFlowDies(s)
        \/ NewPacketOut(s) \/ NewPacketOutDies(s)

AppStep == AppLoad \/ AppMake \/ AppFill \/ AppAnnounce

Environment ==
    \/ Terminate \/ Start \/ AppRestart
    \/ \E c \in Conns :
          \/ Connect(c)
          \/ \E m \in Messages(c) : SwitchSends(c, m)
          \/ \E k \in FeatureKinds : SwitchAnswers(c, k)
          \/ \E how \in {"gone", "reset"} : SwitchLeaves(c, how)
    \/ \E n \in Names, s \in {"FlowMod", "PacketOut"} : OtherSignal(n, s)

Next == (\E c \in Conns : Deliver(c)) \/ Dispatch \/ AppStep \/ Environment

Spec == Init /\ [][Next]_vars

(***************************************************************************)
(* The adapter's event loop serves every readable descriptor, the D-Bus    *)
(* connection among them; the application runs in a main loop of its own.  *)
(* Nothing is assumed of switches, of signals from others or of restarts.  *)
(***************************************************************************)
Fairness ==
    /\ \A c \in Conns : WF_vars(Deliver(c))
    /\ WF_vars(Dispatch)
    /\ WF_vars(AppStep)

FairSpec == Spec /\ Fairness

-----------------------------------------------------------------------------
Signals == [switch : Names, signal : {"FlowMod", "PacketOut"}] \cup
           [switch : Names, signal : {"NewFlow"}, flow : Nat]

PacketNames == Ports \X Nat

TypeOK ==
    /\ adapter \in {"up", "stopped", "sigpipe", "null_port", "null_switch", "uncaught",
                   "bad_error"}
    /\ switches \in [Conns -> {"absent", "null", "set"}]
    /\ ports \in [Conns -> SUBSET Ports]
    /\ counter \in [Ports -> Nat]
    /\ conn \in [Conns -> {"none", "backlog", "open", "closed"}]
    /\ peer \in [Conns -> {"up", "gone", "reset"}]
    /\ asked \in [Conns -> Nat]
    /\ flowHasBufferId \in BufferIdInSchema
    /\ DOMAIN dirs \subseteq Names
    /\ \A n \in DOMAIN dirs :
          /\ dirs[n].ports \subseteq Ports
          /\ DOMAIN dirs[n].packet_in \subseteq PacketNames
          /\ \A k \in DOMAIN dirs[n].packet_in : dirs[n].packet_in[k] \in Packets
          /\ \A f \in DOMAIN dirs[n].flows :
                dirs[n].flows[f] \in [pkt : Packets, done : BOOLEAN]
    /\ \A i \in DOMAIN toApp : toApp[i] \in [switch : Names, packet : PacketNames]
    /\ \A i \in DOMAIN toAdapter : toAdapter[i] \in Signals
    /\ \A c \in Conns : switches[c] # "absent" \/ asked[c] > 0 => conn[c] # "none"

\* In the adapter's first life, no directory stays behind a switch that left
\* or that could not be set up.
NoOrphanDirs ==
    adapter = "up" /\ starts = 1 =>
        DOMAIN dirs \subseteq {SwitchOf[c] : c \in {d \in Conns : switches[d] = "set"}}

\* A switch that is registered has its directory, when no other connection
\* ever was the same switch.
SwitchesHaveDirs ==
    \A c \in Conns :
        switches[c] = "set" /\ (\A d \in Conns : SwitchOf[d] = SwitchOf[c] => d = c)
            => SwitchOf[c] \in DOMAIN dirs

\* What a switch is told to do was decided from a packet it sent itself.
ModsReachTheirSwitch ==
    \A c \in Conns : \A i \in DOMAIN mods[c] :
        SwitchOf[mods[c][i].pkt.conn] = SwitchOf[c]

\* The adapter never sends a flow the application has not finished, as long
\* as flow numbers are not given out twice.
ModsAreWhole ==
    appStarts = 1 => \A c \in Conns : \A i \in DOMAIN mods[c] : mods[c][i].done

\* A FLOW_MOD is never sent on a connection the adapter has closed, whose
\* descriptor number is 0 by then: its switch is not found any more.
NoModsAfterClose ==
    [][\A c \in Conns : mods'[c] # mods[c] => conn[c] = "open"]_vars

Answers(p) ==
    {x \in UNION {{c} \X DOMAIN mods[c] : c \in Conns} : mods[x[1]][x[2]].pkt = p}

\* In the adapter's first life a packet is answered at most once.
AnsweredOnce ==
    starts = 1 /\ appStarts = 1 => \A p \in Packets : Cardinality(Answers(p)) <= 1

\* Switches that come once and keep their ports cannot make a callback throw
\* past the event loop.
NothingUncaught == adapter # "uncaught"

\* The adapter serves several switches: one that is still introducing itself
\* does not end it.
ManySwitches == adapter # "null_switch"

Arrived(c, i) ==
    \E n \in DOMAIN dirs : \E k \in DOMAIN dirs[n].packet_in :
        dirs[n].packet_in[k] = [conn |-> c, nth |-> i]
Answered(c, i) ==
    \E d \in Conns : \E j \in DOMAIN mods[d] :
        mods[d][j].pkt = [conn |-> c, nth |-> i]

\* What may end the adapter before it answers: a signal to stop, SIGPIPE, a
\* packet from a port added later, a bus signal while a switch introduces
\* itself, an ERROR that has no name.  An exception is not among them.
KnownEnds == {"stopped", "sigpipe", "null_port", "null_switch", "bad_error"}

\* With a schema that gives flows a buffer_id there is always a later time at
\* which every packet that got its directory has been answered with a flow,
\* unless its connection is gone or the adapter met one of KnownEnds.  With one that
\* does not, as schema.txt, the write of buffer_id fails and no packet is ever
\* answered.
PacketsAnswered ==
    /\ []<>(flowHasBufferId =>
               \A c \in Conns, i \in 1 .. MaxMsgs :
                   Arrived(c, i) =>
                       Answered(c, i) \/ conn[c] # "open" \/ adapter \in KnownEnds)
    /\ [](~flowHasBufferId => \A c \in Conns : mods[c] = << >>)

=============================================================================
