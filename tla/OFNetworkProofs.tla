--------------------------- MODULE OFNetworkProofs ---------------------------
(***************************************************************************)
(* Theorems of OFNetwork.  TInv keeps the types, that a registered switch  *)
(* has an open connection, and that whatever lies in the directory of a    *)
(* switch came from it.  The other invariants rest on it.  The last part   *)
(* is the refinement of MsgFifo, for which OFNetworkFifo adds a memory.    *)
(***************************************************************************)
EXTENDS OFNetworkFifo, FiniteSetTheorems, SequenceTheorems, WellFoundedInduction, TLAPS

-----------------------------------------------------------------------------
(* The smallest address *)

\* A set of natural numbers that is not empty has a smallest member.
LEMMA LeastNatural ==
    ASSUME NEW S \in SUBSET Nat, S # {}
    PROVE \E x \in S : \A y \in S : x <= y
<1>1. PICK x \in S : \A y \in S : <<y, x>> \notin OpToRel(<, Nat)
  BY WFMin, NatLessThanWellFounded, Zenon
<1>2. ASSUME NEW y \in S PROVE ~(y < x)
  <2>1. <<y, x>> \notin {ss \in Nat \X Nat : ss[1] < ss[2]} BY <1>1, Zenon DEF OpToRel
  <2> QED BY <2>1
<1> QED BY <1>2

\* switch_by_name() returns a registered switch of that name, if there is one.
LEMMA ByNameFinds ==
    ASSUME NEW n, Registered(n) # {}
    PROVE ByName(n) \in Conns /\ switches[ByName(n)] = "set" /\ SwitchOf[ByName(n)] = n
<1>1. Registered(n) \in SUBSET Nat BY NetworkAssumption DEF Registered
<1>2. \E c \in Registered(n) : \A d \in Registered(n) : c <= d BY <1>1, LeastNatural
<1>3. ByName(n) \in Registered(n) BY <1>2, Zenon DEF ByName
<1> QED BY <1>3 DEF Registered

-----------------------------------------------------------------------------
(* Directories *)

\* A directory of switch n, with what came from that switch in it.
DirOK(n, d) ==
    /\ d = [ports |-> d.ports, packet_in |-> d.packet_in, flows |-> d.flows]
    /\ d.ports \subseteq Ports
    /\ DOMAIN d.packet_in \subseteq PacketNames
    /\ \A k \in DOMAIN d.packet_in :
          d.packet_in[k] \in Packets /\ SwitchOf[d.packet_in[k].conn] = n
    /\ DOMAIN d.flows \subseteq Nat
    /\ \A f \in DOMAIN d.flows :
          /\ d.flows[f] \in [pkt : Packets, done : BOOLEAN]
          /\ SwitchOf[d.flows[f].pkt.conn] = n

DirsOK(ds) ==
    /\ ds = [n \in DOMAIN ds |-> ds[n]]
    /\ DOMAIN ds \subseteq Names
    /\ \A n \in DOMAIN ds : DirOK(n, ds[n])

\* A directory that is added, or one that takes the place of another.
LEMMA PutDir ==
    ASSUME NEW ds, DirsOK(ds), NEW n \in Names, NEW d, DirOK(n, d)
    PROVE DirsOK(Put(ds, n, d))
BY DEF DirsOK, Put

LEMMA ExceptDir ==
    ASSUME NEW ds, DirsOK(ds), NEW n \in DOMAIN ds, NEW d, DirOK(n, d)
    PROVE DirsOK([ds EXCEPT ![n] = d]) /\ DOMAIN [ds EXCEPT ![n] = d] = DOMAIN ds
BY DEF DirsOK

LEMMA DropDir ==
    ASSUME NEW ds, DirsOK(ds), NEW n
    PROVE DirsOK(Drop(ds, n)) /\ DOMAIN Drop(ds, n) = DOMAIN ds \ {n}
BY DEF DirsOK, Drop

LEMMA FreshDirOK == \A n : DirOK(n, FreshDir)
BY DEF DirOK, FreshDir

\* A change that leaves what is in the directories, and may add ports and
\* empty directories.
Grown(ds) ==
    /\ DOMAIN dirs \subseteq DOMAIN ds
    /\ \A m \in DOMAIN dirs : /\ ds[m].flows = dirs[m].flows
                              /\ ds[m].packet_in = dirs[m].packet_in
                              /\ dirs[m].ports \subseteq ds[m].ports
    /\ \A m \in DOMAIN ds \ DOMAIN dirs :
          DOMAIN ds[m].flows = {} /\ DOMAIN ds[m].packet_in = {}

\* The directories after the constructor of a switch.
LEMMA FeaturesDirs ==
    ASSUME DirsOK(dirs), NEW n \in Names, NEW k \in FeatureKinds
    PROVE /\ DirsOK(DirsAfterFeatures(n, k))
          /\ k # "bad_ports" => DOMAIN DirsAfterFeatures(n, k) = DOMAIN dirs \cup {n}
          /\ k = "bad_ports" => DirsAfterFeatures(n, k) = dirs
          /\ k = "good" => Ports \subseteq DirsAfterFeatures(n, k)[n].ports
          /\ Grown(DirsAfterFeatures(n, k))
<1>1. k \in {"good", "bad_version", "bad_ports"} BY NetworkAssumption
<1>2. /\ DirsOK(DirsWith(n)) /\ DOMAIN DirsWith(n) = DOMAIN dirs \cup {n}
      /\ \A m \in DOMAIN dirs : DirsWith(n)[m] = dirs[m]
      /\ n \notin DOMAIN dirs => DirsWith(n)[n] = FreshDir
  <2>1. CASE n \in DOMAIN dirs BY <2>1 DEF DirsWith
  <2>2. CASE n \notin DOMAIN dirs
    BY <2>2, PutDir, FreshDirOK DEF DirsWith, Put
  <2> QED BY <2>1, <2>2
<1> DEFINE d == DirsWith(n)[n]
           e == [ports |-> d.ports \cup Ports, packet_in |-> d.packet_in, flows |-> d.flows]
<1>3. DirOK(n, d) BY <1>2 DEF DirsOK
<1>4. DirOK(n, e) BY <1>3 DEF DirOK
<1>5. WithPorts(DirsWith(n), n) = [DirsWith(n) EXCEPT ![n] = e]
  <2>1. d = [ports |-> d.ports, packet_in |-> d.packet_in, flows |-> d.flows]
    BY <1>3 DEF DirOK
  <2>2. [d EXCEPT !.ports = d.ports \cup Ports] = e BY <2>1
  <2> QED BY <2>2 DEF WithPorts
<1>6. /\ DirsOK(WithPorts(DirsWith(n), n))
      /\ DOMAIN WithPorts(DirsWith(n), n) = DOMAIN dirs \cup {n}
      /\ WithPorts(DirsWith(n), n)[n] = e
      /\ \A m \in DOMAIN dirs \ {n} : WithPorts(DirsWith(n), n)[m] = dirs[m]
  <2>1. n \in DOMAIN DirsWith(n) BY <1>2
  <2> HIDE DEF e
  <2>2. /\ DirsOK([DirsWith(n) EXCEPT ![n] = e])
        /\ DOMAIN [DirsWith(n) EXCEPT ![n] = e] = DOMAIN DirsWith(n)
    BY <1>2, <1>4, <2>1, ExceptDir
  <2>3. [DirsWith(n) EXCEPT ![n] = e][n] = e BY <2>1
  <2>4. \A m \in DOMAIN dirs \ {n} : [DirsWith(n) EXCEPT ![n] = e][m] = dirs[m] BY <1>2
  <2> QED BY <1>2, <1>5, <2>2, <2>3, <2>4
<1>7. FreshDir.ports = {} /\ DOMAIN FreshDir.flows = {} /\ DOMAIN FreshDir.packet_in = {}
  BY DEF FreshDir
<1>8. Grown(dirs) BY DEF Grown
<1>9. Grown(DirsWith(n)) BY <1>2, <1>7 DEF Grown
<1>10. Grown(WithPorts(DirsWith(n), n))
  <2>1. e.flows = d.flows /\ e.packet_in = d.packet_in /\ d.ports \subseteq e.ports
    OBVIOUS
  <2>2. n \in DOMAIN dirs => d = dirs[n] BY <1>2
  <2>3. n \notin DOMAIN dirs => d = FreshDir BY <1>2
  <2> HIDE DEF d, e
  <2> QED BY <1>6, <1>7, <2>1, <2>2, <2>3 DEF Grown
<1> QED BY <1>1, <1>2, <1>6, <1>8, <1>9, <1>10 DEF DirsAfterFeatures

-----------------------------------------------------------------------------
(* The invariant *)

AppTypeOK ==
    \/ app = Idle
    \/ /\ app \in [pc : {"make"}, switch : Names, pkt : Packets]
       /\ SwitchOf[app.pkt.conn] = app.switch
    \/ /\ app \in [pc : {"fill", "announce"}, switch : Names, pkt : Packets, flow : Nat]
       /\ SwitchOf[app.pkt.conn] = app.switch

Ended == {"stopped", "sigpipe", "null_port", "null_switch", "uncaught", "bad_error"}

LifeOK ==
    /\ adapter \in Ended \cup {"up"}
    /\ starts \in Nat \ {0}
    /\ appStarts \in Nat \ {0}
    /\ flow_counter \in Nat
    /\ flowHasBufferId \in BufferIdInSchema

SwitchesOK ==
    /\ switches \in [Conns -> {"absent", "null", "set"}]
    /\ ports \in [Conns -> SUBSET Ports]
    /\ counter \in [Ports -> Nat]
    /\ conn \in [Conns -> {"none", "backlog", "open", "closed"}]
    /\ peer \in [Conns -> {"up", "gone", "reset"}]
    /\ asked \in [Conns -> Nat]
    /\ \A c \in Conns : /\ switches[c] # "absent" => conn[c] \in {"open", "closed"}
                        /\ switches[c] = "set" => conn[c] = "open"
                        /\ asked[c] > 0 => conn[c] = "open"

BusOK ==
    /\ toApp \in Seq([switch : Names, packet : PacketNames])
    /\ toAdapter \in Seq(Signals)

ModsOK ==
    /\ mods \in [Conns -> Seq([pkt : Packets, done : BOOLEAN])]
    /\ ModsReachTheirSwitch

TInv == LifeOK /\ SwitchesOK /\ DirsOK(dirs) /\ BusOK /\ AppTypeOK /\ ModsOK

LEMMA TInvInit == Init => TInv
<1> SUFFICES ASSUME Init PROVE TInv OBVIOUS
<1>1. DirsOK(dirs) BY DEF Init, DirsOK
<1>2. LifeOK /\ SwitchesOK BY DEF Init, LifeOK, SwitchesOK
<1>3. BusOK /\ AppTypeOK /\ ModsOK
  BY DEF Init, BusOK, AppTypeOK, ModsOK, ModsReachTheirSwitch
<1> QED BY <1>1, <1>2, <1>3 DEF TInv

\* What an entry for a connection changes.
LEMMA TouchedLemma ==
    ASSUME switches \in [Conns -> {"absent", "null", "set"}], NEW c \in Conns
    PROVE /\ Touched(c) \in [Conns -> {"absent", "null", "set"}]
          /\ \A d \in Conns : /\ Touched(c)[d] = "set" <=> switches[d] = "set"
                              /\ d # c => Touched(c)[d] = switches[d]
BY DEF Touched

\* A change that leaves the directories, the application and the bus alone.
Elsewhere == <<dirs, busVars, appVars, mods>>

\* The end of the adapter keeps the types.
LEMMA DieTypes ==
    ASSUME TInv, NEW how \in Ended, Die(how), UNCHANGED dirs
    PROVE TInv'
<1>1. LifeOK' BY DEF TInv, LifeOK, Die, appVars
<1>2. SwitchesOK' BY DEF TInv, SwitchesOK, Die
<1>3. DirsOK(dirs') BY DEF TInv
<1>4. BusOK' BY DEF TInv, BusOK, Die
<1>5. AppTypeOK' BY DEF TInv, AppTypeOK, Die, appVars
<1>6. ModsOK' BY DEF TInv, ModsOK, ModsReachTheirSwitch, Die
<1> QED BY <1>1, <1>2, <1>3, <1>4, <1>5, <1>6 DEF TInv

\* The steps that end the adapter.
LEMMA Endings ==
    ASSUME NEW c \in Conns, NEW s, NEW e, NEW p, NEW i,
           \/ Terminate \/ AcceptDies(c) \/ HandleHelloDies(c) \/ HandleEchoDies(c)
           \/ HandleErrorDies(c, e) \/ HandlePacketDies(c, p, i)
           \/ SignalMeetsNull(s) \/ NewFlowDies(s) \/ NewPacketOutDies(s)
    PROVE (\E how \in Ended : Die(how)) /\ UNCHANGED dirs
BY DEF Terminate, AcceptDies, HandleHelloDies, HandleEchoDies, HandleErrorDies,
       HandlePacketDies, SignalMeetsNull, NewFlowDies, NewPacketOutDies, SendDies, Ended

\* What an action is not about keeps its part of the invariant.
LEMMA KeepSwitches ==
    ASSUME SwitchesOK, UNCHANGED <<switches, ports, counter, conn, peer, asked>>
    PROVE SwitchesOK'
BY DEF SwitchesOK

LEMMA KeepLife ==
    ASSUME LifeOK, UNCHANGED <<adapter, starts, flow_counter, appStarts, flowHasBufferId>>
    PROVE LifeOK'
BY DEF LifeOK

LEMMA KeepBus == ASSUME BusOK, UNCHANGED <<toApp, toAdapter>> PROVE BusOK'
BY DEF BusOK

LEMMA KeepApp == ASSUME AppTypeOK, UNCHANGED app PROVE AppTypeOK'
BY DEF AppTypeOK

LEMMA KeepMods == ASSUME ModsOK, UNCHANGED mods PROVE ModsOK'
BY DEF ModsOK, ModsReachTheirSwitch

\* The callbacks and the steps of a switch that change nothing but the
\* connections and the registrations.
LEMMA ConnectionTypes ==
    ASSUME TInv, NEW c \in Conns, NEW m, NEW k, NEW how \in {"gone", "reset"}, NEW p, NEW i,
           \/ Connect(c) \/ SwitchSends(c, m) \/ SwitchAnswers(c, k) \/ SwitchLeaves(c, how)
           \/ Accept(c) \/ HandleHello(c) \/ HandleOther(c) \/ HandlePacketIgnored(c, p, i)
    PROVE TInv'
<1> USE DEF TInv
<1>1. LifeOK' /\ UNCHANGED dirs /\ BusOK' /\ AppTypeOK' /\ ModsOK'
  <2>1. UNCHANGED <<adapter, starts, dirs, toApp, toAdapter, appVars, mods>>
    BY DEF Connect, SwitchSends, SwitchAnswers, SwitchLeaves, Accept, HandleHello,
           HandleOther, HandlePacketIgnored, adapterVars, busVars
  <2> QED BY <2>1, KeepLife, KeepBus, KeepApp, KeepMods DEF appVars
<1>2. SwitchesOK'
  <2>1. CASE Connect(c)
    BY <2>1 DEF Connect, SwitchesOK, adapterVars
  <2>2. CASE SwitchSends(c, m)
    BY <2>2, KeepSwitches DEF SwitchSends, adapterVars
  <2>3. CASE SwitchAnswers(c, k)
    BY <2>3 DEF SwitchAnswers, SwitchesOK, adapterVars
  <2>4. CASE SwitchLeaves(c, how)
    BY <2>4 DEF SwitchLeaves, SwitchesOK, adapterVars
  <2>5. CASE Accept(c)
    BY <2>5 DEF Accept, SwitchesOK, adapterVars
  <2>6. CASE HandleHello(c)
    BY <2>6, TouchedLemma DEF HandleHello, SwitchesOK, Handles
  <2>7. CASE HandleOther(c)
    BY <2>7, TouchedLemma DEF HandleOther, SwitchesOK, Handles
  <2>8. CASE HandlePacketIgnored(c, p, i)
    BY <2>8, TouchedLemma DEF HandlePacketIgnored, SwitchesOK, PacketIn, Handles
  <2> QED BY <2>1, <2>2, <2>3, <2>4, <2>5, <2>6, <2>7, <2>8
<1> QED BY <1>1, <1>2

\* A switch is set up, or is not.
LEMMA FeaturesTypes ==
    ASSUME TInv, NEW c \in Conns, NEW k \in FeatureKinds, HandleFeatures(c, k)
    PROVE TInv'
<1> USE DEF TInv
<1>1. LifeOK' /\ BusOK' /\ AppTypeOK' /\ ModsOK'
  BY KeepLife, KeepBus, KeepApp, KeepMods DEF HandleFeatures, busVars, appVars
<1>2. SwitchesOK'
  <2>1. conn[c] = "open" /\ UNCHANGED <<counter, conn, peer, asked>>
    BY DEF HandleFeatures, Handles
  <2>2. CASE switches[c] = "set"
    BY <2>1, <2>2, KeepSwitches DEF HandleFeatures
  <2>3. CASE switches[c] # "set"
    <3>1. ports' \in [Conns -> SUBSET Ports]
      BY <2>3 DEF HandleFeatures, SwitchesOK
    <3>2. switches' = Touched(c) \/ switches' = [switches EXCEPT ![c] = "set"]
      BY <2>3 DEF HandleFeatures
    <3>3. /\ switches' \in [Conns -> {"absent", "null", "set"}]
          /\ \A d \in Conns : d # c => switches'[d] = switches[d]
      BY <3>2, TouchedLemma DEF SwitchesOK
    <3> QED BY <2>1, <3>1, <3>3 DEF SwitchesOK
  <2> QED BY <2>2, <2>3
<1>3. DirsOK(dirs')
  <2>1. dirs' = dirs \/ dirs' = DirsAfterFeatures(SwitchOf[c], k) BY DEF HandleFeatures
  <2>2. SwitchOf[c] \in Names BY DEF Names
  <2>3. DirsOK(DirsAfterFeatures(SwitchOf[c], k)) BY <2>2, FeaturesDirs
  <2> QED BY <2>1, <2>3
<1> QED BY <1>1, <1>2, <1>3

\* A packet gets its directory and its signal.
LEMMA PacketTypes ==
    ASSUME TInv, NEW c \in Conns, NEW p, NEW i \in 1 .. MaxMsgs, HandlePacketIn(c, p, i)
    PROVE TInv'
<1> USE DEF TInv
<1> DEFINE n == SwitchOf[c]
           d == dirs[n]
           f == Put(d.packet_in, PacketName(p), [conn |-> c, nth |-> i])
           e == [ports |-> d.ports, packet_in |-> f, flows |-> d.flows]
<1>1. LifeOK' /\ AppTypeOK' /\ ModsOK'
  BY KeepLife, KeepApp, KeepMods DEF HandlePacketIn, appVars
<1>2. p \in Ports BY DEF HandlePacketIn, SwitchesOK
<1>3. PacketName(p) \in PacketNames BY <1>2 DEF PacketName, PacketNames, SwitchesOK
<1>4. SwitchesOK' BY <1>2 DEF HandlePacketIn, SwitchesOK, PacketIn, Handles
<1>5. BusOK'
  <2>1. n \in Names BY DEF Names
  <2>2. [switch |-> n, packet |-> PacketName(p)] \in [switch : Names, packet : PacketNames]
    BY <1>3, <2>1
  <2> QED BY <2>2 DEF HandlePacketIn, BusOK
<1>6. DirsOK(dirs')
  <2>1. n \in DOMAIN dirs /\ DirOK(n, d) BY DEF HandlePacketIn, HasPort, DirsOK
  <2>2. dirs' = [dirs EXCEPT ![n] = e]
    <3>1. d = [ports |-> d.ports, packet_in |-> d.packet_in, flows |-> d.flows]
      BY <2>1 DEF DirOK
    <3>2. [d EXCEPT !.packet_in = f] = e BY <3>1
    <3> QED BY <3>2 DEF HandlePacketIn
  <2>3. [conn |-> c, nth |-> i] \in Packets BY DEF Packets
  <2>4. DirOK(n, e) BY <1>3, <2>1, <2>3 DEF DirOK, Put
  <2> HIDE DEF e
  <2> QED BY <2>1, <2>2, <2>4, ExceptDir
<1> QED BY <1>1, <1>4, <1>5, <1>6

\* A switch goes with its directory.
LEMMA ClosedTypes ==
    ASSUME TInv, NEW c \in Conns, Closed(c)
    PROVE TInv'
<1> USE DEF TInv
<1>1. LifeOK' /\ BusOK' /\ AppTypeOK' /\ ModsOK'
  BY KeepLife, KeepBus, KeepApp, KeepMods DEF Closed, busVars, appVars
<1>2. SwitchesOK'
  BY TouchedLemma DEF Closed, SwitchesOK, SwitchesAfterClosed
<1>3. DirsOK(dirs')
  BY DropDir DEF Closed, DirsAfterClosed
<1> QED BY <1>1, <1>2, <1>3

\* Taking the first signal off the bus.
LEMMA SignalTaken ==
    ASSUME BusOK, NEW s, Signalled(s), toAdapter' = Tail(toAdapter), UNCHANGED toApp
    PROVE BusOK' /\ s \in Signals
BY DEF BusOK, Signalled

\* The callbacks for signals.
LEMMA SignalTypes ==
    ASSUME TInv, NEW s, SignalIgnored(s) \/ NewFlow(s) \/ NewPacketOut(s)
    PROVE TInv'
<1> USE DEF TInv
<1>1. LifeOK' /\ SwitchesOK' /\ DirsOK(dirs') /\ AppTypeOK'
  <2>1. UNCHANGED <<adapterVars, connVars, dirs, appVars>>
    BY DEF SignalIgnored, NewFlow, NewPacketOut
  <2> QED BY <2>1, KeepLife, KeepSwitches, KeepApp DEF adapterVars, connVars, appVars
<1>2. BusOK' /\ s \in Signals
  BY SignalTaken DEF SignalIgnored, NewFlow, NewPacketOut
<1>3. ModsOK'
  <2>1. CASE SignalIgnored(s) \/ NewPacketOut(s)
    BY <2>1, KeepMods DEF SignalIgnored, NewPacketOut
  <2>2. CASE NewFlow(s)
    <3> DEFINE c == ByName(s.switch)
               f == dirs[s.switch].flows[s.flow]
    <3>1. c \in Conns /\ SwitchOf[c] = s.switch BY <2>2, ByNameFinds DEF NewFlow
    <3>2. f \in [pkt : Packets, done : BOOLEAN] /\ SwitchOf[f.pkt.conn] = s.switch
      BY <2>2 DEF NewFlow, HasFlow, DirsOK, DirOK
    <3>3. mods' = [mods EXCEPT ![c] = Append(@, f)] BY <2>2 DEF NewFlow
    <3> HIDE DEF c, f
    <3>4. mods' \in [Conns -> Seq([pkt : Packets, done : BOOLEAN])]
      <4> DEFINE M == [pkt : Packets, done : BOOLEAN]
      <4>1. f \in M BY <3>2
      <4>2. mods \in [Conns -> Seq(M)] BY DEF ModsOK
      <4> HIDE DEF M
      <4>3. Append(mods[c], f) \in Seq(M) BY <3>1, <4>1, <4>2
      <4>4. mods' \in [Conns -> Seq(M)] BY <3>3, <4>2, <4>3
      <4> QED BY <4>4 DEF M
    <3>5. ASSUME NEW d \in Conns, NEW i \in DOMAIN mods'[d]
          PROVE SwitchOf[mods'[d][i].pkt.conn] = SwitchOf[d]
      <4>1. CASE d # c BY <3>3, <3>5, <4>1 DEF ModsOK, ModsReachTheirSwitch
      <4>2. CASE d = c
        <5>1. mods[c] \in Seq([pkt : Packets, done : BOOLEAN]) BY <3>1 DEF ModsOK
        <5>2. mods'[c] = Append(mods[c], f) BY <3>1, <3>3 DEF ModsOK
        <5>3. (i \in DOMAIN mods[c] /\ mods'[c][i] = mods[c][i]) \/ mods'[c][i] = f
          BY <3>5, <4>2, <5>1, <5>2
        <5> QED BY <3>1, <3>2, <4>2, <5>3 DEF ModsOK, ModsReachTheirSwitch
      <4> QED BY <4>1, <4>2
    <3> QED BY <3>4, <3>5 DEF ModsOK, ModsReachTheirSwitch
  <2> QED BY <2>1, <2>2
<1> QED BY <1>1, <1>2, <1>3

\* The application reads a packet of the switch the signal names.
LEMMA LoadTypes ==
    ASSUME TInv, AppLoad
    PROVE TInv'
<1> USE DEF TInv
<1> DEFINE s == Head(toApp)
<1>1. LifeOK' /\ SwitchesOK' /\ DirsOK(dirs') /\ ModsOK'
  BY KeepLife, KeepSwitches, KeepMods DEF AppLoad, AppKeeps, adapterVars, connVars
<1>2. BusOK' /\ s \in [switch : Names, packet : PacketNames]
  <2> DEFINE S == [switch : Names, packet : PacketNames]
  <2>1. toApp \in Seq(S) /\ toApp # << >> /\ toApp' = Tail(toApp) /\ UNCHANGED toAdapter
    BY DEF AppLoad, BusOK
  <2> HIDE DEF S
  <2>2. Tail(toApp) \in Seq(S) /\ Head(toApp) \in S BY <2>1
  <2> QED BY <2>1, <2>2 DEF BusOK, S
<1>3. AppTypeOK'
  <2>1. CASE HasPacket(s.switch, s.packet)
    <3> DEFINE p == dirs[s.switch].packet_in[s.packet]
    <3>1. p \in Packets /\ SwitchOf[p.conn] = s.switch
      BY <2>1 DEF HasPacket, DirsOK, DirOK
    <3>2. app' = [pc |-> "make", switch |-> s.switch, pkt |-> p]
      BY <2>1 DEF AppLoad
    <3> HIDE DEF p, s
    <3>3. app' \in [pc : {"make"}, switch : Names, pkt : Packets]
      BY <1>2, <3>1, <3>2
    <3>4. SwitchOf[app'.pkt.conn] = app'.switch BY <3>1, <3>2
    <3> QED BY <3>3, <3>4 DEF AppTypeOK
  <2>2. CASE ~HasPacket(s.switch, s.packet)
    <3>1. app' = Idle BY <2>2 DEF AppLoad
    <3> QED BY <3>1 DEF AppTypeOK, Idle
  <2> QED BY <2>1, <2>2
<1> QED BY <1>1, <1>2, <1>3

\* What the application writes into the directory of a flow.
LEMMA FlowPut ==
    ASSUME DirsOK(dirs), NEW n \in DOMAIN dirs, NEW f \in Nat, NEW p \in Packets,
           NEW b \in BOOLEAN, SwitchOf[p.conn] = n
    PROVE LET ds == [dirs EXCEPT ![n].flows = Put(@, f, Flow(p, b))] IN
          /\ DirsOK(ds) /\ DOMAIN ds = DOMAIN dirs
          /\ \A m \in DOMAIN dirs \ {n} : ds[m] = dirs[m]
          /\ ds[n].flows = Put(dirs[n].flows, f, Flow(p, b))
          /\ ds[n].ports = dirs[n].ports /\ ds[n].packet_in = dirs[n].packet_in
<1> DEFINE d == dirs[n]
           g == Put(d.flows, f, Flow(p, b))
           e == [ports |-> d.ports, packet_in |-> d.packet_in, flows |-> g]
<1>1. DirOK(n, d) BY DEF DirsOK
<1>2. [d EXCEPT !.flows = g] = e
  <2>1. d = [ports |-> d.ports, packet_in |-> d.packet_in, flows |-> d.flows]
    BY <1>1 DEF DirOK
  <2> QED BY <2>1
<1>3. [dirs EXCEPT ![n].flows = g] = [dirs EXCEPT ![n] = e] BY <1>2
<1>4. DirOK(n, e)
  <2>1. Flow(p, b) \in [pkt : Packets, done : BOOLEAN] /\ SwitchOf[Flow(p, b).pkt.conn] = n
    BY DEF Flow
  <2>2. /\ DOMAIN g \subseteq Nat
        /\ \A x \in DOMAIN g : /\ g[x] \in [pkt : Packets, done : BOOLEAN]
                               /\ SwitchOf[g[x].pkt.conn] = n
    BY <1>1, <2>1 DEF DirOK, Put
  <2> HIDE DEF g
  <2> QED BY <1>1, <2>2 DEF DirOK
<1>5. e.flows = g /\ e.ports = d.ports /\ e.packet_in = d.packet_in OBVIOUS
<1> HIDE DEF e, g
<1>6. /\ DirsOK([dirs EXCEPT ![n] = e]) /\ DOMAIN [dirs EXCEPT ![n] = e] = DOMAIN dirs
      /\ [dirs EXCEPT ![n] = e][n] = e
      /\ \A m \in DOMAIN dirs \ {n} : [dirs EXCEPT ![n] = e][m] = dirs[m]
  BY <1>4, ExceptDir
<1> QED BY <1>3, <1>5, <1>6 DEF g

\* The application makes a flow, and writes the rest of it.
LEMMA MakeTypes ==
    ASSUME TInv, AppMake
    PROVE TInv'
<1> USE DEF TInv
<1>1. SwitchesOK' /\ BusOK' /\ ModsOK'
  BY KeepSwitches, KeepBus, KeepMods
  DEF AppMake, AppKeeps, adapterVars, connVars, busVars
<1>2. LifeOK' BY DEF AppMake, AppKeeps, adapterVars, LifeOK
<1>3. /\ app \in [pc : {"make"}, switch : Names, pkt : Packets]
      /\ SwitchOf[app.pkt.conn] = app.switch
  BY DEF AppMake, AppTypeOK, Idle
<1>4. CASE app' = Idle /\ UNCHANGED dirs
  BY <1>1, <1>2, <1>4 DEF AppTypeOK, Idle
<1>5. CASE ~(app' = Idle /\ UNCHANGED dirs)
  <2>1. /\ app.switch \in DOMAIN dirs
        /\ dirs' = [dirs EXCEPT ![app.switch].flows =
                       Put(@, flow_counter, Flow(app.pkt, FALSE))]
        /\ app' = [pc |-> "fill", switch |-> app.switch, pkt |-> app.pkt,
                   flow |-> flow_counter]
    BY <1>5 DEF AppMake, AfterMake
  <2>2. flow_counter \in Nat BY DEF LifeOK
  <2>3. DirsOK(dirs') BY <1>3, <2>1, <2>2, FlowPut
  <2>4. AppTypeOK' BY <1>3, <2>1, <2>2 DEF AppTypeOK
  <2> QED BY <1>1, <1>2, <2>3, <2>4
<1> QED BY <1>4, <1>5

LEMMA FillTypes ==
    ASSUME TInv, AppFill
    PROVE TInv'
<1> USE DEF TInv
<1>1. LifeOK' /\ SwitchesOK' /\ BusOK' /\ ModsOK'
  BY KeepLife, KeepSwitches, KeepBus, KeepMods
  DEF AppFill, AppKeeps, adapterVars, connVars, busVars
<1>2. /\ app \in [pc : {"fill", "announce"}, switch : Names, pkt : Packets, flow : Nat]
      /\ SwitchOf[app.pkt.conn] = app.switch
  BY DEF AppFill, AppTypeOK, Idle
<1>3. DirsOK(dirs')
  <2>1. CASE HasFlow(app.switch, app.flow)
    <3>1. dirs' = [dirs EXCEPT ![app.switch].flows =
                      Put(@, app.flow, Flow(app.pkt, flowHasBufferId))]
      BY <2>1 DEF AppFill
    <3>2. app.switch \in DOMAIN dirs BY <2>1 DEF HasFlow
    <3>3. flowHasBufferId \in BOOLEAN BY NetworkAssumption DEF LifeOK
    <3> QED BY <1>2, <3>1, <3>2, <3>3, FlowPut
  <2>2. CASE ~HasFlow(app.switch, app.flow)
    BY <2>2 DEF AppFill
  <2> QED BY <2>1, <2>2
<1>4. AppTypeOK'
  <2>1. app' = [app EXCEPT !.pc = "announce"] \/ app' = Idle BY DEF AppFill, AfterFill
  <2> QED BY <1>2, <2>1 DEF AppTypeOK, Idle
<1> QED BY <1>1, <1>3, <1>4

\* The application announces a flow; other applications send signals too.
LEMMA AnnounceTypes ==
    ASSUME TInv, NEW n \in Names, NEW s \in {"FlowMod", "PacketOut"},
           AppAnnounce \/ OtherSignal(n, s)
    PROVE TInv'
<1> USE DEF TInv
<1>1. LifeOK' /\ SwitchesOK' /\ DirsOK(dirs') /\ ModsOK'
  <2>1. UNCHANGED <<adapterVars, connVars, flow_counter, appStarts, flowHasBufferId,
                    dirs, mods>>
    BY DEF AppAnnounce, AppKeeps, OtherSignal, appVars
  <2> QED BY <2>1, KeepLife, KeepSwitches, KeepMods DEF adapterVars, connVars
<1>2. CASE AppAnnounce
  <2>1. app' = Idle /\ UNCHANGED toApp BY <1>2 DEF AppAnnounce
  <2>2. app.flow \in Nat /\ app.switch \in Names
    BY <1>2 DEF AppAnnounce, AppTypeOK, Idle
  <2>3. [signal |-> "NewFlow", switch |-> app.switch, flow |-> app.flow] \in Signals
    BY <2>2 DEF Signals
  <2>4. BusOK' BY <1>2, <2>1, <2>3 DEF AppAnnounce, BusOK
  <2> QED BY <1>1, <2>1, <2>4 DEF AppTypeOK
<1>3. CASE OtherSignal(n, s)
  <2>1. UNCHANGED <<toApp, app>> BY <1>3 DEF OtherSignal, appVars
  <2>2. [signal |-> s, switch |-> n] \in Signals BY DEF Signals
  <2>3. BusOK' BY <1>3, <2>1, <2>2 DEF OtherSignal, BusOK
  <2> QED BY <1>1, <2>1, <2>3, KeepApp
<1> QED BY <1>2, <1>3

LEMMA StartTypes ==
    ASSUME TInv, Start \/ AppRestart
    PROVE TInv'
<1> USE DEF TInv
<1>1. CASE Start
  <2>1. SwitchesOK' BY <1>1 DEF Start, SwitchesOK, connVars
  <2>2. LifeOK' BY <1>1 DEF Start, LifeOK, appVars
  <2>3. UNCHANGED <<dirs, toApp, toAdapter, app, mods>>
    BY <1>1 DEF Start, busVars, appVars
  <2> QED BY <2>1, <2>2, <2>3, KeepBus, KeepApp, KeepMods
<1>2. CASE AppRestart
  <2>1. UNCHANGED <<adapterVars, connVars, dirs, toAdapter, flowHasBufferId, mods>>
    BY <1>2 DEF AppRestart
  <2>2. LifeOK' BY <1>2, <2>1 DEF AppRestart, LifeOK, adapterVars
  <2>3. BusOK' BY <1>2, <2>1 DEF AppRestart, BusOK
  <2>4. AppTypeOK' BY <1>2 DEF AppRestart, AppTypeOK
  <2> QED BY <2>1, <2>2, <2>3, <2>4, KeepSwitches, KeepMods DEF adapterVars, connVars
<1> QED BY <1>1, <1>2

-----------------------------------------------------------------------------
(* The cases of a step *)

\* Every step is one of these; the steps that end the adapter are one case.
\* The invariants below go through them in this order.
Quiet ==
    \/ \E c \in Conns :
          \/ Connect(c) \/ Accept(c) \/ HandleHello(c) \/ HandleOther(c)
          \/ \E m : SwitchSends(c, m)
          \/ \E k : SwitchAnswers(c, k)
          \/ \E how \in {"gone", "reset"} : SwitchLeaves(c, how)
          \/ \E p, i : HandlePacketIgnored(c, p, i)

Ends == (\E how \in Ended : Die(how)) /\ UNCHANGED dirs

LEMMA StepCases ==
    ASSUME Next
    PROVE \/ Quiet
          \/ Ends
          \/ \E c \in Conns : \E k \in FeatureKinds : HandleFeatures(c, k)
          \/ \E c \in Conns : \E p : \E i \in 1 .. MaxMsgs : HandlePacketIn(c, p, i)
          \/ \E c \in Conns : Closed(c)
          \/ \E s : SignalIgnored(s) \/ NewPacketOut(s)
          \/ \E s : NewFlow(s)
          \/ AppLoad \/ AppMake \/ AppFill \/ AppAnnounce
          \/ \E n \in Names, s \in {"FlowMod", "PacketOut"} : OtherSignal(n, s)
          \/ Start \/ AppRestart
<1>1. ASSUME NEW c \in Conns, Deliver(c)
      PROVE \/ Quiet \/ Ends \/ Closed(c)
            \/ \E k \in FeatureKinds : HandleFeatures(c, k)
            \/ \E p : \E i \in 1 .. MaxMsgs : HandlePacketIn(c, p, i)
  BY <1>1, Endings, Zenon DEF Deliver, Quiet, Ends
<1>2. ASSUME Dispatch
      PROVE \/ Ends \/ \E s : SignalIgnored(s) \/ NewPacketOut(s)
            \/ \E s : NewFlow(s)
  <2>1. PICK s : \/ SignalIgnored(s) \/ SignalMeetsNull(s)
                 \/ NewFlow(s) \/ NewFlowDies(s)
                 \/ NewPacketOut(s) \/ NewPacketOutDies(s)
    BY <1>2, Zenon DEF Dispatch
  <2>2. CASE SignalMeetsNull(s) \/ NewFlowDies(s) \/ NewPacketOutDies(s)
    BY <2>2 DEF SignalMeetsNull, NewFlowDies, NewPacketOutDies, SendDies, Ended, Ends
  <2> QED BY <2>1, <2>2, Zenon
<1>3. ASSUME Environment
      PROVE \/ Quiet \/ Ends \/ Start \/ AppRestart
            \/ \E n \in Names, s \in {"FlowMod", "PacketOut"} : OtherSignal(n, s)
  <2>1. Terminate => Ends BY DEF Terminate, Ended, Ends
  <2> QED BY <1>3, <2>1, Zenon DEF Environment, Quiet
<1> QED BY <1>1, <1>2, <1>3, Zenon DEF Next, AppStep

\* What the invariant keeps through every step.
LEMMA TInvStep ==
    ASSUME TInv, [Next]_vars
    PROVE TInv'
<1>1. CASE UNCHANGED vars
  <2>1. UNCHANGED <<adapterVars, connVars, dirs, busVars, appVars, mods>>
    BY <1>1 DEF vars
  <2> QED BY <2>1, KeepLife, KeepSwitches, KeepBus, KeepApp, KeepMods
      DEF TInv, adapterVars, connVars, busVars, appVars
<1>2. CASE Quiet BY <1>2, ConnectionTypes, Zenon DEF Quiet
<1>3. CASE Ends BY <1>3, DieTypes, Zenon DEF Ends
<1>4. CASE \E c \in Conns : \E k \in FeatureKinds : HandleFeatures(c, k)
  BY <1>4, FeaturesTypes, Zenon
<1>5. CASE \E c \in Conns : \E p : \E i \in 1 .. MaxMsgs : HandlePacketIn(c, p, i)
  BY <1>5, PacketTypes, Zenon
<1>6. CASE \E c \in Conns : Closed(c) BY <1>6, ClosedTypes, Zenon
<1>7. CASE \E s : SignalIgnored(s) \/ NewFlow(s) \/ NewPacketOut(s)
  BY <1>7, SignalTypes, Zenon
<1>8. CASE AppLoad \/ AppMake \/ AppFill \/ AppAnnounce
  <2>1. CASE AppAnnounce
    <3>1. app.switch \in Names BY <2>1 DEF AppAnnounce, TInv, AppTypeOK, Idle
    <3> QED BY <2>1, <3>1, AnnounceTypes, Zenon
  <2> QED BY <1>8, <2>1, LoadTypes, MakeTypes, FillTypes
<1>9. CASE \E n \in Names, s \in {"FlowMod", "PacketOut"} : OtherSignal(n, s)
  BY <1>9, AnnounceTypes, Zenon
<1>10. CASE Start \/ AppRestart BY <1>10, StartTypes
<1> QED BY <1>1, <1>2, <1>3, <1>4, <1>5, <1>6, <1>7, <1>8, <1>9, <1>10, StepCases, Zenon

LEMMA TInvAlways == Spec => []TInv
BY TInvInit, TInvStep, PTL DEF Spec

LEMMA TInvTypes == TInv => TypeOK
<1> SUFFICES ASSUME TInv PROVE TypeOK OBVIOUS
<1>1. /\ adapter \in {"up", "stopped", "sigpipe", "null_port", "null_switch", "uncaught",
                      "bad_error"}
      /\ flowHasBufferId \in BufferIdInSchema
  BY DEF TInv, LifeOK, Ended
<1>2. /\ switches \in [Conns -> {"absent", "null", "set"}]
      /\ ports \in [Conns -> SUBSET Ports]
      /\ counter \in [Ports -> Nat]
      /\ conn \in [Conns -> {"none", "backlog", "open", "closed"}]
      /\ peer \in [Conns -> {"up", "gone", "reset"}]
      /\ asked \in [Conns -> Nat]
      /\ \A c \in Conns : switches[c] # "absent" \/ asked[c] > 0 => conn[c] # "none"
  BY DEF TInv, SwitchesOK
<1>3. /\ DOMAIN dirs \subseteq Names
      /\ \A n \in DOMAIN dirs :
            /\ dirs[n].ports \subseteq Ports
            /\ DOMAIN dirs[n].packet_in \subseteq PacketNames
            /\ \A k \in DOMAIN dirs[n].packet_in : dirs[n].packet_in[k] \in Packets
            /\ \A f \in DOMAIN dirs[n].flows :
                  dirs[n].flows[f] \in [pkt : Packets, done : BOOLEAN]
  BY DEF TInv, DirsOK, DirOK
<1>4. /\ \A i \in DOMAIN toApp : toApp[i] \in [switch : Names, packet : PacketNames]
      /\ \A i \in DOMAIN toAdapter : toAdapter[i] \in Signals
  <2>1. ASSUME NEW S, NEW q \in Seq(S), NEW i \in DOMAIN q PROVE q[i] \in S
    BY <2>1
  <2> QED BY <2>1, Zenon DEF TInv, BusOK
<1> QED BY <1>1, <1>2, <1>3, <1>4 DEF TypeOK

\* The adapter, the connections, the directories and the signals keep their
\* types: whatever switches, applications and restarts do, of_network.cc finds
\* under a switch only what its handlers index.
THEOREM TypeCorrect == Spec => []TypeOK
BY TInvAlways, TInvTypes, PTL

\* A FLOW_MOD goes to the switch that sent the packet it was made from: what
\* new_flow() finds by name in switch_by_name() is a registered switch of that
\* name, and everything under that name came from it.
THEOREM ModsToTheirSwitch == Spec => []ModsReachTheirSwitch
<1>1. TInv => ModsReachTheirSwitch BY DEF TInv, ModsOK
<1> QED BY <1>1, TInvAlways, PTL

\* No FLOW_MOD is sent on a connection that closed_connection() was called
\* for, since its switch is unregistered then.
THEOREM NothingAfterClose == Spec => NoModsAfterClose
<1>1. ASSUME TInv, [Next]_vars, NEW c \in Conns, mods'[c] # mods[c]
      PROVE conn[c] = "open"
  <2>1. PICK s : NewFlow(s)
    <3>1. mods' # mods BY <1>1
    <3>2. ~UNCHANGED vars BY <3>1 DEF vars
    <3>3. ~Quiet
      BY <3>1 DEF Quiet, Connect, SwitchSends, SwitchAnswers, SwitchLeaves, Accept,
                  HandleHello, HandleOther, HandlePacketIgnored
    <3>4. ~Ends BY <3>1 DEF Ends, Die
    <3>5. /\ \A d \in Conns : \A k \in FeatureKinds : ~HandleFeatures(d, k)
          /\ \A d \in Conns : \A p : \A i \in 1 .. MaxMsgs : ~HandlePacketIn(d, p, i)
          /\ \A d \in Conns : ~Closed(d)
      BY <3>1 DEF HandleFeatures, HandlePacketIn, Closed
    <3>6. /\ \A t : ~SignalIgnored(t) /\ ~NewPacketOut(t)
          /\ \A n \in Names, t \in {"FlowMod", "PacketOut"} : ~OtherSignal(n, t)
          /\ ~Start /\ ~AppRestart
      BY <3>1 DEF SignalIgnored, NewPacketOut, OtherSignal, Start, AppRestart
    <3>7. ~AppLoad /\ ~AppMake /\ ~AppFill /\ ~AppAnnounce
      BY <3>1 DEF AppLoad, AppMake, AppFill, AppAnnounce, AppKeeps
    <3> QED BY <1>1, <3>2, <3>3, <3>4, <3>5, <3>6, <3>7, StepCases, Zenon
  <2> DEFINE d == ByName(s.switch)
  <2>2. d \in Conns /\ switches[d] = "set" BY <2>1, ByNameFinds DEF NewFlow
  <2>3. mods' = [mods EXCEPT ![d] = Append(@, dirs[s.switch].flows[s.flow])]
    BY <2>1 DEF NewFlow
  <2> HIDE DEF d
  <2>4. d = c BY <1>1, <2>3 DEF TInv, ModsOK
  <2> QED BY <1>1, <2>2, <2>4 DEF TInv, SwitchesOK
<1>2. TInv /\ [Next]_vars =>
         [\A c \in Conns : mods'[c] # mods[c] => conn[c] = "open"]_vars
  BY <1>1
<1> QED BY <1>2, TInvAlways, PTL DEF Spec, NoModsAfterClose

-----------------------------------------------------------------------------
(* Registrations and directories *)

\* The steps of Quiet change no directory, no signal, nothing of the
\* application, and no registration but for null entries.
LEMMA QuietKeeps ==
    ASSUME TInv, Quiet
    PROVE /\ UNCHANGED <<adapter, starts, ports, counter, dirs, toApp, toAdapter,
                         app, flow_counter, appStarts, flowHasBufferId, mods>>
          /\ \A c \in Conns : /\ switches'[c] = "set" <=> switches[c] = "set"
                              /\ conn[c] = "closed" => conn'[c] = "closed"
<1> USE DEF adapterVars, connVars, busVars, appVars
<1>1. PICK c \in Conns :
          \/ Connect(c) \/ Accept(c) \/ HandleHello(c) \/ HandleOther(c)
          \/ \E m : SwitchSends(c, m)
          \/ \E k : SwitchAnswers(c, k)
          \/ \E how \in {"gone", "reset"} : SwitchLeaves(c, how)
          \/ \E p, i : HandlePacketIgnored(c, p, i)
  BY Zenon DEF Quiet
<1>2. UNCHANGED <<adapter, starts, ports, counter, dirs, toApp, toAdapter,
                  app, flow_counter, appStarts, flowHasBufferId, mods>>
  BY <1>1 DEF Connect, Accept, HandleHello, HandleOther, SwitchSends, SwitchAnswers,
              SwitchLeaves, HandlePacketIgnored
<1>3. switches' = switches \/ switches' = Touched(c)
  BY <1>1 DEF Connect, Accept, HandleHello, HandleOther, SwitchSends, SwitchAnswers,
              SwitchLeaves, HandlePacketIgnored
<1>4. \A d \in Conns : switches'[d] = "set" <=> switches[d] = "set"
  BY <1>3, TouchedLemma DEF TInv, SwitchesOK
<1>5. \/ conn' = conn
      \/ conn[c] = "none" /\ conn' = [conn EXCEPT ![c] = "backlog"]
      \/ conn[c] = "backlog" /\ conn' = [conn EXCEPT ![c] = "open"]
  BY <1>1 DEF Connect, Accept, HandleHello, HandleOther, SwitchSends, SwitchAnswers,
              SwitchLeaves, HandlePacketIgnored
<1>6. \A d \in Conns : conn[d] = "closed" => conn'[d] = "closed"
  BY <1>5 DEF TInv, SwitchesOK
<1> QED BY <1>2, <1>4, <1>6

\* The steps that change what is in the directories, and the others, keep
\* which directories there are and what is registered.
LEMMA NamesKept ==
    ASSUME NEW c, NEW p, NEW i, NEW s, NEW n, NEW t,
           \/ HandlePacketIn(c, p, i) \/ SignalIgnored(s) \/ NewPacketOut(s) \/ NewFlow(s)
           \/ AppLoad \/ AppMake \/ AppFill \/ AppAnnounce
           \/ OtherSignal(n, t) \/ AppRestart
    PROVE /\ UNCHANGED <<adapter, starts, switches, ports, conn>>
          /\ DOMAIN dirs' = DOMAIN dirs
<1> USE DEF adapterVars, connVars
<1>1. UNCHANGED <<adapter, starts, switches, ports, conn>>
  BY DEF HandlePacketIn, SignalIgnored, NewPacketOut, NewFlow, AppLoad, AppMake, AppFill,
         AppAnnounce, OtherSignal, AppRestart, AppKeeps
<1>2. DOMAIN dirs' = DOMAIN dirs
  <2>1. \/ UNCHANGED dirs
        \/ \E x, g : dirs' = [dirs EXCEPT ![x].flows = g]
        \/ \E x, g : dirs' = [dirs EXCEPT ![x].packet_in = g]
    BY DEF HandlePacketIn, SignalIgnored, NewPacketOut, NewFlow, AppLoad, AppMake,
           AppFill, AppAnnounce, OtherSignal, AppRestart, AppKeeps
  <2> QED BY <2>1
<1> QED BY <1>1, <1>2

\* The end of the adapter registers nothing.
LEMMA DieKeeps ==
    ASSUME Ends
    PROVE /\ adapter' \in Ended
          /\ UNCHANGED <<starts, dirs, counter, toApp, app, flow_counter, appStarts,
                         flowHasBufferId, mods>>
          /\ toAdapter' = << >>
          /\ \A c \in Conns : /\ switches'[c] = "absent"
                              /\ conn[c] = "closed" => conn'[c] = "closed"
BY DEF Ends, Die, appVars

\* A property of registrations and directories holds always if the steps that
\* change them keep it.
LEMMA OrphanStep ==
    ASSUME TInv, NoOrphanDirs, [Next]_vars
    PROVE NoOrphanDirs'
<1> USE DEF TInv, LifeOK, NoOrphanDirs
<1>1. CASE UNCHANGED <<adapter, starts, switches, dirs>> BY <1>1
<1>2. CASE Quiet BY <1>2, QuietKeeps
<1>3. CASE Ends BY <1>3, DieKeeps DEF Ended
<1>4. ASSUME NEW c \in Conns, NEW k \in FeatureKinds, HandleFeatures(c, k)
      PROVE NoOrphanDirs'
  <2>1. SwitchOf[c] \in Names /\ DirsOK(dirs) BY DEF Names
  <2>2. UNCHANGED <<adapter, starts>> BY <1>4 DEF HandleFeatures
  <2>3. CASE switches[c] = "set" BY <1>4, <2>2, <2>3 DEF HandleFeatures
  <2>4. CASE switches[c] # "set" /\ k = "bad_ports"
    <3>1. UNCHANGED dirs /\ switches' = Touched(c)
      BY <1>4, <2>1, <2>4, FeaturesDirs DEF HandleFeatures
    <3>2. \A d \in Conns : switches'[d] = "set" <=> switches[d] = "set"
      BY <3>1, TouchedLemma DEF SwitchesOK
    <3> QED BY <2>2, <3>1, <3>2
  <2>5. CASE switches[c] # "set" /\ k # "bad_ports"
    <3>1. /\ DOMAIN dirs' = DOMAIN dirs \cup {SwitchOf[c]}
          /\ switches' = [switches EXCEPT ![c] = "set"]
      BY <1>4, <2>1, <2>5, FeaturesDirs DEF HandleFeatures
    <3>2. switches'[c] = "set" /\ \A d \in Conns : switches[d] = "set" => switches'[d] = "set"
      BY <3>1 DEF SwitchesOK
    <3> QED BY <2>2, <3>1, <3>2
  <2> QED BY <2>3, <2>4, <2>5
<1>5. ASSUME NEW c \in Conns, Closed(c) PROVE NoOrphanDirs'
  <2>1. UNCHANGED <<adapter, starts>> /\ DirsOK(dirs) BY <1>5 DEF Closed
  <2>2. CASE switches[c] = "set"
    <3>1. DOMAIN dirs' = DOMAIN dirs \ {SwitchOf[c]}
      BY <1>5, <2>1, <2>2, DropDir DEF Closed, DirsAfterClosed
    <3>2. \A d \in Conns \ {c} : switches'[d] = switches[d]
      BY <1>5, <2>2 DEF Closed, SwitchesAfterClosed, SwitchesOK
    <3> QED BY <2>1, <3>1, <3>2
  <2>3. CASE switches[c] # "set"
    <3>1. UNCHANGED dirs /\ switches' = Touched(c)
      BY <1>5, <2>3 DEF Closed, DirsAfterClosed, SwitchesAfterClosed
    <3>2. \A d \in Conns : switches'[d] = "set" <=> switches[d] = "set"
      BY <3>1, TouchedLemma DEF SwitchesOK
    <3> QED BY <2>1, <3>1, <3>2
  <2> QED BY <2>2, <2>3
<1>6. CASE \/ \E c, p, i : HandlePacketIn(c, p, i)
           \/ \E s : SignalIgnored(s) \/ NewPacketOut(s) \/ NewFlow(s)
           \/ AppLoad \/ AppMake \/ AppFill \/ AppAnnounce
           \/ (\E n, t : OtherSignal(n, t)) \/ AppRestart
  BY <1>6, NamesKept
<1>7. CASE Start
  <2>1. starts' # 1 BY <1>7 DEF Start
  <2> QED BY <2>1
<1>8. UNCHANGED vars => UNCHANGED <<adapter, starts, switches, dirs>>
  BY DEF vars, adapterVars
<1> HIDE DEF TInv, LifeOK, NoOrphanDirs
<1> QED BY <1>1, <1>2, <1>3, <1>4, <1>5, <1>6, <1>7, <1>8, StepCases, Zenon

\* ~OFSwitch() and the exception of the constructor leave no directory of
\* their switch behind, however connections of one switch overlap: until the
\* adapter ends, every directory under /switches has a registered switch.
THEOREM NothingOrphaned == Spec => []NoOrphanDirs
<1>1. Init => NoOrphanDirs BY DEF Init, NoOrphanDirs
<1> QED BY <1>1, OrphanStep, TInvAlways, PTL DEF Spec

LEMMA HaveDirsStep ==
    ASSUME TInv, SwitchesHaveDirs, [Next]_vars
    PROVE SwitchesHaveDirs'
<1> USE DEF TInv, SwitchesHaveDirs
<1>1. CASE UNCHANGED <<switches, dirs>> BY <1>1
<1>2. CASE Quiet BY <1>2, QuietKeeps
<1>3. CASE Ends BY <1>3, DieKeeps
<1>4. ASSUME NEW c \in Conns, NEW k \in FeatureKinds, HandleFeatures(c, k)
      PROVE SwitchesHaveDirs'
  <2>1. SwitchOf[c] \in Names BY DEF Names
  <2>2. CASE switches[c] = "set" BY <1>4, <2>2 DEF HandleFeatures
  <2>3. CASE switches[c] # "set" /\ k = "bad_ports"
    <3>1. UNCHANGED dirs /\ switches' = Touched(c)
      BY <1>4, <2>1, <2>3, FeaturesDirs DEF HandleFeatures
    <3>2. \A d \in Conns : switches'[d] = "set" <=> switches[d] = "set"
      BY <3>1, TouchedLemma DEF SwitchesOK
    <3> QED BY <3>1, <3>2
  <2>4. CASE switches[c] # "set" /\ k # "bad_ports"
    <3>1. /\ DOMAIN dirs' = DOMAIN dirs \cup {SwitchOf[c]}
          /\ switches' = [switches EXCEPT ![c] = "set"]
      BY <1>4, <2>1, <2>4, FeaturesDirs DEF HandleFeatures
    <3>2. \A d \in Conns : d # c => switches'[d] = switches[d]
      BY <3>1 DEF SwitchesOK
    <3> QED BY <3>1, <3>2
  <2> QED BY <2>2, <2>3, <2>4
<1>5. ASSUME NEW c \in Conns, Closed(c) PROVE SwitchesHaveDirs'
  <2>1. CASE switches[c] = "set"
    <3>1. DOMAIN dirs' = DOMAIN dirs \ {SwitchOf[c]}
      BY <1>5, <2>1, DropDir DEF Closed, DirsAfterClosed
    <3>2. switches'[c] = "absent" /\ \A d \in Conns \ {c} : switches'[d] = switches[d]
      BY <1>5, <2>1 DEF Closed, SwitchesAfterClosed, SwitchesOK
    <3> QED BY <3>1, <3>2
  <2>2. CASE switches[c] # "set"
    <3>1. UNCHANGED dirs /\ switches' = Touched(c)
      BY <1>5, <2>2 DEF Closed, DirsAfterClosed, SwitchesAfterClosed
    <3>2. \A d \in Conns : switches'[d] = "set" <=> switches[d] = "set"
      BY <3>1, TouchedLemma DEF SwitchesOK
    <3> QED BY <3>1, <3>2
  <2> QED BY <2>1, <2>2
<1>6. CASE \/ \E c, p, i : HandlePacketIn(c, p, i)
           \/ \E s : SignalIgnored(s) \/ NewPacketOut(s) \/ NewFlow(s)
           \/ AppLoad \/ AppMake \/ AppFill \/ AppAnnounce
           \/ (\E n, t : OtherSignal(n, t)) \/ AppRestart
  BY <1>6, NamesKept
<1>7. CASE Start BY <1>7, <1>1 DEF Start
<1>8. UNCHANGED vars => UNCHANGED <<switches, dirs>> BY DEF vars, adapterVars
<1> HIDE DEF TInv, SwitchesHaveDirs
<1> QED BY <1>1, <1>2, <1>3, <1>4, <1>5, <1>6, <1>7, <1>8, StepCases, Zenon

\* A registered switch that never had a second connection keeps its directory:
\* nothing but its own end, ~OFSwitch(), removes it.
THEOREM RegisteredHaveDirs == Spec => []SwitchesHaveDirs
<1>1. Init => SwitchesHaveDirs BY DEF Init, SwitchesHaveDirs
<1> QED BY <1>1, HaveDirsStep, TInvAlways, PTL DEF Spec

-----------------------------------------------------------------------------
(* Whole flows *)

Finished(n, f) == HasFlow(n, f) => dirs[n].flows[f].done

\* In the application's first life a flow number is given out once, so what was
\* announced stays finished: no flow that is being written has the number of
\* one that was announced.
Whole ==
    appStarts = 1 =>
        /\ \A n \in DOMAIN dirs : \A f \in DOMAIN dirs[n].flows : f < flow_counter
        /\ \A i \in DOMAIN toAdapter : toAdapter[i].signal = "NewFlow" =>
              /\ toAdapter[i].flow < flow_counter
              /\ Finished(toAdapter[i].switch, toAdapter[i].flow)
        /\ app.pc \in {"fill", "announce"} => app.flow < flow_counter
        /\ app.pc = "announce" => Finished(app.switch, app.flow)
        /\ app.pc = "fill" =>
              \A i \in DOMAIN toAdapter :
                  toAdapter[i].signal = "NewFlow" => toAdapter[i].flow # app.flow
        /\ ModsAreWhole

\* No flow appears or changes.
NoNewFlows ==
    \A n \in DOMAIN dirs' : \A f \in DOMAIN dirs'[n].flows :
        /\ n \in DOMAIN dirs
        /\ f \in DOMAIN dirs[n].flows
        /\ dirs'[n].flows[f] = dirs[n].flows[f]

\* Signals are taken from the front, or lost, and none is sent but FlowMod and PacketOut.
NoNewSignals ==
    \A i \in DOMAIN toAdapter' : toAdapter'[i].signal = "NewFlow" =>
        \E j \in DOMAIN toAdapter : toAdapter[j] = toAdapter'[i]

LEMMA WholeKept ==
    ASSUME Whole, NoNewFlows, NoNewSignals,
           UNCHANGED <<app, flow_counter, appStarts, mods>>
    PROVE Whole'
<1>1. \A n, f : Finished(n, f) => Finished(n, f)'
  BY DEF Finished, HasFlow, NoNewFlows
<1> QED BY <1>1 DEF Whole, NoNewFlows, NoNewSignals, ModsAreWhole

\* What is left when a signal is taken off the bus was there before.
LEMMA TailSignals ==
    ASSUME BusOK, NEW s, Signalled(s), toAdapter' = Tail(toAdapter)
    PROVE NoNewSignals
BY DEF BusOK, Signalled, NoNewSignals

\* Writing one flow leaves the others as finished as they were.
LEMMA PutFinished ==
    ASSUME NEW n \in DOMAIN dirs, NEW k, NEW v, DOMAIN dirs' = DOMAIN dirs,
           \A m \in DOMAIN dirs \ {n} : dirs'[m] = dirs[m],
           dirs'[n].flows = Put(dirs[n].flows, k, v),
           NEW m, NEW f, f # k, Finished(m, f)
    PROVE Finished(m, f)'
<1>1. SUFFICES ASSUME m \in DOMAIN dirs, f \in DOMAIN dirs'[m].flows
               PROVE dirs'[m].flows[f].done
  BY DEF Finished, HasFlow
<1>2. f \in DOMAIN dirs[m].flows /\ dirs'[m].flows[f] = dirs[m].flows[f]
  BY <1>1 DEF Put
<1> QED BY <1>1, <1>2 DEF Finished, HasFlow

LEMMA WholeStep ==
    ASSUME TInv, Whole, [Next]_vars
    PROVE Whole'
<1> USE DEF TInv
<1>1. CASE UNCHANGED <<dirs, toAdapter, app, flow_counter, appStarts, mods>>
  BY <1>1, WholeKept DEF NoNewFlows, NoNewSignals
<1>2. CASE Quiet BY <1>1, <1>2, QuietKeeps
<1>3. CASE Ends
  <2>1. NoNewFlows /\ NoNewSignals BY <1>3, DieKeeps DEF NoNewFlows, NoNewSignals
  <2> QED BY <1>3, <2>1, DieKeeps, WholeKept
<1>4. ASSUME NEW c \in Conns, NEW k \in FeatureKinds, HandleFeatures(c, k)
      PROVE Whole'
  <2>1. UNCHANGED <<toAdapter, app, flow_counter, appStarts, mods>>
    BY <1>4 DEF HandleFeatures, busVars, appVars
  <2>2. dirs' = dirs \/ dirs' = DirsAfterFeatures(SwitchOf[c], k)
    BY <1>4 DEF HandleFeatures
  <2>3. SwitchOf[c] \in Names BY DEF Names
  <2>4. dirs' = dirs \/ Grown(dirs') BY <2>2, <2>3, FeaturesDirs
  <2>5. NoNewFlows /\ NoNewSignals BY <2>1, <2>4 DEF NoNewFlows, NoNewSignals, Grown
  <2> QED BY <2>1, <2>5, WholeKept
<1>5. ASSUME NEW c \in Conns, NEW p, NEW i \in 1 .. MaxMsgs, HandlePacketIn(c, p, i)
      PROVE Whole'
  <2>1. UNCHANGED <<toAdapter, app, flow_counter, appStarts, mods>>
    BY <1>5 DEF HandlePacketIn, appVars
  <2>2. \E g : dirs' = [dirs EXCEPT ![SwitchOf[c]].packet_in = g]
    BY <1>5 DEF HandlePacketIn
  <2>3. PICK g : dirs' = [dirs EXCEPT ![SwitchOf[c]].packet_in = g] BY <2>2
  <2>4. \A n \in DOMAIN dirs : dirs'[n].flows = dirs[n].flows
    <3>1. \A n \in DOMAIN dirs :
             dirs[n] = [ports |-> dirs[n].ports, packet_in |-> dirs[n].packet_in,
                        flows |-> dirs[n].flows]
      BY DEF DirsOK, DirOK
    <3> QED BY <2>3, <3>1
  <2>5. NoNewFlows /\ NoNewSignals BY <2>1, <2>3, <2>4 DEF NoNewFlows, NoNewSignals
  <2> QED BY <2>1, <2>5, WholeKept
<1>6. ASSUME NEW c \in Conns, Closed(c) PROVE Whole'
  <2>1. UNCHANGED <<toAdapter, app, flow_counter, appStarts, mods>>
    BY <1>6 DEF Closed, busVars, appVars
  <2>2. dirs' = dirs \/ dirs' = Drop(dirs, SwitchOf[c])
    BY <1>6 DEF Closed, DirsAfterClosed
  <2>3. NoNewFlows /\ NoNewSignals BY <2>1, <2>2 DEF NoNewFlows, NoNewSignals, Drop
  <2> QED BY <2>1, <2>3, WholeKept
<1>7. ASSUME NEW s, SignalIgnored(s) \/ NewPacketOut(s) PROVE Whole'
  <2>1. /\ Signalled(s) /\ toAdapter' = Tail(toAdapter)
        /\ UNCHANGED <<dirs, app, flow_counter, appStarts, mods>>
    BY <1>7 DEF SignalIgnored, NewPacketOut, appVars
  <2>2. NoNewFlows /\ NoNewSignals BY <2>1, TailSignals DEF NoNewFlows
  <2> QED BY <2>1, <2>2, WholeKept
<1>8. ASSUME NEW s, NewFlow(s) PROVE Whole'
  <2> DEFINE c == ByName(s.switch)
             f == dirs[s.switch].flows[s.flow]
  <2>1. /\ Signalled(s) /\ toAdapter' = Tail(toAdapter)
        /\ UNCHANGED <<dirs, app, flow_counter, appStarts>>
        /\ s.signal = "NewFlow" /\ HasFlow(s.switch, s.flow)
        /\ mods' = [mods EXCEPT ![c] = Append(@, f)]
    BY <1>8 DEF NewFlow, appVars
  <2>2. NoNewFlows /\ NoNewSignals BY <2>1, TailSignals DEF NoNewFlows
  <2>3. appStarts = 1 => f.done
    <3>1. 1 \in DOMAIN toAdapter /\ toAdapter[1] = s BY <2>1 DEF Signalled, BusOK
    <3> QED BY <2>1, <3>1 DEF Whole, Finished
  <2> HIDE DEF c, f
  <2>4. ModsAreWhole'
    <3> SUFFICES ASSUME appStarts' = 1, NEW d \in Conns, NEW i \in DOMAIN mods'[d]
                 PROVE mods'[d][i].done
      BY DEF ModsAreWhole
    <3>1. CASE d # c BY <2>1, <3>1 DEF Whole, ModsAreWhole, ModsOK
    <3>2. CASE d = c
      <4>1. mods[d] \in Seq([pkt : Packets, done : BOOLEAN]) BY DEF ModsOK
      <4>2. mods'[d] = Append(mods[d], f) BY <2>1, <3>2 DEF ModsOK
      <4>3. (i \in DOMAIN mods[d] /\ mods'[d][i] = mods[d][i]) \/ mods'[d][i] = f
        BY <4>1, <4>2
      <4> QED BY <2>1, <2>3, <4>3 DEF Whole, ModsAreWhole
    <3> QED BY <3>1, <3>2
  <2>5. \A n, g : Finished(n, g)' <=> Finished(n, g) BY <2>1 DEF Finished, HasFlow
  <2> QED BY <2>1, <2>2, <2>4, <2>5 DEF Whole, NoNewSignals
<1>9. CASE AppLoad
  <2>1. UNCHANGED <<dirs, toAdapter, flow_counter, appStarts, mods>>
    BY <1>9 DEF AppLoad, AppKeeps
  <2>2. app'.pc \notin {"fill", "announce"} BY <1>9 DEF AppLoad, Idle
  <2>3. \A n, f : Finished(n, f)' <=> Finished(n, f) BY <2>1 DEF Finished, HasFlow
  <2> QED BY <2>1, <2>2, <2>3 DEF Whole, ModsAreWhole
<1>10. CASE AppMake
  <2>1. /\ UNCHANGED <<toAdapter, appStarts, mods>>
        /\ flow_counter' = flow_counter + 1 /\ flow_counter \in Nat
    BY <1>10 DEF AppMake, AppKeeps, busVars, LifeOK
  <2>2. /\ app \in [pc : {"make"}, switch : Names, pkt : Packets]
        /\ SwitchOf[app.pkt.conn] = app.switch
    BY <1>10 DEF AppMake, AppTypeOK, Idle
  <2>3. \A n \in DOMAIN dirs : DOMAIN dirs[n].flows \subseteq Nat BY DEF DirsOK, DirOK
  <2>4. \A i \in DOMAIN toAdapter : toAdapter[i].signal = "NewFlow" =>
           toAdapter[i].flow \in Nat
    <3>1. \A i \in DOMAIN toAdapter : toAdapter[i] \in Signals BY TInvTypes DEF TypeOK
    <3> QED BY <3>1 DEF Signals
  <2>5. CASE app' = Idle /\ UNCHANGED dirs
    <3>1. \A n, f : Finished(n, f)' <=> Finished(n, f) BY <2>5 DEF Finished, HasFlow
    <3> QED BY <2>1, <2>3, <2>4, <2>5, <3>1 DEF Whole, ModsAreWhole, Idle
  <2>6. CASE ~(app' = Idle /\ UNCHANGED dirs)
    <3>1. /\ app.switch \in DOMAIN dirs
          /\ dirs' = [dirs EXCEPT ![app.switch].flows =
                         Put(@, flow_counter, Flow(app.pkt, FALSE))]
          /\ app'.pc = "fill" /\ app'.flow = flow_counter
      BY <1>10, <2>6 DEF AppMake, AfterMake
    <3>2. PICK n \in DOMAIN dirs, k \in Nat, q \in Packets, b \in BOOLEAN :
             n = app.switch /\ k = flow_counter /\ q = app.pkt /\ b = FALSE
      BY <2>1, <2>2, <3>1
    <3>3. /\ DOMAIN dirs' = DOMAIN dirs
          /\ \A m \in DOMAIN dirs \ {n} : dirs'[m] = dirs[m]
          /\ dirs'[n].flows = Put(dirs[n].flows, k, Flow(q, b))
      <4>1. SwitchOf[q.conn] = n BY <2>2, <3>2
      <4>2. dirs' = [dirs EXCEPT ![n].flows = Put(@, k, Flow(q, b))] BY <3>1, <3>2
      <4> QED BY <4>1, <4>2, FlowPut
    <3>4. \A m \in DOMAIN dirs : \A f \in DOMAIN dirs'[m].flows :
             f = k \/ f \in DOMAIN dirs[m].flows
      BY <3>3 DEF Put
    <3> SUFFICES ASSUME appStarts = 1 PROVE Whole' BY <2>1 DEF Whole
    <3>5. \A m \in DOMAIN dirs' : \A f \in DOMAIN dirs'[m].flows : f < flow_counter'
      BY <2>1, <2>3, <3>2, <3>3, <3>4 DEF Whole
    <3>6. ASSUME NEW i \in DOMAIN toAdapter, toAdapter[i].signal = "NewFlow"
          PROVE /\ toAdapter[i].flow < flow_counter'
                /\ toAdapter[i].flow # flow_counter
                /\ Finished(toAdapter[i].switch, toAdapter[i].flow)'
      <4>1. toAdapter[i].flow < flow_counter /\ toAdapter[i].flow \in Nat
        BY <2>4, <3>6 DEF Whole
      <4>2. toAdapter[i].flow # flow_counter /\ toAdapter[i].flow < flow_counter'
        BY <2>1, <4>1
      <4>3. Finished(toAdapter[i].switch, toAdapter[i].flow) BY <3>6 DEF Whole
      <4>4. PICK x, y : x = toAdapter[i].switch /\ y = toAdapter[i].flow OBVIOUS
      <4>5. Finished(x, y)' BY <3>2, <3>3, <4>2, <4>3, <4>4, PutFinished
      <4>6. x = toAdapter'[i].switch /\ y = toAdapter'[i].flow BY <2>1, <4>4
      <4> QED BY <4>2, <4>4, <4>5, <4>6 DEF Finished, HasFlow
    <3>7. app'.pc = "fill" /\ app'.flow < flow_counter' /\ app'.flow = flow_counter
      BY <2>1, <3>1
    <3>8. UNCHANGED <<toAdapter, appStarts>> /\ ModsAreWhole' BY <2>1 DEF Whole, ModsAreWhole
    <3>9. \A i \in DOMAIN toAdapter' : toAdapter'[i].signal = "NewFlow" =>
             toAdapter'[i].flow < flow_counter' /\ toAdapter'[i].flow # app'.flow
      BY <3>6, <3>7, <3>8
    <3>10. (\A i \in DOMAIN toAdapter : toAdapter[i].signal = "NewFlow" =>
              Finished(toAdapter[i].switch, toAdapter[i].flow))'
      BY <3>6, <3>8
    <3> QED BY <3>5, <3>7, <3>8, <3>9, <3>10 DEF Whole
  <2> QED BY <2>5, <2>6
<1>11. CASE AppFill
  <2>1. UNCHANGED <<toAdapter, flow_counter, appStarts, mods>>
    BY <1>11 DEF AppFill, AppKeeps, busVars
  <2>2. /\ app \in [pc : {"fill", "announce"}, switch : Names, pkt : Packets, flow : Nat]
        /\ SwitchOf[app.pkt.conn] = app.switch /\ app.pc = "fill"
    BY <1>11 DEF AppFill, AppTypeOK, Idle
  <2>3. CASE ~HasFlow(app.switch, app.flow)
    <3>1. app' = Idle /\ UNCHANGED dirs BY <1>11, <2>3 DEF AppFill, AfterFill
    <3>2. \A m, g : Finished(m, g)' <=> Finished(m, g) BY <3>1 DEF Finished, HasFlow
    <3> QED BY <2>1, <3>1, <3>2 DEF Whole, ModsAreWhole, Idle
  <2>4. CASE HasFlow(app.switch, app.flow)
    <3>1. app.switch \in DOMAIN dirs /\ app.flow \in DOMAIN dirs[app.switch].flows
      BY <2>4 DEF HasFlow
    <3>2. flowHasBufferId \in BOOLEAN BY NetworkAssumption DEF LifeOK
    <3>3. PICK n \in DOMAIN dirs, f \in Nat, q \in Packets, b \in BOOLEAN :
             n = app.switch /\ f = app.flow /\ q = app.pkt /\ b = flowHasBufferId
      BY <2>2, <3>1, <3>2
    <3>4. /\ DOMAIN dirs' = DOMAIN dirs
          /\ \A m \in DOMAIN dirs \ {n} : dirs'[m] = dirs[m]
          /\ dirs'[n].flows = Put(dirs[n].flows, f, Flow(q, b))
      <4>1. SwitchOf[q.conn] = n BY <2>2, <3>3
      <4>2. dirs' = [dirs EXCEPT ![n].flows = Put(@, f, Flow(q, b))]
        BY <1>11, <2>4, <3>3 DEF AppFill
      <4> QED BY <4>1, <4>2, FlowPut
    <3>5. \A m \in DOMAIN dirs : DOMAIN dirs'[m].flows = DOMAIN dirs[m].flows
      BY <3>1, <3>3, <3>4 DEF Put
    <3>6. b => Finished(n, f)' BY <3>4 DEF Finished, HasFlow, Put, Flow
    <3>7. app' = IF b THEN [app EXCEPT !.pc = "announce"] ELSE Idle
      BY <1>11, <2>4, <3>3 DEF AppFill, AfterFill
    <3>8. \/ ~b /\ app'.pc = "idle"
          \/ b /\ app'.pc = "announce" /\ app'.flow = f /\ app'.switch = n
      BY <2>2, <3>3, <3>7 DEF Idle
    <3> SUFFICES ASSUME appStarts = 1 PROVE Whole' BY <2>1 DEF Whole
    <3>9. \A m \in DOMAIN dirs' : \A g \in DOMAIN dirs'[m].flows : g < flow_counter'
      BY <2>1, <3>4, <3>5 DEF Whole
    <3>10. ASSUME NEW i \in DOMAIN toAdapter, toAdapter[i].signal = "NewFlow"
           PROVE /\ toAdapter[i].flow < flow_counter'
                 /\ Finished(toAdapter[i].switch, toAdapter[i].flow)'
      <4>1. toAdapter[i].flow < flow_counter' /\ toAdapter[i].flow # f
        BY <2>1, <2>2, <3>3, <3>10 DEF Whole
      <4>2. Finished(toAdapter[i].switch, toAdapter[i].flow) BY <3>10 DEF Whole
      <4>3. PICK x, y : x = toAdapter[i].switch /\ y = toAdapter[i].flow OBVIOUS
      <4>4. Finished(x, y)' BY <3>4, <4>1, <4>2, <4>3, PutFinished
      <4>5. x = toAdapter'[i].switch /\ y = toAdapter'[i].flow BY <2>1, <4>3
      <4> QED BY <4>1, <4>3, <4>4, <4>5 DEF Finished, HasFlow
    <3>11. f < flow_counter' BY <2>1, <2>2, <3>3 DEF Whole
    <3>12. app'.pc = "announce" => Finished(app.switch, app.flow)'
      <4> SUFFICES ASSUME app'.pc = "announce" PROVE Finished(app.switch, app.flow)'
        OBVIOUS
      <4>1. app'.flow = f /\ app'.switch = n /\ Finished(n, f)' BY <3>6, <3>8
      <4> QED BY <4>1 DEF Finished, HasFlow
    <3> QED BY <2>1, <3>8, <3>9, <3>10, <3>11, <3>12 DEF Whole, ModsAreWhole
  <2> QED BY <2>3, <2>4
<1>12. CASE AppAnnounce
  <2>1. UNCHANGED <<dirs, flow_counter, appStarts, mods>> /\ app' = Idle
    BY <1>12 DEF AppAnnounce, AppKeeps
  <2>2. \A n, f : Finished(n, f)' <=> Finished(n, f) BY <2>1 DEF Finished, HasFlow
  <2>3. \A i \in DOMAIN toAdapter' :
           \/ i \in DOMAIN toAdapter /\ toAdapter'[i] = toAdapter[i]
           \/ toAdapter'[i] = [signal |-> "NewFlow", switch |-> app.switch, flow |-> app.flow]
    BY <1>12 DEF AppAnnounce, BusOK
  <2>4. app.pc = "announce" BY <1>12 DEF AppAnnounce
  <2>5. appStarts = 1 =>
          \A i \in DOMAIN toAdapter' : toAdapter'[i].signal = "NewFlow" =>
             /\ toAdapter'[i].flow < flow_counter
             /\ Finished(toAdapter'[i].switch, toAdapter'[i].flow)
    BY <2>3, <2>4 DEF Whole
  <2> QED BY <2>1, <2>2, <2>5 DEF Whole, ModsAreWhole, Idle
<1>13. ASSUME NEW n \in Names, NEW s \in {"FlowMod", "PacketOut"}, OtherSignal(n, s)
       PROVE Whole'
  <2>1. UNCHANGED <<dirs, app, flow_counter, appStarts, mods>>
    BY <1>13 DEF OtherSignal, appVars
  <2>2. \A i \in DOMAIN toAdapter' :
           \/ i \in DOMAIN toAdapter /\ toAdapter'[i] = toAdapter[i]
           \/ toAdapter'[i] = [signal |-> s, switch |-> n]
    BY <1>13 DEF OtherSignal, BusOK
  <2>3. NoNewFlows /\ NoNewSignals BY <2>1, <2>2 DEF NoNewFlows, NoNewSignals
  <2> QED BY <2>1, <2>3, WholeKept
<1>14. CASE Start BY <1>1, <1>14 DEF Start, busVars, appVars
<1>15. CASE AppRestart
  <2>1. appStarts' # 1 BY <1>15 DEF AppRestart, LifeOK
  <2> QED BY <2>1 DEF Whole
<1>16. UNCHANGED vars => UNCHANGED <<dirs, toAdapter, app, flow_counter, appStarts, mods>>
  BY DEF vars, busVars, appVars
<1> HIDE DEF TInv
<1> QED BY <1>1, <1>2, <1>3, <1>4, <1>5, <1>6, <1>7, <1>8, <1>9, <1>10, <1>11, <1>12, <1>13,
           <1>14, <1>15, <1>16, StepCases, Zenon

\* In the application's first life no FLOW_MOD is sent from a flow directory
\* that was made but not filled: YFlowMod announces it after
\* create_from_packet_in() wrote buffer_id, and no later flow has its number.
THEOREM OnlyWholeFlowsSent == Spec => []ModsAreWhole
<1>1. Init => Whole BY DEF Init, Whole, Idle, ModsAreWhole
<1>2. Whole => ModsAreWhole BY DEF Whole, ModsAreWhole
<1> QED BY <1>1, <1>2, WholeStep, TInvAlways, PTL DEF Spec

-----------------------------------------------------------------------------
(* Exceptions *)

OnePerSwitch == \A c, d \in Conns : SwitchOf[c] = SwitchOf[d] => c = d

\* Switch n was there and is not any more.
Left(n) == \A c \in Conns : SwitchOf[c] = n => conn[c] = "closed"

\* Whatever a callback will look for is there, or its switch has left.
Found ==
    /\ adapter # "uncaught"
    /\ \A c \in Conns : switches[c] = "set" =>
          SwitchOf[c] \in DOMAIN dirs /\ ports[c] \subseteq dirs[SwitchOf[c]].ports
    /\ \A c \in Conns : switches[c] # "set" => ports[c] = {}
    /\ \A i \in DOMAIN toAdapter :
          /\ toAdapter[i].signal = "NewFlow" =>
                HasFlow(toAdapter[i].switch, toAdapter[i].flow) \/ Left(toAdapter[i].switch)
          /\ toAdapter[i].signal = "PacketOut" =>
                toAdapter[i].switch \in DOMAIN dirs \/ Left(toAdapter[i].switch)
    /\ app.pc = "announce" => HasFlow(app.switch, app.flow) \/ Left(app.switch)

\* Directories and flows stay, unless their switch leaves.
DirsStay ==
    \A n : n \in DOMAIN dirs =>
        \/ /\ n \in DOMAIN dirs'
           /\ dirs[n].ports \subseteq dirs'[n].ports
           /\ DOMAIN dirs[n].flows \subseteq DOMAIN dirs'[n].flows
        \/ Left(n)'

NobodyReturns == \A c \in Conns : conn[c] = "closed" => conn'[c] = "closed"

\* Every signal is an old one.
SignalsOld ==
    \A i \in DOMAIN toAdapter' : \E j \in DOMAIN toAdapter : toAdapter[j] = toAdapter'[i]

LEMMA HereStays ==
    ASSUME DirsStay, NobodyReturns, NEW n, NEW f
    PROVE /\ HasFlow(n, f) \/ Left(n) => HasFlow(n, f)' \/ Left(n)'
          /\ n \in DOMAIN dirs \/ Left(n) => n \in DOMAIN dirs' \/ Left(n)'
BY DEF DirsStay, NobodyReturns, HasFlow, Left

\* A step after which switches have their directories and the application its
\* flow, while signals are old ones.
LEMMA FoundAfter ==
    ASSUME Found, DirsStay, NobodyReturns, SignalsOld, adapter' # "uncaught",
           \A c \in Conns : switches'[c] = "set" =>
               SwitchOf[c] \in DOMAIN dirs' /\ ports'[c] \subseteq dirs'[SwitchOf[c]].ports,
           \A c \in Conns : switches'[c] # "set" => ports'[c] = {},
           (app.pc = "announce" => HasFlow(app.switch, app.flow) \/ Left(app.switch))'
    PROVE Found'
<1>1. (\A i \in DOMAIN toAdapter :
          /\ toAdapter[i].signal = "NewFlow" =>
                HasFlow(toAdapter[i].switch, toAdapter[i].flow) \/ Left(toAdapter[i].switch)
          /\ toAdapter[i].signal = "PacketOut" =>
                toAdapter[i].switch \in DOMAIN dirs \/ Left(toAdapter[i].switch))'
  <2> SUFFICES ASSUME NEW i \in DOMAIN toAdapter'
               PROVE (/\ toAdapter[i].signal = "NewFlow" =>
                            \/ HasFlow(toAdapter[i].switch, toAdapter[i].flow)
                            \/ Left(toAdapter[i].switch)
                      /\ toAdapter[i].signal = "PacketOut" =>
                            \/ toAdapter[i].switch \in DOMAIN dirs
                            \/ Left(toAdapter[i].switch))'
    OBVIOUS
  <2>1. PICK j \in DOMAIN toAdapter : toAdapter[j] = toAdapter'[i] BY DEF SignalsOld
  <2>2. PICK n, f : n = toAdapter[j].switch /\ f = toAdapter[j].flow OBVIOUS
  <2>3. /\ toAdapter[j].signal = "NewFlow" => HasFlow(n, f) \/ Left(n)
        /\ toAdapter[j].signal = "PacketOut" => n \in DOMAIN dirs \/ Left(n)
    BY <2>2 DEF Found
  <2>4. /\ toAdapter[j].signal = "NewFlow" => HasFlow(n, f)' \/ Left(n)'
        /\ toAdapter[j].signal = "PacketOut" => n \in DOMAIN dirs' \/ Left(n)'
    BY <2>3, HereStays
  <2> QED BY <2>1, <2>2, <2>4 DEF HasFlow, Left
<1> QED BY <1>1 DEF Found

\* The same for a step that registers nobody and leaves the application alone.
LEMMA FoundKept ==
    ASSUME Found, DirsStay, NobodyReturns, SignalsOld, UNCHANGED app,
           adapter' # "uncaught",
           \A c \in Conns : switches'[c] = "set" =>
               switches[c] = "set" /\ conn'[c] # "closed" /\ ports'[c] = ports[c],
           \A c \in Conns : switches'[c] # "set" => ports'[c] = {}
    PROVE Found'
<1>1. ASSUME NEW c \in Conns, switches'[c] = "set"
      PROVE SwitchOf[c] \in DOMAIN dirs' /\ ports'[c] \subseteq dirs'[SwitchOf[c]].ports
  <2>1. ~Left(SwitchOf[c])' BY <1>1 DEF Left
  <2> QED BY <1>1, <2>1 DEF Found, DirsStay
<1>2. (app.pc = "announce" => HasFlow(app.switch, app.flow) \/ Left(app.switch))'
  <2>1. PICK n, f : n = app.switch /\ f = app.flow OBVIOUS
  <2>2. app.pc = "announce" => HasFlow(n, f) \/ Left(n) BY <2>1 DEF Found
  <2>3. app.pc = "announce" => HasFlow(n, f)' \/ Left(n)' BY <2>2, HereStays
  <2> QED BY <2>1, <2>3 DEF HasFlow, Left
<1> QED BY <1>1, <1>2, FoundAfter

\* No callback throws.
LEMMA NothingThrown ==
    ASSUME TInv, Found, OnePerSwitch, NEW c \in Conns, NEW p, NEW i, NEW s,
           HandlePacketDies(c, p, i) \/ NewFlowDies(s) \/ NewPacketOutDies(s)
    PROVE adapter' # "uncaught"
<1>1. CASE HandlePacketDies(c, p, i)
  <2>1. ~Ignored(c) /\ (p \in ports[c] => adapter' = "uncaught" /\ ~HasPort(SwitchOf[c], p))
        /\ (p \notin ports[c] => adapter' = "null_port")
    BY <1>1 DEF HandlePacketDies, Die
  <2>2. switches[c] = "set" BY <2>1 DEF Ignored
  <2>3. p \in ports[c] => HasPort(SwitchOf[c], p) BY <2>2 DEF Found, HasPort
  <2> QED BY <2>1, <2>3
<1>2. CASE NewFlowDies(s) \/ NewPacketOutDies(s)
  <2>1. /\ Signalled(s) /\ Registered(s.switch) # {}
        /\ s.signal \in {"NewFlow", "PacketOut"}
        /\ \/ adapter' # "uncaught"
           \/ s.signal = "NewFlow" /\ ~HasFlow(s.switch, s.flow)
           \/ s.signal = "PacketOut" /\ s.switch \notin DOMAIN dirs
    BY <1>2 DEF NewFlowDies, NewPacketOutDies, SendDies, Die
  <2>2. PICK d \in Conns : switches[d] = "set" /\ SwitchOf[d] = s.switch
    BY <2>1 DEF Registered
  <2>3. ~Left(s.switch) BY <2>2 DEF Left, TInv, SwitchesOK
  <2>4. 1 \in DOMAIN toAdapter /\ toAdapter[1] = s
    BY <2>1 DEF Signalled, TInv, BusOK
  <2> QED BY <2>1, <2>3, <2>4 DEF Found
<1> QED BY <1>1, <1>2

LEMMA OtherEnds ==
    ASSUME NEW c \in Conns, NEW s, NEW e,
           \/ Terminate \/ AcceptDies(c) \/ HandleHelloDies(c) \/ HandleEchoDies(c)
           \/ HandleErrorDies(c, e) \/ SignalMeetsNull(s)
    PROVE adapter' # "uncaught"
BY DEF Terminate, AcceptDies, HandleHelloDies, HandleEchoDies, HandleErrorDies,
       SignalMeetsNull, SendDies, Die

\* A step after which the adapter is not up was the end of it, and none of
\* them is an exception.
LEMMA NeverUncaught ==
    ASSUME TInv, Found, OnePerSwitch, Next
    PROVE adapter' # "uncaught"
<1> SUFFICES ASSUME adapter' = "uncaught" PROVE FALSE OBVIOUS
<1>1. adapter' # adapter /\ adapter' # "up" BY DEF Found
<1>2. ASSUME NEW c \in Conns, Deliver(c) PROVE FALSE
  <2>1. \/ AcceptDies(c) \/ HandleHelloDies(c) \/ HandleEchoDies(c)
        \/ \E e : HandleErrorDies(c, e)
        \/ \E p, i : HandlePacketDies(c, p, i)
    BY <1>1, <1>2 DEF Deliver, Accept, HandleHello, HandleOther, HandleFeatures,
       HandlePacketIgnored, HandlePacketIn, Closed, adapterVars
  <2> QED BY <2>1, OtherEnds, NothingThrown
<1>3. ASSUME Dispatch PROVE FALSE
  <2>1. PICK s : SignalMeetsNull(s) \/ NewFlowDies(s) \/ NewPacketOutDies(s)
    BY <1>1, <1>3 DEF Dispatch, SignalIgnored, NewFlow, NewPacketOut, adapterVars
  <2>2. \E c \in Conns : TRUE
    BY <2>1, NetworkAssumption
    DEF SignalMeetsNull, NewFlowDies, NewPacketOutDies, MeetsNull, Registered
  <2> QED BY <2>1, <2>2, OtherEnds, NothingThrown
<1>4. ~AppStep
  BY <1>1 DEF AppStep, AppLoad, AppMake, AppFill, AppAnnounce, AppKeeps, adapterVars
<1>5. ASSUME Environment PROVE FALSE
  <2>1. Terminate
    BY <1>1, <1>5 DEF Environment, Start, AppRestart, Connect, SwitchSends, SwitchAnswers,
       SwitchLeaves, OtherSignal, adapterVars
  <2> QED BY <1>1, <2>1 DEF Terminate, Die
<1> QED BY <1>2, <1>3, <1>4, <1>5 DEF Next

LEMMA SetStays ==
    ASSUME TInv, Found, DirsStay, UNCHANGED <<switches, ports, conn>>,
           NEW c \in Conns, switches[c] = "set"
    PROVE SwitchOf[c] \in DOMAIN dirs' /\ ports[c] \subseteq dirs'[SwitchOf[c]].ports
<1>1. ~Left(SwitchOf[c])' BY DEF Left, TInv, SwitchesOK
<1> QED BY <1>1 DEF Found, DirsStay

LEMMA FoundStep ==
    ASSUME TInv, Found, OnePerSwitch, [Next]_vars
    PROVE Found'
<1> USE DEF TInv
<1>1. adapter' # "uncaught"
  BY NeverUncaught DEF vars, adapterVars, Found
<1>2. CASE UNCHANGED <<switches, ports, conn, dirs, toAdapter, app>>
  <2>1. DirsStay /\ NobodyReturns /\ SignalsOld
    BY <1>2 DEF DirsStay, NobodyReturns, SignalsOld
  <2> QED BY <1>1, <1>2, <2>1, FoundKept DEF SwitchesOK, Found
<1>3. CASE Quiet
  <2>1. DirsStay /\ NobodyReturns /\ SignalsOld
    BY <1>3, QuietKeeps DEF DirsStay, NobodyReturns, SignalsOld
  <2>2. SwitchesOK' BY TInvStep DEF TInv
  <2>3. \A c \in Conns : /\ switches'[c] = "set" <=> switches[c] = "set"
                         /\ switches'[c] = "set" => conn'[c] # "closed"
                         /\ ports'[c] = ports[c]
    BY <1>3, <2>2, QuietKeeps DEF SwitchesOK
  <2>4. UNCHANGED app BY <1>3, QuietKeeps
  <2> QED BY <1>1, <2>1, <2>3, <2>4, FoundKept DEF Found
<1>4. CASE Ends
  <2>1. DirsStay /\ NobodyReturns /\ SignalsOld
    BY <1>4, DieKeeps DEF DirsStay, NobodyReturns, SignalsOld
  <2>2. \A c \in Conns : switches'[c] # "set" /\ ports'[c] = {}
    BY <1>4 DEF Ends, Die
  <2>3. UNCHANGED app BY <1>4, DieKeeps
  <2> QED BY <1>1, <2>1, <2>2, <2>3, FoundKept
<1>5. ASSUME NEW c \in Conns, NEW k \in FeatureKinds, HandleFeatures(c, k)
      PROVE Found'
  <2>1. UNCHANGED <<conn, toAdapter, app>> /\ SwitchOf[c] \in Names
    BY <1>5 DEF HandleFeatures, busVars, appVars, Names
  <2>2. CASE switches[c] = "set"
    BY <1>2, <1>5, <2>1, <2>2 DEF HandleFeatures
  <2>3. CASE switches[c] # "set"
    <3>1. /\ dirs' = DirsAfterFeatures(SwitchOf[c], k)
          /\ switches' = IF k = "bad_ports" THEN Touched(c)
                         ELSE [switches EXCEPT ![c] = "set"]
          /\ ports' = IF k = "good" THEN [ports EXCEPT ![c] = Ports] ELSE ports
      BY <1>5, <2>3 DEF HandleFeatures
    <3>2. Grown(dirs') BY <2>1, <3>1, FeaturesDirs
    <3>3. DirsStay BY <3>2 DEF Grown, DirsStay
    <3>4. NobodyReturns BY <2>1 DEF NobodyReturns
    <3>5. \A d \in Conns : d # c => /\ switches'[d] = switches[d]
                                    /\ ports'[d] = ports[d]
      BY <3>1, TouchedLemma DEF SwitchesOK
    <3>6. switches'[c] = "set" =>
             SwitchOf[c] \in DOMAIN dirs' /\ ports'[c] \subseteq dirs'[SwitchOf[c]].ports
      <4>1. CASE k = "bad_ports" BY <2>3, <3>1, <4>1, TouchedLemma DEF SwitchesOK
      <4>2. CASE k = "good"
        <5>1. SwitchOf[c] \in DOMAIN dirs' /\ Ports \subseteq dirs'[SwitchOf[c]].ports
          BY <2>1, <3>1, <4>2, FeaturesDirs
        <5>2. ports'[c] = Ports BY <3>1, <4>2 DEF SwitchesOK
        <5> QED BY <5>1, <5>2
      <4>3. CASE k \notin {"good", "bad_ports"}
        <5>1. ports'[c] = {} BY <2>3, <3>1, <4>3 DEF Found
        <5> QED BY <2>1, <3>1, <4>3, <5>1, FeaturesDirs
      <4> QED BY <4>1, <4>2, <4>3
    <3>7. switches'[c] # "set" => ports'[c] = {}
      <4>1. CASE k = "bad_ports" BY <2>3, <3>1, <4>1 DEF Found
      <4>2. CASE k # "bad_ports" BY <3>1, <4>2 DEF SwitchesOK
      <4> QED BY <4>1, <4>2
    <3>8. \A d \in Conns : switches'[d] = "set" =>
             SwitchOf[d] \in DOMAIN dirs' /\ ports'[d] \subseteq dirs'[SwitchOf[d]].ports
      <4> SUFFICES ASSUME NEW d \in Conns, switches'[d] = "set", d # c
                   PROVE SwitchOf[d] \in DOMAIN dirs'
                         /\ ports'[d] \subseteq dirs'[SwitchOf[d]].ports
        BY <3>6
      <4>1. SwitchOf[d] \in DOMAIN dirs /\ ports[d] \subseteq dirs[SwitchOf[d]].ports
        BY <3>5 DEF Found
      <4> QED BY <3>2, <3>5, <4>1 DEF Grown
    <3>9. (app.pc = "announce" => HasFlow(app.switch, app.flow) \/ Left(app.switch))'
      <4>1. PICK n, f : n = app.switch /\ f = app.flow OBVIOUS
      <4>2. app.pc = "announce" => HasFlow(n, f) \/ Left(n) BY <4>1 DEF Found
      <4>3. app.pc = "announce" => HasFlow(n, f)' \/ Left(n)'
        BY <3>3, <3>4, <4>2, HereStays
      <4> QED BY <2>1, <4>1, <4>3 DEF HasFlow, Left
    <3>10. \A d \in Conns : switches'[d] # "set" => ports'[d] = {}
      BY <3>5, <3>7 DEF Found
    <3>11. SignalsOld BY <2>1 DEF SignalsOld
    <3> QED BY <1>1, <3>3, <3>4, <3>8, <3>9, <3>10, <3>11, FoundAfter
  <2> QED BY <2>2, <2>3
<1>6. ASSUME NEW c \in Conns, NEW p, NEW i \in 1 .. MaxMsgs, HandlePacketIn(c, p, i)
      PROVE Found'
  <2>1. UNCHANGED <<switches, ports, conn, toAdapter, app>>
    BY <1>6 DEF HandlePacketIn, appVars
  <2>2. PICK g : dirs' = [dirs EXCEPT ![SwitchOf[c]].packet_in = g]
    BY <1>6 DEF HandlePacketIn
  <2>3. \A n \in DOMAIN dirs : dirs'[n].flows = dirs[n].flows /\ dirs'[n].ports = dirs[n].ports
    <3>1. \A n \in DOMAIN dirs :
             dirs[n] = [ports |-> dirs[n].ports, packet_in |-> dirs[n].packet_in,
                        flows |-> dirs[n].flows]
      BY DEF DirsOK, DirOK
    <3> QED BY <2>2, <3>1
  <2>4. DirsStay /\ NobodyReturns /\ SignalsOld
    BY <2>1, <2>2, <2>3 DEF DirsStay, NobodyReturns, SignalsOld
  <2> QED BY <1>1, <2>1, <2>4, FoundKept DEF SwitchesOK, Found
<1>7. ASSUME NEW c \in Conns, Closed(c) PROVE Found'
  <2>1. /\ UNCHANGED <<toAdapter, app>>
        /\ conn' = [conn EXCEPT ![c] = "closed"] /\ ports' = [ports EXCEPT ![c] = {}]
        /\ dirs' = dirs \/ dirs' = Drop(dirs, SwitchOf[c])
        /\ switches' = SwitchesAfterClosed(c)
    BY <1>7 DEF Closed, busVars, appVars, DirsAfterClosed
  <2>2. Left(SwitchOf[c])' BY <2>1 DEF Left, OnePerSwitch, SwitchesOK
  <2>3. DirsStay BY <2>1, <2>2 DEF DirsStay, Drop
  <2>4. NobodyReturns /\ SignalsOld BY <2>1 DEF NobodyReturns, SignalsOld, SwitchesOK
  <2>5. switches'[c] # "set" /\ \A d \in Conns \ {c} : switches'[d] = switches[d]
    BY <2>1, TouchedLemma DEF SwitchesAfterClosed, SwitchesOK
  <2>6. ports'[c] = {} /\ \A d \in Conns \ {c} : ports'[d] = ports[d] /\ conn'[d] = conn[d]
    BY <2>1 DEF SwitchesOK
  <2> QED BY <1>1, <2>1, <2>3, <2>4, <2>5, <2>6, FoundKept DEF SwitchesOK, Found
<1>8. ASSUME NEW s, SignalIgnored(s) \/ NewPacketOut(s) \/ NewFlow(s) PROVE Found'
  <2>1. /\ Signalled(s) /\ toAdapter' = Tail(toAdapter)
        /\ UNCHANGED <<switches, ports, conn, dirs, app>>
    BY <1>8 DEF SignalIgnored, NewPacketOut, NewFlow, adapterVars, connVars, appVars
  <2>2. SignalsOld BY <2>1 DEF SignalsOld, Signalled, BusOK
  <2>3. DirsStay /\ NobodyReturns BY <2>1 DEF DirsStay, NobodyReturns
  <2> QED BY <1>1, <2>1, <2>2, <2>3, FoundKept DEF SwitchesOK, Found
<1>9. CASE AppLoad
  <2>1. UNCHANGED <<switches, ports, conn, dirs, toAdapter>> /\ app'.pc # "announce"
    BY <1>9 DEF AppLoad, AppKeeps, adapterVars, connVars, Idle
  <2> QED BY <1>1, <2>1 DEF Found, HasFlow, Left
<1>10. CASE AppMake
  <2>1. UNCHANGED <<switches, ports, conn, toAdapter>> /\ app'.pc # "announce"
    BY <1>10 DEF AppMake, AppKeeps, AfterMake, adapterVars, connVars, busVars, Idle
  <2>2. DirsStay
    <3>1. CASE UNCHANGED dirs BY <3>1 DEF DirsStay
    <3>2. CASE ~UNCHANGED dirs
      <4>1. /\ app.switch \in DOMAIN dirs
            /\ dirs' = [dirs EXCEPT ![app.switch].flows =
                           Put(@, flow_counter, Flow(app.pkt, FALSE))]
            /\ app \in [pc : {"make"}, switch : Names, pkt : Packets]
            /\ SwitchOf[app.pkt.conn] = app.switch
        BY <1>10, <3>2 DEF AppMake, AppTypeOK, Idle
      <4>2. PICK n \in DOMAIN dirs, k \in Nat, q \in Packets, b \in BOOLEAN :
               n = app.switch /\ k = flow_counter /\ q = app.pkt /\ b = FALSE
        BY <4>1 DEF LifeOK
      <4>3. dirs' = [dirs EXCEPT ![n].flows = Put(@, k, Flow(q, b))] /\ SwitchOf[q.conn] = n
        BY <4>1, <4>2
      <4>4. /\ DOMAIN dirs' = DOMAIN dirs
            /\ \A m \in DOMAIN dirs \ {n} : dirs'[m] = dirs[m]
            /\ dirs'[n].flows = Put(dirs[n].flows, k, Flow(q, b))
            /\ dirs'[n].ports = dirs[n].ports
        BY <4>3, FlowPut
      <4> QED BY <4>4 DEF DirsStay, Put
    <3> QED BY <3>1, <3>2
  <2>3. NobodyReturns /\ SignalsOld BY <2>1 DEF NobodyReturns, SignalsOld
  <2>4. \A c \in Conns : switches'[c] = "set" =>
           SwitchOf[c] \in DOMAIN dirs' /\ ports'[c] \subseteq dirs'[SwitchOf[c]].ports
    BY <2>1, <2>2, SetStays
  <2>5. \A c \in Conns : switches'[c] # "set" => ports'[c] = {} BY <2>1 DEF Found
  <2> QED BY <1>1, <2>1, <2>2, <2>3, <2>4, <2>5, FoundAfter
<1>11. CASE AppFill
  <2>1. UNCHANGED <<switches, ports, conn, toAdapter>>
    BY <1>11 DEF AppFill, AppKeeps, adapterVars, connVars, busVars
  <2>2. /\ app \in [pc : {"fill", "announce"}, switch : Names, pkt : Packets, flow : Nat]
        /\ SwitchOf[app.pkt.conn] = app.switch
    BY <1>11 DEF AppFill, AppTypeOK, Idle
  <2>3. CASE ~HasFlow(app.switch, app.flow)
    <3>1. UNCHANGED dirs /\ app'.pc # "announce" BY <1>11, <2>3 DEF AppFill, AfterFill, Idle
    <3> QED BY <1>1, <2>1, <3>1 DEF Found, HasFlow, Left
  <2>4. CASE HasFlow(app.switch, app.flow)
    <3>1. PICK n \in DOMAIN dirs, k \in Nat, q \in Packets, b \in BOOLEAN :
             n = app.switch /\ k = app.flow /\ q = app.pkt /\ b = flowHasBufferId
      BY <2>2, <2>4, NetworkAssumption DEF LifeOK, HasFlow
    <3>2. dirs' = [dirs EXCEPT ![n].flows = Put(@, k, Flow(q, b))] /\ SwitchOf[q.conn] = n
      BY <1>11, <2>2, <2>4, <3>1 DEF AppFill
    <3>3. /\ DOMAIN dirs' = DOMAIN dirs
          /\ \A m \in DOMAIN dirs \ {n} : dirs'[m] = dirs[m]
          /\ dirs'[n].flows = Put(dirs[n].flows, k, Flow(q, b))
          /\ dirs'[n].ports = dirs[n].ports
      BY <3>2, FlowPut
    <3>4. DirsStay BY <3>3 DEF DirsStay, Put
    <3>5. HasFlow(n, k)' BY <3>3 DEF HasFlow, Put
    <3>6. app'.pc = "announce" => app'.switch = n /\ app'.flow = k
      BY <1>11, <2>2, <2>4, <3>1 DEF AppFill, AfterFill, Idle
    <3>7. NobodyReturns /\ SignalsOld BY <2>1 DEF NobodyReturns, SignalsOld
    <3>8. (app.pc = "announce" => HasFlow(app.switch, app.flow) \/ Left(app.switch))'
      BY <3>5, <3>6 DEF HasFlow
    <3>9. \A c \in Conns : switches'[c] = "set" =>
             SwitchOf[c] \in DOMAIN dirs' /\ ports'[c] \subseteq dirs'[SwitchOf[c]].ports
      BY <2>1, <3>4, SetStays
    <3>10. \A c \in Conns : switches'[c] # "set" => ports'[c] = {} BY <2>1 DEF Found
    <3> QED BY <1>1, <3>4, <3>7, <3>8, <3>9, <3>10, FoundAfter
  <2> QED BY <2>3, <2>4
<1>12. CASE AppAnnounce
  <2>1. UNCHANGED <<switches, ports, conn, dirs>> /\ app'.pc # "announce"
    BY <1>12 DEF AppAnnounce, AppKeeps, adapterVars, connVars, Idle
  <2>2. \A i \in DOMAIN toAdapter' :
           \/ i \in DOMAIN toAdapter /\ toAdapter'[i] = toAdapter[i]
           \/ toAdapter'[i] = [signal |-> "NewFlow", switch |-> app.switch, flow |-> app.flow]
    BY <1>12 DEF AppAnnounce, BusOK
  <2>3. HasFlow(app.switch, app.flow) \/ Left(app.switch)
    BY <1>12 DEF AppAnnounce, Found
  <2>4. \A i \in DOMAIN toAdapter' :
          /\ toAdapter'[i].signal = "NewFlow" =>
                HasFlow(toAdapter'[i].switch, toAdapter'[i].flow) \/ Left(toAdapter'[i].switch)
          /\ toAdapter'[i].signal = "PacketOut" =>
                toAdapter'[i].switch \in DOMAIN dirs \/ Left(toAdapter'[i].switch)
    BY <2>2, <2>3 DEF Found
  <2> QED BY <1>1, <2>1, <2>4 DEF Found, HasFlow, Left
<1>13. ASSUME NEW n \in Names, NEW t \in {"FlowMod", "PacketOut"}, OtherSignal(n, t)
       PROVE Found'
  <2>1. UNCHANGED <<switches, ports, conn, dirs, app>> /\ n \in DOMAIN dirs
    BY <1>13 DEF OtherSignal, adapterVars, connVars, appVars
  <2>2. \A i \in DOMAIN toAdapter' :
           \/ i \in DOMAIN toAdapter /\ toAdapter'[i] = toAdapter[i]
           \/ toAdapter'[i] = [signal |-> t, switch |-> n]
    BY <1>13 DEF OtherSignal, BusOK
  <2>3. \A i \in DOMAIN toAdapter' :
          /\ toAdapter'[i].signal = "NewFlow" =>
                HasFlow(toAdapter'[i].switch, toAdapter'[i].flow) \/ Left(toAdapter'[i].switch)
          /\ toAdapter'[i].signal = "PacketOut" =>
                toAdapter'[i].switch \in DOMAIN dirs \/ Left(toAdapter'[i].switch)
    BY <2>1, <2>2 DEF Found
  <2> QED BY <1>1, <2>1, <2>3 DEF Found, HasFlow, Left
<1>14. CASE Start
  BY <1>2, <1>14 DEF Start, connVars, busVars, appVars
<1>15. CASE AppRestart
  <2>1. UNCHANGED <<switches, ports, conn, dirs, toAdapter>> /\ app'.pc # "announce"
    BY <1>15 DEF AppRestart, adapterVars, connVars, Idle
  <2> QED BY <1>1, <2>1 DEF Found, HasFlow, Left
<1>16. UNCHANGED vars => UNCHANGED <<switches, ports, conn, dirs, toAdapter, app>>
  BY DEF vars, adapterVars, connVars, busVars, appVars
<1> HIDE DEF TInv
<1> QED BY <1>2, <1>3, <1>4, <1>5, <1>6, <1>7, <1>8, <1>9, <1>10, <1>11, <1>12, <1>13,
           <1>14, <1>15, <1>16, StepCases, Zenon

\* When each switch has one connection, no callback of the adapter throws past
\* the event loop, whatever the order of signals and ends: a signal for a flow
\* or a packet_out directory that is gone is for a switch that has left, which
\* switch_by_name() does not find.  With a second connection of a switch it is
\* not so.
THEOREM NoExceptions ==
    ASSUME OnePerSwitch
    PROVE Spec => []NothingUncaught
<1>1. Init => Found BY DEF Init, Found, Idle
<1>2. Found => NothingUncaught BY DEF Found, NothingUncaught
<1>3. TInv /\ Found /\ [Next]_vars => Found' BY FoundStep
<1> QED BY <1>1, <1>2, <1>3, TInvAlways, PTL DEF Spec

-----------------------------------------------------------------------------
(* One answer *)

InMessages ==
    [type : {"hello", "echo", "other"}] \cup
    [type : {"packet_in"}, port : Ports \cup NewPorts, nth : Nat] \cup
    [type : {"features_reply"}, kind : FeatureKinds]

\* Packet x of connection c is in a PACKET_IN that is still to come.
Pending(c, x) ==
    \E i \in DOMAIN inq[c] : inq[c][i].type = "packet_in" /\ inq[c][i].nth = x

\* Connections deliver whole messages, and no packet comes twice.
StreamsOK ==
    /\ inq \in [Conns -> Seq(InMessages)]
    /\ nsent \in [Conns -> Nat]
    /\ \A c \in Conns : \A x : Pending(c, x) => x <= nsent[c]
    /\ \A c \in Conns : \A i, j \in DOMAIN inq[c] :
          /\ i # j
          /\ inq[c][i].type = "packet_in" /\ inq[c][j].type = "packet_in"
          => inq[c][i].nth # inq[c][j].nth

\* Packet q came.
Came(q) == q.nth <= nsent[q.conn] /\ ~Pending(q.conn, q.nth)

\* Packets in directories came, once each, and have names given out before.
EntriesOK ==
    /\ \A n \in DOMAIN dirs : \A k \in DOMAIN dirs[n].packet_in :
          Came(dirs[n].packet_in[k]) /\ k[2] <= counter[k[1]]
    /\ \A n, m \in DOMAIN dirs :
          \A k \in DOMAIN dirs[n].packet_in, l \in DOMAIN dirs[m].packet_in :
             dirs[n].packet_in[k] = dirs[m].packet_in[l] => n = m /\ k = l

\* No packet is announced twice.
AnnouncedOnce ==
    /\ \A i \in DOMAIN toApp : toApp[i].packet[2] <= counter[toApp[i].packet[1]]
    /\ \A i, j \in DOMAIN toApp : i # j => toApp[i].packet # toApp[j].packet

InApp(q) == app.pc # "idle" /\ app.pkt = q
InFlow(q, n, f) == HasFlow(n, f) /\ dirs[n].flows[f].pkt = q
InFlows(q) == \E n \in DOMAIN dirs : \E f \in DOMAIN dirs[n].flows : InFlow(q, n, f)
InMods(q) == \E c \in Conns : \E i \in DOMAIN mods[c] : mods[c][i].pkt = q

\* The application has not taken the packet up.
Free(q) == ~InApp(q) /\ ~InFlows(q) /\ ~InMods(q)

\* What was taken up by the application came, and is not announced any more.
TakenOK ==
    /\ \A q \in Packets : Free(q) \/ Came(q)
    /\ \A i \in DOMAIN toApp : HasPacket(toApp[i].switch, toApp[i].packet) =>
          Free(dirs[toApp[i].switch].packet_in[toApp[i].packet])

\* A packet has one flow and a flow number one flow.
FlowsOK ==
    /\ \A n \in DOMAIN dirs : \A f \in DOMAIN dirs[n].flows : f < flow_counter
    /\ \A n, m \in DOMAIN dirs :
          \A f \in DOMAIN dirs[n].flows, g \in DOMAIN dirs[m].flows :
             \/ f = g
             \/ dirs[n].flows[f].pkt = dirs[m].flows[g].pkt
             => n = m /\ f = g

\* What the application works on has no other flow, and was not answered.
AppOK ==
    /\ app.pc = "make" => ~InFlows(app.pkt)
    /\ app.pc \in {"fill", "announce"} =>
          /\ app.flow < flow_counter
          /\ \A n \in DOMAIN dirs : \A f \in DOMAIN dirs[n].flows :
                dirs[n].flows[f].pkt = app.pkt <=> f = app.flow
          /\ \A i \in DOMAIN toAdapter :
                toAdapter[i].signal = "NewFlow" => toAdapter[i].flow # app.flow
    /\ app.pc # "idle" => ~InMods(app.pkt)

\* A flow is announced once, before it is sent.
SignalsOnce ==
    /\ \A i \in DOMAIN toAdapter : toAdapter[i].signal = "NewFlow" =>
          /\ toAdapter[i].flow < flow_counter
          /\ HasFlow(toAdapter[i].switch, toAdapter[i].flow) =>
                ~InMods(dirs[toAdapter[i].switch].flows[toAdapter[i].flow].pkt)
    /\ \A i, j \in DOMAIN toAdapter :
          /\ i # j
          /\ toAdapter[i].signal = "NewFlow" /\ toAdapter[j].signal = "NewFlow"
          => toAdapter[i].flow # toAdapter[j].flow

SentOnce ==
    \A c, d \in Conns : \A i \in DOMAIN mods[c], j \in DOMAIN mods[d] :
        mods[c][i].pkt = mods[d][j].pkt => c = d /\ i = j

FirstLife == starts = 1 /\ appStarts = 1

Once ==
    /\ StreamsOK
    /\ FirstLife => /\ EntriesOK /\ AnnouncedOnce /\ TakenOK /\ FlowsOK
                    /\ AppOK /\ SignalsOnce /\ SentOnce

Answering == /\ EntriesOK /\ AnnouncedOnce /\ TakenOK /\ FlowsOK
             /\ AppOK /\ SignalsOnce /\ SentOnce

\* What came stays so.
CameStays == \A c \in Conns : \A x \in Nat :
    x <= nsent[c] /\ ~Pending(c, x) => x <= nsent'[c] /\ ~Pending(c, x)'

\* Messages are taken from the front of a connection, lost from its end, or
\* added: a PACKET_IN with the next number, or something else.
Fewer(c) ==
    \/ inq' = [inq EXCEPT ![c] = Tail(inq[c])] /\ inq[c] # << >>
    \/ \E k \in 0 .. Len(inq[c]) : inq' = [inq EXCEPT ![c] = SubSeq(inq[c], 1, k)]
    \/ inq' = [inq EXCEPT ![c] = << >>]
    \/ inq' = [inq EXCEPT ![c] = << [type |-> "hello"] >>]
    \/ \E k \in FeatureKinds :
          inq' = [inq EXCEPT ![c] = Append(inq[c], [type |-> "features_reply", kind |-> k])]

LEMMA FewerStreams ==
    ASSUME StreamsOK, NEW c \in Conns, Fewer(c), UNCHANGED nsent
    PROVE StreamsOK' /\ CameStays
<1> DEFINE q == inq[c]
<1>1. q \in Seq(InMessages) BY DEF StreamsOK
<1>2. PICK r \in Seq(InMessages) :
         /\ inq' = [inq EXCEPT ![c] = r]
         /\ \/ r = Tail(q) /\ q # << >>
            \/ \E k \in 0 .. Len(q) : r = SubSeq(q, 1, k)
            \/ r = << >>
            \/ r = << [type |-> "hello"] >>
            \/ \E k \in FeatureKinds : r = Append(q, [type |-> "features_reply", kind |-> k])
  <2>1. [type |-> "hello"] \in InMessages BY DEF InMessages
  <2>2. \A k \in FeatureKinds : [type |-> "features_reply", kind |-> k] \in InMessages
    BY DEF InMessages
  <2> HIDE DEF q
  <2>3. q # << >> => Tail(q) \in Seq(InMessages) BY <1>1
  <2>4. \A k \in 0 .. Len(q) : SubSeq(q, 1, k) \in Seq(InMessages) BY <1>1
  <2>5. \A k \in FeatureKinds :
           Append(q, [type |-> "features_reply", kind |-> k]) \in Seq(InMessages)
    <3> SUFFICES ASSUME NEW k \in FeatureKinds
                 PROVE Append(q, [type |-> "features_reply", kind |-> k]) \in Seq(InMessages)
      OBVIOUS
    <3>1. [type |-> "features_reply", kind |-> k] \in InMessages BY <2>2
    <3> QED BY <1>1, <3>1
  <2>6. << >> \in Seq(InMessages) /\ << [type |-> "hello"] >> \in Seq(InMessages) BY <2>1
  <2> QED BY <2>3, <2>4, <2>5, <2>6 DEF Fewer, q
<1> HIDE DEF q
<1>3. PICK at \in 0 .. 1 : \A i \in DOMAIN r :
         r[i].type = "packet_in" => at + i \in DOMAIN q /\ r[i] = q[at + i]
  <2>1. CASE r = Tail(q) /\ q # << >>
    <3>1. \A i \in DOMAIN r : 1 + i \in DOMAIN q /\ r[i] = q[1 + i] BY <1>1, <2>1
    <3> QED BY <3>1
  <2>2. CASE \E k \in 0 .. Len(q) : r = SubSeq(q, 1, k)
    <3>1. \A i \in DOMAIN r : 0 + i \in DOMAIN q /\ r[i] = q[0 + i] BY <1>1, <2>2
    <3> QED BY <3>1
  <2>3. CASE r = << >> \/ r = << [type |-> "hello"] >>
    <3>1. \A i \in DOMAIN r : r[i].type # "packet_in" BY <2>3
    <3> QED BY <3>1
  <2>4. CASE \E k \in FeatureKinds :
               r = Append(q, [type |-> "features_reply", kind |-> k])
    <3>1. \A i \in DOMAIN r :
             (0 + i \in DOMAIN q /\ r[i] = q[0 + i]) \/ r[i].type # "packet_in"
      BY <1>1, <2>4
    <3> QED BY <3>1
  <2> QED BY <1>2, <2>1, <2>2, <2>3, <2>4
<1>4. inq' \in [Conns -> Seq(InMessages)] /\ nsent' \in [Conns -> Nat]
      /\ inq'[c] = r /\ \A d \in Conns \ {c} : inq'[d] = inq[d]
  BY <1>2 DEF StreamsOK
<1>5. \A d \in Conns : \A x : Pending(d, x)' => Pending(d, x)
  <2> SUFFICES ASSUME NEW d \in Conns, NEW x, Pending(d, x)' PROVE Pending(d, x)
    OBVIOUS
  <2>1. PICK i \in DOMAIN inq'[d] : inq'[d][i].type = "packet_in" /\ inq'[d][i].nth = x
    BY DEF Pending
  <2>2. CASE d = c
    <3>1. at + i \in DOMAIN q /\ r[i] = q[at + i] BY <1>3, <1>4, <2>1, <2>2
    <3> QED BY <1>4, <2>1, <2>2, <3>1 DEF Pending, q
  <2>3. CASE d # c BY <1>4, <2>1, <2>3 DEF Pending
  <2> QED BY <2>2, <2>3
<1>6. ASSUME NEW d \in Conns, NEW i \in DOMAIN inq'[d], NEW j \in DOMAIN inq'[d], i # j,
             inq'[d][i].type = "packet_in", inq'[d][j].type = "packet_in"
      PROVE inq'[d][i].nth # inq'[d][j].nth
  <2>1. CASE d = c
    <3>1. /\ at + i \in DOMAIN q /\ r[i] = q[at + i]
          /\ at + j \in DOMAIN q /\ r[j] = q[at + j]
      BY <1>3, <1>4, <1>6, <2>1
    <3>2. at + i # at + j BY <1>2, <1>4, <1>6, <2>1
    <3> QED BY <1>4, <1>6, <2>1, <3>1, <3>2 DEF StreamsOK, q
  <2>2. CASE d # c BY <1>4, <1>6, <2>2 DEF StreamsOK
  <2> QED BY <2>1, <2>2
<1>7. StreamsOK' BY <1>4, <1>5, <1>6 DEF StreamsOK
<1>8. CameStays BY <1>5 DEF CameStays
<1> QED BY <1>7, <1>8

LEMMA SentStreams ==
    ASSUME StreamsOK, NEW c \in Conns, NEW m \in Messages(c), SwitchSends(c, m)
    PROVE StreamsOK' /\ CameStays
<1> DEFINE q == inq[c]
<1>1. /\ inq' = [inq EXCEPT ![c] = Append(q, m)]
      /\ nsent' = [nsent EXCEPT ![c] = nsent[c] + 1]
      /\ nsent[c] \in Nat /\ q \in Seq(InMessages)
  BY DEF SwitchSends, StreamsOK
<1>2. m \in InMessages /\ (m.type = "packet_in" => m.nth = nsent[c] + 1)
  BY <1>1 DEF Messages, InMessages
<1> HIDE DEF q
<1>3. Append(q, m) \in Seq(InMessages) BY <1>1, <1>2
<1>4. /\ inq' \in [Conns -> Seq(InMessages)] /\ nsent' \in [Conns -> Nat]
      /\ inq'[c] = Append(q, m) /\ \A d \in Conns \ {c} : inq'[d] = inq[d]
      /\ nsent'[c] = nsent[c] + 1 /\ \A d \in Conns \ {c} : nsent'[d] = nsent[d]
  BY <1>1, <1>3 DEF StreamsOK
<1>5. \A i \in DOMAIN inq'[c] :
         (i \in DOMAIN q /\ inq'[c][i] = q[i]) \/ (i = Len(q) + 1 /\ inq'[c][i] = m)
  BY <1>1, <1>4
<1>6. ASSUME NEW d \in Conns, NEW x, Pending(d, x)'
      PROVE Pending(d, x) \/ (d = c /\ x = nsent[c] + 1)
  <2>1. PICK i \in DOMAIN inq'[d] : inq'[d][i].type = "packet_in" /\ inq'[d][i].nth = x
    BY <1>6 DEF Pending
  <2>2. CASE d = c BY <1>2, <1>5, <2>1, <2>2 DEF Pending, q
  <2>3. CASE d # c BY <1>4, <2>1, <2>3 DEF Pending
  <2> QED BY <2>2, <2>3
<1>7. ASSUME NEW x, Pending(c, x) PROVE x \in Nat /\ x <= nsent[c]
  <2>1. PICK i \in DOMAIN q : q[i].type = "packet_in" /\ q[i].nth = x
    BY <1>7 DEF Pending, q
  <2>2. q[i] \in InMessages BY <1>1
  <2> QED BY <1>7, <2>1, <2>2 DEF InMessages, StreamsOK
<1>8. \A d \in Conns : \A x : Pending(d, x)' => x <= nsent'[d]
  <2> SUFFICES ASSUME NEW d \in Conns, NEW x, Pending(d, x)' PROVE x <= nsent'[d]
    OBVIOUS
  <2>1. CASE d # c BY <1>4, <1>6, <2>1 DEF StreamsOK
  <2>2. CASE d = c
    <3>1. Pending(c, x) \/ x = nsent[c] + 1 BY <1>6, <2>2
    <3> QED BY <1>1, <1>4, <1>7, <2>2, <3>1
  <2> QED BY <2>1, <2>2
<1>9. ASSUME NEW d \in Conns, NEW i \in DOMAIN inq'[d], NEW j \in DOMAIN inq'[d], i # j,
             inq'[d][i].type = "packet_in", inq'[d][j].type = "packet_in"
      PROVE inq'[d][i].nth # inq'[d][j].nth
  <2>1. CASE d # c BY <1>4, <1>9, <2>1 DEF StreamsOK
  <2>2. CASE d = c
    <3>1. \A k \in DOMAIN q : q[k].type = "packet_in" => q[k].nth # nsent[c] + 1
      <4> SUFFICES ASSUME NEW k \in DOMAIN q, q[k].type = "packet_in"
                   PROVE q[k].nth # nsent[c] + 1
        OBVIOUS
      <4>1. Pending(c, q[k].nth) BY DEF Pending, q
      <4> QED BY <1>1, <1>7, <4>1
    <3>2. CASE i \in DOMAIN q /\ j \in DOMAIN q
      <4>1. q[i].nth # q[j].nth
        BY <1>5, <1>9, <1>1, <2>2, <3>2 DEF StreamsOK, q
      <4> QED BY <1>1, <1>5, <2>2, <3>2, <4>1
    <3>3. CASE i \notin DOMAIN q \/ j \notin DOMAIN q
      BY <1>2, <1>5, <1>9, <2>2, <3>1, <3>3
    <3> QED BY <3>2, <3>3
  <2> QED BY <2>1, <2>2
<1>10. StreamsOK' BY <1>4, <1>8, <1>9 DEF StreamsOK
<1>11. CameStays
  <2> SUFFICES ASSUME NEW d \in Conns, NEW x \in Nat, x <= nsent[d], ~Pending(d, x)
               PROVE x <= nsent'[d] /\ ~Pending(d, x)'
    BY DEF CameStays
  <2>1. CASE d # c BY <1>4, <1>6, <2>1
  <2>2. CASE d = c
    <3>1. x # nsent[c] + 1 BY <1>1, <2>2
    <3>2. ~Pending(d, x)' BY <1>6, <2>2, <3>1
    <3> QED BY <1>1, <1>4, <2>2, <3>2
  <2> QED BY <2>1, <2>2
<1> QED BY <1>10, <1>11

\* Every step is one of those, or ends all connections, or does nothing there.
LEMMA StreamsStep ==
    ASSUME StreamsOK, [Next]_vars
    PROVE StreamsOK' /\ CameStays
<1> USE DEF connVars
<1>1. CASE UNCHANGED <<inq, nsent>>
  BY <1>1 DEF StreamsOK, CameStays, Pending
<1>2. CASE Ends
  <2>1. inq' = [c \in Conns |-> << >>] /\ UNCHANGED nsent BY <1>2 DEF Ends, Die
  <2>2. \A c \in Conns : \A x : ~Pending(c, x)' BY <2>1 DEF Pending
  <2> QED BY <2>1, <2>2 DEF StreamsOK, CameStays
<1>3. ASSUME NEW c \in Conns, Fewer(c), UNCHANGED nsent
      PROVE StreamsOK' /\ CameStays
  BY <1>3, FewerStreams
<1>4. ASSUME NEW c \in Conns, NEW m \in Messages(c), SwitchSends(c, m)
      PROVE StreamsOK' /\ CameStays
  BY <1>4, SentStreams
<1>5. ASSUME NEW c \in Conns, Deliver(c)
      PROVE Ends \/ UNCHANGED <<inq, nsent>> \/ (Fewer(c) /\ UNCHANGED nsent)
  <2>1. CASE Accept(c) BY <2>1 DEF Accept
  <2>2. CASE HandleHello(c) \/ HandleOther(c)
    BY <2>2 DEF HandleHello, HandleOther, Popped, Handles, Fewer
  <2>3. CASE \E k \in FeatureKinds : HandleFeatures(c, k)
    BY <2>3 DEF HandleFeatures, Popped, Handles, Fewer
  <2>4. CASE \E p \in Ports \cup NewPorts, i \in 1 .. MaxMsgs :
                HandlePacketIgnored(c, p, i) \/ HandlePacketIn(c, p, i)
    BY <2>4 DEF HandlePacketIgnored, HandlePacketIn, PacketIn, Popped, Handles, Fewer
  <2>5. CASE Closed(c) BY <2>5 DEF Closed, Fewer
  <2> QED BY <1>5, <2>1, <2>2, <2>3, <2>4, <2>5, Endings, Zenon DEF Deliver, Ends
<1>6. ASSUME Dispatch PROVE Ends \/ UNCHANGED <<inq, nsent>>
  <2>1. PICK s : \/ SignalIgnored(s) \/ SignalMeetsNull(s)
                 \/ NewFlow(s) \/ NewFlowDies(s)
                 \/ NewPacketOut(s) \/ NewPacketOutDies(s)
    BY <1>6, Zenon DEF Dispatch
  <2>2. CASE SignalMeetsNull(s) \/ NewFlowDies(s) \/ NewPacketOutDies(s)
    BY <2>2 DEF SignalMeetsNull, NewFlowDies, NewPacketOutDies, SendDies, Ended, Ends
  <2>3. CASE SignalIgnored(s) \/ NewFlow(s) \/ NewPacketOut(s)
    BY <2>3 DEF SignalIgnored, NewFlow, NewPacketOut
  <2> QED BY <2>1, <2>2, <2>3
<1>7. ASSUME AppStep PROVE UNCHANGED <<inq, nsent>>
  BY <1>7 DEF AppStep, AppLoad, AppMake, AppFill, AppAnnounce, AppKeeps
<1>8. ASSUME Environment
      PROVE \/ Ends \/ UNCHANGED <<inq, nsent>>
            \/ \E c \in Conns : Fewer(c) /\ UNCHANGED nsent
            \/ \E c \in Conns : \E m \in Messages(c) : SwitchSends(c, m)
  <2>1. CASE Terminate BY <2>1 DEF Terminate, Ended, Ends
  <2>2. CASE Start \/ AppRestart BY <2>2 DEF Start, AppRestart
  <2>3. CASE \E n \in Names, s \in {"FlowMod", "PacketOut"} : OtherSignal(n, s)
    BY <2>3 DEF OtherSignal
  <2>4. ASSUME NEW c \in Conns,
               \/ Connect(c) \/ \E k \in FeatureKinds : SwitchAnswers(c, k)
               \/ \E how \in {"gone", "reset"} : SwitchLeaves(c, how)
        PROVE Fewer(c) /\ UNCHANGED nsent
    BY <2>4 DEF Connect, SwitchAnswers, SwitchLeaves, Fewer
  <2> QED BY <1>8, <2>1, <2>2, <2>3, <2>4, Zenon DEF Environment
<1>9. UNCHANGED vars => UNCHANGED <<inq, nsent>> BY DEF vars
<1> QED BY <1>1, <1>2, <1>3, <1>4, <1>5, <1>6, <1>7, <1>8, <1>9, Zenon DEF Next

\* Packets have numbers.
LEMMA CameLemma ==
    ASSUME CameStays, NEW q \in Packets, Came(q)
    PROVE Came(q)'
<1>1. q.conn \in Conns /\ q.nth \in Nat BY NetworkAssumption DEF Packets
<1> QED BY <1>1 DEF CameStays, Came

\* No directory of a packet appears or changes.
NoNewEntries ==
    \A n \in DOMAIN dirs' : \A k \in DOMAIN dirs'[n].packet_in :
        /\ n \in DOMAIN dirs
        /\ k \in DOMAIN dirs[n].packet_in
        /\ dirs'[n].packet_in[k] = dirs[n].packet_in[k]

SignalsDiffer ==
    \A i, j \in DOMAIN toAdapter :
        /\ i # j
        /\ toAdapter[i].signal = "NewFlow" /\ toAdapter[j].signal = "NewFlow"
        => toAdapter[i].flow # toAdapter[j].flow

\* The packets of directories are packets.
LEMMA EntryTypes ==
    ASSUME TInv
    PROVE /\ \A n \in DOMAIN dirs : \A k \in DOMAIN dirs[n].packet_in :
                /\ dirs[n].packet_in[k] \in Packets
                /\ k \in PacketNames /\ k[1] \in Ports /\ k[2] \in Nat
          /\ \A n \in DOMAIN dirs : \A f \in DOMAIN dirs[n].flows :
                dirs[n].flows[f].pkt \in Packets /\ f \in Nat
          /\ \A c \in Conns : \A i \in DOMAIN mods[c] : mods[c][i].pkt \in Packets
          /\ app.pc # "idle" => app.pkt \in Packets
          /\ \A i \in DOMAIN toApp : /\ toApp[i].packet[1] \in Ports
                                     /\ toApp[i].packet[2] \in Nat
<1>1. \A n \in DOMAIN dirs : DirOK(n, dirs[n]) BY DEF TInv, DirsOK
<1>2. \A n \in DOMAIN dirs : \A k \in DOMAIN dirs[n].packet_in :
         /\ dirs[n].packet_in[k] \in Packets
         /\ k \in PacketNames /\ k[1] \in Ports /\ k[2] \in Nat
  BY <1>1 DEF DirOK, PacketNames
<1>3. \A n \in DOMAIN dirs : \A f \in DOMAIN dirs[n].flows :
         dirs[n].flows[f].pkt \in Packets /\ f \in Nat
  BY <1>1 DEF DirOK
<1>4. \A c \in Conns : \A i \in DOMAIN mods[c] : mods[c][i].pkt \in Packets
  <2>1. ASSUME NEW S, NEW q \in Seq(S), NEW i \in DOMAIN q PROVE q[i] \in S
    BY <2>1
  <2>2. \A c \in Conns : \A i \in DOMAIN mods[c] :
           mods[c][i] \in [pkt : Packets, done : BOOLEAN]
    BY <2>1, Zenon DEF TInv, ModsOK
  <2> QED BY <2>2
<1>5. app.pc # "idle" => app.pkt \in Packets BY DEF TInv, AppTypeOK, Idle
<1>6. \A i \in DOMAIN toApp : toApp[i] \in [switch : Names, packet : PacketNames]
  BY TInvTypes DEF TypeOK
<1>7. \A i \in DOMAIN toApp : toApp[i].packet[1] \in Ports /\ toApp[i].packet[2] \in Nat
  BY <1>6 DEF PacketNames
<1> QED BY <1>2, <1>3, <1>4, <1>5, <1>7

LEMMA AnsweringKept ==
    ASSUME TInv, Answering, CameStays, NoNewFlows, NoNewEntries, NoNewSignals,
           SignalsDiffer', UNCHANGED <<app, flow_counter, counter, toApp, mods>>
    PROVE Answering'
<1>1. EntriesOK'
  <2>1. ASSUME NEW n \in DOMAIN dirs', NEW k \in DOMAIN dirs'[n].packet_in
        PROVE Came(dirs[n].packet_in[k])' /\ k[2] <= counter'[k[1]]
    <3>1. PICK q \in Packets : q = dirs[n].packet_in[k] /\ q = dirs'[n].packet_in[k]
      BY <2>1, EntryTypes DEF NoNewEntries
    <3>2. Came(q) /\ k[2] <= counter[k[1]]
      BY <2>1, <3>1 DEF Answering, EntriesOK, NoNewEntries
    <3> QED BY <3>1, <3>2, CameLemma DEF Came, Pending
  <2>2. \A n, m \in DOMAIN dirs' :
           \A k \in DOMAIN dirs'[n].packet_in, l \in DOMAIN dirs'[m].packet_in :
              dirs'[n].packet_in[k] = dirs'[m].packet_in[l] => n = m /\ k = l
    BY DEF Answering, EntriesOK, NoNewEntries
  <2> QED BY <2>1, <2>2 DEF EntriesOK
<1>2. AnnouncedOnce' BY DEF Answering, AnnouncedOnce
<1>3. \A q : /\ InFlows(q)' => InFlows(q)
             /\ InMods(q)' <=> InMods(q)
             /\ InApp(q)' <=> InApp(q)
  BY DEF InFlows, InFlow, HasFlow, InMods, InApp, NoNewFlows
<1>4. TakenOK'
  <2>1. \A q \in Packets : Free(q)' \/ Came(q)'
    BY <1>3, CameLemma DEF Answering, TakenOK, Free
  <2>2. ASSUME NEW i \in DOMAIN toApp', HasPacket(toApp[i].switch, toApp[i].packet)'
        PROVE Free(dirs[toApp[i].switch].packet_in[toApp[i].packet])'
    <3>1. PICK q : q = dirs'[toApp'[i].switch].packet_in[toApp'[i].packet] OBVIOUS
    <3>2. /\ i \in DOMAIN toApp /\ HasPacket(toApp[i].switch, toApp[i].packet)
          /\ q = dirs[toApp[i].switch].packet_in[toApp[i].packet]
      BY <2>2, <3>1 DEF HasPacket, NoNewEntries
    <3>3. Free(q) BY <3>2 DEF Answering, TakenOK
    <3>4. Free(q)' BY <1>3, <3>3 DEF Free
    <3> QED BY <3>1, <3>4 DEF Free, InApp, InFlows, InFlow, HasFlow, InMods
  <2> QED BY <2>1, <2>2 DEF TakenOK
<1>5. FlowsOK' BY DEF Answering, FlowsOK, NoNewFlows
<1>6. AppOK'
  <2>1. app'.pc = "make" => ~InFlows(app.pkt)'
    <3>1. PICK q : q = app.pkt OBVIOUS
    <3>2. app.pc = "make" => ~InFlows(q) BY <3>1 DEF Answering, AppOK
    <3> QED BY <1>3, <3>1, <3>2 DEF InFlows, InFlow, HasFlow
  <2>2. app'.pc # "idle" => ~InMods(app.pkt)'
    <3>1. PICK q : q = app.pkt OBVIOUS
    <3>2. app.pc # "idle" => ~InMods(q) BY <3>1 DEF Answering, AppOK
    <3> QED BY <1>3, <3>1, <3>2 DEF InMods
  <2>3. app'.pc \in {"fill", "announce"} =>
           /\ app'.flow < flow_counter'
           /\ \A n \in DOMAIN dirs' : \A f \in DOMAIN dirs'[n].flows :
                 dirs'[n].flows[f].pkt = app'.pkt <=> f = app'.flow
           /\ \A i \in DOMAIN toAdapter' :
                 toAdapter'[i].signal = "NewFlow" => toAdapter'[i].flow # app'.flow
    BY DEF Answering, AppOK, NoNewFlows, NoNewSignals
  <2> QED BY <2>1, <2>2, <2>3 DEF AppOK
<1>7. SignalsOnce'
  <2>1. ASSUME NEW i \in DOMAIN toAdapter', toAdapter'[i].signal = "NewFlow"
        PROVE /\ toAdapter'[i].flow < flow_counter'
              /\ HasFlow(toAdapter[i].switch, toAdapter[i].flow)' =>
                    ~InMods(dirs[toAdapter[i].switch].flows[toAdapter[i].flow].pkt)'
    <3>1. PICK j \in DOMAIN toAdapter : toAdapter[j] = toAdapter'[i]
      BY <2>1 DEF NoNewSignals
    <3>2. PICK n, f : n = toAdapter[j].switch /\ f = toAdapter[j].flow OBVIOUS
    <3>3. /\ f < flow_counter
          /\ HasFlow(n, f) => ~InMods(dirs[n].flows[f].pkt)
      BY <2>1, <3>1, <3>2 DEF Answering, SignalsOnce
    <3>4. HasFlow(n, f)' => HasFlow(n, f) /\ dirs'[n].flows[f] = dirs[n].flows[f]
      BY DEF HasFlow, NoNewFlows
    <3> QED BY <3>1, <3>2, <3>3, <3>4 DEF HasFlow, InMods
  <2> QED BY <2>1 DEF SignalsOnce, SignalsDiffer
<1>8. SentOnce' BY DEF Answering, SentOnce
<1> QED BY <1>1, <1>2, <1>4, <1>5, <1>6, <1>7, <1>8 DEF Answering

\* Taking a signal off the bus leaves the others as different as they were.
LEMMA TailDiffers ==
    ASSUME TInv, Answering, NEW s, Signalled(s), toAdapter' = Tail(toAdapter)
    PROVE SignalsDiffer'
<1>1. \A i \in DOMAIN toAdapter' :
         i + 1 \in DOMAIN toAdapter /\ toAdapter'[i] = toAdapter[i + 1] /\ i \in Nat
  BY DEF Signalled, TInv, BusOK
<1>2. SignalsDiffer BY DEF Answering, SignalsOnce, SignalsDiffer
<1> QED BY <1>1, <1>2 DEF SignalsDiffer

\* A packet gets a directory of a name that was never given out, and a signal.
LEMMA AnsweringPacket ==
    ASSUME TInv, StreamsOK, CameStays, Answering, NEW c \in Conns, NEW p,
           NEW i \in 1 .. MaxMsgs, HandlePacketIn(c, p, i)
    PROVE Answering'
<1> USE DEF TInv
<1>1. PICK n, K, q : n = SwitchOf[c] /\ K = PacketName(p) /\ q = [conn |-> c, nth |-> i]
  OBVIOUS
<1>2. /\ n \in DOMAIN dirs /\ p \in Ports
      /\ dirs' = [dirs EXCEPT ![n].packet_in = Put(@, K, q)]
      /\ toApp' = Append(toApp, [switch |-> n, packet |-> K])
      /\ counter' = [counter EXCEPT ![p] = counter[p] + 1]
      /\ UNCHANGED <<toAdapter, app, flow_counter, mods>>
  BY <1>1 DEF HandlePacketIn, HasPort, appVars, SwitchesOK
<1>3. K = <<p, counter[p] + 1>> /\ counter[p] \in Nat
  BY <1>1, <1>2 DEF PacketName, SwitchesOK
<1>4. /\ counter'[p] = counter[p] + 1
      /\ \A x \in Ports :
            counter[x] \in Nat /\ counter'[x] \in Nat /\ counter[x] <= counter'[x]
  BY <1>2 DEF SwitchesOK
<1>5. q \in Packets BY <1>1 DEF Packets
<1>6. Pending(c, i) /\ ~Pending(c, i)'
  <2>1. /\ inq[c] # << >> /\ inq[c] \in Seq(InMessages)
        /\ Head(inq[c]).type = "packet_in" /\ Head(inq[c]).nth = i
        /\ inq'[c] = Tail(inq[c])
    BY DEF HandlePacketIn, PacketIn, Handles, Popped, StreamsOK
  <2>2. 1 \in DOMAIN inq[c] /\ inq[c][1] = Head(inq[c]) BY <2>1
  <2>3. \A j \in DOMAIN inq'[c] :
           j + 1 \in DOMAIN inq[c] /\ inq'[c][j] = inq[c][j + 1] /\ j + 1 # 1
    BY <2>1
  <2>4. \A j \in DOMAIN inq'[c] : ~(inq'[c][j].type = "packet_in" /\ inq'[c][j].nth = i)
    BY <2>1, <2>2, <2>3 DEF StreamsOK
  <2> QED BY <2>1, <2>2, <2>4 DEF Pending
<1>7. ~Came(q) /\ Came(q)'
  <2>1. i <= nsent[c] BY <1>6 DEF StreamsOK
  <2>2. UNCHANGED nsent BY DEF HandlePacketIn
  <2> QED BY <1>1, <1>6, <2>1, <2>2 DEF Came
<1>8. /\ DOMAIN dirs' = DOMAIN dirs
      /\ \A m \in DOMAIN dirs : dirs'[m].flows = dirs[m].flows
      /\ \A m \in DOMAIN dirs \ {n} : dirs'[m].packet_in = dirs[m].packet_in
      /\ dirs'[n].packet_in = Put(dirs[n].packet_in, K, q)
  <2>1. \A m \in DOMAIN dirs :
           dirs[m] = [ports |-> dirs[m].ports, packet_in |-> dirs[m].packet_in,
                      flows |-> dirs[m].flows]
    BY DEF DirsOK, DirOK
  <2> QED BY <1>2, <2>1
<1>9. \A m \in DOMAIN dirs : K \notin DOMAIN dirs[m].packet_in
  BY <1>3, EntryTypes DEF Answering, EntriesOK
<1>10. \A m \in DOMAIN dirs' : \A k \in DOMAIN dirs'[m].packet_in :
          \/ m = n /\ k = K /\ dirs'[m].packet_in[k] = q
          \/ /\ k # K /\ k \in DOMAIN dirs[m].packet_in
             /\ dirs'[m].packet_in[k] = dirs[m].packet_in[k]
  BY <1>8, <1>9 DEF Put
<1>11. \A m \in DOMAIN dirs : \A k \in DOMAIN dirs[m].packet_in :
          dirs[m].packet_in[k] # q
  BY <1>7 DEF Answering, EntriesOK
<1>12. EntriesOK'
  <2>1. ASSUME NEW m \in DOMAIN dirs', NEW k \in DOMAIN dirs'[m].packet_in
        PROVE Came(dirs[m].packet_in[k])' /\ k[2] <= counter'[k[1]]
    <3>1. CASE m = n /\ k = K /\ dirs'[m].packet_in[k] = q
      BY <1>3, <1>4, <1>7, <3>1 DEF Came, Pending
    <3>2. CASE /\ k # K /\ k \in DOMAIN dirs[m].packet_in
               /\ dirs'[m].packet_in[k] = dirs[m].packet_in[k]
      <4>1. PICK r \in Packets : r = dirs[m].packet_in[k]
        BY <1>8, <2>1, <3>2, EntryTypes
      <4>2. Came(r) /\ k[2] <= counter[k[1]] /\ k[1] \in Ports /\ k[2] \in Nat
        BY <1>8, <2>1, <3>2, <4>1, EntryTypes DEF Answering, EntriesOK
      <4>3. Came(r)' BY <4>2, CameLemma
      <4>4. k[2] <= counter'[k[1]] BY <1>4, <4>2
      <4> QED BY <3>2, <4>1, <4>3, <4>4 DEF Came, Pending
    <3> QED BY <1>10, <2>1, <3>1, <3>2
  <2>2. \A m, o \in DOMAIN dirs' :
           \A k \in DOMAIN dirs'[m].packet_in, l \in DOMAIN dirs'[o].packet_in :
              dirs'[m].packet_in[k] = dirs'[o].packet_in[l] => m = o /\ k = l
    <3> SUFFICES ASSUME NEW m \in DOMAIN dirs', NEW o \in DOMAIN dirs',
                        NEW k \in DOMAIN dirs'[m].packet_in,
                        NEW l \in DOMAIN dirs'[o].packet_in,
                        dirs'[m].packet_in[k] = dirs'[o].packet_in[l]
                 PROVE m = o /\ k = l
      OBVIOUS
    <3>1. CASE dirs'[m].packet_in[k] = q
      <4>1. m = n /\ k = K BY <1>8, <1>10, <1>11, <3>1
      <4>2. o = n /\ l = K
        <5>1. dirs'[o].packet_in[l] = q BY <3>1
        <5> QED BY <1>8, <1>10, <1>11, <5>1
      <4> QED BY <4>1, <4>2
    <3>2. CASE dirs'[m].packet_in[k] # q
      <4>1. /\ k \in DOMAIN dirs[m].packet_in /\ l \in DOMAIN dirs[o].packet_in
            /\ dirs[m].packet_in[k] = dirs[o].packet_in[l]
        BY <1>10, <3>2
      <4> QED BY <1>8, <4>1 DEF Answering, EntriesOK
    <3> QED BY <3>1, <3>2
  <2> QED BY <2>1, <2>2 DEF EntriesOK
<1>13. \A j \in DOMAIN toApp' :
          \/ /\ j \in DOMAIN toApp /\ toApp'[j] = toApp[j] /\ toApp[j].packet # K
          \/ /\ j = Len(toApp) + 1 /\ toApp'[j] = [switch |-> n, packet |-> K]
  <2>1. \A j \in DOMAIN toApp : toApp[j].packet # K
    BY <1>3, EntryTypes DEF Answering, AnnouncedOnce
  <2>2. toApp \in Seq([switch : Names, packet : PacketNames]) BY DEF BusOK
  <2> QED BY <1>2, <2>1, <2>2
<1>14. AnnouncedOnce'
  <2>1. \A j \in DOMAIN toApp' : toApp'[j].packet[2] <= counter'[toApp'[j].packet[1]]
    <3> SUFFICES ASSUME NEW j \in DOMAIN toApp'
                 PROVE toApp'[j].packet[2] <= counter'[toApp'[j].packet[1]]
      OBVIOUS
    <3>1. CASE toApp'[j] = [switch |-> n, packet |-> K] BY <1>3, <1>4, <3>1
    <3>2. CASE j \in DOMAIN toApp /\ toApp'[j] = toApp[j]
      <4>1. PICK x, y : x = toApp[j].packet[1] /\ y = toApp[j].packet[2] OBVIOUS
      <4>2. x \in Ports /\ y \in Nat /\ y <= counter[x]
        BY <3>2, <4>1, EntryTypes DEF Answering, AnnouncedOnce
      <4>3. y <= counter'[x] BY <1>4, <4>2
      <4> QED BY <3>2, <4>1, <4>3
    <3> QED BY <1>13, <3>1, <3>2
  <2>2. \A j, l \in DOMAIN toApp' : j # l => toApp'[j].packet # toApp'[l].packet
    BY <1>13 DEF Answering, AnnouncedOnce
  <2> QED BY <2>1, <2>2 DEF AnnouncedOnce
<1>15. \A r : Free(r)' <=> Free(r)
  BY <1>2, <1>8 DEF Free, InApp, InFlows, InFlow, HasFlow, InMods
<1>16. TakenOK'
  <2>1. \A r \in Packets : Free(r)' \/ Came(r)'
    BY <1>15, CameLemma DEF Answering, TakenOK
  <2>2. ASSUME NEW j \in DOMAIN toApp', HasPacket(toApp[j].switch, toApp[j].packet)'
        PROVE Free(dirs[toApp[j].switch].packet_in[toApp[j].packet])'
    <3>1. PICK r : r = dirs'[toApp'[j].switch].packet_in[toApp'[j].packet] OBVIOUS
    <3>2. Free(r)
      <4>1. CASE toApp'[j] = [switch |-> n, packet |-> K]
        <5>1. r = q BY <1>2, <1>8, <3>1, <4>1 DEF Put
        <5> QED BY <1>5, <1>7, <5>1 DEF Answering, TakenOK
      <4>2. CASE j \in DOMAIN toApp /\ toApp'[j] = toApp[j] /\ toApp[j].packet # K
        <5>1. /\ HasPacket(toApp[j].switch, toApp[j].packet)
              /\ r = dirs[toApp[j].switch].packet_in[toApp[j].packet]
          BY <1>8, <1>10, <2>2, <3>1, <4>2 DEF HasPacket
        <5> QED BY <4>2, <5>1 DEF Answering, TakenOK
      <4> QED BY <1>13, <4>1, <4>2
    <3>3. Free(r)' BY <1>15, <3>2
    <3> QED BY <3>1, <3>3 DEF Free, InApp, InFlows, InFlow, HasFlow, InMods
  <2> QED BY <2>1, <2>2 DEF TakenOK
<1>17. NoNewFlows /\ NoNewSignals BY <1>2, <1>8 DEF NoNewFlows, NoNewSignals
<1>18. FlowsOK' BY <1>2, <1>8 DEF Answering, FlowsOK
<1>19. AppOK'
  BY <1>2, <1>8 DEF Answering, AppOK, InFlows, InFlow, HasFlow, InMods
<1>20. SignalsOnce'
  BY <1>2, <1>8 DEF Answering, SignalsOnce, HasFlow, InMods
<1>21. SentOnce' BY <1>2 DEF Answering, SentOnce
<1> QED BY <1>12, <1>14, <1>16, <1>18, <1>19, <1>20, <1>21 DEF Answering

\* A flow is sent: its packet was not answered before, and no other flow,
\* signal or step of the application is about that packet.
LEMMA AnsweringSend ==
    ASSUME TInv, CameStays, Answering, NEW s, NewFlow(s)
    PROVE Answering'
<1> USE DEF TInv
<1>1. PICK c, n, f, q : /\ c = ByName(s.switch) /\ n = s.switch /\ f = s.flow
                        /\ q = dirs[n].flows[f].pkt
  OBVIOUS
<1>2. /\ Signalled(s) /\ toAdapter' = Tail(toAdapter)
      /\ UNCHANGED <<dirs, toApp, counter, app, flow_counter>>
      /\ s.signal = "NewFlow" /\ HasFlow(n, f)
      /\ mods' = [mods EXCEPT ![c] = Append(mods[c], dirs[n].flows[f])]
  BY <1>1 DEF NewFlow, appVars, adapterVars
<1>3. c \in Conns BY <1>1, ByNameFinds DEF NewFlow
<1>4. n \in DOMAIN dirs /\ f \in DOMAIN dirs[n].flows /\ q \in Packets
  BY <1>1, <1>2, EntryTypes DEF HasFlow
<1>5. 1 \in DOMAIN toAdapter /\ toAdapter[1] = s BY <1>2 DEF Signalled, BusOK
<1>6. \A i \in DOMAIN toAdapter' :
         i + 1 \in DOMAIN toAdapter /\ toAdapter'[i] = toAdapter[i + 1] /\ i + 1 # 1
  BY <1>2 DEF Signalled, BusOK
<1>7. ~InMods(q) BY <1>1, <1>2, <1>5 DEF Answering, SignalsOnce
<1>8. \A d \in Conns : \A i \in DOMAIN mods'[d] :
         \/ i \in DOMAIN mods[d] /\ mods'[d][i] = mods[d][i]
         \/ d = c /\ i = Len(mods[c]) + 1 /\ mods'[d][i] = dirs[n].flows[f]
  <2>1. mods[c] \in Seq([pkt : Packets, done : BOOLEAN]) BY <1>3 DEF ModsOK
  <2>2. mods'[c] = Append(mods[c], dirs[n].flows[f])
        /\ \A d \in Conns \ {c} : mods'[d] = mods[d]
    BY <1>2, <1>3 DEF ModsOK
  <2> QED BY <2>1, <2>2
<1>9. \A r : InMods(r)' => InMods(r) \/ r = q BY <1>1, <1>8 DEF InMods
<1>10. \A r : InApp(r)' <=> InApp(r) BY <1>2 DEF InApp
<1>11. \A r : InFlows(r)' <=> InFlows(r) BY <1>2 DEF InFlows, InFlow, HasFlow
<1>12. InFlows(q) BY <1>1, <1>4 DEF InFlows, InFlow, HasFlow
<1>13. \A r : Free(r) => Free(r)' BY <1>9, <1>10, <1>11, <1>12 DEF Free
<1>14. EntriesOK'
  <2>1. ASSUME NEW m \in DOMAIN dirs, NEW k \in DOMAIN dirs[m].packet_in
        PROVE Came(dirs[m].packet_in[k])' /\ k[2] <= counter[k[1]]
    <3>1. PICK r \in Packets : r = dirs[m].packet_in[k] BY <2>1, EntryTypes
    <3>2. Came(r)' BY <2>1, <3>1, CameLemma DEF Answering, EntriesOK
    <3> QED BY <1>2, <2>1, <3>1, <3>2 DEF Answering, EntriesOK, Came, Pending
  <2> QED BY <1>2, <2>1 DEF Answering, EntriesOK
<1>15. AnnouncedOnce' BY <1>2 DEF Answering, AnnouncedOnce
<1>16. TakenOK'
  <2>1. \A r \in Packets : Free(r)' \/ Came(r)'
    BY <1>13, CameLemma DEF Answering, TakenOK
  <2>2. ASSUME NEW j \in DOMAIN toApp', HasPacket(toApp[j].switch, toApp[j].packet)'
        PROVE Free(dirs[toApp[j].switch].packet_in[toApp[j].packet])'
    <3>1. PICK r : r = dirs[toApp[j].switch].packet_in[toApp[j].packet] OBVIOUS
    <3>2. Free(r) BY <1>2, <2>2, <3>1 DEF Answering, TakenOK, HasPacket
    <3>3. Free(r)' BY <1>13, <3>2
    <3> QED BY <1>2, <3>1, <3>3 DEF Free, InApp, InFlows, InFlow, HasFlow, InMods
  <2> QED BY <2>1, <2>2 DEF TakenOK
<1>17. FlowsOK' BY <1>2 DEF Answering, FlowsOK
<1>18. AppOK'
  <2>1. app.pc = "make" => ~InFlows(app.pkt)'
    BY <1>2 DEF Answering, AppOK, InFlows, InFlow, HasFlow
  <2>2. app.pc # "idle" => ~InMods(app.pkt)'
    <3> SUFFICES ASSUME app.pc # "idle" PROVE ~InMods(app.pkt)' OBVIOUS
    <3>1. PICK r : r = app.pkt OBVIOUS
    <3>2. r # q
      <4>1. CASE app.pc = "make" BY <1>12, <3>1, <4>1 DEF Answering, AppOK
      <4>2. CASE app.pc \in {"fill", "announce"}
        <5>1. app.flow # f BY <1>1, <1>2, <1>5, <4>2 DEF Answering, AppOK
        <5> QED BY <1>1, <1>4, <3>1, <4>2, <5>1 DEF Answering, AppOK
      <4> QED BY <4>1, <4>2 DEF AppTypeOK, Idle
    <3>3. ~InMods(r) BY <3>1 DEF Answering, AppOK
    <3>4. ~InMods(r)' BY <1>9, <3>2, <3>3
    <3> QED BY <1>2, <3>1, <3>4 DEF InMods
  <2>3. app.pc \in {"fill", "announce"} =>
           /\ app.flow < flow_counter
           /\ \A m \in DOMAIN dirs : \A g \in DOMAIN dirs[m].flows :
                 dirs[m].flows[g].pkt = app.pkt <=> g = app.flow
           /\ \A i \in DOMAIN toAdapter' :
                 toAdapter'[i].signal = "NewFlow" => toAdapter'[i].flow # app.flow
    BY <1>6 DEF Answering, AppOK
  <2> QED BY <1>2, <2>1, <2>2, <2>3 DEF AppOK
<1>19. SignalsOnce'
  <2>1. SignalsDiffer' BY <1>2, TailDiffers
  <2>2. ASSUME NEW i \in DOMAIN toAdapter', toAdapter'[i].signal = "NewFlow"
        PROVE /\ toAdapter'[i].flow < flow_counter
              /\ HasFlow(toAdapter[i].switch, toAdapter[i].flow)' =>
                    ~InMods(dirs[toAdapter[i].switch].flows[toAdapter[i].flow].pkt)'
    <3>1. PICK m, g : m = toAdapter'[i].switch /\ g = toAdapter'[i].flow OBVIOUS
    <3>2. /\ g < flow_counter /\ g # f
          /\ HasFlow(m, g) => ~InMods(dirs[m].flows[g].pkt)
      BY <1>1, <1>2, <1>5, <1>6, <2>2, <3>1 DEF Answering, SignalsOnce
    <3>3. HasFlow(m, g) => ~InMods(dirs[m].flows[g].pkt)'
      <4> SUFFICES ASSUME HasFlow(m, g) PROVE ~InMods(dirs[m].flows[g].pkt)' OBVIOUS
      <4>1. PICK r : r = dirs[m].flows[g].pkt OBVIOUS
      <4>2. r # q
        BY <1>1, <1>4, <3>2, <4>1 DEF Answering, FlowsOK, HasFlow
      <4>3. ~InMods(r)' BY <1>9, <3>2, <4>1, <4>2
      <4> QED BY <1>2, <4>1, <4>3 DEF InMods
    <3> QED BY <1>2, <3>1, <3>2, <3>3 DEF HasFlow, InMods
  <2> QED BY <1>2, <2>1, <2>2 DEF SignalsOnce, SignalsDiffer
<1>20. SentOnce'
  <2> SUFFICES ASSUME NEW d \in Conns, NEW e \in Conns, NEW i \in DOMAIN mods'[d],
                      NEW j \in DOMAIN mods'[e], mods'[d][i].pkt = mods'[e][j].pkt
               PROVE d = e /\ i = j
    BY DEF SentOnce
  <2>1. \A x \in Conns : \A y \in DOMAIN mods[x] : mods[x][y].pkt # q
    BY <1>7 DEF InMods
  <2>2. CASE mods'[d][i].pkt = q
    <3>1. d = c /\ i = Len(mods[c]) + 1 BY <1>8, <2>1, <2>2
    <3>2. mods'[e][j].pkt = q BY <2>2
    <3>3. e = c /\ j = Len(mods[c]) + 1 BY <1>8, <2>1, <3>2
    <3> QED BY <3>1, <3>3
  <2>3. CASE mods'[d][i].pkt # q
    <3>1. i \in DOMAIN mods[d] /\ mods'[d][i] = mods[d][i] BY <1>1, <1>8, <2>3
    <3>2. mods'[e][j].pkt # q BY <2>3
    <3>3. j \in DOMAIN mods[e] /\ mods'[e][j] = mods[e][j] BY <1>1, <1>8, <3>2
    <3> QED BY <3>1, <3>3 DEF Answering, SentOnce
  <2> QED BY <2>2, <2>3
<1> QED BY <1>14, <1>15, <1>16, <1>17, <1>18, <1>19, <1>20 DEF Answering

\* The application takes a packet up, once.
LEMMA AnsweringLoad ==
    ASSUME TInv, CameStays, Answering, AppLoad
    PROVE Answering'
<1> USE DEF TInv
<1>1. PICK s : s = Head(toApp) OBVIOUS
<1>2. /\ app = Idle /\ toApp # << >> /\ toApp' = Tail(toApp)
      /\ app' = IF HasPacket(s.switch, s.packet)
                THEN [pc |-> "make", switch |-> s.switch,
                      pkt |-> dirs[s.switch].packet_in[s.packet]]
                ELSE Idle
      /\ UNCHANGED <<dirs, toAdapter, counter, flow_counter, mods>>
  BY <1>1 DEF AppLoad, AppKeeps, adapterVars
<1>3. 1 \in DOMAIN toApp /\ toApp[1] = s BY <1>1, <1>2 DEF BusOK
<1>4. \A i \in DOMAIN toApp' :
         i + 1 \in DOMAIN toApp /\ toApp'[i] = toApp[i + 1] /\ i + 1 # 1 /\ i \in Nat
  BY <1>2 DEF BusOK
<1>5. \A i \in DOMAIN toApp' : toApp'[i].packet # s.packet
  BY <1>3, <1>4 DEF Answering, AnnouncedOnce
<1>6. \A r : /\ InFlows(r)' <=> InFlows(r)
             /\ InMods(r)' <=> InMods(r)
             /\ ~InApp(r)
  BY <1>2 DEF InFlows, InFlow, HasFlow, InMods, InApp, Idle
<1>7. \A r : InApp(r)' => /\ HasPacket(s.switch, s.packet)
                          /\ r = dirs[s.switch].packet_in[s.packet]
  BY <1>2 DEF InApp, Idle
<1>8. \A r : InApp(r)' => Free(r)
  BY <1>3, <1>7 DEF Answering, TakenOK
<1>9. EntriesOK'
  <2>1. ASSUME NEW m \in DOMAIN dirs, NEW k \in DOMAIN dirs[m].packet_in
        PROVE Came(dirs[m].packet_in[k])' /\ k[2] <= counter[k[1]]
    <3>1. PICK r \in Packets : r = dirs[m].packet_in[k] BY <2>1, EntryTypes
    <3>2. Came(r)' BY <2>1, <3>1, CameLemma DEF Answering, EntriesOK
    <3> QED BY <1>2, <2>1, <3>1, <3>2 DEF Answering, EntriesOK, Came, Pending
  <2> QED BY <1>2, <2>1 DEF Answering, EntriesOK
<1>10. AnnouncedOnce' BY <1>2, <1>4 DEF Answering, AnnouncedOnce
<1>11. TakenOK'
  <2>1. \A r \in Packets : Free(r)' \/ Came(r)'
    <3> SUFFICES ASSUME NEW r \in Packets, ~Free(r)' PROVE Came(r)' OBVIOUS
    <3>1. Came(r)
      <4>1. CASE InApp(r)'
        BY <1>7, <4>1 DEF Answering, EntriesOK, HasPacket
      <4>2. CASE ~InApp(r)' BY <1>6, <4>2 DEF Free, Answering, TakenOK
      <4> QED BY <4>1, <4>2
    <3> QED BY <3>1, CameLemma
  <2>2. ASSUME NEW j \in DOMAIN toApp', HasPacket(toApp[j].switch, toApp[j].packet)'
        PROVE Free(dirs[toApp[j].switch].packet_in[toApp[j].packet])'
    <3>1. PICK n, k, r : /\ n = toApp'[j].switch /\ k = toApp'[j].packet
                         /\ r = dirs[n].packet_in[k]
      OBVIOUS
    <3>2. n \in DOMAIN dirs /\ k \in DOMAIN dirs[n].packet_in
      BY <1>2, <2>2, <3>1 DEF HasPacket
    <3>3. Free(r)
      <4>1. HasPacket(toApp[j + 1].switch, toApp[j + 1].packet)
        BY <1>4, <3>1, <3>2 DEF HasPacket
      <4> QED BY <1>4, <3>1, <4>1 DEF Answering, TakenOK
    <3>4. ~InApp(r)'
      <4>1. k # s.packet BY <1>5, <3>1
      <4> QED BY <1>7, <3>1, <3>2, <4>1 DEF Answering, EntriesOK, HasPacket
    <3>5. Free(r)' BY <1>6, <3>3, <3>4 DEF Free
    <3> QED BY <1>2, <3>1, <3>5 DEF Free, InApp, InFlows, InFlow, HasFlow, InMods
  <2> QED BY <2>1, <2>2 DEF TakenOK
<1>12. FlowsOK' BY <1>2 DEF Answering, FlowsOK
<1>13. AppOK'
  <2>1. app'.pc \in {"idle", "make"} BY <1>2 DEF Idle
  <2>2. app'.pc # "idle" => ~InFlows(app.pkt)' /\ ~InMods(app.pkt)'
    <3>1. PICK r : r = app'.pkt OBVIOUS
    <3>2. app'.pc # "idle" => InApp(r)' BY <3>1 DEF InApp
    <3>3. app'.pc # "idle" => ~InFlows(r)' /\ ~InMods(r)'
      BY <1>6, <1>8, <3>2 DEF Free
    <3> QED BY <3>1, <3>3 DEF InFlows, InFlow, HasFlow, InMods
  <2> QED BY <2>1, <2>2 DEF AppOK
<1>14. SignalsOnce' BY <1>2 DEF Answering, SignalsOnce, HasFlow, InMods
<1>15. SentOnce' BY <1>2 DEF Answering, SentOnce
<1> QED BY <1>9, <1>10, <1>11, <1>12, <1>13, <1>14, <1>15 DEF Answering


\* What is in the directories stays, but for what is written into a flow.
SamePackets ==
    /\ DOMAIN dirs' = DOMAIN dirs
    /\ \A n \in DOMAIN dirs :
          /\ dirs'[n].packet_in = dirs[n].packet_in
          /\ DOMAIN dirs'[n].flows = DOMAIN dirs[n].flows
          /\ \A f \in DOMAIN dirs[n].flows : dirs'[n].flows[f].pkt = dirs[n].flows[f].pkt

\* The application announces its flow.
Announces ==
    /\ app.pc = "announce" /\ app' = Idle
    /\ toAdapter' = Append(toAdapter, [signal |-> "NewFlow", switch |-> app.switch,
                                       flow |-> app.flow])

\* The application gives up, or goes on with the flow it made.
LEMMA AnsweringGoesOn ==
    ASSUME TInv, CameStays, Answering, SamePackets,
           UNCHANGED <<counter, toApp, mods>>,
           flow_counter' \in {flow_counter, flow_counter + 1},
           UNCHANGED toAdapter \/ Announces,
           \/ app' = Idle
           \/ /\ app.pc \in {"fill", "announce"} /\ app'.pc \in {"fill", "announce"}
              /\ app'.pkt = app.pkt /\ app'.flow = app.flow
              /\ UNCHANGED toAdapter
    PROVE Answering'
<1> USE DEF TInv
<1>1. flow_counter \in Nat /\ flow_counter' \in Nat /\ flow_counter <= flow_counter'
  BY DEF LifeOK
<1>2. \A r : /\ InApp(r)' => InApp(r)
             /\ InFlows(r)' <=> InFlows(r)
             /\ InMods(r)' <=> InMods(r)
  BY DEF InApp, InFlows, InFlow, HasFlow, InMods, Idle, SamePackets
<1>3. \A r : Free(r) => Free(r)' BY <1>2 DEF Free
<1>4. EntriesOK'
  <2>1. ASSUME NEW m \in DOMAIN dirs, NEW k \in DOMAIN dirs[m].packet_in
        PROVE Came(dirs[m].packet_in[k])' /\ k[2] <= counter[k[1]]
    <3>1. PICK r \in Packets : r = dirs[m].packet_in[k] BY <2>1, EntryTypes
    <3>2. Came(r)' BY <2>1, <3>1, CameLemma DEF Answering, EntriesOK
    <3>3. dirs'[m].packet_in[k] = r BY <2>1, <3>1 DEF SamePackets
    <3> QED BY <2>1, <3>2, <3>3 DEF Answering, EntriesOK, Came, Pending
  <2> QED BY <2>1 DEF Answering, EntriesOK, SamePackets
<1>5. AnnouncedOnce' BY DEF Answering, AnnouncedOnce
<1>6. TakenOK'
  <2>1. \A r \in Packets : Free(r)' \/ Came(r)'
    BY <1>3, CameLemma DEF Answering, TakenOK
  <2>2. ASSUME NEW j \in DOMAIN toApp', HasPacket(toApp[j].switch, toApp[j].packet)'
        PROVE Free(dirs[toApp[j].switch].packet_in[toApp[j].packet])'
    <3>1. PICK r : r = dirs'[toApp'[j].switch].packet_in[toApp'[j].packet] OBVIOUS
    <3>2. /\ j \in DOMAIN toApp /\ HasPacket(toApp[j].switch, toApp[j].packet)
          /\ r = dirs[toApp[j].switch].packet_in[toApp[j].packet]
      BY <2>2, <3>1 DEF HasPacket, SamePackets
    <3>3. Free(r)' BY <1>3, <3>2 DEF Answering, TakenOK
    <3> QED BY <3>1, <3>3 DEF Free, InApp, InFlows, InFlow, HasFlow, InMods
  <2> QED BY <2>1, <2>2 DEF TakenOK
<1>7. FlowsOK'
  <2>1. \A n \in DOMAIN dirs' : \A f \in DOMAIN dirs'[n].flows : f < flow_counter'
    <3> SUFFICES ASSUME NEW n \in DOMAIN dirs', NEW f \in DOMAIN dirs'[n].flows
                 PROVE f < flow_counter'
      OBVIOUS
    <3>1. n \in DOMAIN dirs /\ f \in DOMAIN dirs[n].flows BY DEF SamePackets
    <3>2. f \in Nat /\ f < flow_counter BY <3>1, EntryTypes DEF Answering, FlowsOK
    <3> QED BY <1>1, <3>2
  <2> QED BY <2>1 DEF Answering, FlowsOK, SamePackets
<1>8. AppOK'
  <2>1. CASE app' = Idle BY <2>1 DEF AppOK, Idle
  <2>2. CASE app' # Idle
    <3>1. /\ app.pc \in {"fill", "announce"} /\ app'.pc \in {"fill", "announce"}
          /\ app'.pkt = app.pkt /\ app'.flow = app.flow /\ UNCHANGED toAdapter
          /\ app.flow \in Nat
      BY <2>2 DEF AppTypeOK, Idle
    <3>2. ~InMods(app.pkt)'
      <4>1. PICK r : r = app.pkt OBVIOUS
      <4>2. ~InMods(r)' BY <1>2, <3>1, <4>1 DEF Answering, AppOK
      <4> QED BY <3>1, <4>1, <4>2 DEF InMods
    <3>3. app'.flow < flow_counter' BY <1>1, <3>1 DEF Answering, AppOK
    <3>4. \A n \in DOMAIN dirs' : \A f \in DOMAIN dirs'[n].flows :
             dirs'[n].flows[f].pkt = app'.pkt <=> f = app'.flow
      BY <3>1 DEF Answering, AppOK, SamePackets
    <3>5. \A i \in DOMAIN toAdapter' :
             toAdapter'[i].signal = "NewFlow" => toAdapter'[i].flow # app'.flow
      BY <3>1 DEF Answering, AppOK
    <3> QED BY <3>1, <3>2, <3>3, <3>4, <3>5 DEF AppOK
  <2> QED BY <2>1, <2>2
<1>9. SignalsOnce'
  <2>1. \A i \in DOMAIN toAdapter' :
           \/ i \in DOMAIN toAdapter /\ toAdapter'[i] = toAdapter[i]
           \/ /\ i = Len(toAdapter) + 1 /\ app.pc = "announce"
              /\ toAdapter'[i].flow = app.flow /\ toAdapter'[i].switch = app.switch
    BY DEF Announces, BusOK
  <2>2. \A i, j \in DOMAIN toAdapter' :
           /\ i # j
           /\ toAdapter'[i].signal = "NewFlow" /\ toAdapter'[j].signal = "NewFlow"
           => toAdapter'[i].flow # toAdapter'[j].flow
    <3> SUFFICES ASSUME NEW i \in DOMAIN toAdapter', NEW j \in DOMAIN toAdapter', i # j,
                        toAdapter'[i].signal = "NewFlow", toAdapter'[j].signal = "NewFlow"
                 PROVE toAdapter'[i].flow # toAdapter'[j].flow
      OBVIOUS
    <3>1. CASE i \in DOMAIN toAdapter /\ toAdapter'[i] = toAdapter[i]
      BY <2>1, <3>1 DEF Answering, AppOK, SignalsOnce
    <3>2. CASE ~(i \in DOMAIN toAdapter /\ toAdapter'[i] = toAdapter[i])
      BY <2>1, <3>2 DEF Answering, AppOK, SignalsOnce
    <3> QED BY <3>1, <3>2
  <2>3. ASSUME NEW i \in DOMAIN toAdapter', toAdapter'[i].signal = "NewFlow"
        PROVE /\ toAdapter'[i].flow < flow_counter'
              /\ HasFlow(toAdapter[i].switch, toAdapter[i].flow)' =>
                    ~InMods(dirs[toAdapter[i].switch].flows[toAdapter[i].flow].pkt)'
    <3>1. PICK m, g : m = toAdapter'[i].switch /\ g = toAdapter'[i].flow OBVIOUS
    <3>2. /\ g < flow_counter /\ g \in Nat
          /\ HasFlow(m, g) => ~InMods(dirs[m].flows[g].pkt)
      <4>1. CASE i \in DOMAIN toAdapter /\ toAdapter'[i] = toAdapter[i]
        <5>1. toAdapter[i] \in Signals BY <4>1 DEF BusOK
        <5>2. g \in Nat BY <2>3, <3>1, <4>1, <5>1 DEF Signals
        <5> QED BY <2>3, <3>1, <4>1, <5>2 DEF Answering, SignalsOnce
      <4>2. CASE app.pc = "announce" /\ g = app.flow /\ m = app.switch
        <5>1. g \in Nat /\ g < flow_counter
          BY <4>2 DEF Answering, AppOK, AppTypeOK, Idle
        <5>2. HasFlow(m, g) => dirs[m].flows[g].pkt = app.pkt
          BY <4>2 DEF Answering, AppOK, HasFlow
        <5>3. ~InMods(app.pkt) BY <4>2 DEF Answering, AppOK
        <5>4. PICK r : r = app.pkt OBVIOUS
        <5>5. HasFlow(m, g) => ~InMods(dirs[m].flows[g].pkt)
          BY <5>2, <5>3, <5>4 DEF InMods
        <5> QED BY <5>1, <5>5
      <4> QED BY <2>1, <3>1, <4>1, <4>2
    <3>3. g < flow_counter' BY <1>1, <3>2
    <3>4. HasFlow(m, g)' => HasFlow(m, g) /\ dirs'[m].flows[g].pkt = dirs[m].flows[g].pkt
      BY DEF HasFlow, SamePackets
    <3> QED BY <3>1, <3>2, <3>3, <3>4 DEF HasFlow, InMods
  <2> QED BY <2>2, <2>3 DEF SignalsOnce
<1>10. SentOnce' BY DEF Answering, SentOnce
<1> QED BY <1>4, <1>5, <1>6, <1>7, <1>8, <1>9, <1>10 DEF Answering


\* The application makes the flow of the packet it works on.
LEMMA AnsweringMake ==
    ASSUME TInv, CameStays, Answering, AppMake
    PROVE Answering'
<1> USE DEF TInv
<1>1. /\ UNCHANGED <<counter, toApp, toAdapter, mods>>
      /\ flow_counter' = flow_counter + 1 /\ flow_counter \in Nat
      /\ app.pc = "make"
  BY DEF AppMake, AppKeeps, adapterVars, busVars, LifeOK
<1>2. CASE app' = Idle /\ UNCHANGED dirs
  BY <1>1, <1>2, AnsweringGoesOn DEF SamePackets
<1>3. CASE ~(app' = Idle /\ UNCHANGED dirs)
  <2>1. /\ app \in [pc : {"make"}, switch : Names, pkt : Packets]
        /\ SwitchOf[app.pkt.conn] = app.switch
    BY <1>1 DEF AppTypeOK, Idle
  <2>2. /\ app.switch \in DOMAIN dirs
        /\ dirs' = [dirs EXCEPT ![app.switch].flows =
                       Put(@, flow_counter, Flow(app.pkt, FALSE))]
        /\ app' = [pc |-> "fill", switch |-> app.switch, pkt |-> app.pkt,
                   flow |-> flow_counter]
    BY <1>3 DEF AppMake, AfterMake
  <2>3. PICK n \in DOMAIN dirs, k \in Nat, q \in Packets, b \in BOOLEAN :
           n = app.switch /\ k = flow_counter /\ q = app.pkt /\ b = FALSE
    BY <1>1, <2>1, <2>2
  <2>4. /\ DOMAIN dirs' = DOMAIN dirs
        /\ \A m \in DOMAIN dirs \ {n} : dirs'[m] = dirs[m]
        /\ dirs'[n].flows = Put(dirs[n].flows, k, Flow(q, b))
        /\ dirs'[n].packet_in = dirs[n].packet_in
    <3>1. SwitchOf[q.conn] = n BY <2>1, <2>3
    <3>2. dirs' = [dirs EXCEPT ![n].flows = Put(@, k, Flow(q, b))] BY <2>2, <2>3
    <3> QED BY <3>1, <3>2, FlowPut
  <2>5. \A m \in DOMAIN dirs : \A f \in DOMAIN dirs[m].flows : f < k /\ f \in Nat
    BY <2>3, EntryTypes DEF Answering, FlowsOK
  <2>6. \A m \in DOMAIN dirs' : \A f \in DOMAIN dirs'[m].flows :
           \/ m = n /\ f = k /\ dirs'[m].flows[f].pkt = q
           \/ /\ f < k /\ f \in Nat /\ f \in DOMAIN dirs[m].flows
              /\ dirs'[m].flows[f] = dirs[m].flows[f]
    BY <2>4, <2>5 DEF Put, Flow
  <2>7. /\ n \in DOMAIN dirs' /\ k \in DOMAIN dirs'[n].flows
        /\ dirs'[n].flows[k].pkt = q
        /\ \A m \in DOMAIN dirs : \A f \in DOMAIN dirs[m].flows :
              f \in DOMAIN dirs'[m].flows /\ dirs'[m].flows[f] = dirs[m].flows[f]
    BY <2>4, <2>5 DEF Put, Flow
  <2>8. /\ InApp(q) /\ ~InFlows(q) /\ ~InMods(q) /\ ~Free(q)
    <3>1. ~InFlows(app.pkt) /\ ~InMods(app.pkt) BY <1>1 DEF Answering, AppOK
    <3>2. InApp(q) BY <1>1, <2>3 DEF InApp
    <3>3. ~InFlows(q) /\ ~InMods(q)
      BY <2>3, <3>1 DEF InFlows, InFlow, HasFlow, InMods
    <3> QED BY <3>2, <3>3 DEF Free
  <2>9. \A r : /\ InApp(r)' <=> InApp(r)
               /\ InFlows(r)' => InFlows(r) \/ r = q
               /\ InMods(r)' <=> InMods(r)
    <3>1. \A r : InApp(r)' <=> InApp(r) BY <1>1, <2>2 DEF InApp
    <3>2. \A r : InMods(r)' <=> InMods(r) BY <1>1 DEF InMods
    <3>3. \A r : InFlows(r)' => InFlows(r) \/ r = q
      BY <2>4, <2>6 DEF InFlows, InFlow, HasFlow
    <3> QED BY <3>1, <3>2, <3>3
  <2>10. \A r : Free(r) => Free(r)' BY <2>8, <2>9 DEF Free
  <2>11. EntriesOK'
    <3>1. \A m \in DOMAIN dirs : dirs'[m].packet_in = dirs[m].packet_in BY <2>4
    <3>2. ASSUME NEW m \in DOMAIN dirs, NEW x \in DOMAIN dirs[m].packet_in
          PROVE Came(dirs[m].packet_in[x])' /\ x[2] <= counter[x[1]]
      <4>1. PICK r \in Packets : r = dirs[m].packet_in[x] BY <3>2, EntryTypes
      <4>2. Came(r)' BY <3>2, <4>1, CameLemma DEF Answering, EntriesOK
      <4>3. dirs'[m].packet_in[x] = r BY <3>1, <3>2, <4>1
      <4> QED BY <3>2, <4>2, <4>3 DEF Answering, EntriesOK, Came, Pending
    <3> QED BY <1>1, <2>4, <3>1, <3>2 DEF Answering, EntriesOK
  <2>12. AnnouncedOnce' BY <1>1 DEF Answering, AnnouncedOnce
  <2>13. TakenOK'
    <3>1. \A r \in Packets : Free(r)' \/ Came(r)'
      BY <2>10, CameLemma DEF Answering, TakenOK
    <3>2. ASSUME NEW j \in DOMAIN toApp', HasPacket(toApp[j].switch, toApp[j].packet)'
          PROVE Free(dirs[toApp[j].switch].packet_in[toApp[j].packet])'
      <4>1. PICK r : r = dirs'[toApp'[j].switch].packet_in[toApp'[j].packet] OBVIOUS
      <4>2. /\ j \in DOMAIN toApp /\ HasPacket(toApp[j].switch, toApp[j].packet)
            /\ r = dirs[toApp[j].switch].packet_in[toApp[j].packet]
        BY <1>1, <2>4, <3>2, <4>1 DEF HasPacket
      <4>3. Free(r)' BY <2>10, <4>2 DEF Answering, TakenOK
      <4> QED BY <4>1, <4>3 DEF Free, InApp, InFlows, InFlow, HasFlow, InMods
    <3> QED BY <3>1, <3>2 DEF TakenOK
  <2>14. FlowsOK'
    <3>1. \A m \in DOMAIN dirs' : \A f \in DOMAIN dirs'[m].flows : f < flow_counter'
      BY <1>1, <2>3, <2>6
    <3>2. \A m \in DOMAIN dirs : \A f \in DOMAIN dirs[m].flows : dirs[m].flows[f].pkt # q
      BY <2>8 DEF InFlows, InFlow, HasFlow
    <3>3. \A m, o \in DOMAIN dirs' :
             \A f \in DOMAIN dirs'[m].flows, g \in DOMAIN dirs'[o].flows :
                \/ f = g
                \/ dirs'[m].flows[f].pkt = dirs'[o].flows[g].pkt
                => m = o /\ f = g
      <4> SUFFICES ASSUME NEW m \in DOMAIN dirs', NEW o \in DOMAIN dirs',
                          NEW f \in DOMAIN dirs'[m].flows, NEW g \in DOMAIN dirs'[o].flows,
                          f = g \/ dirs'[m].flows[f].pkt = dirs'[o].flows[g].pkt
                   PROVE m = o /\ f = g
        OBVIOUS
      <4>1. CASE f = k
        <5>1. m = n /\ dirs'[m].flows[f].pkt = q BY <2>3, <2>6, <4>1
        <5>2. o = n /\ g = k BY <2>3, <2>4, <2>6, <3>2, <4>1, <5>1
        <5> QED BY <4>1, <5>1, <5>2
      <4>2. CASE f # k
        <5>1. f \in DOMAIN dirs[m].flows /\ dirs'[m].flows[f] = dirs[m].flows[f] /\ f < k
          BY <2>6, <4>2
        <5>2. g # k BY <2>3, <2>4, <2>6, <3>2, <4>2, <5>1
        <5>3. g \in DOMAIN dirs[o].flows /\ dirs'[o].flows[g] = dirs[o].flows[g]
          BY <2>6, <5>2
        <5> QED BY <2>4, <5>1, <5>3 DEF Answering, FlowsOK
      <4> QED BY <4>1, <4>2
    <3> QED BY <3>1, <3>3 DEF FlowsOK
  <2>15. \A i \in DOMAIN toAdapter : toAdapter[i].signal = "NewFlow" =>
            toAdapter[i].flow \in Nat /\ toAdapter[i].flow < k
    <3>1. \A i \in DOMAIN toAdapter : toAdapter[i] \in Signals BY TInvTypes DEF TypeOK
    <3> QED BY <2>3, <3>1 DEF Signals, Answering, SignalsOnce
  <2>16. AppOK'
    <3>1. app'.pc = "fill" /\ app'.flow = k /\ app'.pkt = q BY <2>2, <2>3
    <3>2. app'.flow < flow_counter' BY <1>1, <2>3, <3>1
    <3>3. \A m \in DOMAIN dirs' : \A f \in DOMAIN dirs'[m].flows :
             dirs'[m].flows[f].pkt = app'.pkt <=> f = app'.flow
      <4>1. \A m \in DOMAIN dirs : \A f \in DOMAIN dirs[m].flows : dirs[m].flows[f].pkt # q
        BY <2>8 DEF InFlows, InFlow, HasFlow
      <4> QED BY <2>3, <2>4, <2>6, <3>1, <4>1
    <3>4. \A i \in DOMAIN toAdapter' :
             toAdapter'[i].signal = "NewFlow" => toAdapter'[i].flow # app'.flow
      BY <1>1, <2>3, <2>15, <3>1
    <3>5. ~InMods(app.pkt)' BY <1>1, <2>8, <3>1 DEF InMods
    <3> QED BY <3>1, <3>2, <3>3, <3>4, <3>5 DEF AppOK
  <2>17. SignalsOnce'
    <3>1. \A i, j \in DOMAIN toAdapter' :
             /\ i # j
             /\ toAdapter'[i].signal = "NewFlow" /\ toAdapter'[j].signal = "NewFlow"
             => toAdapter'[i].flow # toAdapter'[j].flow
      BY <1>1 DEF Answering, SignalsOnce
    <3>2. ASSUME NEW i \in DOMAIN toAdapter', toAdapter'[i].signal = "NewFlow"
          PROVE /\ toAdapter'[i].flow < flow_counter'
                /\ HasFlow(toAdapter[i].switch, toAdapter[i].flow)' =>
                      ~InMods(dirs[toAdapter[i].switch].flows[toAdapter[i].flow].pkt)'
      <4>1. PICK m, g : m = toAdapter'[i].switch /\ g = toAdapter'[i].flow OBVIOUS
      <4>2. g \in Nat /\ g < k /\ (HasFlow(m, g) => ~InMods(dirs[m].flows[g].pkt))
        BY <1>1, <2>15, <3>2, <4>1 DEF Answering, SignalsOnce
      <4>3. g < flow_counter' BY <1>1, <2>3, <4>2
      <4>4. HasFlow(m, g)' => HasFlow(m, g) /\ dirs'[m].flows[g] = dirs[m].flows[g]
        BY <2>3, <2>4, <2>6, <4>2 DEF HasFlow
      <4> QED BY <1>1, <4>1, <4>2, <4>3, <4>4 DEF HasFlow, InMods
    <3> QED BY <3>1, <3>2 DEF SignalsOnce
  <2>18. SentOnce' BY <1>1 DEF Answering, SentOnce
  <2> QED BY <2>11, <2>12, <2>13, <2>14, <2>16, <2>17, <2>18 DEF Answering
<1> QED BY <1>2, <1>3

\* The application writes the rest of the flow, or finds it gone.
LEMMA AnsweringFill ==
    ASSUME TInv, CameStays, Answering, AppFill
    PROVE Answering'
<1> USE DEF TInv
<1>1. UNCHANGED <<counter, toApp, toAdapter, mods, flow_counter>>
  BY DEF AppFill, AppKeeps, adapterVars, busVars
<1>2. /\ app \in [pc : {"fill", "announce"}, switch : Names, pkt : Packets, flow : Nat]
      /\ SwitchOf[app.pkt.conn] = app.switch /\ app.pc = "fill"
  BY DEF AppFill, AppTypeOK, Idle
<1>3. app' = Idle \/ app' = [app EXCEPT !.pc = "announce"] BY DEF AppFill, AfterFill
<1>4. SamePackets
  <2>1. CASE ~HasFlow(app.switch, app.flow) BY <2>1 DEF AppFill, SamePackets
  <2>2. CASE HasFlow(app.switch, app.flow)
    <3>1. app.switch \in DOMAIN dirs /\ app.flow \in DOMAIN dirs[app.switch].flows
      BY <2>2 DEF HasFlow
    <3>2. flowHasBufferId \in BOOLEAN BY NetworkAssumption DEF LifeOK
    <3>3. PICK n \in DOMAIN dirs, f \in Nat, q \in Packets, b \in BOOLEAN :
             n = app.switch /\ f = app.flow /\ q = app.pkt /\ b = flowHasBufferId
      BY <1>2, <3>1, <3>2
    <3>4. /\ DOMAIN dirs' = DOMAIN dirs
          /\ \A m \in DOMAIN dirs \ {n} : dirs'[m] = dirs[m]
          /\ dirs'[n].flows = Put(dirs[n].flows, f, Flow(q, b))
          /\ dirs'[n].packet_in = dirs[n].packet_in
      <4>1. SwitchOf[q.conn] = n BY <1>2, <3>3
      <4>2. dirs' = [dirs EXCEPT ![n].flows = Put(@, f, Flow(q, b))]
        BY <2>2, <3>3 DEF AppFill
      <4> QED BY <4>1, <4>2, FlowPut
    <3>5. dirs[n].flows[f].pkt = q
      BY <1>2, <3>1, <3>3 DEF Answering, AppOK
    <3> QED BY <3>1, <3>3, <3>4, <3>5 DEF SamePackets, Put, Flow
  <2> QED BY <2>1, <2>2
<1>5. \/ app' = Idle
      \/ /\ app.pc \in {"fill", "announce"} /\ app'.pc \in {"fill", "announce"}
         /\ app'.pkt = app.pkt /\ app'.flow = app.flow
  BY <1>2, <1>3
<1> QED BY <1>1, <1>4, <1>5, AnsweringGoesOn

LEMMA AnsweringAnnounce ==
    ASSUME TInv, CameStays, Answering, AppAnnounce
    PROVE Answering'
<1>1. /\ UNCHANGED <<counter, toApp, mods, flow_counter, dirs>>
      /\ app' = Idle /\ app.pc = "announce"
      /\ UNCHANGED toAdapter \/ Announces
  BY DEF AppAnnounce, AppKeeps, adapterVars, Announces
<1> QED BY <1>1, AnsweringGoesOn DEF SamePackets


\* Nothing happens to what the invariant is about.
LEMMA AnsweringStays ==
    ASSUME TInv, CameStays, Answering,
           UNCHANGED <<dirs, app, flow_counter, counter, toApp, mods>>,
           UNCHANGED toAdapter \/ toAdapter' = << >>
    PROVE Answering'
<1>1. NoNewFlows /\ NoNewEntries /\ NoNewSignals
  BY DEF NoNewFlows, NoNewEntries, NoNewSignals
<1>2. SignalsDiffer' BY DEF SignalsDiffer, Answering, SignalsOnce
<1> QED BY <1>1, <1>2, AnsweringKept

LEMMA OnceStep ==
    ASSUME TInv, Once, [Next]_vars
    PROVE Once'
<1>1. StreamsOK /\ StreamsOK' /\ CameStays BY StreamsStep DEF Once
<1>2. SUFFICES ASSUME FirstLife' PROVE Answering'
  BY <1>1 DEF Once, Answering
<1>3. starts \in Nat \ {0} /\ appStarts \in Nat \ {0} BY DEF TInv, LifeOK
<1>4. ASSUME UNCHANGED <<starts, appStarts>> PROVE Answering
  BY <1>2, <1>4 DEF Once, Answering, FirstLife
<1>5. CASE UNCHANGED vars
  <2>1. UNCHANGED <<starts, appStarts, dirs, app, flow_counter, counter, toApp, mods,
                    toAdapter>>
    BY <1>5 DEF vars, adapterVars, busVars, appVars
  <2> QED BY <1>1, <1>4, <2>1, AnsweringStays
<1>6. CASE Quiet BY <1>1, <1>4, <1>6, QuietKeeps, AnsweringStays
<1>7. CASE Ends BY <1>1, <1>4, <1>7, DieKeeps, AnsweringStays
<1>8. ASSUME NEW c \in Conns, NEW k \in FeatureKinds, HandleFeatures(c, k)
      PROVE Answering'
  <2>1. UNCHANGED <<starts, toAdapter, app, flow_counter, appStarts, mods, counter, toApp>>
    BY <1>8 DEF HandleFeatures, busVars, appVars
  <2>2. dirs' = dirs \/ dirs' = DirsAfterFeatures(SwitchOf[c], k)
    BY <1>8 DEF HandleFeatures
  <2>3. SwitchOf[c] \in Names BY DEF Names
  <2>4. dirs' = dirs \/ Grown(dirs') BY <2>2, <2>3, FeaturesDirs DEF TInv
  <2>5. NoNewFlows /\ NoNewSignals /\ NoNewEntries
    BY <2>1, <2>4 DEF NoNewFlows, NoNewSignals, NoNewEntries, Grown
  <2>6. Answering BY <1>4, <2>1
  <2>7. SignalsDiffer' BY <2>1, <2>6 DEF SignalsDiffer, Answering, SignalsOnce
  <2> QED BY <1>1, <2>1, <2>5, <2>6, <2>7, AnsweringKept
<1>9. ASSUME NEW c \in Conns, NEW p, NEW i \in 1 .. MaxMsgs, HandlePacketIn(c, p, i)
      PROVE Answering'
  <2>1. UNCHANGED <<starts, appStarts>> BY <1>9 DEF HandlePacketIn, appVars
  <2> QED BY <1>1, <1>4, <1>9, <2>1, AnsweringPacket
<1>10. ASSUME NEW c \in Conns, Closed(c) PROVE Answering'
  <2>1. UNCHANGED <<starts, toAdapter, app, flow_counter, appStarts, mods, counter, toApp>>
    BY <1>10 DEF Closed, busVars, appVars
  <2>2. dirs' = dirs \/ dirs' = Drop(dirs, SwitchOf[c])
    BY <1>10 DEF Closed, DirsAfterClosed
  <2>3. NoNewFlows /\ NoNewSignals /\ NoNewEntries
    BY <2>1, <2>2 DEF NoNewFlows, NoNewSignals, NoNewEntries, Drop
  <2>4. Answering BY <1>4, <2>1
  <2>5. SignalsDiffer' BY <2>1, <2>4 DEF SignalsDiffer, Answering, SignalsOnce
  <2> QED BY <1>1, <2>1, <2>3, <2>4, <2>5, AnsweringKept
<1>11. ASSUME NEW s, SignalIgnored(s) \/ NewPacketOut(s) PROVE Answering'
  <2>1. /\ Signalled(s) /\ toAdapter' = Tail(toAdapter)
        /\ UNCHANGED <<starts, dirs, app, flow_counter, appStarts, mods, counter, toApp>>
    BY <1>11 DEF SignalIgnored, NewPacketOut, appVars, adapterVars
  <2>2. Answering BY <1>4, <2>1
  <2>3. NoNewFlows /\ NoNewSignals /\ NoNewEntries
    BY <2>1, TailSignals DEF TInv, NoNewFlows, NoNewEntries
  <2>4. SignalsDiffer' BY <2>1, <2>2, TailDiffers
  <2> QED BY <1>1, <2>1, <2>2, <2>3, <2>4, AnsweringKept
<1>12. ASSUME NEW s, NewFlow(s) PROVE Answering'
  <2>1. UNCHANGED <<starts, appStarts>> BY <1>12 DEF NewFlow, appVars, adapterVars
  <2> QED BY <1>1, <1>4, <1>12, <2>1, AnsweringSend
<1>13. CASE AppLoad \/ AppMake \/ AppFill \/ AppAnnounce
  <2>1. UNCHANGED <<starts, appStarts>>
    BY <1>13 DEF AppLoad, AppMake, AppFill, AppAnnounce, AppKeeps, adapterVars
  <2> QED BY <1>1, <1>4, <1>13, <2>1, AnsweringLoad, AnsweringMake, AnsweringFill,
             AnsweringAnnounce
<1>14. ASSUME NEW n \in Names, NEW s \in {"FlowMod", "PacketOut"}, OtherSignal(n, s)
       PROVE Answering'
  <2>1. UNCHANGED <<starts, dirs, app, flow_counter, appStarts, mods, counter, toApp>>
    BY <1>14 DEF OtherSignal, appVars, adapterVars
  <2>2. \A i \in DOMAIN toAdapter' :
           \/ i \in DOMAIN toAdapter /\ toAdapter'[i] = toAdapter[i]
           \/ toAdapter'[i] = [signal |-> s, switch |-> n]
    BY <1>14 DEF OtherSignal, TInv, BusOK
  <2>3. Answering BY <1>4, <2>1
  <2>4. NoNewFlows /\ NoNewSignals /\ NoNewEntries
    BY <2>1, <2>2 DEF NoNewFlows, NoNewSignals, NoNewEntries
  <2>5. \A i \in DOMAIN toAdapter' : toAdapter'[i].signal = "NewFlow" =>
           i \in DOMAIN toAdapter /\ toAdapter'[i] = toAdapter[i]
    BY <2>2
  <2>6. SignalsDiffer' BY <2>3, <2>5 DEF SignalsDiffer, Answering, SignalsOnce
  <2> QED BY <1>1, <2>1, <2>3, <2>4, <2>6, AnsweringKept
<1>15. ~Start BY <1>2, <1>3 DEF Start, FirstLife
<1>16. ~AppRestart BY <1>2, <1>3 DEF AppRestart, FirstLife
<1> QED BY <1>5, <1>6, <1>7, <1>8, <1>9, <1>10, <1>11, <1>12, <1>13, <1>14, <1>15, <1>16,
           StepCases, Zenon

LEMMA OnceInit == Init => Once
<1> SUFFICES ASSUME Init PROVE Once OBVIOUS
<1>1. /\ inq = [c \in Conns |-> << >>] /\ nsent = [c \in Conns |-> 0]
      /\ dirs = << >> /\ toApp = << >> /\ toAdapter = << >> /\ app = Idle
      /\ mods = [c \in Conns |-> << >>]
  BY DEF Init
<1>2. DOMAIN dirs = {} /\ DOMAIN toApp = {} /\ DOMAIN toAdapter = {}
      /\ \A c \in Conns : DOMAIN mods[c] = {} /\ DOMAIN inq[c] = {}
  BY <1>1
<1>3. StreamsOK BY <1>1, <1>2 DEF StreamsOK, Pending
<1>4. EntriesOK /\ AnnouncedOnce /\ FlowsOK /\ SentOnce /\ SignalsOnce
  BY <1>2 DEF EntriesOK, AnnouncedOnce, FlowsOK, SentOnce, SignalsOnce
<1>5. TakenOK /\ AppOK
  BY <1>1, <1>2 DEF TakenOK, AppOK, Free, InApp, InFlows, InMods, Idle
<1> QED BY <1>3, <1>4, <1>5 DEF Once

LEMMA OnceAnswers == Once => AnsweredOnce
<1> SUFFICES ASSUME Once, starts = 1, appStarts = 1, NEW p \in Packets
             PROVE Cardinality(Answers(p)) <= 1
  BY DEF AnsweredOnce
<1>1. SentOnce BY DEF Once, FirstLife
<1>2. \A x, y \in Answers(p) : x = y
  BY <1>1 DEF Answers, SentOnce
<1>3. CASE Answers(p) = {} BY <1>3, FS_EmptySet
<1>4. CASE Answers(p) # {}
  <2>1. PICK x : x \in Answers(p) BY <1>4
  <2>2. Answers(p) = {x} BY <1>2, <2>1
  <2> QED BY <2>2, FS_Singleton
<1> QED BY <1>3, <1>4

\* In the first life of the adapter and of the application a packet is
\* answered at most once: packet directories get names that were not given
\* out before, so each signal is about a packet of its own, and flow numbers
\* are not given out twice, so each flow is announced and sent once.
THEOREM AnsweredAtMostOnce == Spec => []AnsweredOnce
<1>1. TInv /\ Once /\ [Next]_vars => Once' BY OnceStep
<1> QED BY <1>1, OnceInit, OnceAnswers, TInvAlways, PTL DEF Spec

-----------------------------------------------------------------------------
(* Refinement: connections as queues of messages *)

\* The messages of connection c that came and were not handled are the next of
\* those that were written; all of them, while more may come.
Stream(c) ==
    /\ written[c] \in Seq(InMsgs) /\ taken[c] \in Seq(InMsgs) /\ inq[c] \in Seq(InMsgs)
    /\ Len(taken[c]) + Len(inq[c]) <= Len(written[c])
    /\ \A i \in 1 .. Len(inq[c]) : inq[c][i] = written[c][Len(taken[c]) + i]
    /\ conn[c] = "none" \/ Connected(c) =>
          Len(taken[c]) + Len(inq[c]) = Len(written[c])
    /\ conn[c] = "none" => inq[c] = << >>

HInv ==
    /\ written = [c \in Conns |-> written[c]] /\ taken = [c \in Conns |-> taken[c]]
    /\ \A c \in Conns : Stream(c)

\* What is known of the connections without the memory.
ConnsOK ==
    /\ inq = [c \in Conns |-> inq[c]]
    /\ nsent \in [Conns -> Nat]
    /\ conn \in [Conns -> {"none", "backlog", "open", "closed"}]
    /\ peer \in [Conns -> {"up", "gone", "reset"}]

\* What a step does to a connection.  Nothing of it is seen in the first case.
Loses(c) ==
    /\ UNCHANGED <<written[c], taken[c]>>
    /\ \E n \in 0 .. Len(inq[c]) : inq'[c] = SubSeq(inq[c], 1, n)
    /\ conn'[c] # "none" /\ ~Connected(c)'

Gets(c) == \E m \in InMsgs :
    /\ conn[c] = "none" \/ Connected(c)
    /\ inq'[c] = Append(inq[c], m) /\ written'[c] = Append(written[c], m)
    /\ UNCHANGED taken[c] /\ conn'[c] # "none"

Gives(c) ==
    /\ inq[c] # << >> /\ inq'[c] = Tail(inq[c]) /\ taken'[c] = Append(taken[c], Head(inq[c]))
    /\ UNCHANGED <<written[c], conn[c], peer[c]>> /\ conn[c] = "open"

Same(c) ==
    /\ UNCHANGED <<written[c], taken[c], inq[c], peer[c]>>
    /\ conn'[c] # conn[c] => conn[c] = "backlog" /\ conn'[c] = "open"

LEMMA StreamStep ==
    ASSUME NEW c \in Conns, Stream(c), Loses(c) \/ Gets(c) \/ Gives(c) \/ Same(c)
    PROVE  Stream(c)'
<1> DEFINE q == inq[c]
           t == taken[c]
           w == written[c]
<1>1. /\ w \in Seq(InMsgs) /\ t \in Seq(InMsgs) /\ q \in Seq(InMsgs)
      /\ Len(t) + Len(q) <= Len(w)
      /\ \A i \in 1 .. Len(q) : q[i] = w[Len(t) + i]
      /\ conn[c] = "none" \/ Connected(c) => Len(t) + Len(q) = Len(w)
      /\ conn[c] = "none" => q = << >>
  BY DEF Stream
<1>2. SUFFICES /\ w' \in Seq(InMsgs) /\ t' \in Seq(InMsgs) /\ q' \in Seq(InMsgs)
               /\ Len(t') + Len(q') <= Len(w')
               /\ \A i \in 1 .. Len(q') : q'[i] = w'[Len(t') + i]
               /\ conn'[c] = "none" \/ Connected(c)' => Len(t') + Len(q') = Len(w')
               /\ conn'[c] = "none" => q' = << >>
  BY DEF Stream
<1>3. CASE Loses(c)
  <2>1. PICK n \in 0 .. Len(q) : q' = SubSeq(q, 1, n) BY <1>3 DEF Loses
  <2>2. w' = w /\ t' = t /\ conn'[c] # "none" /\ ~Connected(c)' BY <1>3 DEF Loses
  <2> HIDE DEF q, t, w
  <2>3. /\ q' \in Seq(InMsgs) /\ Len(q') = n /\ \A i \in 1 .. n : q'[i] = q[i]
    BY <1>1, <2>1
  <2>4. Len(t') + Len(q') <= Len(w') BY <1>1, <2>1, <2>2, <2>3
  <2>5. \A i \in 1 .. Len(q') : q'[i] = w'[Len(t') + i]
    <3> SUFFICES ASSUME NEW i \in 1 .. n PROVE q'[i] = w[Len(t) + i] BY <2>2, <2>3
    <3>1. i \in 1 .. Len(q) BY <1>1, <2>1
    <3> QED BY <1>1, <2>3, <3>1
  <2> QED BY <1>1, <2>2, <2>3, <2>4, <2>5
<1>4. CASE Gets(c)
  <2>1. PICK m \in InMsgs :
           /\ conn[c] = "none" \/ Connected(c)
           /\ q' = Append(q, m) /\ w' = Append(w, m) /\ t' = t /\ conn'[c] # "none"
    BY <1>4 DEF Gets
  <2> HIDE DEF q, t, w
  <2>2. /\ q' \in Seq(InMsgs) /\ Len(q') = Len(q) + 1 /\ q'[Len(q) + 1] = m
        /\ \A i \in 1 .. Len(q) : q'[i] = q[i]
    BY <1>1, <2>1
  <2>3. /\ w' \in Seq(InMsgs) /\ Len(w') = Len(w) + 1 /\ w'[Len(w) + 1] = m
        /\ \A i \in 1 .. Len(w) : w'[i] = w[i]
    BY <1>1, <2>1
  <2>4. Len(t) + Len(q) = Len(w) /\ Len(t) \in Nat /\ Len(q) \in Nat BY <1>1, <2>1
  <2>5. \A i \in 1 .. Len(q') : q'[i] = w'[Len(t') + i]
    <3> SUFFICES ASSUME NEW i \in 1 .. Len(q) + 1 PROVE q'[i] = w'[Len(t) + i]
      BY <2>1, <2>2
    <3>1. CASE i = Len(q) + 1 BY <2>2, <2>3, <2>4, <3>1
    <3>2. CASE i \in 1 .. Len(q)
      <4>1. Len(t) + i \in 1 .. Len(w) BY <2>4, <3>2
      <4> QED BY <1>1, <2>2, <2>3, <3>2, <4>1
    <3> QED BY <2>4, <3>1, <3>2
  <2>6. Len(t') + Len(q') = Len(w') /\ Len(t') + Len(q') <= Len(w')
    BY <2>1, <2>2, <2>3, <2>4
  <2> QED BY <1>1, <2>1, <2>2, <2>3, <2>5, <2>6
<1>5. CASE Gives(c)
  <2>1. /\ q # << >> /\ q' = Tail(q) /\ t' = Append(t, Head(q)) /\ w' = w
        /\ conn'[c] = conn[c] /\ peer'[c] = peer[c] /\ conn[c] = "open"
    BY <1>5 DEF Gives
  <2>2. Connected(c)' => Connected(c) BY <2>1 DEF Connected
  <2> HIDE DEF q, t, w
  <2>3. /\ Head(q) \in InMsgs /\ q' \in Seq(InMsgs) /\ Len(q') = Len(q) - 1 /\ Len(q) > 0
        /\ \A i \in 1 .. Len(q) - 1 : q'[i] = q[i + 1]
    BY <1>1, <2>1
  <2>4. t' \in Seq(InMsgs) /\ Len(t') = Len(t) + 1 BY <1>1, <2>1, <2>3
  <2>5. \A i \in 1 .. Len(q') : q'[i] = w'[Len(t') + i]
    <3> SUFFICES ASSUME NEW i \in 1 .. Len(q) - 1 PROVE q[i + 1] = w[Len(t) + 1 + i]
      BY <2>1, <2>3, <2>4
    <3>1. i + 1 \in 1 .. Len(q) /\ Len(t) + (i + 1) = Len(t) + 1 + i BY <1>1, <2>3
    <3> QED BY <1>1, <3>1
  <2> QED BY <1>1, <2>1, <2>2, <2>3, <2>4, <2>5
<1>6. CASE Same(c)
  <2>1. q' = q /\ t' = t /\ w' = w /\ peer'[c] = peer[c] BY <1>6 DEF Same
  <2>2. conn'[c] = conn[c] \/ (conn[c] = "backlog" /\ conn'[c] = "open") BY <1>6 DEF Same
  <2>3. Connected(c)' => Connected(c) BY <2>1, <2>2 DEF Connected
  <2> HIDE DEF q, t, w
  <2> QED BY <1>1, <2>1, <2>2, <2>3
<1> QED BY <1>3, <1>4, <1>5, <1>6

-----------------------------------------------------------------------------
\* The steps, as the connections see them.
Taking(c) ==
    /\ conn[c] = "open" /\ inq[c] # << >>
    /\ inq' = [inq EXCEPT ![c] = Tail(inq[c])]
    /\ taken' = [taken EXCEPT ![c] = Append(taken[c], Head(inq[c]))]
    /\ UNCHANGED <<written, conn, peer>>

Opens(c) ==
    /\ conn[c] = "backlog" /\ conn' = [conn EXCEPT ![c] = "open"]
    /\ UNCHANGED <<written, taken, inq, peer>>

Closes(c) ==
    /\ conn[c] = "open" /\ conn' = [conn EXCEPT ![c] = "closed"]
    /\ inq' = [inq EXCEPT ![c] = << >>]
    /\ UNCHANGED <<written, taken, peer>>

AllClose ==
    /\ conn' = [c \in Conns |-> IF conn[c] = "none" THEN "none" ELSE "closed"]
    /\ inq' = [c \in Conns |-> << >>]
    /\ UNCHANGED <<written, taken, peer>>

Writing(c, m) ==
    /\ conn[c] = "none" \/ Connected(c)
    /\ conn' = [conn EXCEPT ![c] = IF conn[c] = "none" THEN "backlog" ELSE conn[c]]
    /\ inq' = [inq EXCEPT ![c] = Append(inq[c], m)]
    /\ written' = [written EXCEPT ![c] = Append(written[c], m)]
    /\ UNCHANGED <<taken, peer>>

Leaving(c, how, n) ==
    /\ conn[c] # "none"
    /\ peer' = [peer EXCEPT ![c] = how]
    /\ inq' = [inq EXCEPT ![c] = SubSeq(inq[c], 1, n)]
    /\ UNCHANGED <<written, taken, conn>>

Still == UNCHANGED <<written, taken, inq, conn, peer>>

FifoStep ==
    \/ Still \/ AllClose
    \/ \E c \in Conns : Taking(c) \/ Opens(c) \/ Closes(c)
    \/ \E c \in Conns : \E m \in InMsgs : Writing(c, m)
    \/ \E c \in Conns : \E how \in {"gone", "reset"}, n \in 0 .. Len(inq[c]) :
          Leaving(c, how, n)

\* When one connection gets a message, that is what is remembered.
LEMMA Remembered ==
    ASSUME ConnsOK, HInv, NEW c \in Conns, NEW m \in InMsgs, NEW q \in Seq(InMsgs), q = inq[c],
           inq' = [inq EXCEPT ![c] = Append(q, m)],
           written' = [d \in Conns |->
                         IF Arrives(d) THEN Append(written[d], inq'[d][Len(inq'[d])])
                         ELSE written[d]]
    PROVE  written' = [written EXCEPT ![c] = Append(written[c], m)]
<1>1. inq'[c] = Append(q, m) /\ \A d \in Conns \ {c} : inq'[d] = inq[d]
  BY DEF ConnsOK
<1>2. Len(Append(q, m)) = Len(q) + 1 /\ Append(q, m)[Len(q) + 1] = m OBVIOUS
<1>3. Arrives(c) /\ inq'[c][Len(inq'[c])] = m BY <1>1, <1>2 DEF Arrives
<1>4. \A d \in Conns \ {c} : ~Arrives(d)
  <2> SUFFICES ASSUME NEW d \in Conns \ {c} PROVE ~Arrives(d) OBVIOUS
  <2>1. inq[d] \in Seq(InMsgs) /\ inq'[d] = inq[d] BY <1>1 DEF HInv, Stream
  <2>2. Len(inq[d]) \in Nat BY <2>1
  <2> QED BY <2>1, <2>2 DEF Arrives
<1>5. written'[c] = Append(written[c], m) /\ \A d \in Conns \ {c} : written'[d] = written[d]
  BY <1>3, <1>4
<1>6. written = [d \in Conns |-> written[d]] BY DEF HInv
<1>7. written' = [d \in Conns |-> written'[d]] OBVIOUS
<1> QED BY <1>5, <1>6, <1>7

\* No connection gets a message when what was there is taken away or stays.
LEMMA NothingRemembered ==
    ASSUME HInv,
           \A d \in Conns : \/ inq'[d] = inq[d] \/ inq'[d] = << >>
                           \/ \E n \in 0 .. Len(inq[d]) : inq'[d] = SubSeq(inq[d], 1, n),
           written' = [d \in Conns |->
                         IF Arrives(d) THEN Append(written[d], inq'[d][Len(inq'[d])])
                         ELSE written[d]]
    PROVE  written' = written
<1>1. ASSUME NEW d \in Conns PROVE ~Arrives(d)
  <2>1. inq[d] \in Seq(InMsgs) BY DEF HInv, Stream
  <2>2. Len(inq[d]) \in Nat /\ Len(<< >>) = 0 BY <2>1
  <2>3. \A n \in 0 .. Len(inq[d]) : Len(SubSeq(inq[d], 1, n)) = n BY <2>1
  <2> QED BY <2>2, <2>3 DEF Arrives
<1> QED BY <1>1 DEF HInv

\* Every step is one of those.
LEMMA HStepCases ==
    ASSUME ConnsOK, HInv, [HNext]_hvars
    PROVE  FifoStep
<1> USE DEF connVars
<1>1. CASE UNCHANGED hvars BY <1>1 DEF hvars, vars, FifoStep, Still
<1>2. ASSUME NEW c \in Conns, Calls(c) PROVE FifoStep
  <2>1. /\ Deliver(c) /\ UNCHANGED written
        /\ conn' = conn => taken' = [taken EXCEPT ![c] = Append(taken[c], Head(inq[c]))]
        /\ conn' # conn => taken' = taken
    BY <1>2 DEF Calls
  <2>2. CASE Accept(c)
    <3>1. /\ conn[c] = "backlog" /\ conn' = [conn EXCEPT ![c] = "open"]
          /\ UNCHANGED <<inq, peer>>
      BY <2>2 DEF Accept
    <3>2. conn'[c] = "open" BY <3>1 DEF ConnsOK
    <3> QED BY <2>1, <3>1, <3>2 DEF Opens, FifoStep
  <2>3. ASSUME NEW how, Die(how), conn[c] # "none", conn[c] # "closed" PROVE FifoStep
    <3>1. /\ conn' = [d \in Conns |-> IF conn[d] = "none" THEN "none" ELSE "closed"]
          /\ inq' = [d \in Conns |-> << >>] /\ UNCHANGED peer
      BY <2>3 DEF Die
    <3>2. conn'[c] # conn[c] BY <2>3, <3>1
    <3> QED BY <2>1, <3>1, <3>2 DEF AllClose, FifoStep
  <2>4. ASSUME NEW e, NEW p, NEW i,
               \/ AcceptDies(c) \/ HandleHelloDies(c) \/ HandleEchoDies(c)
               \/ HandleErrorDies(c, e) \/ HandlePacketDies(c, p, i)
        PROVE  FifoStep
    <3>1. \E how : Die(how) BY <2>4, Endings, Zenon
    <3>2. conn[c] \in {"backlog", "open"}
      BY <2>4 DEF AcceptDies, HandleHelloDies, HandleEchoDies, HandleErrorDies,
                  HandlePacketDies, PacketIn, Handles
    <3> QED BY <2>3, <3>1, <3>2
  <2>5. CASE Closed(c)
    <3>1. /\ conn[c] = "open" /\ conn' = [conn EXCEPT ![c] = "closed"]
          /\ inq' = [inq EXCEPT ![c] = << >>] /\ UNCHANGED peer
      BY <2>5 DEF Closed
    <3>2. conn'[c] = "closed" BY <3>1 DEF ConnsOK
    <3> QED BY <2>1, <3>1, <3>2 DEF Closes, FifoStep
  <2>6. ASSUME conn[c] = "open", inq[c] # << >>, Popped(c), UNCHANGED <<conn, peer>>
        PROVE  FifoStep
    BY <2>1, <2>6 DEF Popped, Taking, FifoStep
  <2>7. ASSUME HandleHello(c) \/ HandleOther(c) PROVE FifoStep
    BY <2>6, <2>7 DEF HandleHello, HandleOther, Handles
  <2>8. ASSUME NEW k, HandleFeatures(c, k) PROVE FifoStep
    BY <2>6, <2>8 DEF HandleFeatures, Handles
  <2>9. ASSUME NEW p, NEW i, HandlePacketIgnored(c, p, i) \/ HandlePacketIn(c, p, i)
        PROVE  FifoStep
    BY <2>6, <2>9 DEF HandlePacketIgnored, HandlePacketIn, PacketIn, Handles
  <2> QED BY <2>1, <2>2, <2>4, <2>5, <2>7, <2>8, <2>9, Zenon DEF Deliver
<1>3. ASSUME Comes PROVE FifoStep
  <2>1. /\ Environment /\ UNCHANGED taken
        /\ written' = [d \in Conns |->
                         IF Arrives(d) THEN Append(written[d], inq'[d][Len(inq'[d])])
                         ELSE written[d]]
    BY <1>3 DEF Comes
  <2>2. ASSUME UNCHANGED <<inq, conn, peer>> PROVE FifoStep
    <3>1. written' = written BY <2>1, <2>2, NothingRemembered
    <3> QED BY <2>1, <2>2, <3>1 DEF Still, FifoStep
  <2>3. ASSUME Terminate PROVE FifoStep
    <3>1. /\ conn' = [d \in Conns |-> IF conn[d] = "none" THEN "none" ELSE "closed"]
          /\ inq' = [d \in Conns |-> << >>] /\ UNCHANGED peer
      BY <2>3 DEF Terminate, Die
    <3>2. written' = written BY <2>1, <3>1, NothingRemembered
    <3> QED BY <2>1, <3>1, <3>2 DEF AllClose, FifoStep
  <2>4. ASSUME Start \/ AppRestart PROVE FifoStep BY <2>2, <2>4 DEF Start, AppRestart
  <2>5. ASSUME NEW n, NEW s, OtherSignal(n, s) PROVE FifoStep BY <2>2, <2>5 DEF OtherSignal
  <2>6. ASSUME NEW c \in Conns, NEW m \in InMsgs,
               conn[c] = "none" \/ Connected(c), UNCHANGED peer,
               conn' = [conn EXCEPT ![c] = IF conn[c] = "none" THEN "backlog" ELSE conn[c]],
               inq' = [inq EXCEPT ![c] = Append(inq[c], m)]
        PROVE  FifoStep
    <3>1. inq[c] \in Seq(InMsgs) BY DEF HInv, Stream
    <3>2. written' = [written EXCEPT ![c] = Append(written[c], m)]
      BY <2>1, <2>6, <3>1, Remembered
    <3>3. Writing(c, m) BY <2>1, <2>6, <3>2 DEF Writing
    <3> QED BY <3>3 DEF FifoStep
  <2>7. ASSUME NEW c \in Conns, Connect(c) PROVE FifoStep
    <3>1. /\ conn[c] = "none" /\ conn' = [conn EXCEPT ![c] = "backlog"]
          /\ inq' = [inq EXCEPT ![c] = << [type |-> "hello"] >>] /\ UNCHANGED peer
      BY <2>7 DEF Connect
    <3>2. inq[c] = << >> BY <3>1 DEF HInv, Stream
    <3>3. Append(inq[c], [type |-> "hello"]) = << [type |-> "hello"] >> BY <3>2
    <3>4. [type |-> "hello"] \in InMsgs BY DEF InMsgs
    <3> QED BY <2>6, <3>1, <3>3, <3>4
  <2>8. ASSUME NEW c \in Conns, Connected(c)
        PROVE  conn[c] # "none" /\ conn = [conn EXCEPT ![c] = IF conn[c] = "none" THEN "backlog" ELSE conn[c]]
    BY <2>8 DEF Connected, ConnsOK
  <2>9. ASSUME NEW c \in Conns, NEW m \in Messages(c), SwitchSends(c, m) PROVE FifoStep
    <3>1. Connected(c) /\ nsent[c] < MaxMsgs /\ inq' = [inq EXCEPT ![c] = Append(inq[c], m)]
            /\ UNCHANGED <<conn, peer>>
      BY <2>9 DEF SwitchSends
    <3>2. nsent[c] + 1 \in 1 .. MaxMsgs BY <3>1, NetworkAssumption DEF ConnsOK
    <3>3. m \in InMsgs BY <3>2 DEF Messages, InMsgs
    <3> QED BY <2>6, <2>8, <3>1, <3>3
  <2>10. ASSUME NEW c \in Conns, NEW k \in FeatureKinds, SwitchAnswers(c, k) PROVE FifoStep
    <3>1. Connected(c) /\ UNCHANGED <<conn, peer>>
            /\ inq' = [inq EXCEPT ![c] = Append(inq[c], [type |-> "features_reply", kind |-> k])]
      BY <2>10 DEF SwitchAnswers
    <3>2. [type |-> "features_reply", kind |-> k] \in InMsgs BY DEF InMsgs
    <3> QED BY <2>6, <2>8, <3>1, <3>2
  <2>11. ASSUME NEW c \in Conns, NEW how \in {"gone", "reset"}, SwitchLeaves(c, how)
         PROVE  FifoStep
    <3>1. Connected(c) /\ peer' = [peer EXCEPT ![c] = how] /\ UNCHANGED conn
      BY <2>11 DEF SwitchLeaves
    <3>2. PICK n \in 0 .. Len(inq[c]) : inq' = [inq EXCEPT ![c] = SubSeq(inq[c], 1, n)]
      BY <2>11 DEF SwitchLeaves
    <3>3. inq'[c] = SubSeq(inq[c], 1, n) /\ \A d \in Conns \ {c} : inq'[d] = inq[d]
      BY <3>2 DEF ConnsOK
    <3>4. written' = written BY <2>1, <3>2, <3>3, NothingRemembered
    <3>5. Leaving(c, how, n) BY <2>1, <2>8, <3>1, <3>2, <3>4 DEF Leaving
    <3> QED BY <3>5 DEF FifoStep
  <2> QED BY <2>1, <2>3, <2>4, <2>5, <2>7, <2>9, <2>10, <2>11, Zenon DEF Environment
<1>4. ASSUME Dispatch, UNCHANGED <<written, taken>> PROVE FifoStep
  <2>1. PICK s : \/ SignalIgnored(s) \/ SignalMeetsNull(s)
                 \/ NewFlow(s) \/ NewFlowDies(s)
                 \/ NewPacketOut(s) \/ NewPacketOutDies(s)
    BY <1>4, Zenon DEF Dispatch
  <2>2. CASE SignalMeetsNull(s) \/ NewFlowDies(s) \/ NewPacketOutDies(s)
    <3>1. \E how : Die(how)
      BY <2>2 DEF SignalMeetsNull, NewFlowDies, NewPacketOutDies, SendDies
    <3> QED BY <1>4, <3>1 DEF Die, AllClose, FifoStep
  <2>3. CASE SignalIgnored(s) \/ NewFlow(s) \/ NewPacketOut(s)
    BY <1>4, <2>3 DEF SignalIgnored, NewFlow, NewPacketOut, Still, FifoStep
  <2> QED BY <2>1, <2>2, <2>3
<1>5. ASSUME AppStep, UNCHANGED <<written, taken>> PROVE FifoStep
  BY <1>5 DEF AppStep, AppLoad, AppMake, AppFill, AppAnnounce, AppKeeps, Still, FifoStep
<1> QED BY <1>1, <1>2, <1>3, <1>4, <1>5, Zenon DEF HNext

\* Such a step keeps the invariant of the memory.
LEMMA HInvStep ==
    ASSUME ConnsOK, HInv, FifoStep
    PROVE  HInv'
<1>1. /\ written = [d \in Conns |-> written[d]] /\ taken = [d \in Conns |-> taken[d]]
      /\ inq = [d \in Conns |-> inq[d]]
      /\ conn \in [Conns -> {"none", "backlog", "open", "closed"}]
      /\ peer \in [Conns -> {"up", "gone", "reset"}]
  BY DEF HInv, ConnsOK
<1>2. SUFFICES /\ written' = [d \in Conns |-> written'[d]] /\ taken' = [d \in Conns |-> taken'[d]]
               /\ \A d \in Conns : Loses(d) \/ Gets(d) \/ Gives(d) \/ Same(d)
  <2> SUFFICES ASSUME NEW d \in Conns, Loses(d) \/ Gets(d) \/ Gives(d) \/ Same(d)
               PROVE  Stream(d)'
    BY <1>2 DEF HInv
  <2> QED BY StreamStep DEF HInv
<1>3. \A d \in Conns : /\ SubSeq(inq[d], 1, 0) = << >> /\ 0 \in 0 .. Len(inq[d])
  <2> SUFFICES ASSUME NEW d \in Conns
               PROVE  SubSeq(inq[d], 1, 0) = << >> /\ 0 \in 0 .. Len(inq[d])
    OBVIOUS
  <2>1. inq[d] \in Seq(InMsgs) BY DEF HInv, Stream
  <2> QED BY <2>1
<1>4. CASE Still BY <1>1, <1>4 DEF Still, Same
<1>5. CASE AllClose
  <2>1. ASSUME NEW d \in Conns PROVE Loses(d) \/ Same(d)
    <3>1. CASE conn[d] = "none"
      <4>1. inq[d] = << >> BY <3>1 DEF HInv, Stream
      <4> QED BY <1>5, <3>1, <4>1 DEF AllClose, Same
    <3>2. CASE conn[d] # "none"
      <4>1. conn'[d] = "closed" /\ inq'[d] = << >> BY <1>5, <3>2 DEF AllClose
      <4> QED BY <1>3, <1>5, <4>1 DEF AllClose, Loses, Connected
    <3> QED BY <3>1, <3>2
  <2> QED BY <1>1, <1>5, <2>1 DEF AllClose
<1>6. ASSUME NEW c \in Conns, Taking(c)
      PROVE  taken' = [d \in Conns |-> taken'[d]] /\ \A d \in Conns : Gives(d) \/ Same(d)
  BY <1>1, <1>6 DEF Taking, Gives, Same
<1>7. ASSUME NEW c \in Conns, Opens(c) PROVE \A d \in Conns : Same(d)
  BY <1>1, <1>7 DEF Opens, Same
<1>8. ASSUME NEW c \in Conns, Closes(c) PROVE \A d \in Conns : Loses(d) \/ Same(d)
  <2>1. conn'[c] = "closed" /\ inq'[c] = << >> BY <1>1, <1>8 DEF Closes
  <2>2. Loses(c) BY <1>3, <1>8, <2>1 DEF Closes, Loses, Connected
  <2>3. \A d \in Conns \ {c} : Same(d) BY <1>1, <1>8 DEF Closes, Same
  <2> QED BY <2>2, <2>3
<1>9. ASSUME NEW c \in Conns, NEW m \in InMsgs, Writing(c, m)
      PROVE  written' = [d \in Conns |-> written'[d]] /\ \A d \in Conns : Gets(d) \/ Same(d)
  BY <1>1, <1>9 DEF Writing, Gets, Same
<1>10. ASSUME NEW c \in Conns, NEW how \in {"gone", "reset"}, NEW n \in 0 .. Len(inq[c]),
              Leaving(c, how, n)
       PROVE  \A d \in Conns : Loses(d) \/ Same(d)
  <2>1. peer'[c] # "up" /\ inq'[c] = SubSeq(inq[c], 1, n) /\ conn'[c] # "none"
    BY <1>1, <1>10 DEF Leaving
  <2>2. Loses(c) BY <1>10, <2>1 DEF Leaving, Loses, Connected
  <2>3. \A d \in Conns \ {c} : Same(d) BY <1>1, <1>10 DEF Leaving, Same
  <2> QED BY <2>2, <2>3
<1>11. (\E c \in Conns : Opens(c) \/ Closes(c))
           \/ (\E c \in Conns : \E how \in {"gone", "reset"}, n \in 0 .. Len(inq[c]) :
                  Leaving(c, how, n))
         => UNCHANGED <<written, taken>>
  BY DEF Opens, Closes, Leaving
<1>12. (\E c \in Conns : Taking(c)) => UNCHANGED written BY DEF Taking
<1>13. (\E c \in Conns : \E m \in InMsgs : Writing(c, m)) => UNCHANGED taken BY DEF Writing
<1> QED BY <1>1, <1>4, <1>5, <1>6, <1>7, <1>8, <1>9, <1>10, <1>11, <1>12, <1>13 DEF FifoStep

\* Such a step is one of MsgFifo, or none.
LEMMA FifoStepMaps ==
    ASSUME ConnsOK, HInv, FifoStep
    PROVE  [Fifo!Next]_Fifo!vars
<1> DEFINE st == [d \in Conns |-> IF conn[d] = "backlog" THEN "none" ELSE conn[d]]
<1>1. CASE Still BY <1>1 DEF Still, Fifo!vars
<1>2. CASE AllClose
  <2>0. PICK C \in SUBSET Conns : C = {d \in Conns : conn[d] \in {"backlog", "open"}}
    OBVIOUS
  <2>1. \A d \in C : st[d] # "closed" BY <2>0
  <2>2. st' = [d \in Conns |-> IF d \in C THEN "closed" ELSE st[d]]
    BY <1>2, <2>0 DEF AllClose, ConnsOK
  <2>3. Fifo!Close(C) BY <1>2, <2>1, <2>2 DEF AllClose, Fifo!Close
  <2> QED BY <2>3 DEF Fifo!Next
<1>3. ASSUME NEW c \in Conns, Taking(c) PROVE Fifo!Take(c)
  <2>1. /\ conn[c] = "open" /\ inq[c] # << >> /\ UNCHANGED <<written, conn>>
        /\ taken' = [taken EXCEPT ![c] = Append(taken[c], Head(inq[c]))]
    BY <1>3 DEF Taking
  <2>2. /\ inq[c] \in Seq(InMsgs) /\ taken[c] \in Seq(InMsgs) /\ written[c] \in Seq(InMsgs)
        /\ Len(taken[c]) + Len(inq[c]) <= Len(written[c])
        /\ \A i \in 1 .. Len(inq[c]) : inq[c][i] = written[c][Len(taken[c]) + i]
    BY DEF HInv, Stream
  <2>3. 1 \in 1 .. Len(inq[c]) /\ Head(inq[c]) = inq[c][1] BY <2>1, <2>2
  <2>4. Len(taken[c]) < Len(written[c]) /\ Head(inq[c]) = written[c][Len(taken[c]) + 1]
    <3> DEFINE q == inq[c]
               k == Len(taken[c])
    <3>1. inq[c][1] = written[c][Len(taken[c]) + 1] BY <2>2, <2>3
    <3>2. Len(q) \in Nat /\ k \in Nat /\ Len(written[c]) \in Nat /\ 1 <= Len(q) BY <2>2, <2>3
    <3>3. k + Len(q) <= Len(written[c]) BY <2>2
    <3> HIDE DEF q, k
    <3>4. k < Len(written[c]) BY <3>2, <3>3
    <3> QED BY <2>3, <3>1, <3>4 DEF k
  <2>5. st[c] = "open" /\ st' = st BY <2>1
  <2> QED BY <2>1, <2>4, <2>5 DEF Fifo!Take
<1>4. ASSUME NEW c \in Conns, Opens(c) PROVE Fifo!Open(c)
  <2>1. st[c] = "none" /\ st' = [st EXCEPT ![c] = "open"] BY <1>4 DEF Opens, ConnsOK
  <2> QED BY <1>4, <2>1 DEF Opens, Fifo!Open
<1>5. ASSUME NEW c \in Conns, Closes(c) PROVE Fifo!Close({c})
  <2>1. /\ st[c] # "closed"
        /\ st' = [d \in Conns |-> IF d \in {c} THEN "closed" ELSE st[d]]
    BY <1>5 DEF Closes, ConnsOK
  <2> QED BY <1>5, <2>1 DEF Closes, Fifo!Close
<1>6. ASSUME NEW c \in Conns, NEW m \in InMsgs, Writing(c, m) PROVE Fifo!Write(c)
  <2>1. st' = st BY <1>6 DEF Writing, ConnsOK
  <2> QED BY <1>6, <2>1 DEF Writing, Fifo!Write
<1>7. ASSUME NEW c \in Conns, NEW how, NEW n, Leaving(c, how, n) PROVE UNCHANGED Fifo!vars
  BY <1>7 DEF Leaving, Fifo!vars
<1> QED BY <1>1, <1>2, <1>3, <1>4, <1>5, <1>6, <1>7 DEF FifoStep, Fifo!Next

(***************************************************************************)
(* The adapter's switches are served as MsgFifo promises it: a message is  *)
(* handled when it is the next of its switch, once, and only on an open    *)
(* connection, however callbacks, bus signals, the ends and the starts of  *)
(* the adapter come in between.  OFChannelProofs shows that the bytes of   *)
(* the connections are framed as the same specification promises it.       *)
(***************************************************************************)
THEOREM NetworkIsFifo == HSpec => NetworkImplementsFifo
<1>1. HInit => TInv /\ StreamsOK /\ HInv /\ Fifo!Init
  <2> SUFFICES ASSUME HInit PROVE TInv /\ StreamsOK /\ HInv /\ Fifo!Init OBVIOUS
  <2>1. Init BY DEF HInit
  <2>2. /\ written = [c \in Conns |-> << >>] /\ taken = [c \in Conns |-> << >>]
        /\ inq = [c \in Conns |-> << >>] /\ conn = [c \in Conns |-> "none"]
    BY DEF HInit, Init
  <2>3. TInv BY <2>1, TInvInit
  <2>4. StreamsOK BY <2>1 DEF Init, StreamsOK, Pending
  <2>5. HInv BY <2>2 DEF HInv, Stream
  <2>6. Fifo!Init BY <2>2 DEF Fifo!Init
  <2> QED BY <2>3, <2>4, <2>5, <2>6
<1>2. TInv /\ StreamsOK => ConnsOK
  BY DEF TInv, SwitchesOK, StreamsOK, ConnsOK
<1>3. [HNext]_hvars => [Next]_vars
  BY DEF HNext, Calls, Comes, hvars, Next
<1>4. TInv /\ StreamsOK /\ HInv /\ [HNext]_hvars => TInv' /\ StreamsOK' /\ HInv'
  <2> SUFFICES ASSUME TInv, StreamsOK, HInv, [HNext]_hvars PROVE TInv' /\ StreamsOK' /\ HInv'
    OBVIOUS
  <2>1. TInv' /\ StreamsOK' BY <1>3, TInvStep, StreamsStep
  <2>2. FifoStep BY <1>2, HStepCases
  <2>3. HInv' BY <1>2, <2>2, HInvStep
  <2> QED BY <2>1, <2>3
<1>5. TInv /\ StreamsOK /\ HInv /\ [HNext]_hvars => [Fifo!Next]_Fifo!vars
  BY <1>2, HStepCases, FifoStepMaps
<1> QED BY <1>1, <1>4, <1>5, PTL DEF HSpec, NetworkImplementsFifo, Fifo!Spec

=============================================================================
