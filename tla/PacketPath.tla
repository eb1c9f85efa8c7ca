----------------------------- MODULE PacketPath -----------------------------
(***************************************************************************)
(* The way of a packet from a switch to an application (of_switch.cc,      *)
(* of_port.cc, of_packet_in.cc, the bindings that name their files, and    *)
(* yanc-cbench.py): the adapter writes what a switch says of itself and of *)
(* its ports into files (TypedFile), makes a directory for each PACKET_IN, *)
(* fills it file by file and signals its path; the application reads the   *)
(* files one by one.  Others write in between, and a directory outlives    *)
(* the adapter that made it, so a later packet may be put over it.         *)
(*                                                                         *)
(* A directory is its kind, a name and a number: packet_in directories are *)
(* named after what the file "name" of the port says, and a count.  One    *)
(* switch is kept; which connection a message comes from is in OFNetwork.  *)
(* A message is the values its files will have.  An instance keeps those of*)
(* the files it is about, port_no, name and total_len among them.          *)
(***************************************************************************)
EXTENDS TypedFile, OpenFlow10

CONSTANTS
    Replies,        \* FEATURES_REPLYs a switch sends
    Packets,        \* PACKET_INs it sends
    Digits,         \* how the number of a port is printed
    Beyond,         \* a byte of memory behind a message
    HdrLen,         \* bytes of an Ethernet header
    NoReply,        \* no switch is set up
    NoLoad,         \* the application reads nothing
    Configs,        \* GET_CONFIG_REPLYs it sends
    MaxMsgs,        \* bound on its messages
    MaxStarts,      \* bound on the starts of the adapter
    MaxWrites       \* bound on the writes and removals of others

Seqs == INSTANCE SequencesExt

ConfigFiles == <<"flags", "miss_send_len">>

SwitchFiles == <<"datapath_id", "n_buffers", "n_tables", "capabilities", "actions">>

PortFiles == <<"port_no", "hw_addr", "name", "config", "state", "f_curr",
               "f_advertised", "f_supported", "f_peer">>

PacketFiles == <<"buffer_id", "total_len", "in_port", "reason">>

\* What YSwitch.load() and YPacketIn.load() read.
SwitchLoad == <<"datapath_id", "n_buffers", "n_tables">>
PacketLoad == <<"buffer_id", "in_port", "total_len", "data">>

\* sizeof(struct ofp_phy_port) and sizeof(struct ofp11_port), by version.
PortSize == <<SizeOf(ofp_phy_port), SizeOf(ofp11_port)>>

SwitchDir == <<"switch", << >>, 0>>

\* OFPort::name_from(): a port without a name is called after its number.
PortDir(p) ==
    <<"ports", IF p.name = << >> THEN Digits[p.port_no] ELSE p.name, 0>>

\* What of rec goes into the files of d is of their types.
Typed(d, names, rec) ==
    \A i \in DOMAIN names :
        LET f == <<d, names[i]>>  v == rec[names[i]] IN
        f \in Files => IF f \in Of(Ints) THEN v \in Int
                      ELSE IF f \in Of(Addrs) THEN v \in Nat \X Octets
                      ELSE v \in Seq(Chars)

\* A file of a packet_in directory, and what a message has for it.
PacketFile(f, m) ==
    IF f[2] = "data" THEN TypeOf[f] = "raw" /\ <<f[1], "total_len">> \in Files
    ELSE /\ \E i \in DOMAIN PacketFiles : f[2] = PacketFiles[i]
         /\ TypeOf[f] \in Ints \ (IF f[2] = "total_len" THEN {"u8", "i8"} ELSE {})
         /\ m[f[2]] \in Int /\ Fits(TypeOf[f], m[f[2]])

ASSUME PacketAssumption ==
    /\ \A f \in Files : f = <<f[1], f[2]>>
    /\ \A r \in Replies :
          LET extra == r.length - SizeOf(ofp_switch_features)
              size == PortSize[r.version]
          IN /\ r.length \in Nat /\ extra >= 0
             /\ r.version \in DOMAIN PortSize /\ extra % size = 0
                   => 1 .. extra \div size \subseteq DOMAIN r.ports
             /\ Typed(SwitchDir, SwitchFiles, r)
             /\ \A i \in DOMAIN r.ports :
                   LET p == r.ports[i] IN
                   /\ Typed(PortDir(p), PortFiles, p)
                   /\ <<PortDir(p), "name">> \in Of({"str"})
                   /\ p.name = << >> => Digits[p.port_no] # << >>
    /\ \A r \in Configs : Typed(SwitchDir, ConfigFiles, r)
    /\ \A m \in Packets :
          /\ m.version \in DOMAIN PortSize
          /\ m.data \in Seq(Chars) /\ Len(m.data) <= m.total_len
          /\ m.total_len \in Nat /\ m.in_port \in Nat
          /\ \A f \in Files : f[1][1] = "packet_in" => PacketFile(f, m)
    /\ Beyond \in Chars /\ HdrLen \in Nat
    /\ NoReply \notin Replies
    /\ MaxMsgs \in Nat /\ MaxStarts \in Nat \ {0} /\ MaxWrites \in Nat

VARIABLES
    up,             \* the adapter runs
    present,        \* directories there are
    ports_by_no,    \* OFSwitch::ports_by_no: the port's directory
    counter,        \* OFPacketIn::_counter
    task,           \* steps the adapter's callback has still to take
    reply,          \* the FEATURES_REPLY this adapter has set up, if any
    starts,         \* times the adapter was started
    toApp,          \* directories signalled and not yet taken up
    app,            \* what load() has still to read, and what it read
    made,           \* packet_in directories, and what they were made from
    mislabelled,    \* the file "name" of a port may not say its name
    nsent,          \* messages of the switch so far
    writes          \* writes and removals of others so far

vars == <<fileVars, up, present, ports_by_no, counter, task, reply, starts, toApp,
          app, made, mislabelled, nsent, writes>>

-----------------------------------------------------------------------------
Get(f, k, d) == IF k \in DOMAIN f THEN f[k] ELSE d
Put(f, k, v) == [x \in DOMAIN f \cup {k} |-> IF x = k THEN v ELSE f[x]]

Init ==
    /\ FilesInit /\ up = TRUE
    /\ present = {} /\ ports_by_no = << >> /\ counter = << >>
    /\ task = << >> /\ reply = NoReply /\ starts = 1
    /\ toApp = << >> /\ app = NoLoad /\ made = << >> /\ mislabelled = FALSE
    /\ nsent = 0 /\ writes = 0

-----------------------------------------------------------------------------
(***************************************************************************)
(* What a callback does, step by step.                                     *)
(***************************************************************************)
Mkdir(d) == [do |-> "mkdir", dir |-> d]
WriteTo(d, name, v) == [do |-> "write", file |-> <<d, name>>, value |-> v]
Index(d) == [do |-> "index", dir |-> d]
Data(d, m) == [do |-> "data", dir |-> d, msg |-> m]
Signal(d) == [do |-> "signal", dir |-> d]
Throw(isNew) == [do |-> "throw", isNew |-> isNew]

\* The names of files in d that are of this instance.
Tracked(d, names) ==
    LET kept[i \in 0 .. Len(names)] ==
            IF i = 0 THEN << >>
            ELSE IF <<d, names[i]>> \in Files THEN Append(kept[i - 1], names[i])
            ELSE kept[i - 1]
    IN kept[Len(names)]

WriteAll(d, names, rec) ==
    LET kept == Tracked(d, names)
    IN [i \in DOMAIN kept |-> WriteTo(d, kept[i], rec[kept[i]])]

\* _add_port(): OFPort's constructor, and the maps, by what its files say.
AddPort(p) ==
    <<Mkdir(PortDir(p))>> \o WriteAll(PortDir(p), PortFiles, p) \o <<Index(PortDir(p))>>

\* Ports are always read as ofp_phy_port, of whatever version the reply is.
AddPorts(r) ==
    LET extra == r.length - SizeOf(ofp_switch_features)
        size == PortSize[r.version]
    IN IF extra % size # 0 THEN <<Throw(SwitchDir \notin present)>>
       ELSE Seqs!FlattenSeq([i \in 1 .. extra \div size |-> AddPort(r.ports[i])])
               \o <<Signal(SwitchDir)>>

\* OFSwitch::OFSwitch(); another version than 1.0 and 1.1 ends it early.
SetUp(r) ==
    <<Mkdir(SwitchDir)>> \o
    IF r.version \notin DOMAIN PortSize THEN << >>
    ELSE WriteAll(SwitchDir, SwitchFiles, r) \o AddPorts(r)

\* Mutants: the signal goes out first; data before its length is known.
FillSignalFirst(d, m) ==
    <<Mkdir(d), Signal(d)>> \o WriteAll(d, PacketFiles, m) \o <<Data(d, m)>>
FillDataFirst(d, m) ==
    <<Mkdir(d), Data(d, m)>> \o WriteAll(d, PacketFiles, m) \o <<Signal(d)>>

\* OFPacketIn's constructor and the rest of handle_packet_in().
Fill(d, m) ==
    <<Mkdir(d)>> \o WriteAll(d, PacketFiles, m) \o <<Data(d, m), Signal(d)>>

-----------------------------------------------------------------------------
(***************************************************************************)
(* Messages of the switch.  The adapter's one thread finishes a callback   *)
(* before the next.                                                        *)
(***************************************************************************)
Receives ==
    /\ up /\ task = << >> /\ pending = NoWrite
    /\ nsent < MaxMsgs /\ nsent' = nsent + 1

\* FEATURES_REPLY from a connection that is no switch yet.
HandleFeatures(r) ==
    /\ Receives /\ reply = NoReply
    /\ task' = SetUp(r) /\ reply' = r
    /\ UNCHANGED <<fileVars, up, present, ports_by_no, counter, starts, toApp, app,
                   made, writes, mislabelled>>

\* read_switch_config(), of a switch that is known.
HandleConfig(r) ==
    /\ Receives /\ reply # NoReply
    /\ task' = WriteAll(SwitchDir, ConfigFiles, r)
    /\ UNCHANGED <<fileVars, up, present, ports_by_no, counter, reply, starts, toApp,
                   app, made, writes, mislabelled>>

\* Mutant: packets are not counted.
CountForgotten(p) == counter' = Put(counter, p, 1)

\* ++_counter[port_no]
Count(p) == counter' = Put(counter, p, Get(counter, p, 0) + 1)

\* _name_from() reads the port's name from its file.
PortName(p) == ReadText(<<ports_by_no[p], "name">>)

\* In version 1.0 the frame begins before the structure ends.
Overlap == SizeOf(ofp_packet_in) - Extent(ofp_packet_in)

\* ofp11_packet_in_from_ofp_packet_in() takes the size of the structure off the
\* length of the message.
Copied(m) == IF m.version = 1 THEN Len(m.data) - Overlap ELSE Len(m.data)

HandlePacketIn(m) ==
    LET d == <<"packet_in", PortName(m.in_port), counter'[m.in_port]>> IN
    /\ Receives /\ m.in_port \in DOMAIN ports_by_no /\ Copied(m) >= 0
    /\ Count(m.in_port)
    /\ task' = Fill(d, m)
    /\ made' = Put(made, d, [msg |-> m, nth |-> nsent, life |-> starts,
                            new |-> d \notin present,
                            said |-> FALSE, touched |-> FALSE])
    /\ UNCHANGED <<fileVars, up, present, ports_by_no, reply, starts, toApp, app, writes, mislabelled>>

\* Of a message of version 1.0 with less than two bytes of the frame a negative
\* number are copied; a port that is not in ports_by_no is a null pointer.
HandlePacketDies(m) ==
    /\ Receives /\ reply # NoReply
    /\ Copied(m) < 0 \/ m.in_port \notin DOMAIN ports_by_no
    /\ up' = FALSE
    /\ UNCHANGED <<fileVars, present, ports_by_no, counter, task, reply, starts, toApp,
                   app, made, writes, mislabelled>>

-----------------------------------------------------------------------------
(***************************************************************************)
(* One step of a callback.  A string is written by WriteRest before the    *)
(* next.                                                                   *)
(***************************************************************************)
Goes(s) ==
    /\ up /\ task # << >> /\ pending = NoWrite
    /\ s = Head(task) /\ task' = Tail(task)

FilesOf(D) == {f \in Files : f[1] \in D}

\* Directory::Directory() makes what is not there.
DoMkdir(s) ==
    /\ Goes(s) /\ s.do = "mkdir"
    /\ present' = present \cup {s.dir}
    /\ IF s.dir \in present THEN UNCHANGED fileVars ELSE MakeFiles(FilesOf({s.dir}))
    /\ UNCHANGED <<up, ports_by_no, counter, reply, starts, toApp, app, made, nsent,
                   writes, mislabelled>>

\* What operator<< makes of a value; there is no newline.
Printed(f, v) ==
    [form |-> IF f \in Of(Addrs) THEN "address" ELSE "number",
     n |-> v, mask |-> -1, closed |-> FALSE]

\* A file that is not there takes nothing, and for no text nothing is written.
WriteFile(f, v) ==
    IF f \notin Files \/ f[1] \notin present THEN UNCHANGED fileVars
    ELSE IF f \in Of(Strings)
         THEN IF v = << >> THEN UNCHANGED fileVars ELSE Write(f, v)
         ELSE Write(f, Printed(f, v))

DoWrite(s) ==
    /\ Goes(s) /\ s.do = "write"
    /\ WriteFile(s.file, s.value)
    /\ UNCHANGED <<up, present, ports_by_no, counter, reply, starts, toApp, app, made,
                   nsent, writes, mislabelled>>

\* The number is read back from the file.
DoIndex(s) ==
    /\ Goes(s) /\ s.do = "index"
    /\ ports_by_no' = Put(ports_by_no, ReadNumber(<<s.dir, "port_no">>), s.dir)
    /\ UNCHANGED <<fileVars, up, present, counter, reply, starts, toApp, app, made,
                   nsent, writes, mislabelled>>

\* The n bytes at the frame: what memory holds behind the copy follows it.
FromMemory(m, n) ==
    [i \in 1 .. n |-> IF i <= Copied(m) THEN m.data[i] ELSE Beyond]

\* The length is read back from the file, and is that of the whole frame, of
\* which the message may hold only the first part.
DoData(s) ==
    LET n == ReadNumber(<<s.dir, "total_len">>) IN
    /\ Goes(s) /\ s.do = "data"
    /\ IF <<s.dir, "data">> \notin Files \/ n = Undef THEN UNCHANGED fileVars
       ELSE WriteFile(<<s.dir, "data">>, FromMemory(s.msg, n))
    /\ UNCHANGED <<up, present, ports_by_no, counter, reply, starts, toApp, app, made,
                   nsent, writes, mislabelled>>

DoSignal(s) ==
    /\ Goes(s) /\ s.do = "signal"
    /\ toApp' = Append(toApp, s.dir)
    /\ made' = IF s.dir \in DOMAIN made THEN [made EXCEPT ![s.dir].said = TRUE] ELSE made
    /\ UNCHANGED <<fileVars, up, present, ports_by_no, counter, reply, starts, app,
                   nsent, writes, mislabelled>>

\* Mutant: the switch is known in spite of the exception.
ThrowKeepsReply(s) ==
    /\ Goes(s) /\ s.do = "throw"
    /\ present' = IF s.isNew THEN {} ELSE present
    /\ UNCHANGED <<fileVars, up, ports_by_no, counter, reply, starts, toApp, app, made,
                   nsent, writes, mislabelled>>

\* ~Directory() takes away what the constructor made; the connection stays.
DoThrow(s) ==
    /\ Goes(s) /\ s.do = "throw"
    /\ present' = IF s.isNew THEN {} ELSE present
    /\ reply' = NoReply
    /\ UNCHANGED <<fileVars, up, ports_by_no, counter, starts, toApp, app, made, nsent,
                   writes, mislabelled>>

AdapterStep ==
    \/ \E r \in Replies : HandleFeatures(r)
    \/ \E r \in Configs : HandleConfig(r)
    \/ \E m \in Packets : HandlePacketIn(m) \/ HandlePacketDies(m)
    \/ task # << >> /\ \E s \in {Head(task)} :
          DoMkdir(s) \/ DoWrite(s) \/ DoIndex(s) \/ DoData(s) \/ DoSignal(s) \/ DoThrow(s)

-----------------------------------------------------------------------------
(***************************************************************************)
(* yanc-cbench.py.  load() reads the text of one file after the other; a   *)
(* file that is empty or gone, or a frame shorter than its header, raises  *)
(* an exception that ends it.                                              *)
(***************************************************************************)
AppKeeps ==
    UNCHANGED <<fileVars, up, present, ports_by_no, counter, task, reply, starts, made,
                nsent, writes, mislabelled>>

AppTakes ==
    LET d == Head(toApp) IN
    /\ app = NoLoad /\ toApp # << >> /\ toApp' = Tail(toApp)
    /\ app' = [dir |-> d, got |-> << >>,
               todo |-> Tracked(d, IF d = SwitchDir THEN SwitchLoad ELSE PacketLoad),
               by |-> Get(made, d, NoLoad)]
    /\ AppKeeps

\* strip() takes white space off both ends, in data also.
Strip(s) ==
    LET solid == {i \in DOMAIN s : s[i] # Blank}
    IN IF solid = {} THEN << >>
       ELSE SubSeq(s, CHOOSE i \in solid : \A j \in solid : i <= j,
                      CHOOSE i \in solid : \A j \in solid : j <= i)

\* What load() makes of a file: a number, or the header of the frame.
Loaded(f) ==
    IF f[1] \notin present THEN Undef
    ELSE IF f \in Of(Ints) THEN ShownNumber(f)
    ELSE LET frame == Strip(ShownData(f))
         IN IF Len(frame) < HdrLen THEN Undef ELSE SubSeq(frame, 1, HdrLen)

AppReads ==
    /\ app # NoLoad /\ app.todo # << >>
    /\ LET f == <<app.dir, Head(app.todo)>>
           v == Loaded(f)
       IN app' = [app EXCEPT !.got = Append(@, [file |-> f, val |-> v]),
                             !.todo = IF v = Undef THEN << >> ELSE Tail(@)]
    /\ AppKeeps /\ UNCHANGED toApp

AppReturns ==
    /\ app # NoLoad /\ app.todo = << >>
    /\ app' = NoLoad
    /\ AppKeeps /\ UNCHANGED toApp

-----------------------------------------------------------------------------
\* The packet_in directory of f, if it is one, was touched by others.
Touch(d) == made' = IF d \in DOMAIN made THEN [made EXCEPT ![d].touched = TRUE] ELSE made

OthersKeep ==
    UNCHANGED <<up, ports_by_no, counter, task, reply, starts, toApp, app, nsent>>

\* A port's name is in f.
Label(f) == f[1][1] = "ports" /\ f[2] = "name"

\* Another application writes a file.
OthersWrite(f) ==
    /\ writes < MaxWrites /\ writes' = writes + 1
    /\ f[1] \in present
    /\ \E t \in Texts[f] : Write(f, t)
    /\ Touch(f[1]) /\ mislabelled' = (mislabelled \/ Label(f))
    /\ UNCHANGED present /\ OthersKeep

\* An application is done with a packet and removes its directory.
OthersRemove(d) ==
    /\ writes < MaxWrites /\ writes' = writes + 1
    /\ pending = NoWrite
    /\ d[1] = "packet_in" /\ d \in present
    /\ present' = present \ {d}
    /\ Touch(d)
    /\ UNCHANGED <<fileVars, mislabelled>> /\ OthersKeep

\* The rest of a string, of the adapter or of others.  A name may not be taken
\* to its end, or not as it is.
GoOn ==
    /\ WriteRest
    /\ mislabelled' = (mislabelled \/ (/\ Label(pending.file) /\ pending' = NoWrite
                                      /\ asked'[pending.file] = Unsure))
    /\ UNCHANGED <<up, present, ports_by_no, counter, task, reply, starts, toApp, app,
                   made, nsent, writes>>

\* The adapter ends, or was killed, and is started again; the files stay.  A
\* string it was writing stays as it is.
Restart ==
    /\ starts < MaxStarts /\ starts' = starts + 1
    /\ up' = TRUE
    /\ task' = << >> /\ reply' = NoReply
    /\ ports_by_no' = << >> /\ counter' = << >>
    /\ pending' = NoWrite
    /\ mislabelled' = (mislabelled \/ (pending # NoWrite /\ Label(pending.file)))
    /\ UNCHANGED <<val, sized, asked, present, toApp, app, made, nsent, writes>>

Next ==
    \/ AdapterStep \/ GoOn \/ Restart
    \/ AppTakes \/ AppReads \/ AppReturns
    \/ \E f \in Files : OthersWrite(f)
    \/ \E d \in present : OthersRemove(d)

Spec == Init /\ [][Next]_vars

(***************************************************************************)
(* Properties                                                              *)
(***************************************************************************)
PortDirs == UNION {{PortDir(r.ports[i]) : i \in DOMAIN r.ports} : r \in Replies}

\* What is there, indexed, counted or signalled are directories of messages; a
\* switch is known only once its directory is made.
TypeOK ==
    /\ FilesTypeOK /\ up \in BOOLEAN
    /\ present \subseteq {SwitchDir} \cup PortDirs \cup DOMAIN made
    /\ \A p \in DOMAIN ports_by_no : ports_by_no[p] \in present
    /\ \A p \in DOMAIN counter : counter[p] \in 1 .. MaxMsgs
    /\ reply \in Replies \cup {NoReply}
    /\ reply # NoReply /\ task = << >> => SwitchDir \in present
    /\ \A i \in DOMAIN toApp : toApp[i] \in {SwitchDir} \cup DOMAIN made
    /\ mislabelled \in BOOLEAN
    /\ starts \in 1 .. MaxStarts /\ nsent \in 0 .. MaxMsgs /\ writes \in 0 .. MaxWrites

\* The packet that was announced in d, and that nobody else wrote or removed.
Intact(d) == made[d].said /\ ~made[d].touched

\* OFPacketIn: once a packet is announced, each file of its directory says what
\* the message said, data begins with what was copied of the frame, and is as
\* long as total_len unless the directory was there before: although lengths
\* and names are read back from files, and directories outlive the adapter.
FilesSayPacket ==
    \A d \in DOMAIN made : Intact(d) =>
        LET m == made[d].msg IN
        \A f \in FilesOf({d}) :
            IF f[2] = "data"
            THEN /\ Says(f, ShownData(f), SubSeq(m.data, 1, Copied(m)))
                 /\ made[d].new => Len(ShownData(f)) = m.total_len
            ELSE ShownNumber(f) = m[f[2]]

\* What YPacketIn.load() of yanc-cbench.py finds in a directory that was
\* complete when it began is what the switch sent: no file is empty, and the
\* header is that of the frame, if the frame does not begin with white space.
AppSeesPacket ==
    app # NoLoad /\ app.by # NoLoad /\ app.by.said
       /\ made[app.dir].nth = app.by.nth /\ Intact(app.dir) =>
        LET m == app.by.msg IN
        \A i \in DOMAIN app.got :
            LET f == app.got[i].file  v == app.got[i].val IN
            IF f \in Of(Ints) THEN v = m[f[2]]
            ELSE v # Undef /\ Copied(m) >= HdrLen /\ m.data[1] # Blank
                     => v = SubSeq(m.data, 1, HdrLen)

\* The ports of a reply have names of their own, and so have their directories.
NamesDiffer(r) ==
    \A i, j \in DOMAIN r.ports :
        \/ r.ports[i].name = r.ports[j].name
        \/ PortDir(r.ports[i]) = PortDir(r.ports[j])
        => i = j

\* OFPacketIn::_counter: in one life of the adapter a packet is put over an
\* earlier one only if the two came in at different ports, and either the
\* switch gave two ports one name, or none, or called one after the number of
\* another, which nothing in of_port.cc or of_packet_in.cc looks for, or the
\* file that holds a port's name was written by others or not taken whole.
PacketsApart ==
    [][\A d \in DOMAIN made :
          made'[d].nth # made[d].nth /\ made'[d].life = made[d].life =>
              /\ made'[d].msg.in_port # made[d].msg.in_port
              /\ NamesDiffer(reply) => mislabelled]_vars

\* openflow-1.0.h says that the frame begins two bytes before sizeof(struct
\* ofp_packet_in) and how long it is follows from the header: all that the
\* switch sent of it is in data.
FrameIsWhole ==
    \A d \in DOMAIN made : Intact(d) /\ <<d, "data">> \in Files =>
        Says(<<d, "data">>, ShownData(<<d, "data">>), made[d].msg.data)

=============================================================================
