# A specification of yanc

yanc is a network control plane around a filesystem: the state of switches,
ports, packets and flows is a tree of directories and files, and programs talk
by changing it and by signalling on D-Bus. This directory holds TLA+ modules of
the parts that carry that idea, the TLC runs that check them on small
instances, and the proofs, checked by TLAPS, of what holds for all of them.
`PROJECT.json` lists every run, every theorem, every hazard, and for each
definition the source lines it stands for.

    tlc -config MCSchemaFS_tree.cfg MCSchemaFS      # one run
    tlapm OFNetworkProofs.tla                       # one module's proofs

## 1. The system

    clients --FUSE--> schemafs (one thread) <--files-- yanc-of-adapter --TCP--> switches
                          ^                                  |  ^
                          |                             PacketIn NewFlow   (D-Bus)
                          +-----------files----------- yanc-cbench.py

| Component | Source | State it keeps | Operations |
|---|---|---|---|
| Schema filesystem | `fs/schemafs.c` | a tree of `SchemaEnt` cells linked by `parent`, `children`, `next`; open handles (`fi->fh`) that are addresses of cells | the FUSE handlers; `_fill`, `schemafs_search`, `schemafs_fnmatch`; the compound handler that runs a batch file at release |
| Value types | `fs/types.c` | the value and the size of an entry | get and set a value as text: integers, addresses, strings, raw bytes |
| Schema library | `fs/libschema.c` | the schema tree, on disk and in memory | pack, unpack, search, print |
| Schema parser, tool | `fs/schema.y`, `schema.l`, `yanc-schema.c` | none | parse schema text, convert, test |
| Program start | `yanc.c`, `util/` | options | parse options, daemonise, read the schema, mount, run FUSE |
| Adapter: main | `adapter_main.cc` | options | parse options, run the event loop, end on a signal |
| Adapter: connections | `yanc_of_adapter.cc` | a buffer and a cursor for each connection | accept, receive, hang up |
| Adapter: switches, D-Bus | `of_network.cc`, `of_switch.cc`, `of_packet_in.cc`, `of_port.cc` | `switches` by connection, `ports_by_no`, the packet counter | OpenFlow messages, D-Bus signals, the end of a connection |
| Adapter: message bodies | `of_flow.cc`, `of_match.cc`, `of_actions.cc`, `of_packet_out.cc`, `openflow_tools.cc`, `openflow-1.0.h` | none | files to OpenFlow structures and back |
| File bindings | `lib/C++` | whether a `Directory` made its directory | a file as a variable, a directory as an object |
| om-lib: event loop | `async/`, `net/stream_*.cc` | `_fds`, the object of each descriptor; epoll's set; each object's `_fd` | register, unregister, dispatch; accept, close |
| om-lib: D-Bus | `ipc/dbus/` | libdbus's connection and watch, the handlers | open, read, dispatch, route |
| om-lib: addresses | `net/net.cc`, `tools/string.cc` | none | Ethernet, IPv4 and transport addresses to text, numbers, bytes and back |
| om-lib: the rest | datagram, raw and inotify sockets, tunnels, files, directories | | not used by yanc |
| cbench | `apps/yanc-cbench.py` | `flow_counter` | answer a PacketIn with a flow |

The filesystem is single-threaded (`yanc.c` never asks for `fuse_loop_mt`), the
adapter is one thread around `epoll_wait`, and cbench one main loop. The
concurrency is between these processes, their clients and the switches.

What is hard in it, and what would make each part correct:

* **Filesystem.** Four handlers splice three pointers by hand, so a forgotten
  one shows only requests later: the cells must stay one tree in which nothing
  is lost. Handles outlive the entries they point to. A name that contains `*`
  is a pattern and names that exist and names that match compete by list order.
  A batch runs inside one `release`, behind the kernel's back: its `rmdir` and
  `mkdir` skip every check of the kernel, it may run again at each close, and
  the kernel goes on using names that are gone.
* **Files as variables.** `truncate` does nothing, so a shorter text leaves the tail of a
  longer one; a write may be taken in part and goes on in another request; `sscanf` reads
  beyond the request into what an earlier one left. Readers come in between. What was written must
  be what is read.
* **From files to messages and back.** A flow is some twenty files, each opened and read on its
  own while others write; two files share one word of wildcards; one file is read twice. A
  packet is announced when it is complete, in a directory that may already have been there.
* **Schema.** A schema goes from text to a tree, a buffer that grows, a tree again, and text.
* **Framing.** TCP returns what it likes; messages must come out once, whole, in
  order, within a fixed buffer; a connection that ends in the middle of a
  message must be noticed.
* **Event loop.** The kernel gives descriptors out again, and a batch of events names only
  descriptors: a callback must reach the object the event was for, and every ready object must
  get its turn. The loss of the bus leaves an entry behind.
* **D-Bus.** Opening makes blocking calls that read whatever comes, before the handlers are set;
  what libdbus has in its queue is not what epoll knows of.
* **Adapter, bus, application.** A switch may come again before its old
  connection is closed, both sharing one directory; the application works on
  directories the adapter removes; the signal for a flow may come after the
  switch has gone; the adapter and the application may die and start again over
  directories that remain, with counters that start again; an error nobody
  catches, a null pointer or SIGPIPE ends the adapter for all switches.

## 2. Modules

| Module | Stands for | Extends |
|---|---|---|
| `DirTree` | what the filesystem promises: a tree of directories | |
| `SchemaFS` | the filesystem and its clients; instantiates `DirTree` | community modules |
| `MCSchemaFS` | a small schema and small sets of requests | `SchemaFS` |
| `SchemaFSProofs` | theorems for any clients, and for clients that behave | `SchemaFS` |
| `MsgFifo` | what a connection promises, to a switch's network or to the bus's handlers: a FIFO of messages | |
| `OFChannel` | accepting and framing; instantiates `MsgFifo` | |
| `MCOFChannel` | a two-byte header and three message lengths | `OFChannel` |
| `OFChannelProofs` | theorems, the refinement among them | `OFChannel` |
| `EventLoop` | the event loop with the listener, the connections and the bus | |
| `NetAddresses` | om-lib's addresses and their conversions, operators only | |
| `MCEventLoop` | descriptors 3, 4, ..., and samples of addresses | `EventLoop`, `NetAddresses` |
| `EventLoopProofs`, `NetAddressesProofs` | theorems | the module of that name |
| `OFNetwork` | the adapter above the framing, the bus, cbench, switches | |
| `MCOFNetwork` | which connections are the same switch, some ERRORs | `OFNetwork` |
| `OFNetworkFifo` | `OFNetwork` with a memory of messages; instantiates `MsgFifo` | `OFNetwork` |
| `OFNetworkProofs` | theorems | `OFNetworkFifo` |
| `TypedFile` | files that hold one value: `types.c` and the C++ bindings | |
| `TypedFileProofs` | what such a file keeps, whoever writes it | `TypedFile` |
| `DBusMessage` | messages of the bus and the signals made of them, operators only | |
| `DBusConnection` | the adapter's connection to the bus; instantiates `MsgFifo` | `DBusMessage` |
| `OpenFlow10` | the structures of `openflow-1.0.h`, operators only | |
| `FlowMessages` | which files make a FLOW_MOD or a PACKET_OUT, in which order | `OpenFlow10` |
| `FlowPath` | from an application's writes to the message | `TypedFile`, `DBusConnection`, `FlowMessages` |
| `FlowPathProofs` | theorems | `FlowPath`, `TypedFileProofs` |
| `SchemaText` | a schema as text, tree and buffer, operators only | |
| `CommandLines` | the command lines of yanc and of the adapter, operators only | |
| `Yanc` | yanc-schema, the start of yanc, and then `FlowPath` | `FlowPath`, `SchemaText`, `CommandLines` |
| `MCYanc` | parts of `schema.txt`, a few files, texts and signals | `Yanc` |
| `PacketPath` | from a switch's messages to what an application reads | `TypedFile`, `OpenFlow10` |
| `MCPacketPath` | a switch with a named and a nameless port, or with two ports of one name | `PacketPath` |
| `PacketPathProofs` | theorems | `PacketPath`, `TypedFileProofs` |

### SchemaFS

A cell is a member of `Ents`; `name`, `type`, `schema`, `parent`, `hidden`,
`link`, `data` are its fields, and `kids[d]` is the sibling list of a directory
as a sequence (insertion at the head and lookup of the first match are kept).
`live` holds the cells in the tree, `fh[h]` the cell a client's handle holds,
`Freed` or `FreedDir` when it was freed. `exec` holds the lines of a batch that
are still to run: while it is not empty no other request is served. `walk` is where a create
or symlink is that a pattern led off its path, and what is left of that path. `fault`
says how the process died.

* One action per handler: `Mkdir`, `Rmdir`, `CreateNew`/`CreateHidden`,
  `SymlinkNew`/`SymlinkHidden`, `Unlink`, `Rename`, `Open`, `Write`, `Release`,
  and `Compound...` per kind of batch line. `Fill` is `_fill()` with its recursion:
  it makes the nodes `Expansion` of the schema gives, linked as the code links them.
* `schemafs_fnmatch` matches patterns at every component. Where none is in front of the directories of a path
  (`Direct`), create and symlink are one action each. Otherwise `PatternOnWay` makes the entry the pattern gives and
  the `Walk...` actions go on in it, component by component: into what is there, by the next pattern, to
  `ENOENT`, to the entry the request is then about, or below a file, whose `children` nobody set (`WalkAstray`;
  `CompoundAstray` for the lines of a batch, which the kernel does not check). All of it is one callback of FUSE, and no
  other request is served until it ends.
* The guards of the kernel are external: FUSE calls a handler only when the path
  resolves (`Walkable`, `Exists`, `Absent`), and refuses to move a directory into itself
  (`KernelMayRename`). Batches skip them, as in the code. `stale` is true from a
  removal by a batch until the kernel has forgotten the name.
* `CloseFirst` and `Replace` restrict *clients*: whether they remove a directory
  while something below it is open, and whether they rename onto an existing name.
* `DirTree` knows neither lists nor `parent` pointers, schemas, handles or files: an entry has a place (a
  directory and a name in it) and is shown or not. `SchemaFS` is mapped to it by its *lists*: `Holder(e)` is the directory
  that lists `e`, which is its parent only if the handlers splice both alike. `Make`, `Appear`, `Disappear`, `Move` and
  `Remove` say what a handler may do: with one branch, under a name nobody is shown. What the schema made hidden, a pattern
  or a link without a target, has its place before it is shown (`Appear`).
* Left out: `chmod`, `chown`, `utimens` (they write attributes only `getattr`
  reads); the copies `_fill()` leaks before they are hung into the tree; file bytes, which are
  lines here and values in `TypedFile`; failing `malloc`, except that a request for which no cell is
  free is not made.

### TypedFile

`val[f]` and `sized[f]` are the value and whether a size was ever set; `pending` is a string of which
only a part was taken; `asked[f]` is the value the last write promised, `Unsure` when it promised
nothing (a number too large for its type, an address without a newline, a write that was overtaken).
It is there for the properties and the code does not know it. `Store`, `StoreString`
and `Overlay` are the set functions, `Shown...` the get functions through the kernel, which cuts a text to the size, and
`Read...` the bindings. From a file that is there but empty `dirent.h` reads nothing into a variable it never set
(`Undef`, of which nothing is said), an address is zero, and a string is empty. A string whose file is gone throws, which is in
`OFNetwork` (`NewFlowDies`). `Chars` and `Modulus` scale text and integers.

### SchemaText, CommandLines, Yanc

`Parse` is the grammar of `schema.y` over the words `schema.l` makes, `Pack` the packed cells with
the `BufCells` that fit before the buffer grows, `Unpack`, `Nexts`, `Search` and `Lines` the rest of
`libschema.c`. When the buffer grows, `schema_pack` goes on from pointers into the old one: what
is at the places it should have written is `Wild`, any outcome. `y_parse_cmdline` and `parse_options` fold
over the options. `Yanc` runs `yanc-schema` step by step, then the
start of yanc (`Daemonize`, `ReadSchema`, `Mount`, `Exit`), and once the schema is served `FlowPath`.
A relative schema file is looked for after the daemon changed its directory, so yanc starts only with
`-f` or an absolute path.

### DBusMessage, DBusConnection, FlowMessages, FlowPath

A message is its type, its header fields and its arguments; `append_string` puts one at the end,
`get_string` goes there from the first and throws when there are too few or it is of another type.
`phase` goes from `"closed"` to `"open"` by the calls of `open()` in their order. `socket` holds what
the bus has sent, `incoming` libdbus's queue: each blocking call moves any part of the former to
the latter. `Ready` reads once, and then `Dispatch` handles one message after the other while
`GoesOn`. `Breaks` is an exception in the filter. In `FlowPath` the handler is taken
apart: `Script` is the list of reads, each a file and the field its value goes to, `job.at` where the handler is in it, `job.got`
what was read, `job.buf` the buffer of `update()` (`Fill` puts a value into its field, or into the word of wildcards, which
two masks and a file share), and `job.msg` the message. The script goes on after the text of the actions is read, for that says which
arguments to read. Between two reads applications write. `FlowMod` and `PacketOut` say what of the buffer is sent and how long the
message claims to be. What does not fit into the buffer is not modelled but for `data`, whose error `-ENOSPC` is added to the length.
The prefix of a mask is added to the wildcards and an action's `vlan_pcp` is sent as zero, as the code has it.

### PacketPath

A callback of the adapter is a list of steps, `task`: make a directory, write a file, read a
file back to name a directory, index a port, signal. `Fill` is that list for a PACKET_IN, `SetUp`
that for a FEATURES_REPLY, `DoThrow` the exception that undoes what a constructor made. `app.todo` is what `load()` of cbench has still
to read. `made[d]` says which packet a directory was made from, whether it was announced, and
whether others touched it; `mislabelled` that the file `name` of a port may not say its name, because others wrote it or it was
not taken whole. Both are there for the properties. A directory is named by what the port's file `name` *says* and by a
count, and lives on over a restart. Nothing makes a switch give its ports different names, or names at all.

### OFChannel and MsgFifo

A byte is `[nth, at]`: the message it is part of and its place in it. `size[c]`
is the bytes TCP will carry, `rd[c]` those `recv()` has returned, `buf[c]` the
bytes between `bufs[c]` and `curs[c]`, `got[c]` the buffers given to
`handle_message`. `Remaining` is the computation of `receive_data`; `Receive(c, n)`
is a whole callback in which `recv()` returned `n` bytes, `HangUp(c)` one in
which it returned 0 or an error. When the bytes in the buffer are not a header
the length read from them may be anything, so that a wrong `Remaining` is not
made right by the model. A message may be longer than the buffer: nothing in
`receive_data` compares its length with `YOF_BUF_LEN`, so `Receive` has a case in which bytes
are written past the end. It sets `overrun`, after which the adapter takes no step of the model: what
it really does then depends on the heap, and no property speaks of it. `Accept` may leave
a connection `"unread"`: with a descriptor that is monitored already, `new_switch` neither
adds it nor closes it (`EventLoop` says when that happens). `MsgFifo` has only `written`, `taken` and `state`; a buffer
that was handed over maps to the message it is exactly, or to `"garbled"`, and an unread connection to one that never opened. Two more refine it: `DBusConnection`, where
`socket` and `incoming` are not seen, and `OFNetwork`, which keeps only messages nobody has handled. `OFNetworkFifo` gives it
history variables, `written` and `taken`, which no guard reads. A message in whose callback the adapter ends counts as not
taken, and `Close` takes a set of connections, for they all close then.

### EventLoop and NetAddresses

`_fds` is the multiplexer's map (`Nobody` where there is no entry), `fd[o]` the
descriptor an object believes to have: -1 at first, 0 when it was closed. `owner`, `interest` and
`rdl` are the kernel's: whose socket a descriptor is, what epoll watches, and
the order it reports in. `batch` holds the events of one `epoll_wait()` not yet
handled; each has, beside its descriptor, the object it was reported for, which the program does
not know and the properties compare with. `epoll_wait` fills the batch, and one action per
callback empties it from the front: `NewSwitch`, `ReceiveData`, `HangUp`, `BusReady`, `BusLost` and
their failures. Opening, closing and registering are inside these actions, in the order of
the code. `Throws` ends the process: nothing above the loop catches.
Left out: timeouts and plain descriptors, for which the adapter registers nothing, and what
the callbacks do besides, which the other modules say. `NetAddresses` has an operator for each conversion;
an address is the sequence of its octets, `Refused` an exception and `Undefined` a read of what is not there.

### OFNetwork

Whole messages come in `inq[c]`, as `MsgFifo` says (`OFNetworkFifo`); every accepted connection is read, for the descriptor that is taken
already is in `EventLoop` and `OFChannel`. `switches[c]` is `"absent"`, `"null"`
or `"set"`, for `map::operator[]` inserts a null pointer on a read. Addresses are
numbers, because `switch_by_name` goes through the map by address. `dirs` holds
the directories under `/switches`, each with the ports, packets and flows in it.
`toApp` and `toAdapter` are the signals on the bus. A callback of the adapter is one
action: `HandleHello`, `HandleFeatures`, `HandlePacketIn`, `Closed`, `NewFlow`,
`NewPacketOut`, `SignalIgnored`, and so on; the same callback with the outcome that ends
the process is the action `...Dies`, and `Die` says what an end leaves behind: directories,
for no destructor runs. `HandleErrorDies` is the name of an error code that is read beyond its literal. `handle_packet_in` of cbench is four actions, `AppLoad`,
`AppMake`, `AppFill`, `AppAnnounce`, since every file access is a request of its own.

Abstractions: a packet is its connection and its number; a flow is the packet it was made
from and whether it was written completely; a switch has one OpenFlow version, a name and
ports with different names; the paths in signals have the five components the handlers
index. The three writes of `create_from_packet_in` before `buffer_id` are one step. What is in the files is in
`PacketPath` and `FlowPath`. Left out: `rm_flow`, `_del_port` and
`handle_port_status_change` (nothing calls them).

## 3. Runs

Every run is exhaustive within its bounds. `CHECK_DEADLOCK FALSE` is everywhere, for all of
these systems may stop: the bounds on requests and messages run out, and a
process may be dead.

| Run | Asks | Bounds and why they suffice |
|---|---|---|
| `fs_tree` | `ImplementsTree` under mkdir, rmdir, rename and links | 11 cells: two switches with their nested entries, moved within and between two directories, and out to the root |
| `fs_open` | `TypeOK`, `LinkVisibleIffTarget`, `NoFault`, `ImplementsTree` with files from patterns, links, one handle | clients close first and write no batches; one handle is enough for a dangling one; entries that were hidden appear and disappear |
| `fs_batch` | `TreeInv`, `AssertionsHold` with batches and patterns on the way | three batches of two lines, one of them removing `/`, so a line runs after another has failed; clients rename a directory or a file to `*`, in front of the others; the schema is smaller, for the cells that walks make |
| `fs_replace` | finds a violation of `RenameSeesTarget` | as `fs_tree`, with renames onto existing names |
| `chan` | `TypeOK`, `NoOverrun`, `AlwaysReads`, `ImplementsFifo`, `EveryMessageTaken`, `EveryLossNoticed` | header of 2 bytes, a buffer of 4, messages of 2, 4 and 5: one that is only a header, one that fills the buffer, one that overruns it, every cut of them; four messages; one connection, since each has its own buffer and cursor |
| `loop` | `TypeOK`, `EventsReachOwner`, `TablesAgree`, `OneLeftOut`, `EverySwitchAccepted`, `EverySwitchServed`, `BusRead`; the conversions of addresses, as assumptions | two connections and one descriptor beside those of the listener and the bus: numbers are used again in a batch, `accept()` runs out of them, and the bus's is given to a connection; three ready descriptors and batches of two; two pieces of data each, always renewed |
| `net_switches` | `TypeOK`, `SwitchesHaveDirs`, `ModsReachTheirSwitch`, `NothingUncaught`, `PacketsAnswered` | two switches, replies that are accepted and refused, a message each, and a signal of somebody else; a schema with `buffer_id` under flows, and `schema.txt` as it is, without |
| `net_restart` | `ModsAreWhole`, `NoOrphanDirs`, `AnsweredOnce`, `NoModsAfterClose` | two connections of one switch, a message each, so that packet numbers and directories meet; a new port; a reply whose ports do not fit; the adapter and the application start twice; a schema with `buffer_id` under flows, and `schema.txt` as it is, without |
| `net_null` | finds a violation of `ManySwitches` | two switches, one signal |
| `flow` | `TypeOK`, `WrittenReadsBack`, `FlowModSaysFiles`, `SignalsInOrder`, `SchemaReadsBack`, `SignalsHandled`, `BusImplementsFifo`; the command lines and the layout of `openflow-1.0.h`, as assumptions | seven files, of each kind of value, with the wildcards and the two addresses whose masks go into them, and an action with its argument; three writes, so that one can be taken in part and be overtaken while a message is made; two messages on the bus besides those of its opening, a `NewFlow` signal and a `PacketOut` call; a buffer of 24 bytes, so that `data` fits behind no action and not behind one; the lengths of messages for every text of three actions, as an assumption (`LengthsSayActions`); integers modulo 4, so that a number that is too large exists; seven schemas, one larger than the first buffer of 16 cells; start lines with and without an absolute file |
| `packet` | `TypeOK`, `FilesSayPacket`, `AppSeesPacket`, `PacketsApart` | a switch with a named and a nameless port, and one of version 1.1 with two ports of one name; four messages, one restart, one write or removal by others; integers modulo 8; frames that are whole, cut and empty |
| `frame` | finds a violation of `FrameIsWhole` | as `packet`, two messages |

Two invariants that `ImplementsTree` implies for the clients of `fs_tree`, and one that `ImplementsFifo` implies, are not checked
beside them: `AllReachable` and `VisibleNamesUnique`, and `WholeMessages`. They are theorems (`NothingLost`, `NamesAreUnique`,
`Framing`), the first for clients of any kind.

Each property of a passing run is paired in `PROJECT.json` with a mutant: an
operator that changes a definition the way a plausible bug would (a pointer not
updated, a counter not advanced, a switch not unregistered) and that the run finds.

**What the properties leave out, and why.** Each exception is something the code does not
guarantee.

* `SwitchesHaveDirs` excepts connections of a switch that has another connection: when the
  old one closes, `closed_connection` removes the directory the new one uses. For
  the same reason `NothingUncaught` is about networks where every switch comes once.
* `PacketsAnswered` excepts packets whose connection is gone, and adapters that met one of `KnownEnds`: stopped by a signal; SIGPIPE
  from a connection that was reset; the null pointer of a port the switch got later; the null switch of `net_null`; an
  ERROR whose name is read beyond its literal. An exception past the event loop is not excepted. These ends are hazards of the
  code that no property forbids. The property speaks of a schema that has `buffer_id` under flows, which
  `yanc-cbench.py` writes; `schema.txt` has none, and the property says that then no packet is answered.
* `NoOrphanDirs` and `AnsweredOnce` speak of the adapter's first life: later,
  directories of an earlier life remain and the names of packets start again from 1.
  `ModsAreWhole` and `AnsweredOnce` speak of the application's first life.
* `WrittenReadsBack` says nothing of a write that was overtaken, of numbers that do
  not fit their type, or of a text with white space in front, which the code trims or skips.
  `FlowModSaysFiles` excepts the one-byte numbers, of which the bindings read one character, and asks that what was read still is in the files
  only if nobody wrote while the handler ran. It says which bits the wildcards are, not that a switch takes them as meant (section 4).
* `FilesSayPacket` and `AppSeesPacket` speak of directories others have not
  touched, the second of frames that do not begin with white space. `PacketsApart` excepts two packets
  of different ports when the switch gave two ports one name, or none, or called one as another's number, which
  neither `of_port.cc` nor `of_packet_in.cc` looks for, or when the file of a port's name did not say it; and directories of an
  earlier life.
* `SchemaReadsBack` speaks of schemas that fit into the first buffer and whose
  types the table of names has, which are not the signed integers and `compound`.

**Fairness.** `SchemaFS` and `PacketPath` have none. In `EventLoop`, weak fairness of the one thread as a
whole; that each descriptor gets its turn is not assumed but follows, from epoll's order
(`rdl`: a reported descriptor goes to the end) and from `dispatch()` going through all of a
batch. In `OFChannel`, weak fairness of `Accept`, `Receive` and `HangUp` for each connection,
which `loop` justifies. In `OFNetwork`, weak fairness of the callbacks of each connection, of
the bus, and of cbench's handler, which run in such loops. In `FlowPath` and `Yanc`, weak fairness of the adapter's
one thread once there is a filesystem. Nothing is assumed of
switches, of clients, of other applications, or of restarts.

## 4. What disagrees with the text of the repository

* `fs_replace`: `_rename` has the comment "Check for new relative to new parent", but a
  path without a leading slash is looked up from the root, so an existing target
  is not seen and the directory gets two entries of one name.
* `net_null`: the adapter "connects the yanc filesystem to multiple OpenFlow switches";
  a signal that arrives while any switch is between HELLO and FEATURES_REPLY makes
  `switch_by_name` call a method of a null pointer.
* `frame`: `ofp11_packet_in_from_ofp_packet_in` takes `sizeof(struct ofp_packet_in)`, 20, off the length
  of a message whose data begin at offset 18, which `openflow-1.0.h` warns of. The last two bytes of
  every frame are lost.

Three more are in the modules as the code has them, without a run of their own: `of_match.cc:37`
puts the length of the prefix into `wildcards`, where `openflow-1.0.h` wants the number of ignored bits;
`yanc-of-adapter -h` alone ends with "Try `yanc-of-adapter -h`"; and the literal with the names of
the error types breaks off at `"OFPT_FLOW_MO"`, so that some names are read beyond it.

## 5. Proofs

**SchemaFSProofs.** For every schema that is a finite tree, every heap, every allocator that
gives distinct free cells, all sets of requests, and any client: `TypeCorrect`,
`TreeShape`, `AssertionsNeverFail` (from the invariant), `NothingLost` and `OnlySubdirsGo`.
The inductive invariant is `IInv == TypeOK /\ TreeInv /\ AssertionsHold`. `TreeInv` has
`NoCycle` in it, which nothing the runs need says directly: in every set of
directories without the root some member hangs outside the set. It is what makes
"every cell is below the root" follow from local facts about
parents and lists (`NothingLost`), and it is first-order enough to be preserved by a splice: a
rename that does not move an entry into its own subtree cannot close a ring. The
argument goes handler by handler: `FillTree` (what `_fill` hangs in is a tree below its
topmost node), `SubtreeFacts` and `RmdirTree` (what is freed is closed under children, and only its
top is listed outside), `RenameTree`. An assertion fails only if an
entry is not in its parent's list, which `ListsMatchParents` excludes.
The assumptions are `SchemaAssumption`, `ValueAssumption` and `MallocAssumption`.

*Clients that behave.* For the same schemas, heaps and allocators, in the same module; each theorem
naming what it needs of them (`NoDots`: no path has `.` or `..` in it; `NoBatches`: no line does anything):

* All but `LinksShowTargets` need `PatternsLast` (no node of the schema declares a pattern before a directory it
  matches) and `PlainPaths` (no client uses the name of a pattern). `PathsClear` then is invariant: in no list does a
  pattern come before a directory it matches, and `WayIsClear`: `schemafs_fnmatch` goes along a path as
  `schemafs_search` does, and no walk leaves it (`NoWalks`). Without these premises the theorems are false, for `create /switches/b/foo`
  with a pattern before `b` makes a second `b` that shows; `fs_batch` goes there.
* `NamesAreUnique` needs `SiblingsDiffer`, `NoDots`, `NoBatches` and `~Replace`, too. Its invariant `FirstShown` says that of the
  entries of one name in a list all but the first are hidden, so that what `schemafs_search` finds is what
  shows. Handlers put an entry in front only when the kernel found nothing to show under its
  name, and unhide an entry only if it is the first match.
* `NothingFails` needs `CloseFirst`, `NoDots` and `NoBatches`, too. Its invariant `Sound` says that no handle points to a freed cell;
  what a client removes hangs in a directory, so it is not the root.
* `LinksShowTargets` needs `PlainLinks`, that no link is a pattern or gets the name of one: `symlink` is then all that
  shows one. Batches and dangling handles do it no harm.

*The directory tree.* `ImplementsDirTree`: with the premises of `NamesAreUnique`, `Spec` implies the specification of
`DirTree`. `ListsSayParents` turns the mapping, which is by lists, into one by `parent`: `TreeInv` says that they agree.
Then each handler's change of three fields is one branch that comes, moves or goes: for `_fill` because what it hangs in is
a tree (`FillTree`), for `_rmdir` because what it frees is closed (`BranchMaps`), for `_rename` because the kernel refuses a move
into the entry's own subtree. That the new place is unused is what `FirstShown` is for. Handlers that change only handles,
data or requests are not seen, and a process that ends takes the tree with it. Without `~Replace` the
theorem is false: `fs_replace` shows the step.

That lookup finds the first entry of a name is proved of the recursive function in `Search` by its walk
(`SearchStep`, `SearchFinds`, `SearchLive`): where two walks first differ, or one first leaves the tree, is
a smallest number (`LeastNatural`). What `_fill`, `_rmdir` and `_rename` do to the order of a list is proved once,
for any relation (`FillOrdered`, `RmdirOrdered`, `RenameOrdered`). The constants of `fs_tree` meet these premises, and those of
`fs_open` but for a path that names a pattern, at its end.

**OFChannelProofs.** For every set of connections and messages, every header size up to the buffer and every length
from the header on: `TypeCorrect`, `Framing`, `BufferBound`, `NeverIdle` and
`Refinement` (`Spec` implies the specification of `MsgFifo`). The
invariant `ChInv` adds to the types that the messages lie end to end in the stream (`Layout`),
that the buffers handed over are the first messages (`Whole`), and that the buffer is the
beginning of the next message, less than all of it, its end being where reading
stands (`Place`). `Place` is the strengthening that does the work: with it the length in
the buffer is the length of that message (`HdrLengths` has one member), so `Remaining` never asks past it. `BufferBound` says
what that leaves of the buffer's bound: recv() goes past the end exactly for the messages that are longer
than the buffer, which `ChannelAssumption` does not exclude; it says that a length is at least the
header, and that the header fits. `OFNetworkProofs` and
`FlowPathProofs` show the same specification of the layers above and beside it.

**EventLoopProofs.** For every number of connections and descriptors and every length of a
batch: `TypeCorrect`, `RightCallback`, `Agreement` and `OneUnserved`. The invariant `IInv` adds
`Own` (a descriptor's owner knows that number, and an object's number is its own, but for
the bus once it is lost), `Distinct` (no descriptor twice in a batch), `Waiting` (a connection in
the backlog has no descriptor) and `Left` (an accepted connection epoll does not watch has the
number the bus had). `RightCallback` rests on two facts: an object closes only its own descriptor
(`CallbackBatch`), and what is readable stays so until its own callback.
`LoopAssumption` says that the objects differ and that descriptors are finitely many.

**NetAddressesProofs.** For every address: the number of an IPv4 address and a packed 32-bit number read
back, that of an Ethernet address does unless its third octet has the sign bit, and the text of an Ethernet
address is refused by the function that reads it. `SockaddrSaysAddr`: an address and a port come back from
the kernel's structure, provided that the text was still there, for `to_cstring()` returns a pointer into a
string that is gone. `UnequalIsLess` and `LessIsNoOrder`: of two addresses neither is less exactly if they
are equal, but "less" is neither asymmetric nor transitive, so a `std::map` of them may lose entries.
The adapter keeps no such map.

**OFNetworkProofs.** For any set of connections and switches, any kinds of replies and errors,
and any number of messages, signals and restarts. Four invariants, each resting on the ones before it:

* `TInv`, the types, that a registered switch has an open connection, and that what is under a
  switch's directory came from it. With it `TypeCorrect`, `ModsToTheirSwitch`, `NothingAfterClose`,
  `NothingOrphaned` and `RegisteredHaveDirs`.
* `Whole`: cbench gives each number of a flow once, so a directory it announces is the one it filled.
  With it `OnlyWholeFlowsSent`.
* `Found`, where every switch comes once: whatever a callback looks for is there, or its switch has left.
  With it `NoExceptions`.
* `Once`: the numbers of packets differ, and names of packet directories are given out once; each packet is in
  exactly one place on its way (on the connection, in its directory, with the application, in one flow, announced, sent).
  With it `AnsweredAtMostOnce`: a second answer would need a second way.

`NetworkIsFifo`: `HSpec` implies the specification of `MsgFifo`. The invariant `Stream` says of each connection that what
waits is the next of what was written after what was taken, and all of it while the switch is there; when the
switch leaves, some of it may be lost, but then nothing is written any more. `HStepCases` shows that the actions of `OFNetwork`, some thirty, are
seven as the connections see them. Every step of `HSpec` is a step of `Spec`, and its two variables only remember. No run checks `NetworkImplementsFifo`: the memory
multiplies the states of `net_restart` beyond what is useful, and the theorem needs no bound.

`NetworkAssumption` says that addresses are numbers, so that the first of the matching entries in the
map is defined, and that connections are finitely many.

**TypedFileProofs.** What is true of the files alone, and shared by the next two: `FInv` says that
what a string being written has put into its file is a prefix, and the rest does not begin with white
space, so that what is read in between is a prefix too; that a promise `asked` of a file is kept; and
that strings have a size from the start. One lemma for each operation of `TypedFile` shows that it keeps `FInv`.

**FlowPathProofs.** For all files, texts, integers' widths, messages on the bus, and numbers of writes:
`TypeCorrect`, `WritesReadBack`, `MessagesSayFiles`, `SignalsKeepOrder` and `BusIsFifo`, the refinement of `MsgFifo`, which
follows from `BInv`: the head of libdbus's queue is the first message not handled. The invariant has a part for
each of the three modules: `FInv`, `BInv` (the queue and the socket are what was sent, in order), and `JInv`:
of every value the handler has read so far what `FlowModSaysFiles` says of reads, and `JobOK`, that each field the script has gone past
holds what was read last of its file, the wildcards what was read of their three. That the buffer is complete when the handler
sends it needs what the script is for every text of actions (`ScriptComplete` and the lemmas before it: each field of a structure
has one step, its file is that of its name, and a step sets no other's field). The lengths of messages are not in
it: `LengthsSayActions` compares them with the sum over the actions, by TLC. A step of
`Yanc` is a step of `FlowPath` or leaves its variables alone, so what is proved of `FlowPath` holds in
`Yanc`; `flow` checks it there. The same module has what holds of every message of the bus: `ArgumentsComeBack`,
and `SignalsSayWhere`, that a path put into a signal is what its receiver reads.

**PacketPathProofs.** For all files, switches, ports, packets and numbers of messages, starts and writes:
`TypeCorrect`, `PacketsSayFiles`, `AppSees` and `PacketsApartHolds`. None of the properties is inductive, for a
callback's steps are interleaved with others' writes and with the application. `Inv` has these parts:

* `FInv`, of `TypedFileProofs`.
* `StepsInv`: each step left in `task` can be taken; what it is about is there or is made before.
* `DirsInv`: the switch's directory is the first made and the last to go; a port is known only while its
  directory is there. `BoundsInv`: the numbers are in their ranges.
* `FillInv`: either no step is about a packet, or those left are the end of `Fill` of one packet that is not
  announced, and what its first steps should have written is written (`Filled`); a packet that is announced
  and untouched is `Complete`.
* `CountInv`: `counter` is not behind any directory of this life.
* `LabelInv`, as long as the file of no port's name was tampered with: those files say the names of the reply's ports; each index is of
  a port of the reply, and two indices are of two ports if the ports have names of their own (`IndexInv`); a packet's directory is called after
  its port (`PacketNamed`). `PacketsApartHolds` follows from it and `CountInv`: a directory of the same name and count is of the
  same port, of which `counter` has grown before the name was made.
* `AppInv`: what the application has read of a packet is what the packet says, as long as nobody else
  touched the directory.

`Fill`, `SetUp` and `WriteAll` build lists of steps with the folds of the community modules; the proofs
unfold them by functions over the prefixes (`Keeping`, `Flattens`), which exist by the smallest number
for which they would not. `PacketAssumption` says that
a reply lists the ports its length is for, that values have the types of their files and fit them, and that a
frame is no longer than its `total_len`. The first and the last are assumptions on the switches; of the names of ports nothing is assumed.

**Only model-checked:** `SchemaReadsBack`, because what `Parse`, `Pack` and `Unpack` do is recursion
over data; every liveness property, which is out of the prover's reach; and what else a recursive
definition computes for all inputs: the layout of `OpenFlow10` beyond what the proofs need, and the command
lines, are assumptions TLC evaluates. The properties of `fs_replace`, `net_null` and `frame` do not hold.

## 6. Not modelled

* The sockets, tunnels, files and directories of om-lib that yanc does not use, the OpenFlow headers
  later than 1.0 and `nicira-ext.h`, of which the adapter uses no structure but the few
  `OpenFlow10` has, and the conversions of the bindings nothing calls.
* In `schemafs.c`, `chmod`, `chown` and `utimens`; logging; failing `malloc`.
* What `setup_ip_header` copies or draws at random; the rest of it is an operator of `NetAddresses`, which leaves
  the length of the packet in the order of the host, as the code does. Nothing in the adapter calls it.
* libdbus itself: its replies, method calls that wait for one, and its output buffer, because of which the
  hazard at `connection.cc:289` has no property.
* `rm_flow`, `_del_port` and `handle_port_status_change`, which nothing calls.

## 7. What is left

`OFChannel` and `OFNetwork` are both shown to keep connections as `MsgFifo` has them. That `OFNetwork` allows all that `OFChannel` may
deliver is not shown: its switches, for one, begin with HELLO. What is left is one specification in which bytes arrive and
directories appear, a composition with `OFChannel` in place of `inq`. Its states are the product of both, so it needs
proofs rather than runs.
