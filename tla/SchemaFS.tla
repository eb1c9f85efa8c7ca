------------------------------ MODULE SchemaFS ------------------------------
(***************************************************************************)
(* The in-memory schema filesystem (fs/schemafs.c).                        *)
(*                                                                         *)
(* A schema is a tree of nodes; the mounted filesystem is a tree of        *)
(* SchemaEnt cells created from it by _fill().  FUSE runs the handlers one *)
(* at a time (yanc.c never asks for fuse_loop_mt), so every handler is one *)
(* action; but a file handle (fi->fh) is the raw address of a cell and     *)
(* lives across handlers, and a compound file that is released runs its    *)
(* lines as further mkdir, rmdir and write operations.                     *)
(*                                                                         *)
(* Abstractions.  Owner, permission bits and times are not represented:    *)
(* no handler reads them except getattr.  A file's bytes are a sequence of *)
(* lines.  The sibling list (children, next) of a directory is the         *)
(* sequence kids[d]; insertion at its head and first-match lookup are      *)
(* kept.  _fill() also copies the siblings that follow a schema node; of   *)
(* those copies _mkdir and schemafs_fnmatch overwrite the only pointer at  *)
(* once.  They are leaked before they are part of the filesystem and are   *)
(* not represented: live holds the entries that were hung into the tree.   *)
(***************************************************************************)
EXTENDS Integers, FiniteSets, SequencesExt

CONSTANTS
    Ents,           \* the heap cells that can hold a SchemaEnt
    Names,          \* component names
    Wild,           \* the names that contain a '*'
    Matches,        \* pairs <<pattern, name>> for which fnmatch() is 0
    Schemas,        \* schema nodes
    RootSchema,     \* the node of "/"
    SKids,          \* children of a schema node, in declaration order
    SName,          \* name of a schema node
    SType,          \* type of a schema node
    Targets,        \* symlink targets
    Lines,          \* lines a file can hold
    Cmd,            \* what a line says to the compound handler
    Bufs,           \* what one write() carries: sequences of lines
    Paths,          \* the paths clients use: sequences of names
    Moves,          \* the renames they ask for: pairs of paths
    Handles,        \* open-file slots of the clients
    MaxLines,       \* bound on the lines of a file
    Replace,        \* may clients rename onto a name that exists?
    CloseFirst,     \* do clients close what is below a directory they rmdir?
    malloc(_, _),   \* placements of a set of new entries in the free cells
    NULL, Freed, FreedDir

Types == {"subdir", "object", "link", "value", "raw", "compound"}
DirTypes == {"subdir", "object"}
RawTypes == {"raw", "compound"}
Faults == {"none", "assert", "null", "double free", "use after free",
           "uninitialised"}

SKidSet(s) == {SKids[s][i] : i \in DOMAIN SKids[s]}

(***************************************************************************)
(* What the grammar guarantees of a schema: it is a finite tree.           *)
(***************************************************************************)
ASSUME SchemaAssumption ==
    /\ RootSchema \in Schemas
    /\ SKids \in [Schemas -> Seq(Schemas)]
    /\ SName \in [Schemas -> Names]
    /\ SType \in [Schemas -> Types]
    /\ SType[RootSchema] = "subdir"
    /\ \A s \in Schemas : RootSchema \notin SKidSet(s)
    /\ \A s, t \in Schemas : \A i \in DOMAIN SKids[s], j \in DOMAIN SKids[t] :
          SKids[s][i] = SKids[t][j] => s = t /\ i = j
    /\ \A S \in SUBSET Schemas :
          S # {} => \E x \in S : \A y \in S : x \notin SKidSet(y)

ASSUME ValueAssumption ==
    /\ {NULL, Freed, FreedDir} \cap Ents = {}
    /\ NULL \notin Targets
    /\ Freed # FreedDir /\ NULL \notin {Freed, FreedDir}
    /\ Paths \subseteq Seq(Names)
    /\ Moves \subseteq Paths \X Paths
    /\ Bufs \subseteq Seq(Lines)
    /\ Cmd \in [Lines -> [op : {"mkdir", "rmdir", "write", "other", "bad"},
                          path : Seq(Names), text : Seq(Lines)]]
    /\ MaxLines \in Nat

SParent(x) == CHOOSE s \in Schemas : x \in SKidSet(s)

(***************************************************************************)
(* The schema nodes _fill() descends to from the children of s: the least  *)
(* set that holds them and the children of each of its subdirs.  An object *)
(* is filled with no children.                                             *)
(***************************************************************************)
Expansion == [s \in Schemas |->
    {x \in Schemas : \A S \in SUBSET Schemas :
        /\ SKidSet(s) \subseteq S
        /\ \A y \in S : SType[y] = "subdir" => SKidSet(y) \subseteq S
        => x \in S}]

FillNodes(s, t) == {s} \cup (IF t = "subdir" THEN Expansion[s] ELSE {})

(***************************************************************************)
(* The allocator gives distinct free cells to distinct new entries.        *)
(***************************************************************************)
ASSUME MallocAssumption ==
    \A P \in {FillNodes(s, t) : s \in Schemas, t \in Types}, F \in SUBSET Ents :
        malloc(P, F) \subseteq Injection(P, F)

-----------------------------------------------------------------------------
VARIABLES
    root,           \* the cell of "/"
    live,           \* allocated cells
    name, type, schema, parent, kids, hidden, link, data,  \* fields of a cell
    fh,             \* the cell a handle points to
    exec,           \* lines a released compound file has yet to execute
    walk,           \* a create or symlink that a pattern led off its path
    fault,          \* the way the process died, or "none"
    stale           \* has a directory gone behind the kernel's back?

tree == <<live, name, type, schema, parent, kids>>
vars == <<root, tree, hidden, link, data, fh, exec, walk, fault, stale>>

IsDir(e) == type[e] \in DirTypes
Kids(d) == {kids[d][i] : i \in DOMAIN kids[d]}

-----------------------------------------------------------------------------
(***************************************************************************)
(* Path lookup.  schemafs_search() follows first matches by name.  A path  *)
(* without a leading slash climbs to the root first, so the search for a   *)
(* bare name "relative to" a directory is a search in the root.            *)
(***************************************************************************)
FirstKid(d, wanted) ==
    LET hits == {i \in DOMAIN kids[d] : kids[d][i] \in wanted}
    IN  IF hits = {} THEN NULL
        ELSE kids[d][CHOOSE i \in hits : \A j \in hits : i <= j]

Step(e, n) ==
    IF e = NULL THEN NULL
    ELSE IF n = ".." THEN IF parent[e] = NULL THEN e ELSE parent[e]
    ELSE IF n = "." THEN e
    ELSE FirstKid(e, {k \in Kids(e) : name[k] = n})

Search(p) ==
    LET at[i \in 0 .. Len(p)] == IF i = 0 THEN root ELSE Step(at[i - 1], p[i])
    IN  at[Len(p)]
SearchBare(n) == Step(root, n)

\* schemafs_fnmatch(), one component: an exact name or a pattern, whichever
\* comes first in the sibling list.
FnMatch(d, n) ==
    FirstKid(d, {k \in Kids(d) : name[k] = n \/ <<name[k], n>> \in Matches})

Found(e) == e # NULL /\ ~hidden[e]

(***************************************************************************)
(* The entries schemafs_free() releases: e and all that is below it.       *)
(***************************************************************************)
Dirs == {d \in live : IsDir(d)}
DirsBelow(e) ==
    LET sub == [d \in Dirs |-> {k \in Kids(d) : IsDir(k)}]
        closed == {S \in SUBSET DOMAIN sub :
                      e \in S /\ \A c \in S : sub[c] \subseteq S}
    IN  {d \in DOMAIN sub : IsDir(e) /\ \A S \in closed : d \in S}
Subtree(e) == {e} \cup UNION {Kids(d) : d \in DirsBelow(e)}

-----------------------------------------------------------------------------
(***************************************************************************)
(* Filling.  m places the schema nodes of the new entries; s is the node   *)
(* of the topmost, t its type and n its name, d the directory it is        *)
(* pushed onto.  _mkdir gives an entry the type subdir with the schema     *)
(* children of the object it is made in, hence s and t are separate.       *)
(***************************************************************************)
NodeAt(m, x) == CHOOSE y \in DOMAIN m : m[y] = x

Fill(m, s, t, n, d) ==
    LET new == Range(m)
        New(f, v(_)) == [x \in Ents |-> IF x \in new THEN v(x) ELSE f[x]]
        TypeAt(x) == IF x = m[s] THEN t ELSE SType[NodeAt(m, x)]
        KidsAt(x) == IF TypeAt(x) = "subdir"
                     THEN [i \in DOMAIN SKids[NodeAt(m, x)] |->
                              m[SKids[NodeAt(m, x)][i]]]
                     ELSE << >>
    IN  /\ live' = live \cup new
        /\ type' = New(type, TypeAt)
        /\ schema' = New(schema, LAMBDA x : NodeAt(m, x))
        /\ name' = New(name, LAMBDA x : IF x = m[s] THEN n
                                        ELSE SName[NodeAt(m, x)])
        /\ parent' = New(parent, LAMBDA x : IF x = m[s] THEN d
                                            ELSE m[SParent(NodeAt(m, x))])
        /\ kids' = New([x \in Ents |-> IF x = d THEN <<m[s]>> \o kids[x]
                                       ELSE kids[x]], KidsAt)
        /\ data' = New(data, LAMBDA x : << >>)

\* The hidden flag and the link target _fill() gives: wildcards and links
\* start hidden, and a link has no target.
HiddenAfterFill(m) ==
    [x \in Ents |-> IF x \in Range(m)
                    THEN name'[x] \in Wild \/ type'[x] = "link"
                    ELSE hidden[x]]

LinkAfterFill(m) ==
    [x \in Ents |-> IF x \in Range(m) THEN NULL ELSE link[x]]

(***************************************************************************)
(* Removal from the sibling list.  The code asserts that the entry was     *)
(* there; with the assertion compiled in, the process aborts otherwise.    *)
(***************************************************************************)
Listed(e) == e \in Kids(parent[e])

Without(s, e) ==
    LET i == CHOOSE i \in DOMAIN s : s[i] = e
    IN  [j \in 1 .. Len(s) - 1 |-> IF j < i THEN s[j] ELSE s[j + 1]]

-----------------------------------------------------------------------------
(***************************************************************************)
(* The process: no tree until _init() fills it from the schema, and none   *)
(* after a fault has killed it.                                            *)
(***************************************************************************)
Blank(v) == [x \in Ents |-> v]

\* The requests that may take a walk off their path; none is under way.
Asks == ({"create"} \X Handles) \cup ({"symlink"} \X Targets)
NoWalk == [at |-> NULL, rest |-> << >>, ask |-> NULL]
Walks == {NoWalk} \cup [at : Ents, rest : Seq(Names), ask : Asks]

Init ==
    /\ root = NULL
    /\ live = {}
    /\ name = Blank(SName[RootSchema])
    /\ type = Blank("value")
    /\ schema = Blank(RootSchema)
    /\ parent = Blank(NULL)
    /\ kids = Blank(<< >>)
    /\ hidden = Blank(TRUE)
    /\ link = Blank(NULL)
    /\ data = Blank(<< >>)
    /\ fh = [h \in Handles |-> NULL]
    /\ exec = << >>
    /\ walk = NoWalk
    /\ fault = "none"
    /\ stale = FALSE

Mount ==
    /\ root = NULL
    /\ \E m \in malloc(FillNodes(RootSchema, "subdir"), Ents) :
          /\ root' = m[RootSchema]
          /\ Fill(m, RootSchema, "subdir", SName[RootSchema], NULL)
          /\ hidden' = HiddenAfterFill(m)
          /\ link' = LinkAfterFill(m)
    /\ UNCHANGED <<fh, exec, walk, fault, stale>>

\* The process is gone: the tree with it, and the kernel drops the handles.
Die ==
    /\ fault # "none"
    /\ root' = NULL
    /\ live' = {}
    /\ name' = Blank(SName[RootSchema])
    /\ type' = Blank("value")
    /\ schema' = Blank(RootSchema)
    /\ parent' = Blank(NULL)
    /\ kids' = Blank(<< >>)
    /\ hidden' = Blank(TRUE)
    /\ link' = Blank(NULL)
    /\ data' = Blank(<< >>)
    /\ fh' = [h \in Handles |-> NULL]
    /\ exec' = << >>
    /\ walk' = NoWalk
    /\ fault' = "none"
    /\ stale' = FALSE

\* FUSE dispatches the next request only when the last handler returned.
Idle == root # NULL /\ fault = "none" /\ exec = << >> /\ walk = NoWalk

Crash(why) ==
    /\ fault' = why
    /\ UNCHANGED <<root, tree, hidden, link, data, fh>>

(***************************************************************************)
(* What the kernel does before it calls a handler (external): it walks the *)
(* path with getattr, every directory on the way must be there and be a    *)
(* directory.                                                              *)
(***************************************************************************)
Walkable(p) ==
    \A i \in 0 .. Len(p) - 1 :
        LET d == Search(SubSeq(p, 1, i)) IN Found(d) /\ IsDir(d)

Exists(p) == Walkable(p) /\ Found(Search(p))
Absent(p) == p # << >> /\ Walkable(p) /\ ~Found(Search(p))

-----------------------------------------------------------------------------
(***************************************************************************)
(* mkdir.  MkdirRet gives the handler's checks in their order; the name is *)
(* looked up as a bare name, that is, in the root.                         *)
(***************************************************************************)
MkdirRet(d, n) ==
    IF ~Found(d) THEN "ENOENT"
    ELSE IF type[d] # "object" THEN "EPERM"
    ELSE IF SearchBare(n) # NULL THEN "EEXIST"
    ELSE "ok"

\* A heap with no room for the new subtree is outside the model's bound.
MkdirPlaces(d) == malloc(FillNodes(schema[d], "subdir"), Ents \ live)

DoMkdir(d, n) ==
    /\ \E m \in MkdirPlaces(d) :
          /\ Fill(m, schema[d], "subdir", n, d)
          /\ hidden' = HiddenAfterFill(m)
          /\ link' = LinkAfterFill(m)
    /\ UNCHANGED <<root, fh, fault>>

Mkdir(p) ==
    /\ Idle
    /\ Absent(p)
    /\ \E d \in live :
          /\ d = Search(Front(p))
          /\ MkdirRet(d, Last(p)) = "ok"
          /\ DoMkdir(d, Last(p))
    /\ UNCHANGED <<exec, walk, stale>>

(***************************************************************************)
(* rmdir.  The whole subtree is freed, whatever it holds; handles into it  *)
(* keep the addresses of the freed cells.  The root has no parent to       *)
(* unlink it from.                                                         *)
(***************************************************************************)
\* Mutant: the type is not checked.
RmdirAnyDir(e) == IF ~Found(e) THEN "ENOENT" ELSE "ok"

RmdirRet(e) ==
    IF ~Found(e) THEN "ENOENT"
    ELSE IF type[e] # "subdir" THEN "ENOTDIR"
    ELSE "ok"

Free(gone) ==
    LET Reset(f, v) == [x \in Ents |-> IF x \in gone THEN v ELSE f[x]]
    IN  /\ live' = live \ gone
        /\ name' = Reset(name, SName[RootSchema])
        /\ type' = Reset(type, "value")
        /\ schema' = Reset(schema, RootSchema)
        /\ parent' = Reset(parent, NULL)
        /\ hidden' = Reset(hidden, TRUE)
        /\ link' = Reset(link, NULL)
        /\ data' = Reset(data, << >>)
        /\ fh' = [h \in Handles |->
                     IF fh[h] \in gone
                     THEN IF IsDir(fh[h]) THEN FreedDir ELSE Freed
                     ELSE fh[h]]

\* Mutant: without "ent->next = NULL" schemafs_free goes on to the siblings.
RmdirFreesSiblings(e) ==
    IF parent[e] = NULL THEN Crash("null")
    ELSE LET list == kids[parent[e]]
             at == CHOOSE i \in DOMAIN list : list[i] = e
             gone == UNION {Subtree(list[i]) : i \in at .. Len(list)}
         IN  /\ Free(gone)
             /\ kids' = [x \in Ents |->
                            IF x \in gone THEN << >>
                            ELSE IF x = parent[e] THEN Without(kids[x], e)
                            ELSE kids[x]]
             /\ UNCHANGED <<root, fault>>

DoRmdir(e) ==
    IF parent[e] = NULL THEN Crash("null")
    ELSE IF ~Listed(e) THEN Crash("assert")
    ELSE LET gone == Subtree(e)
         IN  /\ Free(gone)
             /\ kids' = [x \in Ents |->
                            IF x \in gone THEN << >>
                            ELSE IF x = parent[e] THEN Without(kids[x], e)
                            ELSE kids[x]]
             /\ UNCHANGED <<root, fault>>

Rmdir(p) ==
    /\ Idle
    /\ p # << >> /\ Exists(p)
    /\ \E e \in live :
          /\ e = Search(p)
          /\ RmdirRet(e) = "ok"
          /\ CloseFirst => \A h \in Handles : fh[h] \notin Subtree(e)
          /\ DoRmdir(e)
    /\ UNCHANGED <<exec, walk, stale>>

(***************************************************************************)
(* create.  Called by the kernel for a name getattr did not find.  A       *)
(* pattern makes a new visible sibling; a directory or link pattern does   *)
(* so too before the handler returns EPERM.                                *)
(***************************************************************************)
NewFromPattern(m, d, e, n) ==
    /\ name[e] # n
    /\ Fill(m, schema[e], type[e], n, d)
    /\ hidden' = [HiddenAfterFill(m) EXCEPT ![m[schema[e]]] = FALSE]

PatternPlaces(e) == malloc(FillNodes(schema[e], type[e]), Ents \ live)

\* On the way to the last component no pattern comes before the directory
\* the path means.
Direct(p) ==
    \A i \in 1 .. Len(p) - 1 :
        FnMatch(Search(SubSeq(p, 1, i - 1)), p[i]) = Search(SubSeq(p, 1, i))

CreateNew(h, p) ==
    /\ Idle
    /\ fh[h] = NULL
    /\ Absent(p) /\ Direct(p)
    /\ \E d, e \in live :
          /\ d = Search(Front(p))
          /\ e = FnMatch(d, Last(p))
          /\ \E m \in PatternPlaces(e) :
                /\ NewFromPattern(m, d, e, Last(p))
                /\ link' = LinkAfterFill(m)
                /\ fh' = [fh EXCEPT ![h] =
                             IF type[e] \in {"link", "subdir", "object"}
                             THEN NULL ELSE m[schema[e]]]
    /\ UNCHANGED <<root, exec, walk, fault, stale>>

CreateHidden(h, p) ==
    /\ Idle
    /\ fh[h] = NULL
    /\ Absent(p) /\ Direct(p)
    /\ \E e \in live :
          /\ e = FnMatch(Search(Front(p)), Last(p))
          /\ name[e] = Last(p)
          /\ type[e] \notin {"link", "subdir", "object"}
          /\ hidden' = [hidden EXCEPT ![e] = FALSE]
          /\ fh' = [fh EXCEPT ![h] = e]
    /\ UNCHANGED <<root, tree, link, data, exec, walk, fault, stale>>

(***************************************************************************)
(* symlink, unlink.  A link entry is hidden while it has no target.        *)
(***************************************************************************)
SymlinkNew(p, t) ==
    /\ Idle
    /\ Absent(p) /\ Direct(p)
    /\ \E d, e \in live :
          /\ d = Search(Front(p))
          /\ e = FnMatch(d, Last(p))
          /\ \E m \in PatternPlaces(e) :
                /\ NewFromPattern(m, d, e, Last(p))
                /\ link' = IF type[e] = "link"
                           THEN [LinkAfterFill(m) EXCEPT ![m[schema[e]]] = t]
                           ELSE LinkAfterFill(m)
    /\ UNCHANGED <<root, fh, exec, walk, fault, stale>>

SymlinkHidden(p, t) ==
    /\ Idle
    /\ Absent(p) /\ Direct(p)
    /\ \E e \in live :
          /\ e = FnMatch(Search(Front(p)), Last(p))
          /\ name[e] = Last(p)
          /\ type[e] = "link"
          /\ link' = [link EXCEPT ![e] = t]
          /\ hidden' = [hidden EXCEPT ![e] = FALSE]
    /\ UNCHANGED <<root, tree, data, fh, exec, walk, fault, stale>>

(***************************************************************************)
(* create and symlink where a pattern comes first on the way: fnmatch      *)
(* makes an entry from it beside the directory the path means, and goes on *)
(* in the new entry, where it may meet the next pattern.  walk says where  *)
(* it is and what is left; nothing else happens until it ends.             *)
(***************************************************************************)
Detour(d, e, n, rest, ask) ==
    /\ \E m \in PatternPlaces(e) :
          /\ NewFromPattern(m, d, e, n)
          /\ link' = LinkAfterFill(m)
          /\ walk' = [at |-> m[schema[e]], rest |-> rest, ask |-> ask]
    /\ UNCHANGED <<root, fh, exec, fault, stale>>

PatternOnWay(p, ask) ==
    /\ Idle
    /\ Absent(p)
    /\ ask[1] = "create" => fh[ask[2]] = NULL
    /\ \E i \in 1 .. Len(p) - 1, d, e \in live :
          /\ Direct(SubSeq(p, 1, i))
          /\ d = Search(SubSeq(p, 1, i - 1))
          /\ e = FnMatch(d, p[i])
          /\ Detour(d, e, p[i], SubSeq(p, i + 1, Len(p)), ask)

Walking == walk.at \in live /\ fault = "none"

WalkInto ==
    /\ Walking /\ walk.rest # << >>
    /\ \E e \in live :
          /\ e = FnMatch(walk.at, Head(walk.rest))
          /\ name[e] = Head(walk.rest)
          /\ walk' = [walk EXCEPT !.at = e, !.rest = Tail(@)]
    /\ UNCHANGED <<root, tree, hidden, link, data, fh, exec, fault, stale>>

WalkDetour ==
    /\ Walking /\ walk.rest # << >>
    /\ \E e \in live :
          /\ e = FnMatch(walk.at, Head(walk.rest))
          /\ Detour(walk.at, e, Head(walk.rest), Tail(walk.rest), walk.ask)

\* ENOENT: what was made on the way stays.
WalkLost ==
    /\ Walking /\ walk.rest # << >>
    /\ FnMatch(walk.at, Head(walk.rest)) = NULL
    /\ walk' = NoWalk
    /\ UNCHANGED <<root, tree, hidden, link, data, fh, exec, fault, stale>>

\* The new entry is a file or a link: its children pointer was never set.
WalkAstray ==
    /\ Walking /\ walk.rest # << >>
    /\ ~IsDir(walk.at)
    /\ Crash("uninitialised")
    /\ UNCHANGED <<exec, walk, stale>>

WalkEnds(op) ==
    /\ Walking /\ walk.rest = << >>
    /\ walk.ask[1] = op
    /\ walk' = NoWalk

WalkCreates ==
    /\ WalkEnds("create")
    /\ type[walk.at] \notin {"link", "subdir", "object"}
    /\ hidden' = [hidden EXCEPT ![walk.at] = FALSE]
    /\ fh' = [fh EXCEPT ![walk.ask[2]] = walk.at]
    /\ UNCHANGED <<root, tree, link, data, exec, fault, stale>>

WalkLinks ==
    /\ WalkEnds("symlink")
    /\ type[walk.at] = "link"
    /\ link' = [link EXCEPT ![walk.at] = walk.ask[2]]
    /\ hidden' = [hidden EXCEPT ![walk.at] = FALSE]
    /\ UNCHANGED <<root, tree, data, fh, exec, fault, stale>>

\* EPERM.
WalkRefused ==
    /\ \/ WalkEnds("create") /\ type[walk.at] \in {"link", "subdir", "object"}
       \/ WalkEnds("symlink") /\ type[walk.at] # "link"
    /\ UNCHANGED <<root, tree, hidden, link, data, fh, exec, fault, stale>>

UnlinkRet(e) ==
    IF ~Found(e) THEN "ENOENT" ELSE IF type[e] # "link" THEN "EPERM" ELSE "ok"

\* Mutant: the entry stays visible.
UnlinkVisible(p) ==
    /\ Idle
    /\ Exists(p)
    /\ \E e \in live :
          /\ e = Search(p)
          /\ UnlinkRet(e) = "ok"
          /\ link' = [link EXCEPT ![e] = NULL]
    /\ UNCHANGED <<root, tree, hidden, data, fh, exec, walk, fault, stale>>

\* Mutant: link is freed and not reset.
UnlinkDangling(p) ==
    /\ Idle
    /\ Exists(p)
    /\ \E e \in live :
          /\ e = Search(p)
          /\ UnlinkRet(e) = "ok"
          /\ link' = [link EXCEPT ![e] = Freed]
          /\ hidden' = [hidden EXCEPT ![e] = TRUE]
    /\ UNCHANGED <<root, tree, data, fh, exec, walk, fault, stale>>

Unlink(p) ==
    /\ Idle
    /\ Exists(p)
    /\ \E e \in live :
          /\ e = Search(p)
          /\ UnlinkRet(e) = "ok"
          /\ link' = [link EXCEPT ![e] = NULL]
          /\ hidden' = [hidden EXCEPT ![e] = TRUE]
    /\ UNCHANGED <<root, tree, data, fh, exec, walk, fault, stale>>

(***************************************************************************)
(* rename.  The handler looks the new name up as a bare name, so it does   *)
(* not see an entry of that name in the new parent.  The kernel (external) *)
(* refuses to move a directory below itself or onto a directory above it,  *)
(* and a directory onto a file or a file onto a directory.                 *)
(***************************************************************************)
RenameRet(par, n, e) ==
    IF ~Found(par) THEN "ENOTDIR"
    ELSE IF SearchBare(n) # NULL THEN "EEXIST"
    ELSE IF ~Found(e) THEN "ENOENT"
    ELSE "ok"

KernelMayRename(e, par, target) ==
    /\ e # root
    /\ IsDir(par)
    /\ par \notin Subtree(e)
    /\ Found(target) => /\ Replace
                        /\ target # e
                        /\ IsDir(target) = IsDir(e)
                        /\ e \notin Subtree(target)

\* Mutants: ent->parent, ent->name, or the list of the new parent is not set.
RenameKeepsParent(e, par, n) ==
    IF ~Listed(e) THEN Crash("assert")
    ELSE /\ kids' = [x \in Ents |->
                        LET left == IF x = parent[e] THEN Without(kids[x], e)
                                    ELSE kids[x]
                        IN  IF x = par THEN <<e>> \o left ELSE left]
         /\ name' = [name EXCEPT ![e] = n]
         /\ UNCHANGED <<root, live, type, schema, parent, hidden, link, data,
                        fh, fault>>

RenameKeepsName(e, par, n) ==
    /\ kids' = [x \in Ents |->
                   LET left == IF x = parent[e] THEN Without(kids[x], e)
                               ELSE kids[x]
                   IN  IF x = par THEN <<e>> \o left ELSE left]
    /\ parent' = [parent EXCEPT ![e] = par]
    /\ UNCHANGED <<root, live, name, type, schema, hidden, link, data, fh, fault>>

RenameLoses(e, par, n) ==
    /\ kids' = [kids EXCEPT ![parent[e]] = Without(@, e)]
    /\ name' = [name EXCEPT ![e] = n]
    /\ parent' = [parent EXCEPT ![e] = par]
    /\ UNCHANGED <<root, live, type, schema, hidden, link, data, fh, fault>>

DoRename(e, par, n) ==
    IF ~Listed(e) THEN Crash("assert")
    ELSE /\ kids' = [x \in Ents |->
                        LET left == IF x = parent[e] THEN Without(kids[x], e)
                                    ELSE kids[x]
                        IN  IF x = par THEN <<e>> \o left ELSE left]
         /\ name' = [name EXCEPT ![e] = n]
         /\ parent' = [parent EXCEPT ![e] = par]
         /\ UNCHANGED <<root, live, type, schema, hidden, link, data, fh, fault>>

Rename(p, q) ==
    /\ Idle
    /\ Exists(p)
    /\ q # << >> /\ Walkable(q)
    /\ \E e, par \in live :
          /\ e = Search(p)
          /\ par = Search(Front(q))
          /\ RenameRet(par, Last(q), e) = "ok"
          /\ KernelMayRename(e, par, Search(q))
          /\ DoRename(e, par, Last(q))
    /\ UNCHANGED <<exec, walk, stale>>

\* The kernel still holds a name that a compound rmdir has freed: the old
\* path is gone and the error path frees dirname a second time.
RenameStale(p, q) ==
    /\ Idle
    /\ stale
    /\ ~Found(Search(p))
    /\ q # << >> /\ Walkable(q)
    /\ RenameRet(Search(Front(q)), Last(q), Search(p)) = "ENOENT"
    /\ Crash("double free")
    /\ UNCHANGED <<exec, walk, stale>>

\* The kernel's cached name times out.
StaleExpires ==
    /\ Idle
    /\ stale
    /\ stale' = FALSE
    /\ UNCHANGED <<root, tree, hidden, link, data, fh, exec, walk, fault>>

-----------------------------------------------------------------------------
(***************************************************************************)
(* Handles.  The kernel follows links itself; there is no releasedir       *)
(* handler, so closing a directory touches nothing.                        *)
(***************************************************************************)
Open(h, p) ==
    /\ Idle
    /\ fh[h] = NULL
    /\ Exists(p)
    /\ \E e \in live :
          /\ e = Search(p)
          /\ type[e] # "link"
          /\ fh' = [fh EXCEPT ![h] = e]
    /\ UNCHANGED <<root, tree, hidden, link, data, exec, walk, fault, stale>>

\* The outcomes of ent->set(): bytes are laid over what is there and never
\* shorten it (truncate does nothing); a value is replaced if it parses.
Overlay(old, new, o) ==
    [i \in 1 .. (IF o + Len(new) > Len(old) THEN o + Len(new) ELSE Len(old)) |->
        IF i > o /\ i <= o + Len(new) THEN new[i - o] ELSE old[i]]

SetOutcomes(e, b, o) ==
    IF type[e] \in RawTypes THEN {Overlay(data[e], b, o)}
    ELSE IF type[e] = "value" THEN {b, data[e]}
    ELSE {}

Write(h, b, o) ==
    /\ Idle
    /\ fh[h] \in live
    /\ o <= Len(data[fh[h]]) /\ o + Len(b) <= MaxLines
    /\ \E v \in SetOutcomes(fh[h], b, o) :
          data' = [data EXCEPT ![fh[h]] = v]
    /\ UNCHANGED <<root, tree, hidden, link, fh, exec, walk, fault, stale>>

\* The last close of a file: a compound file runs, whether or not this
\* opening wrote it.
Release(h) ==
    /\ Idle
    /\ fh[h] \in live /\ ~IsDir(fh[h])
    /\ exec' = IF type[fh[h]] = "compound" THEN data[fh[h]] ELSE << >>
    /\ fh' = [fh EXCEPT ![h] = NULL]
    /\ UNCHANGED <<root, tree, hidden, link, data, walk, fault, stale>>

CloseDir(h) ==
    /\ Idle
    /\ fh[h] = FreedDir \/ (fh[h] \in live /\ IsDir(fh[h]))
    /\ fh' = [fh EXCEPT ![h] = NULL]
    /\ UNCHANGED <<root, tree, hidden, link, data, exec, walk, fault, stale>>

\* read, write, readdir or release through a handle whose cell was freed.
UseFreed(h) ==
    /\ Idle
    /\ fh[h] \in {Freed, FreedDir}
    /\ Crash("use after free")
    /\ UNCHANGED <<exec, walk, stale>>

-----------------------------------------------------------------------------
(***************************************************************************)
(* The compound handler: each line calls the handler itself, past every    *)
(* check of the kernel, and goes on whatever it returns.  The loop runs    *)
(* inside one release, so nothing else happens until exec is empty.        *)
(***************************************************************************)
LineIs(op) == exec # << >> /\ fault = "none" /\ Cmd[Head(exec)].op = op
LinePath == Cmd[Head(exec)].path

CompoundMkdir ==
    /\ LineIs("mkdir")
    /\ exec' = Tail(exec)
    /\ LET d == IF LinePath = << >> THEN NULL ELSE Search(Front(LinePath))
       IN  IF /\ d \in live
              /\ MkdirRet(d, Last(LinePath)) = "ok"
              /\ MkdirPlaces(d) # {}
           THEN DoMkdir(d, Last(LinePath))
           ELSE UNCHANGED <<root, tree, hidden, link, data, fh, fault>>
    /\ UNCHANGED <<walk, stale>>

CompoundRmdir ==
    /\ LineIs("rmdir")
    /\ exec' = Tail(exec)
    /\ LET e == Search(LinePath)
       IN  IF e \in live /\ RmdirRet(e) = "ok"
           THEN DoRmdir(e) /\ stale' = TRUE
           ELSE UNCHANGED <<root, tree, hidden, link, data, fh, fault, stale>>
    /\ UNCHANGED walk

CompoundWrite ==
    /\ LineIs("write")
    /\ exec' = Tail(exec)
    /\ LET e == Search(LinePath)
           b == Cmd[Head(exec)].text
       IN  IF e \in live /\ Found(e) /\ SetOutcomes(e, b, 0) # {}
           THEN \E v \in SetOutcomes(e, b, 0) : data' = [data EXCEPT ![e] = v]
           ELSE UNCHANGED data
    /\ UNCHANGED <<root, tree, hidden, link, fh, walk, fault, stale>>

CompoundOther ==
    /\ LineIs("other")
    /\ exec' = Tail(exec)
    /\ UNCHANGED <<root, tree, hidden, link, data, fh, walk, fault, stale>>

\* A line with no space after the command, or a write with no data: the
\* handler writes next to the null pointer strchr() returns.
CompoundBad ==
    /\ LineIs("bad")
    /\ exec' = Tail(exec)
    /\ Crash("null")
    /\ UNCHANGED <<walk, stale>>

\* A lookup that goes on below a file reads the children pointer _fill() did
\* not set there.  It may be null, as if the file were an empty directory
\* (the actions above), or lead anywhere.
PassesFile(p) ==
    \E i \in 0 .. Len(p) - 1 :
        /\ Search(SubSeq(p, 1, i)) \in live
        /\ ~IsDir(Search(SubSeq(p, 1, i)))

CompoundAstray ==
    /\ \/ LineIs("mkdir") /\ LinePath # << >> /\ PassesFile(Front(LinePath))
       \/ (LineIs("rmdir") \/ LineIs("write")) /\ PassesFile(LinePath)
    /\ exec' = Tail(exec)
    /\ Crash("uninitialised")
    /\ UNCHANGED <<walk, stale>>

-----------------------------------------------------------------------------
Next ==
    \/ Mount
    \/ Die
    \/ \E p \in Paths :
          \/ Mkdir(p)
          \/ Rmdir(p)
          \/ Unlink(p)
          \/ \E t \in Targets : SymlinkNew(p, t) \/ SymlinkHidden(p, t)
          \/ \E ask \in Asks : PatternOnWay(p, ask)
    \/ WalkInto \/ WalkDetour \/ WalkLost \/ WalkAstray
    \/ WalkCreates \/ WalkLinks \/ WalkRefused
    \/ \E pq \in Moves : Rename(pq[1], pq[2]) \/ RenameStale(pq[1], pq[2])
    \/ \E h \in Handles :
          \/ \E p \in Paths :
                Open(h, p) \/ CreateNew(h, p) \/ CreateHidden(h, p)
          \/ \E b \in Bufs, o \in 0 .. MaxLines : Write(h, b, o)
          \/ Release(h)
          \/ CloseDir(h)
          \/ UseFreed(h)
    \/ StaleExpires
    \/ CompoundMkdir
    \/ CompoundRmdir
    \/ CompoundWrite
    \/ CompoundOther
    \/ CompoundBad
    \/ CompoundAstray

Spec == Init /\ [][Next]_vars

-----------------------------------------------------------------------------
TypeOK ==
    /\ root \in Ents \cup {NULL}
    /\ live \subseteq Ents
    /\ name \in [Ents -> Names]
    /\ type \in [Ents -> Types]
    /\ schema \in [Ents -> Schemas]
    /\ parent \in [Ents -> Ents \cup {NULL}]
    /\ kids \in [Ents -> Seq(Ents)]
    /\ hidden \in [Ents -> BOOLEAN]
    /\ link \in [Ents -> Targets \cup {NULL}]
    /\ data \in [Ents -> Seq(Lines)]
    /\ fh \in [Handles -> live \cup {NULL, Freed, FreedDir}]
    /\ exec \in Seq(Lines)
    /\ walk \in Walks
    /\ fault \in Faults
    /\ stale \in BOOLEAN

(***************************************************************************)
(* The sibling lists and the parent pointers of the cells describe the     *)
(* same tree: a listed cell is allocated and points back at the directory  *)
(* that lists it, no list holds a cell twice, and every allocated cell but *)
(* the root is listed by its parent.  (schemafs.c keeps parent, next and   *)
(* children in step by hand in _mkdir, _rmdir, _rename and fnmatch.)       *)
(***************************************************************************)
ListsMatchParents ==
    /\ root = NULL => live = {}
    /\ root # NULL => root \in live /\ parent[root] = NULL
    /\ \A d \in live : \A i \in DOMAIN kids[d] :
          kids[d][i] \in live /\ parent[kids[d][i]] = d
    /\ \A d \in live : \A i, j \in DOMAIN kids[d] :
          kids[d][i] = kids[d][j] => i = j
    /\ \A e \in live \ {root} : parent[e] \in live /\ Listed(e)

\* Only directories have children.
FilesAreLeaves == \A e \in live : ~IsDir(e) => kids[e] = << >>

(***************************************************************************)
(* No directories form a ring cut off from the root: in every set of       *)
(* directories without the root some member hangs outside the set.  This   *)
(* is what makes the climb to the root, the walk of a path and the         *)
(* recursion of schemafs_free end.                                         *)
(***************************************************************************)
NoCycle ==
    \A S \in SUBSET (Dirs \ {root}) :
        S # {} => \E e \in S : parent[e] \notin S

\* No handler cuts an entry, or the subtree below it, off the tree: freeing
\* the root would free every entry that was ever hung into it.
AllReachable == root # NULL => Subtree(root) = live

\* The handlers that splice the lists by hand (_mkdir, _rmdir, _rename,
\* schemafs_fnmatch) leave a tree, whatever the order of requests.
TreeInv == ListsMatchParents /\ FilesAreLeaves /\ NoCycle

\* The assertions of _rmdir and _rename ("a check that ent was actually
\* removed") never fail.
AssertionsHold == fault # "assert"

\* A link is visible exactly while it has a target, so readlink never
\* answers EIO.
LinkVisibleIffTarget ==
    \A e \in live : type[e] = "link" => (hidden[e] <=> link[e] = NULL)

\* A name shows one entry of a directory: getattr, rename and rmdir mean
\* the entry that readdir lists.
VisibleNamesUnique ==
    \A d \in live : \A x, y \in Kids(d) :
        name[x] = name[y] /\ ~hidden[x] /\ ~hidden[y] => x = y

\* Clients that close files before removing the directories above them, and
\* write no batches, cannot make the process fail.
NoFault == fault = "none"

\* While the process lives, only a subdir goes away on its own: files,
\* links and object directories go only together with their directory.
OnlySubdirsRemoved ==
    [][fault = "none" =>
          \A e \in live \ live' : type[e] # "subdir" => parent[e] \notin live']_vars

\* "Check for new relative to new parent" (schemafs.c:542): a rename gives
\* an entry a place where the directory has no other entry of that name.
RenameSeesTarget ==
    [][\A e \in live \cap live' :
          <<parent'[e], name'[e]>> # <<parent[e], name[e]>> =>
              \A k \in Kids(parent'[e]) \ {e} : name[k] # name'[e]]_vars

-----------------------------------------------------------------------------
\* The directory that lists e.
Holder(e) ==
    IF \E d \in live : e \in Kids(d) THEN CHOOSE d \in live : e \in Kids(d)
    ELSE NULL

Tree == INSTANCE DirTree WITH
    place <- [e \in live |-> [dir |-> Holder(e), name |-> name[e]]],
    dirs <- Dirs,
    shown <- {e \in live : ~hidden[e]}

\* For clients that write no batches and rename onto no name that exists, the
\* handlers implement a directory tree: DirTree says what each may do to it.
ImplementsTree == Tree!Spec

=============================================================================
