----------------------------- MODULE MCSchemaFS -----------------------------
(***************************************************************************)
(* A schema cut down from schema.txt: a directory of batches, switches     *)
(* (each with a nested subdir and a link) and one file that holds a value. *)
(***************************************************************************)
EXTENDS SchemaFS

CONSTANT Cells      \* number of heap cells

MCEnts == 1 .. Cells
MCNames == {"/", "batch", "*", "switches", "match", "peer", "ver",
            "output-*", "output-1", "a", "b"}
MCWild == {"*", "output-*"}
MCMatches == {"*"} \X (MCNames \ {"/"}) \cup {"output-*"} \X {"output-*", "output-1"}

\* 1 "/" { 2 batch { 3 * }, 4 switches { 5 match { }, 6 peer }, 7 ver }
MCSchemas == 1 .. 7
MCSKids == << <<2, 4, 7>>, <<3>>, << >>, <<5, 6>>, << >>, << >>, << >> >>
MCSName == <<"/", "batch", "*", "switches", "match", "peer", "ver">>
MCSType == <<"subdir", "subdir", "compound", "object", "subdir", "link", "value">>

\* Switches with a pattern in place of the subdir, for walks that leave their
\* path: 1 "/" { 2 batch { 3 * }, 4 switches { 5 peer, 6 output-* } }
WalkSchemas == 1 .. 6
WalkSKids == << <<2, 4>>, <<3>>, << >>, <<5, 6>>, << >>, << >> >>
WalkSName == <<"/", "batch", "*", "switches", "peer", "output-*">>
WalkSType == <<"subdir", "subdir", "compound", "object", "link", "value">>

(***************************************************************************)
(* First fit: the nodes, in order, take the lowest free cells.  Which cell *)
(* an entry gets makes no difference to the code while no handle dangles,  *)
(* and a dangling handle is marked as such when its cell is freed.         *)
(***************************************************************************)
Rank(S, x) == Cardinality({y \in S : y < x})
FirstFit(P, F) ==
    IF Cardinality(P) > Cardinality(F) THEN {}
    ELSE {[y \in P |-> CHOOSE f \in F : Rank(F, f) = Rank(P, y)]}

\* Directories made, removed and moved, within and out of their parents.
TreePaths ==
    {<<"switches">>, <<"switches", "batch">>, <<"switches", "a">>,
     <<"switches", "b">>, <<"switches", "a", "match">>,
     <<"switches", "a", "b">>, <<"a">>}

TreeMoves == TreePaths \X TreePaths

\* A file from a pattern, a link and its directory, kept open.
OpenPaths ==
    {<<"switches", "a">>, <<"switches", "a", "peer">>,
     <<"switches", "b">>, <<"batch">>, <<"batch", "a">>,
     <<"batch", "*">>, <<"ver">>}

OpenMoves ==
    {<<<<"switches", "a">>, <<"switches", "b">>>>,
     <<<<"switches", "a", "peer">>, <<"switches", "b">>>>,
     <<<<"batch", "a">>, <<"switches", "b">>>>}

\* Batches, and a pattern that clients move in front of a directory.
BatchPaths ==
    {<< >>, <<"*">>, <<"switches", "a">>, <<"batch", "a">>,
     <<"switches", "peer">>, <<"switches", "output-1">>}

BatchMoves ==
    {<<<<"switches", "a">>, <<"*">>>>, <<<<"batch", "a">>, <<"*">>>>}

MCLines == {"mkdir a", "rmdir a", "rmdir /", "write a", "other a", "bad"}
Line(o, p, t) == [op |-> o, path |-> p, text |-> t]
MCCmd == [l \in MCLines |->
    CASE l = "mkdir a" -> Line("mkdir", <<"switches", "a">>, << >>)
      [] l = "rmdir a" -> Line("rmdir", <<"switches", "a">>, << >>)
      [] l = "rmdir /" -> Line("rmdir", << >>, << >>)
      [] l = "write a" -> Line("write", <<"batch", "a">>, <<"bad">>)
      [] l = "bad" -> Line("bad", << >>, << >>)
      [] OTHER -> Line("other", << >>, << >>)]

NoBatch == {<< >>, <<"other a">>}
Batches ==
    {<<"rmdir a", "mkdir a">>, <<"write a", "mkdir a">>, <<"rmdir /", "mkdir a">>}

=============================================================================
