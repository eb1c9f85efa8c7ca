------------------------------- MODULE DirTree -------------------------------
(***************************************************************************)
(* What the schema filesystem promises clients that write no batches: a    *)
(* tree of directories that shows a name of a directory once.              *)
(*                                                                         *)
(* An entry that is not shown has its place all the same: a pattern, or a  *)
(* link without a target.  New entries come as a branch, for a schema says *)
(* what a new directory holds.                                             *)
(***************************************************************************)
VARIABLES
    place,          \* where an entry hangs: a directory, and a name in it
    dirs,           \* the entries that are directories
    shown           \* the entries clients see

vars == <<place, dirs, shown>>

Entries == DOMAIN place

\* S is e and all that hangs below it, where f says what hangs where.
IsBranch(S, e, f) ==
    /\ e \in S /\ f[e].dir \notin S
    /\ \A x \in DOMAIN f \ {e} : x \in S <=> f[x].dir \in S

Unused(at) == \A x \in shown : place[x] # at

-----------------------------------------------------------------------------
Init == place = << >> /\ dirs = {} /\ shown = {}

\* Nothing but a branch at e is new, and it shows a name once.
New(e) ==
    LET new == Entries' \ Entries
    IN  /\ IsBranch(new, e, place')
        /\ Entries \subseteq Entries' /\ place = [x \in Entries |-> place'[x]]
        /\ dirs' \ new = dirs /\ dirs' \subseteq Entries'
        /\ shown' \ new = shown /\ shown' \subseteq Entries'
        /\ \A x \in new \ {e} : place'[x].dir \in dirs'
        /\ \A x, y \in new \cap shown' : place'[x] = place'[y] => x = y

MakeRoot(e) == Entries = {} /\ New(e)

\* mkdir, create, symlink.
Make(e) ==
    /\ New(e)
    /\ place'[e].dir \in dirs \cap shown
    /\ Unused(place'[e])

\* create and symlink for an entry that the schema made.
Appear(e) ==
    /\ e \notin dirs \cup shown
    /\ place[e].dir \in dirs \cap shown
    /\ Unused(place[e])
    /\ shown' = shown \cup {e}
    /\ UNCHANGED <<place, dirs>>

\* unlink.
Disappear(e) ==
    /\ e \in shown \ dirs
    /\ shown' = shown \ {e}
    /\ UNCHANGED <<place, dirs>>

\* rename.
Move(e) ==
    /\ e \in shown /\ place[e].dir \in dirs
    /\ e \in Entries' /\ place' = [place EXCEPT ![e] = place'[e]]
    /\ place'[e].dir \in dirs \cap shown
    /\ Unused(place'[e])
    /\ UNCHANGED <<dirs, shown>>
    /\ \E S \in SUBSET Entries : IsBranch(S, e, place) /\ place'[e].dir \notin S

\* rmdir: all that is below it goes with the directory.
Remove(e) ==
    LET gone == Entries \ Entries'
    IN  /\ e \in dirs \cap shown /\ place[e].dir \in dirs
        /\ IsBranch(gone, e, place)
        /\ place' = [x \in Entries \ gone |-> place[x]]
        /\ dirs' = dirs \ gone
        /\ shown' = shown \ gone

\* The process that holds the tree ends.
End == place' = << >> /\ dirs' = {} /\ shown' = {}

Next ==
    \/ \E e \in Entries' \ Entries : MakeRoot(e) \/ Make(e)
    \/ \E e \in Entries : Appear(e) \/ Disappear(e) \/ Move(e) \/ Remove(e)
    \/ End

Spec == Init /\ [][Next]_vars

=============================================================================
