------------------------------ MODULE FileTree ------------------------------
(***************************************************************************)
(* What the file store of IronDrive promises to whoever uses it alone: a   *)
(* tree of directories and files on which an upload, a directory's         *)
(* creation, a deletion and a rename each happen at once.  One that ends   *)
(* with an error may leave a part of it, and only the parts stated here.   *)
(* Two changes at the same time, a crash or a damaged disk end the         *)
(* promise: calm is then over.                                             *)
(***************************************************************************)
EXTENDS Naturals, Sequences

CONSTANTS
    Paths,       \* the paths of a tree, as sequences of names; not the root
    MaxUploads   \* bound on the uploads, numbered as they begin

VARIABLES
    tree,   \* tree[p]: 0 for nothing, a directory, the upload stored at p, or
            \* a file that cannot be read
    calm

Directory == MaxUploads + 1
Unreadable == MaxUploads + 2
Entries == 0..Unreadable

\* q lies below p.
Below(q, p) == Len(p) < Len(q) /\ SubSeq(q, 1, Len(p)) = p
AtOrBelow(q, p) == q = p \/ Below(q, p)

Nothing == [p \in Paths |-> 0]

\* The tree with the directories that p needs, if no file is in the way.
CanHold(t, p) == \A q \in Paths : Below(p, q) => t[q] \in {0, Directory}
WithParents(t, p) == [q \in Paths |-> IF Below(p, q) THEN Directory ELSE t[q]]

\* The tree after each change; a change that is refused leaves it alone.
AfterUpload(t, p, u) ==
    IF CanHold(t, p) /\ t[p] # Directory
    THEN [WithParents(t, p) EXCEPT ![p] = u] ELSE t

AfterMkdir(t, p) ==
    IF CanHold(t, p) /\ t[p] \in {0, Directory}
    THEN [WithParents(t, p) EXCEPT ![p] = Directory] ELSE t

AfterDelete(t, p) == [q \in Paths |-> IF AtOrBelow(q, p) THEN 0 ELSE t[q]]

\* What is at old moves to new, where nothing was, with all that is below it.
\* A move into itself is refused when the directories for it are there.
AfterRename(t, old, new) ==
    IF t[old] = 0 \/ t[new] # 0 \/ ~CanHold(t, new) THEN t
    ELSE IF AtOrBelow(new, old) THEN WithParents(t, new)
    ELSE [q \in Paths |->
            IF AtOrBelow(q, new)
            THEN LET from == old \o SubSeq(q, Len(new) + 1, Len(q))
                 IN  IF from \in Paths THEN t[from] ELSE 0
            ELSE IF AtOrBelow(q, old) THEN 0 ELSE WithParents(t, new)[q]]

\* What a change that fails on the way may leave: the upper directories of
\* those it makes, a file of which only a part is written, or a directory of
\* which only a part is deleted.
PartsOfMkdir(t, p) ==
    IF CanHold(t, p)
    THEN {[q \in Paths |-> IF Below(p, q) /\ Len(q) <= k THEN Directory ELSE t[q]] :
             k \in 0..Len(p)}
    ELSE {t}

PartsOfUpload(t, p) ==
    PartsOfMkdir(t, p)
    \cup (IF CanHold(t, p) /\ t[p] # Directory
          THEN {[WithParents(t, p) EXCEPT ![p] = Unreadable]} ELSE {})

PartsOfRename(t, old, new) ==
    IF t[old] = 0 \/ t[new] # 0 THEN {t} ELSE PartsOfMkdir(t, new)

WellShaped(t) == \A q \in Paths : t[q] # 0 => \A x \in Paths : Below(q, x) => t[x] = Directory

PartsOfDelete(t, p) ==
    {s \in [Paths -> Entries] :
        /\ WellShaped(s)
        /\ \A q \in Paths : s[q] = t[q] \/ (Below(q, p) /\ s[q] = 0)}

Change == \E p \in Paths :
             \/ \E u \in 1..MaxUploads : tree' = AfterUpload(tree, p, u)
             \/ tree' = AfterMkdir(tree, p)
             \/ tree' = AfterDelete(tree, p)
             \/ \E new \in Paths : tree' = AfterRename(tree, p, new)

Part == \E p \in Paths :
           \/ tree' \in PartsOfUpload(tree, p)
           \/ tree' \in PartsOfMkdir(tree, p)
           \/ tree' \in PartsOfDelete(tree, p)
           \/ \E new \in Paths : tree' \in PartsOfRename(tree, p, new)

Init == /\ tree \in [Paths -> Entries]
        /\ WellShaped(tree)
        /\ calm = TRUE
Next == \/ calm /\ (Change \/ Part) /\ calm' = calm
        \/ calm' = FALSE /\ tree' = Nothing
Spec == Init /\ [][Next]_<<tree, calm>>
=============================================================================
