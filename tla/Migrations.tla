----------------------------- MODULE Migrations -----------------------------
(***************************************************************************)
(* The schema of IronDrive's database: run_migrations (db.rs) at every     *)
(* boot, by one or several processes on one database file, across releases *)
(* that add files to migrations/.                                          *)
(*                                                                         *)
(* No transaction covers a file: each of its statements commits by itself, *)
(* and the row of _migrations is one more statement.  Every await is a     *)
(* step.  A statement that fails ends the process (main.rs: expect), and   *)
(* docker-compose.yml starts it again.  A file is the sequence of its      *)
(* statements, of which only one thing matters: whether it says IF NOT     *)
(* EXISTS ("ensure") or not ("create").                                    *)
(***************************************************************************)
EXTENDS Naturals, Sequences

CONSTANTS
    Procs,      \* processes on one database
    Shapes,     \* Shapes[f]: the statements of file f, the files in sorted order
    MaxMishaps  \* bound on crashes and failed statements

ASSUME BoundAssumption ==
    /\ Shapes \in Seq(Seq({"create", "ensure"})) /\ Shapes # <<>>
    /\ \A f \in 1..Len(Shapes) : Shapes[f] # <<>>
    /\ MaxMishaps \in Nat

VARIABLES
    shipped,   \* the files 1..shipped are in migrations/
    objects,   \* objects[f]: the statements of f whose table or index is there
    recorded,  \* the files with a row in _migrations
    proc,      \* proc[p]: the process p, and its place in run_migrations
    mishaps    \* crashes and failed statements so far

vars == <<shipped, objects, recorded, proc, mishaps>>

Files == 1..Len(Shapes)
Statements(f) == 1..Len(Shapes[f])
Whole(f) == objects[f] = Statements(f)

\* files: what read_migration_files found; f: the file of the loop's turn;
\* k: the statement of f that is next.
Process(pc, files, f, k) == [pc |-> pc, files |-> files, f |-> f, k |-> k]
Off == Process("off", 0, 0, 0)
At(p, pc) == proc[p].pc = pc
Become(p, process) == proc' = [proc EXCEPT ![p] = process]

\* The loop goes on after file f, or run_migrations returns.
Turn(p, files, f) ==
    Become(p, IF f < files THEN Process("select", files, f + 1, 0)
                           ELSE Process("serving", files, 0, 0))

(***************************************************************************)
(* The boot.                                                               *)
(***************************************************************************)
\* The process starts, makes _migrations if it is not there, and lists the
\* files and sorts them.
Boot(p) ==
    /\ At(p, "off")
    /\ Turn(p, shipped, 0)
    /\ UNCHANGED <<shipped, objects, recorded, mishaps>>

SelectApplied(p) ==
    /\ At(p, "select")
    /\ IF proc[p].f \in recorded THEN Turn(p, proc[p].files, proc[p].f)
       ELSE Become(p, Process("apply", proc[p].files, proc[p].f, 1))
    /\ UNCHANGED <<shipped, objects, recorded, mishaps>>

\* Variant of ApplyStatement: what is there already has been applied before.
ApplyStatementTaken(p) ==
    /\ At(p, "apply")
    /\ LET f == proc[p].f
           k == proc[p].k
           done == Shapes[f][k] = "create" /\ k \in objects[f]
       IN  /\ objects' = [objects EXCEPT ![f] = objects[f] \cup {k}]
           /\ Become(p, IF ~done /\ k < Len(Shapes[f])
                        THEN Process("apply", proc[p].files, f, k + 1)
                        ELSE Process("record", proc[p].files, f, 0))
    /\ UNCHANGED <<shipped, recorded, mishaps>>

\* Variant of ApplyStatement: every statement fails on what is there.
ApplyStatementStrict(p) ==
    /\ At(p, "apply")
    /\ LET f == proc[p].f
           k == proc[p].k
       IN  IF k \in objects[f]
           THEN Become(p, Off) /\ UNCHANGED objects
           ELSE /\ objects' = [objects EXCEPT ![f] = objects[f] \cup {k}]
                /\ Become(p, IF k < Len(Shapes[f])
                             THEN Process("apply", proc[p].files, f, k + 1)
                             ELSE Process("record", proc[p].files, f, 0))
    /\ UNCHANGED <<shipped, recorded, mishaps>>

\* A statement of raw_sql.  CREATE fails on what is there.
ApplyStatement(p) ==
    /\ At(p, "apply")
    /\ LET f == proc[p].f
           k == proc[p].k
       IN  IF Shapes[f][k] = "create" /\ k \in objects[f]
           THEN Become(p, Off) /\ UNCHANGED objects
           ELSE /\ objects' = [objects EXCEPT ![f] = objects[f] \cup {k}]
                /\ Become(p, IF k < Len(Shapes[f])
                             THEN Process("apply", proc[p].files, f, k + 1)
                             ELSE Process("record", proc[p].files, f, 0))
    /\ UNCHANGED <<shipped, recorded, mishaps>>

\* INSERT INTO _migrations: filename is its PRIMARY KEY.
RecordApplied(p) ==
    /\ At(p, "record")
    /\ IF proc[p].f \in recorded
       THEN Become(p, Off) /\ UNCHANGED recorded
       ELSE /\ recorded' = recorded \cup {proc[p].f}
            /\ Turn(p, proc[p].files, proc[p].f)
    /\ UNCHANGED <<shipped, objects, mishaps>>

run_migrations(p) == Boot(p) \/ SelectApplied(p) \/ ApplyStatement(p) \/ RecordApplied(p)

(***************************************************************************)
(* The world around it.                                                    *)
(***************************************************************************)
\* A crash, or a statement that fails for another reason, at any time.
Crash(p) ==
    /\ ~At(p, "off")
    /\ mishaps < MaxMishaps
    /\ mishaps' = mishaps + 1
    /\ Become(p, Off)
    /\ UNCHANGED <<shipped, objects, recorded>>

\* A release adds the next file; whoever boots from now on finds it.
Release ==
    /\ shipped < Len(Shapes)
    /\ shipped' = shipped + 1
    /\ UNCHANGED <<objects, recorded, proc, mishaps>>

\* A process that serves is stopped in order to run the new release.
Upgrade(p) ==
    /\ At(p, "serving")
    /\ proc[p].files < shipped
    /\ Become(p, Off)
    /\ UNCHANGED <<shipped, objects, recorded, mishaps>>

Init ==
    /\ shipped = 1
    /\ objects = [f \in Files |-> {}]
    /\ recorded = {}
    /\ proc = [p \in Procs |-> Off]
    /\ mishaps = 0

Next == Release \/ \E p \in Procs : run_migrations(p) \/ Crash(p) \/ Upgrade(p)

Spec == Init /\ [][Next]_vars

\* A boot goes on, and a process that ended is started again.
FairSpec == Spec /\ \A p \in Procs : WF_vars(run_migrations(p))

-----------------------------------------------------------------------------
Places == [pc : {"off", "select", "apply", "record", "serving"},
           files : 0..Len(Shapes), f : 0..Len(Shapes), k : Nat]

\* The types; a place in the loop is one of a file that was found.
TypeOK ==
    /\ shipped \in Files
    /\ objects \in [Files -> SUBSET Nat] /\ \A f \in Files : objects[f] \subseteq Statements(f)
    /\ recorded \subseteq Files
    /\ proc \in [Procs -> Places]
    /\ \A p \in Procs :
          /\ At(p, "select") \/ At(p, "apply") \/ At(p, "record")
                => proc[p].f \in 1..proc[p].files
          /\ At(p, "apply") => proc[p].k \in Statements(proc[p].f)
    /\ mishaps \in 0..MaxMishaps

\* A file with a row in _migrations has been applied as a whole, although
\* neither a transaction nor a lock holds its statements and the row together.
RecordedIsWhole == \A f \in recorded : Whole(f)

\* A server answers requests only with the whole schema of its release, also
\* where it found a database that another process was halfway through.
ServesWhole ==
    \A p \in Procs : At(p, "serving") => \A f \in 1..proc[p].files : Whole(f)

\* Both: half a file is neither recorded nor served, whoever boots meanwhile
\* and whichever process crashes.
SchemaWhole == RecordedIsWhole /\ ServesWhole

\* No statement of a file runs before the files it builds on are recorded:
\* the tables that a foreign key names are there.
InOrder ==
    \A f \in Files : objects[f] # {} => \A g \in 1..f - 1 : g \in recorded

\* p is past statement k of f and will go on from there.
Beyond(p, f, k) ==
    /\ proc[p].f = f
    /\ At(p, "record") \/ (At(p, "apply") /\ proc[p].k > k)

\* A statement that cannot run twice has run, its file has no row, and nobody
\* is on the way to write it.
Torn ==
    \E f \in Files \ recorded : \E k \in objects[f] :
        Shapes[f][k] = "create" /\ \A p \in Procs : ~Beyond(p, f, k)

\* Nothing the server does repairs a torn file.
TornStays == [][Torn => Torn']_vars

\* A process that is started comes to serve, whatever other processes do at
\* the same time, and after a crash too, unless the crash has torn a file: two
\* boots that race only make each other fail for a time, and a file whose
\* statements all say IF NOT EXISTS is finished by the next boot.
BootsUnlessTorn ==
    \A p \in Procs : At(p, "off") ~> (At(p, "serving") \/ Torn)
=============================================================================
