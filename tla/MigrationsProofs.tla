-------------------------- MODULE MigrationsProofs --------------------------
(***************************************************************************)
(* Theorems about Migrations, for every number of processes, migration     *)
(* files, statements and mishaps.                                          *)
(***************************************************************************)
EXTENDS Migrations, TLAPS

(***************************************************************************)
(* The steps of a process, each with what it does to proc.                 *)
(***************************************************************************)
LEMMA ShapesTyped ==
    Len(Shapes) \in Nat \ {0} /\ \A f \in Files : Len(Shapes[f]) \in Nat \ {0}
<1>1. Len(Shapes) \in Nat \ {0} /\ \A f \in Files : Shapes[f] \in Seq({"create", "ensure"})
  BY BoundAssumption DEF Files
<1>2. ASSUME NEW f \in Files PROVE Len(Shapes[f]) \in Nat \ {0}
  <2>1. Shapes[f] \in Seq({"create", "ensure"}) /\ Shapes[f] # <<>>
    BY <1>1, BoundAssumption DEF Files
  <2> QED  BY <2>1
<1> QED  BY <1>1, <1>2

LEMMA TurnTyped ==
    ASSUME TypeOK, NEW p \in Procs, NEW files \in Files, NEW f \in 0..files,
           Turn(p, files, f)
    PROVE  /\ proc' \in [Procs -> Places]
           /\ \A q \in Procs \ {p} : proc'[q] = proc[q]
           /\ \/ f < files /\ proc'[p] = Process("select", files, f + 1, 0)
              \/ f = files /\ proc'[p] = Process("serving", files, 0, 0)
<1>1. files \in 1..Len(Shapes) /\ Len(Shapes) \in Nat
  BY ShapesTyped DEF Files
<1>2. CASE f < files
  BY <1>1, <1>2 DEF Turn, Become, Process, TypeOK, Places
<1>3. CASE f = files
  BY <1>1, <1>3 DEF Turn, Become, Process, TypeOK, Places
<1> QED  BY <1>1, <1>2, <1>3

LEMMA OffTyped ==
    ASSUME TypeOK, NEW p \in Procs, Become(p, Off)
    PROVE  /\ proc' \in [Procs -> Places]
           /\ proc'[p] = Off /\ \A q \in Procs \ {p} : proc'[q] = proc[q]
  BY ShapesTyped DEF Become, Off, Process, TypeOK, Places

(***************************************************************************)
(* The inductive invariant.                                                *)
(***************************************************************************)
\* At a file, or past all of them: those before it have a row.
Placed ==
    \A p \in Procs :
        /\ At(p, "select") \/ At(p, "apply") \/ At(p, "record")
              => \A g \in 1..proc[p].f - 1 : g \in recorded
        /\ At(p, "serving") => \A g \in 1..proc[p].files : g \in recorded

\* Where a process is in a file, its statements have run up to there.
Progress ==
    \A p \in Procs :
        /\ At(p, "apply") => 1..proc[p].k - 1 \subseteq objects[proc[p].f]
        /\ At(p, "record") => Whole(proc[p].f)

IInv == TypeOK /\ Placed /\ Progress /\ RecordedIsWhole /\ InOrder

LEMMA InitIInv == Init => IInv
  BY ShapesTyped, BoundAssumption
  DEF Init, IInv, TypeOK, Placed, Progress, RecordedIsWhole, InOrder, At, Off, Process,
      Files, Statements, Places

LEMMA BootIInv == ASSUME IInv, NEW p \in Procs, Boot(p) PROVE IInv'
<1>1. Turn(p, shipped, 0) /\ shipped \in Files /\ 0 \in 0..shipped
  BY ShapesTyped DEF Boot, IInv, TypeOK, Files
<1>2. /\ proc' \in [Procs -> Places]
      /\ \A q \in Procs \ {p} : proc'[q] = proc[q]
      /\ proc'[p] = Process("select", shipped, 1, 0)
  <2>1. 0 < shipped /\ 0 # shipped /\ 0 + 1 = 1
    BY <1>1, ShapesTyped DEF Files
  <2>2. /\ proc' \in [Procs -> Places]
        /\ \A q \in Procs \ {p} : proc'[q] = proc[q]
        /\ \/ 0 < shipped /\ proc'[p] = Process("select", shipped, 0 + 1, 0)
           \/ 0 = shipped /\ proc'[p] = Process("serving", shipped, 0, 0)
    BY <1>1, TurnTyped DEF IInv
  <2> QED  BY <2>1, <2>2
<1>3. UNCHANGED <<shipped, objects, recorded, mishaps>>
  BY DEF Boot
<1>4. TypeOK'
  BY <1>1, <1>2, <1>3 DEF IInv, TypeOK, At, Process, Files
<1>5. Placed'
  BY <1>2, <1>3 DEF IInv, Placed, At, Process
<1>6. Progress'
  BY <1>2, <1>3 DEF IInv, Progress, At, Process, Whole
<1>7. RecordedIsWhole' /\ InOrder'
  BY <1>3 DEF IInv, RecordedIsWhole, InOrder, Whole
<1> QED  BY <1>4, <1>5, <1>6, <1>7 DEF IInv

\* The loop moves on past a file that has a row.
LEMMA TurnIInv ==
    ASSUME IInv, NEW p \in Procs, At(p, "select") \/ At(p, "record"),
           Turn(p, proc[p].files, proc[p].f),
           proc[p].f \in recorded', recorded \subseteq recorded', recorded' \subseteq Files,
           UNCHANGED <<shipped, objects, mishaps>>, RecordedIsWhole'
    PROVE  IInv'
<1>1. proc[p].files \in Files /\ proc[p].f \in 0..proc[p].files /\ proc[p].f > 0
  BY ShapesTyped DEF IInv, TypeOK, Files, Places
<1>2. /\ proc' \in [Procs -> Places]
      /\ \A q \in Procs \ {p} : proc'[q] = proc[q]
      /\ \/ /\ proc[p].f < proc[p].files
            /\ proc'[p] = Process("select", proc[p].files, proc[p].f + 1, 0)
         \/ /\ proc[p].f = proc[p].files
            /\ proc'[p] = Process("serving", proc[p].files, 0, 0)
  BY <1>1, TurnTyped DEF IInv
<1>3. TypeOK'
  BY <1>1, <1>2 DEF IInv, TypeOK, At, Process, Files
<1>4. \A g \in 1..proc[p].f : g \in recorded'
  BY <1>1, ShapesTyped DEF IInv, Placed, Files
<1>5. Placed'
  <2>1. ASSUME NEW q \in Procs \ {p}
        PROVE  /\ (At(q, "select") \/ At(q, "apply") \/ At(q, "record"))'
                     => \A g \in 1..proc'[q].f - 1 : g \in recorded'
               /\ At(q, "serving")' => \A g \in 1..proc'[q].files : g \in recorded'
    BY <1>2 DEF IInv, Placed, At
  <2>2. /\ (At(p, "select") \/ At(p, "apply") \/ At(p, "record"))'
              => \A g \in 1..proc'[p].f - 1 : g \in recorded'
        /\ At(p, "serving")' => \A g \in 1..proc'[p].files : g \in recorded'
    BY <1>1, <1>2, <1>4, ShapesTyped DEF At, Process, Files
  <2> QED  BY <2>1, <2>2 DEF Placed
<1>6. Progress'
  BY <1>2 DEF IInv, Progress, At, Process, Whole
<1>7. InOrder'
  BY DEF IInv, InOrder
<1> QED  BY <1>3, <1>5, <1>6, <1>7 DEF IInv

LEMMA SelectIInv == ASSUME IInv, NEW p \in Procs, SelectApplied(p) PROVE IInv'
<1>1. At(p, "select") /\ UNCHANGED <<shipped, objects, recorded, mishaps>>
  BY DEF SelectApplied
<1>2. CASE proc[p].f \in recorded
  <2>1. Turn(p, proc[p].files, proc[p].f)
    BY <1>2 DEF SelectApplied
  <2>2. RecordedIsWhole' /\ recorded' \subseteq Files
    BY <1>1 DEF IInv, RecordedIsWhole, Whole, TypeOK
  <2> QED  BY <1>1, <1>2, <2>1, <2>2, TurnIInv
<1>3. CASE proc[p].f \notin recorded
  <2>1. proc' = [proc EXCEPT ![p] = Process("apply", proc[p].files, proc[p].f, 1)]
    BY <1>3 DEF SelectApplied, Become
  <2>2. proc[p].f \in 1..proc[p].files /\ proc[p].f \in Files /\ 1 \in Statements(proc[p].f)
    BY <1>1, ShapesTyped DEF IInv, TypeOK, Files, Places, Statements
  <2>3. TypeOK'
    <3>1. Process("apply", proc[p].files, proc[p].f, 1) \in Places
      BY <2>2, ShapesTyped DEF IInv, TypeOK, Process, Places, Files
    <3>2. /\ proc' \in [Procs -> Places]
          /\ proc'[p] = Process("apply", proc[p].files, proc[p].f, 1)
          /\ \A q \in Procs \ {p} : proc'[q] = proc[q]
      BY <2>1, <3>1 DEF IInv, TypeOK
    <3> QED  BY <1>1, <2>2, <3>2 DEF IInv, TypeOK, At, Process
  <2>4. Placed'
    BY <1>1, <2>1 DEF IInv, TypeOK, Placed, At, Process
  <2>5. Progress'
    BY <1>1, <2>1 DEF IInv, TypeOK, Progress, At, Process, Whole
  <2>6. RecordedIsWhole' /\ InOrder'
    BY <1>1 DEF IInv, RecordedIsWhole, InOrder, Whole
  <2> QED  BY <2>3, <2>4, <2>5, <2>6 DEF IInv
<1> QED  BY <1>2, <1>3

\* A process that ends keeps the invariant, whatever ends it.
LEMMA OffIInv ==
    ASSUME IInv, NEW p \in Procs, Become(p, Off), UNCHANGED <<shipped, objects, recorded>>,
           mishaps' \in 0..MaxMishaps
    PROVE  IInv'
<1>1. TypeOK'
  BY OffTyped DEF IInv, TypeOK, At, Off, Process
<1>2. Placed' /\ Progress'
  BY OffTyped DEF IInv, Placed, Progress, At, Off, Process, Whole
<1>3. RecordedIsWhole' /\ InOrder'
  BY DEF IInv, RecordedIsWhole, InOrder, Whole
<1> QED  BY <1>1, <1>2, <1>3 DEF IInv

LEMMA ApplyIInv == ASSUME IInv, NEW p \in Procs, ApplyStatement(p) PROVE IInv'
<1> DEFINE f == proc[p].f
           k == proc[p].k
<1>1. At(p, "apply") /\ UNCHANGED <<shipped, recorded, mishaps>>
  BY DEF ApplyStatement
<1>2. /\ f \in Files /\ f \in 1..proc[p].files /\ proc[p].files \in Files
      /\ k \in Statements(f) /\ Len(Shapes[f]) \in Nat
  BY <1>1, ShapesTyped DEF IInv, TypeOK, Files, Places
<1>3. CASE Shapes[f][k] = "create" /\ k \in objects[f]
  BY <1>1, <1>3, OffIInv DEF ApplyStatement, IInv, TypeOK
<1>4. CASE ~(Shapes[f][k] = "create" /\ k \in objects[f])
  <2>1. /\ objects' = [objects EXCEPT ![f] = objects[f] \cup {k}]
        /\ Become(p, IF k < Len(Shapes[f]) THEN Process("apply", proc[p].files, f, k + 1)
                                           ELSE Process("record", proc[p].files, f, 0))
    BY <1>4 DEF ApplyStatement
  <2>2. /\ \A q \in Procs \ {p} : proc'[q] = proc[q]
        /\ \/ /\ k < Len(Shapes[f])
              /\ proc'[p] = Process("apply", proc[p].files, f, k + 1)
           \/ /\ k = Len(Shapes[f])
              /\ proc'[p] = Process("record", proc[p].files, f, 0)
        /\ proc' \in [Procs -> Places]
    <3>1. CASE k < Len(Shapes[f])
      BY <1>2, <2>1, <3>1, ShapesTyped DEF IInv, TypeOK, Become, Process, Files, Statements, Places
    <3>2. CASE k = Len(Shapes[f])
      BY <1>2, <2>1, <3>2, ShapesTyped DEF IInv, TypeOK, Become, Process, Files, Statements, Places
    <3> QED  BY <1>2, <3>1, <3>2 DEF Statements
  <2>3. /\ objects' \in [Files -> SUBSET Nat]
        /\ \A g \in Files : objects'[g] \subseteq Statements(g) /\ objects[g] \subseteq objects'[g]
        /\ k \in objects'[f] /\ \A g \in Files \ {f} : objects'[g] = objects[g]
    BY <1>2, <2>1 DEF IInv, TypeOK, Statements
  <2>4. TypeOK'
    BY <1>1, <1>2, <2>2, <2>3, SMTT(30) DEF IInv, TypeOK, At, Process, Statements
  <2>5. Placed'
    BY <1>1, <2>2 DEF IInv, Placed, At, Process
  <2>6. 1..k \subseteq objects'[f]
    BY <1>1, <1>2, <2>3 DEF IInv, Progress, Statements
  <2>7. Progress'
    <3>1. ASSUME NEW q \in Procs \ {p}
          PROVE  /\ At(q, "apply")' => 1..proc'[q].k - 1 \subseteq objects'[proc'[q].f]
                 /\ (At(q, "record") => Whole(proc[q].f))'
      <4>1. proc'[q] = proc[q]
        BY <2>2
      <4>2. At(q, "apply") \/ At(q, "record") => proc[q].f \in Files
        BY ShapesTyped DEF IInv, TypeOK, Files, Places
      <4>3. At(q, "apply")' => 1..proc'[q].k - 1 \subseteq objects'[proc'[q].f]
        BY <2>3, <4>1, <4>2 DEF IInv, Progress, At
      <4>4. (At(q, "record") => Whole(proc[q].f))'
        <5> DEFINE g == proc[q].f
        <5>1. At(q, "record") => g \in Files /\ objects[g] = Statements(g)
          BY <4>2 DEF IInv, Progress, Whole
        <5>2. g \in Files => objects'[g] \subseteq Statements(g) /\ objects[g] \subseteq objects'[g]
          BY <2>3
        <5>3. At(q, "record") => objects'[g] = Statements(g)
          BY <5>1, <5>2
        <5> QED
          BY <4>1, <5>3 DEF At, Whole
      <4> QED
        BY <4>3, <4>4
    <3>2. /\ At(p, "apply")' => 1..proc'[p].k - 1 \subseteq objects'[proc'[p].f]
          /\ (At(p, "record") => Whole(proc[p].f))'
      <4>1. CASE k < Len(Shapes[f])
        <5>1. proc'[p].pc = "apply" /\ proc'[p].f = f /\ proc'[p].k - 1 = k
          BY <1>2, <2>2, <4>1 DEF Statements, Process
        <5> QED  BY <2>6, <5>1 DEF At
      <4>2. CASE k = Len(Shapes[f])
        <5>1. proc'[p] = Process("record", proc[p].files, f, 0)
          BY <1>2, <2>2, <4>2 DEF Statements
        <5>2. objects'[f] = Statements(f)
          BY <1>2, <2>3, <2>6, <4>2 DEF Statements
        <5> QED  BY <5>1, <5>2 DEF At, Process, Whole
      <4> QED  BY <1>2, <4>1, <4>2 DEF Statements
    <3> QED  BY <3>1, <3>2 DEF Progress
  <2>8. RecordedIsWhole'
    BY <1>1, <2>3 DEF IInv, TypeOK, RecordedIsWhole, Whole
  <2>9. InOrder'
    BY <1>1, <1>2, <2>3 DEF IInv, InOrder, Placed
  <2> QED  BY <2>4, <2>5, <2>7, <2>8, <2>9 DEF IInv
<1> QED  BY <1>3, <1>4

LEMMA RecordIInv == ASSUME IInv, NEW p \in Procs, RecordApplied(p) PROVE IInv'
<1>1. At(p, "record") /\ UNCHANGED <<shipped, objects, mishaps>>
  BY DEF RecordApplied
<1>2. CASE proc[p].f \in recorded
  BY <1>1, <1>2, OffIInv DEF RecordApplied, IInv, TypeOK
<1>3. CASE proc[p].f \notin recorded
  <2>1. recorded' = recorded \cup {proc[p].f} /\ Turn(p, proc[p].files, proc[p].f)
    BY <1>3 DEF RecordApplied
  <2>2. proc[p].f \in Files
    BY <1>1, ShapesTyped DEF IInv, TypeOK, Files, Places
  <2>3. RecordedIsWhole' /\ recorded' \subseteq Files
    BY <1>1, <2>1, <2>2 DEF IInv, TypeOK, RecordedIsWhole, Progress, Whole
  <2> QED  BY <1>1, <2>1, <2>3, TurnIInv
<1> QED  BY <1>2, <1>3

LEMMA NextIInv == IInv /\ [Next]_vars => IInv'
<1> SUFFICES ASSUME IInv, [Next]_vars PROVE IInv'
  OBVIOUS
<1>1. CASE Release
  <2>1. shipped' \in Files /\ UNCHANGED <<objects, recorded, proc, mishaps>>
    BY <1>1, ShapesTyped DEF Release, IInv, TypeOK, Files
  <2> QED
    BY <2>1 DEF IInv, TypeOK, Placed, Progress, RecordedIsWhole, InOrder, At, Whole
<1>2. ASSUME NEW p \in Procs, run_migrations(p) PROVE IInv'
  BY <1>2, BootIInv, SelectIInv, ApplyIInv, RecordIInv DEF run_migrations
<1>3. ASSUME NEW p \in Procs, Crash(p) PROVE IInv'
  <2>1. mishaps' \in 0..MaxMishaps
    BY <1>3, BoundAssumption DEF Crash, IInv, TypeOK
  <2> QED  BY <1>3, <2>1, OffIInv DEF Crash
<1>4. ASSUME NEW p \in Procs, Upgrade(p) PROVE IInv'
  <2>1. mishaps' \in 0..MaxMishaps
    BY <1>4 DEF Upgrade, IInv, TypeOK
  <2> QED  BY <1>4, <2>1, OffIInv DEF Upgrade
<1>5. CASE UNCHANGED vars
  BY <1>5 DEF vars, IInv, TypeOK, Placed, Progress, RecordedIsWhole, InOrder, At, Whole
<1> QED  BY <1>1, <1>2, <1>3, <1>4, <1>5 DEF Next

LEMMA AlwaysIInv == Spec => []IInv
  BY InitIInv, NextIInv, PTL DEF Spec

(***************************************************************************)
(* Theorems.                                                               *)
(***************************************************************************)
\* TypeOK: a process in the loop of run_migrations is at a file that it has
\* found and at a statement of that file.
THEOREM TypeCorrect == Spec => []TypeOK
<1>1. IInv => TypeOK
  BY DEF IInv
<1> QED  BY <1>1, AlwaysIInv, PTL

\* RecordedIsWhole: the row of _migrations is written by a process that has
\* seen every statement of the file run, and no statement is ever undone.
THEOREM RecordsAreWhole == Spec => []RecordedIsWhole
<1>1. IInv => RecordedIsWhole
  BY DEF IInv
<1> QED  BY <1>1, AlwaysIInv, PTL

\* ServesWhole: run_migrations returns only after every file it found has a
\* row, its own or that of another process.
THEOREM ServersHaveTheSchema == Spec => []ServesWhole
<1>1. IInv => ServesWhole
  <2> SUFFICES ASSUME IInv, NEW p \in Procs, At(p, "serving"), NEW f \in 1..proc[p].files
               PROVE  Whole(f)
    BY DEF ServesWhole
  <2>1. f \in recorded
    BY DEF IInv, Placed
  <2> QED  BY <2>1 DEF IInv, RecordedIsWhole
<1> QED  BY <1>1, AlwaysIInv, PTL

\* run_migrations: the row of a file and its tables, and a server and the
\* tables of its release, belong together.
THEOREM SchemaIsWhole == Spec => []SchemaWhole
<1>1. RecordedIsWhole /\ ServesWhole => SchemaWhole
  BY DEF SchemaWhole
<1> QED  BY <1>1, RecordsAreWhole, ServersHaveTheSchema, PTL

\* InOrder: a statement runs only when the files before its own have rows.
THEOREM FilesInOrder == Spec => []InOrder
<1>1. IInv => InOrder
  BY DEF IInv
<1> QED  BY <1>1, AlwaysIInv, PTL

\* TornStays: who could write the row of a torn file would have to pass its
\* statement, which fails on what is there.
THEOREM TornIsForGood == Spec => TornStays
<1>1. ASSUME IInv, [Next]_vars, Torn PROVE Torn'
  <2>1. PICK f \in Files \ recorded : \E k \in objects[f] :
           Shapes[f][k] = "create" /\ \A p \in Procs : ~Beyond(p, f, k)
    BY <1>1 DEF Torn
  <2>2. PICK k \in objects[f] :
           Shapes[f][k] = "create" /\ \A p \in Procs : ~Beyond(p, f, k)
    BY <2>1
  <2>3. k \in Nat /\ k \in Statements(f) /\ Len(Shapes[f]) \in Nat
    BY <1>1, <2>1, <2>2, ShapesTyped DEF IInv, TypeOK, Statements
  <2>4. f \notin recorded' /\ k \in objects'[f] /\ \A p \in Procs : ~Beyond(p, f, k)'
    <3>1. CASE Release
      BY <2>1, <2>2, <3>1 DEF Release, Beyond, At
    <3>2. ASSUME NEW p \in Procs, run_migrations(p)
          PROVE  f \notin recorded' /\ k \in objects'[f] /\ \A q \in Procs : ~Beyond(q, f, k)'
      <4>1. CASE Boot(p)
        <5>1. Turn(p, shipped, 0) /\ shipped \in Files /\ 0 \in 0..shipped
              /\ UNCHANGED <<objects, recorded>>
          BY <1>1, <4>1, ShapesTyped DEF Boot, IInv, TypeOK, Files
        <5>2. ~At(p, "record")' /\ ~At(p, "apply")' /\ \A q \in Procs \ {p} : proc'[q] = proc[q]
          <6>1. /\ \A q \in Procs \ {p} : proc'[q] = proc[q]
                /\ \/ proc'[p] = Process("select", shipped, 0 + 1, 0)
                   \/ proc'[p] = Process("serving", shipped, 0, 0)
            BY <1>1, <5>1, TurnTyped DEF IInv
          <6> QED  BY <6>1 DEF At, Process
        <5> QED  BY <2>1, <2>2, <5>1, <5>2 DEF Beyond, At
      <4>2. CASE SelectApplied(p) \/ RecordApplied(p)
        <5>1. /\ proc[p].f \in Files /\ proc[p].files \in Files /\ proc[p].f \in 0..proc[p].files
              /\ f \notin recorded' /\ objects' = objects
          <6>1. objects' = objects /\ (At(p, "select") \/ At(p, "record"))
            BY <4>2 DEF SelectApplied, RecordApplied
          <6>2. /\ proc[p].f \in Files /\ proc[p].files \in Files
                /\ proc[p].f \in 0..proc[p].files
            BY <1>1, <6>1, ShapesTyped DEF IInv, TypeOK, Places, Files
          <6>3. f \notin recorded'
            <7>1. CASE SelectApplied(p)
              BY <2>1, <7>1 DEF SelectApplied
            <7>2. CASE RecordApplied(p)
              BY <2>1, <2>2, <7>2 DEF RecordApplied, Beyond
            <7> QED  BY <4>2, <7>1, <7>2
          <6> QED  BY <6>1, <6>2, <6>3
        <5>2. CASE Turn(p, proc[p].files, proc[p].f)
          <6>1. /\ ~At(p, "record")' /\ ~At(p, "apply")'
                /\ \A q \in Procs \ {p} : proc'[q] = proc[q]
            <7>1. /\ \A q \in Procs \ {p} : proc'[q] = proc[q]
                  /\ \/ proc'[p] = Process("select", proc[p].files, proc[p].f + 1, 0)
                     \/ proc'[p] = Process("serving", proc[p].files, 0, 0)
              BY <1>1, <5>1, <5>2, TurnTyped DEF IInv
            <7> QED  BY <7>1 DEF At, Process
          <6> QED  BY <2>2, <5>1, <6>1 DEF Beyond, At
        <5>3. CASE Become(p, Off)
          BY <1>1, <2>2, <5>1, <5>3, OffTyped DEF IInv, Beyond, At, Off, Process
        <5>4. CASE Become(p, Process("apply", proc[p].files, proc[p].f, 1))
          BY <1>1, <2>2, <2>3, <5>1, <5>4
             DEF IInv, TypeOK, Become, Beyond, At, Process, Statements
        <5> QED  BY <4>2, <5>2, <5>3, <5>4 DEF SelectApplied, RecordApplied
      <4>3. CASE ApplyStatement(p)
        <5>1. /\ recorded' = recorded /\ At(p, "apply") /\ proc[p].f \in Files
              /\ proc[p].k \in Nat
          BY <1>1, <4>3, ShapesTyped DEF ApplyStatement, IInv, TypeOK, Files, Places
        <5>2. CASE Become(p, Off) /\ UNCHANGED objects
          BY <1>1, <2>1, <2>2, <5>1, <5>2, OffTyped DEF IInv, Beyond, At, Off, Process
        <5>3. CASE ~(Become(p, Off) /\ UNCHANGED objects)
          <6>1. /\ proc[p].f = f => proc[p].k # k
                /\ objects' = [objects EXCEPT ![proc[p].f] = objects[proc[p].f] \cup {proc[p].k}]
                /\ Become(p, IF proc[p].k < Len(Shapes[proc[p].f])
                             THEN Process("apply", proc[p].files, proc[p].f, proc[p].k + 1)
                             ELSE Process("record", proc[p].files, proc[p].f, 0))
            BY <2>2, <4>3, <5>3 DEF ApplyStatement
          <6>2. proc[p].f = f => proc[p].k < k
            BY <2>2, <2>3, <5>1, <6>1 DEF Beyond
          <6>3. k \in objects'[f]
            BY <1>1, <2>1, <2>2, <6>1 DEF IInv, TypeOK
          <6>4. \A q \in Procs \ {p} : proc'[q] = proc[q]
            BY <1>1, <6>1 DEF IInv, TypeOK, Become
          <6>5. ~Beyond(p, f, k)'
            <7>1. CASE proc[p].k < Len(Shapes[proc[p].f])
              <8>1. proc'[p] = Process("apply", proc[p].files, proc[p].f, proc[p].k + 1)
                BY <1>1, <6>1, <7>1 DEF IInv, TypeOK, Become
              <8> QED  BY <2>3, <5>1, <6>2, <8>1 DEF Beyond, At, Process
            <7>2. CASE ~(proc[p].k < Len(Shapes[proc[p].f]))
              <8>1. proc'[p] = Process("record", proc[p].files, proc[p].f, 0)
                BY <1>1, <6>1, <7>2 DEF IInv, TypeOK, Become
              <8>2. proc[p].f # f
                BY <2>3, <5>1, <6>2, <7>2 DEF Statements
              <8> QED  BY <8>1, <8>2 DEF Beyond, Process
            <7> QED  BY <7>1, <7>2
          <6> QED  BY <2>1, <2>2, <5>1, <6>3, <6>4, <6>5 DEF Beyond, At
        <5> QED  BY <5>2, <5>3
      <4> QED  BY <3>2, <4>1, <4>2, <4>3 DEF run_migrations
    <3>3. ASSUME NEW p \in Procs, Crash(p) \/ Upgrade(p)
          PROVE  f \notin recorded' /\ k \in objects'[f] /\ \A q \in Procs : ~Beyond(q, f, k)'
      BY <1>1, <2>1, <2>2, <3>3, OffTyped DEF IInv, Crash, Upgrade, Beyond, At, Off, Process
    <3>4. CASE UNCHANGED vars
      BY <2>1, <2>2, <3>4 DEF vars, Beyond, At
    <3> QED  BY <1>1, <3>1, <3>2, <3>3, <3>4 DEF Next
  <2> QED  BY <2>1, <2>2, <2>4 DEF Torn, Beyond, At, Files
<1>2. IInv /\ [Next]_vars => [Torn => Torn']_vars
  BY <1>1
<1> QED  BY <1>2, AlwaysIInv, PTL DEF Spec, TornStays

=============================================================================
