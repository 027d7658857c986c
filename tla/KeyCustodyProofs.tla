-------------------------- MODULE KeyCustodyProofs --------------------------
(***************************************************************************)
(* Proofs about KeyCustody, for any number of processes, requests, users,  *)
(* vaults, keys and mishaps.                                               *)
(***************************************************************************)
EXTENDS KeyCustody, TLAPS

Active == {"insert", "mkdir", "unlock", "mark", "undodir", "undorow", "delrow",
           "dropkey", "rmdir"}

\* A request that is not idle carries all its fields.
LEMMA ActiveRequest ==
    ASSUME TypeOK, NEW r \in Reqs, req[r].pc # "idle"
    PROVE  /\ req[r] \in Request
           /\ req[r].p \in Procs
           /\ req[r].v \in Vaults
           /\ req[r].owner \in Users \cup {None}
<1>1. req[r] \in Request \cup {Idle}
  BY DEF TypeOK
<1>2. req[r] # Idle
  BY DEF Idle
<1>3. req[r] \in Request
  BY <1>1, <1>2
<1> QED
  BY <1>3 DEF Request

\* What the steps of a request leave in its slot.
LEMMA GotoType ==
    ASSUME TypeOK, NEW r \in Reqs, NEW pc \in Active, req[r].pc # "idle", Goto(r, pc)
    PROVE  req' \in [Reqs -> Request \cup {Idle}]
<1>1. [req[r] EXCEPT !.pc = pc] \in Request
  BY ActiveRequest DEF Request, Active
<1> QED
  BY <1>1 DEF Goto, TypeOK

LEMMA ReturnType ==
    ASSUME TypeOK, NEW r \in Reqs, Return(r)
    PROVE  req' \in [Reqs -> Request \cup {Idle}]
BY DEF Return, TypeOK

LEMMA BeginType ==
    ASSUME TypeOK, NEW r \in Reqs, NEW pc \in Active, NEW p \in Procs,
           NEW v \in Vaults, NEW u \in Users \cup {None}, Begin(r, pc, p, v, u)
    PROVE  req' \in [Reqs -> Request \cup {Idle}]
<1>1. [pc |-> pc, p |-> p, v |-> v, owner |-> u] \in Request
  BY DEF Request, Active
<1> QED
  BY <1>1 DEF Begin, TypeOK

LEMMA HandleActive ==
    ASSUME TypeOK, NEW r \in Reqs, Handle(r)
    PROVE  /\ req[r].pc # "idle"
           /\ req[r].p \in Procs /\ req[r].v \in Vaults
           /\ req[r].owner \in Users \cup {None}
<1>1. req[r].pc # "idle"
  BY DEF Handle, At, InsertRow, MakeDir, UnlockVault, MarkComplete, UndoDir,
     UndoRow, DeleteRow, DropKey, RemoveSpaceDir
<1> QED
  BY <1>1, ActiveRequest

\* What the steps of a process leave in its record.
ProcPcs == {"off"} \cup BootPcs \cup Holding
Mastered == {"store", "confirm"} \cup Holding

Keyed == {x \in Proc : /\ x.pc # "off" => x.secret # None
                       /\ x.pc \in Mastered => x.master # None}

LEMMA ProcKeyed ==
    ASSUME TypeOK
    PROVE  /\ proc \in [Procs -> Keyed]
           /\ \A p \in Procs :
                /\ proc[p] \in Proc
                /\ proc[p].pc # "off" => proc[p].secret \in Secrets
                /\ proc[p].pc \in Mastered => proc[p].master \in Masters
BY DEF TypeOK, Keyed, Mastered, Proc

LEMMA KeyedProc ==
    ASSUME proc' \in [Procs -> Keyed]
    PROVE  /\ proc' \in [Procs -> Proc]
           /\ (\A p \in Procs :
                 /\ proc[p].pc # "off" => proc[p].secret # None
                 /\ proc[p].pc \in {"store", "confirm"} \cup Holding
                      => proc[p].master # None)'
BY DEF Keyed, Mastered

LEMMA OffType == Off \in Keyed
BY DEF Off, Keyed, Proc, Mastered, Holding

LEMMA PanicType ==
    ASSUME TypeOK, NEW p \in Procs, Panic(p)
    PROVE  proc' \in [Procs -> Keyed]
BY OffType, ProcKeyed DEF Panic

LEMMA StepType ==
    ASSUME TypeOK, NEW p \in Procs, NEW pc \in ProcPcs, Step(p, pc),
           proc[p].pc # "off", pc \in Mastered => proc[p].pc \in Mastered
    PROVE  proc' \in [Procs -> Keyed]
<1>1. [proc[p] EXCEPT !.pc = pc] \in Proc
  BY ProcKeyed DEF Proc, ProcPcs
<1>2. [proc[p] EXCEPT !.pc = pc] \in Keyed
  BY <1>1, ProcKeyed, KeyAssumption DEF Keyed, Proc
<1> QED
  BY <1>2, ProcKeyed DEF Step

LEMMA SecretType ==
    ASSUME TypeOK, NEW p \in Procs, NEW s \in Secrets, NEW pc \in {"load", "persist"},
           HasSecret(p, s, pc)
    PROVE  proc' \in [Procs -> Keyed]
<1>1. [Off EXCEPT !.pc = pc, !.secret = s] \in Keyed
  BY KeyAssumption DEF Off, Keyed, Proc, BootPcs, Mastered, Holding
<1> QED
  BY <1>1, ProcKeyed DEF HasSecret

LEMMA MasterType ==
    ASSUME TypeOK, NEW p \in Procs, NEW pc \in ProcPcs, NEW k \in Masters,
           proc[p].pc # "off"
    PROVE  [proc EXCEPT ![p] = [proc[p] EXCEPT !.pc = pc, !.master = k]]
              \in [Procs -> Keyed]
<1>1. [proc[p] EXCEPT !.pc = pc, !.master = k] \in Proc
  BY ProcKeyed DEF Proc, ProcPcs
<1>2. [proc[p] EXCEPT !.pc = pc, !.master = k] \in Keyed
  BY <1>1, ProcKeyed, KeyAssumption DEF Keyed, Proc
<1> QED
  BY <1>2, ProcKeyed

LEMMA UnlockType ==
    ASSUME TypeOK, NEW p \in Procs, NEW pc \in ProcPcs, NEW vs \in SUBSET Vaults,
           Unlock(p, vs, pc), proc[p].pc \in Holding
    PROVE  proc' \in [Procs -> Keyed]
<1>1. [proc[p] EXCEPT !.pc = pc, !.unlocked = proc[p].unlocked \cup vs] \in Proc
  BY ProcKeyed DEF Proc, ProcPcs
<1>2. proc[p].secret # None /\ proc[p].master # None
  BY DEF TypeOK, Holding
<1>3. [proc[p] EXCEPT !.pc = pc, !.unlocked = proc[p].unlocked \cup vs] \in Keyed
  BY <1>1, <1>2, ProcKeyed DEF Keyed, Proc
<1> QED
  BY <1>3, ProcKeyed DEF Unlock

LEMMA ForgetType ==
    ASSUME TypeOK, NEW p \in Procs, NEW v \in Vaults, Forget(p, v)
    PROVE  proc' \in [Procs -> Keyed]
<1>1. [proc[p] EXCEPT !.unlocked = proc[p].unlocked \ {v}] \in Proc
  BY ProcKeyed DEF Proc
<1>2. proc[p] \in Keyed
  BY ProcKeyed
<1>3. [proc[p] EXCEPT !.unlocked = proc[p].unlocked \ {v}] \in Keyed
  BY <1>1, <1>2, ProcKeyed DEF Keyed, Proc
<1> QED
  BY <1>3, ProcKeyed DEF Forget

\* Rows.
LEMMA RowStType ==
    ASSUME TypeOK, NEW v \in Vaults, NEW st \in {"new", "minted", "live", "gone"}
    PROVE  [row EXCEPT ![v] = [@ EXCEPT !.st = st]] \in [Vaults -> Row]
<1>1. [row[v] EXCEPT !.st = st] \in Row
  BY DEF TypeOK, Row
<1> QED
  BY <1>1 DEF TypeOK

LEMMA Names ==
    /\ Active = {"insert", "mkdir", "unlock", "mark", "undodir", "undorow",
                 "delrow", "dropkey", "rmdir"}
    /\ {"off", "persist", "fill", "load", "store", "confirm", "libraries",
        "spaces", "bind", "serve"} \subseteq ProcPcs
    /\ Mastered = {"store", "confirm", "libraries", "spaces", "bind", "serve"}
    /\ Holding = {"libraries", "spaces", "bind", "serve"}
BY DEF Active, ProcPcs, BootPcs, Holding, Mastered

LEMMA RemoveDirType ==
    ASSUME TypeOK, NEW v \in Vaults, RemoveDir(v)
    PROVE  dir' \in [Vaults -> BOOLEAN] /\ mishaps' \in Nat
<1>1. mishaps \in Nat /\ dir \in [Vaults -> BOOLEAN]
  BY DEF TypeOK
<1>2. mishaps' = mishaps \/ mishaps' = mishaps + 1
  BY DEF RemoveDir, Mishap
<1>3. dir' = dir \/ dir' = [dir EXCEPT ![v] = FALSE]
  BY DEF RemoveDir
<1>4. mishaps' \in Nat
  BY <1>1, <1>2
<1>5. dir' \in [Vaults -> BOOLEAN]
  BY <1>1, <1>3
<1> QED
  BY <1>4, <1>5

LEMMA MishapType ==
    ASSUME TypeOK, Mishap
    PROVE  mishaps' \in Nat
BY DEF TypeOK, Mishap

\* The part of TypeOK on the processes, when no process moves.
LEMMA ProcFrame ==
    ASSUME TypeOK, UNCHANGED proc
    PROVE  proc' \in [Procs -> Keyed]
BY ProcKeyed

LEMMA TypeInit == Init => TypeOK
<1> SUFFICES ASSUME Init PROVE TypeOK
  OBVIOUS
<1>1. proc \in [Procs -> Proc]
  BY OffType DEF Init, Keyed
<1>2. row \in [Vaults -> Row]
  <2>1. [st |-> "new", owner |-> None, by |-> None] \in Row
    BY DEF Row
  <2> QED
    BY <2>1 DEF Init
<1>3. req \in [Reqs -> Request \cup {Idle}] /\ dir \in [Vaults -> BOOLEAN]
  BY DEF Init
<1>4. \A p \in Procs : proc[p].pc = "off"
  BY DEF Init, Off
<1> QED
  BY <1>1, <1>2, <1>3, <1>4 DEF Init, TypeOK, Holding

LEMMA BootType == TypeOK /\ (\E p \in Procs : Boot(p)) => TypeOK'
<1> SUFFICES ASSUME TypeOK, NEW p \in Procs, Boot(p) PROVE TypeOK'
  OBVIOUS
<1>t. /\ proc[p].pc # "off" => proc[p].secret \in Secrets
      /\ proc[p].pc \in Mastered => proc[p].master \in Masters
  BY ProcKeyed
<1>1. CASE ReadSecret(p)
  <2>1. proc' \in [Procs -> Keyed] /\ used' \subseteq Secrets \cup Masters
    <3>1. ASSUME NEW s \in Secrets, used' = used \cup {s}, HasSecret(p, s, "persist")
          PROVE  proc' \in [Procs -> Keyed] /\ used' \subseteq Secrets \cup Masters
      BY <3>1, SecretType DEF TypeOK
    <3>2. ASSUME NEW s \in Secrets, UNCHANGED used, HasSecret(p, s, "load")
          PROVE  proc' \in [Procs -> Keyed] /\ used' \subseteq Secrets \cup Masters
      BY <3>2, SecretType DEF TypeOK
    <3>3. /\ secretFile # None => secretFile \in Secrets
          /\ EnvSecret # None => EnvSecret \in Secrets
      BY KeyAssumption DEF TypeOK
    <3> QED
      BY <1>1, <3>1, <3>2, <3>3 DEF ReadSecret, GenerateSecret
  <2>2. mishaps' \in Nat
    BY <1>1 DEF ReadSecret, Mishap, TypeOK
  <2> QED
    BY <1>1, <2>1, <2>2, KeyedProc DEF ReadSecret, TypeOK, vaults, answers
<1>2. CASE TruncateSecretFile(p)
  <2>1. proc' \in [Procs -> Keyed]
    BY <1>2, StepType, Names DEF TruncateSecretFile
  <2> QED
    BY <1>2, <2>1, KeyedProc DEF TruncateSecretFile, TypeOK, vaults, answers
<1>3. CASE WriteSecretFile(p)
  <2>1. proc' \in [Procs -> Keyed]
    BY <1>3, StepType, Names DEF WriteSecretFile
  <2>2. secretFile' \in Secrets
    BY <1>3, <1>t DEF WriteSecretFile
  <2> QED
    BY <1>3, <2>1, <2>2, KeyedProc DEF WriteSecretFile, TypeOK, vaults, answers
<1>4. CASE LoadMaster(p)
  <2>1. proc' \in [Procs -> Keyed] /\ used' \subseteq Secrets \cup Masters
    <3>1. CASE stored # None /\ stored.secret = proc[p].secret
      <4>1. stored.key \in Masters
        BY <3>1 DEF TypeOK, Wrapped
      <4>2. proc' = [proc EXCEPT ![p] = [proc[p] EXCEPT !.pc = "libraries",
                                                       !.master = stored.key]]
        BY <1>4, <3>1 DEF LoadMaster
      <4>3. proc[p].pc # "off" /\ used' = used
        BY <1>4, <3>1 DEF LoadMaster
      <4> QED
        BY <4>1, <4>2, <4>3, MasterType, Names DEF TypeOK
    <3>2. CASE stored # None /\ stored.secret # proc[p].secret
      BY <1>4, <3>2, PanicType DEF LoadMaster, TypeOK
    <3>3. CASE stored = None
      <4>1. PICK k \in Masters :
               /\ used' = used \cup {k}
               /\ proc' = [proc EXCEPT ![p] = [proc[p] EXCEPT !.pc = "store",
                                                             !.master = k]]
        BY <1>4, <3>3 DEF LoadMaster
      <4>2. proc[p].pc # "off"
        BY <1>4 DEF LoadMaster
      <4> QED
        BY <4>1, <4>2, MasterType, Names DEF TypeOK
    <3> QED
      BY <3>1, <3>2, <3>3
  <2> QED
    BY <1>4, <2>1, KeyedProc DEF LoadMaster, TypeOK, vaults, answers
<1>5. CASE StoreMaster(p)
  <2>1. proc' \in [Procs -> Keyed]
    BY <1>5, StepType, Names DEF StoreMaster
  <2>2. stored' \in Wrapped \cup {None}
    BY <1>5, <1>t, Names DEF StoreMaster, Wrapped, TypeOK
  <2> QED
    BY <1>5, <2>1, <2>2, KeyedProc DEF StoreMaster, TypeOK, vaults, answers
<1>6. CASE ConfirmMaster(p)
  <2>1. proc' \in [Procs -> Keyed]
    BY <1>6, StepType, PanicType, Names DEF ConfirmMaster
  <2> QED
    BY <1>6, <2>1, KeyedProc DEF ConfirmMaster, TypeOK, keys, vaults
<1>7. CASE LoadLibraryKeys(p) \/ LoadSpaceKeys(p)
  <2>1. proc' \in [Procs -> Keyed]
    BY <1>7, UnlockType, Names DEF LoadLibraryKeys, LoadSpaceKeys
  <2> QED
    BY <1>7, <2>1, KeyedProc
       DEF LoadLibraryKeys, LoadSpaceKeys, TypeOK, keys, vaults, answers
<1>8. CASE Launch(p)
  <2>1. proc' \in [Procs -> Keyed]
    BY <1>8, StepType, PanicType, Names DEF Launch
  <2> QED
    BY <1>8, <2>1, KeyedProc DEF Launch, TypeOK, keys, vaults, answers
<1> QED
  BY <1>1, <1>2, <1>3, <1>4, <1>5, <1>6, <1>7, <1>8 DEF Boot

LEMMA CrashType == TypeOK /\ (\E p \in Procs : Crash(p)) => TypeOK'
<1> SUFFICES ASSUME TypeOK, NEW p \in Procs, Crash(p) PROVE TypeOK'
  OBVIOUS
<1>1. proc' \in [Procs -> Keyed] /\ mishaps' \in Nat
  BY PanicType, MishapType DEF Crash
<1>2. req' \in [Reqs -> Request \cup {Idle}]
  BY DEF Crash, TypeOK
<1> QED
  BY <1>1, <1>2, KeyedProc DEF Crash, TypeOK, keys, vaults, answers

LEMMA StartType ==
    TypeOK /\ (\E r \in Reqs, p \in Procs : Start(r, p)) => TypeOK'
<1> SUFFICES ASSUME TypeOK, NEW r \in Reqs, NEW p \in Procs, Start(r, p)
             PROVE  TypeOK'
  OBVIOUS
<1>1. PICK v \in Vaults : \/ \E u \in Users : SetupLibrary(r, p, u, v)
                          \/ CreateSpace(r, p, v)
                          \/ DeleteSpace(r, p, v)
  BY DEF Start
<1>2. ASSUME NEW u \in Users \cup {None}, Mint(v), Begin(r, "insert", p, v, u),
             UNCHANGED <<mishaps, keys, proc, dir, complete, answers>>
      PROVE  TypeOK'
  <2>1. row' \in [Vaults -> Row]
    BY <1>2, RowStType DEF Mint
  <2>2. req' \in [Reqs -> Request \cup {Idle}]
    BY <1>2, BeginType, Names
  <2> QED
    BY <1>2, <2>1, <2>2, ProcFrame, KeyedProc DEF TypeOK, keys, answers
<1>3. CASE DeleteSpace(r, p, v)
  <2>1. Begin(r, "delrow", p, v, None)
    BY <1>3 DEF DeleteSpace
  <2>2. req' \in [Reqs -> Request \cup {Idle}]
    BY <2>1, BeginType, Names
  <2> QED
    BY <1>3, <2>2, ProcFrame, KeyedProc DEF DeleteSpace, TypeOK, keys, vaults
<1> QED
  BY <1>1, <1>2, <1>3 DEF SetupLibrary, CreateSpace

\* A request runs in a process that serves; only a user's setup is marked.
CallerInv ==
    \A r \in Reqs : /\ req[r].pc # "idle" => Serving(req[r].p)
                    /\ req[r].pc = "mark" => req[r].owner # None

LEMMA HandleType == TypeOK /\ CallerInv /\ (\E r \in Reqs : Handle(r)) => TypeOK'
<1> SUFFICES ASSUME TypeOK, CallerInv, NEW r \in Reqs, Handle(r) PROVE TypeOK'
  OBVIOUS
<1> DEFINE v == req[r].v
           q == req[r].p
<1>t. /\ req[r].pc # "idle" /\ q \in Procs /\ v \in Vaults
      /\ req[r].owner \in Users \cup {None} /\ proc[q].pc = "serve"
  BY HandleActive DEF CallerInv, Serving
<1>1. CASE InsertRow(r)
  <2>1. CASE Return(r) /\ UNCHANGED row
    BY <1>1, <2>1, ReturnType, ProcFrame, KeyedProc
       DEF InsertRow, TypeOK, keys, answers
  <2>2. CASE /\ row' = [row EXCEPT ![v] = [st |-> "live", owner |-> req[r].owner,
                                          by |-> proc[q].master]]
             /\ Goto(r, "mkdir")
    <3>1. [st |-> "live", owner |-> req[r].owner, by |-> proc[q].master] \in Row
      BY <1>t, ProcKeyed DEF Row, Proc
    <3>2. row' \in [Vaults -> Row]
      BY <2>2, <3>1 DEF TypeOK
    <3>3. req' \in [Reqs -> Request \cup {Idle}]
      BY <1>t, <2>2, GotoType, Names
    <3> QED
      BY <1>1, <3>2, <3>3, ProcFrame, KeyedProc DEF InsertRow, TypeOK, keys, answers
  <2> QED
    BY <1>1, <2>1, <2>2 DEF InsertRow
<1>2. CASE MakeDir(r)
  <2>1. mishaps' \in Nat
    BY <1>2, MishapType DEF MakeDir, TypeOK
  <2>2. dir' \in [Vaults -> BOOLEAN]
    <3>1. dir \in [Vaults -> BOOLEAN]
      BY DEF TypeOK
    <3>2. \E b \in BOOLEAN : dir' = [dir EXCEPT ![v] = b]
      <4>1. dir[v] \in BOOLEAN
        BY <1>t, <3>1
      <4> QED
        BY <1>2, <4>1 DEF MakeDir
    <3> QED
      BY <3>1, <3>2
  <2>3. Goto(r, "unlock") \/ Goto(r, "undorow")
    BY <1>2 DEF MakeDir
  <2>4. req' \in [Reqs -> Request \cup {Idle}]
    BY <1>t, <2>3, GotoType, Names
  <2> QED
    BY <1>2, <2>1, <2>2, <2>4, ProcFrame, KeyedProc
       DEF MakeDir, TypeOK, keys, answers
<1>3. CASE UnlockVault(r)
  <2>1. proc' \in [Procs -> Keyed]
    BY <1>3, <1>t, UnlockType, Names DEF UnlockVault
  <2>2. req' \in [Reqs -> Request \cup {Idle}]
    BY <1>3, <1>t, GotoType, ReturnType, Names DEF UnlockVault
  <2>3. ready' \subseteq Vaults
    BY <1>3, <1>t DEF UnlockVault, TypeOK
  <2> QED
    BY <1>3, <2>1, <2>2, <2>3, KeyedProc DEF UnlockVault, TypeOK, keys, vaults
<1>4. CASE MarkComplete(r)
  <2>1. CASE /\ complete' = complete \cup {req[r].owner}
             /\ ready' = ready \cup {v}
             /\ Return(r)
             /\ UNCHANGED <<mishaps, proc>>
    <3>1. req[r].owner \in Users
      BY <1>4, <1>t DEF MarkComplete, At, CallerInv
    <3> QED
      BY <1>4, <1>t, <2>1, <3>1, ReturnType, ProcFrame, KeyedProc
         DEF MarkComplete, TypeOK, keys
  <2>2. CASE Mishap /\ Forget(q, v) /\ Goto(r, "undodir") /\ UNCHANGED <<complete, ready>>
    <3>1. proc' \in [Procs -> Keyed] /\ mishaps' \in Nat
      BY <1>t, <2>2, ForgetType, MishapType
    <3>2. req' \in [Reqs -> Request \cup {Idle}]
      BY <1>t, <2>2, GotoType, Names
    <3> QED
      BY <1>4, <2>2, <3>1, <3>2, KeyedProc DEF MarkComplete, TypeOK, keys
  <2> QED
    BY <1>4, <2>1, <2>2 DEF MarkComplete
<1>5. CASE UndoDir(r)
  <2>1. dir' \in [Vaults -> BOOLEAN] /\ mishaps' \in Nat
    BY <1>5, <1>t, RemoveDirType DEF UndoDir
  <2>2. req' \in [Reqs -> Request \cup {Idle}]
    BY <1>5, <1>t, GotoType, Names DEF UndoDir
  <2> QED
    BY <1>5, <2>1, <2>2, ProcFrame, KeyedProc DEF UndoDir, TypeOK, keys, answers
<1>6. CASE UndoRow(r)
  <2>1. row' \in [Vaults -> Row]
    <3>1. row' = row \/ row' = [row EXCEPT ![v] = [@ EXCEPT !.st = "gone"]]
      BY <1>6 DEF UndoRow, DropRow
    <3>2. [row EXCEPT ![v] = [@ EXCEPT !.st = "gone"]] \in [Vaults -> Row]
      BY <1>t, RowStType
    <3> QED
      BY <3>1, <3>2 DEF TypeOK
  <2>2. mishaps' \in Nat
    BY <1>6, MishapType DEF UndoRow, TypeOK
  <2>3. req' \in [Reqs -> Request \cup {Idle}]
    BY <1>6, ReturnType DEF UndoRow
  <2> QED
    BY <1>6, <2>1, <2>2, <2>3, ProcFrame, KeyedProc DEF UndoRow, TypeOK, keys, answers
<1>7. CASE DeleteRow(r)
  <2>1. row' \in [Vaults -> Row]
    BY <1>7, <1>t, RowStType DEF DeleteRow, DropRow, TypeOK
  <2>2. req' \in [Reqs -> Request \cup {Idle}]
    BY <1>7, <1>t, GotoType, ReturnType, Names DEF DeleteRow
  <2> QED
    BY <1>7, <2>1, <2>2, ProcFrame, KeyedProc DEF DeleteRow, TypeOK, keys, answers
<1>8. CASE DropKey(r)
  <2>1. proc' \in [Procs -> Keyed]
    BY <1>8, <1>t, ForgetType DEF DropKey
  <2>2. req' \in [Reqs -> Request \cup {Idle}]
    BY <1>8, <1>t, GotoType, Names DEF DropKey
  <2> QED
    BY <1>8, <2>1, <2>2, KeyedProc DEF DropKey, TypeOK, keys, vaults, answers
<1>9. CASE RemoveSpaceDir(r)
  <2>1. dir' \in [Vaults -> BOOLEAN] /\ mishaps' \in Nat
    BY <1>9, <1>t, RemoveDirType DEF RemoveSpaceDir
  <2>2. req' \in [Reqs -> Request \cup {Idle}]
    BY <1>9, ReturnType DEF RemoveSpaceDir
  <2> QED
    BY <1>9, <2>1, <2>2, ProcFrame, KeyedProc
       DEF RemoveSpaceDir, TypeOK, keys, answers
<1> QED
  BY <1>1, <1>2, <1>3, <1>4, <1>5, <1>6, <1>7, <1>8, <1>9 DEF Handle

LEMMA FailType == TypeOK /\ (\E r \in Reqs : Fail(r)) => TypeOK'
<1> SUFFICES ASSUME TypeOK, NEW r \in Reqs, Fail(r) PROVE TypeOK'
  OBVIOUS
<1>1. req' \in [Reqs -> Request \cup {Idle}] /\ mishaps' \in Nat
  BY ReturnType, MishapType DEF Fail
<1> QED
  BY <1>1, ProcFrame, KeyedProc DEF Fail, TypeOK, keys, vaults, answers

LEMMA StutterType == TypeOK /\ UNCHANGED vars => TypeOK'
<1> SUFFICES ASSUME TypeOK, UNCHANGED vars PROVE TypeOK'
  OBVIOUS
<1> QED
  BY ProcFrame, KeyedProc DEF TypeOK, vars, keys, vaults, answers

----------------------------------------------------------------------------
(* Requests and processes *)

\* What a step of the boot does to the processes.
LEMMA BootStep ==
    ASSUME TypeOK, NEW p \in Procs, Boot(p)
    PROVE  /\ ~Serving(p) /\ row' = row /\ req' = req
           /\ \A q \in Procs \ {p} : proc'[q] = proc[q]
           /\ stored # None => stored' = stored
           /\ proc'[p].pc = "confirm" => stored' # None
           /\ proc'[p].pc \in Holding =>
                /\ stored' = stored
                /\ \/ stored # None /\ proc'[p].master = stored.key
                   \/ /\ proc[p].pc = "confirm" /\ stored.key = proc[p].master
                      /\ proc'[p].master = proc[p].master
                   \/ proc[p].pc \in Holding /\ proc'[p].master = proc[p].master
<1>t. proc \in [Procs -> Proc] /\ proc[p] \in Proc
  BY DEF TypeOK
<1>1. CASE ReadSecret(p)
  <2>1. \E s, pc : pc \in {"load", "persist"} /\ HasSecret(p, s, pc)
    BY <1>1 DEF ReadSecret, GenerateSecret
  <2> QED
    BY <1>1, <1>t, <2>1, Names
       DEF ReadSecret, HasSecret, Off, Proc, Serving, vaults
<1>2. CASE TruncateSecretFile(p) \/ WriteSecretFile(p)
  BY <1>2, <1>t, Names DEF TruncateSecretFile, WriteSecretFile, Step, Proc, Serving, vaults
<1>3. CASE LoadMaster(p)
  <2>1. ~Serving(p) /\ row' = row /\ req' = req /\ stored' = stored
    BY <1>3 DEF LoadMaster, Serving, vaults
  <2>2. CASE stored # None /\ stored.secret = proc[p].secret
    <3>1. proc' = [proc EXCEPT ![p] = [proc[p] EXCEPT !.pc = "libraries",
                                                     !.master = stored.key]]
      BY <1>3, <2>2 DEF LoadMaster
    <3> QED
      BY <1>t, <2>1, <2>2, <3>1 DEF Proc
  <2>3. CASE stored # None /\ stored.secret # proc[p].secret
    <3>1. Panic(p)
      BY <1>3, <2>3 DEF LoadMaster
    <3> QED
      BY <1>t, <2>1, <3>1, Names DEF Panic, Off
  <2>4. CASE stored = None
    <3>1. PICK k \in Masters :
             proc' = [proc EXCEPT ![p] = [proc[p] EXCEPT !.pc = "store", !.master = k]]
      BY <1>3, <2>4 DEF LoadMaster
    <3> QED
      BY <1>t, <2>1, <2>4, <3>1, Names DEF Proc
  <2> QED
    BY <2>2, <2>3, <2>4
<1>4. CASE StoreMaster(p)
  <2>1. stored' # None /\ (stored # None => stored' = stored)
    <3>1. proc[p].master \in Masters /\ proc[p].secret \in Secrets
      BY <1>4, ProcKeyed, Names DEF StoreMaster
    <3>2. [key |-> proc[p].master, secret |-> proc[p].secret] # None
      BY <3>1, KeyAssumption
    <3> QED
      BY <1>4, <3>2 DEF StoreMaster
  <2> QED
    BY <1>4, <1>t, <2>1, Names DEF StoreMaster, Step, Proc, Serving, vaults
<1>5. CASE ConfirmMaster(p)
  BY <1>5, <1>t, Names DEF ConfirmMaster, Step, Panic, Off, Proc, Serving, keys, vaults
<1>6. CASE LoadLibraryKeys(p) \/ LoadSpaceKeys(p)
  <2>1. \E vs, pc : pc \in {"spaces", "bind"} /\ Unlock(p, vs, pc)
    BY <1>6 DEF LoadLibraryKeys, LoadSpaceKeys
  <2> QED
    BY <1>6, <1>t, <2>1, Names
       DEF LoadLibraryKeys, LoadSpaceKeys, Unlock, Proc, Serving, keys, vaults
<1>7. CASE Launch(p)
  BY <1>7, <1>t, Names DEF Launch, Step, Panic, Off, Proc, Serving, keys, vaults
<1> QED
  BY <1>1, <1>2, <1>3, <1>4, <1>5, <1>6, <1>7 DEF Boot

\* What a step of a request leaves alone in the processes.
LEMMA HandleStep ==
    ASSUME TypeOK, CallerInv, NEW r \in Reqs, Handle(r)
    PROVE  /\ stored' = stored
           /\ \A q \in Procs : proc'[q].pc = proc[q].pc /\ proc'[q].master = proc[q].master
           /\ \A t \in Reqs \ {r} : req'[t] = req[t]
           /\ \/ Return(r)
              \/ \E pc \in Active : Goto(r, pc) /\ (pc = "mark" => req[r].owner # None)
<1>t. /\ proc \in [Procs -> Proc] /\ req[r].p \in Procs /\ proc[req[r].p].pc = "serve"
      /\ req \in [Reqs -> Request \cup {Idle}]
  BY HandleActive DEF TypeOK, CallerInv, Serving
<1>1. /\ stored' = stored
      /\ \/ Return(r)
         \/ \E pc \in Active : Goto(r, pc) /\ (pc = "mark" => req[r].owner # None)
  BY Names DEF Handle, InsertRow, MakeDir, UnlockVault, MarkComplete, UndoDir,
     UndoRow, DeleteRow, DropKey, RemoveSpaceDir, keys
<1>2. \/ UNCHANGED proc
      \/ Unlock(req[r].p, {req[r].v}, "serve")
      \/ Forget(req[r].p, req[r].v)
  BY DEF Handle, InsertRow, MakeDir, UnlockVault, MarkComplete, UndoDir,
     UndoRow, DeleteRow, DropKey, RemoveSpaceDir
<1>3. \A q \in Procs : proc'[q].pc = proc[q].pc /\ proc'[q].master = proc[q].master
  <2>1. CASE UNCHANGED proc
    BY <2>1
  <2>2. CASE Unlock(req[r].p, {req[r].v}, "serve")
    BY <1>t, <2>2 DEF Unlock, Proc
  <2>3. CASE Forget(req[r].p, req[r].v)
    BY <1>t, <2>3 DEF Forget, Proc
  <2> QED
    BY <1>2, <2>1, <2>2, <2>3
<1>4. \A t \in Reqs \ {r} : req'[t] = req[t]
  BY <1>1, <1>t DEF Return, Goto
<1> QED
  BY <1>1, <1>3, <1>4

LEMMA CallerStep == TypeOK /\ TypeOK' /\ CallerInv /\ [Next]_vars => CallerInv'
<1> SUFFICES ASSUME TypeOK, TypeOK', CallerInv, [Next]_vars PROVE CallerInv'
  OBVIOUS
<1>t. req \in [Reqs -> Request \cup {Idle}] /\ proc \in [Procs -> Proc]
  BY DEF TypeOK
<1>a. \A r \in Reqs : req[r].pc # "idle" => req[r].p \in Procs
  BY ActiveRequest
<1>1. CASE \E p \in Procs : Boot(p)
  <2>1. PICK p \in Procs : Boot(p)
    BY <1>1
  <2>2. req' = req /\ ~Serving(p) /\ \A q \in Procs \ {p} : proc'[q] = proc[q]
    BY <2>1, BootStep
  <2> QED
    BY <1>a, <2>2 DEF CallerInv, Serving
<1>2. CASE \E p \in Procs : Crash(p)
  <2>1. PICK p \in Procs : Crash(p)
    BY <1>2
  <2>2. \A q \in Procs \ {p} : proc'[q] = proc[q]
    BY <2>1, <1>t DEF Crash, Panic
  <2>3. \A r \in Reqs : \/ req'[r] = Idle
                        \/ req'[r] = req[r] /\ (req[r].pc # "idle" => req[r].p # p)
    BY <2>1 DEF Crash
  <2>4. Idle.pc = "idle"
    BY DEF Idle
  <2> QED
    BY <1>a, <2>2, <2>3, <2>4 DEF CallerInv, Serving
<1>3. CASE \E r \in Reqs, p \in Procs : Start(r, p)
  <2>1. PICK r \in Reqs, p \in Procs : Start(r, p)
    BY <1>3
  <2>2. /\ proc' = proc /\ Serving(p)
        /\ \E v, u : \E pc \in {"insert", "delrow"} : Begin(r, pc, p, v, u)
    BY <2>1 DEF Start, SetupLibrary, CreateSpace, DeleteSpace
  <2>3. /\ req'[r].p = p /\ req'[r].pc # "mark"
        /\ \A t \in Reqs \ {r} : req'[t] = req[t]
    BY <2>2, <1>t DEF Begin
  <2> QED
    BY <2>2, <2>3 DEF CallerInv, Serving
<1>4. CASE \E r \in Reqs : Handle(r)
  <2>1. PICK r \in Reqs : Handle(r)
    BY <1>4
  <2>2. /\ \A q \in Procs : proc'[q].pc = proc[q].pc
        /\ \A t \in Reqs \ {r} : req'[t] = req[t]
        /\ \/ Return(r)
           \/ \E pc \in Active : Goto(r, pc) /\ (pc = "mark" => req[r].owner # None)
    BY <2>1, HandleStep
  <2>3. req[r].pc # "idle" /\ req[r] \in Request
    BY <2>1, HandleActive, ActiveRequest
  <2>4. CASE Return(r)
    <3>1. req'[r].pc = "idle"
      BY <2>4, <1>t DEF Return, Idle
    <3> QED
      BY <1>a, <2>2, <3>1 DEF CallerInv, Serving
  <2>5. ASSUME NEW pc \in Active, Goto(r, pc), pc = "mark" => req[r].owner # None
        PROVE  CallerInv'
    <3>1. req'[r] = [req[r] EXCEPT !.pc = pc]
      BY <2>5, <1>t DEF Goto
    <3>2. req'[r].pc = pc /\ req'[r].p = req[r].p /\ req'[r].owner = req[r].owner
      BY <2>3, <3>1 DEF Request
    <3> QED
      BY <1>a, <2>2, <2>3, <2>5, <3>2 DEF CallerInv, Serving
  <2> QED
    BY <2>2, <2>4, <2>5
<1>5. CASE \E r \in Reqs : Fail(r)
  <2>1. PICK r \in Reqs : Fail(r)
    BY <1>5
  <2>2. proc' = proc /\ req'[r] = Idle /\ \A t \in Reqs \ {r} : req'[t] = req[t]
    BY <2>1, <1>t DEF Fail, Return
  <2>3. Idle.pc = "idle"
    BY DEF Idle
  <2> QED
    BY <2>2, <2>3 DEF CallerInv, Serving
<1>6. CASE UNCHANGED vars
  BY <1>6 DEF vars, CallerInv, Serving
<1> QED
  BY <1>1, <1>2, <1>3, <1>4, <1>5, <1>6 DEF Next

LEMMA TypeStep == TypeOK /\ CallerInv /\ [Next]_vars => TypeOK'
BY BootType, CrashType, StartType, HandleType, FailType, StutterType DEF Next

LEMMA CallerInit == Init => CallerInv
BY DEF Init, CallerInv, Idle

\* The type invariant: in particular a process beyond the boot steps
\* resolve_secret_key and bootstrap_master_key has a secret and a master key.
THEOREM KeyTypeCorrect == Spec => []TypeOK
<1>1. Init => TypeOK /\ CallerInv
  BY TypeInit, CallerInit
<1>2. TypeOK /\ CallerInv /\ [Next]_vars => (TypeOK /\ CallerInv)'
  BY TypeStep, CallerStep
<1> QED
  BY <1>1, <1>2, PTL DEF Spec

----------------------------------------------------------------------------
(* One master key wraps every data key *)

\* RowsUnwrappable is not inductive: an INSERT takes the key from the memory
\* of the process, which must therefore be the one in the database.
MasterInv ==
    /\ \A p \in Procs : proc[p].pc \in Holding =>
                          stored # None /\ proc[p].master = stored.key
    /\ \A p \in Procs : proc[p].pc = "confirm" => stored # None
    /\ RowsUnwrappable

LEMMA MasterInit == Init => MasterInv
BY DEF Init, MasterInv, RowsUnwrappable, Live, Off, Holding

\* The rows survive a step that leaves the stored master key alone and brings
\* no vault to life.
LEMMA RowsFrame ==
    ASSUME RowsUnwrappable, stored # None => stored' = stored,
           \A v \in Vaults : row'[v].st = "live" =>
                               row[v].st = "live" /\ row'[v].by = row[v].by
    PROVE  RowsUnwrappable'
BY DEF RowsUnwrappable, Live

\* The rows that steps of requests write.
LEMMA RowStep ==
    ASSUME TypeOK, CallerInv, NEW r \in Reqs, Handle(r), NEW v \in Vaults,
           row'[v].st = "live"
    PROVE  \/ row[v].st = "live" /\ row'[v].by = row[v].by
           \/ row'[v].by = proc[req[r].p].master
<1>t. row \in [Vaults -> Row] /\ req[r].v \in Vaults
  BY HandleActive DEF TypeOK
<1>1. CASE row' = row
  BY <1>1
<1>2. CASE InsertRow(r)
  <2>1. CASE row' = [row EXCEPT ![req[r].v] =
                       [st |-> "live", owner |-> req[r].owner,
                        by |-> proc[req[r].p].master]]
    BY <1>t, <2>1
  <2> QED
    BY <1>1, <1>2, <2>1 DEF InsertRow
<1>3. CASE DropRow(req[r].v)
  BY <1>3, <1>t DEF DropRow, Row
<1> QED
  BY <1>1, <1>2, <1>3 DEF Handle, MakeDir, UnlockVault, MarkComplete, UndoDir,
     UndoRow, DeleteRow, DropKey, RemoveSpaceDir, vaults

LEMMA MasterStep ==
    TypeOK /\ CallerInv /\ MasterInv /\ [Next]_vars => MasterInv'
<1> SUFFICES ASSUME TypeOK, CallerInv, MasterInv, [Next]_vars PROVE MasterInv'
  OBVIOUS
<1>t. proc \in [Procs -> Proc] /\ row \in [Vaults -> Row]
  BY DEF TypeOK
<1>r. RowsUnwrappable
  BY DEF MasterInv
<1>1. CASE \E p \in Procs : Boot(p)
  <2>1. PICK p \in Procs : Boot(p)
    BY <1>1
  <2>2. /\ row' = row
        /\ \A q \in Procs \ {p} : proc'[q] = proc[q]
        /\ stored # None => stored' = stored
        /\ proc'[p].pc = "confirm" => stored' # None
        /\ proc'[p].pc \in Holding =>
             /\ stored' = stored
             /\ \/ stored # None /\ proc'[p].master = stored.key
                \/ /\ proc[p].pc = "confirm" /\ stored.key = proc[p].master
                   /\ proc'[p].master = proc[p].master
                \/ proc[p].pc \in Holding /\ proc'[p].master = proc[p].master
    BY <2>1, BootStep
  <2>3. RowsUnwrappable'
    BY <1>r, <2>2, RowsFrame
  <2>4. ASSUME NEW q \in Procs
        PROVE  /\ (proc[q].pc \in Holding => stored # None /\ proc[q].master = stored.key)'
               /\ (proc[q].pc = "confirm" => stored # None)'
    <3>1. CASE q = p
      BY <2>2, <3>1 DEF MasterInv
    <3>2. CASE q # p
      BY <2>2, <3>2 DEF MasterInv
    <3> QED
      BY <3>1, <3>2
  <2> QED
    BY <2>3, <2>4 DEF MasterInv
<1>2. CASE \E p \in Procs : Crash(p)
  <2>1. PICK p \in Procs : Crash(p)
    BY <1>2
  <2>2. /\ stored' = stored /\ row' = row
        /\ proc'[p].pc = "off" /\ \A q \in Procs \ {p} : proc'[q] = proc[q]
    BY <2>1, <1>t DEF Crash, Panic, Off, keys, vaults
  <2>3. RowsUnwrappable'
    BY <1>r, <2>2, RowsFrame
  <2> QED
    BY <2>2, <2>3, Names DEF MasterInv
<1>3. CASE \E r \in Reqs, p \in Procs : Start(r, p)
  <2>1. PICK r \in Reqs, p \in Procs : Start(r, p)
    BY <1>3
  <2>2. /\ stored' = stored /\ proc' = proc
        /\ row' = row \/ \E v \in Vaults : Mint(v)
    BY <2>1 DEF Start, SetupLibrary, CreateSpace, DeleteSpace, keys, vaults
  <2>3. \A v \in Vaults : row'[v].st = "live" =>
                            row[v].st = "live" /\ row'[v].by = row[v].by
    BY <2>2, <1>t DEF Mint, Row
  <2>4. RowsUnwrappable'
    BY <1>r, <2>2, <2>3, RowsFrame
  <2> QED
    BY <2>2, <2>4 DEF MasterInv
<1>4. CASE \E r \in Reqs : Handle(r)
  <2>1. PICK r \in Reqs : Handle(r)
    BY <1>4
  <2>2. /\ stored' = stored
        /\ \A q \in Procs : proc'[q].pc = proc[q].pc /\ proc'[q].master = proc[q].master
    BY <2>1, HandleStep
  <2>3. /\ req[r].p \in Procs
        /\ stored # None /\ proc[req[r].p].master = stored.key
    BY <2>1, HandleActive, Names DEF MasterInv, CallerInv, Serving
  <2>4. RowsUnwrappable'
    <3> SUFFICES ASSUME NEW v \in Vaults, row'[v].st = "live"
                 PROVE  stored' # None /\ row'[v].by = stored'.key
      BY DEF RowsUnwrappable, Live
    <3>1. \/ row[v].st = "live" /\ row'[v].by = row[v].by
          \/ row'[v].by = proc[req[r].p].master
      BY <2>1, RowStep
    <3> QED
      BY <1>r, <2>2, <2>3, <3>1 DEF RowsUnwrappable, Live
  <2> QED
    BY <2>2, <2>4 DEF MasterInv
<1>5. CASE (\E r \in Reqs : Fail(r)) \/ UNCHANGED vars
  <2>1. stored' = stored /\ row' = row /\ proc' = proc
    BY <1>5 DEF Fail, vars, keys, vaults
  <2> QED
    BY <2>1 DEF MasterInv, RowsUnwrappable, Live
<1> QED
  BY <1>1, <1>2, <1>3, <1>4, <1>5 DEF Next

\* Every data key in the database is wrapped by the master key stored there,
\* whatever races first boots run (store_encrypted_master_key), and however
\* processes crash, calls fail and rollbacks go.
THEOREM RowsAreUnwrappable == Spec => []RowsUnwrappable
<1>1. Init => TypeOK /\ CallerInv /\ MasterInv
  BY TypeInit, CallerInit, MasterInit
<1>2. TypeOK /\ CallerInv /\ MasterInv /\ [Next]_vars
        => (TypeOK /\ CallerInv /\ MasterInv)'
  BY TypeStep, CallerStep, MasterStep
<1>3. MasterInv => RowsUnwrappable
  BY DEF MasterInv
<1> QED
  BY <1>1, <1>2, <1>3, PTL DEF Spec

----------------------------------------------------------------------------
(* One server at a time: the vaults it has promised are there and unlocked *)

OneServer == \A p, q \in Procs : p = q

Creating == {"insert", "mkdir", "unlock", "mark", "undodir", "undorow"}
Deleting == {"delrow", "dropkey", "rmdir"}

\* A request that creates a vault is the only one to do so, has not been
\* answered, and has done what lies behind it.
MakerOK(r) ==
    LET v == req[r].v IN
    req[r].pc \in Creating =>
      /\ v \notin ready
      /\ req[r].pc = "insert" => row[v].st = "minted"
      /\ req[r].pc # "insert" =>
           /\ row[v].st \in {"live", "gone"}
           /\ row[v].owner = req[r].owner
           /\ v \notin doomed => Live(v)
      /\ req[r].pc \in {"unlock", "mark"} => dir[v] \/ v \in doomed
      /\ req[r].pc = "mark" => v \in proc[req[r].p].unlocked

OneMaker == \A r, s \in Reqs :
    /\ req[r].pc \in Creating /\ req[s].pc \in Creating
    /\ req[r].v = req[s].v
    => r = s

\* Only spaces are deleted, and only by a request for it.
EraserOK(r) == req[r].pc \in Deleting => req[r].v \in doomed
DoomedOK(v) == v \in doomed => row[v].owner = None /\ row[v].st \in {"live", "gone"}

\* What has been promised is in the database, on the disk, and in memory as
\* soon as the boot has loaded it.
KeptOK(v) ==
    v \in ready /\ v \notin doomed =>
      /\ Live(v) /\ dir[v]
      /\ \A p \in Procs :
           /\ proc[p].pc \in {"bind", "serve"} => v \in proc[p].unlocked
           /\ proc[p].pc = "spaces" /\ row[v].owner # None => v \in proc[p].unlocked

\* The setup that was completed is one whose vault is promised.
CompleteOK(u) == \E v \in ready : LibraryOf(u, v)

VaultInv ==
    /\ OneServer /\ OneMaker
    /\ \A r \in Reqs : MakerOK(r) /\ EraserOK(r)
    /\ \A v \in Vaults : DoomedOK(v) /\ KeptOK(v)
    /\ \A u \in complete : CompleteOK(u)

\* What a step of request r on vault w leaves as it is.
Touch(r, w) ==
    /\ \A t \in Reqs \ {r} : req'[t] = req[t]
    /\ \A v \in Vaults \ {w} : row'[v] = row[v] /\ dir'[v] = dir[v]
    /\ \A q \in Procs : /\ proc'[q].pc = proc[q].pc
                        /\ \A v \in Vaults \ {w} :
                             v \in proc[q].unlocked => v \in proc'[q].unlocked
    /\ ready \subseteq ready' /\ ready' \subseteq ready \cup {w}
    /\ doomed \subseteq doomed' /\ doomed' \subseteq doomed \cup {w}
    /\ complete \subseteq complete'

\* Nobody else cares for w: no other request creates it and it has not been
\* promised, or it is a space that is being deleted.
Free(r, w) ==
    \/ /\ \A t \in Reqs \ {r} : req[t].pc \in Creating => req[t].v # w
       /\ w \notin ready
       /\ req'[r].pc \in Creating => req'[r].v = w
    \/ /\ w \in doomed' /\ ready' = ready
       /\ row[w].owner = None /\ row'[w].owner = None
       /\ row[w].st \in {"live", "gone"} /\ row'[w].st \in {"live", "gone"}
       /\ req'[r].pc \notin Creating

LEMMA Others ==
    ASSUME TypeOK, CallerInv, VaultInv, NEW r \in Reqs, NEW w \in Vaults,
           Touch(r, w), Free(r, w)
    PROVE  /\ \A t \in Reqs \ {r} : MakerOK(t)' /\ EraserOK(t)'
           /\ OneMaker'
           /\ \A v \in Vaults \ {w} : DoomedOK(v)' /\ KeptOK(v)'
           /\ \A u \in complete : CompleteOK(u)'
<1>1. ASSUME NEW t \in Reqs \ {r} PROVE MakerOK(t)' /\ EraserOK(t)'
  <2>1. req'[t] = req[t] /\ MakerOK(t) /\ EraserOK(t)
    BY DEF Touch, VaultInv
  <2>2. EraserOK(t)'
    BY <2>1 DEF EraserOK, Touch
  <2>3. SUFFICES ASSUME req[t].pc \in Creating PROVE MakerOK(t)'
    BY <2>1, <2>2 DEF MakerOK
  <2>4. req[t].pc # "idle"
    BY <2>3 DEF Creating
  <2>5. req[t].v \in Vaults /\ req[t].p \in Procs
    BY <2>4, ActiveRequest
  <2> DEFINE v == req[t].v
  <2>6. CASE v # w
    <3>1. /\ v \in ready' => v \in ready
          /\ v \in doomed => v \in doomed'
          /\ row'[v] = row[v] /\ dir'[v] = dir[v]
          /\ v \in proc[req[t].p].unlocked => v \in proc'[req[t].p].unlocked
      BY <2>5, <2>6 DEF Touch
    <3> QED
      BY <2>1, <3>1 DEF MakerOK, Live
  <2>7. CASE v = w
    <3>1. /\ w \in doomed' /\ ready' = ready
          /\ row[w].owner = None /\ row'[w].owner = None
          /\ row[w].st \in {"live", "gone"} /\ row'[w].st \in {"live", "gone"}
      BY <2>3, <2>7 DEF Free
    <3>2. req[t].pc # "insert"
      BY <2>1, <2>3, <2>7, <3>1 DEF MakerOK
    <3>3. row[w].owner = req[t].owner
      BY <2>1, <2>3, <2>7, <3>2 DEF MakerOK
    <3>4. req[t].pc # "mark"
      BY <3>1, <3>3 DEF CallerInv
    <3> QED
      BY <2>1, <2>3, <2>7, <3>1, <3>2, <3>3, <3>4 DEF MakerOK
  <2> QED
    BY <2>6, <2>7
<1>2. OneMaker'
  <2> SUFFICES ASSUME NEW s \in Reqs, NEW t \in Reqs, req'[s].pc \in Creating,
                      req'[t].pc \in Creating, req'[s].v = req'[t].v
               PROVE  s = t
    BY DEF OneMaker
  <2>1. OneMaker
    BY DEF VaultInv
  <2>2. CASE s # r /\ t # r
    BY <2>1, <2>2 DEF OneMaker, Touch
  <2>3. \A x \in Reqs \ {r} : req'[x].pc \in Creating /\ req'[r].pc \in Creating
                                => req'[x].v # req'[r].v
    BY DEF Free, Touch
  <2> QED
    BY <2>2, <2>3
<1>3. ASSUME NEW v \in Vaults \ {w} PROVE DoomedOK(v)' /\ KeptOK(v)'
  <2>1. DoomedOK(v) /\ KeptOK(v)
    BY DEF VaultInv
  <2>2. /\ v \in ready' => v \in ready
        /\ v \in doomed' <=> v \in doomed
        /\ row'[v] = row[v] /\ dir'[v] = dir[v]
        /\ \A p \in Procs : /\ proc'[p].pc = proc[p].pc
                            /\ v \in proc[p].unlocked => v \in proc'[p].unlocked
    BY DEF Touch
  <2>3. DoomedOK(v)'
    BY <2>1, <2>2 DEF DoomedOK
  <2>4. KeptOK(v)'
    BY <2>1, <2>2 DEF KeptOK, Live
  <2> QED
    BY <2>3, <2>4
<1>4. ASSUME NEW u \in complete PROVE CompleteOK(u)'
  <2>1. PICK v \in ready : LibraryOf(u, v)
    BY DEF VaultInv, CompleteOK
  <2>2. u # None /\ v \in Vaults
    BY KeyAssumption DEF TypeOK
  <2>3. v # w
    BY <2>1, <2>2 DEF Free, LibraryOf
  <2>4. row'[v] = row[v] /\ v \in ready'
    BY <2>1, <2>2, <2>3 DEF Touch
  <2> QED
    BY <2>1, <2>4 DEF CompleteOK, LibraryOf, Live
<1> QED
  BY <1>1, <1>2, <1>3, <1>4

\* What is left to show for a step of r on w.
LEMMA Restored ==
    ASSUME TypeOK, CallerInv, VaultInv, NEW r \in Reqs, NEW w \in Vaults,
           Touch(r, w), Free(r, w),
           MakerOK(r)', EraserOK(r)', DoomedOK(w)', KeptOK(w)',
           \A u \in complete' \ complete : CompleteOK(u)'
    PROVE  VaultInv'
<1>1. OneServer'
  BY DEF VaultInv, OneServer
<1> QED
  BY <1>1, Others DEF VaultInv

\* How the steps of a request move the slot, the process, the row and the
\* directory.
LEMMA ReturnMoves ==
    ASSUME TypeOK, NEW r \in Reqs, Return(r)
    PROVE  /\ req'[r].pc = "idle"
           /\ \A t \in Reqs \ {r} : req'[t] = req[t]
BY DEF Return, TypeOK, Idle

LEMMA GotoMoves ==
    ASSUME TypeOK, NEW r \in Reqs, req[r].pc # "idle", NEW pc, Goto(r, pc)
    PROVE  /\ req'[r].pc = pc /\ req'[r].v = req[r].v
           /\ req'[r].p = req[r].p /\ req'[r].owner = req[r].owner
           /\ \A t \in Reqs \ {r} : req'[t] = req[t]
<1>1. req'[r] = [req[r] EXCEPT !.pc = pc] /\ \A t \in Reqs \ {r} : req'[t] = req[t]
  BY DEF Goto, TypeOK
<1>2. req[r] \in Request
  BY ActiveRequest
<1> QED
  BY <1>1, <1>2 DEF Request

LEMMA UnlockMoves ==
    ASSUME TypeOK, NEW p \in Procs, NEW vs \in SUBSET Vaults, NEW pc, Unlock(p, vs, pc)
    PROVE  /\ proc'[p].pc = pc
           /\ proc'[p].unlocked = proc[p].unlocked \cup vs
           /\ \A q \in Procs \ {p} : proc'[q] = proc[q]
<1>1. /\ proc'[p] = [proc[p] EXCEPT !.pc = pc, !.unlocked = proc[p].unlocked \cup vs]
      /\ \A q \in Procs \ {p} : proc'[q] = proc[q]
  BY DEF Unlock, TypeOK
<1>2. proc[p] \in Proc
  BY DEF TypeOK
<1> QED
  BY <1>1, <1>2 DEF Proc

LEMMA ForgetMoves ==
    ASSUME TypeOK, NEW p \in Procs, NEW v, Forget(p, v)
    PROVE  \A q \in Procs : /\ proc'[q].pc = proc[q].pc
                            /\ \A x \in Vaults \ {v} :
                                 x \in proc[q].unlocked => x \in proc'[q].unlocked
<1>1. /\ proc'[p] = [proc[p] EXCEPT !.unlocked = proc[p].unlocked \ {v}]
      /\ \A q \in Procs \ {p} : proc'[q] = proc[q]
  BY DEF Forget, TypeOK
<1>2. proc[p] \in Proc
  BY DEF TypeOK
<1>3. proc'[p].pc = proc[p].pc /\ proc'[p].unlocked = proc[p].unlocked \ {v}
  BY <1>1, <1>2 DEF Proc
<1> QED
  BY <1>1, <1>3

LEMMA DropRowMoves ==
    ASSUME TypeOK, NEW v \in Vaults, DropRow(v)
    PROVE  /\ row'[v].st = "gone" /\ row'[v].owner = row[v].owner
           /\ \A x \in Vaults \ {v} : row'[x] = row[x]
BY DEF DropRow, TypeOK, Row

LEMMA RemoveDirMoves ==
    ASSUME TypeOK, NEW v \in Vaults, RemoveDir(v)
    PROVE  \A x \in Vaults \ {v} : dir'[x] = dir[x]
BY DEF RemoveDir, TypeOK

----------------------------------------------------------------------------
\* A step of a request that creates a vault and answers nothing.
LEMMA MakerStep ==
    ASSUME TypeOK, CallerInv, VaultInv, NEW r \in Reqs, req[r].pc \in Creating,
           NEW w \in Vaults, w = req[r].v,
           Touch(r, w), ready' = ready, complete' = complete,
           req'[r].pc \in Creating \cup {"idle"},
           req'[r].pc \in Creating => req'[r].v = w,
           MakerOK(r)', DoomedOK(w)'
    PROVE  VaultInv'
<1>1. w \notin ready
  BY DEF VaultInv, MakerOK
<1>2. Free(r, w)
  BY <1>1 DEF Free, VaultInv, OneMaker
<1>3. EraserOK(r)'
  BY DEF EraserOK, Creating, Deleting
<1>4. KeptOK(w)'
  BY <1>1 DEF KeptOK
<1> QED
  BY <1>2, <1>3, <1>4, Restored

LEMMA InsertRowStep ==
    ASSUME TypeOK, CallerInv, VaultInv, NEW r \in Reqs, InsertRow(r)
    PROVE  VaultInv'
<1>1. req[r].pc = "insert" /\ req[r].pc \in Creating /\ req[r].pc # "idle"
  BY DEF InsertRow, At, Creating
<1>2. PICK w \in Vaults : w = req[r].v
  BY <1>1, ActiveRequest
<1>3. w \notin ready /\ row[w].st = "minted" /\ DoomedOK(w)
  BY <1>1, <1>2 DEF VaultInv, MakerOK
<1>4. w \notin doomed
  BY <1>3 DEF DoomedOK
<1>5. UNCHANGED <<proc, dir, complete, ready, doomed>>
  BY DEF InsertRow, answers
<1>6. CASE Return(r) /\ row' = row
  <2>1. req'[r].pc = "idle" /\ \A t \in Reqs \ {r} : req'[t] = req[t]
    BY <1>6, ReturnMoves
  <2>2. Touch(r, w)
    BY <1>5, <1>6, <2>1 DEF Touch
  <2>3. MakerOK(r)' /\ DoomedOK(w)'
    BY <1>3, <1>5, <1>6, <2>1 DEF MakerOK, DoomedOK, Creating
  <2> QED
    BY <1>1, <1>2, <1>5, <2>1, <2>2, <2>3, MakerStep DEF Creating
<1>7. CASE /\ row' = [row EXCEPT ![req[r].v] =
                        [st |-> "live", owner |-> req[r].owner,
                         by |-> proc[req[r].p].master]]
           /\ Goto(r, "mkdir")
  <2>1. /\ req'[r].pc = "mkdir" /\ req'[r].v = w /\ req'[r].owner = req[r].owner
        /\ \A t \in Reqs \ {r} : req'[t] = req[t]
    BY <1>1, <1>2, <1>7, GotoMoves
  <2>2. /\ row'[w].st = "live" /\ row'[w].owner = req[r].owner
        /\ \A x \in Vaults \ {w} : row'[x] = row[x]
    BY <1>2, <1>7 DEF TypeOK
  <2>3. Touch(r, w)
    BY <1>5, <2>1, <2>2 DEF Touch
  <2>4. MakerOK(r)' /\ DoomedOK(w)'
    BY <1>3, <1>4, <1>5, <2>1, <2>2 DEF MakerOK, DoomedOK, Live
  <2> QED
    BY <1>1, <1>2, <1>5, <2>1, <2>3, <2>4, MakerStep DEF Creating
<1> QED
  BY <1>6, <1>7 DEF InsertRow

LEMMA MakeDirStep ==
    ASSUME TypeOK, CallerInv, VaultInv, NEW r \in Reqs, MakeDir(r)
    PROVE  VaultInv'
<1>1. req[r].pc = "mkdir" /\ req[r].pc \in Creating /\ req[r].pc # "idle"
  BY DEF MakeDir, At, Creating
<1>2. PICK w \in Vaults : w = req[r].v
  BY <1>1, ActiveRequest
<1>3. MakerOK(r) /\ DoomedOK(w)
  BY DEF VaultInv
<1>4. UNCHANGED <<proc, row, complete, ready, doomed>>
  BY DEF MakeDir, answers
<1>5. PICK pc \in {"unlock", "undorow"} :
         /\ Goto(r, pc)
         /\ \A x \in Vaults \ {w} : dir'[x] = dir[x]
         /\ pc = "unlock" => dir'[w]
  BY <1>2 DEF MakeDir, TypeOK
<1>6. /\ req'[r].pc = pc /\ req'[r].v = w /\ req'[r].owner = req[r].owner
      /\ \A t \in Reqs \ {r} : req'[t] = req[t]
  BY <1>1, <1>2, <1>5, GotoMoves
<1>7. Touch(r, w)
  BY <1>4, <1>5, <1>6 DEF Touch
<1>8. MakerOK(r)' /\ DoomedOK(w)'
  BY <1>1, <1>2, <1>3, <1>4, <1>5, <1>6 DEF MakerOK, DoomedOK, Live
<1> QED
  BY <1>1, <1>2, <1>4, <1>5, <1>6, <1>7, <1>8, MakerStep DEF Creating

LEMMA UndoDirStep ==
    ASSUME TypeOK, CallerInv, VaultInv, NEW r \in Reqs, UndoDir(r)
    PROVE  VaultInv'
<1>1. req[r].pc = "undodir" /\ req[r].pc \in Creating /\ req[r].pc # "idle"
  BY DEF UndoDir, At, Creating
<1>2. PICK w \in Vaults : w = req[r].v
  BY <1>1, ActiveRequest
<1>3. MakerOK(r) /\ DoomedOK(w)
  BY DEF VaultInv
<1>4. UNCHANGED <<proc, row, complete, ready, doomed>>
  BY DEF UndoDir, answers
<1>5. \A x \in Vaults \ {w} : dir'[x] = dir[x]
  BY <1>2, RemoveDirMoves DEF UndoDir
<1>6. /\ req'[r].pc = "undorow" /\ req'[r].v = w /\ req'[r].owner = req[r].owner
      /\ \A t \in Reqs \ {r} : req'[t] = req[t]
  BY <1>1, <1>2, GotoMoves DEF UndoDir
<1>7. Touch(r, w)
  BY <1>4, <1>5, <1>6 DEF Touch
<1>8. MakerOK(r)' /\ DoomedOK(w)'
  BY <1>1, <1>2, <1>3, <1>4, <1>6 DEF MakerOK, DoomedOK, Live
<1> QED
  BY <1>1, <1>2, <1>4, <1>6, <1>7, <1>8, MakerStep DEF Creating

LEMMA UndoRowStep ==
    ASSUME TypeOK, CallerInv, VaultInv, NEW r \in Reqs, UndoRow(r)
    PROVE  VaultInv'
<1>1. req[r].pc = "undorow" /\ req[r].pc \in Creating /\ req[r].pc # "idle"
  BY DEF UndoRow, At, Creating
<1>2. PICK w \in Vaults : w = req[r].v
  BY <1>1, ActiveRequest
<1>3. DoomedOK(w)
  BY DEF VaultInv
<1>4. UNCHANGED <<proc, dir, complete, ready, doomed>>
  BY DEF UndoRow, answers
<1>5. req'[r].pc = "idle" /\ \A t \in Reqs \ {r} : req'[t] = req[t]
  BY ReturnMoves DEF UndoRow
<1>6. /\ \A x \in Vaults \ {w} : row'[x] = row[x]
      /\ row'[w] = row[w] \/ (row'[w].st = "gone" /\ row'[w].owner = row[w].owner)
  BY <1>2, DropRowMoves DEF UndoRow
<1>7. Touch(r, w)
  BY <1>4, <1>5, <1>6 DEF Touch
<1>8. MakerOK(r)' /\ DoomedOK(w)'
  BY <1>3, <1>4, <1>5, <1>6 DEF MakerOK, DoomedOK, Creating
<1> QED
  BY <1>1, <1>2, <1>4, <1>5, <1>7, <1>8, MakerStep DEF Creating

LEMMA UnlockVaultStep ==
    ASSUME TypeOK, CallerInv, VaultInv, NEW r \in Reqs, UnlockVault(r)
    PROVE  VaultInv'
<1>1. req[r].pc = "unlock" /\ req[r].pc \in Creating /\ req[r].pc # "idle"
  BY DEF UnlockVault, At, Creating
<1>2. PICK w \in Vaults : w = req[r].v
  BY <1>1, ActiveRequest
<1>3. MakerOK(r) /\ DoomedOK(w)
  BY DEF VaultInv
<1>4. UNCHANGED <<row, dir, complete, doomed>>
  BY DEF UnlockVault, vaults
<1>5. req[r].p \in Procs /\ proc[req[r].p].pc = "serve"
  BY <1>1, ActiveRequest DEF CallerInv, Serving
<1>6. PICK p \in Procs : p = req[r].p
  BY <1>5
<1>7. /\ \A q \in Procs : /\ proc'[q].pc = proc[q].pc
                          /\ proc[q].unlocked \subseteq proc'[q].unlocked
      /\ w \in proc'[p].unlocked
  <2>1. Unlock(p, {w}, "serve") /\ {w} \in SUBSET Vaults
    BY <1>2, <1>6 DEF UnlockVault
  <2>2. /\ proc'[p].pc = "serve"
        /\ proc'[p].unlocked = proc[p].unlocked \cup {w}
        /\ \A q \in Procs \ {p} : proc'[q] = proc[q]
    BY <2>1, UnlockMoves
  <2> QED BY <1>5, <1>6, <2>2
<1>8. \A q \in Procs : q = p
  BY DEF VaultInv, OneServer
<1>9. CASE req[r].owner # None
  <2>1. Goto(r, "mark") /\ ready' = ready
    BY <1>9 DEF UnlockVault
  <2>2. /\ req'[r].pc = "mark" /\ req'[r].v = w /\ req'[r].owner = req[r].owner
        /\ req'[r].p = p
        /\ \A t \in Reqs \ {r} : req'[t] = req[t]
    BY <1>1, <1>2, <1>6, <2>1, GotoMoves
  <2>3. Touch(r, w)
    BY <1>4, <1>7, <2>1, <2>2 DEF Touch
  <2>4. MakerOK(r)' /\ DoomedOK(w)'
    BY <1>1, <1>2, <1>3, <1>4, <1>7, <2>1, <2>2 DEF MakerOK, DoomedOK, Live
  <2> QED
    BY <1>1, <1>2, <1>4, <2>1, <2>2, <2>3, <2>4, MakerStep DEF Creating
<1>10. CASE req[r].owner = None
  <2>1. Return(r) /\ ready' = ready \cup {w}
    BY <1>2, <1>10 DEF UnlockVault
  <2>2. req'[r].pc = "idle" /\ \A t \in Reqs \ {r} : req'[t] = req[t]
    BY <2>1, ReturnMoves
  <2>3. Touch(r, w)
    BY <1>4, <1>7, <2>1, <2>2 DEF Touch
  <2>4. Free(r, w)
    BY <1>1, <1>2, <1>3, <2>2 DEF Free, VaultInv, OneMaker, MakerOK, Creating
  <2>5. MakerOK(r)' /\ EraserOK(r)' /\ DoomedOK(w)'
    BY <1>3, <1>4, <2>2 DEF MakerOK, EraserOK, DoomedOK, Creating, Deleting
  <2>6. KeptOK(w)'
    BY <1>1, <1>2, <1>3, <1>4, <1>7, <1>8 DEF MakerOK, KeptOK, Live
  <2> QED
    BY <1>4, <2>3, <2>4, <2>5, <2>6, Restored
<1> QED
  BY <1>9, <1>10

LEMMA MarkCompleteStep ==
    ASSUME TypeOK, CallerInv, VaultInv, NEW r \in Reqs, MarkComplete(r)
    PROVE  VaultInv'
<1>1. req[r].pc = "mark" /\ req[r].pc \in Creating /\ req[r].pc # "idle"
  BY DEF MarkComplete, At, Creating
<1>2. PICK w \in Vaults : w = req[r].v
  BY <1>1, ActiveRequest
<1>3. MakerOK(r) /\ DoomedOK(w)
  BY DEF VaultInv
<1>4. UNCHANGED <<row, dir, doomed>>
  BY DEF MarkComplete
<1>5. PICK p \in Procs : p = req[r].p
  BY <1>1, ActiveRequest
<1>6. req[r].owner # None
  BY <1>1 DEF CallerInv
<1>7. w \notin doomed /\ Live(w) /\ row[w].owner = req[r].owner /\ dir[w]
  BY <1>1, <1>2, <1>3, <1>6 DEF MakerOK, DoomedOK
<1>8. CASE /\ complete' = complete \cup {req[r].owner} /\ ready' = ready \cup {w}
           /\ Return(r) /\ proc' = proc
  <2>1. req'[r].pc = "idle" /\ \A t \in Reqs \ {r} : req'[t] = req[t]
    BY <1>8, ReturnMoves
  <2>2. Touch(r, w)
    BY <1>4, <1>8, <2>1 DEF Touch
  <2>3. Free(r, w)
    BY <1>1, <1>2, <1>3, <2>1 DEF Free, VaultInv, OneMaker, MakerOK, Creating
  <2>4. MakerOK(r)' /\ EraserOK(r)' /\ DoomedOK(w)'
    BY <1>3, <1>4, <2>1 DEF MakerOK, EraserOK, DoomedOK, Creating, Deleting
  <2>5. \A q \in Procs : w \in proc[q].unlocked
    BY <1>1, <1>2, <1>3, <1>5 DEF VaultInv, OneServer, MakerOK
  <2>6. KeptOK(w)'
    BY <1>4, <1>7, <1>8, <2>5 DEF KeptOK, Live
  <2>7. \A u \in complete' \ complete : CompleteOK(u)'
    BY <1>4, <1>7, <1>8 DEF CompleteOK, LibraryOf, Live
  <2> QED
    BY <2>2, <2>3, <2>4, <2>6, <2>7, Restored
<1>9. CASE /\ Forget(p, w) /\ Goto(r, "undodir")
           /\ complete' = complete /\ ready' = ready
  <2>1. /\ req'[r].pc = "undodir" /\ req'[r].v = w /\ req'[r].owner = req[r].owner
        /\ \A t \in Reqs \ {r} : req'[t] = req[t]
    BY <1>1, <1>2, <1>9, GotoMoves
  <2>2. \A q \in Procs : /\ proc'[q].pc = proc[q].pc
                         /\ \A x \in Vaults \ {w} :
                              x \in proc[q].unlocked => x \in proc'[q].unlocked
    BY <1>9, ForgetMoves
  <2>3. Touch(r, w)
    BY <1>4, <1>9, <2>1, <2>2 DEF Touch
  <2>4. MakerOK(r)' /\ DoomedOK(w)'
    BY <1>1, <1>2, <1>3, <1>4, <1>9, <2>1 DEF MakerOK, DoomedOK, Live
  <2> QED
    BY <1>1, <1>2, <1>9, <2>1, <2>3, <2>4, MakerStep DEF Creating
<1> QED
  BY <1>2, <1>5, <1>8, <1>9 DEF MarkComplete

\* A step of a request that deletes a space.
LEMMA EraserStep ==
    ASSUME TypeOK, CallerInv, VaultInv, NEW r \in Reqs, req[r].pc \in Deleting,
           NEW w \in Vaults, w = req[r].v,
           Touch(r, w), ready' = ready, doomed' = doomed, complete' = complete,
           req'[r].pc \in Deleting \cup {"idle"},
           req'[r].pc \in Deleting => req'[r].v = w,
           row'[w].owner = row[w].owner,
           row'[w].st \in {"gone", row[w].st}
    PROVE  VaultInv'
<1>1. w \in doomed /\ DoomedOK(w)
  BY DEF VaultInv, EraserOK
<1>2. row[w].owner = None /\ row[w].st \in {"live", "gone"}
  BY <1>1 DEF DoomedOK
<1>3. req'[r].pc \notin Creating
  BY DEF Creating, Deleting
<1>4. Free(r, w)
  BY <1>1, <1>2, <1>3 DEF Free
<1>5. MakerOK(r)' /\ EraserOK(r)' /\ DoomedOK(w)' /\ KeptOK(w)'
  BY <1>1, <1>2, <1>3 DEF MakerOK, EraserOK, DoomedOK, KeptOK, Deleting
<1> QED
  BY <1>4, <1>5, Restored

LEMMA DeletionStep ==
    ASSUME TypeOK, CallerInv, VaultInv, NEW r \in Reqs,
           DeleteRow(r) \/ DropKey(r) \/ RemoveSpaceDir(r)
    PROVE  VaultInv'
<1>1. req[r].pc \in Deleting /\ req[r].pc # "idle"
  BY DEF DeleteRow, DropKey, RemoveSpaceDir, At, Deleting
<1>2. PICK w \in Vaults : w = req[r].v
  BY <1>1, ActiveRequest
<1>3. req[r].p \in Procs
  BY <1>1, ActiveRequest
<1>4. UNCHANGED <<complete, ready, doomed>>
  BY DEF DeleteRow, DropKey, RemoveSpaceDir, answers, vaults
<1>5. /\ \A t \in Reqs \ {r} : req'[t] = req[t]
      /\ \/ req'[r].pc = "idle"
         \/ req'[r].pc \in {"dropkey", "rmdir"} /\ req'[r].v = w
  <2>1. Return(r) \/ Goto(r, "dropkey") \/ Goto(r, "rmdir")
    BY DEF DeleteRow, DropKey, RemoveSpaceDir
  <2> QED
    BY <1>1, <1>2, <2>1, ReturnMoves, GotoMoves
<1>6. /\ \A x \in Vaults \ {w} : row'[x] = row[x]
      /\ row'[w].owner = row[w].owner /\ row'[w].st \in {"gone", row[w].st}
  <2>1. row' = row \/ DropRow(w)
    BY <1>2 DEF DeleteRow, DropKey, RemoveSpaceDir, vaults
  <2> QED
    BY <2>1, DropRowMoves
<1>7. \A x \in Vaults \ {w} : dir'[x] = dir[x]
  <2>1. dir' = dir \/ RemoveDir(w)
    BY <1>2 DEF DeleteRow, DropKey, RemoveSpaceDir, vaults
  <2> QED
    BY <2>1, RemoveDirMoves
<1>8. \A q \in Procs : /\ proc'[q].pc = proc[q].pc
                       /\ \A x \in Vaults \ {w} :
                            x \in proc[q].unlocked => x \in proc'[q].unlocked
  <2>1. proc' = proc \/ Forget(req[r].p, w)
    BY <1>2 DEF DeleteRow, DropKey, RemoveSpaceDir
  <2>2. PICK p \in Procs : p = req[r].p
    BY <1>3
  <2> QED
    BY <2>1, <2>2, ForgetMoves
<1>9. Touch(r, w)
  BY <1>4, <1>5, <1>6, <1>7, <1>8 DEF Touch
<1> QED
  BY <1>1, <1>2, <1>4, <1>5, <1>6, <1>9, EraserStep DEF Deleting

LEMMA HandleVaults ==
    ASSUME TypeOK, CallerInv, VaultInv, NEW r \in Reqs, Handle(r)
    PROVE  VaultInv'
BY InsertRowStep, MakeDirStep, UnlockVaultStep, MarkCompleteStep, UndoDirStep,
   UndoRowStep, DeletionStep DEF Handle

LEMMA StartVaults ==
    ASSUME TypeOK, CallerInv, VaultInv, NEW r \in Reqs, NEW p \in Procs, Start(r, p)
    PROVE  VaultInv'
<1>1. PICK w \in Vaults : \/ \E u \in Users : SetupLibrary(r, p, u, w)
                          \/ CreateSpace(r, p, w)
                          \/ DeleteSpace(r, p, w)
  BY DEF Start
<1>2. req[r].pc = "idle" /\ DoomedOK(w) /\ KeptOK(w)
  BY <1>1 DEF SetupLibrary, CreateSpace, DeleteSpace, At, VaultInv
<1>3. CASE (\E u \in Users : SetupLibrary(r, p, u, w)) \/ CreateSpace(r, p, w)
  <2>1. PICK u : Begin(r, "insert", p, w, u)
    BY <1>3 DEF SetupLibrary, CreateSpace
  <2>2. Mint(w) /\ UNCHANGED <<proc, dir, complete, ready, doomed>>
    BY <1>3 DEF SetupLibrary, CreateSpace, answers
  <2>3. /\ req'[r].pc = "insert" /\ req'[r].v = w
        /\ \A t \in Reqs \ {r} : req'[t] = req[t]
    <3>1. req'[r] = [pc |-> "insert", p |-> p, v |-> w, owner |-> u]
      BY <2>1 DEF Begin, TypeOK
    <3>2. \A t \in Reqs \ {r} : req'[t] = req[t]
      BY <2>1 DEF Begin, TypeOK
    <3> QED BY <3>1, <3>2
  <2>4. /\ row[w].st = "new" /\ row'[w].st = "minted"
        /\ \A x \in Vaults \ {w} : row'[x] = row[x]
    BY <2>2 DEF Mint, TypeOK, Row
  <2>5. w \notin doomed /\ w \notin ready
    BY <1>2, <2>4 DEF DoomedOK, KeptOK, Live
  <2>6. ASSUME NEW t \in Reqs \ {r}, req[t].pc \in Creating PROVE req[t].v # w
    <3>1. MakerOK(t)
      BY DEF VaultInv
    <3> QED
      BY <2>4, <2>6, <3>1 DEF MakerOK
  <2>7. Touch(r, w) /\ Free(r, w)
    BY <2>2, <2>3, <2>4, <2>5, <2>6 DEF Touch, Free
  <2>8. MakerOK(r)' /\ EraserOK(r)' /\ DoomedOK(w)' /\ KeptOK(w)'
    BY <2>2, <2>3, <2>4, <2>5 DEF MakerOK, EraserOK, DoomedOK, KeptOK, Deleting
  <2> QED
    BY <2>2, <2>7, <2>8, Restored
<1>4. CASE DeleteSpace(r, p, w)
  <2>1. /\ doomed' = doomed \cup {w} /\ Begin(r, "delrow", p, w, None)
        /\ row[w].st = "live" /\ row[w].owner = None
        /\ UNCHANGED <<proc, row, dir, complete, ready>>
    BY <1>4 DEF DeleteSpace, LibraryOf, Live, vaults
  <2>2. /\ req'[r].pc = "delrow" /\ req'[r].v = w
        /\ \A t \in Reqs \ {r} : req'[t] = req[t]
    <3>1. req'[r] = [pc |-> "delrow", p |-> p, v |-> w, owner |-> None]
      BY <2>1 DEF Begin, TypeOK
    <3>2. \A t \in Reqs \ {r} : req'[t] = req[t]
      BY <2>1 DEF Begin, TypeOK
    <3> QED BY <3>1, <3>2
  <2>3. Touch(r, w) /\ Free(r, w)
    BY <2>1, <2>2 DEF Touch, Free, Creating
  <2>4. MakerOK(r)' /\ EraserOK(r)' /\ DoomedOK(w)' /\ KeptOK(w)'
    BY <2>1, <2>2 DEF MakerOK, EraserOK, DoomedOK, KeptOK, Creating
  <2> QED
    BY <2>1, <2>3, <2>4, Restored
<1> QED
  BY <1>1, <1>3, <1>4

\* The handler returns without a rollback: what it has made stays, unpromised.
LEMMA FailVaults ==
    ASSUME TypeOK, CallerInv, VaultInv, NEW r \in Reqs, Fail(r)
    PROVE  VaultInv'
<1>1. UNCHANGED <<proc, row, dir, complete, ready, doomed>> /\ Return(r)
  BY DEF Fail, vaults, answers
<1>2. req'[r].pc = "idle" /\ \A t \in Reqs \ {r} : req'[t] = req[t]
  BY <1>1, ReturnMoves
<1>3. \A t \in Reqs : MakerOK(t)' /\ EraserOK(t)'
  BY <1>1, <1>2 DEF VaultInv, MakerOK, EraserOK, Creating, Deleting, Live
<1>4. OneMaker'
  BY <1>2 DEF VaultInv, OneMaker, Creating
<1> QED
  BY <1>1, <1>3, <1>4
     DEF VaultInv, OneServer, DoomedOK, KeptOK, CompleteOK, LibraryOf, Live

----------------------------------------------------------------------------
\* Where no request runs, it remains to keep the promised vaults.
LEMMA NobodyRuns ==
    ASSUME VaultInv, \A r \in Reqs : req'[r].pc = "idle",
           UNCHANGED <<row, dir, complete, ready, doomed>>,
           \A v \in Vaults : KeptOK(v)'
    PROVE  VaultInv'
BY DEF VaultInv, OneServer, OneMaker, MakerOK, EraserOK, DoomedOK, CompleteOK,
       LibraryOf, Live, Creating, Deleting

LEMMA BootVaults ==
    ASSUME TypeOK, CallerInv, MasterInv, VaultInv, NEW p \in Procs, Boot(p)
    PROVE  VaultInv'
<1>1. ~Serving(p) /\ req' = req
  BY BootStep
<1>2. \A q \in Procs : q = p
  BY DEF VaultInv, OneServer
<1>3. \A r \in Reqs : req'[r].pc = "idle"
  BY <1>1, <1>2, ActiveRequest DEF CallerInv
<1>4. UNCHANGED <<row, dir, complete, ready, doomed>>
  BY DEF Boot, ReadSecret, TruncateSecretFile, WriteSecretFile, LoadMaster,
     StoreMaster, ConfirmMaster, LoadLibraryKeys, LoadSpaceKeys, Launch,
     vaults, answers
<1>t. proc \in [Procs -> Proc] /\ proc[p] \in Proc
  BY DEF TypeOK
<1>5. ASSUME NEW v \in Vaults PROVE KeptOK(v)'
  <2>1. KeptOK(v)
    BY DEF VaultInv
  <2>2. SUFFICES ASSUME v \in ready, v \notin doomed
        PROVE  /\ proc'[p].pc \in {"bind", "serve"} => v \in proc'[p].unlocked
               /\ proc'[p].pc = "spaces" /\ row[v].owner # None => v \in proc'[p].unlocked
    BY <1>2, <1>4, <2>1 DEF KeptOK, Live
  <2>3. /\ Live(v)
        /\ proc[p].pc \in {"bind", "serve"} => v \in proc[p].unlocked
        /\ proc[p].pc = "spaces" /\ row[v].owner # None => v \in proc[p].unlocked
    BY <2>1, <2>2 DEF KeptOK
  <2>4. proc[p].pc \in {"libraries", "spaces"} => row[v].by = proc[p].master
    BY <2>3, Names DEF MasterInv, RowsUnwrappable
  <2>5. row[v].owner \in Users \cup {None}
    BY DEF TypeOK, Row
  <2>6. CASE LoadLibraryKeys(p)
    <3>1. PICK vs \in SUBSET Vaults :
             /\ Unlock(p, vs, "spaces")
             /\ vs = {x \in Vaults : \E u \in Users :
                        LibraryOf(u, x) /\ row[x].by = proc[p].master}
      BY <2>6 DEF LoadLibraryKeys
    <3>2. row[v].owner # None => v \in vs
      BY <2>3, <2>4, <2>5, <2>6, <3>1 DEF LoadLibraryKeys, LibraryOf
    <3>3. proc'[p].pc = "spaces" /\ proc'[p].unlocked = proc[p].unlocked \cup vs
      BY <3>1, UnlockMoves
    <3> QED
      BY <3>2, <3>3
  <2>7. CASE LoadSpaceKeys(p)
    <3>1. PICK vs \in SUBSET Vaults :
             /\ Unlock(p, vs, "bind")
             /\ vs = {x \in Vaults : LibraryOf(None, x) /\ row[x].by = proc[p].master}
      BY <2>7 DEF LoadSpaceKeys
    <3>2. row[v].owner = None => v \in vs
      BY <2>3, <2>4, <2>7, <3>1 DEF LoadSpaceKeys, LibraryOf
    <3>3. row[v].owner # None => v \in proc[p].unlocked
      BY <2>3, <2>7 DEF LoadSpaceKeys
    <3>4. proc'[p].pc = "bind" /\ proc'[p].unlocked = proc[p].unlocked \cup vs
      BY <3>1, UnlockMoves
    <3> QED
      BY <3>2, <3>3, <3>4
  <2>8. CASE Launch(p)
    <3>1. Panic(p) \/ (Step(p, "serve") /\ proc[p].pc = "bind")
      BY <2>8 DEF Launch
    <3>2. proc'[p].pc = "off" \/ (v \in proc[p].unlocked /\ proc'[p].unlocked = proc[p].unlocked)
      BY <1>t, <2>3, <3>1 DEF Panic, Step, Off, Proc
    <3> QED
      BY <2>3, <3>2
  <2>9. CASE ReadSecret(p) \/ TruncateSecretFile(p) \/ WriteSecretFile(p)
             \/ LoadMaster(p) \/ StoreMaster(p) \/ ConfirmMaster(p)
    <3>1. proc'[p].pc \notin {"spaces", "bind", "serve"}
      <4>1. CASE ReadSecret(p)
        <5>1. \E s, pc : pc \in {"load", "persist"} /\ HasSecret(p, s, pc)
          BY <4>1 DEF ReadSecret, GenerateSecret
        <5> QED
          BY <1>t, <5>1 DEF HasSecret, Off
      <4>2. CASE TruncateSecretFile(p) \/ WriteSecretFile(p) \/ StoreMaster(p)
        BY <1>t, <4>2 DEF TruncateSecretFile, WriteSecretFile, StoreMaster, Step, Proc
      <4>3. CASE LoadMaster(p)
        <5>1. \/ Panic(p)
              \/ \E pc \in {"libraries", "store"} : \E k :
                    proc' = [proc EXCEPT ![p] = [proc[p] EXCEPT !.pc = pc, !.master = k]]
          BY <4>3 DEF LoadMaster
        <5>2. CASE Panic(p)
          BY <1>t, <5>2 DEF Panic, Off
        <5>3. ASSUME NEW pc \in {"libraries", "store"}, NEW k,
                     proc' = [proc EXCEPT ![p] = [proc[p] EXCEPT !.pc = pc, !.master = k]]
              PROVE  proc'[p].pc \notin {"spaces", "bind", "serve"}
          <6>1. proc'[p] = [proc[p] EXCEPT !.pc = pc, !.master = k]
            BY <1>t, <5>3
          <6> QED
            BY <1>t, <6>1 DEF Proc
        <5> QED
          BY <5>1, <5>2, <5>3
      <4>4. CASE ConfirmMaster(p)
        BY <1>t, <4>4 DEF ConfirmMaster, Step, Panic, Off, Proc
      <4> QED
        BY <2>9, <4>1, <4>2, <4>3, <4>4
    <3> QED
      BY <3>1
  <2> QED
    BY <2>6, <2>7, <2>8, <2>9 DEF Boot
<1> QED
  BY <1>3, <1>4, <1>5, NobodyRuns

LEMMA CrashVaults ==
    ASSUME TypeOK, VaultInv, NEW p \in Procs, Crash(p)
    PROVE  VaultInv'
<1>1. \A q \in Procs : q = p
  BY DEF VaultInv, OneServer
<1>2. UNCHANGED <<row, dir, complete, ready, doomed>>
  BY DEF Crash, vaults, answers
<1>3. \A q \in Procs : proc'[q].pc = "off"
  BY <1>1 DEF Crash, Panic, Off, TypeOK
<1>4. ASSUME NEW r \in Reqs PROVE req'[r].pc = "idle"
  <2>1. req[r].pc # "idle" => req[r].p = p
    BY <1>1, ActiveRequest
  <2> QED
    BY <2>1 DEF Crash, Idle
<1>5. \A v \in Vaults : KeptOK(v)'
  BY <1>2, <1>3 DEF VaultInv, KeptOK, Live
<1> QED
  BY <1>2, <1>4, <1>5, NobodyRuns

LEMMA VaultStep ==
    TypeOK /\ CallerInv /\ MasterInv /\ VaultInv /\ [Next]_vars => VaultInv'
<1> SUFFICES ASSUME TypeOK, CallerInv, MasterInv, VaultInv, [Next]_vars PROVE VaultInv'
  OBVIOUS
<1>1. CASE UNCHANGED vars
  BY <1>1 DEF vars, vaults, answers, VaultInv, OneServer, OneMaker, MakerOK, EraserOK,
     DoomedOK, KeptOK, CompleteOK, LibraryOf, Live
<1>2. CASE Next
  BY <1>2, BootVaults, CrashVaults, StartVaults, HandleVaults, FailVaults DEF Next
<1> QED
  BY <1>1, <1>2

LEMMA VaultInit == Init /\ OneServer => VaultInv
BY DEF Init, VaultInv, OneMaker, MakerOK, EraserOK, DoomedOK, KeptOK, CompleteOK,
       Idle, Creating, Deleting

LEMMA VaultsFollow == TypeOK /\ VaultInv => VaultsServed
<1> SUFFICES ASSUME TypeOK, VaultInv PROVE VaultsServed
  OBVIOUS
<1>1. \A v \in ready \ doomed : v \in Vaults /\ KeptOK(v)
  BY DEF TypeOK, VaultInv
<1>2. ASSUME NEW u \in complete
      PROVE  \E v \in Vaults : LibraryOf(u, v) /\ v \in ready \ doomed
  <2>1. PICK v \in ready : LibraryOf(u, v)
    BY DEF VaultInv, CompleteOK
  <2>2. v \in Vaults /\ u # None
    BY KeyAssumption DEF TypeOK
  <2>3. v \notin doomed
    BY <2>1, <2>2 DEF VaultInv, DoomedOK, LibraryOf
  <2> QED
    BY <2>1, <2>2, <2>3
<1> QED
  BY <1>1, <1>2 DEF VaultsServed, KeptOK, Serving

\* For one server at a time: every finished setup has its library, every space
\* that was answered Ok and is not being deleted is there, with row and
\* directory, and whoever serves has all their keys, after any number of
\* restarts, crashes, failed calls, failed rollbacks and racing requests.
THEOREM VaultsAreServed == Spec /\ OneServer => []VaultsServed
<1>1. Init /\ OneServer => TypeOK /\ CallerInv /\ MasterInv /\ VaultInv
  BY TypeInit, CallerInit, MasterInit, VaultInit
<1>2. TypeOK /\ CallerInv /\ MasterInv /\ VaultInv /\ [Next]_vars
        => (TypeOK /\ CallerInv /\ MasterInv /\ VaultInv)'
  BY TypeStep, CallerStep, MasterStep, VaultStep
<1>3. TypeOK /\ VaultInv => VaultsServed
  BY VaultsFollow
<1> QED
  BY <1>1, <1>2, <1>3, PTL DEF Spec
=============================================================================
