------------------------ MODULE ChunkedUploadProofs ------------------------
(***************************************************************************)
(* Proofs about ChunkedUpload, for any number of sessions, request slots,  *)
(* chunks, clock ticks and mishaps.                                        *)
(***************************************************************************)
EXTENDS ChunkedUpload, TLAPS

\* Names of operations and program points.
LEMMA Names ==
    /\ {"insert", "mkdir", "open", "write", "update", "check", "create",
        "header", "read", "emit", "seal", "verify", "rmfiles", "rmdir",
        "delrow"} \subseteq ReqPcs
    /\ {"init", "receive", "complete", "cancel"} \subseteq Ops
    /\ 1 \in Idx
    /\ {0, HashCell} \subseteq Cells
    /\ Idx \subseteq Cells
BY NumAssumption DEF ReqPcs, Ops, Idx, Cells, HashCell

\* A request that is not idle carries all its fields.
LEMMA ActiveRequest ==
    ASSUME TypeOK, NEW r \in Reqs, req[r].pc # "idle"
    PROVE  req[r] \in Request
BY DEF TypeOK, Idle

\* The two ways a request slot changes keep it well typed.
LEMMA GotoType ==
    ASSUME TypeOK, NEW r \in Reqs, NEW pc \in ReqPcs, ~At(r, "idle"),
           Goto(r, pc)
    PROVE  req' \in [Reqs -> Request \cup {Idle}]
<1>1. req[r] \in Request
  BY ActiveRequest DEF At
<1> QED
  BY <1>1 DEF TypeOK, Goto, Request

LEMMA ReturnType ==
    ASSUME TypeOK, NEW r \in Reqs, Return(r)
    PROVE  req' \in [Reqs -> Request \cup {Idle}]
BY DEF TypeOK, Return

\* Ink written by an active request is well typed, and lands in its target.
LEMMA WriteCellType ==
    ASSUME TypeOK, NEW r \in Reqs, ~At(r, "idle"), NEW c \in Cells,
           WriteCell(r, c)
    PROVE  dest' \in [Paths -> [Cells -> Ink \cup {Hole}]]
<1>1. req[r] \in Request
  BY ActiveRequest DEF At
<1>2. [by |-> r, u |-> req[r].u, whole |-> ~req[r].short] \in Ink
  BY <1>1 DEF Request, Ink
<1> QED
  BY <1>1, <1>2, TargetAssumption DEF TypeOK, WriteCell, Request

\* A row or a request with one field replaced by a value of the field's type.
LEMMA RowStType ==
    ASSUME TypeOK, NEW u \in Uploads, NEW st \in {"new", "minted", "live", "gone"}
    PROVE  [row EXCEPT ![u].st = st] \in [Uploads -> Row]
<1>1. [row[u] EXCEPT !.st = st] \in Row
  BY DEF TypeOK, Row
<1> QED
  BY <1>1 DEF TypeOK

LEMMA DropRowType ==
    ASSUME TypeOK, NEW u \in Uploads, DropRow(u)
    PROVE  row' \in [Uploads -> Row]
<1>1. row[u].st \in {"new", "minted", "live", "gone"}
  BY DEF TypeOK, Row
<1> QED
  BY <1>1, RowStType DEF DropRow

LEMMA NewRequestType ==
    ASSUME TypeOK, NEW r \in Reqs, NEW op \in Ops, NEW pc \in ReqPcs,
           NEW u \in Uploads, NEW i \in Idx,
           req' = [req EXCEPT ![r] = NewRequest(op, pc, u, i)]
    PROVE  req' \in [Reqs -> Request \cup {Idle}]
<1>1. NewRequest(op, pc, u, i) \in Request
  BY NumAssumption DEF NewRequest, Request
<1> QED
  BY <1>1 DEF TypeOK

LEMMA GotoChunkType ==
    ASSUME TypeOK, NEW r \in Reqs, ~At(r, "idle"), NEW pc \in ReqPcs,
           NEW k \in Idx, GotoChunk(r, pc, k)
    PROVE  req' \in [Reqs -> Request \cup {Idle}]
<1>1. req[r] \in Request
  BY ActiveRequest DEF At
<1>2. [req[r] EXCEPT !.pc = pc, !.k = k] \in Request
  BY <1>1 DEF Request
<1> QED
  BY <1>2 DEF TypeOK, GotoChunk

\* One chunk file replaced.
LEMMA ChunkType ==
    ASSUME TypeOK, NEW u \in Uploads, NEW i \in Idx, NEW f \in ChunkFile
    PROVE  [chunk EXCEPT ![u][i] = f] \in [Uploads -> [Idx -> ChunkFile]]
BY DEF TypeOK

LEMMA UnlinkType ==
    ASSUME TypeOK, NEW u \in Uploads, NEW i \in Idx, Unlink(u, i)
    PROVE  chunk' \in [Uploads -> [Idx -> ChunkFile]]
<1>1. "none" \in ChunkFile
  BY DEF ChunkFile
<1> QED
  BY <1>1 DEF TypeOK, Unlink

LEMMA UnlinkFacts ==
    ASSUME TypeOK, NEW v \in Uploads, NEW j \in Idx, Unlink(v, j)
    PROVE  \A u \in Uploads, i \in Idx :
              \/ chunk'[u][i] = chunk[u][i]
              \/ u = v /\ chunk'[u][i] = "none"
BY DEF Unlink, TypeOK

\* Every step of the specification keeps the variables well typed.
LEMMA TypeStep == TypeOK /\ [Next]_vars => TypeOK'
<1> SUFFICES ASSUME TypeOK, [Next]_vars PROVE TypeOK'
  OBVIOUS
<1>1. ASSUME NEW r \in Reqs, NEW u \in Uploads, InitUpload(r, u)
      PROVE  TypeOK'
  <2>1. [st |-> "minted", exp |-> now + Expiry] \in Row
    BY NumAssumption DEF TypeOK, Row
  <2>2. row' \in [Uploads -> Row]
    BY <1>1, <2>1 DEF TypeOK, InitUpload
  <2>3. req' \in [Reqs -> Request \cup {Idle}]
    BY <1>1, NewRequestType, Names DEF InitUpload
  <2> QED
    BY <1>1, <2>2, <2>3 DEF TypeOK, InitUpload, server, promises
<1>2. ASSUME NEW r \in Reqs, NEW u \in Uploads, NEW i \in Idx,
             ReceiveChunk(r, u, i)
      PROVE  TypeOK'
  <2>1. req' \in [Reqs -> Request \cup {Idle}]
    BY <1>2, NewRequestType, Names DEF ReceiveChunk
  <2> QED
    BY <1>2, <2>1 DEF TypeOK, ReceiveChunk, server, promises
<1>3. ASSUME NEW r \in Reqs, NEW u \in Uploads, CompleteUpload(r, u)
      PROVE  TypeOK'
  <2>1. req' \in [Reqs -> Request \cup {Idle}]
    BY <1>3, NewRequestType, Names DEF CompleteUpload
  <2> QED
    BY <1>3, <2>1 DEF TypeOK, CompleteUpload, server, promises
<1>4. ASSUME NEW r \in Reqs, NEW u \in Uploads, CancelUpload(r, u)
      PROVE  TypeOK'
  <2>1. req' \in [Reqs -> Request \cup {Idle}]
    BY <1>4, NewRequestType, Names DEF CancelUpload
  <2> QED
    BY <1>4, <2>1 DEF TypeOK, CancelUpload, server, promises
<1>5. ASSUME NEW r \in Reqs, Handle(r)
      PROVE  TypeOK'
  <2>0. ~At(r, "idle")
    BY <1>5 DEF Handle, At, InsertRow, EnsureStaging, OpenChunk, WriteChunk,
       UpdateReceived, CheckChunk, CreateDest, WriteHeader,
       ReadChunk, WriteSegment, SealDest, VerifyDest, RemoveChunks,
       RemoveStaging, DeleteRow
  <2>t. /\ req[r] \in Request
        /\ req[r].u \in Uploads
        /\ req[r].k \in Idx
        /\ req[r].op \in Ops
        /\ req[r].short \in BOOLEAN
    BY <2>0, ActiveRequest DEF At, Request
  <2>1. CASE InsertRow(r)
    <3>1. row' \in [Uploads -> Row]
      BY <2>1, <2>t, RowStType DEF InsertRow
    <3> QED
      BY <2>1, <3>1, ReturnType DEF TypeOK, InsertRow, server, promises
  <2>2. CASE EnsureStaging(r)
    <3>1. req' \in [Reqs -> Request \cup {Idle}]
      BY <2>0, <2>2, GotoType, Names DEF EnsureStaging
    <3> QED
      BY <2>2, <2>t, <3>1 DEF TypeOK, EnsureStaging, server, promises
  <2>3. CASE OpenChunk(r)
    <3>1. req' \in [Reqs -> Request \cup {Idle}]
      BY <2>0, <2>3, GotoType, ReturnType, Names DEF OpenChunk
    <3>2. chunk' \in [Uploads -> [Idx -> ChunkFile]]
      <4>1. r \in ChunkFile
        BY DEF ChunkFile
      <4>2. \/ chunk' = chunk
            \/ chunk' = [chunk EXCEPT ![req[r].u][req[r].k] = r]
        BY <2>3 DEF OpenChunk
      <4>3. chunk \in [Uploads -> [Idx -> ChunkFile]]
        BY DEF TypeOK
      <4> QED
        BY <2>t, <4>1, <4>2, <4>3
    <3> QED
      BY <2>3, <3>1, <3>2 DEF TypeOK, OpenChunk, server, promises
  <2>4. CASE WriteChunk(r)
    <3>1. req' \in [Reqs -> Request \cup {Idle}]
      BY <2>0, <2>4, GotoType, Names DEF WriteChunk
    <3>2. chunk' \in [Uploads -> [Idx -> ChunkFile]]
      <4>1. "full" \in ChunkFile
        BY DEF ChunkFile
      <4> QED
        BY <2>4, <2>t, <4>1, ChunkType DEF WriteChunk, TypeOK
    <3> QED
      BY <2>4, <3>1, <3>2 DEF TypeOK, WriteChunk, server, promises
  <2>6. CASE UpdateReceived(r)
    <3>1. acked' \in [Uploads -> SUBSET Idx]
      BY <2>6, <2>t DEF UpdateReceived, TypeOK
    <3>2. req' \in [Reqs -> Request \cup {Idle}]
      BY <2>6, ReturnType DEF UpdateReceived
    <3> QED
      BY <2>6, <3>1, <3>2 DEF TypeOK, UpdateReceived, server
  <2>7. CASE CheckChunk(r)
    <3>1. req' \in [Reqs -> Request \cup {Idle}]
      <4>1. CASE chunk[req[r].u][req[r].k] = "none"
        BY <2>7, <4>1, ReturnType DEF CheckChunk
      <4>2. CASE /\ chunk[req[r].u][req[r].k] # "none"
                 /\ req[r].k < NumChunks
        <5>1. req[r].k + 1 \in Idx
          BY <2>t, <4>2, NumAssumption DEF Idx
        <5>2. GotoChunk(r, "check", req[r].k + 1)
          BY <2>7, <4>2 DEF CheckChunk
        <5> QED
          BY <2>0, <5>1, <5>2, GotoChunkType, Names
      <4>3. CASE /\ chunk[req[r].u][req[r].k] # "none"
                 /\ ~(req[r].k < NumChunks)
        <5>1. Goto(r, "create")
          BY <2>7, <4>3 DEF CheckChunk
        <5> QED
          BY <2>0, <5>1, GotoType, Names
      <4> QED
        BY <4>1, <4>2, <4>3
    <3> QED
      BY <2>7, <3>1 DEF TypeOK, CheckChunk, server, promises
  <2>8. CASE CreateDest(r)
    <3>1. req' \in [Reqs -> Request \cup {Idle}]
      BY <2>0, <2>8, GotoType, Names DEF CreateDest
    <3>2. dest' \in [Paths -> [Cells -> Ink \cup {Hole}]]
      BY <2>8, <2>t, TargetAssumption DEF TypeOK, CreateDest, NoFile
    <3> QED
      BY <2>8, <3>1, <3>2 DEF TypeOK, CreateDest, server, promises
  <2>9. CASE WriteHeader(r)
    <3>1. dest' \in [Paths -> [Cells -> Ink \cup {Hole}]]
      BY <2>0, <2>9, WriteCellType, Names DEF WriteHeader
    <3>2. req' \in [Reqs -> Request \cup {Idle}]
      BY <2>0, <2>9, GotoChunkType, Names DEF WriteHeader
    <3> QED
      BY <2>9, <3>1, <3>2 DEF TypeOK, WriteHeader, server, promises
  <2>10. CASE ReadChunk(r)
    <3>1. CASE chunk[req[r].u][req[r].k] = "none"
      BY <2>10, <3>1, ReturnType DEF TypeOK, ReadChunk, server, promises
    <3>2. CASE chunk[req[r].u][req[r].k] # "none"
      <4> DEFINE s == [req[r] EXCEPT !.pc = "emit",
                        !.short = req[r].short
                                    \/ chunk[req[r].u][req[r].k] # "full"]
      <4>1. s \in Request
        BY <2>t DEF Request, ReqPcs
      <4>2. req' = [req EXCEPT ![r] = s]
        BY <2>10, <3>2 DEF ReadChunk
      <4>3. req' \in [Reqs -> Request \cup {Idle}]
        BY <4>1, <4>2 DEF TypeOK
      <4> QED
        BY <2>10, <4>3 DEF TypeOK, ReadChunk, server, promises
    <3> QED
      BY <3>1, <3>2
  <2>11. CASE WriteSegment(r)
    <3>1. dest' \in [Paths -> [Cells -> Ink \cup {Hole}]]
      BY <2>0, <2>t, <2>11, WriteCellType, Names DEF WriteSegment
    <3>2. req' \in [Reqs -> Request \cup {Idle}]
      <4>1. CASE req[r].k < NumChunks
        <5>1. req[r].k + 1 \in Idx
          BY <2>t, <4>1, NumAssumption DEF Idx
        <5> QED
          BY <2>0, <2>11, <4>1, <5>1, GotoChunkType, Names DEF WriteSegment
      <4>2. CASE ~(req[r].k < NumChunks)
        BY <2>0, <2>11, <4>2, GotoType, Names DEF WriteSegment
      <4> QED
        BY <4>1, <4>2
    <3> QED
      BY <2>11, <3>1, <3>2 DEF TypeOK, WriteSegment, server, promises
  <2>12. CASE SealDest(r)
    <3>1. CASE req[r].short
      BY <2>12, <3>1, ReturnType DEF TypeOK, SealDest, server
    <3>2. CASE ~req[r].short
      <4>1. dest' \in [Paths -> [Cells -> Ink \cup {Hole}]]
        BY <2>0, <2>12, <3>2, WriteCellType, Names DEF SealDest
      <4>2. req' \in [Reqs -> Request \cup {Idle}]
        BY <2>0, <2>12, <3>2, GotoType, Names DEF SealDest
      <4> QED
        BY <2>t, <2>12, <3>2, <4>1, <4>2 DEF TypeOK, SealDest, server
    <3> QED
      BY <3>1, <3>2
  <2>13. CASE VerifyDest(r)
    <3>1. req' \in [Reqs -> Request \cup {Idle}]
      BY <2>0, <2>13, GotoType, ReturnType, Names DEF VerifyDest
    <3> QED
      BY <2>13, <3>1 DEF TypeOK, VerifyDest, server, promises
  <2>14. CASE RemoveChunks(r)
    <3>1. req' \in [Reqs -> Request \cup {Idle}]
      BY <2>0, <2>14, GotoType, Names DEF RemoveChunks, TypeOK
    <3>2. chunk' \in [Uploads -> [Idx -> ChunkFile]]
      BY <2>14, <2>t, UnlinkType DEF RemoveChunks, TypeOK
    <3> QED
      BY <2>14, <3>1, <3>2 DEF TypeOK, RemoveChunks, Mishap, promises
  <2>15. CASE RemoveStaging(r)
    <3>1. req' \in [Reqs -> Request \cup {Idle}]
      BY <2>0, <2>15, GotoType, Names DEF RemoveStaging
    <3> QED
      BY <2>15, <2>t, <3>1 DEF TypeOK, RemoveStaging, RemoveDir, server, promises
  <2>16. CASE DeleteRow(r)
    <3>1. req' \in [Reqs -> Request \cup {Idle}]
      BY <2>16, ReturnType DEF DeleteRow
    <3>2. row' \in [Uploads -> Row]
      BY <2>16, <2>t, DropRowType DEF DeleteRow, TypeOK
    <3>3. mishaps' \in Nat
      BY <2>16 DEF DeleteRow, Mishap, TypeOK
    <3> QED
      BY <2>16, <2>t, <3>1, <3>2, <3>3 DEF TypeOK, DeleteRow
  <2> QED
    BY <1>5, <2>1, <2>2, <2>3, <2>4, <2>6, <2>7, <2>8, <2>9, <2>10,
       <2>11, <2>12, <2>13, <2>14, <2>15, <2>16 DEF Handle
<1>6. ASSUME NEW r \in Reqs, Fail(r)
      PROVE  TypeOK'
  BY <1>6, ReturnType DEF TypeOK, Fail, Mishap, promises
<1>7. CASE SelectExpired
  <2>1. mishaps' \in Nat
    BY <1>7 DEF SelectExpired, Mishap, TypeOK
  <2>2. \E todo \in SUBSET Uploads : Proceed(todo)
    BY <1>7 DEF SelectExpired, Overdue
  <2> QED
    BY <1>7, <2>1, <2>2 DEF TypeOK, SelectExpired, Proceed, Cleaner, CleanerIdle,
       promises
<1>8. ASSUME NEW u \in Uploads, CleanSession(u)
      PROVE  TypeOK'
  BY <1>8 DEF CleanSession, TypeOK, Cleaner, server, promises
<1>15. CASE CleanChunks
  <2>1. chunk' \in [Uploads -> [Idx -> ChunkFile]]
    BY <1>15, UnlinkType DEF CleanChunks, TypeOK
  <2>2. cleaner' \in Cleaner /\ cleaner'.u \in Uploads
    BY <1>15 DEF CleanChunks, TypeOK, Cleaner
  <2>3. mishaps' \in Nat
    BY <1>15 DEF CleanChunks, TypeOK, Mishap
  <2> QED
    BY <1>15, <2>1, <2>2, <2>3 DEF TypeOK, CleanChunks, promises
<1>9. CASE CleanStaging
  BY <1>9 DEF TypeOK, CleanStaging, RemoveDir, Cleaner, server, promises
<1>10. CASE CleanRow
  <2>1. row' \in [Uploads -> Row]
    BY <1>10, DropRowType DEF CleanRow, TypeOK
  <2>2. /\ cleaner' \in Cleaner
        /\ cleaner'.pc \notin {"unlink", "rmdir", "row"}
        /\ phase' \in {"down", "boot", "run"}
    BY <1>10 DEF CleanRow, Proceed, TypeOK, Cleaner, CleanerIdle
  <2>3. mishaps' \in Nat
    BY <1>10 DEF CleanRow, TypeOK, Mishap
  <2> QED
    BY <1>10, <2>1, <2>2, <2>3 DEF TypeOK, CleanRow, promises
<1>11. CASE Tick
  BY <1>11 DEF TypeOK, Tick, promises
<1>12. CASE Crash
  BY <1>12 DEF TypeOK, Crash, Mishap, Cleaner, CleanerIdle, promises
<1>13. CASE Restart
  BY <1>13 DEF TypeOK, Restart, promises
<1>14. CASE UNCHANGED vars
  BY <1>14 DEF TypeOK, vars, server, promises
<1> QED
  BY <1>1, <1>2, <1>3, <1>4, <1>5, <1>6, <1>7, <1>8, <1>9, <1>10, <1>11,
     <1>12, <1>13, <1>14, <1>15 DEF Next, Start, Clean

LEMMA TypeInit == Init => TypeOK
BY NumAssumption DEF Init, TypeOK, Row, NoChunks, NoFile, ChunkFile,
   CleanerIdle, Cleaner

\* The variables of the chunked upload service always have their types.
THEOREM TypeCorrect == Spec => []TypeOK
BY TypeInit, TypeStep, PTL DEF Spec

----------------------------------------------------------------------------
(* Sealed files are whole.  While a request streams into a file, every cell *)
(* it has written there since it truncated the file is whole unless it has  *)
(* met a short chunk, and the hash is not yet its own.                      *)

Streaming == {"header", "read", "emit", "seal"}

WriterInv ==
    \A r \in Reqs : req[r].pc \in Streaming =>
       \A c \in Cells :
          LET f == dest[Target[req[r].u]] IN
          f[c] # Hole /\ f[c].by = r =>
             c # HashCell /\ (f[c].whole \/ req[r].short)

HashInv ==
    \A p \in Paths : dest[p][HashCell] # Hole =>
       \A c \in Cells :
          dest[p][c] # Hole /\ dest[p][c].by = dest[p][HashCell].by =>
             dest[p][c].whole

InkInv == WriterInv /\ HashInv

\* What the ways of moving a request leave alone.
LEMMA GotoFacts ==
    ASSUME TypeOK, NEW r \in Reqs, ~At(r, "idle"), NEW pc, Goto(r, pc)
    PROVE  /\ req'[r].pc = pc /\ req'[r].u = req[r].u /\ req'[r].k = req[r].k
           /\ req'[r].op = req[r].op /\ req'[r].short = req[r].short
           /\ \A q \in Reqs \ {r} : req'[q] = req[q]
<1>1. req[r] \in Request
  BY ActiveRequest DEF At
<1> QED
  BY <1>1 DEF Goto, TypeOK, Request

LEMMA GotoChunkFacts ==
    ASSUME TypeOK, NEW r \in Reqs, ~At(r, "idle"), NEW pc, NEW k,
           GotoChunk(r, pc, k)
    PROVE  /\ req'[r].pc = pc /\ req'[r].u = req[r].u /\ req'[r].k = k
           /\ req'[r].op = req[r].op /\ req'[r].short = req[r].short
           /\ \A q \in Reqs \ {r} : req'[q] = req[q]
<1>1. req[r] \in Request
  BY ActiveRequest DEF At
<1> QED
  BY <1>1 DEF GotoChunk, TypeOK, Request

LEMMA ReturnFacts ==
    ASSUME TypeOK, NEW r \in Reqs, Return(r)
    PROVE  /\ req'[r].pc = "idle"
           /\ \A q \in Reqs \ {r} : req'[q] = req[q]
BY DEF Return, TypeOK, Idle

LEMMA ReadChunkFacts ==
    ASSUME TypeOK, NEW r \in Reqs, ReadChunk(r), ~Return(r)
    PROVE  /\ req'[r].pc = "emit" /\ req'[r].u = req[r].u
           /\ req'[r].op = req[r].op
           /\ req[r].short => req'[r].short
           /\ \A q \in Reqs \ {r} : req'[q] = req[q]
<1> DEFINE s == [req[r] EXCEPT !.pc = "emit",
                   !.short = req[r].short \/ chunk[req[r].u][req[r].k] # "full"]
<1>1. req' = [req EXCEPT ![r] = s]
  BY DEF ReadChunk
<1>2. req \in [Reqs -> Request \cup {Idle}] /\ req[r] \in Request
  BY ActiveRequest DEF TypeOK, ReadChunk, At
<1>3. req'[r] = s
  BY <1>1, <1>2
<1> QED
  BY <1>1, <1>2, <1>3 DEF Request

\* A step that writes no file and starts no streaming.
LEMMA InkFrame ==
    ASSUME InkInv, dest' = dest,
           \A q \in Reqs : req'[q].pc \in Streaming => req'[q] = req[q]
    PROVE  InkInv'
BY DEF InkInv, WriterInv, HashInv

\* What a write through a request's own handle does to the files.
LEMMA WriteCellFacts ==
    ASSUME TypeOK, NEW r \in Reqs, ~At(r, "idle"), NEW c \in Cells,
           WriteCell(r, c)
    PROVE  /\ Target[req[r].u] \in Paths
           /\ dest'[Target[req[r].u]][c].by = r
           /\ dest'[Target[req[r].u]][c].whole <=> ~req[r].short
           /\ \A d \in Cells \ {c} :
                 dest'[Target[req[r].u]][d] = dest[Target[req[r].u]][d]
           /\ \A q \in Paths \ {Target[req[r].u]} : dest'[q] = dest[q]
<1>1. req[r] \in Request
  BY ActiveRequest DEF At
<1> QED
  BY <1>1, TargetAssumption DEF WriteCell, TypeOK, Request

\* A streaming request writes one of its cells below the hash.
LEMMA InkWrite ==
    ASSUME TypeOK, InkInv, NEW r \in Reqs, req[r].pc \in Streaming,
           NEW c \in Cells \ {HashCell}, WriteCell(r, c),
           req'[r].u = req[r].u, req'[r].short = req[r].short,
           \A q \in Reqs \ {r} : req'[q] = req[q]
    PROVE  InkInv'
<1> DEFINE p == Target[req[r].u]
<1>0. ~At(r, "idle")
  BY DEF At, Streaming
<1>1. /\ p \in Paths
      /\ dest'[p][c].by = r
      /\ dest'[p][c].whole <=> ~req[r].short
      /\ \A d \in Cells \ {c} : dest'[p][d] = dest[p][d]
      /\ \A q \in Paths \ {p} : dest'[q] = dest[q]
  BY <1>0, WriteCellFacts
<1>2. HashCell \in Cells
  BY Names
<1>3. \A q \in Reqs : req[q].pc \in Streaming => Target[req[q].u] \in Paths
  BY ActiveRequest, TargetAssumption DEF Streaming, Request
<1>4. req[r].short \in BOOLEAN
  BY <1>0, ActiveRequest DEF At, Request
<1>5. WriterInv'
  <2> SUFFICES ASSUME NEW q \in Reqs, req'[q].pc \in Streaming, NEW d \in Cells,
                      dest'[Target[req'[q].u]][d] # Hole,
                      dest'[Target[req'[q].u]][d].by = q
               PROVE  d # HashCell /\
                      (dest'[Target[req'[q].u]][d].whole \/ req'[q].short)
    BY DEF WriterInv
  <2>1. CASE q = r
    BY <1>1, <1>4, <2>1 DEF InkInv, WriterInv
  <2>2. CASE q # r
    <3>1. req'[q] = req[q]
      BY <2>2
    <3>2. ~(Target[req[q].u] = p /\ d = c)
      BY <1>1, <2>2, <3>1
    <3>3. dest'[Target[req[q].u]][d] = dest[Target[req[q].u]][d]
      BY <1>1, <1>3, <3>1, <3>2
    <3> QED
      BY <3>1, <3>3 DEF InkInv, WriterInv
  <2> QED
    BY <2>1, <2>2
<1>6. HashInv'
  <2> SUFFICES ASSUME NEW q \in Paths, dest'[q][HashCell] # Hole, NEW d \in Cells,
                      dest'[q][d] # Hole,
                      dest'[q][d].by = dest'[q][HashCell].by
               PROVE  dest'[q][d].whole
    BY DEF HashInv
  <2>1. CASE q # p
    BY <1>1, <2>1 DEF InkInv, HashInv
  <2>2. CASE q = p
    <3>1. dest'[q][HashCell] = dest[q][HashCell]
      BY <1>1, <1>2, <2>2
    <3>2. dest[p][HashCell].by # r
      BY <1>2, <2>2, <3>1 DEF InkInv, WriterInv
    <3>3. d # c
      BY <1>1, <2>2, <3>1, <3>2
    <3> QED
      BY <1>1, <2>2, <3>1, <3>3 DEF InkInv, HashInv
  <2> QED
    BY <2>1, <2>2
<1> QED
  BY <1>5, <1>6 DEF InkInv

LEMMA InkStep == TypeOK /\ InkInv /\ [Next]_vars => InkInv'
<1> SUFFICES ASSUME TypeOK, InkInv, [Next]_vars PROVE InkInv'
  OBVIOUS
<1>1. ASSUME NEW r \in Reqs, Start(r) PROVE InkInv'
  <2>1. PICK u \in Uploads : \/ InitUpload(r, u)
                             \/ \E i \in Idx : ReceiveChunk(r, u, i)
                             \/ CompleteUpload(r, u)
                             \/ CancelUpload(r, u)
    BY <1>1 DEF Start
  <2>2. PICK op, pc, i : /\ pc \notin Streaming
                         /\ req' = [req EXCEPT ![r] = NewRequest(op, pc, u, i)]
    BY <2>1 DEF InitUpload, ReceiveChunk, CompleteUpload, CancelUpload, Streaming
  <2>3. dest' = dest
    BY <2>1 DEF InitUpload, ReceiveChunk, CompleteUpload, CancelUpload
  <2>4. \A q \in Reqs : req'[q].pc \in Streaming => req'[q] = req[q]
    <3>1. /\ req'[r].pc = pc
          /\ \A q \in Reqs \ {r} : req'[q] = req[q]
      BY <2>2 DEF NewRequest, TypeOK
    <3> QED
      BY <2>2, <3>1
  <2> QED
    BY <2>3, <2>4, InkFrame
<1>2. ASSUME NEW r \in Reqs, Handle(r) PROVE InkInv'
  <2>0. ~At(r, "idle")
    BY <1>2 DEF Handle, At, InsertRow, EnsureStaging, OpenChunk, WriteChunk,
       UpdateReceived, CheckChunk, CreateDest, WriteHeader,
       ReadChunk, WriteSegment, SealDest, VerifyDest, RemoveChunks,
       RemoveStaging, DeleteRow
  <2>t. req[r] \in Request /\ req[r].k \in Idx /\ req[r].u \in Uploads
    BY <2>0, ActiveRequest DEF At, Request
  <2>1. CASE InsertRow(r) \/ UpdateReceived(r) \/ DeleteRow(r)
    BY <2>1, ReturnFacts, InkFrame
       DEF InsertRow, UpdateReceived, DeleteRow, Streaming
  <2>2. CASE EnsureStaging(r) \/ WriteChunk(r) \/ RemoveStaging(r)
             \/ (RemoveChunks(r) /\ req' # req)
    <3>1. dest' = dest /\ \E pc : pc \notin Streaming /\ Goto(r, pc)
      BY <2>2 DEF EnsureStaging, WriteChunk, RemoveStaging, RemoveChunks,
         Streaming
    <3> QED
      BY <2>0, <3>1, GotoFacts, InkFrame
  <2>3. CASE OpenChunk(r) \/ VerifyDest(r)
    <3>1. dest' = dest
      BY <2>3 DEF OpenChunk, VerifyDest
    <3>2. Return(r) \/ \E pc : pc \notin Streaming /\ Goto(r, pc)
      BY <2>3 DEF OpenChunk, VerifyDest, Streaming
    <3>3. \A q \in Reqs : req'[q].pc \in Streaming => req'[q] = req[q]
      BY <2>0, <3>2, GotoFacts, ReturnFacts DEF Streaming
    <3> QED
      BY <3>1, <3>3, InkFrame
  <2>4. CASE RemoveChunks(r) /\ req' = req
    BY <2>4, InkFrame DEF RemoveChunks
  <2>5. CASE CheckChunk(r)
    <3>1. \/ Return(r) \/ Goto(r, "create")
          \/ GotoChunk(r, "check", req[r].k + 1)
      BY <2>5 DEF CheckChunk
    <3>2. \A q \in Reqs : req'[q].pc \in Streaming => req'[q] = req[q]
      BY <2>0, <3>1, GotoFacts, GotoChunkFacts, ReturnFacts DEF Streaming
    <3> QED
      BY <2>5, <3>2, InkFrame DEF CheckChunk
  <2>6. CASE CreateDest(r)
    <3>1. /\ req'[r].u = req[r].u
          /\ \A q \in Reqs \ {r} : req'[q] = req[q]
      BY <2>0, <2>6, GotoFacts DEF CreateDest
    <3>2. \A q \in Paths : \A c \in Cells :
             dest'[q][c] # Hole => q # Target[req[r].u] /\ dest'[q] = dest[q]
      BY <2>6, <2>t, TargetAssumption DEF CreateDest, NoFile, TypeOK
    <3>3. Target[req[r].u] \in Paths
      BY <2>t, TargetAssumption
    <3>4. \A q \in Reqs : req[q].pc \in Streaming => Target[req[q].u] \in Paths
      BY ActiveRequest, TargetAssumption DEF Streaming, Request
    <3>5. WriterInv'
      BY <3>1, <3>2, <3>3, <3>4 DEF InkInv, WriterInv
    <3>6. HashInv'
      BY <3>2, Names DEF InkInv, HashInv
    <3> QED
      BY <3>5, <3>6 DEF InkInv
  <2>7. CASE WriteHeader(r)
    <3>1. 0 \in Cells \ {HashCell}
      BY Names, NumAssumption DEF HashCell
    <3> QED
      BY <2>0, <2>7, <3>1, GotoChunkFacts, InkWrite DEF WriteHeader, At, Streaming
  <2>8. CASE ReadChunk(r)
    <3>1. CASE Return(r)
      BY <2>8, <3>1, ReturnFacts, InkFrame DEF ReadChunk, Streaming
    <3>2. CASE ~Return(r)
      <4>1. /\ dest' = dest
            /\ req'[r].u = req[r].u
            /\ req[r].short => req'[r].short
            /\ \A q \in Reqs \ {r} : req'[q] = req[q]
        BY <2>8, <3>2, ReadChunkFacts DEF ReadChunk
      <4>2. req[r].pc \in Streaming
        BY <2>8 DEF ReadChunk, At, Streaming
      <4> QED
        BY <4>1, <4>2 DEF InkInv, WriterInv, HashInv
    <3> QED
      BY <3>1, <3>2
  <2>9. CASE WriteSegment(r)
    <3>1. req[r].k \in Cells \ {HashCell}
      BY <2>t, Names, NumAssumption DEF HashCell, Idx
    <3>2. \/ Goto(r, "seal")
          \/ GotoChunk(r, "read", req[r].k + 1)
      BY <2>9 DEF WriteSegment
    <3>3. /\ req'[r].u = req[r].u /\ req'[r].short = req[r].short
          /\ \A q \in Reqs \ {r} : req'[q] = req[q]
      BY <2>0, <3>2, GotoFacts, GotoChunkFacts
    <3> QED
      BY <2>9, <3>1, <3>3, InkWrite DEF WriteSegment, At, Streaming
  <2>10. CASE SealDest(r)
    <3>1. CASE req[r].short
      BY <2>10, <3>1, ReturnFacts, InkFrame DEF SealDest, Streaming
    <3>2. CASE ~req[r].short
      <4> DEFINE p == Target[req[r].u]
      <4>1. /\ p \in Paths
            /\ dest'[p][HashCell].by = r
            /\ dest'[p][HashCell].whole
            /\ \A d \in Cells \ {HashCell} : dest'[p][d] = dest[p][d]
            /\ \A q \in Paths \ {p} : dest'[q] = dest[q]
        BY <2>0, <2>10, <3>2, Names, WriteCellFacts DEF SealDest
      <4>2. /\ req'[r].pc \notin Streaming
            /\ \A q \in Reqs \ {r} : req'[q] = req[q]
        BY <2>0, <2>10, <3>2, GotoFacts DEF SealDest, Streaming
      <4>3. \A q \in Reqs : req[q].pc \in Streaming => Target[req[q].u] \in Paths
        BY ActiveRequest, TargetAssumption DEF Streaming, Request
      <4>4. req[r].pc \in Streaming
        BY <2>10 DEF SealDest, At, Streaming
      <4>5. WriterInv'
        BY <4>1, <4>2, <4>3, SMTT(30) DEF InkInv, WriterInv
      <4>6. \A d \in Cells : dest[p][d] # Hole /\ dest[p][d].by = r
                               => dest[p][d].whole
        BY <3>2, <4>4 DEF InkInv, WriterInv
      <4>7. HashInv'
        BY <4>1, <4>6 DEF InkInv, HashInv
      <4> QED
        BY <4>5, <4>7 DEF InkInv
    <3> QED
      BY <3>1, <3>2
  <2> QED
    BY <1>2, <2>1, <2>2, <2>3, <2>4, <2>5, <2>6, <2>7, <2>8, <2>9, <2>10
       DEF Handle
<1>3. ASSUME NEW r \in Reqs, Fail(r) PROVE InkInv'
  BY <1>3, ReturnFacts, InkFrame DEF Fail, Streaming
<1>4. CASE Clean \/ Tick \/ Restart \/ UNCHANGED vars
  BY <1>4, InkFrame DEF Clean, SelectExpired, CleanSession, CleanChunks, CleanStaging, CleanRow,
     Tick, Restart, vars
<1>5. CASE Crash
  BY <1>5, InkFrame DEF Crash, Idle, Streaming
<1> QED
  BY <1>1, <1>2, <1>3, <1>4, <1>5 DEF Next

LEMMA InkInit == Init => InkInv
BY TypeInit, Names DEF Init, InkInv, WriterInv, HashInv, NoFile, Idle, Streaming

\* A stored file whose hash matches was assembled from complete chunks, however
\* many requests, sessions, crashes and failed calls there were.
THEOREM SealedFilesAreWhole == Spec => []SealedIsWhole
<1>1. TypeOK /\ InkInv => SealedIsWhole
  BY Names DEF InkInv, HashInv, SealedIsWhole, HashOk
<1> QED
  BY <1>1, TypeInit, TypeStep, InkInit, InkStep, PTL DEF Spec

----------------------------------------------------------------------------
(* Acknowledged chunks are kept.  Whoever removes a chunk file or a row is  *)
(* a complete that has sealed its file, a cancel, or the cleaner on an      *)
(* expired session; and none of these three excuses can be taken back.      *)

Excused(u) == u \in sealed \/ u \in cancelled \/ Expired(u)

Assembling == {"check", "create", "header", "read", "emit", "seal", "verify"}
Removing == {"rmfiles", "rmdir", "delrow"}

ReqOk(r) ==
    req[r].pc # "idle" =>
       /\ row[req[r].u].st # "new"
       /\ req[r].pc \in Assembling => req[r].op = "complete"
       /\ req[r].pc = "verify" => req[r].u \in sealed
       /\ req[r].pc \in Removing =>
             \/ req[r].op = "complete" /\ req[r].u \in sealed
             \/ req[r].op = "cancel" /\ req[r].u \in cancelled

CleanOk ==
    /\ \A u \in cleaner.todo : row[u].st # "new" /\ row[u].exp < now
    /\ cleaner.pc \in {"unlink", "rmdir", "row"} => cleaner.u \in cleaner.todo

NewOk == \A u \in Uploads : row[u].st = "new" => acked[u] = {}

SessionInv == (\A r \in Reqs : ReqOk(r)) /\ CleanOk /\ NewOk

\* A session that exists stays known, with its expiry; promises accumulate.
Monotone ==
    /\ \A u \in Uploads : row[u].st # "new" =>
          row'[u].st # "new" /\ row'[u].exp = row[u].exp
    /\ now \in Nat /\ now' \in Nat /\ now <= now'
    /\ sealed \subseteq sealed'
    /\ cancelled \subseteq cancelled'

LEMMA DropRowFacts ==
    ASSUME TypeOK, NEW u \in Uploads, DropRow(u)
    PROVE  /\ \A v \in Uploads \ {u} : row'[v] = row[v]
           /\ row'[u].exp = row[u].exp
           /\ row'[u].st = IF row[u].st = "live" THEN "gone" ELSE row[u].st
BY DEF DropRow, Live, TypeOK, Row

LEMMA HandleActive ==
    ASSUME TypeOK, NEW r \in Reqs, Handle(r)
    PROVE  /\ ~At(r, "idle") /\ req[r].pc # "idle"
           /\ req[r] \in Request /\ req[r].u \in Uploads /\ req[r].k \in Idx
<1>1. ~At(r, "idle")
  BY DEF Handle, At, InsertRow, EnsureStaging, OpenChunk, WriteChunk,
     UpdateReceived, CheckChunk, CreateDest, WriteHeader,
     ReadChunk, WriteSegment, SealDest, VerifyDest, RemoveChunks,
     RemoveStaging, DeleteRow
<1> QED
  BY <1>1, ActiveRequest DEF At, Request

LEMMA MonotoneStep == TypeOK /\ [Next]_vars => Monotone
<1> SUFFICES ASSUME TypeOK, [Next]_vars PROVE Monotone
  OBVIOUS
<1>0. now \in Nat
  BY DEF TypeOK
<1>1. ASSUME NEW r \in Reqs, NEW u \in Uploads, InitUpload(r, u) PROVE Monotone
  BY <1>0, <1>1 DEF InitUpload, Monotone, TypeOK, server, promises
<1>2. ASSUME NEW r \in Reqs, NEW u \in Uploads,
             \/ \E i \in Idx : ReceiveChunk(r, u, i)
             \/ CompleteUpload(r, u)
             \/ CancelUpload(r, u)
      PROVE  Monotone
  BY <1>0, <1>2 DEF ReceiveChunk, CompleteUpload, CancelUpload, Monotone, server,
     promises
<1>3. ASSUME NEW r \in Reqs, Handle(r) PROVE Monotone
  <2>t. req[r].u \in Uploads
    BY <1>3, HandleActive
  <2>1. CASE InsertRow(r)
    BY <1>0, <2>1, <2>t DEF InsertRow, Monotone, TypeOK, Row, server, promises
  <2>2. CASE UpdateReceived(r)
    BY <1>0, <2>2, <2>t DEF UpdateReceived, Monotone, TypeOK, Row, server
  <2>3. CASE DeleteRow(r)
    <3>1. CASE DropRow(req[r].u)
      BY <1>0, <2>3, <2>t, <3>1, DropRowFacts DEF DeleteRow, Monotone
    <3>2. CASE row' = row
      BY <1>0, <2>3, <3>2 DEF DeleteRow, Monotone
    <3> QED
      BY <2>3, <3>1, <3>2 DEF DeleteRow
  <2>4. CASE SealDest(r)
    BY <1>0, <2>4 DEF SealDest, Monotone, server
  <2>5. CASE ~(InsertRow(r) \/ UpdateReceived(r) \/ DeleteRow(r) \/ SealDest(r))
    <3>1. row' = row /\ now' = now /\ sealed' = sealed /\ cancelled' = cancelled
      BY <1>3, <2>5 DEF Handle, EnsureStaging, OpenChunk, WriteChunk,
         CheckChunk, CreateDest, WriteHeader, ReadChunk,
         WriteSegment, VerifyDest, RemoveChunks, RemoveStaging, server, promises
    <3> QED
      BY <1>0, <3>1 DEF Monotone
  <2> QED
    BY <2>1, <2>2, <2>3, <2>4, <2>5
<1>4. ASSUME NEW r \in Reqs, Fail(r) PROVE Monotone
  BY <1>0, <1>4 DEF Fail, Monotone, promises
<1>5. CASE CleanRow
  <2>1. cleaner.u \in Uploads
    BY <1>5 DEF CleanRow, TypeOK
  <2>2. CASE DropRow(cleaner.u)
    BY <1>0, <1>5, <2>1, <2>2, DropRowFacts DEF CleanRow, Monotone, promises
  <2>3. CASE row' = row
    BY <1>0, <1>5, <2>3 DEF CleanRow, Monotone, promises
  <2> QED
    BY <1>5, <2>2, <2>3 DEF CleanRow
<1>6. CASE Tick
  BY <1>0, <1>6 DEF Tick, Monotone, promises
<1>7. CASE \/ SelectExpired \/ CleanChunks \/ CleanStaging
           \/ \E u \in Uploads : CleanSession(u)
           \/ Crash \/ Restart \/ UNCHANGED vars
  <2>1. row' = row /\ now' = now /\ sealed' = sealed /\ cancelled' = cancelled
    BY <1>7 DEF SelectExpired, CleanSession, CleanStaging, CleanChunks, Crash, Restart, vars,
       server, promises
  <2> QED
    BY <1>0, <2>1 DEF Monotone
<1> QED
  BY <1>1, <1>2, <1>3, <1>4, <1>5, <1>6, <1>7 DEF Next, Start, Clean

\* An excuse outlives every step, once the session exists.
LEMMA ExcusedStays ==
    ASSUME TypeOK, TypeOK', Monotone, NEW u \in Uploads, row[u].st # "new", Excused(u)
    PROVE  Excused(u)'
<1>1. row[u].exp \in Nat /\ row'[u].exp = row[u].exp
  BY DEF TypeOK, Row, Monotone
<1> QED
  BY <1>1 DEF Monotone, Excused, Expired

\* A request that a step does not touch stays in order.
LEMMA ReqOkFrame ==
    ASSUME TypeOK, Monotone, NEW q \in Reqs, ReqOk(q), req'[q] = req[q]
    PROVE  ReqOk(q)'
<1>1. CASE req[q].pc = "idle"
  BY <1>1 DEF ReqOk
<1>2. CASE req[q].pc # "idle"
  <2>1. req[q].u \in Uploads
    BY <1>2, ActiveRequest DEF Request
  <2> QED
    BY <1>2, <2>1 DEF ReqOk, Monotone
<1> QED
  BY <1>1, <1>2

LEMMA SessionStep == TypeOK /\ SessionInv /\ [Next]_vars => SessionInv'
<1> SUFFICES ASSUME TypeOK, SessionInv, [Next]_vars PROVE SessionInv'
  OBVIOUS
<1>m. Monotone
  BY MonotoneStep
<1>a. \A q \in Reqs : ReqOk(q)
  BY DEF SessionInv
<1>1. \A q \in Reqs : ReqOk(q)'
  <2>1. ASSUME NEW r \in Reqs, Start(r) PROVE \A q \in Reqs : ReqOk(q)'
    <3>1. PICK u \in Uploads : \/ InitUpload(r, u)
                               \/ \E i \in Idx : ReceiveChunk(r, u, i)
                               \/ CompleteUpload(r, u)
                               \/ CancelUpload(r, u)
      BY <2>1 DEF Start
    <3>2. /\ req'[r].u = u
          /\ \A q \in Reqs \ {r} : req'[q] = req[q]
      BY <3>1 DEF InitUpload, ReceiveChunk, CompleteUpload, CancelUpload,
         NewRequest, TypeOK
    <3>3. row'[u].st # "new"
      BY <3>1 DEF InitUpload, ReceiveChunk, CompleteUpload, CancelUpload, Live,
         TypeOK
    <3>4. \/ req'[r].pc \in {"insert", "mkdir"}
          \/ req'[r].pc = "check" /\ req'[r].op = "complete"
          \/ /\ req'[r].pc = "rmfiles" /\ req'[r].op = "cancel"
             /\ u \in cancelled'
      BY <3>1 DEF InitUpload, ReceiveChunk, CompleteUpload, CancelUpload,
         NewRequest, TypeOK
    <3>5. ReqOk(r)'
      BY <3>2, <3>3, <3>4 DEF ReqOk, Assembling, Removing
    <3> QED
      BY <1>m, <1>a, <3>2, <3>5, ReqOkFrame
  <2>2. ASSUME NEW r \in Reqs, Handle(r) PROVE \A q \in Reqs : ReqOk(q)'
    <3>0. /\ ~At(r, "idle") /\ req[r].pc # "idle"
          /\ req[r] \in Request /\ req[r].u \in Uploads
      BY <2>2, HandleActive
    <3>r. row'[req[r].u].st # "new"
      BY <1>m, <1>a, <3>0 DEF ReqOk, Monotone
    <3>1. CASE Return(r)
      <4>1. ReqOk(r)'
        BY <3>1, ReturnFacts DEF ReqOk
      <4> QED
        BY <1>m, <1>a, <3>1, <4>1, ReturnFacts, ReqOkFrame
    <3>2. ASSUME NEW pc, Goto(r, pc), pc \notin Assembling \cup Removing
          PROVE  \A q \in Reqs : ReqOk(q)'
      <4>1. ReqOk(r)'
        BY <3>0, <3>r, <3>2, GotoFacts DEF ReqOk, Assembling
      <4> QED
        BY <1>m, <1>a, <3>0, <3>2, <4>1, GotoFacts, ReqOkFrame
    <3>3. CASE EnsureStaging(r) \/ OpenChunk(r) \/ WriteChunk(r)
      BY <3>1, <3>2, <3>3 DEF EnsureStaging, OpenChunk, WriteChunk, Assembling,
         Removing
    <3>5. CASE InsertRow(r) \/ UpdateReceived(r) \/ DeleteRow(r)
      BY <3>1, <3>5 DEF InsertRow, UpdateReceived, DeleteRow
    <3>6. ASSUME ~Return(r), \/ CheckChunk(r) \/ CreateDest(r) \/ WriteHeader(r)
                             \/ ReadChunk(r) \/ WriteSegment(r)
          PROVE  \A q \in Reqs : ReqOk(q)'
      <4>1. req[r].op = "complete"
        BY <1>a, <3>0, <3>6 DEF ReqOk, Assembling, At, CheckChunk, CreateDest,
           WriteHeader, ReadChunk, WriteSegment
      <4>2. /\ req'[r].u = req[r].u /\ req'[r].op = req[r].op
            /\ req'[r].pc \in Assembling \ {"verify"}
            /\ \A q \in Reqs \ {r} : req'[q] = req[q]
        <5>1. CASE CheckChunk(r) \/ CreateDest(r) \/ WriteHeader(r) \/ WriteSegment(r)
          <6>1. \E pc \in Assembling \ {"verify"} :
                   Goto(r, pc) \/ \E k : GotoChunk(r, pc, k)
            BY <3>6, <5>1
               DEF CheckChunk, CreateDest, WriteHeader, WriteSegment, Assembling
          <6> QED
            BY <3>0, <6>1, GotoFacts, GotoChunkFacts
        <5>2. CASE ReadChunk(r)
          BY <3>6, <5>2, ReadChunkFacts DEF Assembling
        <5> QED
          BY <3>6, <5>1, <5>2
      <4>3. ReqOk(r)'
        BY <3>r, <4>1, <4>2 DEF ReqOk, Assembling, Removing
      <4> QED
        BY <1>m, <1>a, <4>2, <4>3, ReqOkFrame
    <3>7. ASSUME ~Return(r), SealDest(r) \/ VerifyDest(r)
          PROVE  \A q \in Reqs : ReqOk(q)'
      <4>1. req[r].op = "complete" /\ req[r].u \in sealed'
        BY <1>a, <1>m, <3>0, <3>7 DEF ReqOk, Assembling, At, SealDest, VerifyDest,
           Monotone
      <4>2. \E pc \in {"verify", "rmfiles"} : Goto(r, pc)
        BY <3>7 DEF SealDest, VerifyDest
      <4>3. /\ req'[r].u = req[r].u /\ req'[r].op = req[r].op
            /\ req'[r].pc \in {"verify", "rmfiles"}
            /\ \A q \in Reqs \ {r} : req'[q] = req[q]
        BY <3>0, <4>2, GotoFacts
      <4>4. ReqOk(r)'
        BY <3>r, <4>1, <4>3 DEF ReqOk, Assembling, Removing
      <4> QED
        BY <1>m, <1>a, <4>3, <4>4, ReqOkFrame
    <3>4. CASE req' = req
      BY <1>m, <1>a, <3>4, ReqOkFrame
    <3>8. ASSUME req' # req, RemoveChunks(r) \/ RemoveStaging(r)
          PROVE  \A q \in Reqs : ReqOk(q)'
      <4>1. \/ req[r].op = "complete" /\ req[r].u \in sealed'
            \/ req[r].op = "cancel" /\ req[r].u \in cancelled'
        BY <1>a, <1>m, <3>0, <3>8 DEF ReqOk, Removing, At, RemoveChunks,
           RemoveStaging, Monotone
      <4>2. \E pc \in {"rmdir", "delrow"} : Goto(r, pc)
        BY <3>8 DEF RemoveChunks, RemoveStaging
      <4>3. /\ req'[r].u = req[r].u /\ req'[r].op = req[r].op
            /\ req'[r].pc \in {"rmdir", "delrow"}
            /\ \A q \in Reqs \ {r} : req'[q] = req[q]
        BY <3>0, <4>2, GotoFacts
      <4>4. ReqOk(r)'
        BY <3>r, <4>1, <4>3 DEF ReqOk, Assembling, Removing
      <4> QED
        BY <1>m, <1>a, <4>3, <4>4, ReqOkFrame
    <3> QED
      BY <2>2, <3>1, <3>3, <3>4, <3>5, <3>6, <3>7, <3>8 DEF Handle
  <2>3. ASSUME NEW r \in Reqs, Fail(r) PROVE \A q \in Reqs : ReqOk(q)'
    <3>1. ReqOk(r)'
      BY <2>3, ReturnFacts DEF Fail, ReqOk
    <3> QED
      BY <1>m, <1>a, <2>3, <3>1, ReturnFacts, ReqOkFrame DEF Fail
  <2>4. CASE Crash
    BY <2>4 DEF Crash, ReqOk, Idle
  <2>5. CASE Clean \/ Tick \/ Restart \/ UNCHANGED vars
    <3>1. req' = req
      BY <2>5 DEF Clean, SelectExpired, CleanSession, CleanChunks, CleanStaging, CleanRow, Tick,
         Restart, vars
    <3> QED
      BY <1>m, <1>a, <3>1, ReqOkFrame
  <2> QED
    BY <2>1, <2>2, <2>3, <2>4, <2>5 DEF Next
<1>2. CleanOk'
  <2>t. cleaner.todo \subseteq Uploads /\ \A u \in Uploads : row[u].exp \in Nat
    BY DEF TypeOK, Cleaner, Row
  <2>1. CASE cleaner' = cleaner
    BY <1>m, <2>t, <2>1 DEF SessionInv, CleanOk, Monotone
  <2>2. CASE SelectExpired
    <3>1. row' = row /\ now' = now /\ (Proceed(Overdue) \/ Proceed({}))
      BY <2>2 DEF SelectExpired
    <3> QED
      BY <3>1 DEF Proceed, Overdue, Live, CleanOk, CleanerIdle
  <2>9. CASE CleanChunks
    <3>1. /\ row' = row /\ now' = now
          /\ cleaner.pc = "unlink"
          /\ cleaner'.todo = cleaner.todo /\ cleaner'.u = cleaner.u
      BY <2>9 DEF CleanChunks, TypeOK, Cleaner
    <3> QED
      BY <3>1 DEF SessionInv, CleanOk
  <2>3. ASSUME NEW u \in Uploads, CleanSession(u) PROVE CleanOk'
    <3>1. /\ row' = row /\ now' = now
          /\ u \in cleaner.todo
          /\ cleaner'.todo = cleaner.todo /\ cleaner'.u = u
      BY <2>3 DEF CleanSession, server
    <3> QED
      BY <3>1 DEF SessionInv, CleanOk
  <2>4. CASE CleanStaging
    <3>1. /\ row' = row /\ now' = now
          /\ cleaner.pc = "rmdir"
          /\ cleaner'.todo = cleaner.todo /\ cleaner'.u = cleaner.u
      BY <2>4 DEF CleanStaging, server, TypeOK, Cleaner
    <3> QED
      BY <3>1 DEF SessionInv, CleanOk
  <2>5. CASE CleanRow
    <3>1. /\ now' = now
          /\ cleaner'.todo \subseteq cleaner.todo
          /\ cleaner'.pc \notin {"unlink", "rmdir", "row"}
      BY <2>5 DEF CleanRow, Proceed, CleanerIdle
    <3> QED
      BY <1>m, <2>t, <3>1 DEF SessionInv, CleanOk, Monotone
  <2>6. CASE Crash
    BY <2>6 DEF Crash, CleanerIdle, CleanOk
  <2>7. ASSUME NEW r \in Reqs, Start(r) \/ Handle(r) \/ Fail(r)
        PROVE  cleaner' = cleaner
    BY <2>7 DEF Start, InitUpload, ReceiveChunk, CompleteUpload, CancelUpload,
       Handle, InsertRow, EnsureStaging, OpenChunk, WriteChunk,
       UpdateReceived, CheckChunk, CreateDest, WriteHeader,
       ReadChunk, WriteSegment, SealDest, VerifyDest, RemoveChunks,
       RemoveStaging, DeleteRow, Fail
  <2>8. CASE Tick \/ Restart \/ UNCHANGED vars
    BY <2>1, <2>8 DEF Tick, Restart, vars
  <2> QED
    BY <2>1, <2>2, <2>3, <2>4, <2>5, <2>6, <2>7, <2>8, <2>9 DEF Next, Clean
<1>3. NewOk'
  <2>1. ASSUME NEW r \in Reqs, UpdateReceived(r) PROVE NewOk'
    <3>1. Handle(r)
      BY <2>1 DEF Handle
    <3>2. req[r].u \in Uploads /\ req[r].pc # "idle"
      BY <3>1, HandleActive
    <3>3. row'[req[r].u].st # "new"
      BY <1>a, <1>m, <3>2 DEF ReqOk, Monotone
    <3>4. \A u \in Uploads \ {req[r].u} : acked'[u] = acked[u]
      BY <2>1, <3>2 DEF UpdateReceived, TypeOK
    <3> QED
      BY <1>m, <3>3, <3>4 DEF SessionInv, NewOk, Monotone
  <2>2. CASE acked' = acked
    BY <1>m, <2>2 DEF SessionInv, NewOk, Monotone
  <2>3. ASSUME NEW r \in Reqs, Start(r) \/ Handle(r) \/ Fail(r), ~UpdateReceived(r)
        PROVE  acked' = acked
    BY <2>3 DEF Start, InitUpload, ReceiveChunk, CompleteUpload, CancelUpload,
       Handle, InsertRow, EnsureStaging, OpenChunk, WriteChunk,
       CheckChunk, CreateDest, WriteHeader,
       ReadChunk, WriteSegment, SealDest, VerifyDest, RemoveChunks,
       RemoveStaging, DeleteRow, Fail, promises
  <2>4. CASE Clean \/ Tick \/ Crash \/ Restart \/ UNCHANGED vars
    BY <2>2, <2>4 DEF Clean, SelectExpired, CleanSession, CleanChunks, CleanStaging, CleanRow,
       Tick, Crash, Restart, vars, promises
  <2> QED
    BY <2>1, <2>2, <2>3, <2>4 DEF Next
<1> QED
  BY <1>1, <1>2, <1>3 DEF SessionInv

\* The file a request is writing, or has just written, is still its own.
HoldOk(r) ==
    /\ req[r].pc = "write" =>
          chunk[req[r].u][req[r].k] = r \/ Excused(req[r].u)
    /\ req[r].pc = "update" =>
          chunk[req[r].u][req[r].k] = "full" \/ Excused(req[r].u)

KeptInv == (\A r \in Reqs : HoldOk(r)) /\ AckedChunkKept /\ RowGoneForCause

\* How chunk files change: created, finished by the request that created them,
\* or removed with an excuse.
ChunkStep ==
    \A u \in Uploads, i \in Idx :
       \/ chunk'[u][i] = chunk[u][i]
       \/ chunk[u][i] = "none"
       \/ chunk'[u][i] = "none" /\ row[u].st # "new" /\ Excused(u)
       \/ \E r \in Reqs : /\ chunk[u][i] = r /\ chunk'[u][i] = "full"
                           /\ req[r].pc = "write" /\ req'[r].pc = "update"

LEMMA ChunkStepHolds == TypeOK /\ SessionInv /\ [Next]_vars => ChunkStep
<1> SUFFICES ASSUME TypeOK, SessionInv, [Next]_vars PROVE ChunkStep
  OBVIOUS
<1>1. CASE chunk' = chunk
  BY <1>1 DEF ChunkStep
<1>2. ASSUME NEW r \in Reqs, Start(r) \/ Fail(r) PROVE chunk' = chunk
  BY <1>2 DEF Start, InitUpload, ReceiveChunk, CompleteUpload, CancelUpload, Fail
<1>3. ASSUME NEW r \in Reqs, Handle(r) PROVE ChunkStep
  <2>0. ~At(r, "idle") /\ req[r].pc # "idle" /\ req[r].u \in Uploads /\ req[r].k \in Idx
    BY <1>3, HandleActive
  <2>1. CASE OpenChunk(r)
    BY <2>0, <2>1 DEF OpenChunk, ChunkStep, TypeOK
  <2>2. CASE WriteChunk(r)
    <3>1. req[r].pc = "write" /\ req'[r].pc = "update"
      BY <2>0, <2>2, GotoFacts DEF WriteChunk, At
    <3>2. \A u \in Uploads, i \in Idx :
             \/ chunk'[u][i] = chunk[u][i]
             \/ chunk[u][i] = r /\ chunk'[u][i] = "full"
      BY <2>0, <2>2 DEF WriteChunk, TypeOK
    <3> QED
      BY <3>1, <3>2 DEF ChunkStep
  <2>3. CASE RemoveChunks(r)
    <3>1. row[req[r].u].st # "new" /\ Excused(req[r].u)
      BY <2>0, <2>3 DEF SessionInv, ReqOk, Removing, RemoveChunks, At, Excused
    <3>2. \A u \in Uploads, i \in Idx :
             \/ chunk'[u][i] = chunk[u][i]
             \/ u = req[r].u /\ chunk'[u][i] = "none"
      BY <2>0, <2>3, UnlinkFacts DEF RemoveChunks
    <3> QED
      BY <3>1, <3>2 DEF ChunkStep
  <2>4. CASE ~(OpenChunk(r) \/ WriteChunk(r) \/ RemoveChunks(r))
    BY <1>1, <1>3, <2>4 DEF Handle, InsertRow, EnsureStaging,
       UpdateReceived, CheckChunk, CreateDest, WriteHeader, ReadChunk,
       WriteSegment, SealDest, VerifyDest, RemoveStaging, DeleteRow
  <2> QED
    BY <2>1, <2>2, <2>3, <2>4
<1>4. CASE CleanChunks
  <2>0. cleaner.u \in Uploads /\ cleaner.pc = "unlink"
    BY <1>4 DEF CleanChunks, TypeOK
  <2>1. row[cleaner.u].st # "new" /\ Excused(cleaner.u)
    BY <2>0 DEF SessionInv, CleanOk, Excused, Expired, TypeOK, Row
  <2>2. \A u \in Uploads, i \in Idx :
           \/ chunk'[u][i] = chunk[u][i]
           \/ u = cleaner.u /\ chunk'[u][i] = "none"
    BY <1>4, <2>0, UnlinkFacts DEF CleanChunks
  <2> QED
    BY <2>1, <2>2 DEF ChunkStep
<1>5. CASE \/ SelectExpired \/ CleanStaging \/ CleanRow \/ Tick \/ Crash \/ Restart
           \/ \E u \in Uploads : CleanSession(u)
           \/ UNCHANGED vars
  BY <1>1, <1>5 DEF SelectExpired, CleanSession, CleanStaging, CleanRow, Tick, Crash, Restart,
     vars
<1> QED
  BY <1>1, <1>2, <1>3, <1>4, <1>5 DEF Next, Clean

\* What one step does to a chunk that is complete or held.
LEMMA KeptFull ==
    ASSUME TypeOK, TypeOK', Monotone, ChunkStep, NEW u \in Uploads, NEW i \in Idx,
           row[u].st # "new", chunk[u][i] = "full" \/ Excused(u)
    PROVE  chunk'[u][i] = "full" \/ Excused(u)'
<1>1. CASE Excused(u)
  BY <1>1, ExcusedStays
<1>2. CASE chunk[u][i] = "full" /\ ~Excused(u)
  BY <1>2, NameAssumption DEF ChunkStep
<1> QED
  BY <1>1, <1>2

LEMMA KeptHeld ==
    ASSUME TypeOK, TypeOK', Monotone, ChunkStep, NEW q \in Reqs, req'[q] = req[q],
           req[q].pc # "idle", row[req[q].u].st # "new", HoldOk(q)
    PROVE  HoldOk(q)'
<1>0. req[q].u \in Uploads /\ req[q].k \in Idx
  BY ActiveRequest DEF Request
<1>1. CASE req[q].pc = "write"
  <2>1. CASE Excused(req[q].u)
    BY <1>0, <1>1, <2>1, ExcusedStays DEF HoldOk
  <2>2. CASE ~Excused(req[q].u)
    BY <1>0, <1>1, <2>2, NameAssumption DEF HoldOk, ChunkStep
  <2> QED
    BY <2>1, <2>2
<1>2. CASE req[q].pc = "update"
  BY <1>0, <1>2, KeptFull DEF HoldOk
<1> QED
  BY <1>1, <1>2 DEF HoldOk

LEMMA KeptStep ==
    TypeOK /\ TypeOK' /\ SessionInv /\ KeptInv /\ [Next]_vars => KeptInv'
<1> SUFFICES ASSUME TypeOK, TypeOK', SessionInv, KeptInv, [Next]_vars PROVE KeptInv'
  OBVIOUS
<1>m. Monotone
  BY MonotoneStep
<1>c. ChunkStep
  BY ChunkStepHolds
<1>a. \A q \in Reqs : ReqOk(q) /\ HoldOk(q)
  BY DEF SessionInv, KeptInv
<1>f. ASSUME NEW q \in Reqs, req'[q] = req[q] PROVE HoldOk(q)'
  <2>1. CASE req[q].pc = "idle"
    BY <1>f, <2>1 DEF HoldOk
  <2>2. CASE req[q].pc # "idle"
    BY <1>a, <1>c, <1>f, <1>m, <2>2, KeptHeld DEF ReqOk
  <2> QED
    BY <2>1, <2>2
<1>1. \A q \in Reqs : HoldOk(q)'
  <2>1. ASSUME NEW r \in Reqs, Start(r) PROVE \A q \in Reqs : HoldOk(q)'
    <3>1. /\ req'[r].pc \in {"insert", "mkdir", "check", "rmfiles"}
          /\ \A q \in Reqs \ {r} : req'[q] = req[q]
      BY <2>1 DEF Start, InitUpload, ReceiveChunk, CompleteUpload, CancelUpload,
         NewRequest, TypeOK
    <3> QED
      BY <1>f, <3>1 DEF HoldOk
  <2>2. ASSUME NEW r \in Reqs, Handle(r) PROVE \A q \in Reqs : HoldOk(q)'
    <3>0. /\ ~At(r, "idle") /\ req[r].pc # "idle" /\ req[r] \in Request
          /\ req[r].u \in Uploads /\ req[r].k \in Idx
          /\ row[req[r].u].st # "new"
      BY <1>a, <2>2, HandleActive DEF ReqOk
    <3>1. CASE Return(r)
      BY <1>f, <3>1, ReturnFacts DEF HoldOk
    <3>2. ASSUME NEW pc, pc \notin {"write", "update"},
                 Goto(r, pc) \/ \E k : GotoChunk(r, pc, k)
          PROVE  \A q \in Reqs : HoldOk(q)'
      <4>1. req'[r].pc = pc /\ \A q \in Reqs \ {r} : req'[q] = req[q]
        BY <3>0, <3>2, GotoFacts, GotoChunkFacts
      <4> QED
        BY <1>f, <3>2, <4>1 DEF HoldOk
    <3>3. ASSUME OpenChunk(r), ~Return(r) PROVE \A q \in Reqs : HoldOk(q)'
      <4>1. /\ req'[r].pc = "write" /\ req'[r].u = req[r].u
            /\ req'[r].k = req[r].k
            /\ \A q \in Reqs \ {r} : req'[q] = req[q]
        BY <3>0, <3>3, GotoFacts DEF OpenChunk
      <4>2. chunk'[req[r].u][req[r].k] = r
        BY <3>0, <3>3 DEF OpenChunk, TypeOK
      <4>3. HoldOk(r)'
        BY <4>1, <4>2 DEF HoldOk
      <4> QED
        BY <1>f, <4>1, <4>3
    <3>4. CASE WriteChunk(r)
      <4>1. /\ req'[r].pc = "update" /\ req'[r].u = req[r].u
            /\ req'[r].k = req[r].k
            /\ \A q \in Reqs \ {r} : req'[q] = req[q]
        BY <3>0, <3>4, GotoFacts DEF WriteChunk
      <4>2. \/ chunk'[req[r].u][req[r].k] = "full"
            \/ Excused(req[r].u)
        BY <1>a, <3>0, <3>4 DEF WriteChunk, HoldOk, At, TypeOK
      <4>3. ASSUME NEW u \in Uploads, u = req[r].u, Excused(u) PROVE Excused(u)'
        BY <1>m, <3>0, <4>3, ExcusedStays
      <4>4. HoldOk(r)'
        BY <3>0, <4>1, <4>2, <4>3 DEF HoldOk
      <4> QED
        BY <1>f, <4>1, <4>4
    <3>6. ASSUME ReadChunk(r), ~Return(r) PROVE \A q \in Reqs : HoldOk(q)'
      BY <1>f, <3>6, ReadChunkFacts DEF HoldOk
    <3>5. CASE req' = req
      BY <1>f, <3>5
    <3>7. ASSUME req' # req, \/ EnsureStaging(r) \/ CreateDest(r) \/ WriteHeader(r)
                             \/ RemoveChunks(r) \/ RemoveStaging(r)
          PROVE  \A q \in Reqs : HoldOk(q)'
      BY <3>2, <3>7 DEF EnsureStaging, CreateDest, WriteHeader, RemoveChunks,
         RemoveStaging
    <3>8. ASSUME ~Return(r), \/ CheckChunk(r) \/ WriteSegment(r) \/ SealDest(r)
                             \/ VerifyDest(r)
          PROVE  \A q \in Reqs : HoldOk(q)'
      BY <3>2, <3>8, SMTT(30) DEF CheckChunk, WriteSegment, SealDest, VerifyDest
    <3>9. CASE InsertRow(r) \/ UpdateReceived(r) \/ DeleteRow(r)
      BY <3>1, <3>9 DEF InsertRow, UpdateReceived, DeleteRow
    <3> QED
      BY <2>2, <3>1, <3>3, <3>4, <3>5, <3>6, <3>7, <3>8, <3>9 DEF Handle
  <2>3. ASSUME NEW r \in Reqs, Fail(r) PROVE \A q \in Reqs : HoldOk(q)'
    BY <1>f, <2>3, ReturnFacts DEF Fail, HoldOk
  <2>4. CASE Crash
    BY <2>4 DEF Crash, HoldOk, Idle
  <2>5. CASE Clean \/ Tick \/ Restart \/ UNCHANGED vars
    BY <1>f, <2>5 DEF Clean, SelectExpired, CleanSession, CleanChunks, CleanStaging, CleanRow,
       Tick, Restart, vars
  <2> QED
    BY <2>1, <2>2, <2>3, <2>4, <2>5 DEF Next
<1>2. AckedChunkKept'
  <2>t. \A u \in Uploads : acked[u] \subseteq Idx /\ acked'[u] \subseteq Idx
    BY DEF TypeOK
  <2>1. ASSUME NEW u \in Uploads, NEW i \in acked[u]
        PROVE  chunk'[u][i] = "full" \/ Excused(u)'
    <3>1. row[u].st # "new"
      BY <2>1 DEF SessionInv, NewOk
    <3>2. chunk[u][i] = "full" \/ Excused(u)
      BY <2>1 DEF KeptInv, AckedChunkKept, Excused
    <3> QED
      BY <1>c, <1>m, <2>t, <2>1, <3>1, <3>2, KeptFull
  <2>2. ASSUME NEW u \in Uploads, NEW i \in acked'[u], i \notin acked[u]
        PROVE  chunk'[u][i] = "full" \/ Excused(u)'
    <3>1. PICK r \in Reqs : UpdateReceived(r)
      <4>1. acked' # acked
        BY <2>2
      <4> QED
        BY <4>1, ZenonT(60) DEF Next, Start, InitUpload, ReceiveChunk, CompleteUpload,
           CancelUpload, Handle, InsertRow, EnsureStaging, OpenChunk, WriteChunk,
           CheckChunk, CreateDest, WriteHeader,
           ReadChunk, WriteSegment, SealDest, VerifyDest, RemoveChunks,
           RemoveStaging, DeleteRow, Fail, Clean, SelectExpired, CleanSession, CleanChunks,
           CleanStaging, CleanRow, Tick, Crash, Restart, vars, promises
    <3>2. req[r].pc = "update" /\ req[r].u \in Uploads /\ req[r].k \in Idx
      BY <3>1, ActiveRequest DEF UpdateReceived, At, Request
    <3>3. u = req[r].u /\ i = req[r].k
      BY <2>2, <3>1, <3>2 DEF UpdateReceived, TypeOK
    <3>4. row[u].st # "new" /\ (chunk[u][i] = "full" \/ Excused(u))
      BY <1>a, <3>2, <3>3 DEF ReqOk, HoldOk
    <3> QED
      BY <1>c, <1>m, <3>2, <3>3, <3>4, KeptFull
  <2> QED
    BY <2>1, <2>2 DEF AckedChunkKept, Excused
<1>3. RowGoneForCause'
  <2>1. ASSUME NEW u \in Uploads, <<"complete", u>> \in done' PROVE u \in sealed'
    <3>1. CASE <<"complete", u>> \in done
      BY <1>m, <3>1 DEF KeptInv, RowGoneForCause, Monotone
    <3>2. CASE <<"complete", u>> \notin done
      <4>1. PICK r \in Reqs : DeleteRow(r)
        <5>1. done' # done
          BY <2>1, <3>2
        <5> QED
          BY <5>1, ZenonT(60) DEF Next, Start, InitUpload, ReceiveChunk, CompleteUpload,
             CancelUpload, Handle, InsertRow, EnsureStaging, OpenChunk, WriteChunk,
             UpdateReceived, CheckChunk, CreateDest, WriteHeader,
             ReadChunk, WriteSegment, SealDest, VerifyDest, RemoveChunks,
             RemoveStaging, Fail, Clean, SelectExpired, CleanSession, CleanChunks,
             CleanStaging, CleanRow, Tick, Crash, Restart, vars, promises
      <4>2. req[r].op = "complete" /\ req[r].u = u
        BY <2>1, <3>2, <4>1 DEF DeleteRow
      <4>3. u \in sealed
        BY <1>a, <4>1, <4>2 DEF DeleteRow, At, ReqOk, Removing
      <4> QED
        BY <1>m, <4>3 DEF Monotone
    <3> QED
      BY <3>1, <3>2
  <2>2. ASSUME NEW u \in Uploads, row'[u].st = "gone" PROVE Excused(u)'
    <3>1. CASE row[u].st = "gone"
      <4>1. Excused(u)
        BY <3>1 DEF KeptInv, RowGoneForCause, Excused
      <4> QED
        BY <1>m, <3>1, <4>1, ExcusedStays
    <3>2. CASE row[u].st # "gone"
      <4>0. row \in [Uploads -> Row]
        BY DEF TypeOK
      <4>1. \/ \E r \in Reqs : DeleteRow(r) /\ DropRow(req[r].u)
            \/ CleanRow /\ DropRow(cleaner.u)
        <5>1. ASSUME NEW r \in Reqs, NEW v \in Uploads, InitUpload(r, v)
              PROVE  FALSE
          BY <2>2, <3>2, <4>0, <5>1 DEF InitUpload
        <5>2. ASSUME NEW r \in Reqs, InsertRow(r) PROVE FALSE
          BY <2>2, <3>2, <4>0, <5>2 DEF InsertRow, Row
        <5>3. ASSUME NEW r \in Reqs, UpdateReceived(r) PROVE FALSE
          BY <2>2, <3>2, <4>0, <5>3 DEF UpdateReceived, Row
        <5>4. row' # row
          BY <2>2, <3>2
        <5> QED
          BY <5>1, <5>2, <5>3, <5>4, ZenonT(60) DEF Next, Start, ReceiveChunk, CompleteUpload,
             CancelUpload, Handle, EnsureStaging, OpenChunk, WriteChunk,
             CheckChunk, CreateDest, WriteHeader,
             ReadChunk, WriteSegment, SealDest, VerifyDest, RemoveChunks,
             RemoveStaging, DeleteRow, Fail, Clean, SelectExpired, CleanSession, CleanChunks,
             CleanStaging, CleanRow, Tick, Crash, Restart, vars
      <4>2. ASSUME NEW r \in Reqs, DeleteRow(r), DropRow(req[r].u)
            PROVE  Excused(u) /\ row[u].st # "new"
        <5>1. req[r].u \in Uploads /\ req[r].pc = "delrow"
          BY <4>2, ActiveRequest DEF DeleteRow, At, Request
        <5>2. u = req[r].u
          BY <2>2, <3>2, <4>2, <5>1, DropRowFacts
        <5> QED
          BY <1>a, <5>1, <5>2 DEF ReqOk, Removing, Excused
      <4>3. ASSUME CleanRow, DropRow(cleaner.u)
            PROVE  Excused(u) /\ row[u].st # "new"
        <5>1. cleaner.u \in Uploads /\ cleaner.pc = "row"
          BY <4>3 DEF CleanRow, TypeOK
        <5>2. u = cleaner.u
          BY <2>2, <3>2, <4>3, <5>1, DropRowFacts
        <5> QED
          BY <5>1, <5>2 DEF SessionInv, CleanOk, Excused, Expired, TypeOK, Row
      <4> QED
        BY <1>m, <4>1, <4>2, <4>3, ExcusedStays
    <3> QED
      BY <3>1, <3>2
  <2> QED
    BY <2>1, <2>2 DEF RowGoneForCause, Excused
<1> QED
  BY <1>1, <1>2, <1>3 DEF KeptInv

LEMMA KeptInit == Init => SessionInv /\ KeptInv
BY DEF Init, SessionInv, ReqOk, CleanOk, NewOk, KeptInv, HoldOk, AckedChunkKept,
   RowGoneForCause, Idle, CleanerIdle

\* No acknowledged chunk is lost before its session is assembled, cancelled or
\* expired, whatever requests, cleanup passes, crashes and failures there are.
THEOREM AckedChunksAreKept == Spec => []AckedChunkKept
<1>1. KeptInv => AckedChunkKept
  BY DEF KeptInv
<1> QED
  BY <1>1, TypeInit, TypeStep, KeptInit, SessionStep, KeptStep, PTL DEF Spec

\* An Ok from complete_upload means a sealed file, and a row is deleted only for
\* a session that is sealed, cancelled or expired.
THEOREM RowsGoForCause == Spec => []RowGoneForCause
<1>1. KeptInv => RowGoneForCause
  BY DEF KeptInv
<1> QED
  BY <1>1, TypeInit, TypeStep, KeptInit, SessionStep, KeptStep, PTL DEF Spec

\* A chunk file is written by one request, once.
THEOREM ChunksAreWrittenOnce == Spec => ChunkWrittenOnce
<1> DEFINE Once == \A u \in Uploads, i \in Idx :
                     chunk[u][i] # "none" /\ chunk'[u][i] # chunk[u][i] =>
                        \/ chunk'[u][i] = "none"
                        \/ chunk[u][i] \in Reqs /\ chunk'[u][i] = "full"
<1>1. ChunkStep => Once
  BY DEF ChunkStep
<1>2. TypeOK /\ SessionInv /\ [Next]_vars => [Once]_vars
  BY <1>1, ChunkStepHolds
<1> QED
  BY <1>2, TypeInit, TypeStep, KeptInit, SessionStep, PTL
     DEF Spec, ChunkWrittenOnce
=============================================================================
