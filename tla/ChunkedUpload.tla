--------------------------- MODULE ChunkedUpload ---------------------------
(***************************************************************************)
(* Chunked uploads of IronDrive (services/chunk_service.rs, the streaming  *)
(* half of services/fs_service.rs and services/crypto_service.rs, and the  *)
(* cleanup worker of services/background/chunk_cleanup.rs).                *)
(*                                                                         *)
(* A session is a row of chunked_uploads plus a staging directory of chunk *)
(* files.  Requests run concurrently and every await of a handler is a     *)
(* point where the others may step, so a handler is a sequence of actions  *)
(* of one request slot.  A process crash drops the requests and the        *)
(* cleaner and keeps the database and the disk.                            *)
(*                                                                         *)
(* Only the requests of a session's owner are modelled: the handlers       *)
(* answer NotFound to anyone else before they touch anything.  A request   *)
(* that is refused on its arguments changes nothing and is a stutter.      *)
(***************************************************************************)
EXTENDS Integers

CONSTANTS
    Uploads,      \* upload ids (UUIDs) that init_upload may mint
    Paths,        \* destination files: a library or space and a path in it
    Target,       \* Target[u]: the path named by the init that mints u
    Reqs,         \* request slots: at most one running request in each
    NumChunks,    \* total_chunks, the same for every session
    Expiry,       \* chunk_upload_expiry_hours, in clock ticks
    MaxTime,      \* bound on the clock
    MaxMishaps,   \* bound on process crashes and failed file or database calls
    Hole,         \* a stretch of a file nobody has written
    NoUpload      \* no session

ASSUME TargetAssumption == Target \in [Uploads -> Paths]
ASSUME NumAssumption ==
    /\ NumChunks \in Nat \ {0}
    /\ Expiry \in Nat
    /\ MaxTime \in Nat
    /\ MaxMishaps \in Nat
ASSUME NameAssumption ==
    /\ NoUpload \notin Uploads
    /\ "none" \notin Reqs
    /\ "full" \notin Reqs

VARIABLES
    now,        \* wall clock
    phase,      \* the server process: "down", "boot" or "run"
    mishaps,    \* crashes and failed calls so far
    row,        \* row[u]: the row of chunked_uploads, or its absence
    dir,        \* dir[u]: the staging directory exists
    chunk,      \* chunk[u][i]: the chunk file, see ChunkFile
    dest,       \* dest[p]: the cells of the destination file
    req,        \* req[r]: the request running in slot r
    cleaner,    \* the cleanup worker
    \* What clients have been promised; the server keeps none of this.
    acked,      \* acked[u]: chunks whose receive was answered Ok
    sealed,     \* sessions whose file hash has been written
    cancelled,  \* sessions whose owner had a cancel accepted
    done        \* <<op, u>>: complete and cancel requests answered Ok

server == <<now, phase, mishaps>>
promises == <<acked, sealed, cancelled, done>>
vars == <<server, row, dir, chunk, dest, req, cleaner, promises>>

----------------------------------------------------------------------------
(* State *)

Idx == 1 .. NumChunks

\* A destination file: cell 0 is magic and nonce, cell i segment i, and the
\* last one the trailing SHA-256 of everything before it.
HashCell == NumChunks + 1
Cells == 0 .. HashCell

\* Who wrote a cell, for which session, and whether every chunk that writer
\* had read until then was complete.
Ink == [by : Reqs, u : Uploads, whole : BOOLEAN]

\* A chunk file is absent, complete, or created by a request that has not
\* finished writing it (or never will).
ChunkFile == {"none", "full"} \cup Reqs

NoFile == [c \in Cells |-> Hole]
NoChunks == [i \in Idx |-> "none"]

\* received_chunks is written and never read by the server: it is left out.
Row == [st : {"new", "minted", "live", "gone"}, exp : Nat]

ReqPcs == {"insert", "mkdir", "open", "write", "update", "check", "create",
           "header", "read", "emit", "seal", "verify", "rmfiles", "rmdir",
           "delrow"}
Ops == {"init", "receive", "complete", "cancel"}

Request == [pc : ReqPcs, op : Ops, u : Uploads, k : Idx, short : BOOLEAN]
Idle == [pc |-> "idle"]

NewRequest(op, pc, u, k) ==
    [pc |-> pc, op |-> op, u |-> u, k |-> k, short |-> FALSE]

Cleaner == [pc : {"idle", "pick", "unlink", "rmdir", "row"}, todo : SUBSET Uploads,
            u : Uploads \cup {NoUpload}]
CleanerIdle == [pc |-> "idle", todo |-> {}, u |-> NoUpload]

Live(u) == row[u].st = "live"

\* is_expired: from the expiry second on, the session refuses requests.
Expired(u) == now >= row[u].exp

\* verify_file_hash: the trailing hash matches when every cell is still the
\* one its writer hashed.
HashOk(f) == /\ \A c \in Cells : f[c] # Hole
             /\ \A c \in Cells : /\ f[c].by = f[HashCell].by
                                 /\ f[c].u = f[HashCell].u

TypeOK ==
    /\ now \in Nat
    /\ phase \in {"down", "boot", "run"}
    /\ mishaps \in Nat
    /\ row \in [Uploads -> Row]
    /\ dir \in [Uploads -> BOOLEAN]
    /\ chunk \in [Uploads -> [Idx -> ChunkFile]]
    /\ dest \in [Paths -> [Cells -> Ink \cup {Hole}]]
    /\ req \in [Reqs -> Request \cup {Idle}]
    /\ cleaner \in Cleaner
    /\ (cleaner.pc \in {"unlink", "rmdir", "row"} => cleaner.u \in Uploads)
    /\ acked \in [Uploads -> SUBSET Idx]
    /\ sealed \subseteq Uploads
    /\ cancelled \subseteq Uploads
    /\ done \subseteq Ops \X Uploads

Init ==
    /\ now = 0
    /\ phase = "run"
    /\ mishaps = 0
    /\ row = [u \in Uploads |-> [st |-> "new", exp |-> 0]]
    /\ dir = [u \in Uploads |-> FALSE]
    /\ chunk = [u \in Uploads |-> NoChunks]
    /\ dest = [p \in Paths |-> NoFile]
    /\ req = [r \in Reqs |-> Idle]
    /\ cleaner = CleanerIdle
    /\ acked = [u \in Uploads |-> {}]
    /\ sealed = {}
    /\ cancelled = {}
    /\ done = {}

----------------------------------------------------------------------------
(* Steps of a request *)

At(r, pc) == req[r].pc = pc
Free(r) == phase = "run" /\ At(r, "idle")

\* A call that fails, or the whole process.
Mishap == mishaps < MaxMishaps /\ mishaps' = mishaps + 1

\* The request goes on at pc, perhaps with chunk k, or returns to its client.
Goto(r, pc) == req' = [req EXCEPT ![r].pc = pc]
GotoChunk(r, pc, k) == req' = [req EXCEPT ![r] = [@ EXCEPT !.pc = pc, !.k = k]]
Return(r) == req' = [req EXCEPT ![r] = Idle]

(* init_upload *)

\* The arguments are valid: mint an id, fix its expiry, create its staging
\* directory.
InitUpload(r, u) ==
    /\ Free(r)
    /\ row[u].st = "new"
    /\ row' = [row EXCEPT ![u] = [st |-> "minted", exp |-> now + Expiry]]
    /\ dir' = [dir EXCEPT ![u] = TRUE]
    /\ req' = [req EXCEPT ![r] = NewRequest("init", "insert", u, 1)]
    /\ UNCHANGED <<server, chunk, dest, cleaner, promises>>

InsertRow(r) ==
    /\ At(r, "insert")
    /\ row' = [row EXCEPT ![req[r].u].st = "live"]
    /\ Return(r)
    /\ UNCHANGED <<server, dir, chunk, dest, cleaner, promises>>

(* receive_chunk *)

ReceiveChunk(r, u, i) ==
    /\ Free(r)
    /\ Live(u) /\ ~Expired(u)
    /\ req' = [req EXCEPT ![r] = NewRequest("receive", "mkdir", u, i)]
    /\ UNCHANGED <<server, row, dir, chunk, dest, cleaner, promises>>

EnsureStaging(r) ==
    /\ At(r, "mkdir")
    /\ dir' = [dir EXCEPT ![req[r].u] = TRUE]
    /\ Goto(r, "open")
    /\ UNCHANGED <<server, row, chunk, dest, cleaner, promises>>

\* Variant: plain File::create, which truncates a chunk that is there.
OpenChunkTruncating(r) ==
    LET u == req[r].u  i == req[r].k IN
    /\ At(r, "open")
    /\ IF dir[u]
       THEN /\ chunk' = [chunk EXCEPT ![u][i] = r]
            /\ Goto(r, "write")
       ELSE /\ Return(r)
            /\ UNCHANGED chunk
    /\ UNCHANGED <<server, row, dir, dest, cleaner, promises>>

\* create_new: only an absent file is opened.  An existing one is answered
\* Conflict, a vanished directory an internal error.
OpenChunk(r) ==
    LET u == req[r].u  i == req[r].k IN
    /\ At(r, "open")
    /\ IF dir[u] /\ chunk[u][i] = "none"
       THEN /\ chunk' = [chunk EXCEPT ![u][i] = r]
            /\ Goto(r, "write")
       ELSE /\ Return(r)
            /\ UNCHANGED chunk
    /\ UNCHANGED <<server, row, dir, dest, cleaner, promises>>

\* Variant: the handler goes on before the data is on disk.
WriteChunkUnsynced(r) ==
    /\ At(r, "write")
    /\ Goto(r, "update")
    /\ UNCHANGED <<server, row, dir, chunk, dest, cleaner, promises>>

\* write_all, flush, sync_data.  If the file has been unlinked meanwhile the
\* data goes nowhere and no error is seen.
WriteChunk(r) ==
    LET u == req[r].u  i == req[r].k IN
    /\ At(r, "write")
    /\ chunk' = IF chunk[u][i] = r THEN [chunk EXCEPT ![u][i] = "full"] ELSE chunk
    /\ Goto(r, "update")
    /\ UNCHANGED <<server, row, dir, dest, cleaner, promises>>

\* The chunk files are counted and the count goes to the row.  The UPDATE may
\* find no row: the receive is answered Ok all the same.
UpdateReceived(r) ==
    /\ At(r, "update")
    /\ acked' = [acked EXCEPT ![req[r].u] = @ \cup {req[r].k}]
    /\ Return(r)
    /\ UNCHANGED <<server, row, dir, chunk, dest, cleaner, sealed, cancelled, done>>

(* complete_upload *)

CompleteUpload(r, u) ==
    /\ Free(r)
    /\ Live(u) /\ ~Expired(u)
    /\ req' = [req EXCEPT ![r] = NewRequest("complete", "check", u, 1)]
    /\ UNCHANGED <<server, row, dir, chunk, dest, cleaner, promises>>

\* Variant: the loop over the chunks runs one too far.
CheckChunkPastEnd(r) ==
    LET u == req[r].u  k == req[r].k IN
    /\ At(r, "check")
    /\ IF chunk[u][k] = "none"
       THEN Return(r)
       ELSE GotoChunk(r, "check", k + 1)
    /\ UNCHANGED <<server, row, dir, chunk, dest, cleaner, promises>>

\* Every chunk file must exist before anything is written.
CheckChunk(r) ==
    LET u == req[r].u  k == req[r].k IN
    /\ At(r, "check")
    /\ IF chunk[u][k] = "none" THEN Return(r)
       ELSE IF k < NumChunks THEN GotoChunk(r, "check", k + 1)
       ELSE Goto(r, "create")
    /\ UNCHANGED <<server, row, dir, chunk, dest, cleaner, promises>>

\* The library or space must be unlocked and the path sound (a refusal is a
\* Fail); then the parents are created and File::create truncates the file.
CreateDest(r) ==
    /\ At(r, "create")
    /\ dest' = [dest EXCEPT ![Target[req[r].u]] = NoFile]
    /\ Goto(r, "header")
    /\ UNCHANGED <<server, row, dir, chunk, cleaner, promises>>

\* A write goes to the request's own offset of the shared file.
WriteCell(r, c) ==
    dest' = [dest EXCEPT ![Target[req[r].u]][c] =
               [by |-> r, u |-> req[r].u, whole |-> ~req[r].short]]

WriteHeader(r) ==
    /\ At(r, "header")
    /\ WriteCell(r, 0)
    /\ GotoChunk(r, "read", 1)
    /\ UNCHANGED <<server, row, dir, chunk, cleaner, promises>>

\* A chunk that has vanished ends the request and leaves the file as it is.
ReadChunk(r) ==
    LET f == chunk[req[r].u][req[r].k] IN
    /\ At(r, "read")
    /\ IF f = "none"
       THEN Return(r)
       ELSE req' = [req EXCEPT ![r] =
                      [@ EXCEPT !.pc = "emit",
                                !.short = req[r].short \/ f # "full"]]
    /\ UNCHANGED <<server, row, dir, chunk, dest, cleaner, promises>>

WriteSegment(r) ==
    LET k == req[r].k IN
    /\ At(r, "emit")
    /\ WriteCell(r, k)
    /\ IF k < NumChunks
       THEN GotoChunk(r, "read", k + 1)
       ELSE Goto(r, "seal")
    /\ UNCHANGED <<server, row, dir, chunk, cleaner, promises>>

\* Variant: the hash is appended whatever was read.
SealDestUnchecked(r) ==
    /\ At(r, "seal")
    /\ WriteCell(r, HashCell)
    /\ sealed' = sealed \cup {req[r].u}
    /\ \E pc \in {"verify", "rmfiles"} : Goto(r, pc)
    /\ UNCHANGED <<server, row, dir, chunk, cleaner, acked, cancelled, done>>

\* The file hash is appended only if total_bytes were read; then comes the
\* verification pass, if the client has asked for one.
SealDest(r) ==
    LET u == req[r].u IN
    /\ At(r, "seal")
    /\ IF req[r].short
       THEN /\ Return(r)
            /\ UNCHANGED <<dest, sealed>>
       ELSE /\ WriteCell(r, HashCell)
            /\ sealed' = sealed \cup {u}
            /\ \E pc \in {"verify", "rmfiles"} : Goto(r, pc)
    /\ UNCHANGED <<server, row, dir, chunk, cleaner, acked, cancelled, done>>

VerifyDest(r) ==
    /\ At(r, "verify")
    /\ IF HashOk(dest[Target[req[r].u]]) THEN Goto(r, "rmfiles") ELSE Return(r)
    /\ UNCHANGED <<server, row, dir, chunk, dest, cleaner, promises>>

(* cancel_upload, which looks at no expiry, and the end of complete_upload *)

CancelUpload(r, u) ==
    /\ Free(r)
    /\ Live(u)
    /\ cancelled' = cancelled \cup {u}
    /\ req' = [req EXCEPT ![r] = NewRequest("cancel", "rmfiles", u, 1)]
    /\ UNCHANGED <<server, row, dir, chunk, dest, cleaner, acked, sealed, done>>

Unlink(u, i) == /\ chunk[u][i] # "none"
                /\ chunk' = [chunk EXCEPT ![u][i] = "none"]

\* remove_dir_all unlinks the files one by one, then removes the directory; it
\* stops at the first error, which the callers ignore.
RemoveChunks(r) ==
    LET u == req[r].u IN
    /\ At(r, "rmfiles")
    /\ \/ /\ \E i \in Idx : Unlink(u, i)
          /\ UNCHANGED <<req, mishaps>>
       \/ /\ chunk[u] = NoChunks
          /\ Goto(r, "rmdir")
          /\ UNCHANGED <<chunk, mishaps>>
       \/ /\ Mishap
          /\ Goto(r, "delrow")
          /\ UNCHANGED chunk
    /\ UNCHANGED <<now, phase, row, dir, dest, cleaner, promises>>

\* A directory that has been filled again is not removed.
RemoveDir(u) == dir' = [dir EXCEPT ![u] = @ /\ chunk[u] # NoChunks]

RemoveStaging(r) ==
    /\ At(r, "rmdir")
    /\ RemoveDir(req[r].u)
    /\ Goto(r, "delrow")
    /\ UNCHANGED <<server, row, chunk, dest, cleaner, promises>>

DropRow(u) == row' = [row EXCEPT ![u].st = IF Live(u) THEN "gone" ELSE @]

\* complete_upload ignores a failed DELETE; cancel_upload reports it (Fail).
DeleteRow(r) ==
    LET u == req[r].u IN
    /\ At(r, "delrow")
    /\ \/ DropRow(u) /\ UNCHANGED mishaps
       \/ req[r].op = "complete" /\ Mishap /\ UNCHANGED row
    /\ done' = done \cup {<<req[r].op, u>>}
    /\ Return(r)
    /\ UNCHANGED <<now, phase, dir, chunk, dest, cleaner, acked, sealed, cancelled>>

\* Any other file or database call returns an error: the handler stops there
\* and undoes nothing.
Fail(r) ==
    /\ req[r].pc \notin {"idle", "rmfiles", "rmdir"}
    /\ At(r, "delrow") => req[r].op = "cancel"
    /\ Mishap
    /\ Return(r)
    /\ UNCHANGED <<now, phase, row, dir, chunk, dest, cleaner, promises>>

----------------------------------------------------------------------------
(* cleanup_expired_uploads: once at boot, then every 30 minutes *)

\* Variant: the SELECT has lost its WHERE clause.
OverdueAny == {u \in Uploads : Live(u)}

\* The SELECT compares strictly, unlike is_expired.
Overdue == {u \in Uploads : Live(u) /\ row[u].exp < now}

\* A pass that has nothing left ends; at boot the server then starts.
Proceed(todo) ==
    IF todo = {}
    THEN /\ cleaner' = CleanerIdle
         /\ phase' = "run"
    ELSE /\ cleaner' = [pc |-> "pick", todo |-> todo, u |-> NoUpload]
         /\ UNCHANGED phase

\* A failed SELECT ends the pass; at boot it is logged and the server starts.
SelectExpired ==
    /\ phase # "down"
    /\ cleaner.pc = "idle"
    /\ \/ Proceed(Overdue) /\ UNCHANGED mishaps
       \/ Proceed({}) /\ Mishap
    /\ UNCHANGED <<now, row, dir, chunk, dest, req, promises>>

\* Variant: a session without a staging directory is taken for cleaned up.
CleanSessionSkipping(u) ==
    /\ cleaner.pc = "pick"
    /\ u \in cleaner.todo
    /\ IF dir[u]
       THEN /\ cleaner' = [cleaner EXCEPT !.pc = "unlink", !.u = u]
            /\ UNCHANGED phase
       ELSE Proceed(cleaner.todo \ {u})
    /\ UNCHANGED <<now, mishaps, row, dir, chunk, dest, req, promises>>

\* The rows come in no particular order.
CleanSession(u) ==
    /\ cleaner.pc = "pick"
    /\ u \in cleaner.todo
    /\ cleaner' = [pc |-> IF dir[u] THEN "unlink" ELSE "row",
                   todo |-> cleaner.todo, u |-> u]
    /\ UNCHANGED <<server, row, dir, chunk, dest, req, promises>>

\* The same remove_dir_all, and its error is ignored here too.
CleanChunks ==
    /\ cleaner.pc = "unlink"
    /\ \/ /\ \E i \in Idx : Unlink(cleaner.u, i)
          /\ UNCHANGED <<cleaner, mishaps>>
       \/ /\ chunk[cleaner.u] = NoChunks
          /\ cleaner' = [cleaner EXCEPT !.pc = "rmdir"]
          /\ UNCHANGED <<chunk, mishaps>>
       \/ /\ Mishap
          /\ cleaner' = [cleaner EXCEPT !.pc = "row"]
          /\ UNCHANGED chunk
    /\ UNCHANGED <<now, phase, row, dir, dest, req, promises>>

CleanStaging ==
    /\ cleaner.pc = "rmdir"
    /\ RemoveDir(cleaner.u)
    /\ cleaner' = [cleaner EXCEPT !.pc = "row"]
    /\ UNCHANGED <<server, row, chunk, dest, req, promises>>

CleanRow ==
    /\ cleaner.pc = "row"
    /\ \/ DropRow(cleaner.u) /\ UNCHANGED mishaps
       \/ Mishap /\ UNCHANGED row
    /\ Proceed(cleaner.todo \ {cleaner.u})
    /\ UNCHANGED <<now, dir, chunk, dest, req, promises>>

----------------------------------------------------------------------------
(* The environment *)

Tick ==
    /\ now < MaxTime
    /\ now' = now + 1
    /\ UNCHANGED <<phase, mishaps, row, dir, chunk, dest, req, cleaner, promises>>

Crash ==
    /\ phase # "down"
    /\ Mishap
    /\ phase' = "down"
    /\ req' = [r \in Reqs |-> Idle]
    /\ cleaner' = CleanerIdle
    /\ UNCHANGED <<now, row, dir, chunk, dest, promises>>

\* setup_database cleans up before the server is launched.
Restart ==
    /\ phase = "down"
    /\ phase' = "boot"
    /\ UNCHANGED <<now, mishaps, row, dir, chunk, dest, req, cleaner, promises>>

----------------------------------------------------------------------------

Start(r) ==
    \E u \in Uploads :
       \/ InitUpload(r, u)
       \/ \E i \in Idx : ReceiveChunk(r, u, i)
       \/ CompleteUpload(r, u)
       \/ CancelUpload(r, u)

Handle(r) ==
    \/ InsertRow(r)
    \/ EnsureStaging(r) \/ OpenChunk(r) \/ WriteChunk(r)
    \/ UpdateReceived(r)
    \/ CheckChunk(r) \/ CreateDest(r) \/ WriteHeader(r)
    \/ ReadChunk(r) \/ WriteSegment(r) \/ SealDest(r) \/ VerifyDest(r)
    \/ RemoveChunks(r) \/ RemoveStaging(r) \/ DeleteRow(r)

Clean ==
    \/ SelectExpired
    \/ \E u \in Uploads : CleanSession(u)
    \/ CleanChunks
    \/ CleanStaging
    \/ CleanRow

Next ==
    \/ \E r \in Reqs : Start(r) \/ Handle(r) \/ Fail(r)
    \/ Clean
    \/ Tick
    \/ Crash
    \/ Restart

Spec == Init /\ [][Next]_vars

\* The worker loop and the restarted process keep running; clients promise
\* nothing.
FairSpec == Spec /\ WF_vars(Clean) /\ WF_vars(Restart)

----------------------------------------------------------------------------
(* Properties *)

\* A destination file whose trailing hash matches was assembled from complete
\* chunks only: a chunk cut short by a crash, a failed write or a slow client
\* is caught by the bytes_read check of stream_encrypt_chunks_to_file before
\* the hash is written, whoever else writes to the same file meanwhile.
SealedIsWhole ==
    \A p \in Paths : HashOk(dest[p]) => \A c \in Cells : dest[p][c].whole

\* A chunk answered Ok by receive_chunk stays complete on disk until the
\* session has been assembled, its owner has cancelled it, or it has expired:
\* no retry, concurrent request, crash or cleanup pass takes it away before.
AckedChunkKept ==
    \A u \in Uploads : \A i \in acked[u] :
       \/ chunk[u][i] = "full"
       \/ u \in sealed
       \/ u \in cancelled
       \/ Expired(u)

\* A complete_upload is only ever answered Ok after its own session's chunks
\* were all read whole and hashed, and a session's row disappears only for one
\* of the three reasons a client can account for.
RowGoneForCause ==
    /\ \A u \in Uploads : <<"complete", u>> \in done => u \in sealed
    /\ \A u \in Uploads : row[u].st = "gone" =>
          u \in sealed \/ u \in cancelled \/ Expired(u)

\* Two requests never write one chunk file, and a chunk file, once complete,
\* is never opened for writing again: it changes only by being removed.
ChunkWrittenOnce ==
    [][\A u \in Uploads, i \in Idx :
         chunk[u][i] # "none" /\ chunk'[u][i] # chunk[u][i] =>
            \/ chunk'[u][i] = "none"
            \/ chunk[u][i] \in Reqs /\ chunk'[u][i] = "full"]_vars

\* Every expired session is eventually removed from the table by the cleanup
\* worker, also one whose chunks were cut short by a crash and which can never
\* complete, and whatever its owner does meanwhile.
ExpiredReclaimed ==
    \A u \in Uploads : Live(u) /\ row[u].exp < now ~> row[u].st = "gone"

\* routes/library.rs on chunked/cancel: "Cancel a chunked upload and remove
\* all staging artifacts."
CancelRemovesStaging ==
    \A u \in Uploads :
       <<"cancel", u>> \in done /\ (\A r \in Reqs : At(r, "idle")) => ~dir[u]

\* routes/library.rs on chunked/complete: "Assemble all uploaded chunks and
\* persist the final encrypted file."  Once complete was answered Ok and no
\* request is running, the file is readable, unless another session has been
\* started for the same path.
CompletedFilePersists ==
    \A u \in Uploads :
       /\ <<"complete", u>> \in done
       /\ \A r \in Reqs : At(r, "idle")
       /\ \A v \in Uploads \ {u} : Target[v] = Target[u] => row[v].st = "new"
       => HashOk(dest[Target[u]])
=============================================================================
