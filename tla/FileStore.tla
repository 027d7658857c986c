----------------------------- MODULE FileStore -----------------------------
(***************************************************************************)
(* The files of one library or space of IronDrive on disk: uploading,      *)
(* creating directories, deleting, renaming and downloading                *)
(* (services/fs_service.rs, utils/path_safety.rs, the file formats of      *)
(* services/crypto_service.rs) and the background scan that verifies them  *)
(* (services/integrity_service.rs, services/background/integrity_scan.rs). *)
(*                                                                         *)
(* Nothing locks a path.  Every system call is a step, and the requests    *)
(* interleave with each other and with the scan.  A file is an inode whose *)
(* content is a sequence of cells, each written by one upload: a           *)
(* single-shot file has a body and a hash, a STREAM file two segments and  *)
(* a hash.  What is authenticated by hash and key is accepted only if all  *)
(* its cells come from the same upload.  Any call may fail, and what the   *)
(* request has done before stays; a crash stops all requests between two   *)
(* steps; the disk may damage a cell.  The key is in memory: KeyCustody is *)
(* about when it is.                                                       *)
(***************************************************************************)
EXTENDS Integers, Sequences, FiniteSets

CONSTANTS
    Paths,        \* the paths that may exist
    Asked,        \* those that requests are about
    Stored,       \* the path of the file that is there from the start
    StoredFormat, \* and its format
    MaxAtOnce,    \* bound on the requests that run at a time
    MaxUploads,   \* bound on the uploads, numbered as they begin
    MaxRequests,  \* bound on the requests that begin
    MaxMishaps,   \* bound on crashes, damage, calls that fail and events not recorded
    None

ASSUME BoundAssumption ==
    /\ StoredFormat \in {"single", "stream"}
    /\ Stored \in Paths /\ Asked \subseteq Paths
    /\ {MaxAtOnce, MaxUploads, MaxRequests, MaxMishaps} \subseteq Nat
    /\ MaxUploads > 0
\* A path is a sequence of names, the root is no path, and what a path lies
\* below is a path.
ASSUME PathAssumption ==
    /\ Paths \subseteq Seq(STRING) /\ <<>> \notin Paths
    /\ \A p \in Paths : \A k \in 1..Len(p) - 1 : SubSeq(p, 1, k) \in Paths
ASSUME NoneAssumption ==
    None \notin {"single", "stream", "upload", "mkdir", "delete", "rename", "download"}

VARIABLES
    node,     \* node[p]: 0, Directory, or the inode named by p
    cells,    \* cells[i]: content of inode i, made by upload i
    kind,     \* kind[u]: "single" or "stream", chosen when u begins
    req,      \* req[r]: the request running in slot r
    scan,     \* the scan: the file it verifies, and those it has to visit
    events,   \* the paths for which integrity_events has a row
    begun, mishaps,
    \* History, not kept by the server:
    was,      \* while a change runs, the tree before it
    calm,     \* no two changes have overlapped, nothing crashed or broke, and
              \* no rename took a failed look for an answer
    quiet,    \* downloads, and the scan's visit, that no change has overlapped
    free      \* renames whose target was, or was taken to be, free at some time
              \* since they began

disk == <<node, cells, kind>>
history == <<was, calm, quiet, free>>
vars == <<disk, req, scan, events, begun, mishaps, history>>

Reqs == 1..MaxAtOnce
Uploads == 1..MaxUploads
Directory == MaxUploads + 1
Unreadable == MaxUploads + 2
Hole == 0
Damaged == -1

Below(q, p) == Len(p) < Len(q) /\ SubSeq(q, 1, Len(p)) = p
AtOrBelow(q, p) == q = p \/ Below(q, p)
Moved(q, old, new) == new \o SubSeq(q, Len(old) + 1, Len(q))

IsFile(p) == node[p] \in Uploads
IsDir(p) == node[p] = Directory
Present(p) == node[p] # 0
ParentThere(p) == \A q \in Paths : Below(p, q) => IsDir(q)

(***************************************************************************)
(* File formats.                                                           *)
(***************************************************************************)
CellCount == [single |-> 2, stream |-> 3]
Whole(u) == [k \in 1..CellCount[kind[u]] |-> u]

\* verify_file_hash and verify_file_hash_bytes: no key is needed.
HashMatches(content) == \E u \in Uploads : kind[u] # None /\ content = Whole(u)

\* The upload that is decrypted, or 0 for an error: every cell is
\* authenticated, and bound to its place and to the others by the nonce.
Opened(content, format) ==
    IF \E u \in Uploads : kind[u] = format /\ content = Whole(u)
    THEN CHOOSE u \in Uploads : kind[u] = format /\ content = Whole(u) ELSE 0
decrypt_file_bytes(content) == Opened(content, "single")
stream_decrypt_file(content) == Opened(content, "stream")

\* read_and_decrypt_file once it has asked is_stream_format.
decrypted(content, format) ==
    IF format = "stream" THEN stream_decrypt_file(content) ELSE decrypt_file_bytes(content)

\* is_stream_format: the magic bytes are part of the first cell.
is_stream_format(content) ==
    content # <<>> /\ content[1] \in Uploads /\ kind[content[1]] = "stream"
format_of(content) == IF is_stream_format(content) THEN "stream" ELSE "single"

(***************************************************************************)
(* The tree as a client sees it: at each path nothing, a directory, the    *)
(* upload that a download would deliver or a file that it cannot.          *)
(***************************************************************************)
Content(p) == IF IsFile(p) THEN decrypted(cells[node[p]], format_of(cells[node[p]])) ELSE 0
Readable(p) == Content(p) # 0
Tree == [p \in Paths |-> IF IsDir(p) THEN Directory
                          ELSE IF IsFile(p) /\ ~Readable(p) THEN Unreadable ELSE Content(p)]

\* todo[q]: what a deletion has still to do with q; level: the length of the
\* path that is made next.
Request(op, pc, p, new, u) ==
    [op |-> op, pc |-> pc, p |-> p, new |-> new, u |-> u, level |-> 0,
     todo |-> [q \in Paths |-> "keep"], file |-> 0, format |-> None, got |-> <<>>]
Idle == Request(None, "idle", <<>>, <<>>, 0)
Changes == {"upload", "mkdir", "delete", "rename"}
At(r, pc) == req[r].pc = pc
Goto(r, pc) == req' = [req EXCEPT ![r].pc = pc]
Finish(r) == req' = [req EXCEPT ![r] = Idle]
OnlyReq == UNCHANGED <<disk, scan, events, begun, mishaps>>
OnlyNode == UNCHANGED <<cells, kind, scan, events, begun, mishaps>>

(***************************************************************************)
(* safe_join: names that it refuses are not among Paths.  A file cannot be *)
(* walked through; what is not there yet may be created.                   *)
(***************************************************************************)
safe_join(p) == \A q \in Paths : Below(p, q) => ~IsFile(q)

\* The next upload in the order in which they begin.
NextUpload(u) == kind[u] = None /\ \A v \in 1..u - 1 : kind[v] # None

First == [upload |-> "dirs", mkdir |-> "dirs", delete |-> "stat",
          rename |-> "source", download |-> "open"]

\* The directory to be there: the one asked for, or the parent of the file or
\* of the rename's target.  The root, which always is, has length 0.
Parent(p) == SubSeq(p, 1, Len(p) - 1)
Wanted(q) == CASE q.op = "mkdir"  -> q.p
               [] q.op = "upload" -> Parent(q.p)
               [] q.op = "rename" -> Parent(q.new)

\* create_dir_all begins with the directory itself.
WantDirs(q) == [q EXCEPT !.pc = "dirs", !.level = Len(Wanted(q))]

Enter(r, op, p, new, u) ==
    LET q == Request(op, First[op], p, new, u)
    IN  req' = [req EXCEPT ![r] = IF q.pc = "dirs" THEN WantDirs(q) ELSE q]

\* A request whose path is accepted; one that is refused leaves no trace.
Begin(r) ==
    /\ At(r, "idle") /\ \A x \in 1..r - 1 : ~At(x, "idle")
    /\ begun < MaxRequests
    /\ begun' = begun + 1
    /\ \E p \in {q \in Asked : safe_join(q)} :
          \/ \E op \in {"mkdir", "delete", "download"} :
                Enter(r, op, p, <<>>, 0) /\ UNCHANGED kind
          \/ \E new \in {q \in Asked : safe_join(q)} :
                \* What lies below must have a name after the move.
                /\ \A q \in Paths : Below(q, p) => Moved(q, p, new) \in Paths
                /\ Enter(r, "rename", p, new, 0)
                /\ UNCHANGED kind
          \/ \E format \in {"single", "stream"}, u \in Uploads :
                /\ NextUpload(u)
                /\ kind' = [kind EXCEPT ![u] = format]
                /\ Enter(r, "upload", p, <<>>, u)
    /\ UNCHANGED <<node, cells, scan, events, mishaps>>

(***************************************************************************)
(* create_dir_all, for create_directory, for an upload and for a rename:   *)
(* mkdir(2) on the directory wanted ("dirs"); where its parent is missing, *)
(* on the parent first, and when that is there ("climb") on each below     *)
(* again, and then a parent that is missing is an error.  What is in the   *)
(* way is an error unless it is a directory.                               *)
(***************************************************************************)
\* Where the request goes on once the directory is there.
After(q) == IF q.op = "upload" THEN "create" ELSE "rename"

MakeDirectory(r) ==
    /\ At(r, "dirs") \/ At(r, "climb")
    /\ LET wanted == Wanted(req[r])
           level == req[r].level
           q == SubSeq(wanted, 1, level)
       IN  IF level = 0 \/ IsDir(q) \/ (~Present(q) /\ ParentThere(q))
           THEN /\ node' = IF level = 0 THEN node ELSE [node EXCEPT ![q] = Directory]
                /\ IF level < Len(wanted)
                   THEN req' = [req EXCEPT ![r].pc = "climb", ![r].level = level + 1]
                   ELSE IF req[r].op = "mkdir" THEN Finish(r) ELSE Goto(r, After(req[r]))
           ELSE /\ UNCHANGED node
                /\ IF At(r, "dirs") /\ ~Present(q) /\ safe_join(q)
                   THEN req' = [req EXCEPT ![r].level = level - 1]
                   ELSE Finish(r)
    /\ OnlyNode

(***************************************************************************)
(* Uploading: encrypt_and_write_file_owned, stream_encrypt_chunks_to_file. *)
(* File::create empties a file that is there and keeps its inode.          *)
(***************************************************************************)
\* Variant of CreateFile: what is there is overwritten without being emptied.
CreateFileKept(r) ==
    /\ At(r, "create")
    /\ LET p == req[r].p
           i == IF IsFile(p) THEN node[p] ELSE req[r].u
       IN  IF ParentThere(p) /\ ~IsDir(p)
           THEN /\ node' = [node EXCEPT ![p] = i]
                /\ req' = [req EXCEPT ![r].file = i, ![r].pc = "write"]
           ELSE UNCHANGED node /\ Finish(r)
    /\ UNCHANGED <<cells, kind, scan, events, begun, mishaps>>

CreateFile(r) ==
    /\ At(r, "create")
    /\ LET p == req[r].p
           i == IF IsFile(p) THEN node[p] ELSE req[r].u
       IN  IF ParentThere(p) /\ ~IsDir(p)
           THEN /\ node' = [node EXCEPT ![p] = i]
                /\ cells' = [cells EXCEPT ![i] = <<>>]
                /\ req' = [req EXCEPT ![r].file = i, ![r].pc = "write"]
           ELSE UNCHANGED <<node, cells>> /\ Finish(r)
    /\ UNCHANGED <<kind, scan, events, begun, mishaps>>

\* Cell k is written at its own place, whatever others did to the file.
Written(content, k, u) ==
    [j \in 1..(IF k > Len(content) THEN k ELSE Len(content)) |->
        IF j = k THEN u ELSE IF j <= Len(content) THEN content[j] ELSE Hole]

\* Variant of WriteCell: one cell too many is written.
WriteCellBeyond(r) ==
    /\ At(r, "write")
    /\ LET u == req[r].u
           k == Len(req[r].got) + 1
       IN  /\ cells' = [cells EXCEPT ![req[r].file] = Written(cells[req[r].file], k, u)]
           /\ IF k <= CellCount[kind[u]]
              THEN req' = [req EXCEPT ![r].got = Append(req[r].got, u)]
              ELSE Finish(r)
    /\ UNCHANGED <<node, kind, scan, events, begun, mishaps>>

\* got: what has been written.  write_verify reads the file back after the
\* last cell; an error then changes only the answer.
WriteCell(r) ==
    /\ At(r, "write")
    /\ LET u == req[r].u
           k == Len(req[r].got) + 1
       IN  /\ cells' = [cells EXCEPT ![req[r].file] = Written(cells[req[r].file], k, u)]
           /\ IF k < CellCount[kind[u]]
              THEN req' = [req EXCEPT ![r].got = Append(req[r].got, u)]
              ELSE Finish(r)
    /\ UNCHANGED <<node, kind, scan, events, begun, mishaps>>

(***************************************************************************)
(* delete_entry: remove_file or remove_dir_all, as the stat says.  The     *)
(* latter opens and reads each directory when it comes to it, and takes    *)
(* out first what it found there; a child that is gone is passed over.     *)
(***************************************************************************)
Doing(r, q, what) == req' = [req EXCEPT ![r].todo[q] = what]

StatEntry(r) ==
    /\ At(r, "stat")
    /\ LET p == req[r].p
       IN  IF Present(p)
           THEN req' = [req EXCEPT ![r].pc = "remove",
                                   ![r].todo[p] = IF IsDir(p) THEN "open" ELSE "unlink"]
           ELSE Finish(r)
    /\ OnlyReq

Found(q, x) == Below(x, q) /\ Len(x) = Len(q) + 1 /\ Present(x)

\* A child that is no directory any more is unlinked; the entry asked for has
\* to be one.
OpenDirectory(r) ==
    /\ At(r, "remove")
    /\ \E q \in Paths :
          /\ req[r].todo[q] = "open"
          /\ IF IsDir(q)
             THEN req' = [req EXCEPT ![r].todo = [x \in Paths |->
                     IF x = q THEN "rmdir"
                     ELSE IF Found(q, x) THEN IF IsDir(x) THEN "open" ELSE "unlink"
                     ELSE req[r].todo[x]]]
             ELSE IF q = req[r].p THEN Finish(r)
             ELSE Doing(r, q, IF IsFile(q) THEN "unlink" ELSE "keep")
    /\ OnlyReq

\* unlink(2) wants a file and rmdir(2) an empty directory.
Removable(q, how) ==
    IF how = "unlink" THEN IsFile(q)
    ELSE IsDir(q) /\ \A x \in Paths : Below(x, q) => ~Present(x)

RemoveNext(r) ==
    /\ At(r, "remove")
    /\ \E q \in Paths :
          /\ req[r].todo[q] \in {"unlink", "rmdir"}
          /\ \A x \in Paths : Below(x, q) => req[r].todo[x] = "keep"
          /\ node' = IF Removable(q, req[r].todo[q]) THEN [node EXCEPT ![q] = 0] ELSE node
          /\ IF q # req[r].p /\ (Removable(q, req[r].todo[q]) \/ ~Present(q))
             THEN Doing(r, q, "keep") ELSE Finish(r)
    /\ OnlyNode

(***************************************************************************)
(* rename_entry: two checks, the parents, and rename(2).                   *)
(***************************************************************************)
CheckSource(r) ==
    /\ At(r, "source")
    /\ IF Present(req[r].p) THEN Goto(r, "dest") ELSE Finish(r)
    /\ OnlyReq

\* Variant of CheckDest: only a directory is in the way.
CheckDestDirectory(r) ==
    /\ At(r, "dest")
    /\ IF IsDir(req[r].new) THEN Finish(r) ELSE req' = [req EXCEPT ![r] = WantDirs(@)]
    /\ OnlyReq

CheckDest(r) ==
    /\ At(r, "dest")
    /\ IF Present(req[r].new) THEN Finish(r) ELSE req' = [req EXCEPT ![r] = WantDirs(@)]
    /\ OnlyReq

\* rename(2): a file replaces a file, a directory an empty directory.
Replaceable(old, new) ==
    \/ ~Present(new)
    \/ IsFile(old) /\ IsFile(new)
    \/ IsDir(old) /\ IsDir(new) /\ \A q \in Paths : Below(q, new) => ~Present(q)

Rename(r) ==
    /\ At(r, "rename")
    /\ LET old == req[r].p
           new == req[r].new
           moving == {q \in Paths : AtOrBelow(q, old)}
       IN  node' =
              IF /\ Present(old) /\ ParentThere(new)
                 /\ ~AtOrBelow(new, old) /\ Replaceable(old, new)
              THEN [q \in Paths |->
                      IF \E x \in moving : Moved(x, old, new) = q
                      THEN node[CHOOSE x \in moving : Moved(x, old, new) = q]
                      ELSE IF q \in moving THEN 0 ELSE node[q]]
              ELSE node
    /\ Finish(r)
    /\ OnlyNode

(***************************************************************************)
(* download_file: the format is looked at, and then the path opened again. *)
(***************************************************************************)
\* Variant of FindFormat: every file is taken for a single-shot file.
FindFormatSingle(r) ==
    /\ At(r, "open")
    /\ IF IsFile(req[r].p)
       THEN req' = [req EXCEPT ![r].pc = "reopen", ![r].format = "single"]
       ELSE Finish(r)
    /\ OnlyReq

FindFormat(r) ==
    /\ At(r, "open")
    /\ IF IsFile(req[r].p)
       THEN req' = [req EXCEPT ![r].pc = "reopen",
                               ![r].format = format_of(cells[node[req[r].p]])]
       ELSE Finish(r)
    /\ OnlyReq

Reopen(r) ==
    /\ At(r, "reopen")
    /\ IF IsFile(req[r].p)
       THEN req' = [req EXCEPT ![r].pc = "read", ![r].file = node[req[r].p]]
       ELSE Finish(r)
    /\ OnlyReq

\* A cell at a time, up to what is the end of the file by then.
ReadCell(r) ==
    /\ At(r, "read")
    /\ LET at == Len(req[r].got) + 1
           content == cells[req[r].file]
       IN  req' = IF at <= Len(content)
                  THEN [req EXCEPT ![r].got = Append(req[r].got, content[at])]
                  ELSE [req EXCEPT ![r] = Request("download", "answer", req[r].p, <<>>,
                                               decrypted(req[r].got, req[r].format))]
    /\ OnlyReq

Answer(r) == At(r, "answer") /\ Finish(r) /\ OnlyReq

Handle(r) == \/ Begin(r) \/ MakeDirectory(r) \/ CreateFile(r) \/ WriteCell(r)
             \/ StatEntry(r) \/ OpenDirectory(r) \/ RemoveNext(r)
             \/ CheckSource(r) \/ CheckDest(r) \/ Rename(r)
             \/ FindFormat(r) \/ Reopen(r) \/ ReadCell(r) \/ Answer(r)

(***************************************************************************)
(* The scan: integrity_scan_loop, run_scan, scan_directory.  It visits the *)
(* files that were there when it woke up: it looks whether there is still  *)
(* one, and then verifies it.                                              *)
(***************************************************************************)
Scan(pc, todo, p, format) == [pc |-> pc, todo |-> todo, p |-> p, format |-> format]
Asleep == Scan("walk", {}, <<>>, None)

\* The files that the pass has still to visit; a new one starts when it ends.
Pass == IF scan.todo = {} THEN {p \in Paths : IsFile(p)} ELSE scan.todo

StatFile ==
    /\ scan.pc = "walk"
    /\ \E p \in Pass : scan' = IF IsFile(p) THEN Scan("hash", Pass \ {p}, p, None)
                                ELSE Scan("walk", Pass \ {p}, <<>>, None)
    /\ UNCHANGED <<disk, req, events, begun, mishaps>>

(***************************************************************************)
(* verify_file_integrity_async opens the file for its hash, for its format *)
(* and to decrypt it; the first two are one step here.  A file that is     *)
(* gone by now fails too.  When record_event returns an error it is logged *)
(* and the walk goes on.                                                   *)
(***************************************************************************)
Walk == scan' = Scan("walk", scan.todo, <<>>, None)
Decrypt(format) ==
    scan' = Scan("decrypt", scan.todo, scan.p, format) /\ UNCHANGED <<events, mishaps>>
Report ==
    /\ Walk
    /\ \/ events' = events \cup {scan.p} /\ UNCHANGED mishaps
       \/ mishaps < MaxMishaps /\ mishaps' = mishaps + 1 /\ UNCHANGED events

\* Variant of CheckHash: an empty file is no failure.
CheckHashNonEmpty ==
    /\ scan.pc = "hash"
    /\ IF ~IsFile(scan.p) THEN Report
       ELSE IF cells[node[scan.p]] = <<>> THEN Walk /\ UNCHANGED <<events, mishaps>>
       ELSE IF HashMatches(cells[node[scan.p]])
            THEN Decrypt(format_of(cells[node[scan.p]])) ELSE Report
    /\ UNCHANGED <<disk, req, begun>>

\* Variant of CheckHash: every file is taken for a single-shot file.
CheckHashSingle ==
    /\ scan.pc = "hash"
    /\ IF IsFile(scan.p) /\ HashMatches(cells[node[scan.p]]) THEN Decrypt("single") ELSE Report
    /\ UNCHANGED <<disk, req, begun>>

CheckHash ==
    /\ scan.pc = "hash"
    /\ IF IsFile(scan.p) /\ HashMatches(cells[node[scan.p]])
       THEN Decrypt(format_of(cells[node[scan.p]])) ELSE Report
    /\ UNCHANGED <<disk, req, begun>>

CheckTags ==
    /\ scan.pc = "decrypt"
    /\ IF IsFile(scan.p) /\ decrypted(cells[node[scan.p]], scan.format) # 0
       THEN Walk /\ UNCHANGED <<events, mishaps>> ELSE Report
    /\ UNCHANGED <<disk, req, begun>>

Scanner == StatFile \/ CheckHash \/ CheckTags

(***************************************************************************)
(* What goes wrong.                                                        *)
(***************************************************************************)
\* A call of the request fails and ends it.  What it has done stays: made
\* directories, an emptied file or a part of it, and entries taken out.  A
\* write may stop within the cell.  With a chunk missing, or too short, the
\* upload ends as by a write that fails.
Fail(r) ==
    /\ req[r].pc \notin {"idle", "dest", "answer"}
    /\ mishaps < MaxMishaps
    /\ mishaps' = mishaps + 1
    /\ LET i == req[r].file
           torn == Written(cells[i], Len(req[r].got) + 1, Damaged)
       IN  \/ UNCHANGED cells
           \/ At(r, "write") /\ cells' = [cells EXCEPT ![i] = torn]
    /\ Finish(r)
    /\ UNCHANGED <<node, kind, scan, events, begun>>

\* A look that fails is taken for a "no": try_exists(..).unwrap_or(false) at
\* the target of a rename, and is_stream_format in a download.
Mislead(r) ==
    /\ mishaps < MaxMishaps
    /\ mishaps' = mishaps + 1
    /\ \/ At(r, "dest") /\ req' = [req EXCEPT ![r] = WantDirs(@)]
       \/ /\ At(r, "open") /\ IsFile(req[r].p)
          /\ req' = [req EXCEPT ![r].pc = "reopen", ![r].format = "single"]
    /\ UNCHANGED <<disk, scan, events, begun>>

\* The scan passes over a file whose stat fails and reports one whose reading
\* does; a look for the format that fails is a "no" here, too.
ScanFails ==
    /\ mishaps < MaxMishaps
    /\ mishaps' = mishaps + 1
    /\ \/ /\ scan.pc = "walk"
          /\ \E p \in Pass : scan' = Scan("walk", Pass \ {p}, <<>>, None)
          /\ UNCHANGED events
       \/ scan.pc # "walk" /\ Walk /\ events' = events \cup {scan.p}
       \/ /\ scan.pc = "hash" /\ IsFile(scan.p) /\ HashMatches(cells[node[scan.p]])
          /\ scan' = Scan("decrypt", scan.todo, scan.p, "single")
          /\ UNCHANGED events
    /\ UNCHANGED <<disk, req, begun>>

\* With no request running a restart changes nothing here.
Crash ==
    /\ mishaps < MaxMishaps
    /\ \E r \in Reqs : ~At(r, "idle")
    /\ mishaps' = mishaps + 1
    /\ req' = [r \in Reqs |-> Idle]
    /\ scan' = Asleep
    /\ UNCHANGED <<disk, events, begun>>

Damage ==
    /\ mishaps < MaxMishaps
    /\ mishaps' = mishaps + 1
    /\ \E p \in Paths : /\ IsFile(p)
                        /\ \E k \in DOMAIN cells[node[p]] :
                              cells' = [cells EXCEPT ![node[p]][k] = Damaged]
    /\ UNCHANGED <<node, kind, req, scan, events, begun>>

(***************************************************************************)
(* History.                                                                *)
(***************************************************************************)
Changing == {r \in Reqs : req[r].op \in Changes}
Readers == {r \in Reqs : req[r].op = "download"}
           \cup (IF scan.pc # "walk" THEN {0} ELSE {})
Renames == {r \in Reqs : req[r].op = "rename"}
Nothing == [p \in Paths |-> 0]

\* broken: the step is a crash or damage; misled: those that take a look that
\* fails in this step for an answer.  The scan's visit is the reader 0.
Observe(broken, misled) ==
    /\ calm' = (calm /\ ~broken /\ Changing \cap misled = {} /\ Cardinality(Changing') <= 1)
    /\ was' = IF ~calm' \/ Changing' = {} THEN Nothing
              ELSE IF Changing = {} THEN Tree ELSE was
    /\ quiet' = {a \in Readers' \ misled : /\ a \in quiet \/ a \notin Readers
                                           /\ Changing \cup Changing' = {} /\ ~broken}
    /\ free' = {r \in Renames' : r \in free \cup misled \/ node'[req'[r].new] = 0}

\* The server starts with one file that it has stored before.
Init ==
    /\ node = [q \in Paths |-> IF q = Stored THEN 1
                             ELSE IF Below(Stored, q) THEN Directory ELSE 0]
    /\ kind = [u \in Uploads |-> IF u = 1 THEN StoredFormat ELSE None]
    /\ cells = [u \in Uploads |-> IF kind[u] = None THEN <<>> ELSE Whole(u)]
    /\ req = [r \in Reqs |-> Idle]
    /\ scan = Asleep
    /\ events = {}
    /\ begun = 0 /\ mishaps = 0
    /\ was = Nothing /\ calm = TRUE
    /\ quiet = {} /\ free = {}

Next == \/ ((\E r \in Reqs : Handle(r) \/ Fail(r)) \/ Scanner) /\ Observe(FALSE, {})
        \/ \E r \in Reqs : Mislead(r) /\ Observe(FALSE, {r})
        \/ ScanFails /\ Observe(FALSE, {0})
        \/ (Crash \/ Damage) /\ Observe(TRUE, {})

Spec == Init /\ [][Next]_vars

\* The scan is a task of its own that goes on for as long as the server runs.
FairSpec == Spec /\ WF_scan(Scanner)

-----------------------------------------------------------------------------
\* The types; a writer has an inode, and no file has more cells than a format.
TypeOK ==
    /\ node \in [Paths -> 0..Directory]
    /\ \A u \in Uploads : Len(cells[u]) <= 3 /\ kind[u] \in {"single", "stream", None}
    /\ \A r \in Reqs : /\ req[r].file \in 0..MaxUploads /\ Len(req[r].got) <= 3
                       /\ At(r, "write") => req[r].file # 0 /\ req[r].u # 0
    /\ events \subseteq Paths /\ scan.todo \subseteq Paths

\* A request that changes the tree and runs alone is atomic: until it answers
\* nobody sees its parts, and then the tree is as after one step of FileTree.
\* The parts are its system calls; the mapping shows the tree from before
\* while a change runs.
Atomic == INSTANCE FileTree WITH
             tree <- IF ~calm THEN Nothing ELSE IF Changing = {} THEN Tree ELSE was
AloneIsAtomic == Atomic!Spec

\* And it does what was asked: an upload replaces what is there and can be
\* read back, a deletion removes the whole directory, a rename takes along all
\* that is below and refuses a name that is taken.  A change that a failed call
\* has ended leaves no more than a part of that: directories on the way, an
\* unreadable file at the upload's own path (what was there is lost), or some
\* of what is below the directory deleted.
Result(q, t) == CASE q.op = "upload" -> Atomic!AfterUpload(t, q.p, q.u)
                  [] q.op = "mkdir"  -> Atomic!AfterMkdir(t, q.p)
                  [] q.op = "delete" -> Atomic!AfterDelete(t, q.p)
                  [] q.op = "rename" -> Atomic!AfterRename(t, q.p, q.new)
Parts(q, t) == CASE q.op = "upload" -> Atomic!PartsOfUpload(t, q.p)
                 [] q.op = "mkdir"  -> Atomic!PartsOfMkdir(t, q.p)
                 [] q.op = "delete" -> Atomic!PartsOfDelete(t, q.p)
                 [] q.op = "rename" -> Atomic!PartsOfRename(t, q.p, q.new)
AloneAsAsked ==
    [][\A r \in Changing : calm' /\ Changing' = {} =>
         IF mishaps' = mishaps THEN Tree' = Result(req[r], was)
         ELSE Tree' \in Parts(req[r], was)]_vars

\* A download during which nothing changes delivers the upload that is stored
\* at the path, and, unless a call fails, it fails only if none is: looking for
\* the format and reading are two openings of the file, and they agree.
QuietReads ==
    \A r \in Reqs : At(r, "answer") /\ r \in quiet => req[r].u = Content(req[r].p)

\* rename(2) replaces what has come to the target since the check.  The comment
\* on rename_entry allows "an unexpected overwrite" for this: it is limited to
\* a target that was free at some time during the request, or whose check
\* failed (an error of try_exists is taken for "absent").
ReplacedOnlyByRace ==
    [][\A r \in Reqs : At(r, "rename") /\ Present(req[r].new)
                       /\ node'[req[r].new] # node[req[r].new] => r \in free]_vars

\* The scan reports a file only if it cannot be read, a call of the visit fails,
\* or it was being changed or removed during the visit: a file of either format
\* that has been stored and is left alone is never reported.  (An upload in the
\* other format between the visit's two readings can be, however well it ended.)
ReportedForCause ==
    [][events' # events /\ 0 \in quiet /\ mishaps' = mishaps => ~Readable(scan.p)]_vars

\* A file that cannot be read, left half-written by a crash or by an upload
\* that failed, or damaged on the disk, is reported, unless it is replaced or
\* removed or can be read again.
DamageReported ==
    \A p \in Paths : (IsFile(p) /\ ~Readable(p))
                         ~> (p \in events \/ ~IsFile(p) \/ Readable(p))
=============================================================================
