# IronDrive in TLA+

IronDrive is a self-hosted encrypted file server: one Rust process (Rocket, SQLite,
a data directory), personal libraries and shared spaces whose files are encrypted at
rest, chunked uploads, groups, and background workers. This directory holds TLA+
models of its services, the TLC configurations that check them on small instances,
and TLAPS proofs. Paths below are relative to the repository.

Run from this directory:

    tlc -workers 2 -config MCChunkedUpload.cfg MCChunkedUpload
    tlapm ChunkedUploadProofs.tla

`PROJECT.json` lists the runs, the code lines behind every definition (`map`), a
mutated definition for every property that shows the property can fail (`mutants`),
the hazards and the findings.

## 1. Inventory

| component | state it keeps | operations | module |
|---|---|---|---|
| chunked uploads (`services/chunk_service.rs`, `background/chunk_cleanup.rs`) | `chunked_uploads` rows, `.chunks/<id>/NNN.chunk` files | init, receive, complete, cancel, cleanup of expired sessions | `ChunkedUpload`, `ChunkSizes` |
| streaming encryption (`services/crypto_service.rs`) | the destination file | header, segments, trailing SHA-256, verification | `ChunkedUpload`, `FileStore` |
| key hierarchy and boot (`config.rs`, `crypto_service.rs`, `main.rs`) | `.secret_key`, the master key row of `server_config` | resolve secret, load or create master key, load data keys | `KeyCustody` |
| unlock state (`services/unlock_state.rs`) | data keys in memory | insert, get, remove | `KeyCustody` |
| library setup (`services/library_service.rs`, `models/library.rs`, `models/user.rs`) | `personal_libraries`, `users.setup_complete`, the library directory | setup with rollback | `KeyCustody` |
| spaces (`services/space_service.rs`, `models/space.rs`, `guards/space_guard.rs`) | `spaces`, `space_access`, the space directory | create, rename, delete, grant, change and revoke access | `AccessControl`, `KeyCustody` |
| groups (`services/group_service.rs`, `models/group.rs`) | `groups`, `group_members` | create, rename, delete, members and roles | `AccessControl` |
| accounts and sessions (`services/auth_service.rs`, `models/user.rs`, `models/session.rs`, `rate_limit.rs`, `guards/`, `background/session_cleanup.rs`) | `users`, `sessions`, counters in memory | register, login, validate, logout, limit attempts, prune | `AuthSessions` |
| file store (`services/fs_service.rs`, `utils/path_safety.rs`) | encrypted files and directories | upload, mkdir, download, rename or move, delete | `FileStore` over `FileTree` |
| integrity (`services/integrity_service.rs`, `background/integrity_scan.rs`) | `integrity_events` | verify one file, scan all, record | `FileStore` |
| database (`db.rs`, `migrations/`) | schema, `_migrations` | apply migrations at boot | `Migrations` |
| API and pages (`routes/`, `guards/`) | none | guard, authorise, read the body, call a service, answer or redirect | `Routes` run by `Surface` |
| browser client, templates, formatting (`static/js/`, `templates/`) | none on the server | | not modelled |

How they interact. Requests are Rocket tasks that run concurrently and share the
connection pool, the disk and `UnlockState`; there is no lock around a session, a
file, a library or a space. A single SQL statement or system call is atomic, a
handler is not: at every `.await` any other task may step. The background workers are
three more tasks. The disk and the database survive a crash, memory does not, and no
transaction spans both.

What is hard, and therefore what the properties are about: handlers overlapping on one
upload session or one destination file; check-then-act over an await; crashes and failed
calls between two steps; best-effort rollbacks; a session expiring under a running handler;
first boots racing on two stores (a file and a table) at once; the worker that must reclaim
what no client ever will; a permission checked in one statement and used in a later one; a
tree of files changed by several requests and read by a scan, with no lock on a path; a
schema made by statements that commit one by one; two hundred guards, written twice, once
for pages and once for the API. The full list, each at its line, is `hazards` in
`PROJECT.json`.

## 2. Modules

Each component has a module; the `MC` module beside it only names the values of the
constants for TLC, the `Proofs` module holds its theorems. `FileTree` is the abstract
specification that `FileStore` implements; `Surface` executes the table `Routes`. The
components meet in the database and the disk, so that what one relies on is what another
shows: `Surface` takes a service for a step that succeeds, fails before its change or fails
behind it, and shows which rights its caller had, `AccessControl` and `AuthSessions` decide
those rights statement by statement; `FileStore` takes the key for granted, `KeyCustody`
shows when it is in memory; `ChunkedUpload` writes the destination cell by cell, `FileStore`
says who reads it.

### ChunkedUpload

A session is a row, a staging directory and chunk files. The state and the code:

| variable | code |
|---|---|
| `row[u]` | the `chunked_uploads` row: not yet minted, minted (INSERT pending), live, gone; `exp` is `expires_at` |
| `dir[u]`, `chunk[u][i]` | staging directory and chunk file: absent, complete, or created by a request that has not finished (and after a crash never will) |
| `dest[p]` | the destination as cells: header, one per segment, trailing hash. A cell remembers its writer and session, and whether all that writer had read was whole |
| `req[r]` | a running handler: its program counter, session and chunk index |
| `cleaner` | `cleanup_expired_uploads`: selected rows and its place in the loop |
| `acked`, `sealed`, `cancelled`, `done` | history: what clients were told. The server keeps none of it and no action reads it |

One action per await-to-await step. `init_upload` is `InitUpload, InsertRow`;
`receive_chunk` is `ReceiveChunk, EnsureStaging, OpenChunk, WriteChunk,
UpdateReceived`; `complete_upload` is `CompleteUpload, CheckChunk, CreateDest,
WriteHeader, ReadChunk, WriteSegment, SealDest, VerifyDest, RemoveChunks,
RemoveStaging, DeleteRow`; `cancel_upload` is `CancelUpload, RemoveChunks,
RemoveStaging, DeleteRow`; the worker is `SelectExpired, CleanSession, CleanChunks,
CleanStaging, CleanRow`. `remove_dir_all` unlinks one file at a time and then removes
the directory, which fails if it has been filled again. `Fail` is an error of any call
that the handler reports; errors the code ignores (`let _ =`) are disjuncts of their
action. `Crash` ends all requests and the worker; `Restart` runs the cleanup of
`setup_database` before requests are accepted.

A write to an unlinked chunk file succeeds and is lost (POSIX). Two completes of one
path hold file positions of their own: the second truncates, the first goes on at its
offset, and a hole remains.

Abstractions: bytes, names and sizes are left out; every session has `NumChunks`
chunks; a chunk is whole or short. Requests of users other than the owner are answered
NotFound before they touch anything and are left out, as are requests refused on their
arguments. `received_chunks` is written and never read and is left out.

### KeyCustody

The secret key (environment or `.secret_key`) wraps the master key (one row), which
wraps the data keys of libraries and spaces; a serving process holds the data keys in
memory. `proc[p]` is a process with its place in the boot, its secret and master key
and its `UnlockState`; `row`, `dir`, `complete` are the rows, the directories and
`users.setup_complete`; `req[r]` a running setup, creation or deletion.

The boot is `ReadSecret, TruncateSecretFile, WriteSecretFile` (`resolve_secret_key`,
`persist_secret_key`), `LoadMaster, StoreMaster, ConfirmMaster`
(`bootstrap_master_key`), `LoadLibraryKeys, LoadSpaceKeys`, `Launch`. The bound port is
external: one process serves, another one's launch fails. `setup_library` is
`SetupLibrary, InsertRow, MakeDir, UnlockVault, MarkComplete`, with the rollbacks
`UndoDir` and `UndoRow`, each of which may fail; `create_space` and
`create_group_space` share its steps up to `UnlockVault`; `delete_space` is
`DeleteSpace, DeleteRow, DropKey, RemoveSpaceDir`. A library and a space are both
vaults, told apart by their owner.

Abstractions: a key is a name, a wrapped key is a pair of names, and unwrapping with
another key fails (AES-GCM). Permissions are not modelled here: any space may be
deleted. The loops of `load_server_mode_keys` are one step, because the SELECT is.
The two reads at the start of `setup_library` are one step; `INSERT` repeats the
second of them (UNIQUE).

### AccessControl

| variable | code |
|---|---|
| `group[g]`, `member[g][u]` | rows of `groups` (`created_by`, `name`) and `group_members` (`role`) |
| `space[s]`, `access[s][w]` | rows of `spaces` (its owner, a user or a group) and `space_access`; a grantee is a typed id |
| `minted` | the ids used: a UUID is never minted again |
| `req[r]` | a running handler: operation, place, user, target, arguments |
| `entitled[r]` | history: the request's user had the right it takes at some time during the request |

Every handler is its statements in order: the guard of the route (`SpaceReader`,
`SpaceWriter`, `SpaceAdmin` and their session twins), the service's own look-ups
(`require_member`, `require_manager_or_owner`, `require_permission`,
`check_space_permission`), and the write. `DeleteGroupRow` and `DeleteSpaceRow` include
what the schema cascades and what the code deletes beside it. The permission of a user
on a space is computed by three queries of `models/space.rs`: `find_for_user`,
`resolve_user_permission` and the list `find_all_for_user`, each translated from its
own SQL; all three take the highest rank (`Best`).

Abstractions: users are logged in and never deleted; the answer of a request and the
lists of members and grants are left out; a space is a row here, its directory and key
are in `KeyCustody`. `rename` of a space writes a column nothing here reads.

### Routes and Surface

`Routes` is the HTTP surface as data: one definition per handler of `routes/*.rs`
(112 of them), the sequence of what it asks (guards first, in the order of the
signature), validates, reads from the body, and calls. A helper of the code is a helper
here (`require_library`, `validate_csrf`, the guard types, `Sweep` for the loops of bulk
requests). `Surface` runs one request of one client through the table, and on through
the pages it is redirected to; `Elsewhere` is what other tabs and other users do
meanwhile: the session ends, a role or a grant changes, the library is set up.
`seen` accumulates the facts that have been true during the request, from what the
guards could look at. A service that repeats the authorisation itself does so in
`OwnCheck`. A call that reports an error may have changed nothing or have made its
change (`CallStep`): `create_group` fails at its second INSERT, an upload behind its
truncation, the rollback of a library's setup with it (`MarkStep`). The queries that
read a change back for the answer may fail at any time (`RereadStep`). The logout page
drops the error and the cookie (`TryStep`, `Dismisses`).

Abstractions: a client stands in one relation to the one space or group of the URL.
Rendering, forms and JSON are left out; a body is a number of bytes, read up to a
limit, cut where the code cuts it (`BodyStep`).

### AuthSessions

`account[n]`, `token[t]`/`rows`, `attempts[key]` are the rows of `users` and `sessions` and
the limiter's entries in memory; `answered`, `ended`, `let_in`, `denied` are history (the
tokens whose logout has been answered as done, those of them whose row was gone then, and
the times at which the limiter let an attempt in). Register is `CheckFirst, FindName,
FindEmail, InsertUser`; login is `VerifyPassword, CheckActive, CreateSession`; a guarded
request `FindSession, CheckExpiry, LoadUser`, and logout goes on with `DeleteSession`. The
API's logout stands behind the guard and answers an error with an error; the page's
(`logout_submit`) takes a guard that fails or refuses for no user, drops the error of the
deletion, and answers as done in every case. `Begin` includes the limiter's check, which
holds the entry's lock. The worker is `Prune`. `Fail` is a statement that fails (for the
page's logout: an answer as ever over a row that stays), `SetActive` an operator who
deactivates or reactivates an account in the database (`is_active` has no handler), `Crash`
drops the requests and the counters.

`normalize_username` and `normalize_email` work on characters, as far as the rules tell
characters apart: two spellings of one name must meet at one row.

Abstractions: a password is right or wrong, a token is an id only its login hands out,
one client address, so one counter per kind. The order of hashing and comparing, and
with it timing, is left out; so is a page logout that fails its CSRF check, which
redirects to the login page without having done anything.

### FileStore and FileTree

| variable | code |
|---|---|
| `node[p]` | the directory entry: nothing, a directory, an inode |
| `cells[i]`, `kind[u]` | the content of an inode, cell by cell, each by an upload; the format of an upload |
| `req[r]` | a running handler: place, path, new path, upload, what it has read or written; `level`, the directory of the path that is made next; `todo[q]`, what a deletion has still to do with `q` |
| `scan`, `events` | the integrity scan's list and place; paths with a row in `integrity_events` |
| `was`, `calm`, `quiet`, `free` | history: the tree before a change; no overlap, crash, damage or misread look so far; readers that nothing overlapped; renames whose target was free at some time or could not be looked at |

One action per system call: `create_dir_all` level by level (`MakeDirectory`: the
directory itself first, then up to the first parent that is there and down again), open
with truncation (`CreateFile`), write (`WriteCell`); `StatEntry`, and then
`remove_dir_all` as `OpenDirectory` and `RemoveNext`, which list each directory when
they come to it, or the one unlink (`RemoveNext`) that the stat has chosen, even if the
entry has changed its type since; `CheckSource, CheckDest, MakeDirectory, Rename` for
`rename_entry`; `FindFormat, Reopen, ReadCell, Answer` for a download, which opens the
file once for its format and again to read it; and the scan's `StatFile, CheckHash,
CheckTags`. A file can be decrypted if all its cells are by one upload in one format.
`rename(2)` follows POSIX: it replaces a file, or an empty directory by a directory.

Any call may fail. `Fail` ends a request with what it has done by then: parents made,
the old file emptied, cells written, the last of them perhaps in part. (A chunk that
cannot be read, or whose length does not add up, ends an upload in the same state.)
`Mislead` is the error that the code takes for a "no": `try_exists(..).unwrap_or(false)`
at the target of a rename, and `is_stream_format`. `ScanFails` is both for the scan.

`FileTree` is what a user working alone is promised: a tree on which each change happens
at once, or not at all, or, if a call fails, in one of the parts that it names (`Part`):
of an upload parents and a file that cannot be read, of a mkdir or a rename
parents, of a deletion some of what was below. `FileStore` implements it under the
mapping that shows the tree from before while a change runs (`AloneIsAtomic`), and a
change leaves a part only where a call has failed (`AloneAsAsked`).

Abstractions: libraries and spaces are twins in the code and share the model;
`write_verify` reads back what was just written and, failing, changes only the answer, as
does a failing flush behind the last write; the hash
and the format readings of the scan are one step each; a page of a chunked download is
one download and a slice (`ChunkSizes` has the slices). Listings, usage and MIME types are
left out.

### Migrations

`run_migrations` by statements: `Boot` (make `_migrations`, list and sort the files),
`SelectApplied`, `ApplyStatement` (SQLite commits each statement of `raw_sql` by itself),
`RecordApplied`. `objects[f]` are the statements of file `f` whose table or index is there;
a statement says IF NOT EXISTS or fails when its object is there, and a failing process ends
and is started again. `Release` adds a file after those that are there, as their numbers do;
`Upgrade` ends a process to start it on the new release.

### ChunkSizes

The arithmetic of `chunk_service.rs` (`expected_total_chunks` with its cast to u32,
`expected_chunk_len` with its saturation, the checks of `init_upload` and
`receive_chunk`, the slices of `serve_chunk`) and of the browser's cuts. It has no state
and no run: its theorems are proved for all sizes.

## 3. Runs

| run | instance | result |
|---|---|---|
| `chunked_upload` | 1 session of 2 chunks, 2 requests, 1 mishap, expiry in reach | `TypeOK`, `SealedIsWhole`, `AckedChunkKept`, `RowGoneForCause`, `ChunkWrittenOnce` hold; 705k states |
| `chunked_upload_reclaim` | 2 sessions for one path, 1 request, 1 mishap, expiry and cleanup in reach | `AckedChunkKept`, `RowGoneForCause`, `ExpiredReclaimed` hold; 817k states |
| `cancel_leaves_staging` | 1 session, 2 requests, no mishap | `CancelRemovesStaging` violated |
| `second_complete_truncates` | 1 session, 2 requests, no mishap | `CompletedFilePersists` violated |
| `key_custody` | 1 process, 2 requests, 1 user, 2 vaults, 2 mishaps, secret in the environment | `VaultsServed`, `ServesAgain` hold; 97k states |
| `concurrent_boots` | 2 processes, secret in the file, 3 secret and 3 master keys, 1 mishap | `TypeOK`, `RowsUnwrappable` hold; 42k states |
| `restart_cannot_load` | 2 processes, no mishap | `RestartLoads` violated |
| `access_control` | 2 users, 1 group, 1 group name, 1 space, 2 running of 5 requests, grants of read and admin, crashes | `TypeOK`, `OwnerAndCreator`, `AuthorisedWrites`, `QueriesAgree`, `GrantsOfSpaces`, `RisesOnlyByGrant` hold; 737k states |
| `http_surface` | all 112 handlers, 1 client, 1 change by others, bodies up to 4 against a limit of 2, a hard cap of 1 and chunks of 1 | `TypeOK`, `Guarded`, `BodyWhole`, `RedirectsSettle` hold; 530k states |
| `auth_sessions` | 2 tokens, 2 running of 4 requests, 1 mishap, clock to 2, lifetime and window 1, limits 2 and 1 | `TypeOK`, `BarredRefused`, `LogoutEnds`, `SomeAdmin`, `RateBound`, `DeniedForCause`, `AdminsRaced`, `RowsEndLawfully`, `ExpiredCollected` hold; 1.23M states |
| `file_store` | paths a, b, a/b, b/b with a/b stored, 2 requests, 3 uploads, 1 mishap, the scan | `TypeOK`, `QuietReads`, `AloneIsAtomic`, `AloneAsAsked`, `ReplacedOnlyByRace`, `ReportedForCause`, `DamageReported` hold; 541k states |
| `migrations` | 2 processes, 3 files with the shapes of 002, 003 and 008, 2 mishaps | `SchemaWhole`, `BootsUnlessTorn` hold; 3.9k states |

Bounds. Two requests are enough for every pairwise race of handlers; two chunks give
a first and a last segment; one mishap puts a crash or an error at every step, and two
in `key_custody` also let a rollback fail, or a crash follow an error. `Expiry` is 1
tick: with `MaxTime` 1 a session can be refused as expired (`>=`), with 2 the worker
can select it (`<`). Both sessions of the second run name the same path, the case in
which they interfere. `Secrets` and `Masters` have one key more than there are
processes, so that a crashed first boot may start over; ids and keys are finite and a
behaviour that has used them up may stop, hence `CHECK_DEADLOCK FALSE` for
`KeyCustody`. Symmetry is used only where safety alone is checked.

In `access_control` two slots give every pair of overlapping requests, five requests are
enough to make a group with a member, a space of the group, a grant and a write that takes one
of them away; "read" and "admin" are the two ends of the order of permissions (compared as
words they would be the other way round); users and slots are symmetric, the properties are
about safety. In `http_surface` one change by others between any two steps is what makes a
look-up and a later one disagree; bodies up to 4 lie on both sides of every limit, the largest
of which reads one byte more than `MaxUpload`. In `auth_sessions` four requests are two
registrations or logins and two uses of what they made; the login comes through the page,
which asks the limiter, and the registration through the API, which does not (the register
page is the same code under another key); the clock of 2 passes one expiry and one window, and
`MaxClock` stops it there. In `file_store` one directory with a file below it and a target
beside it gives every way in which a rename and another change meet; the stored file is a
STREAM file and uploads choose their format, so a path changes its format under a reader; two
new uploads and the stored one are all that two requests can make; the one mishap tears or
damages a file, or loses an event of the scan (a file is also torn, without any mishap, by two
uploads that overlap). In `migrations` the three shapes are: one that cannot run twice, one of
several statements, one that can run twice.

Deadlock is not checked (`CHECK_DEADLOCK FALSE`) where the instance really stops: bounded
requests are used up, an emptied library gives the scan nothing to do, every process
serves.

Fairness. `ExpiredReclaimed` assumes `WF(Clean)`, the endless loop of
`chunk_cleanup.rs:15-28`, which survives errors of a pass, and `WF(Restart)`, and
nothing of clients. `ServesAgain` assumes that the boot goes on, `BootsUnlessTorn` that
`run_migrations` does. The restarts are `restart: unless-stopped` in
`docker-compose.yml:6`. Mishaps are bounded, so these properties say: once the failures
stop. `ExpiredCollected` assumes the loop of `session_cleanup.rs`, `DamageReported` the
loop of `integrity_scan.rs`. `RedirectsSettle` assumes that Rocket drives a
handler to its answer and that a browser follows a redirect or goes elsewhere; nothing
is assumed of the other users.

### What the violations show

* `cancel_leaves_staging`. `routes/library.rs:580` says cancel removes "all staging
  artifacts". A receive past its checks puts the directory or a chunk file back after
  cancel has emptied it; the row goes, and the worker, which looks at rows only, never
  finds the directory again.
* `second_complete_truncates`. Two overlapping completes of one session (a retry after
  a client timeout) pass the check for missing chunks; the first is answered Ok and
  removes the chunks, the second then truncates the finished file and stops.
* `restart_cannot_load`. The loser of two first boots is told to "restart to load" the
  other's master key (`crypto_service.rs:274`). Without `IRONDRIVE_SECRET_KEY` the two
  have also raced on `.secret_key`, which `fs::write` overwrites: if the winners differ,
  no restart can unwrap the master key.

### What the passing runs say of the code

Several properties hold only in a form weaker than one would first write down, and the
difference is the behaviour of the code:

* There may be several administrators from first registrations that overlapped
  (`AdminsRaced`), but never none (`SomeAdmin`).
* An answer is given to a request whose right was taken away while it ran
  (`AuthorisedWrites` says "at some time while it ran"), because no transaction covers
  check and write.
* A fixed window lets in up to twice the limit less one in any span of its length
  (`RateBound`); the comment in `rate_limit.rs:6` calls it a sliding window.
* A rename replaces what came to the target after its check (`ReplacedOnlyByRace`), as the
  comment on `rename_entry` admits. It also replaces what was there all the time if the look
  at the target fails: `try_exists(..).unwrap_or(false)` (`fs_service.rs:722`) takes an
  error for "absent".
* An upload that fails behind `File::create` has destroyed the file it was to replace
  (`crypto_service.rs:668`, `699`, every `write_all`): `AloneAsAsked` allows a failed upload
  to leave a file that cannot be read, and `DamageReported` says that the scan finds it.
* "Session should be gone after logout", says a test (`auth_service.rs:777`). That is so
  while nothing has failed and nobody was deactivated (`LogoutEnds`). The logout page drops
  the error of a statement (`routes/pages.rs:370`, `379`), and takes an inactive user for
  none: it clears the cookie and goes to the login page as after a logout, while the row
  stays and a copy of the token still passes the guards (an inactive user's once active
  again). `BarredRefused` therefore speaks of logouts whose row was removed or found gone.
* An error does not mean that nothing was done. A service may fail behind its first write
  (`group_service.rs:45`), and three handlers read a change back with queries whose
  errors they answer (`routes/groups.rs:170`, `233`, `275`). No property claims otherwise;
  `Guarded`, `BodyWhole` and `RedirectsSettle` hold with all of it.
* A download that a change overlaps may fail or mix two versions (`QuietReads` is about the
  others).
* The scan may report a sound file that is replaced, in the other format, during
  its visit (`ReportedForCause` speaks of visits that nothing overlapped), and reports a
  damaged file again at every pass.
* A crash between the statements of a migration, or between the last and its row, leaves
  a file without IF NOT EXISTS that no later boot gets past (`Torn`, `TornStays`);
  `db.rs:86-87` says applied files are never applied again.

Observations outside the models: `.env.example` and the repository's README advise `openssl
rand -base64 44`, which yields 44 bytes, while `decode_secret_key` accepts exactly 32.
`FsEntry.size` (`fs_service.rs:44`) is documented as the size of the plaintext, but
`plaintext_size_from_disk` subtracts the overhead of a single-shot file from STREAM files
too. The integrity scan visits libraries and no spaces. A configured chunk size of 0 divides
by zero in `expected_total_chunks`. A chunked download across a restart with another chunk
size mixes two cuts (an upload cannot, see `OneCut`).

## 4. Proofs

For every number of sessions, requests, chunks, processes, vaults and mishaps, from
the named assumptions of the modules (names are distinct from their "none" value,
`NumChunks` is positive, bounds are naturals, what a path lies below is a path):

* `ChunkedUploadProofs`
  * `TypeCorrect`: `Spec => []TypeOK`.
  * `SealedFilesAreWhole`: `Spec => []SealedIsWhole`. The property is not inductive:
    what lies in the file is older than the state of its writer. `InkInv` ties the two
    together. `WriterInv`: a cell now in the file that a streaming request has written
    is not the hash cell, and is whole unless that request knows it has read short.
    `HashInv`: where a hash cell is present, every cell by the same writer is whole.
  * `RowsGoForCause`: `Spec => []RowGoneForCause`, with `SessionInv`: a request about to
    remove has sealed or was a cancel, and what the worker has selected was expired and
    stays so, because the clock does not go back.
  * `AckedChunksAreKept`: `Spec => []AckedChunkKept`, with `KeptInv`: a receive that is
    about to answer has its chunk on disk, unless the session is excused.
  * `ChunksAreWrittenOnce`: `Spec => ChunkWrittenOnce`, an action property from the fact
    that an open happens on absent files only and a write on the writer's own.
* `KeyCustodyProofs`
  * `KeyTypeCorrect`: `Spec => []TypeOK`, with `CallerInv`: a request runs in a process
    that serves.
  * `RowsAreUnwrappable`: `Spec => []RowsUnwrappable`. An INSERT takes the master key
    from memory, so `MasterInv` says that every process past `ConfirmMaster` holds the
    stored key, and that a process about to confirm finds a row.
  * `VaultsAreServed`: `Spec /\ OneServer => []VaultsServed`, for one process at a time.
    `VaultInv`: a request that creates a vault is the only one to do so and has done what
    lies behind it (`MakerOK`); only spaces are deleted, and what a deletion takes away is
    no longer promised (`EraserOK`, `DoomedOK`); what is promised stays, and the boot
    unlocks it in two steps, libraries and then spaces (`KeptOK`).
* `AccessControlProofs`
  * `TypeCorrect`; `OneOwner`: `Spec => []OwnerAndCreator`; `GrantsHaveSpaces`:
    `Spec => []GrantsOfSpaces`. `OwnerInv` adds to the rows what is pending: between the two
    statements of `create_group` and of `create_space` only the creating request knows
    of the row, and nobody else's statement can have used its id.
  * `QueriesAlwaysAgree`: `Spec => []QueriesAgree`. The three queries agree on every database in
    which a member's group and a grant's space exist, which is `OwnerInv`.
  * `WritesAreAuthorised`: `Spec => []AuthorisedWrites`, with `AuthInv`: a
    request past its check has been entitled at some time.
  * `OnlyGrantsRaise`: `Spec => RisesOnlyByGrant`, action by action: `Lowering` changes
    leave every permission where it was or below.
* `AuthSessionsProofs`
  * `TypeCorrect`; `BarredAreRefused`: `Spec => []BarredRefused`, with `BarredInv`: an ended
    token has no row, and a request that began barred never passes the look-up that bars it.
    A token is ended when a logout of it was answered with the row gone; one whose page
    logout left the row is not. `LogoutsEnd`: `Spec => []LogoutEnds`, with `SmoothInv`: until
    the first mishap every user is active and every token whose logout was answered is ended.
  * `AdminThere`: `Spec => []SomeAdmin`, with `FirstInv`: a registration that found users
    runs where there is an administrator. `OnlyRacersAdmins`: `Spec => AdminsRaced`.
    `RowsEnd`: `Spec => RowsEndLawfully`.
  * `RateIsBounded`: `Spec => []RateBound` and `DenialsHaveCause`: `Spec => []DeniedForCause`,
    for every limit and window. The limiter forgets its earlier windows, so neither is
    inductive; `RateInv` says what they leave in the log of those let in. `LogHolds`: the
    attempts counted are the last of the log and the first of them opened the window; two
    entries of the log twice the limit less one places apart are more than a window apart.
    `DenialHolds`: at a denial the limit was reached within the window before it.
* `FileStoreProofs`
  * `TypeCorrect`; `RacesOnly`: `Spec => ReplacedOnlyByRace`, with `FreeInv`: a rename past
    `CheckDest` has seen its target free, or its look has failed.
  * `QuietReadsAgree`: `Spec => []QuietReads` and `ReportsHaveCause`: `Spec =>
    ReportedForCause`, both from `QuietInv`: what a reader that nothing has overlapped, and
    that has taken no failed look for an answer, has read so far is a prefix of what is
    stored.
  * `FileStoreImplementsTree`: `Spec => Atomic!Spec`, the refinement of `FileTree`, and
    `AloneDoesAsAsked`: `Spec => AloneAsAsked`. `TreeInv` says, for the one change that runs
    while `calm` holds, how far it has come on the tree it found (`Progress`): the
    directories made so far lead to the one wanted; of an upload the rest of the tree is as
    found, and its own file a beginning of it; each entry that a deletion has still to take
    out is noted, or lies below a directory still to be read; a rename found its target free
    and its source there. It needs that no inode has two names and that all above a path are
    directories (`Shape`). Each handler's step then goes on, or answers with the tree of
    `FileTree` (`Handled`), and a call that fails ends the change with one of the parts that
    `FileTree` names (`FailsInPart`). That a rename keeps the shape rests on lemmas about
    paths: `Below` is an order whose lower bounds are chains, and `Moved` an embedding
    (`MovedBack`, `MovedInOrder`).
* `MigrationsProofs`
  * `TypeCorrect`; `RecordsAreWhole`, `ServersHaveTheSchema` and `SchemaIsWhole`: `Spec =>
    []SchemaWhole`, from `IInv`: the statements before a process's place are there, whoever
    ran them.
  * `FilesInOrder`: no statement of a file has run before the files it builds on are
    recorded. `TornIsForGood`: `Spec => TornStays`.
* `ChunkSizes` (no state: statements about the arithmetic, for all sizes that the types hold)
  * `CountCovers`: the cast changes nothing and the chunks hold the file. `ChunksTile`: the
    browser's cuts, the lengths the server expects and the pages it serves are the same,
    tile the file and are not empty. `OneCut`: a chunk cut by one chunk size is refused by a
    server restarted with another, so a session never holds chunks of two cuts.
* `SurfaceProofs`
  * `ServicesAreGuarded`: `Spec => []Guarded`; `BodiesAreWhole`: `Spec => []BodyWhole`;
    `SurfaceTypes`: `Spec => []TypeOK`. For every limit on bodies and uploads, every chunk
    size, any length of a bulk request and any number of changes by others. The argument has
    two halves. The table: `Fit` says of a handler that each service it calls comes after
    the guards that service relies on (`CallSound`), and that at most one body is read, and
    before the upload that takes it. `AllFit` shows it for all 112 handlers, building each
    up from its guards (`AddAsk`, `AddBody`, `AddCall`, ...). The execution: `RunInv` says
    that a request past a step has found what the step asked for, and that a service that
    has run, even one that then answered an error, stands behind it.

Only model-checked: the liveness properties (`ExpiredReclaimed`, `ServesAgain`,
`DamageReported`, `ExpiredCollected`, `BootsUnlessTorn`, `RedirectsSettle`), because they
need fairness and with it ENABLED, which is out of the prover's reach. Every invariant
and every action property of the passing runs is a theorem, for all values of the
constants that the assumptions allow (`VaultsServed` for one server at a time).

## 5. Plan

Done: all the modules above. What would come next: listings and usage as readers of a
changing tree; the scan's events with their acknowledgement; an abstract ledger of upload
sessions above `ChunkedUpload`.

## 6. Not modelled

* The browser client, templates, CSS, MIME types, formatting and hashing helpers: they
  keep no state on the server. Clients send any request at any time in every module.
* The ciphers, SHA-256, Argon2 and base64 are abstract: content that several uploads
  have written is refused, and a key opens what it has wrapped.
* The text of paths (`normalize`, `safe_join`): a path is a sequence of names; that a
  normalised path stays below its root has no state to check.
* Listings, `calculate_usage` and the acknowledgement of events: single reads, or single
  statements without a rule of their own.
* The race of `delete_space` with an upload that makes the directory again, and two
  server processes overlapping in a restart (`hazards` names both).
* `init_pool`, logging, configuration parsing other than the secret key.
