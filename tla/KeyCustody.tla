----------------------------- MODULE KeyCustody -----------------------------
(***************************************************************************)
(* Encryption keys of IronDrive: the secret key (config.rs), the master    *)
(* key it wraps (crypto_service.rs), the data keys the master key wraps    *)
(* (library_service.rs, space_service.rs) and the keys a server holds in   *)
(* memory (unlock_state.rs), over boots, crashes and failed calls.         *)
(*                                                                         *)
(* Several server processes may share one data directory and database, as  *)
(* store_encrypted_master_key expects of first boots; one at a time binds  *)
(* the port and serves requests.  A library or a space is a vault, and its *)
(* data key, generated with it, goes by the name of the vault.             *)
(***************************************************************************)
EXTENDS Integers

CONSTANTS
    Procs,        \* server processes
    Reqs,         \* request slots of the serving process
    Users,        \* registered users
    Vaults,       \* ids that setup_library and create_space may mint
    Secrets,      \* secret keys
    Masters,      \* master keys that may be generated
    EnvSecret,    \* IRONDRIVE_SECRET_KEY, or None
    None,         \* no key, no row, no user
    MaxMishaps    \* bound on process crashes and failed calls

ASSUME KeyAssumption ==
    /\ None \notin Secrets \cup Masters \cup Users \cup Vaults \cup Procs
    /\ None \notin [key : Masters, secret : Secrets]
    /\ EnvSecret \in Secrets \cup {None}
    /\ MaxMishaps \in Nat

VARIABLES
    mishaps,     \* crashes and failed calls so far
    used,        \* random keys generated so far
    secretFile,  \* .secret_key; an empty file is taken for an absent one
    stored,      \* the master key row of server_config
    proc,        \* proc[p]: a server process
    row,         \* row[v]: the row of personal_libraries or spaces
    dir,         \* dir[v]: the vault's directory exists
    complete,    \* users with setup_complete set
    req,         \* req[r]: the request running in slot r
    ready,       \* vaults whose creation was answered Ok
    doomed,      \* spaces whose deletion has begun
    told         \* processes told to "restart to load" the master key

keys == <<used, secretFile, stored>>
vaults == <<row, dir, complete>>
answers == <<ready, doomed, told>>
vars == <<mishaps, keys, proc, vaults, req, answers>>

----------------------------------------------------------------------------
(* State *)

Wrapped == [key : Masters, secret : Secrets]

BootPcs == {"secret", "persist", "fill", "load", "store", "confirm"}

\* The process has its master key from here on.
Holding == {"libraries", "spaces", "bind", "serve"}

Proc == [pc : {"off"} \cup BootPcs \cup Holding, secret : Secrets \cup {None},
         master : Masters \cup {None}, unlocked : SUBSET Vaults]
Off == [pc |-> "off", secret |-> None, master |-> None, unlocked |-> {}]

\* owner is None for a space; by is the master key that wraps the data key.
Row == [st : {"new", "minted", "live", "gone"}, owner : Users \cup {None},
        by : Masters \cup {None}]

Request == [pc : {"insert", "mkdir", "unlock", "mark", "undodir", "undorow",
                  "delrow", "dropkey", "rmdir"},
            p : Procs, v : Vaults, owner : Users \cup {None}]
Idle == [pc |-> "idle"]

Live(v) == row[v].st = "live"
Serving(p) == proc[p].pc = "serve"
LibraryOf(u, v) == Live(v) /\ row[v].owner = u

TypeOK ==
    /\ mishaps \in Nat
    /\ used \subseteq Secrets \cup Masters
    /\ secretFile \in Secrets \cup {None}
    /\ stored \in Wrapped \cup {None}
    /\ proc \in [Procs -> Proc]
    /\ row \in [Vaults -> Row]
    /\ dir \in [Vaults -> BOOLEAN]
    /\ complete \subseteq Users
    /\ req \in [Reqs -> Request \cup {Idle}]
    /\ ready \subseteq Vaults
    /\ doomed \subseteq Vaults
    /\ told \subseteq Procs
    /\ \A p \in Procs :
         /\ proc[p].pc # "off" => proc[p].secret # None
         /\ proc[p].pc \in {"store", "confirm"} \cup Holding => proc[p].master # None

Init ==
    /\ mishaps = 0
    /\ used = {}
    /\ secretFile = None
    /\ stored = None
    /\ proc = [p \in Procs |-> Off]
    /\ row = [v \in Vaults |-> [st |-> "new", owner |-> None, by |-> None]]
    /\ dir = [v \in Vaults |-> FALSE]
    /\ complete = {}
    /\ req = [r \in Reqs |-> Idle]
    /\ ready = {}
    /\ doomed = {}
    /\ told = {}

\* A call that fails, or a whole process.
Mishap == mishaps < MaxMishaps /\ mishaps' = mishaps + 1

----------------------------------------------------------------------------
(* Boot: resolve_secret_key, bootstrap_master_key, setup_database *)

Step(p, pc) == proc' = [proc EXCEPT ![p].pc = pc]
Panic(p) == proc' = [proc EXCEPT ![p] = Off]

HasSecret(p, s, pc) ==
    proc' = [proc EXCEPT ![p] = [Off EXCEPT !.pc = pc, !.secret = s]]

\* A new key is one nobody has: fill_bytes of OsRng.
GenerateSecret(p) ==
    \E s \in Secrets \ used :
       /\ used' = used \cup {s}
       /\ HasSecret(p, s, "persist")

\* Variant: an empty file is taken for a key.
ReadSecretEmpty(p) ==
    /\ proc[p].pc = "off"
    /\ HasSecret(p, IF EnvSecret # None THEN EnvSecret ELSE secretFile, "load")
    /\ UNCHANGED <<mishaps, used, secretFile, stored, vaults, req, answers>>

\* The environment comes before the file.  A file that is absent, empty or
\* cannot be read makes the process generate a new key.
ReadSecret(p) ==
    /\ proc[p].pc = "off"
    /\ \/ /\ EnvSecret # None
          /\ HasSecret(p, EnvSecret, "load")
          /\ UNCHANGED <<mishaps, used>>
       \/ /\ EnvSecret = None /\ secretFile # None
          /\ HasSecret(p, secretFile, "load")
          /\ UNCHANGED <<mishaps, used>>
       \/ /\ EnvSecret = None
          /\ IF secretFile = None THEN UNCHANGED mishaps ELSE Mishap
          /\ GenerateSecret(p)
    /\ UNCHANGED <<secretFile, stored, vaults, req, answers>>

\* fs::write opens the file with truncation, then writes.
TruncateSecretFile(p) ==
    /\ proc[p].pc = "persist"
    /\ secretFile' = None
    /\ Step(p, "fill")
    /\ UNCHANGED <<mishaps, used, stored, vaults, req, answers>>

WriteSecretFile(p) ==
    /\ proc[p].pc = "fill"
    /\ secretFile' = proc[p].secret
    /\ Step(p, "load")
    /\ UNCHANGED <<mishaps, used, stored, vaults, req, answers>>

\* Variant: a master key that is already there is taken for an error.
LoadMasterOnce(p) ==
    /\ proc[p].pc = "load"
    /\ \/ /\ stored # None
          /\ Panic(p)
          /\ UNCHANGED used
       \/ /\ stored = None
          /\ \E k \in Masters \ used :
                /\ used' = used \cup {k}
                /\ proc' = [proc EXCEPT ![p] = [@ EXCEPT !.pc = "store", !.master = k]]
    /\ UNCHANGED <<mishaps, secretFile, stored, vaults, req, answers>>

\* Unwrapping with another secret than the one that wrapped fails, and
\* setup_database panics.
LoadMaster(p) ==
    /\ proc[p].pc = "load"
    /\ \/ /\ stored # None
          /\ IF stored.secret = proc[p].secret
             THEN proc' = [proc EXCEPT ![p] = [@ EXCEPT !.pc = "libraries",
                                                        !.master = stored.key]]
             ELSE Panic(p)
          /\ UNCHANGED used
       \/ /\ stored = None
          /\ \E k \in Masters \ used :
                /\ used' = used \cup {k}
                /\ proc' = [proc EXCEPT ![p] = [@ EXCEPT !.pc = "store", !.master = k]]
    /\ UNCHANGED <<mishaps, secretFile, stored, vaults, req, answers>>

\* INSERT OR IGNORE.
StoreMaster(p) ==
    /\ proc[p].pc = "store"
    /\ stored' = IF stored = None
                 THEN [key |-> proc[p].master, secret |-> proc[p].secret]
                 ELSE stored
    /\ Step(p, "confirm")
    /\ UNCHANGED <<mishaps, used, secretFile, vaults, req, answers>>

\* Variant: the row is not read back after the INSERT.
ConfirmMasterBlindly(p) ==
    /\ proc[p].pc = "confirm"
    /\ Step(p, "libraries")
    /\ UNCHANGED <<mishaps, keys, vaults, req, answers>>

\* The row is read back: a process that has lost the race gives up.
ConfirmMaster(p) ==
    /\ proc[p].pc = "confirm"
    /\ IF stored.key = proc[p].master
       THEN Step(p, "libraries") /\ UNCHANGED told
       ELSE Panic(p) /\ told' = told \cup {p}
    /\ UNCHANGED <<mishaps, keys, vaults, req, ready, doomed>>

Unlock(p, vs, pc) ==
    proc' = [proc EXCEPT ![p] =
               [@ EXCEPT !.pc = pc, !.unlocked = proc[p].unlocked \cup vs]]

\* load_server_mode_keys: a key that does not unwrap is skipped.
LoadLibraryKeys(p) ==
    /\ proc[p].pc = "libraries"
    /\ Unlock(p, {v \in Vaults : \E u \in Users :
                     LibraryOf(u, v) /\ row[v].by = proc[p].master}, "spaces")
    /\ UNCHANGED <<mishaps, keys, vaults, req, answers>>

LoadSpaceKeys(p) ==
    /\ proc[p].pc = "spaces"
    /\ Unlock(p, {v \in Vaults :
                     LibraryOf(None, v) /\ row[v].by = proc[p].master}, "bind")
    /\ UNCHANGED <<mishaps, keys, vaults, req, answers>>

\* The port is bound by one process at a time; launch fails for another.
Launch(p) ==
    /\ proc[p].pc = "bind"
    /\ IF \E q \in Procs : Serving(q) THEN Panic(p) ELSE Step(p, "serve")
    /\ UNCHANGED <<mishaps, keys, vaults, req, answers>>

Boot(p) ==
    \/ ReadSecret(p) \/ TruncateSecretFile(p) \/ WriteSecretFile(p)
    \/ LoadMaster(p) \/ StoreMaster(p) \/ ConfirmMaster(p)
    \/ LoadLibraryKeys(p) \/ LoadSpaceKeys(p)
    \/ Launch(p)

\* A process ends with its memory and its requests, at boot also because a
\* call failed.
Crash(p) ==
    /\ proc[p].pc # "off"
    /\ Mishap
    /\ Panic(p)
    /\ req' = [r \in Reqs |-> IF req[r].pc # "idle" /\ req[r].p = p
                              THEN Idle ELSE req[r]]
    /\ UNCHANGED <<keys, vaults, answers>>

----------------------------------------------------------------------------
(* Requests *)

At(r, pc) == req[r].pc = pc
Goto(r, pc) == req' = [req EXCEPT ![r].pc = pc]
Return(r) == req' = [req EXCEPT ![r] = Idle]
Begin(r, pc, p, v, owner) ==
    req' = [req EXCEPT ![r] = [pc |-> pc, p |-> p, v |-> v, owner |-> owner]]

Mint(v) == /\ row[v].st = "new"
           /\ row' = [row EXCEPT ![v] = [@ EXCEPT !.st = "minted"]]

\* The setup is refused to a user who has finished it or has a library row.
SetupLibrary(r, p, u, v) ==
    /\ At(r, "idle") /\ Serving(p)
    /\ u \notin complete
    /\ \A w \in Vaults : ~LibraryOf(u, w)
    /\ Mint(v)
    /\ Begin(r, "insert", p, v, u)
    /\ UNCHANGED <<mishaps, keys, proc, dir, complete, answers>>

CreateSpace(r, p, v) ==
    /\ At(r, "idle") /\ Serving(p)
    /\ Mint(v)
    /\ Begin(r, "insert", p, v, None)
    /\ UNCHANGED <<mishaps, keys, proc, dir, complete, answers>>

\* personal_libraries.user_id is UNIQUE: a race is answered Conflict.
InsertRow(r) ==
    LET v == req[r].v  u == req[r].owner IN
    /\ At(r, "insert")
    /\ IF u # None /\ \E w \in Vaults : LibraryOf(u, w)
       THEN Return(r) /\ UNCHANGED row
       ELSE /\ row' = [row EXCEPT ![v] =
                         [st |-> "live", owner |-> u, by |-> proc[req[r].p].master]]
            /\ Goto(r, "mkdir")
    /\ UNCHANGED <<mishaps, keys, proc, dir, complete, answers>>

\* create_library_directory, create_space_directory: the directory, then the
\* meta file.  An error rolls the row back and leaves the directory.
MakeDir(r) ==
    LET v == req[r].v IN
    /\ At(r, "mkdir")
    /\ \/ /\ dir' = [dir EXCEPT ![v] = TRUE]
          /\ Goto(r, "unlock")
          /\ UNCHANGED mishaps
       \/ /\ Mishap
          /\ \E made \in BOOLEAN : dir' = [dir EXCEPT ![v] = @ \/ made]
          /\ Goto(r, "undorow")
    /\ UNCHANGED <<keys, proc, row, complete, answers>>

\* insert_library_key, insert_space_key.  This is all for a space.
UnlockVault(r) ==
    LET v == req[r].v IN
    /\ At(r, "unlock")
    /\ Unlock(req[r].p, {v}, "serve")
    /\ IF req[r].owner = None
       THEN Return(r) /\ ready' = ready \cup {v}
       ELSE Goto(r, "mark") /\ UNCHANGED ready
    /\ UNCHANGED <<mishaps, keys, vaults, doomed, told>>

Forget(p, v) ==
    proc' = [proc EXCEPT ![p] =
               [@ EXCEPT !.unlocked = proc[p].unlocked \ {v}]]

\* Variant: the user is marked first, whatever becomes of the UPDATE.
MarkCompleteAnyway(r) ==
    LET v == req[r].v IN
    /\ At(r, "mark")
    /\ complete' = complete \cup {req[r].owner}
    /\ \/ /\ ready' = ready \cup {v}
          /\ Return(r)
          /\ UNCHANGED <<mishaps, proc>>
       \/ /\ Mishap
          /\ Forget(req[r].p, v)
          /\ Goto(r, "undodir")
          /\ UNCHANGED ready
    /\ UNCHANGED <<keys, row, dir, doomed, told>>

\* mark_setup_complete.  On an error everything is rolled back, the key first.
MarkComplete(r) ==
    LET v == req[r].v IN
    /\ At(r, "mark")
    /\ \/ /\ complete' = complete \cup {req[r].owner}
          /\ ready' = ready \cup {v}
          /\ Return(r)
          /\ UNCHANGED <<mishaps, proc>>
       \/ /\ Mishap
          /\ Forget(req[r].p, v)
          /\ Goto(r, "undodir")
          /\ UNCHANGED <<complete, ready>>
    /\ UNCHANGED <<keys, row, dir, doomed, told>>

\* remove_dir_all; the callers go on after an error.
RemoveDir(v) ==
    \/ dir' = [dir EXCEPT ![v] = FALSE] /\ UNCHANGED mishaps
    \/ Mishap /\ UNCHANGED dir

UndoDir(r) ==
    /\ At(r, "undodir")
    /\ RemoveDir(req[r].v)
    /\ Goto(r, "undorow")
    /\ UNCHANGED <<keys, proc, row, complete, answers>>

DropRow(v) == row' = [row EXCEPT ![v] = [@ EXCEPT !.st = "gone"]]

\* The rollback is best effort: its own failure is only logged.
UndoRow(r) ==
    /\ At(r, "undorow")
    /\ \/ DropRow(req[r].v) /\ UNCHANGED mishaps
       \/ Mishap /\ UNCHANGED row
    /\ Return(r)
    /\ UNCHANGED <<keys, proc, dir, complete, answers>>

DeleteSpace(r, p, v) ==
    /\ At(r, "idle") /\ Serving(p)
    /\ LibraryOf(None, v)
    /\ doomed' = doomed \cup {v}
    /\ Begin(r, "delrow", p, v, None)
    /\ UNCHANGED <<mishaps, keys, proc, vaults, ready, told>>

\* The one of two racing deletions that comes second is answered NotFound.
DeleteRow(r) ==
    LET v == req[r].v IN
    /\ At(r, "delrow")
    /\ IF Live(v)
       THEN DropRow(v) /\ Goto(r, "dropkey")
       ELSE Return(r) /\ UNCHANGED row
    /\ UNCHANGED <<mishaps, keys, proc, dir, complete, answers>>

DropKey(r) ==
    /\ At(r, "dropkey")
    /\ Forget(req[r].p, req[r].v)
    /\ Goto(r, "rmdir")
    /\ UNCHANGED <<mishaps, keys, vaults, answers>>

RemoveSpaceDir(r) ==
    /\ At(r, "rmdir")
    /\ RemoveDir(req[r].v)
    /\ Return(r)
    /\ UNCHANGED <<keys, proc, row, complete, answers>>

\* A database call fails and the handler returns: the INSERT, the SELECT that
\* reads the new row back, or the DELETE.  Nothing is rolled back.
Fail(r) ==
    /\ req[r].pc \in {"insert", "mkdir", "delrow"}
    /\ Mishap
    /\ Return(r)
    /\ UNCHANGED <<keys, proc, vaults, answers>>

Start(r, p) ==
    \E v \in Vaults :
       \/ \E u \in Users : SetupLibrary(r, p, u, v)
       \/ CreateSpace(r, p, v)
       \/ DeleteSpace(r, p, v)

Handle(r) ==
    \/ InsertRow(r) \/ MakeDir(r) \/ UnlockVault(r) \/ MarkComplete(r)
    \/ UndoDir(r) \/ UndoRow(r)
    \/ DeleteRow(r) \/ DropKey(r) \/ RemoveSpaceDir(r)

----------------------------------------------------------------------------

Next ==
    \/ \E p \in Procs : Boot(p) \/ Crash(p)
    \/ \E r \in Reqs : \/ \E p \in Procs : Start(r, p)
                       \/ Handle(r)
                       \/ Fail(r)

Spec == Init /\ [][Next]_vars

\* docker-compose.yml restarts the server (restart: unless-stopped).
FairSpec == Spec /\ \A p \in Procs : WF_vars(Boot(p))

----------------------------------------------------------------------------
(* Properties *)

\* Every data key in the database is wrapped by the master key in the
\* database, also when first boots race: a process whose INSERT was ignored
\* (store_encrypted_master_key) never serves with the key it has generated.
RowsUnwrappable ==
    \A v \in Vaults : Live(v) => stored # None /\ row[v].by = stored.key

\* For one server process at a time: a user whose setup is complete has a
\* library with a directory, and a space whose creation was answered Ok has
\* one until its deletion begins; both are unlocked whenever the server
\* serves, after any crash, failed call, rollback or racing request.
VaultsServed ==
    LET Served(v) == /\ Live(v) /\ dir[v]
                     /\ \A p \in Procs : Serving(p) => v \in proc[p].unlocked
    IN  /\ \A u \in complete : \E v \in Vaults : LibraryOf(u, v) /\ Served(v)
        /\ \A v \in ready \ doomed : Served(v)

\* With the secret key in the environment the server always comes back: no
\* crash during a boot, a setup or a rollback leaves keys a boot fails on.
ServesAgain == []<>(\E p \in Procs : Serving(p))

\* crypto_service.rs to the process that has lost a race of first boots:
\* "Another process stored a different master key — restart to load it".
RestartLoads ==
    /\ told # {}
    /\ \A p \in Procs : proc[p].pc \notin {"persist", "fill"}
    => stored.secret = IF EnvSecret # None THEN EnvSecret ELSE secretFile
=============================================================================
