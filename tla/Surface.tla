------------------------------ MODULE Surface ------------------------------
(***************************************************************************)
(* One client's request on its way through a handler of the table Routes,  *)
(* and through the pages it is redirected to, while other tabs and other   *)
(* users change what the guards look at: a session ends, a grant or a role *)
(* changes, the library is set up in another tab.                          *)
(*                                                                         *)
(* rank is the client's standing on the one space or group in the URL: its *)
(* permission (1 read, 2 write, 3 admin) or its role (1 member, 2 manager, *)
(* 3 owner).  The services behind the handlers are the other modules; here *)
(* a call succeeds or fails, and changes what later guards look at; one    *)
(* that fails may have made its change before it did.                      *)
(***************************************************************************)
EXTENDS Routes, FiniteSets

CONSTANTS
    MaxBody,     \* bound on the size of a request body
    MaxChanges,  \* bound on what others change during one request
    None

ASSUME BoundAssumption == MaxBody \in Nat /\ MaxChanges \in Nat

VARIABLES
    live,     \* the client's session row is there, unexpired, its user active
    set_up,   \* users.setup_complete
    lib,      \* the row of personal_libraries: "none", or whose setup made it
    staff,    \* users.role is admin
    rank,     \* the standing on the space or group in the URL
    run,      \* the request that is being served, or None
    changes   \* changes made by others during the request so far

world == <<live, set_up, lib, staff, rank>>
vars == <<world, run, changes>>

\* The pages that are redirected to.
Pages == [index |-> index, login_page |-> login_page,
          register_page |-> register_page, setup_page |-> setup_page,
          files_page |-> files_page, groups_page |-> groups_page,
          group_detail_page |-> group_detail_page, spaces_page |-> spaces_page,
          space_browser_page |-> space_browser_page,
          space_settings_page |-> space_settings_page]

ApiHandlers == {
    api_register, api_login, api_logout, api_setup_library, library_list,
    library_mkdir, library_upload, library_download, library_delete,
    library_rename, library_info, library_usage, library_chunked_init_upload,
    library_chunked_receive_chunk, library_chunked_complete_upload,
    library_chunked_cancel_upload, library_chunked_init_download,
    library_chunked_download_chunk, list_events, acknowledge_event,
    notifications, admin_list_events, admin_scan, api_create_group,
    list_groups, get_group, api_update_group, api_delete_group, list_members,
    api_add_member, api_remove_member, api_update_member_role,
    api_create_space, list_spaces, get_space, api_update_space,
    api_delete_space, list_access, api_grant_user_access,
    api_grant_group_access, api_update_access, api_revoke_access,
    space_list_files, space_mkdir, space_upload, space_download,
    space_delete_file, space_rename_file, space_file_info, space_file_usage}

PageHandlers == {
    index, login_page, login_submit, register_page, register_submit,
    logout_submit, setup_page, setup_submit, files_page, files_partial,
    files_folders, mkdir_submit, rename_submit, move_submit, delete_submit,
    bulk_delete, bulk_move, upload_file, chunked_init_upload,
    chunked_receive_chunk, chunked_complete_upload, chunked_cancel_upload,
    chunked_init_download, chunked_download_chunk, download_file,
    usage_sidebar, usage_page, settings_page, groups_page,
    groups_create_submit, group_detail_page, group_edit_submit,
    group_delete_submit, group_add_member_submit, group_remove_member_submit,
    group_update_member_role_submit, spaces_page, spaces_create_submit,
    space_browser_page, space_browser_partial, space_folders, search_grantees,
    space_settings_page, space_rename_submit, space_delete_submit,
    space_grant_access_submit, space_update_access_submit,
    space_revoke_access_submit, space_mkdir_submit, space_rename_entry_submit,
    space_move_entry_submit, space_delete_entry_submit, space_bulk_delete,
    space_bulk_move, space_upload_file, space_download_file,
    space_chunked_init_upload, space_chunked_receive_chunk,
    space_chunked_complete_upload, space_chunked_cancel_upload,
    space_chunked_init_download, space_chunked_download_chunk}

Handlers == ApiHandlers \cup PageHandlers

(***************************************************************************)
(* What services are for.  Stated apart from the table: the checks of a    *)
(* handler are compared with what the service it calls must rely on.       *)
(***************************************************************************)
LibraryReads == {"list_directory", "download_file", "get_entry_info",
                 "calculate_usage", "library init_download", "list_events",
                 "list_unacknowledged"}
LibraryWrites == {"create_directory", "upload_file", "delete_entry",
                  "rename_entry", "library init_upload",
                  "library receive_chunk", "library complete_upload",
                  "library cancel_upload", "acknowledge_event"}
SpaceReads == {"list_space_directory", "download_space_file",
               "get_space_entry_info", "calculate_space_usage",
               "space init_download", "list_access"}
SpaceWrites == {"create_space_directory", "upload_space_file",
                "delete_space_entry", "rename_space_entry",
                "space init_upload", "space receive_chunk",
                "space complete_upload", "space cancel_upload"}
SpaceSettings == {"update_space", "delete_space", "grant_user_access",
                  "grant_group_access", "grant_access", "revoke_access",
                  "update_access_permission"}
GroupWrites == {"create_group", "update_group", "delete_group", "add_member",
                "remove_member", "update_member_role"}
AccountWrites == {"register", "login", "logout", "setup_library"}
StaffServices == {"admin list_events", "scan"}
UserReads == {"list_user_groups", "get_group", "list_members",
              "list_user_spaces", "get_space", "search_by_prefix", "serve_chunk"}

Changing == LibraryWrites \cup SpaceWrites \cup SpaceSettings \cup GroupWrites
                \cup AccountWrites \cup {"create_space", "scan"}
Services == Changing \cup LibraryReads \cup SpaceReads \cup UserReads
                \cup StaffServices

ASSUME NoneAssumption ==
    None \notin {"done", "refused"} \cup DOMAIN Pages \cup Services

Account == {"session", "set_up"}
Needs(service) ==
    CASE service \in LibraryReads \cup LibraryWrites -> Account \cup {"library"}
      [] service \in SpaceReads -> Account \cup {"read"}
      [] service \in SpaceWrites -> Account \cup {"write"}
      [] service \in SpaceSettings -> Account \cup {"admin"}
      [] service \in StaffServices -> {"session", "staff"}
      [] service \in {"logout", "setup_library"} -> {"session"}
      [] service \in {"register", "login"} -> {}
      [] OTHER -> Account

\* The rank on which a service that checks for itself insists.
OwnCheck(service) ==
    CASE service \in SpaceSettings -> 3
      [] service \in {"list_access", "get_space", "get_group",
                      "list_members", "remove_member"} -> 1
      [] service \in {"update_group", "add_member"} -> 2
      [] service \in {"delete_group", "update_member_role"} -> 3
      [] OTHER -> 0

(***************************************************************************)
(* Facts a guard can find.                                                 *)
(***************************************************************************)
FactNames == {"session", "stranger", "csrf", "set_up", "not_set_up", "library",
              "read", "write", "admin", "staff"}
World == [live |-> live, set_up |-> set_up, lib |-> lib, staff |-> staff, rank |-> rank]

\* validate_session_cookie and the guard on a bearer token.
Signed(q, w) == w.live /\ q.cred = q.h.auth

\* What request q finds in world w.  A page from another site cannot send the
\* token: q.csrf says whether the request carries one equal to its cookie.
Facts(q, w) ==
    {f \in FactNames :
        CASE f = "session" -> Signed(q, w)
          [] f = "stranger" -> ~Signed(q, w)
          [] f = "csrf" -> q.csrf
          [] f = "set_up" -> w.set_up
          [] f = "not_set_up" -> ~w.set_up
          [] f = "library" -> w.lib # "none"
          [] f = "read" -> w.rank >= 1
          [] f = "write" -> w.rank >= 2
          [] f = "admin" -> w.rank >= 3
          [] f = "staff" -> w.staff}

\* A request as it arrives.  seen: facts found at some time during it; did:
\* the last service that has run; got: the bytes read of its body.
Arrive(h, cred, csrf, body) ==
    [h |-> h, at |-> 1, cred |-> cred, csrf |-> csrf, body |-> body, got |-> 0,
     seen |-> {}, did |-> None, mid |-> FALSE, answer |-> None]

Step == run.h.steps[run.at]
Serving == run # None /\ run.answer = None
On(kinds) == Serving /\ run.at <= Len(run.h.steps) /\ Step.do \in kinds
             /\ ~run.mid

\* What is true before and after a step has been true during the request.
Notice(q) == [q EXCEPT !.seen = @ \cup Facts(q, World) \cup Facts(q, World')]
Advance(q) == run' = Notice([q EXCEPT !.at = @ + 1])
Answer(q, a) == run' = Notice([q EXCEPT !.answer = a])

Begin ==
    /\ run = None
    /\ \E h \in Handlers, csrf \in BOOLEAN :
          \E cred \in {h.auth, "none"},
             body \in IF \E k \in DOMAIN h.steps : h.steps[k].do = "body"
                      THEN 0..MaxBody ELSE {0} :
              run' = Arrive(h, cred, csrf, body)
    /\ changes' = 0
    /\ UNCHANGED world

\* A guard, a check of the form's token, or the lookup of the library.
AskStep ==
    /\ On({"ask"})
    /\ UNCHANGED <<world, changes>>
    /\ IF Step.arg \in Facts(run, World) THEN Advance(run) ELSE Answer(run, Step.no)

ValidateStep ==
    /\ On({"validate"})
    /\ UNCHANGED <<world, changes>>
    /\ Advance(run) \/ Answer(run, Step.no)

\* Variant of BodyStep: what fits is taken for the whole.
BodyStepCapped ==
    /\ On({"body"})
    /\ UNCHANGED <<world, changes>>
    /\ Advance([run EXCEPT !.got = Least(run.body, Step.arg)])

\* data.open(limit).into_bytes(): what fits is read; is_complete says whether
\* that is all.
BodyStep ==
    /\ On({"body"})
    /\ UNCHANGED <<world, changes>>
    /\ LET read == [run EXCEPT !.got = Least(run.body, Step.arg)] IN
       IF run.body <= Step.arg THEN Advance(read) ELSE Answer(read, Step.no)

\* What a service that has run leaves for the guards that come later.  The
\* first statement of setup_library inserts the row.
Effect(service) ==
    /\ live' = IF service = "logout" THEN FALSE
               ELSE live \/ (service = "login" /\ run.h.auth = "cookie")
    /\ rank' \in CASE service \in {"delete_space", "delete_group"} -> {0}
                   [] service = "create_space" -> {3}
                   [] service \in {"remove_member", "revoke_access",
                                   "update_access_permission"} -> 0..rank
                   [] OTHER -> {rank}
    /\ UNCHANGED <<set_up, lib, staff>>

Succeed(service) ==
    [run EXCEPT !.did = service,
                !.cred = IF service = "login" THEN run.h.auth ELSE run.cred]

\* logout is tried for a user found; the others check for themselves.
Works(service) ==
    /\ rank >= OwnCheck(service)
    /\ service = "logout" => Signed(run, World)

\* A service that reports an error may have run before it did: the second
\* statement of a creation fails, the row that was written cannot be read, an
\* upload stops behind the bytes it has stored.  A login that fails leaves no
\* token with the client.
CallStep ==
    /\ On({"call"})
    /\ Step.arg # "setup_library"
    /\ \/ UNCHANGED world /\ Answer(run, Step.no)
       \/ /\ Works(Step.arg) /\ Effect(Step.arg)
          /\ \/ Advance(Succeed(Step.arg))
             \/ Step.arg # "login" /\ Answer(Succeed(Step.arg), Step.no)
    /\ UNCHANGED changes

\* The handler drops the error.
TryStep ==
    /\ On({"try"})
    /\ \/ /\ Works(Step.arg)
          /\ Effect(Step.arg)
          /\ Advance(Succeed(Step.arg))
       \/ UNCHANGED world /\ Advance(run)
    /\ UNCHANGED changes

\* The queries that read back fail as any may, or find the row or the right
\* gone.
RereadStep ==
    /\ On({"reread"})
    /\ UNCHANGED <<world, changes>>
    /\ \/ Works(Step.arg) /\ Advance(run)
       \/ Answer(run, Step.no)

\* setup_library: the row, and then setup_complete or the rollback, whose own
\* errors are logged.
SetupStep ==
    /\ On({"call"})
    /\ Step.arg = "setup_library"
    /\ UNCHANGED <<live, set_up, staff, rank, changes>>
    /\ \/ /\ ~set_up /\ lib = "none"
          /\ lib' = "here"
          /\ run' = Notice([run EXCEPT !.mid = TRUE])
       \/ UNCHANGED lib /\ Answer(run, Step.no)

\* Variant of MarkStep: the flag is set before the rollback.
MarkStepFlagKept ==
    /\ Serving /\ run.mid
    /\ set_up' = TRUE
    /\ UNCHANGED <<live, staff, rank, changes>>
    /\ LET ran == [Succeed("setup_library") EXCEPT !.mid = FALSE] IN
       \/ UNCHANGED lib /\ Advance(ran)
       \/ lib' \in {lib, "none"} /\ Answer(ran, Step.no)

MarkStep ==
    /\ Serving /\ run.mid
    /\ UNCHANGED <<live, staff, rank, changes>>
    /\ LET ran == [Succeed("setup_library") EXCEPT !.mid = FALSE] IN
       \/ set_up' = TRUE /\ UNCHANGED lib /\ Advance(ran)
       \/ UNCHANGED set_up /\ lib' \in {lib, "none"} /\ Answer(ran, Step.no)

\* The page that tries to log out drops the cookie, whatever came of it.
Dismisses(h) == \E k \in DOMAIN h.steps : h.steps[k].do = "try" /\ h.steps[k].arg = "logout"

LastStep ==
    /\ Serving
    /\ run.at > Len(run.h.steps)
    /\ UNCHANGED <<world, changes>>
    /\ Answer([run EXCEPT !.cred = IF Dismisses(run.h) THEN "none" ELSE @], run.h.last)

\* The browser follows a redirect with its cookies and no form.
Follow ==
    /\ run # None
    /\ run.answer \in DOMAIN Pages
    /\ run' = Arrive(Pages[run.answer], run.cred, FALSE, 0)
    /\ UNCHANGED <<world, changes>>

Close ==
    /\ run # None
    /\ run.answer \in {"done", "refused"}
    /\ run' = None
    /\ UNCHANGED <<world, changes>>

\* Another tab or user, between any two steps.
Elsewhere ==
    /\ Serving
    /\ changes < MaxChanges
    /\ changes' = changes + 1
    /\ \/ live' = FALSE /\ UNCHANGED <<set_up, lib, staff, rank>>
       \/ rank' \in 0..3 /\ UNCHANGED <<live, set_up, lib, staff>>
       \/ /\ ~set_up /\ lib = "none"
          /\ lib' = "there" /\ UNCHANGED <<live, set_up, staff, rank>>
       \/ /\ ~set_up /\ lib = "there"
          /\ \/ set_up' = TRUE /\ UNCHANGED lib
             \/ lib' = "none" /\ UNCHANGED set_up
          /\ UNCHANGED <<live, staff, rank>>
    /\ run' = Notice(run)

Init ==
    /\ live \in BOOLEAN /\ set_up = FALSE /\ lib = "none"
    /\ staff \in BOOLEAN /\ rank \in 0..3
    /\ run = None
    /\ changes = 0

Serve == AskStep \/ ValidateStep \/ BodyStep \/ CallStep \/ TryStep
            \/ RereadStep \/ SetupStep \/ MarkStep \/ LastStep
Browse == Follow \/ Close
Next == Begin \/ Serve \/ Browse \/ Elsewhere

Spec == Init /\ [][Next]_vars
\* Rocket drives a handler on until it answers, and a browser follows a
\* redirect; neither is promised of anybody else.
FairSpec == Spec /\ WF_vars(Serve) /\ WF_vars(Browse)

-----------------------------------------------------------------------------
\* The types; every redirect leads to a page, every step finds its service.
TypeOK ==
    /\ live \in BOOLEAN /\ set_up \in BOOLEAN /\ staff \in BOOLEAN
    /\ lib \in {"none", "here", "there"} /\ rank \in 0..3
    /\ changes \in 0..MaxChanges
    /\ run # None =>
          /\ run.h \in Handlers
          /\ run.at \in 1..Len(run.h.steps) + 1
          /\ run.body \in 0..MaxBody /\ run.got \in 0..run.body
          /\ run.did \in Services \cup {None}
          /\ run.answer \in {None, "done", "refused"} \cup DOMAIN Pages

\* Over the whole surface: a service has run only for a client who, at some
\* time during the request, had every right the service relies on, and one
\* that changes something was never reached with a cookie alone from another
\* site's page.  The form and its twin under /api need the same rights
\* although they name their guards separately.
Guarded ==
    run # None /\ run.did # None =>
        /\ Needs(run.did) \subseteq run.seen
        /\ run.h.auth = "cookie" /\ run.did \in Changing => run.csrf

\* An upload is handed to its service with every byte of the request or not at
\* all, whatever the limit its handler puts on the body: no handler stores
\* the first part of a file as if it were the file.
BodyWhole ==
    run # None /\ run.did \in {"upload_file", "upload_space_file",
                               "library receive_chunk", "space receive_chunk"}
        => run.got = run.body

\* Every request is answered with something that is not a redirect: the pages
\* that send a client to each other (files and setup, index and login) agree
\* about when, even where the setup of the library fails halfway or a
\* session ends in between.
RedirectsSettle == (run # None) ~> (run = None)
=============================================================================
