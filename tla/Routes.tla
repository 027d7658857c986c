------------------------------- MODULE Routes -------------------------------
(***************************************************************************)
(* The HTTP surface of IronDrive as a table: every handler of the modules  *)
(* under routes/ is the sequence of what it asks, reads and calls, in the  *)
(* order in which Rocket evaluates the guards in its signature and then    *)
(* its body runs.  The module Surface executes the table.                  *)
(*                                                                         *)
(* A step is a record: "ask" for a fact, "validate" the client's input,    *)
(* read the "body" up to a limit, "call" a service, "try" one and ignore   *)
(* its error, or "reread" what was just written for the answer.  Its field *)
(* no is the answer when it fails: "refused" stands for every answer that  *)
(* reports an error, the name of a page for a redirect to it.  A step that *)
(* may only follow is answered by the handler's last field: "done", or     *)
(* again a redirect.                                                       *)
(***************************************************************************)
EXTENDS Naturals, Sequences

CONSTANTS
    MaxUpload,   \* config.max_upload_bytes
    HardCap,     \* the 50 MiB in hard_cap
    ChunkSize,   \* config.chunk_size_bytes
    MaxPaths     \* bound on the paths of a bulk request (500 in bulk_delete)

ASSUME SizeAssumption ==
    MaxUpload \in Nat /\ HardCap \in Nat /\ ChunkSize \in Nat /\ MaxPaths \in Nat

\* A handler reached with a session cookie, with a bearer token.
Page(steps, last) == [auth |-> "cookie", steps |-> steps, last |-> last]
Api(steps) == [auth |-> "bearer", steps |-> steps, last |-> "done"]

Ask(fact, no) == <<[do |-> "ask", arg |-> fact, no |-> no]>>
Validate(no) == <<[do |-> "validate", arg |-> "input", no |-> no]>>
Body(cap) == <<[do |-> "body", arg |-> cap, no |-> "refused"]>>
Call(service, no) == <<[do |-> "call", arg |-> service, no |-> no]>>
Try(service) == <<[do |-> "try", arg |-> service, no |-> "done"]>>
Reread(service) == <<[do |-> "reread", arg |-> service, no |-> "refused"]>>

\* A loop over the paths of a request that collects the errors.
Sweep(service) == [k \in 1..MaxPaths |-> Try(service)[1]]

\* The guards: each looks at the request and the rows and refuses it.
Guard(fact) == Ask(fact, "refused")
CsrfXhr == Guard("csrf")
SessionUser == Guard("session")
AuthenticatedUser == Guard("session")
SessionSetupComplete == SessionUser \o Guard("set_up")
SetupComplete == AuthenticatedUser \o Guard("set_up")
AdminUser == AuthenticatedUser \o Guard("staff")
SessionSpaceReader == SessionSetupComplete \o Guard("read")
SessionSpaceWriter == SessionSetupComplete \o Guard("write")
SessionSpaceAdmin == SessionSetupComplete \o Guard("admin")
SpaceReader == SetupComplete \o Guard("read")
SpaceWriter == SetupComplete \o Guard("write")
SpaceAdmin == SetupComplete \o Guard("admin")

\* validate_csrf on the token in a form, with the page to go back to.
validate_csrf(no) == Ask("csrf", no)

\* require_library of pages.rs and of library.rs.
require_library(no) == Ask("library", no)
LibraryUser == SetupComplete \o require_library("refused")
XhrLibraryUser == CsrfXhr \o SessionSetupComplete \o require_library("refused")
XhrSpaceWriter == CsrfXhr \o SessionSpaceWriter

Least(m, n) == IF m <= n THEN m ELSE n

(***************************************************************************)
(* routes/auth.rs                                                          *)
(***************************************************************************)
api_register == Api(Call("register", "refused"))
api_login == Api(Call("login", "refused"))
api_logout == Api(AuthenticatedUser \o Call("logout", "refused"))
api_setup_library == Api(AuthenticatedUser \o Call("setup_library", "refused"))

(***************************************************************************)
(* routes/library.rs                                                       *)
(***************************************************************************)
library_list == Api(LibraryUser \o Call("list_directory", "refused"))
library_mkdir == Api(LibraryUser \o Call("create_directory", "refused"))
library_upload == Api(LibraryUser \o Body(Least(MaxUpload, HardCap))
                          \o Call("upload_file", "refused"))
library_download == Api(LibraryUser \o Call("download_file", "refused"))
library_delete == Api(LibraryUser \o Call("delete_entry", "refused"))
library_rename == Api(LibraryUser \o Call("rename_entry", "refused"))
library_info == Api(LibraryUser \o Call("get_entry_info", "refused"))
library_usage == Api(LibraryUser \o Call("calculate_usage", "refused"))
library_chunked_init_upload == Api(LibraryUser \o Call("library init_upload", "refused"))
library_chunked_receive_chunk == Api(LibraryUser \o Body(ChunkSize + 1)
                                         \o Call("library receive_chunk", "refused"))
library_chunked_complete_upload ==
    Api(LibraryUser \o Call("library complete_upload", "refused"))
library_chunked_cancel_upload ==
    Api(LibraryUser \o Call("library cancel_upload", "refused"))
library_chunked_init_download ==
    Api(LibraryUser \o Call("library init_download", "refused"))
\* The token of init_download names the library.
library_chunked_download_chunk == Api(SetupComplete \o Call("serve_chunk", "refused"))

(***************************************************************************)
(* routes/integrity.rs                                                     *)
(***************************************************************************)
list_events == Api(LibraryUser \o Call("list_events", "refused"))
\* Validate stands for the search of the id among the library's own events.
acknowledge_event ==
    Api(SetupComplete \o CsrfXhr \o require_library("refused")
            \o Call("list_events", "refused") \o Validate("refused")
            \o Call("acknowledge_event", "refused"))
notifications == Api(LibraryUser \o Call("list_unacknowledged", "refused"))
admin_list_events == Api(AdminUser \o Validate("refused")
                             \o Call("admin list_events", "refused"))
admin_scan == Api(AdminUser \o CsrfXhr \o Validate("refused")
                      \o Call("scan", "refused"))

(***************************************************************************)
(* routes/groups.rs                                                        *)
(***************************************************************************)
api_create_group == Api(SetupComplete \o Call("create_group", "refused"))
list_groups == Api(SetupComplete \o Call("list_user_groups", "refused"))
get_group == Api(SetupComplete \o Call("get_group", "refused"))
api_update_group == Api(SetupComplete \o Call("update_group", "refused")
                            \o Reread("get_group"))
api_delete_group == Api(SetupComplete \o Call("delete_group", "refused"))
list_members == Api(SetupComplete \o Call("list_members", "refused"))
api_add_member == Api(SetupComplete \o Call("add_member", "refused")
                          \o Reread("list_members"))
api_remove_member == Api(SetupComplete \o Call("remove_member", "refused"))
api_update_member_role == Api(SetupComplete \o Call("update_member_role", "refused")
                                  \o Reread("list_members"))

(***************************************************************************)
(* routes/spaces.rs                                                        *)
(***************************************************************************)
\* create_space or create_group_space, by the owner_type of the body.
api_create_space == Api(SetupComplete \o Validate("refused")
                            \o Call("create_space", "refused"))
list_spaces == Api(SetupComplete \o Call("list_user_spaces", "refused"))
get_space == Api(SpaceReader)
api_update_space == Api(SpaceAdmin \o Call("update_space", "refused")
                            \o Reread("get_space"))
api_delete_space == Api(SpaceAdmin \o Call("delete_space", "refused"))
list_access == Api(SpaceReader \o Call("list_access", "refused"))
api_grant_user_access == Api(SpaceAdmin \o Call("grant_user_access", "refused"))
api_grant_group_access == Api(SpaceAdmin \o Call("grant_group_access", "refused"))
api_update_access == Api(SpaceAdmin \o Call("update_access_permission", "refused"))
api_revoke_access == Api(SpaceAdmin \o Call("revoke_access", "refused"))
space_list_files == Api(SpaceReader \o Call("list_space_directory", "refused"))
space_mkdir == Api(SpaceWriter \o Call("create_space_directory", "refused"))
space_upload == Api(SpaceWriter \o Body(Least(MaxUpload, HardCap))
                        \o Call("upload_space_file", "refused"))
space_download == Api(SpaceReader \o Call("download_space_file", "refused"))
space_delete_file == Api(SpaceWriter \o Call("delete_space_entry", "refused"))
space_rename_file == Api(SpaceWriter \o Call("rename_space_entry", "refused"))
space_file_info == Api(SpaceReader \o Call("get_space_entry_info", "refused"))
space_file_usage == Api(SpaceReader \o Call("calculate_space_usage", "refused"))

(***************************************************************************)
(* routes/pages.rs: signing in and setting up                              *)
(***************************************************************************)
\* Variant of index: the page as it was called before.
indexRenamed == Page(Ask("session", "login_page") \o Ask("set_up", "setup_page"),
                     "files")
index == Page(Ask("session", "login_page") \o Ask("set_up", "setup_page"),
              "files_page")
login_page == Page(Ask("stranger", "index"), "done")
\* Validate stands for the rate limiter, and for the two passwords.
login_submit == Page(validate_csrf("login_page") \o Validate("login_page")
                         \o Call("login", "login_page")
                         \o Ask("set_up", "setup_page"), "files_page")
register_page == Page(Ask("stranger", "index"), "done")
register_submit == Page(validate_csrf("register_page") \o Validate("register_page")
                            \o Call("register", "register_page"), "login_page")
\* An optional user: without one there is no session to delete.
logout_submit == Page(validate_csrf("login_page") \o Try("logout"), "login_page")
setup_page == Page(SessionUser \o Ask("not_set_up", "files_page"), "done")
setup_submit == Page(SessionUser \o validate_csrf("setup_page")
                         \o Ask("not_set_up", "files_page")
                         \o Call("setup_library", "setup_page"), "files_page")

(***************************************************************************)
(* routes/pages.rs: the library                                            *)
(***************************************************************************)
files_page == Page(SessionSetupComplete \o require_library("setup_page")
                       \o Try("list_directory"), "done")
files_partial == Page(SessionSetupComplete \o require_library("refused")
                          \o Try("list_directory"), "done")
files_folders == Page(SessionSetupComplete \o require_library("refused")
                          \o Call("list_directory", "refused"), "done")

\* What mkdir, rename, move and delete share.
FormOnLibrary == SessionSetupComplete \o validate_csrf("files_page")
                     \o require_library("files_page")
mkdir_submit == Page(FormOnLibrary \o Call("create_directory", "files_page"), "files_page")
rename_submit == Page(FormOnLibrary \o Call("rename_entry", "files_page"), "files_page")
move_submit == Page(FormOnLibrary \o Validate("files_page")
                        \o Call("rename_entry", "files_page"), "files_page")
delete_submit == Page(FormOnLibrary \o Call("delete_entry", "files_page"), "files_page")

\* Variant of bulk_delete: without the header that other sites cannot send.
bulk_deleteNoHeader ==
    Page(SessionSetupComplete \o require_library("refused") \o Validate("refused")
             \o Sweep("delete_entry"), "done")

\* Validate is the test for 1 to 500 paths.
bulk_delete == Page(XhrLibraryUser \o Validate("refused") \o Sweep("delete_entry"), "done")
bulk_move == Page(XhrLibraryUser \o Validate("refused") \o Sweep("rename_entry"), "done")
upload_file == Page(XhrLibraryUser \o Body(Least(MaxUpload, HardCap))
                        \o Call("upload_file", "refused"), "done")
chunked_init_upload == Page(XhrLibraryUser \o Call("library init_upload", "refused"), "done")
chunked_receive_chunk == Page(XhrLibraryUser \o Body(ChunkSize + 1)
                                  \o Call("library receive_chunk", "refused"), "done")
chunked_complete_upload ==
    Page(XhrLibraryUser \o Call("library complete_upload", "refused"), "done")
chunked_cancel_upload ==
    Page(XhrLibraryUser \o Call("library cancel_upload", "refused"), "done")
chunked_init_download ==
    Page(SessionSetupComplete \o require_library("refused")
             \o Call("library init_download", "refused"), "done")
chunked_download_chunk == Page(SessionSetupComplete \o Call("serve_chunk", "refused"), "done")
download_file == Page(SessionSetupComplete \o require_library("files_page")
                          \o Call("download_file", "files_page"), "done")
usage_sidebar == Page(SessionSetupComplete \o require_library("refused")
                          \o Try("calculate_usage"), "done")
usage_page == Page(SessionSetupComplete \o require_library("setup_page")
                       \o Try("calculate_usage"), "done")
\* Shows the library if there is one.
settings_page == Page(SessionSetupComplete, "done")

(***************************************************************************)
(* routes/pages.rs: groups                                                 *)
(***************************************************************************)
groups_page == Page(SessionSetupComplete \o Try("list_user_groups"), "done")
groups_create_submit == Page(SessionSetupComplete \o validate_csrf("groups_page")
                                 \o Call("create_group", "groups_page"), "groups_page")
group_detail_page == Page(SessionSetupComplete \o Call("get_group", "groups_page")
                              \o Try("list_members"), "done")
FormOnGroup == SessionSetupComplete \o validate_csrf("group_detail_page")
group_edit_submit == Page(FormOnGroup \o Call("update_group", "group_detail_page"),
                          "group_detail_page")
group_delete_submit == Page(SessionSetupComplete \o validate_csrf("groups_page")
                                \o Call("delete_group", "groups_page"), "groups_page")
group_add_member_submit ==
    Page(FormOnGroup \o Call("add_member", "group_detail_page"), "group_detail_page")
group_remove_member_submit ==
    Page(FormOnGroup \o Call("remove_member", "group_detail_page"), "group_detail_page")
group_update_member_role_submit ==
    Page(FormOnGroup \o Call("update_member_role", "group_detail_page"), "group_detail_page")

(***************************************************************************)
(* routes/pages.rs: spaces                                                 *)
(***************************************************************************)
spaces_page == Page(SessionSetupComplete \o Try("list_user_spaces"), "done")
spaces_create_submit == Page(SessionSetupComplete \o validate_csrf("spaces_page")
                                 \o Call("create_space", "spaces_page"),
                             "space_browser_page")
space_browser_page == Page(SessionSpaceReader \o Try("list_space_directory"), "done")
space_browser_partial == Page(SessionSpaceReader \o Try("list_space_directory"), "done")
space_folders == Page(SessionSpaceReader \o Call("list_space_directory", "refused"), "done")
\* An empty or overlong query is answered with no results.
search_grantees == Page(SessionSetupComplete \o Validate("done")
                            \o Try("search_by_prefix"), "done")
space_settings_page == Page(SessionSpaceAdmin \o Try("list_access"), "done")

FormOnSettings == SessionSpaceAdmin \o validate_csrf("space_settings_page")
space_rename_submit ==
    Page(FormOnSettings \o Call("update_space", "space_settings_page"), "space_settings_page")
space_delete_submit ==
    Page(FormOnSettings \o Call("delete_space", "space_settings_page"), "spaces_page")
\* Validate stands for the lookup of a user's name, and a bad grantee_type.
space_grant_access_submit ==
    Page(FormOnSettings \o Validate("space_settings_page")
             \o Call("grant_access", "space_settings_page"), "space_settings_page")
space_update_access_submit ==
    Page(FormOnSettings \o Call("update_access_permission", "space_settings_page"),
         "space_settings_page")
space_revoke_access_submit ==
    Page(FormOnSettings \o Call("revoke_access", "space_settings_page"), "space_settings_page")

FormOnSpace == SessionSpaceWriter \o validate_csrf("space_browser_page")
space_mkdir_submit ==
    Page(FormOnSpace \o Call("create_space_directory", "space_browser_page"),
         "space_browser_page")
space_rename_entry_submit ==
    Page(FormOnSpace \o Call("rename_space_entry", "space_browser_page"),
         "space_browser_page")
space_move_entry_submit ==
    Page(FormOnSpace \o Validate("space_browser_page")
             \o Call("rename_space_entry", "space_browser_page"), "space_browser_page")
space_delete_entry_submit ==
    Page(FormOnSpace \o Call("delete_space_entry", "space_browser_page"),
         "space_browser_page")
space_bulk_delete == Page(XhrSpaceWriter \o Sweep("delete_space_entry"), "done")
space_bulk_move == Page(XhrSpaceWriter \o Sweep("rename_space_entry"), "done")
\* One byte more than the maximum is read, and nothing compares afterwards.
space_upload_file == Page(XhrSpaceWriter \o Body(MaxUpload + 1)
                              \o Call("upload_space_file", "refused"), "done")
space_download_file == Page(SessionSpaceReader
                                \o Call("download_space_file", "space_browser_page"), "done")
space_chunked_init_upload == Page(XhrSpaceWriter \o Call("space init_upload", "refused"), "done")
space_chunked_receive_chunk == Page(XhrSpaceWriter \o Body(ChunkSize + 1)
                                        \o Call("space receive_chunk", "refused"), "done")
space_chunked_complete_upload ==
    Page(XhrSpaceWriter \o Call("space complete_upload", "refused"), "done")
space_chunked_cancel_upload ==
    Page(XhrSpaceWriter \o Call("space cancel_upload", "refused"), "done")
space_chunked_init_download ==
    Page(SessionSpaceReader \o Call("space init_download", "refused"), "done")
space_chunked_download_chunk ==
    Page(SessionSpaceReader \o Call("serve_chunk", "refused"), "done")
=============================================================================
