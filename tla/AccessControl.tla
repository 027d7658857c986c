--------------------------- MODULE AccessControl ---------------------------
(***************************************************************************)
(* Groups, spaces and grants of IronDrive: who may do what, and when that  *)
(* is decided (services/group_service.rs, services/space_service.rs,       *)
(* guards/space_guard.rs, models/group.rs, models/space.rs and the         *)
(* handlers of routes/groups.rs, routes/spaces.rs and routes/pages.rs).    *)
(*                                                                         *)
(* A handler reads rows, decides, and writes in a later statement.  No     *)
(* transaction covers the three, so every statement is a step of its own   *)
(* and the requests in the slots Reqs interleave between them.  A crash    *)
(* drops the requests and keeps the rows.                                  *)
(*                                                                         *)
(* The users are logged in, set up and never deleted (no handler deletes   *)
(* one).  A request refused on the form of its arguments changes nothing   *)
(* and is left out, and so is the answer of a request: only its effect on  *)
(* the rows is kept.                                                       *)
(***************************************************************************)
EXTENDS Integers, FiniteSets

CONSTANTS
    Users,       \* user ids
    Groups,      \* group ids (UUIDs) that Group::create may mint
    Names,       \* group names
    Spaces,      \* space ids (UUIDs) that Space::create may mint
    Reqs,        \* request slots: at most one running request in each
    Grantable,   \* permissions that clients ask for
    MaxRequests, \* bound on the requests that begin
    None         \* no row, no argument

Roles == {"owner", "manager", "member"}
Permissions == {"read", "write", "admin"}
Grantees == ({"user"} \X Users) \cup ({"group"} \X Groups)

ASSUME BoundAssumption == MaxRequests \in Nat
ASSUME GrantableAssumption == Grantable \subseteq Permissions
VARIABLES
    group,     \* group[g]: the row of groups (created_by, name), or None
    member,    \* member[g][u]: the role in the row of group_members, or None
    space,     \* space[s]: the owner in the row of spaces, or None
    access,    \* access[s][w]: the permission in the row of space_access
    minted,    \* the group and space ids used so far
    req,       \* req[r]: the request running in slot r
    begun,     \* requests begun so far
    entitled   \* history, not kept by the server: entitled[r] says that the
               \* request's user was entitled to it at some time during it

rows == <<group, member, space, access, minted>>
vars == <<rows, req, begun, entitled>>

GroupOps == {"create_group", "update_group", "delete_group", "add_member",
             "remove_member", "update_member_role"}
SettingOps == {"update_space", "delete_space", "grant_user_access",
               "grant_group_access", "revoke_access",
               "update_access_permission"}
Ops == GroupOps \cup SettingOps
           \cup {"create_space", "create_group_space", "use_files"}

ASSUME NoneAssumption ==
    /\ None \notin Users \cup Groups \cup Names \cup Spaces
    /\ None \notin Roles \cup Permissions \cup Grantees
    /\ None \notin [by : Users, name : Names]
    /\ None \notin Ops

Idle == [op |-> None, pc |-> "idle", by |-> None, g |-> None, s |-> None,
         who |-> None, to |-> None, val |-> None]

Request == [op : Ops \cup {None},
            pc : {"idle", "guard", "check", "look", "insert", "write", "dir", "undo"},
            by : Users \cup {None}, g : Groups \cup {None},
            s : Spaces \cup {None}, who : Users \cup {None},
            to : Grantees \cup {None},
            val : Roles \cup Permissions \cup Names \cup {None}]

(***************************************************************************)
(* Queries.                                                                *)
(***************************************************************************)

GroupExists(g) == group[g] # None

\* Group::find_by_name: the ids that bear the name (at most one: UNIQUE).
find_by_name(n) == {g \in Groups : GroupExists(g) /\ group[g].name = n}

is_member(g, u) == member[g][u] # None

\* The CTE user_groups, the same in every permission query.
user_groups(u) == {g \in Groups : is_member(g, u)}

\* Group::find_for_user: the caller's role, where the group has a row.
GroupForUser(u, g) == IF GroupExists(g) THEN member[g][u] ELSE None

\* Group::find_all_for_user, the list of the pages and the API.
GroupsForUser(u) == {<<g, member[g][u]>> :
                         g \in {h \in Groups : GroupExists(h) /\ is_member(h, u)}}

Rank == [read |-> 1, write |-> 2, admin |-> 3]

\* Variant of Best: MAX over the words instead of their ranks.
BestByWord(perms) == IF "write" \in perms THEN 2
                     ELSE IF "read" \in perms THEN 1
                     ELSE IF "admin" \in perms THEN 3 ELSE 0

\* MAX over the ranks of a set of permissions; 0 stands for no row.
Best(perms) == IF "admin" \in perms THEN 3
               ELSE IF "write" \in perms THEN 2
               ELSE IF "read" \in perms THEN 1 ELSE 0

\* The grantee ids under which a user appears in space_access.
Faces(u) == {<<"user", u>>} \cup ({"group"} \X user_groups(u))

\* SpaceAccess::resolve_user_permission: the service's query.  The two
\* branches on space_access do not look at the row of spaces.
resolve_user_permission(u, s) ==
    Best({"admin" : w \in {space[s]} \cap {<<"user", u>>}}
         \cup {"admin" : w \in {space[s]} \cap ({"group"} \X user_groups(u))}
         \cup ({access[s][<<"user", u>>]} \ {None})
         \cup ({access[s][<<"group", g>>] : g \in user_groups(u)} \ {None}))

\* Variant of find_for_user: the branch on the owner group is missing.
find_for_user_NoGroupOwner(u, s) ==
    LET accessible == (IF space[s] = <<"user", u>> THEN {"admin"} ELSE {})
                          \cup {access[s][w] : w \in Faces(u)}
    IN  IF space[s] = None THEN 0 ELSE Best(accessible)

\* Space::find_for_user: the guard's query, which joins the row of spaces.
find_for_user(u, s) ==
    LET accessible == (IF space[s] \in Faces(u) THEN {"admin"} ELSE {})
                          \cup {access[s][w] : w \in Faces(u)}
    IN  IF space[s] = None THEN 0 ELSE Best(accessible)

\* Space::find_all_for_user: the list, from one pass over all spaces.
find_all_for_user(u) ==
    LET accessible_spaces ==
            {<<s, "admin">> : s \in {t \in Spaces : space[t] \in Faces(u)}}
            \cup {<<p[1], access[p[1]][p[2]]>> : p \in
                     {q \in Spaces \X Faces(u) : access[q[1]][q[2]] # None}}
        best_perm(s) == Best({p[2] : p \in {q \in accessible_spaces : q[1] = s}})
    IN  {<<s, best_perm(s)>> :
            s \in {p[1] : p \in accessible_spaces} \cap
                  {t \in Spaces : space[t] # None}}

(***************************************************************************)
(* Entitlement, stated without the queries: what the roles and permissions *)
(* are for.  Only history and properties use it.                           *)
(***************************************************************************)

Manages(u, g) == GroupExists(g) /\ member[g][u] \in {"owner", "manager"}
Created(u, g) == GroupExists(g) /\ group[g].by = u

\* u holds permission p or a higher one on s, as the owner, as a member of
\* the group that owns it, or by a grant to u or to a group u is in.
Holds(u, s, p) ==
    /\ space[s] # None
    /\ \E w \in Grantees :
          /\ \/ w = <<"user", u>>
             \/ \E g \in Groups : w = <<"group", g>> /\ is_member(g, u)
          /\ \/ space[s] = w
             \/ \E q \in Permissions : access[s][w] = q /\ Rank[q] >= Rank[p]

Entitled(q) ==
    CASE q.op \in {"update_group", "add_member"} -> Manages(q.by, q.g)
      [] q.op \in {"delete_group", "update_member_role"} -> Created(q.by, q.g)
      [] q.op = "remove_member" ->
             \/ Manages(q.by, q.g)
             \/ q.by = q.who /\ is_member(q.g, q.by)
      [] q.op \in SettingOps -> Holds(q.by, q.s, "admin")
      [] q.op = "use_files" -> Holds(q.by, q.s, q.val)
      [] OTHER -> TRUE

(***************************************************************************)
(* Steps of a request slot.                                                *)
(***************************************************************************)

At(r, op, pc) == req[r].op = op /\ req[r].pc = pc
Goto(r, pc) == req' = [req EXCEPT ![r].pc = pc]
Return(r) == req' = [req EXCEPT ![r] = Idle]

\* A check between two awaits: go on, or answer with an error.
Check(r, ok, pc) ==
    /\ IF ok THEN Goto(r, pc) ELSE Return(r)
    /\ UNCHANGED <<rows, begun>>

\* The last statement of a handler, and its answer.
Finish(r) == Return(r) /\ UNCHANGED begun

\* A handler takes the slot, with the arguments its client sent.
Begin(r, op, pc, args) ==
    /\ req[r].pc = "idle"
    /\ begun < MaxRequests
    /\ begun' = begun + 1
    /\ req' = [req EXCEPT ![r] =
                 [op |-> op, pc |-> pc, by |-> args.by, g |-> args.g, s |-> args.s,
                  who |-> args.who, to |-> args.to, val |-> args.val]]
    /\ UNCHANGED rows

(***************************************************************************)
(* Groups: the statements of models/group.rs and the service around them.  *)
(***************************************************************************)

\* require_member, require_manager_or_owner.
require_member(g, u) == is_member(g, u)
require_manager_or_owner(g, u) == member[g][u] \in {"owner", "manager"}

\* INSERT of Group::create.  created_by refers to a user; name is UNIQUE.
InsertGroup(r) ==
    \/ /\ find_by_name(req[r].val) = {}
       /\ \E g \in Groups \ minted :
             /\ group' = [group EXCEPT ![g] =
                             [by |-> req[r].by, name |-> req[r].val]]
             /\ minted' = minted \cup {g}
             /\ req' = [req EXCEPT ![r].pc = "write", ![r].g = g]
       /\ UNCHANGED <<member, space, access, begun>>
    \/ /\ find_by_name(req[r].val) # {}
       /\ Check(r, FALSE, "write")

\* GroupMember::add: fails on a row already there and on a group that is gone.
InsertMember(r, u, role) ==
    /\ member' = IF GroupExists(req[r].g) /\ ~is_member(req[r].g, u)
                 THEN [member EXCEPT ![req[r].g][u] = role] ELSE member
    /\ Finish(r)
    /\ UNCHANGED <<group, space, access, minted>>

\* UPDATE of Group::update: UNIQUE on the name again, NotFound without a row.
RenameGroup(r) ==
    /\ group' = IF GroupExists(req[r].g)
                   /\ find_by_name(req[r].val) \subseteq {req[r].g}
                THEN [group EXCEPT ![req[r].g] =
                         [by |-> group[req[r].g].by, name |-> req[r].val]]
                ELSE group
    /\ Finish(r)
    /\ UNCHANGED <<member, space, access, minted>>

\* Group::delete_by_id: the members go by cascade, the grants stay.
DeleteGroupRow(r) ==
    /\ group' = [group EXCEPT ![req[r].g] = None]
    /\ member' = [member EXCEPT ![req[r].g] = [u \in Users |-> None]]
    /\ Finish(r)
    /\ UNCHANGED <<space, access, minted>>

\* GroupMember::remove.
DeleteMember(r) ==
    /\ member' = [member EXCEPT ![req[r].g][req[r].who] = None]
    /\ Finish(r)
    /\ UNCHANGED <<group, space, access, minted>>

\* GroupMember::update_role: NotFound where there is no row.
UpdateRole(r) ==
    /\ member' = IF is_member(req[r].g, req[r].who)
                 THEN [member EXCEPT ![req[r].g][req[r].who] = req[r].val]
                 ELSE member
    /\ Finish(r)
    /\ UNCHANGED <<group, space, access, minted>>

create_group(r) ==
    \/ /\ At(r, "create_group", "check")
       /\ Check(r, find_by_name(req[r].val) = {}, "insert")
    \/ At(r, "create_group", "insert") /\ InsertGroup(r)
    \/ At(r, "create_group", "write") /\ InsertMember(r, req[r].by, "owner")

update_group(r) ==
    \/ /\ At(r, "update_group", "check")
       /\ Check(r, require_manager_or_owner(req[r].g, req[r].by), "look")
    \/ /\ At(r, "update_group", "look")
       /\ Check(r, find_by_name(req[r].val) \subseteq {req[r].g}, "write")
    \/ At(r, "update_group", "write") /\ RenameGroup(r)

delete_group(r) ==
    \/ /\ At(r, "delete_group", "check")
       /\ Check(r, GroupExists(req[r].g) /\ group[req[r].g].by = req[r].by, "write")
    \/ At(r, "delete_group", "write") /\ DeleteGroupRow(r)

add_member(r) ==
    \/ /\ At(r, "add_member", "check")
       /\ Check(r, /\ require_manager_or_owner(req[r].g, req[r].by)
                   /\ req[r].val # "owner", "write")
    \/ At(r, "add_member", "write") /\ InsertMember(r, req[r].who, req[r].val)

\* Variant of remove_member: the creator may be removed.
remove_member_AnyTarget(r) ==
    \/ /\ At(r, "remove_member", "check")
       /\ Check(r, GroupExists(req[r].g), "look")
    \/ /\ At(r, "remove_member", "look")
       /\ Check(r, IF req[r].by = req[r].who
                   THEN require_member(req[r].g, req[r].by)
                   ELSE require_manager_or_owner(req[r].g, req[r].by), "write")
    \/ At(r, "remove_member", "write") /\ DeleteMember(r)

remove_member(r) ==
    \/ /\ At(r, "remove_member", "check")
       /\ Check(r, /\ GroupExists(req[r].g)
                   /\ req[r].who # group[req[r].g].by, "look")
    \/ /\ At(r, "remove_member", "look")
       /\ Check(r, IF req[r].by = req[r].who
                   THEN require_member(req[r].g, req[r].by)
                   ELSE require_manager_or_owner(req[r].g, req[r].by), "write")
    \/ At(r, "remove_member", "write") /\ DeleteMember(r)

update_member_role(r) ==
    \/ /\ At(r, "update_member_role", "check")
       /\ Check(r, /\ GroupExists(req[r].g)
                   /\ group[req[r].g].by = req[r].by
                   /\ req[r].who # group[req[r].g].by
                   /\ req[r].val # "owner", "look")
    \/ /\ At(r, "update_member_role", "look")
       /\ Check(r, require_member(req[r].g, req[r].who), "write")
    \/ At(r, "update_member_role", "write") /\ UpdateRole(r)

(***************************************************************************)
(* Spaces.  A handler under /spaces/<id> passes the space guard, and the   *)
(* settings handlers then ask the service, which checks again.             *)
(***************************************************************************)

\* Variant of check_space_permission: any access is enough.
check_space_permission_AnyLevel(r, level, pc) ==
    /\ req[r].pc = "guard"
    /\ Check(r, find_for_user(req[r].by, req[r].s) > 0, pc)

\* check_space_permission, behind SpaceReader, SpaceWriter and SpaceAdmin.
check_space_permission(r, level, pc) ==
    /\ req[r].pc = "guard"
    /\ Check(r, find_for_user(req[r].by, req[r].s) >= Rank[level], pc)

\* space_service::require_permission; every caller asks for admin.
require_permission(r, pc) ==
    /\ req[r].pc = "check"
    /\ Check(r, resolve_user_permission(req[r].by, req[r].s) >= Rank["admin"], pc)

\* Variant of InsertSpace: owner_type is not stored.
InsertSpaceUntyped(r, owner) ==
    \E s \in Spaces \ minted :
        /\ space' = [space EXCEPT ![s] = owner[2]]
        /\ minted' = minted \cup {s}
        /\ req' = [req EXCEPT ![r].pc = "dir", ![r].s = s]
        /\ UNCHANGED <<group, member, access, begun>>

\* Space::create, for a user or a group.  owner_id refers to no table.
InsertSpace(r, owner) ==
    \E s \in Spaces \ minted :
        /\ space' = [space EXCEPT ![s] = owner]
        /\ minted' = minted \cup {s}
        /\ req' = [req EXCEPT ![r].pc = "dir", ![r].s = s]
        /\ UNCHANGED <<group, member, access, begun>>

\* Space::delete_by_id: the grants go by cascade.
DeleteSpaceRow(r) ==
    /\ space' = [space EXCEPT ![req[r].s] = None]
    /\ access' = [access EXCEPT ![req[r].s] = [w \in Grantees |-> None]]
    /\ Finish(r)
    /\ UNCHANGED <<group, member, minted>>

\* Variant of InsertGrant: foreign keys are not enforced.
InsertGrantUnchecked(r) ==
    /\ access' = IF access[req[r].s][req[r].to] = None
                 THEN [access EXCEPT ![req[r].s][req[r].to] = req[r].val]
                 ELSE access
    /\ Finish(r)
    /\ UNCHANGED <<group, member, space, minted>>

\* SpaceAccess::grant: fails on a grant already there and on a space that is
\* gone.  grantee_id refers to no table.
InsertGrant(r) ==
    /\ access' = IF space[req[r].s] # None /\ access[req[r].s][req[r].to] = None
                 THEN [access EXCEPT ![req[r].s][req[r].to] = req[r].val]
                 ELSE access
    /\ Finish(r)
    /\ UNCHANGED <<group, member, space, minted>>

\* SpaceAccess::revoke.
DeleteGrant(r) ==
    /\ access' = [access EXCEPT ![req[r].s][req[r].to] = None]
    /\ Finish(r)
    /\ UNCHANGED <<group, member, space, minted>>

\* SpaceAccess::update_permission: NotFound where there is no grant.
UpdateGrant(r) ==
    /\ access' = IF access[req[r].s][req[r].to] # None
                 THEN [access EXCEPT ![req[r].s][req[r].to] = req[r].val]
                 ELSE access
    /\ Finish(r)
    /\ UNCHANGED <<group, member, space, minted>>

\* The directory of a new space: where it cannot be made the row is removed.
MakeDirectory(r) ==
    \/ req[r].pc = "dir" /\ \E made \in BOOLEAN : Check(r, ~made, "undo")
    \/ req[r].pc = "undo" /\ DeleteSpaceRow(r)

create_space(r) ==
    /\ req[r].op = "create_space"
    /\ \/ req[r].pc = "write" /\ InsertSpace(r, <<"user", req[r].by>>)
       \/ MakeDirectory(r)

\* The group must exist; nothing asks whether the caller is a member.
create_group_space(r) ==
    /\ req[r].op = "create_group_space"
    /\ \/ req[r].pc = "check" /\ Check(r, GroupExists(req[r].g), "write")
       \/ req[r].pc = "write" /\ InsertSpace(r, <<"group", req[r].g>>)
       \/ MakeDirectory(r)

\* Space::update writes the name, which no query here reads.
update_space(r) ==
    /\ req[r].op = "update_space"
    /\ \/ check_space_permission(r, "admin", "check")
       \/ require_permission(r, "write")
       \/ req[r].pc = "write" /\ Finish(r) /\ UNCHANGED rows

delete_space(r) ==
    /\ req[r].op = "delete_space"
    /\ \/ check_space_permission(r, "admin", "check")
       \/ require_permission(r, "write")
       \/ req[r].pc = "write" /\ DeleteSpaceRow(r)

grant_user_access(r) ==
    /\ req[r].op = "grant_user_access"
    /\ \/ check_space_permission(r, "admin", "check")
       \/ require_permission(r, "write")
       \/ req[r].pc = "write" /\ InsertGrant(r)

grant_group_access(r) ==
    /\ req[r].op = "grant_group_access"
    /\ \/ check_space_permission(r, "admin", "check")
       \/ require_permission(r, "look")
       \/ req[r].pc = "look" /\ Check(r, GroupExists(req[r].to[2]), "write")
       \/ req[r].pc = "write" /\ InsertGrant(r)

revoke_access(r) ==
    /\ req[r].op = "revoke_access"
    /\ \/ check_space_permission(r, "admin", "check")
       \/ require_permission(r, "write")
       \/ req[r].pc = "write" /\ DeleteGrant(r)

update_access_permission(r) ==
    /\ req[r].op = "update_access_permission"
    /\ \/ check_space_permission(r, "admin", "check")
       \/ require_permission(r, "write")
       \/ req[r].pc = "write" /\ UpdateGrant(r)

\* A file handler: the guard asks for the level, the file service for none.
use_files(r) ==
    /\ req[r].op = "use_files"
    /\ \/ check_space_permission(r, req[r].val, "write")
       \/ req[r].pc = "write" /\ Finish(r) /\ UNCHANGED rows

(***************************************************************************)
(* Requests begin, and the server may stop at any time.  The arguments are *)
(* ids that some answer has shown (any other id is answered NotFound).     *)
(***************************************************************************)

Args(u) == [by |-> u, g |-> None, s |-> None, who |-> None, to |-> None,
            val |-> None]

BeginCreate(r) == \E u \in Users :
    \/ \E n \in Names :
          Begin(r, "create_group", "check", [Args(u) EXCEPT !.val = n])
    \/ Begin(r, "create_space", "write", Args(u))
    \/ \E g \in Groups \cap minted :
          Begin(r, "create_group_space", "check", [Args(u) EXCEPT !.g = g])

BeginOnGroup(r) == \E u \in Users, g \in Groups \cap minted :
    \/ \E n \in Names : Begin(r, "update_group", "check",
                              [Args(u) EXCEPT !.g = g, !.val = n])
    \/ Begin(r, "delete_group", "check", [Args(u) EXCEPT !.g = g])
    \/ \E v \in Users :
          \/ Begin(r, "remove_member", "check",
                   [Args(u) EXCEPT !.g = g, !.who = v])
          \/ \E role \in Roles, op \in {"add_member", "update_member_role"} :
                Begin(r, op, "check",
                      [Args(u) EXCEPT !.g = g, !.who = v, !.val = role])

BeginOnSpace(r) == \E u \in Users, s \in Spaces \cap minted :
    \/ \E op \in {"update_space", "delete_space"} :
          Begin(r, op, "guard", [Args(u) EXCEPT !.s = s])
    \/ \E p \in {"read", "write"} :
          Begin(r, "use_files", "guard", [Args(u) EXCEPT !.s = s, !.val = p])
    \/ \E w \in Grantees :
          /\ w[2] \in Users \cup minted
          /\ \/ Begin(r, "revoke_access", "guard",
                      [Args(u) EXCEPT !.s = s, !.to = w])
             \/ \E p \in Grantable, op \in
                   {IF w[1] = "user" THEN "grant_user_access"
                                     ELSE "grant_group_access",
                    "update_access_permission"} :
                   Begin(r, op, "guard",
                         [Args(u) EXCEPT !.s = s, !.to = w, !.val = p])

BeginRequest(r) == BeginCreate(r) \/ BeginOnGroup(r) \/ BeginOnSpace(r)

GroupStep(r) ==
    \/ create_group(r) \/ update_group(r) \/ delete_group(r)
    \/ add_member(r) \/ remove_member(r) \/ update_member_role(r)

SpaceStep(r) ==
    \/ create_space(r) \/ create_group_space(r)
    \/ update_space(r) \/ delete_space(r)
    \/ grant_user_access(r) \/ grant_group_access(r)
    \/ revoke_access(r) \/ update_access_permission(r)
    \/ use_files(r)

\* The process ends: every request is lost between two statements.
Crash ==
    /\ \E r \in Reqs : req[r] # Idle
    /\ req' = [r \in Reqs |-> Idle]
    /\ UNCHANGED <<rows, begun>>

\* The history: entitled at some state of the request, the present one included.
Observe ==
    entitled' = [r \in Reqs |->
        /\ req'[r] # Idle
        /\ \/ req[r] # Idle /\ entitled[r]
           \/ Entitled(req[r])' ]

Init ==
    /\ group = [g \in Groups |-> None]
    /\ member = [g \in Groups |-> [u \in Users |-> None]]
    /\ space = [s \in Spaces |-> None]
    /\ access = [s \in Spaces |-> [w \in Grantees |-> None]]
    /\ minted = {}
    /\ req = [r \in Reqs |-> Idle]
    /\ begun = 0
    /\ entitled = [r \in Reqs |-> FALSE]

Next ==
    /\ \/ \E r \in Reqs : BeginRequest(r) \/ GroupStep(r) \/ SpaceStep(r)
       \/ Crash
    /\ Observe

Spec == Init /\ [][Next]_vars

(***************************************************************************)
(* Properties.                                                             *)
(***************************************************************************)

\* Every row and request has the shape its table and handler give it.
TypeOK ==
    /\ group \in [Groups -> [by : Users, name : Names] \cup {None}]
    /\ member \in [Groups -> [Users -> Roles \cup {None}]]
    /\ space \in [Spaces -> Grantees \cup {None}]
    /\ access \in [Spaces -> [Grantees -> Permissions \cup {None}]]
    /\ minted \subseteq Groups \cup Spaces
    /\ req \in [Reqs -> Request]
    /\ begun \in 0..MaxRequests
    /\ entitled \in [Reqs -> BOOLEAN]

\* "There can only be one owner": the owner role is the creator's alone, and
\* the creator of a group with any member holds it.  create_group writes the
\* group and its owner in two statements, a crash may come between them, and
\* roles are checked in one statement and written in a later one.
OwnerAndCreator ==
    \A g \in Groups, u \in Users :
        is_member(g, u) =>
            /\ GroupExists(g)
            /\ member[g][group[g].by] = "owner"
            /\ member[g][u] = "owner" => u = group[g].by

\* What a request does, it was allowed to do at some time while it ran: no
\* check reads the rows of another group or space, or of another user, than
\* the statement it is for, whatever is written between the two.
AuthorisedWrites ==
    \A r \in Reqs : req[r].pc = "write" => entitled[r]

\* The list of spaces, the guard's query and the service's query give every
\* user the same permission on every space, after any grants, changes of
\* groups and deletions: what is listed opens, and what opens is listed.
QueriesAgree ==
    \A u \in Users, s \in Spaces :
        /\ find_for_user(u, s) = resolve_user_permission(u, s)
        /\ \A n \in 0..3 : <<s, n>> \in find_all_for_user(u) <=>
                               n = find_for_user(u, s) /\ n > 0

\* A deleted space leaves no grant behind.
GrantsOfSpaces ==
    \A s \in Spaces, w \in Grantees : access[s][w] # None => space[s] # None

\* The calls that can give somebody a permission or a role.
Raising == {"create_group", "add_member", "create_space", "create_group_space",
            "grant_user_access", "grant_group_access", "update_access_permission"}

\* A user's permission on a space rises only by the last statement of a
\* request entitled to raise it: no deletion, revocation, removal, renaming or
\* crash, and no id left over in a grant, ever gives anybody more.
RisesOnlyByGrant ==
    [][\A u \in Users, s \in Spaces :
          resolve_user_permission(u, s)' > resolve_user_permission(u, s) =>
              \E r \in Reqs : /\ req[r].op \in Raising
                              /\ req[r].pc = "write" /\ req'[r].pc # "write"
                              /\ entitled[r]]_vars

=============================================================================
