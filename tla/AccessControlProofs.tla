----------------------- MODULE AccessControlProofs ------------------------
(***************************************************************************)
(* Proofs about AccessControl, for any users, groups, spaces, names,       *)
(* request slots and number of requests.                                   *)
(***************************************************************************)
EXTENDS AccessControl, TLAPS

(***************************************************************************)
(* Types.  A row is well typed because the request that writes it carries  *)
(* the arguments of its handler; WellFormed says which these are.          *)
(***************************************************************************)

Pcs == {"idle", "guard", "check", "look", "insert", "write", "dir", "undo"}
Granting == {"grant_user_access", "grant_group_access", "update_access_permission"}

WellFormed(q) ==
    /\ q \in Request
    /\ q.pc # "idle" => q.op \in Ops /\ q.by \in Users
    /\ q.op \in GroupOps \ {"create_group"} => q.g \in Groups
    /\ q.op = "create_group" /\ q.pc = "write" => q.g \in Groups
    /\ q.op \in {"create_group", "update_group"} => q.val \in Names
    /\ q.op \in {"add_member", "remove_member", "update_member_role"} => q.who \in Users
    /\ q.op \in {"add_member", "update_member_role"} => q.val \in Roles
    /\ q.op = "create_group_space" => q.g \in Groups
    /\ q.op \in {"create_space", "create_group_space"} /\ q.pc \in {"dir", "undo"} =>
          q.s \in Spaces
    /\ q.op \in SettingOps \cup {"use_files"} => q.s \in Spaces
    /\ q.op \in Granting \cup {"revoke_access"} => q.to \in Grantees
    /\ q.op \in Granting \cup {"use_files"} => q.val \in Permissions

RequestsWell == req \in [Reqs -> Request] /\ \A r \in Reqs : WellFormed(req[r])

Tables ==
    /\ group \in [Groups -> [by : Users, name : Names] \cup {None}]
    /\ member \in [Groups -> [Users -> Roles \cup {None}]]
    /\ space \in [Spaces -> Grantees \cup {None}]
    /\ access \in [Spaces -> [Grantees -> Permissions \cup {None}]]
    /\ minted \subseteq Groups \cup Spaces
    /\ begun \in 0..MaxRequests

TypeInv == Tables /\ RequestsWell /\ entitled \in [Reqs -> BOOLEAN]

\* The operations, by name.
LEMMA OpNames ==
    {"create_group", "update_group", "delete_group", "add_member",
     "remove_member", "update_member_role", "create_space",
     "create_group_space", "use_files", "update_space", "delete_space",
     "grant_user_access", "grant_group_access", "revoke_access",
     "update_access_permission"} \subseteq Ops
BY DEF Ops, GroupOps, SettingOps

LEMMA IdleWell == WellFormed(Idle)
<1>1. Idle \in Request
  BY DEF Idle, Request
<1> QED
  BY <1>1, NoneAssumption DEF Idle, WellFormed, Granting, Ops, GroupOps, SettingOps

\* Requests stay well formed when a slot takes a well-formed one.
LEMMA ReplaceWell ==
    ASSUME RequestsWell, NEW r \in Reqs, NEW q, WellFormed(q),
           req' = [req EXCEPT ![r] = q]
    PROVE  RequestsWell'
<1>1. q \in Request
  BY DEF WellFormed
<1>2. req' \in [Reqs -> Request]
  BY <1>1 DEF RequestsWell
<1>3. ASSUME NEW x \in Reqs PROVE WellFormed(req'[x])
  <2>1. req'[x] = IF x = r THEN q ELSE req[x]
    BY DEF RequestsWell
  <2> QED
    BY <2>1 DEF RequestsWell
<1> QED
  BY <1>2, <1>3 DEF RequestsWell

LEMMA ReturnWell ==
    ASSUME RequestsWell, NEW r \in Reqs, Return(r)
    PROVE  RequestsWell'
BY IdleWell, ReplaceWell DEF Return

\* A request goes on to a point that its arguments allow.
LEMMA GotoWell ==
    ASSUME RequestsWell, NEW r \in Reqs, NEW pc \in Pcs, Goto(r, pc),
           req[r].pc # "idle",
           pc = "write" => req[r].op # "create_group",
           pc \in {"dir", "undo"} => req[r].s \in Spaces
    PROVE  RequestsWell'
<1> DEFINE q == [req[r] EXCEPT !.pc = pc]
<1>1. WellFormed(req[r])
  BY DEF RequestsWell
<1>2. req[r] \in Request
  BY <1>1 DEF WellFormed
<1>3. /\ q \in Request /\ q.pc = pc
      /\ q.op = req[r].op /\ q.by = req[r].by /\ q.g = req[r].g
      /\ q.s = req[r].s /\ q.who = req[r].who /\ q.to = req[r].to
      /\ q.val = req[r].val
  BY <1>2 DEF Request, Pcs
<1>4. WellFormed(q)
  <2> HIDE DEF q
  <2> QED
    BY <1>1, <1>3 DEF WellFormed
<1> QED
  BY <1>4, ReplaceWell DEF Goto

\* What a step of a handler keeps.
Kept == Tables' /\ RequestsWell'

\* A check between two statements.
LEMMA CheckKept ==
    ASSUME TypeInv, NEW r \in Reqs, NEW pc \in Pcs,
           Goto(r, pc) \/ Return(r), UNCHANGED <<rows, begun>>,
           req[r].pc # "idle",
           pc = "write" => req[r].op # "create_group",
           pc \in {"dir", "undo"} => req[r].s \in Spaces
    PROVE  Kept
<1>1. Tables'
  BY DEF TypeInv, Tables, rows
<1>2. RequestsWell'
  BY GotoWell, ReturnWell DEF TypeInv
<1> QED
  BY <1>1, <1>2 DEF Kept

\* The statements that write.
LEMMA InsertGroupKept ==
    ASSUME TypeInv, NEW r \in Reqs, At(r, "create_group", "insert"), InsertGroup(r)
    PROVE  Kept
<1>1. WellFormed(req[r]) /\ req[r] \in Request /\ req[r].by \in Users
      /\ req[r].val \in Names
  BY DEF TypeInv, RequestsWell, WellFormed, At
<1>2. CASE find_by_name(req[r].val) # {}
  BY <1>2, CheckKept DEF InsertGroup, Check, At, Pcs, Return
<1>3. CASE find_by_name(req[r].val) = {}
  <2>1. PICK g \in Groups \ minted :
          /\ group' = [group EXCEPT ![g] = [by |-> req[r].by, name |-> req[r].val]]
          /\ minted' = minted \cup {g}
          /\ req' = [req EXCEPT ![r].pc = "write", ![r].g = g]
          /\ UNCHANGED <<member, space, access, begun>>
    BY <1>3 DEF InsertGroup
  <2>2. Tables'
    BY <1>1, <2>1 DEF TypeInv, Tables
  <2> DEFINE q == [req[r] EXCEPT !.pc = "write", !.g = g]
  <2>3. /\ q \in Request /\ q.pc = "write" /\ q.g = g
        /\ q.op = req[r].op /\ q.by = req[r].by
        /\ q.s = req[r].s /\ q.who = req[r].who /\ q.to = req[r].to
        /\ q.val = req[r].val
    BY <1>1, <2>1 DEF Request
  <2>4. WellFormed(q)
    <3> HIDE DEF q
    <3> QED
      BY <1>1, <2>3 DEF WellFormed, At
  <2>5. req' = [req EXCEPT ![r] = q]
    BY <2>1 DEF TypeInv, RequestsWell
  <2>6. RequestsWell'
    BY <2>4, <2>5, ReplaceWell DEF TypeInv
  <2> QED
    BY <2>2, <2>6 DEF Kept
<1> QED
  BY <1>2, <1>3

LEMMA InsertMemberKept ==
    ASSUME TypeInv, NEW r \in Reqs, NEW u \in Users, NEW role \in Roles,
           req[r].g \in Groups, InsertMember(r, u, role)
    PROVE  Kept
<1>1. member' \in [Groups -> [Users -> Roles \cup {None}]]
  BY DEF TypeInv, Tables, InsertMember
<1>2. Tables'
  BY <1>1 DEF TypeInv, Tables, InsertMember, Finish
<1> QED
  BY <1>2, ReturnWell DEF Kept, InsertMember, Finish, TypeInv

LEMMA RenameGroupKept ==
    ASSUME TypeInv, NEW r \in Reqs, req[r].g \in Groups, req[r].val \in Names,
           RenameGroup(r)
    PROVE  Kept
<1>1. group[req[r].g] # None => group[req[r].g].by \in Users
  BY DEF TypeInv, Tables
<1>2. group' \in [Groups -> [by : Users, name : Names] \cup {None}]
  BY <1>1 DEF TypeInv, Tables, RenameGroup, GroupExists
<1>3. Tables'
  BY <1>2 DEF TypeInv, Tables, RenameGroup, Finish
<1> QED
  BY <1>3, ReturnWell DEF Kept, RenameGroup, Finish, TypeInv

LEMMA DeleteGroupRowKept ==
    ASSUME TypeInv, NEW r \in Reqs, req[r].g \in Groups, DeleteGroupRow(r)
    PROVE  Kept
<1>1. Tables'
  BY DEF TypeInv, Tables, DeleteGroupRow, Finish
<1> QED
  BY <1>1, ReturnWell DEF Kept, DeleteGroupRow, Finish, TypeInv

LEMMA DeleteMemberKept ==
    ASSUME TypeInv, NEW r \in Reqs, req[r].g \in Groups, req[r].who \in Users,
           DeleteMember(r)
    PROVE  Kept
<1>1. Tables'
  BY DEF TypeInv, Tables, DeleteMember, Finish
<1> QED
  BY <1>1, ReturnWell DEF Kept, DeleteMember, Finish, TypeInv

LEMMA UpdateRoleKept ==
    ASSUME TypeInv, NEW r \in Reqs, req[r].g \in Groups, req[r].who \in Users,
           req[r].val \in Roles, UpdateRole(r)
    PROVE  Kept
<1>1. Tables'
  BY DEF TypeInv, Tables, UpdateRole, Finish
<1> QED
  BY <1>1, ReturnWell DEF Kept, UpdateRole, Finish, TypeInv

LEMMA InsertSpaceKept ==
    ASSUME TypeInv, NEW r \in Reqs, NEW owner \in Grantees,
           req[r].pc # "idle", InsertSpace(r, owner)
    PROVE  Kept
<1>1. WellFormed(req[r]) /\ req[r] \in Request
  BY DEF TypeInv, RequestsWell, WellFormed
<1>2. PICK s \in Spaces \ minted :
        /\ space' = [space EXCEPT ![s] = owner]
        /\ minted' = minted \cup {s}
        /\ req' = [req EXCEPT ![r].pc = "dir", ![r].s = s]
        /\ UNCHANGED <<group, member, access, begun>>
  BY DEF InsertSpace
<1>3. Tables'
  BY <1>2 DEF TypeInv, Tables
<1> DEFINE q == [req[r] EXCEPT !.pc = "dir", !.s = s]
<1>4. /\ q \in Request /\ q.pc = "dir" /\ q.s = s
      /\ q.op = req[r].op /\ q.by = req[r].by
      /\ q.g = req[r].g /\ q.who = req[r].who /\ q.to = req[r].to
      /\ q.val = req[r].val
  BY <1>1, <1>2 DEF Request
<1>5. WellFormed(q)
  <2> HIDE DEF q
  <2> QED
    BY <1>1, <1>2, <1>4 DEF WellFormed
<1>6. req' = [req EXCEPT ![r] = q]
  BY <1>2 DEF TypeInv, RequestsWell
<1>7. RequestsWell'
  BY <1>5, <1>6, ReplaceWell DEF TypeInv
<1> QED
  BY <1>3, <1>7 DEF Kept

LEMMA DeleteSpaceRowKept ==
    ASSUME TypeInv, NEW r \in Reqs, req[r].s \in Spaces, DeleteSpaceRow(r)
    PROVE  Kept
<1>1. Tables'
  BY DEF TypeInv, Tables, DeleteSpaceRow, Finish
<1> QED
  BY <1>1, ReturnWell DEF Kept, DeleteSpaceRow, Finish, TypeInv

LEMMA GrantKept ==
    ASSUME TypeInv, NEW r \in Reqs, req[r].s \in Spaces, req[r].to \in Grantees,
           \/ DeleteGrant(r)
           \/ req[r].val \in Permissions /\ (InsertGrant(r) \/ UpdateGrant(r))
    PROVE  Kept
<1>1. Tables'
  <2>1. access' \in [Spaces -> [Grantees -> Permissions \cup {None}]]
    <3>1. access \in [Spaces -> [Grantees -> Permissions \cup {None}]]
      BY DEF TypeInv, Tables
    <3>2. CASE DeleteGrant(r)
      BY <3>1, <3>2 DEF DeleteGrant
    <3>3. CASE req[r].val \in Permissions /\ InsertGrant(r)
      BY <3>1, <3>3 DEF InsertGrant
    <3>4. CASE req[r].val \in Permissions /\ UpdateGrant(r)
      BY <3>1, <3>4 DEF UpdateGrant
    <3> QED
      BY <3>2, <3>3, <3>4
  <2> QED
    BY <2>1 DEF TypeInv, Tables, DeleteGrant, InsertGrant, UpdateGrant, Finish
<1> QED
  BY <1>1, ReturnWell
     DEF Kept, DeleteGrant, InsertGrant, UpdateGrant, Finish, TypeInv

(***************************************************************************)
(* The handlers.                                                           *)
(***************************************************************************)

LEMMA GroupStepKept ==
    ASSUME TypeInv, NEW r \in Reqs, GroupStep(r)
    PROVE  Kept
<1> USE DEF TypeInv, At
<1>1. WellFormed(req[r]) /\ req[r] \in Request
  BY DEF RequestsWell, WellFormed
<1>2. {"check", "look", "insert", "write"} \subseteq Pcs
  BY DEF Pcs
<1>3. CASE create_group(r)
  <2>1. req[r].by \in Users
    BY <1>1, <1>3 DEF create_group, WellFormed
  <2>2. CASE At(r, "create_group", "check")
    BY <1>2, <1>3, <2>2, CheckKept DEF create_group, Check
  <2>3. CASE At(r, "create_group", "insert")
    BY <1>3, <2>3, InsertGroupKept DEF create_group
  <2>4. CASE At(r, "create_group", "write")
    BY <1>1, <1>3, <2>1, <2>4, InsertMemberKept DEF create_group, WellFormed, Roles
  <2> QED
    BY <1>3, <2>2, <2>3, <2>4 DEF create_group
<1>4. CASE update_group(r)
  <2>1. req[r].g \in Groups /\ req[r].val \in Names
    BY <1>1, <1>4 DEF update_group, WellFormed, GroupOps
  <2> QED
    BY <1>2, <1>4, <2>1, CheckKept, RenameGroupKept DEF update_group, Check
<1>5. CASE delete_group(r)
  <2>1. req[r].g \in Groups
    BY <1>1, <1>5 DEF delete_group, WellFormed, GroupOps
  <2> QED
    BY <1>2, <1>5, <2>1, CheckKept, DeleteGroupRowKept DEF delete_group, Check
<1>6. CASE add_member(r)
  <2>1. req[r].g \in Groups /\ req[r].who \in Users /\ req[r].val \in Roles
    BY <1>1, <1>6 DEF add_member, WellFormed, GroupOps
  <2> QED
    BY <1>2, <1>6, <2>1, CheckKept, InsertMemberKept DEF add_member, Check
<1>7. CASE remove_member(r)
  <2>1. req[r].g \in Groups /\ req[r].who \in Users
    BY <1>1, <1>7 DEF remove_member, WellFormed, GroupOps
  <2> QED
    BY <1>2, <1>7, <2>1, CheckKept, DeleteMemberKept DEF remove_member, Check
<1>8. CASE update_member_role(r)
  <2>1. req[r].g \in Groups /\ req[r].who \in Users /\ req[r].val \in Roles
    BY <1>1, <1>8 DEF update_member_role, WellFormed, GroupOps
  <2> QED
    BY <1>2, <1>8, <2>1, CheckKept, UpdateRoleKept DEF update_member_role, Check
<1> QED
  BY <1>3, <1>4, <1>5, <1>6, <1>7, <1>8 DEF GroupStep

LEMMA SpaceStepKept ==
    ASSUME TypeInv, NEW r \in Reqs, SpaceStep(r)
    PROVE  Kept
<1> USE DEF TypeInv
<1>1. WellFormed(req[r]) /\ req[r] \in Request
  BY DEF RequestsWell, WellFormed
<1>2. {"guard", "check", "look", "write", "dir", "undo"} \subseteq Pcs
  BY DEF Pcs
<1>3. ASSUME NEW level, NEW pc \in {"check", "write"}, req[r].op # "create_group",
             check_space_permission(r, level, pc)
      PROVE  Kept
  BY <1>2, <1>3, CheckKept DEF check_space_permission, Check
<1>4. ASSUME NEW pc \in {"look", "write"}, req[r].op # "create_group",
             require_permission(r, pc)
      PROVE  Kept
  BY <1>2, <1>4, CheckKept DEF require_permission, Check
<1>5. ASSUME Finish(r), UNCHANGED rows
      PROVE  Kept
  BY <1>5, ReturnWell DEF Kept, Finish, rows, Tables
<1>6. ASSUME req[r].op \in {"create_space", "create_group_space"}, MakeDirectory(r)
      PROVE  Kept
  <2>1. CASE req[r].pc = "dir"
    <3>1. req[r].s \in Spaces
      BY <1>1, <1>6, <2>1 DEF WellFormed
    <3> QED
      BY <1>2, <1>6, <2>1, <3>1, CheckKept DEF MakeDirectory, Check
  <2>2. CASE req[r].pc = "undo"
    <3>1. req[r].s \in Spaces
      BY <1>1, <1>6, <2>2 DEF WellFormed
    <3> QED
      BY <1>6, <2>2, <3>1, DeleteSpaceRowKept DEF MakeDirectory
  <2> QED
    BY <1>6, <2>1, <2>2 DEF MakeDirectory
<1>7. CASE create_space(r)
  <2>1. req[r].pc = "write" => <<"user", req[r].by>> \in Grantees
    BY <1>1, <1>7 DEF WellFormed, create_space, Grantees
  <2> QED
    BY <1>6, <1>7, <2>1, InsertSpaceKept DEF create_space
<1>8. CASE create_group_space(r)
  <2>1. <<"group", req[r].g>> \in Grantees
    BY <1>1, <1>8 DEF WellFormed, create_group_space, Grantees
  <2>2. CASE req[r].pc = "check"
    BY <1>2, <1>8, <2>2, CheckKept DEF create_group_space, Check, MakeDirectory
  <2> QED
    BY <1>6, <1>8, <2>1, <2>2, InsertSpaceKept DEF create_group_space
<1>9. CASE update_space(r)
  BY <1>3, <1>4, <1>5, <1>9 DEF update_space
<1>10. CASE delete_space(r)
  <2>1. req[r].s \in Spaces
    BY <1>1, <1>10 DEF delete_space, WellFormed, SettingOps
  <2> QED
    BY <1>3, <1>4, <1>10, <2>1, DeleteSpaceRowKept DEF delete_space
<1>11. CASE grant_user_access(r)
  <2>1. req[r].s \in Spaces /\ req[r].to \in Grantees /\ req[r].val \in Permissions
    BY <1>1, <1>11 DEF grant_user_access, WellFormed, SettingOps, Granting
  <2> QED
    BY <1>3, <1>4, <1>11, <2>1, GrantKept DEF grant_user_access
<1>12. CASE grant_group_access(r)
  <2>1. req[r].s \in Spaces /\ req[r].to \in Grantees /\ req[r].val \in Permissions
    BY <1>1, <1>12 DEF grant_group_access, WellFormed, SettingOps, Granting
  <2>2. CASE req[r].pc = "look" /\ Check(r, GroupExists(req[r].to[2]), "write")
    BY <1>2, <1>12, <2>2, CheckKept DEF grant_group_access, Check
  <2> QED
    BY <1>3, <1>4, <1>12, <2>1, <2>2, GrantKept DEF grant_group_access
<1>13. CASE revoke_access(r)
  <2>1. req[r].s \in Spaces /\ req[r].to \in Grantees
    BY <1>1, <1>13 DEF revoke_access, WellFormed, SettingOps
  <2> QED
    BY <1>3, <1>4, <1>13, <2>1, GrantKept DEF revoke_access
<1>14. CASE update_access_permission(r)
  <2>1. req[r].s \in Spaces /\ req[r].to \in Grantees /\ req[r].val \in Permissions
    BY <1>1, <1>14 DEF update_access_permission, WellFormed, SettingOps, Granting
  <2> QED
    BY <1>3, <1>4, <1>14, <2>1, GrantKept DEF update_access_permission
<1>15. CASE use_files(r)
  BY <1>3, <1>5, <1>15 DEF use_files
<1> QED
  BY <1>7, <1>8, <1>9, <1>10, <1>11, <1>12, <1>13, <1>14, <1>15 DEF SpaceStep

\* What a slot holds when a request has begun in it.
Begun(op, pc, args) ==
    [op |-> op, pc |-> pc, by |-> args.by, g |-> args.g, s |-> args.s,
     who |-> args.who, to |-> args.to, val |-> args.val]

LEMMA BeginKept ==
    ASSUME TypeInv, NEW r \in Reqs, NEW op, NEW pc, NEW args,
           WellFormed(Begun(op, pc, args)), Begin(r, op, pc, args)
    PROVE  Kept
<1>1. req' = [req EXCEPT ![r] = Begun(op, pc, args)]
  BY Zenon DEF Begin, Begun
<1>2. RequestsWell'
  BY <1>1, ReplaceWell DEF TypeInv
<1>3. Tables'
  BY BoundAssumption DEF TypeInv, Tables, Begin, rows
<1> QED
  BY <1>2, <1>3 DEF Kept

LEMMA BeginRequestKept ==
    ASSUME TypeInv, NEW r \in Reqs, BeginRequest(r)
    PROVE  Kept
<1>1. CASE BeginCreate(r)
  <2>1. PICK u \in Users :
          \/ \E n \in Names :
                Begin(r, "create_group", "check", [Args(u) EXCEPT !.val = n])
          \/ Begin(r, "create_space", "write", Args(u))
          \/ \E g \in Groups \cap minted :
                Begin(r, "create_group_space", "check", [Args(u) EXCEPT !.g = g])
    BY <1>1 DEF BeginCreate
  <2>2. ASSUME NEW n \in Names
        PROVE  WellFormed(Begun("create_group", "check", [Args(u) EXCEPT !.val = n]))
    BY OpNames DEF WellFormed, Begun, Args, Request, Granting, SettingOps, GroupOps
  <2>3. WellFormed(Begun("create_space", "write", Args(u)))
    BY OpNames DEF WellFormed, Begun, Args, Request, Granting, SettingOps, GroupOps
  <2>4. ASSUME NEW g \in Groups
        PROVE  WellFormed(Begun("create_group_space", "check", [Args(u) EXCEPT !.g = g]))
    BY OpNames DEF WellFormed, Begun, Args, Request, Granting, SettingOps, GroupOps
  <2> QED
    BY <2>1, <2>2, <2>3, <2>4, BeginKept
<1>2. CASE BeginOnGroup(r)
  <2>1. PICK u \in Users, g \in Groups \cap minted :
          \/ \E n \in Names : Begin(r, "update_group", "check",
                                    [Args(u) EXCEPT !.g = g, !.val = n])
          \/ Begin(r, "delete_group", "check", [Args(u) EXCEPT !.g = g])
          \/ \E v \in Users :
                \/ Begin(r, "remove_member", "check",
                         [Args(u) EXCEPT !.g = g, !.who = v])
                \/ \E role \in Roles, op \in {"add_member", "update_member_role"} :
                      Begin(r, op, "check",
                            [Args(u) EXCEPT !.g = g, !.who = v, !.val = role])
    BY <1>2 DEF BeginOnGroup
  <2>2. ASSUME NEW n \in Names
        PROVE  WellFormed(Begun("update_group", "check",
                                [Args(u) EXCEPT !.g = g, !.val = n]))
    BY OpNames DEF WellFormed, Begun, Args, Request, Granting, SettingOps, GroupOps
  <2>3. WellFormed(Begun("delete_group", "check", [Args(u) EXCEPT !.g = g]))
    BY OpNames DEF WellFormed, Begun, Args, Request, Granting, SettingOps, GroupOps
  <2>4. ASSUME NEW v \in Users
        PROVE  WellFormed(Begun("remove_member", "check",
                                [Args(u) EXCEPT !.g = g, !.who = v]))
    BY OpNames DEF WellFormed, Begun, Args, Request, Granting, SettingOps, GroupOps
  <2>5. ASSUME NEW v \in Users, NEW role \in Roles,
               NEW op \in {"add_member", "update_member_role"}
        PROVE  WellFormed(Begun(op, "check",
                                [Args(u) EXCEPT !.g = g, !.who = v, !.val = role]))
    BY OpNames DEF WellFormed, Begun, Args, Request, Granting, SettingOps, GroupOps
  <2> QED
    BY <2>1, <2>2, <2>3, <2>4, <2>5, BeginKept
<1>3. CASE BeginOnSpace(r)
  <2>1. PICK u \in Users, s \in Spaces \cap minted :
          \/ \E op \in {"update_space", "delete_space"} :
                Begin(r, op, "guard", [Args(u) EXCEPT !.s = s])
          \/ \E p \in {"read", "write"} :
                Begin(r, "use_files", "guard", [Args(u) EXCEPT !.s = s, !.val = p])
          \/ \E w \in Grantees :
                \/ Begin(r, "revoke_access", "guard",
                         [Args(u) EXCEPT !.s = s, !.to = w])
                \/ \E p \in Grantable, op \in Granting :
                      Begin(r, op, "guard",
                            [Args(u) EXCEPT !.s = s, !.to = w, !.val = p])
    <3>1. PICK u \in Users, s \in Spaces \cap minted :
          \/ \E op \in {"update_space", "delete_space"} :
                Begin(r, op, "guard", [Args(u) EXCEPT !.s = s])
          \/ \E p \in {"read", "write"} :
                Begin(r, "use_files", "guard", [Args(u) EXCEPT !.s = s, !.val = p])
          \/ \E w \in Grantees :
                \/ Begin(r, "revoke_access", "guard",
                         [Args(u) EXCEPT !.s = s, !.to = w])
                \/ \E p \in Grantable, op \in
                      {IF w[1] = "user" THEN "grant_user_access"
                                        ELSE "grant_group_access",
                       "update_access_permission"} :
                      Begin(r, op, "guard",
                            [Args(u) EXCEPT !.s = s, !.to = w, !.val = p])
      BY <1>3 DEF BeginOnSpace
    <3>2. \A w : {IF w[1] = "user" THEN "grant_user_access"
                                   ELSE "grant_group_access",
                  "update_access_permission"} \subseteq Granting
      BY DEF Granting
    <3> QED
      BY <3>1, <3>2
  <2>2. ASSUME NEW op \in {"update_space", "delete_space"}
        PROVE  WellFormed(Begun(op, "guard", [Args(u) EXCEPT !.s = s]))
    BY OpNames DEF WellFormed, Begun, Args, Request, Granting, SettingOps, GroupOps
  <2>3. ASSUME NEW p \in {"read", "write"}
        PROVE  WellFormed(Begun("use_files", "guard",
                                [Args(u) EXCEPT !.s = s, !.val = p]))
    BY OpNames DEF WellFormed, Begun, Args, Request, Granting, SettingOps, GroupOps,
                   Permissions
  <2>4. ASSUME NEW w \in Grantees
        PROVE  WellFormed(Begun("revoke_access", "guard",
                                [Args(u) EXCEPT !.s = s, !.to = w]))
    BY OpNames DEF WellFormed, Begun, Args, Request, Granting, SettingOps, GroupOps
  <2>5. ASSUME NEW w \in Grantees, NEW p \in Grantable, NEW op \in Granting
        PROVE  WellFormed(Begun(op, "guard",
                                [Args(u) EXCEPT !.s = s, !.to = w, !.val = p]))
    BY OpNames, GrantableAssumption
       DEF WellFormed, Begun, Args, Request, Granting, SettingOps, GroupOps
  <2> QED
    BY <2>1, <2>2, <2>3, <2>4, <2>5, BeginKept
<1> QED
  BY <1>1, <1>2, <1>3 DEF BeginRequest

(***************************************************************************)
(* The type invariant.                                                     *)
(***************************************************************************)

LEMMA TypeInit == Init => TypeInv
<1> SUFFICES ASSUME Init PROVE TypeInv
  OBVIOUS
<1>1. Tables
  BY BoundAssumption DEF Init, Tables
<1>2. RequestsWell
  BY IdleWell DEF Init, RequestsWell, WellFormed
<1> QED
  BY <1>1, <1>2 DEF Init, TypeInv

LEMMA TypeStep == TypeInv /\ [Next]_vars => TypeInv'
<1> SUFFICES ASSUME TypeInv, [Next]_vars PROVE TypeInv'
  OBVIOUS
<1>1. CASE UNCHANGED vars
  BY <1>1 DEF TypeInv, Tables, RequestsWell, vars, rows
<1>2. CASE Next
  <2>1. entitled' \in [Reqs -> BOOLEAN]
    BY <1>2, Zenon DEF Next, Observe
  <2>2. CASE Crash
    <3>1. Tables'
      BY <2>2 DEF TypeInv, Tables, Crash, rows
    <3>2. RequestsWell'
      BY <2>2, IdleWell DEF RequestsWell, Crash, WellFormed
    <3> QED
      BY <2>1, <3>1, <3>2 DEF TypeInv
  <2>3. CASE \E r \in Reqs : BeginRequest(r) \/ GroupStep(r) \/ SpaceStep(r)
    <3>1. Kept
      BY <2>3, BeginRequestKept, GroupStepKept, SpaceStepKept
    <3> QED
      BY <2>1, <3>1 DEF Kept, TypeInv
  <2> QED
    BY <1>2, <2>2, <2>3 DEF Next
<1> QED
  BY <1>1, <1>2

\* The rows and requests keep the shape of their tables and handlers: what a
\* handler writes is what its route has taken as an argument of that kind.
THEOREM TypeCorrect == Spec => []TypeOK
<1>1. TypeInv => TypeOK
  BY DEF TypeInv, Tables, RequestsWell, TypeOK
<1> QED
  BY <1>1, TypeInit, TypeStep, PTL DEF Spec

(***************************************************************************)
(* Owners and grants.  Sound is what the rows satisfy; Pending is what a   *)
(* check has established and the later statement relies on, stated so that *)
(* every step of any other request keeps it (RowStep).                     *)
(***************************************************************************)

Sound ==
    /\ OwnerAndCreator
    /\ GrantsOfSpaces
    /\ \A g \in Groups : GroupExists(g) => g \in minted

Pending(q) ==
    /\ q.op \in GroupOps /\ q.g # None => q.g \in minted
    /\ q.op = "create_group" /\ q.pc = "write" /\ GroupExists(q.g) =>
          group[q.g].by = q.by
    /\ q.op = "add_member" /\ q.pc = "write" =>
          /\ q.val # "owner"
          /\ GroupExists(q.g) => member[q.g][group[q.g].by] = "owner"
    /\ q.op \in {"remove_member", "update_member_role"} /\ q.pc \in {"look", "write"}
          /\ GroupExists(q.g) => q.who # group[q.g].by
    /\ q.op = "update_member_role" /\ q.pc \in {"look", "write"} => q.val # "owner"

OwnerInv == TypeInv /\ Sound /\ \A r \in Reqs : Pending(req[r])

\* What any step may do to the rows of groups: ids are used once, a creator
\* stays one, and stays owner as long as the group exists.
RowStep ==
    /\ minted \subseteq minted'
    /\ \A g \in Groups : group'[g] # None =>
          \/ g \notin minted
          \/ /\ group[g] # None /\ group'[g].by = group[g].by
             /\ member[g][group[g].by] = "owner" => member'[g][group[g].by] = "owner"

\* A slot that a step leaves alone keeps what it relies on.
LEMMA PendingStays ==
    ASSUME TypeInv, RowStep, NEW x \in Reqs, Pending(req[x]), req'[x] = req[x]
    PROVE  Pending(req[x])'
<1>1. WellFormed(req[x])
  BY DEF TypeInv, RequestsWell
<1>2. req[x].op \in GroupOps /\ req[x].op # "create_group" => req[x].g \in Groups
  BY <1>1 DEF WellFormed
<1>3. req[x].op = "create_group" /\ req[x].pc = "write" => req[x].g \in Groups
  BY <1>1 DEF WellFormed
<1>4. ASSUME req[x].op \in GroupOps, req[x].g \in Groups
      PROVE  /\ req[x].g \in minted
             /\ group'[req[x].g] # None =>
                   /\ group[req[x].g] # None
                   /\ group'[req[x].g].by = group[req[x].g].by
                   /\ member[req[x].g][group[req[x].g].by] = "owner" =>
                         member'[req[x].g][group[req[x].g].by] = "owner"
  BY <1>4, NoneAssumption DEF RowStep, Pending
<1> QED
  BY <1>2, <1>3, <1>4 DEF Pending, GroupExists, RowStep, GroupOps

LEMMA PendingIdle ==
    ASSUME NEW r \in Reqs, req'[r] = Idle
    PROVE  Pending(req[r])'
<1>1. Idle.op = None /\ Idle.g = None
  BY DEF Idle
<1> QED
  BY <1>1, NoneAssumption DEF Pending, GroupOps, SettingOps, Ops

\* A step of one slot keeps the invariant.
LEMMA SlotStep ==
    ASSUME OwnerInv, Kept, NEW r \in Reqs, RowStep, Sound', Pending(req[r])',
           \A x \in Reqs \ {r} : req'[x] = req[x]
    PROVE  Sound' /\ \A x \in Reqs : Pending(req[x])'
<1> SUFFICES ASSUME NEW x \in Reqs PROVE Pending(req[x])'
  OBVIOUS
<1>1. CASE x = r
  BY <1>1
<1>2. CASE x # r
  BY <1>2, PendingStays DEF OwnerInv
<1> QED
  BY <1>1, <1>2

LEMMA OthersWait ==
    ASSUME RequestsWell, NEW r \in Reqs, NEW pc, Goto(r, pc) \/ Return(r)
    PROVE  \A x \in Reqs \ {r} : req'[x] = req[x]
BY DEF RequestsWell, Goto, Return

LEMMA Returned ==
    ASSUME RequestsWell, NEW r \in Reqs, Return(r)
    PROVE  req'[r] = Idle
BY DEF RequestsWell, Return

LEMMA WentTo ==
    ASSUME RequestsWell, NEW r \in Reqs, NEW pc, Goto(r, pc)
    PROVE  /\ req'[r].pc = pc
           /\ req'[r].op = req[r].op /\ req'[r].by = req[r].by
           /\ req'[r].g = req[r].g /\ req'[r].s = req[r].s
           /\ req'[r].who = req[r].who /\ req'[r].to = req[r].to
           /\ req'[r].val = req[r].val
<1>1. req[r] \in Request
  BY DEF RequestsWell
<1> QED
  BY <1>1 DEF RequestsWell, Goto, Request

\* A step that leaves the rows alone.
LEMMA SoundStays ==
    ASSUME OwnerInv, UNCHANGED rows
    PROVE  Sound' /\ RowStep
BY DEF OwnerInv, Sound, OwnerAndCreator, GrantsOfSpaces, GroupExists, is_member,
       RowStep, rows

\* The statements that write keep Sound, given what their checks left.
LEMMA InsertGroupSound ==
    ASSUME OwnerInv, NEW r \in Reqs, req[r].op = "create_group",
           req[r].pc = "insert", InsertGroup(r)
    PROVE  /\ Sound' /\ RowStep /\ Pending(req[r])'
           /\ \A x \in Reqs \ {r} : req'[x] = req[x]
<1>1. CASE find_by_name(req[r].val) # {}
  <2>1. Return(r) /\ UNCHANGED <<rows, begun>>
    BY <1>1 DEF InsertGroup, Check
  <2> QED
    BY <2>1, SoundStays, Returned, PendingIdle, OthersWait DEF OwnerInv, TypeInv
<1>2. CASE find_by_name(req[r].val) = {}
  <2>1. PICK g \in Groups \ minted :
          /\ group' = [group EXCEPT ![g] = [by |-> req[r].by, name |-> req[r].val]]
          /\ minted' = minted \cup {g}
          /\ req' = [req EXCEPT ![r].pc = "write", ![r].g = g]
          /\ UNCHANGED <<member, space, access, begun>>
    BY <1>2 DEF InsertGroup
  <2>2. req[r] \in Request
    BY DEF OwnerInv, TypeInv, RequestsWell
  <2>3. /\ req'[r].op = "create_group" /\ req'[r].pc = "write"
        /\ req'[r].g = g /\ req'[r].by = req[r].by
        /\ \A x \in Reqs \ {r} : req'[x] = req[x]
    BY <2>1, <2>2 DEF OwnerInv, TypeInv, RequestsWell, Request
  <2>4. group[g] = None /\ \A u \in Users : member[g][u] = None
    BY DEF OwnerInv, Sound, OwnerAndCreator, GroupExists, is_member
  <2>5. /\ group'[g].by = req[r].by
        /\ \A h \in Groups : h # g => group'[h] = group[h]
    BY <2>1 DEF OwnerInv, TypeInv, Tables
  <2>6. OwnerAndCreator'
    BY <2>1, <2>4, <2>5
       DEF OwnerInv, Sound, OwnerAndCreator, GroupExists, is_member
  <2>7. Sound'
    BY <2>1, <2>5, <2>6 DEF OwnerInv, Sound, GrantsOfSpaces, GroupExists
  <2>8. RowStep
    BY <2>1, <2>5 DEF RowStep
  <2>9. Pending(req[r])'
    BY <2>1, <2>3, <2>5 DEF Pending
  <2> QED
    BY <2>3, <2>7, <2>8, <2>9
<1> QED
  BY <1>1, <1>2

\* A new member: the creator with the owner's role, or somebody else without.
LEMMA InsertMemberSound ==
    ASSUME OwnerInv, NEW r \in Reqs, NEW u \in Users, NEW role \in Roles,
           req[r].g \in Groups, req[r].g \in minted, InsertMember(r, u, role),
           GroupExists(req[r].g) =>
              \/ role = "owner" /\ u = group[req[r].g].by
              \/ /\ role # "owner"
                 /\ member[req[r].g][group[req[r].g].by] = "owner"
    PROVE  Sound' /\ RowStep
<1> DEFINE g == req[r].g
<1>1. /\ UNCHANGED <<group, space, access, minted>>
      /\ member' = IF GroupExists(g) /\ ~is_member(g, u)
                   THEN [member EXCEPT ![g][u] = role] ELSE member
  BY DEF InsertMember
<1>2. CASE ~(GroupExists(g) /\ ~is_member(g, u))
  BY <1>1, <1>2, SoundStays DEF rows
<1>3. CASE GroupExists(g) /\ ~is_member(g, u)
  <2>1. member' = [member EXCEPT ![g][u] = role]
    BY <1>1, <1>3
  <2>2. \A h \in Groups, v \in Users :
          member'[h][v] = IF h = g /\ v = u THEN role ELSE member[h][v]
    BY <2>1 DEF OwnerInv, TypeInv, Tables
  <2>3. group[g].by \in Users /\ group[g] # None
    BY <1>3 DEF OwnerInv, TypeInv, Tables, GroupExists
  <2>4. member'[g][group[g].by] = "owner"
    BY <1>3, <2>2, <2>3, NoneAssumption DEF is_member, Roles
  <2>5. OwnerAndCreator'
    <3> SUFFICES ASSUME NEW h \in Groups, NEW v \in Users, member'[h][v] # None
                 PROVE  /\ group'[h] # None
                        /\ member'[h][group'[h].by] = "owner"
                        /\ member'[h][v] = "owner" => v = group'[h].by
      BY DEF OwnerAndCreator, GroupExists, is_member
    <3>1. CASE h = g
      BY <1>1, <1>3, <2>2, <2>3, <2>4, <3>1
         DEF OwnerInv, Sound, OwnerAndCreator, GroupExists, is_member
    <3>2. CASE h # g
      <4>1. member[h][v] # None
        BY <2>2, <3>2
      <4>2. /\ group[h] # None /\ member[h][group[h].by] = "owner"
            /\ member[h][v] = "owner" => v = group[h].by
        BY <4>1 DEF OwnerInv, Sound, OwnerAndCreator, GroupExists, is_member
      <4>3. group[h].by \in Users
        BY <4>2 DEF OwnerInv, TypeInv, Tables
      <4> QED
        BY <1>1, <2>2, <3>2, <4>2, <4>3
    <3> QED
      BY <3>1, <3>2
  <2>6. Sound'
    BY <1>1, <2>5 DEF OwnerInv, Sound, GrantsOfSpaces, GroupExists
  <2>7. RowStep
    <3> SUFFICES ASSUME NEW h \in Groups, group'[h] # None
                 PROVE  /\ group[h] # None /\ group'[h].by = group[h].by
                        /\ member[h][group[h].by] = "owner" =>
                              member'[h][group[h].by] = "owner"
      BY <1>1 DEF RowStep
    <3>1. group[h].by \in Users
      BY <1>1 DEF OwnerInv, TypeInv, Tables
    <3> QED
      BY <1>1, <2>2, <2>4, <3>1
  <2> QED
    BY <2>6, <2>7
<1> QED
  BY <1>2, <1>3

LEMMA RenameGroupSound ==
    ASSUME OwnerInv, NEW r \in Reqs, req[r].g \in Groups, req[r].val \in Names,
           RenameGroup(r)
    PROVE  Sound' /\ RowStep
<1>0. ASSUME GroupExists(req[r].g)
      PROVE  [by |-> group[req[r].g].by, name |-> req[r].val] # None
  <2>1. group[req[r].g].by \in Users
    BY <1>0 DEF OwnerInv, TypeInv, Tables, GroupExists
  <2>2. [by |-> group[req[r].g].by, name |-> req[r].val] \in [by : Users, name : Names]
    BY <2>1
  <2> QED
    BY <2>2, NoneAssumption
<1>1. \A h \in Groups :
         /\ group'[h] # None <=> group[h] # None
         /\ group[h] # None => group'[h].by = group[h].by
  BY <1>0 DEF OwnerInv, TypeInv, Tables, RenameGroup, GroupExists
<1>2. UNCHANGED <<member, space, access, minted>>
  BY DEF RenameGroup
<1>3. OwnerAndCreator'
  BY <1>1, <1>2 DEF OwnerInv, Sound, OwnerAndCreator, GroupExists, is_member
<1> QED
  BY <1>1, <1>2, <1>3 DEF OwnerInv, Sound, GrantsOfSpaces, GroupExists, RowStep

LEMMA DeleteGroupRowSound ==
    ASSUME OwnerInv, NEW r \in Reqs, req[r].g \in Groups, DeleteGroupRow(r)
    PROVE  Sound' /\ RowStep
<1> DEFINE g == req[r].g
<1>1. /\ \A h \in Groups : group'[h] = IF h = g THEN None ELSE group[h]
      /\ \A h \in Groups : h # g => member'[h] = member[h]
      /\ \A u \in Users : member'[g][u] = None
      /\ UNCHANGED <<space, access, minted>>
  BY DEF OwnerInv, TypeInv, Tables, DeleteGroupRow
<1>2. OwnerAndCreator'
  BY <1>1 DEF OwnerInv, Sound, OwnerAndCreator, GroupExists, is_member
<1> QED
  BY <1>1, <1>2 DEF OwnerInv, Sound, GrantsOfSpaces, GroupExists, RowStep

\* A member that is not the creator goes, or gets a role other than owner.
LEMMA ChangeMemberSound ==
    ASSUME OwnerInv, NEW r \in Reqs, req[r].g \in Groups, req[r].who \in Users,
           GroupExists(req[r].g) => req[r].who # group[req[r].g].by,
           \/ DeleteMember(r)
           \/ UpdateRole(r) /\ req[r].val # "owner" /\ req[r].val \in Roles
    PROVE  Sound' /\ RowStep
<1> DEFINE g == req[r].g
           u == req[r].who
<1>1. /\ UNCHANGED <<group, space, access, minted>>
      /\ \A h \in Groups, v \in Users :
            /\ h # g \/ v # u => member'[h][v] = member[h][v]
            /\ member'[g][u] # "owner" \/ member'[g][u] = member[g][u]
            /\ member'[g][u] # None => member[g][u] # None
  <2>1. CASE DeleteMember(r)
    BY <2>1, NoneAssumption DEF OwnerInv, TypeInv, Tables, DeleteMember, Roles
  <2>2. CASE UpdateRole(r) /\ req[r].val # "owner" /\ req[r].val \in Roles
    BY <2>2, NoneAssumption DEF OwnerInv, TypeInv, Tables, UpdateRole, is_member
  <2> QED
    BY <2>1, <2>2
<1>2. ASSUME NEW h \in Groups, group[h] # None
      PROVE  group[h].by \in Users /\ (h # g \/ group[h].by # u)
  BY <1>2 DEF OwnerInv, TypeInv, Tables, GroupExists
<1>3. OwnerAndCreator'
  <2> SUFFICES ASSUME NEW h \in Groups, NEW v \in Users, member'[h][v] # None
               PROVE  /\ group'[h] # None
                      /\ member'[h][group'[h].by] = "owner"
                      /\ member'[h][v] = "owner" => v = group'[h].by
    BY DEF OwnerAndCreator, GroupExists, is_member
  <2>1. member[h][v] # None
    BY <1>1
  <2>2. /\ group[h] # None /\ member[h][group[h].by] = "owner"
        /\ member[h][v] = "owner" => v = group[h].by
    BY <2>1 DEF OwnerInv, Sound, OwnerAndCreator, GroupExists, is_member
  <2> QED
    BY <1>1, <1>2, <2>2
<1>4. RowStep
  BY <1>1, <1>2 DEF RowStep
<1> QED
  BY <1>1, <1>3, <1>4 DEF OwnerInv, Sound, GrantsOfSpaces, GroupExists

\* Spaces and their grants.
LEMMA SpaceRowSound ==
    ASSUME OwnerInv, NEW r \in Reqs, UNCHANGED <<group, member>>,
           minted \subseteq minted',
           \A s \in Spaces, w \in Grantees : access'[s][w] # None => space'[s] # None
    PROVE  Sound' /\ RowStep
BY DEF OwnerInv, Sound, OwnerAndCreator, GrantsOfSpaces, GroupExists, is_member,
       RowStep

LEMMA InsertSpaceSound ==
    ASSUME OwnerInv, NEW r \in Reqs, NEW owner \in Grantees, InsertSpace(r, owner)
    PROVE  Sound' /\ RowStep
<1>1. PICK s \in Spaces \ minted :
        /\ space' = [space EXCEPT ![s] = owner]
        /\ minted' = minted \cup {s}
        /\ UNCHANGED <<group, member, access>>
  BY DEF InsertSpace
<1>2. \A t \in Spaces, w \in Grantees : access'[t][w] # None => space'[t] # None
  BY <1>1, NoneAssumption DEF OwnerInv, TypeInv, Tables, Sound, GrantsOfSpaces
<1> QED
  BY <1>1, <1>2, SpaceRowSound

LEMMA DeleteSpaceRowSound ==
    ASSUME OwnerInv, NEW r \in Reqs, req[r].s \in Spaces, DeleteSpaceRow(r)
    PROVE  Sound' /\ RowStep
<1>1. \A t \in Spaces, w \in Grantees : access'[t][w] # None => space'[t] # None
  BY DEF OwnerInv, TypeInv, Tables, Sound, GrantsOfSpaces, DeleteSpaceRow
<1> QED
  BY <1>1, SpaceRowSound DEF DeleteSpaceRow

LEMMA GrantSound ==
    ASSUME OwnerInv, NEW r \in Reqs, req[r].s \in Spaces, req[r].to \in Grantees,
           InsertGrant(r) \/ UpdateGrant(r) \/ DeleteGrant(r)
    PROVE  Sound' /\ RowStep
<1>1. \A t \in Spaces, w \in Grantees : access'[t][w] # None => space'[t] # None
  <2> USE DEF OwnerInv, TypeInv, Tables, Sound, GrantsOfSpaces
  <2>1. CASE InsertGrant(r)
    BY <2>1 DEF InsertGrant
  <2>2. CASE UpdateGrant(r)
    BY <2>2 DEF UpdateGrant
  <2>3. CASE DeleteGrant(r)
    BY <2>3 DEF DeleteGrant
  <2> QED
    BY <2>1, <2>2, <2>3
<1> QED
  BY <1>1, SpaceRowSound DEF InsertGrant, UpdateGrant, DeleteGrant

(***************************************************************************)
(* The handlers keep OwnerInv.                                             *)
(***************************************************************************)

Safe(r) ==
    /\ Sound' /\ RowStep /\ Pending(req[r])'
    /\ \A x \in Reqs \ {r} : req'[x] = req[x]

LEMMA CheckSafe ==
    ASSUME OwnerInv, NEW r \in Reqs, NEW pc, Goto(r, pc) \/ Return(r),
           UNCHANGED rows, Goto(r, pc) => Pending(req[r])'
    PROVE  Safe(r)
BY SoundStays, Returned, PendingIdle, OthersWait DEF OwnerInv, TypeInv, Safe

LEMMA EndSafe ==
    ASSUME OwnerInv, NEW r \in Reqs, Return(r), Sound' /\ RowStep
    PROVE  Safe(r)
BY Returned, PendingIdle, OthersWait DEF OwnerInv, TypeInv, Safe

\* No handler of spaces leaves anything pending on a group.
LEMMA PendingOther ==
    ASSUME NEW r \in Reqs, req'[r].op \notin GroupOps
    PROVE  Pending(req[r])'
BY DEF Pending, GroupOps

LEMMA GroupStepSafe ==
    ASSUME OwnerInv, NEW r \in Reqs, GroupStep(r)
    PROVE  Safe(r)
<1> DEFINE q == req[r]
<1>1. WellFormed(q) /\ q \in Request /\ Pending(q)
  BY DEF OwnerInv, TypeInv, RequestsWell
<1>2. RequestsWell
  BY DEF OwnerInv, TypeInv
<1>3. CASE create_group(r)
  <2>1. q.op = "create_group" /\ q.by \in Users
    BY <1>1, <1>3 DEF create_group, At, WellFormed
  <2>2. CASE At(r, "create_group", "check") /\ Check(r, find_by_name(req[r].val) = {}, "insert")
    <3>1. Goto(r, "insert") => Pending(req[r])'
      BY <1>1, <1>2, <2>1, <2>2, WentTo DEF Pending, Check, rows
    <3> QED
      BY <2>2, <3>1, CheckSafe DEF Check
  <2>3. CASE At(r, "create_group", "insert") /\ InsertGroup(r)
    BY <2>3, InsertGroupSound DEF Safe, At
  <2>4. CASE At(r, "create_group", "write") /\ InsertMember(r, req[r].by, "owner")
    <3>1. q.g \in Groups /\ q.g \in minted /\ (GroupExists(q.g) => group[q.g].by = q.by)
      BY <1>1, <2>4, NoneAssumption DEF WellFormed, Pending, At, GroupOps
    <3> QED
      BY <2>1, <2>4, <3>1, InsertMemberSound, EndSafe DEF InsertMember, Finish, Roles
  <2> QED
    BY <1>3, <2>2, <2>3, <2>4 DEF create_group
<1>4. CASE update_group(r)
  <2>1. q.op = "update_group" /\ q.g \in Groups /\ q.g \in minted /\ q.val \in Names
    BY <1>1, <1>4, NoneAssumption DEF update_group, At, WellFormed, GroupOps, Pending
  <2>2. ASSUME NEW pc, NEW ok, Check(r, ok, pc)
        PROVE  Safe(r)
    <3>1. Goto(r, pc) => Pending(req[r])'
      BY <1>1, <1>2, <2>1, <2>2, WentTo DEF Pending, Check, rows
    <3> QED
      BY <2>2, <3>1, CheckSafe DEF Check
  <2> QED
    BY <1>4, <2>1, <2>2, RenameGroupSound, EndSafe DEF update_group, RenameGroup, Finish
<1>5. CASE delete_group(r)
  <2>1. q.op = "delete_group" /\ q.g \in Groups /\ q.g \in minted
    BY <1>1, <1>5, NoneAssumption DEF delete_group, At, WellFormed, GroupOps, Pending
  <2>2. ASSUME NEW pc, NEW ok, Check(r, ok, pc)
        PROVE  Safe(r)
    <3>1. Goto(r, pc) => Pending(req[r])'
      BY <1>1, <1>2, <2>1, <2>2, WentTo DEF Pending, Check, rows
    <3> QED
      BY <2>2, <3>1, CheckSafe DEF Check
  <2> QED
    BY <1>5, <2>1, <2>2, DeleteGroupRowSound, EndSafe DEF delete_group, DeleteGroupRow, Finish
<1>6. CASE add_member(r)
  <2>1. /\ q.op = "add_member" /\ q.g \in Groups /\ q.g \in minted
        /\ q.by \in Users /\ q.who \in Users /\ q.val \in Roles
    BY <1>1, <1>6, NoneAssumption DEF add_member, At, WellFormed, GroupOps, Pending
  <2>2. CASE At(r, "add_member", "check")
    <3>1. Check(r, require_manager_or_owner(q.g, q.by) /\ q.val # "owner", "write")
      BY <1>6, <2>2 DEF add_member, At
    <3>2. require_manager_or_owner(q.g, q.by) =>
             GroupExists(q.g) /\ member[q.g][group[q.g].by] = "owner"
      BY <2>1, NoneAssumption
         DEF OwnerInv, Sound, OwnerAndCreator, require_manager_or_owner, is_member, Roles
    <3>3. Goto(r, "write") /\ require_manager_or_owner(q.g, q.by) /\ q.val # "owner"
             => Pending(req[r])'
      BY <1>1, <1>2, <2>1, <3>1, <3>2, WentTo DEF Pending, Check, rows, GroupExists
    <3>4. CASE require_manager_or_owner(q.g, q.by) /\ q.val # "owner"
      BY <3>1, <3>3, <3>4, CheckSafe DEF Check
    <3>5. CASE ~(require_manager_or_owner(q.g, q.by) /\ q.val # "owner")
      BY <3>1, <3>5, SoundStays, EndSafe DEF Check
    <3> QED
      BY <3>4, <3>5
  <2>3. CASE At(r, "add_member", "write")
    <3>1. /\ InsertMember(r, q.who, q.val) /\ q.val # "owner"
          /\ GroupExists(q.g) => member[q.g][group[q.g].by] = "owner"
      BY <1>1, <1>6, <2>3 DEF add_member, At, Pending
    <3> QED
      BY <2>1, <3>1, InsertMemberSound, EndSafe DEF InsertMember, Finish
  <2> QED
    BY <1>6, <2>2, <2>3 DEF add_member
<1>7. CASE remove_member(r)
  <2>1. q.op = "remove_member" /\ q.g \in Groups /\ q.g \in minted /\ q.who \in Users
    BY <1>1, <1>7, NoneAssumption DEF remove_member, At, WellFormed, GroupOps, Pending
  <2>2. CASE At(r, "remove_member", "check")
    <3>1. Check(r, GroupExists(q.g) /\ q.who # group[q.g].by, "look")
      BY <1>7, <2>2 DEF remove_member, At
    <3>2. CASE GroupExists(q.g) /\ q.who # group[q.g].by
      <4>1. Goto(r, "look") => Pending(req[r])'
        BY <1>1, <1>2, <2>1, <3>1, <3>2, WentTo DEF Pending, Check, rows, GroupExists
      <4> QED
        BY <3>1, <4>1, CheckSafe DEF Check
    <3>3. CASE ~(GroupExists(q.g) /\ q.who # group[q.g].by)
      BY <3>1, <3>3, SoundStays, EndSafe DEF Check
    <3> QED
      BY <3>2, <3>3
  <2>3. CASE At(r, "remove_member", "look")
    <3>1. UNCHANGED rows /\ (Goto(r, "write") \/ Return(r))
      BY <1>7, <2>3 DEF remove_member, At, Check
    <3>2. Goto(r, "write") => Pending(req[r])'
      BY <1>1, <1>2, <2>1, <2>3, <3>1, WentTo DEF Pending, rows, GroupExists, At
    <3> QED
      BY <3>1, <3>2, CheckSafe
  <2>4. CASE At(r, "remove_member", "write")
    <3>1. DeleteMember(r) /\ (GroupExists(q.g) => q.who # group[q.g].by)
      BY <1>1, <1>7, <2>4 DEF remove_member, At, Pending
    <3> QED
      BY <2>1, <3>1, ChangeMemberSound, EndSafe DEF DeleteMember, Finish
  <2> QED
    BY <1>7, <2>2, <2>3, <2>4 DEF remove_member
<1>8. CASE update_member_role(r)
  <2>1. /\ q.op = "update_member_role" /\ q.g \in Groups /\ q.g \in minted
        /\ q.who \in Users /\ q.val \in Roles
    BY <1>1, <1>8, NoneAssumption DEF update_member_role, At, WellFormed, GroupOps, Pending
  <2>2. CASE At(r, "update_member_role", "check")
    <3> DEFINE ok == /\ GroupExists(q.g) /\ group[q.g].by = q.by
                     /\ q.who # group[q.g].by /\ q.val # "owner"
    <3>1. Check(r, ok, "look")
      BY <1>8, <2>2 DEF update_member_role, At
    <3>2. CASE ok
      <4>1. Goto(r, "look") => Pending(req[r])'
        BY <1>1, <1>2, <2>1, <3>1, <3>2, WentTo DEF Pending, Check, rows, GroupExists
      <4> QED
        BY <3>1, <4>1, CheckSafe DEF Check
    <3>3. CASE ~ok
      BY <3>1, <3>3, SoundStays, EndSafe DEF Check
    <3> QED
      BY <3>2, <3>3
  <2>3. CASE At(r, "update_member_role", "look")
    <3>1. UNCHANGED rows /\ (Goto(r, "write") \/ Return(r))
      BY <1>8, <2>3 DEF update_member_role, At, Check
    <3>2. Goto(r, "write") => Pending(req[r])'
      BY <1>1, <1>2, <2>1, <2>3, <3>1, WentTo DEF Pending, rows, GroupExists, At
    <3> QED
      BY <3>1, <3>2, CheckSafe
  <2>4. CASE At(r, "update_member_role", "write")
    <3>1. /\ UpdateRole(r) /\ q.val # "owner"
          /\ GroupExists(q.g) => q.who # group[q.g].by
      BY <1>1, <1>8, <2>4 DEF update_member_role, At, Pending
    <3> QED
      BY <2>1, <3>1, ChangeMemberSound, EndSafe DEF UpdateRole, Finish
  <2> QED
    BY <1>8, <2>2, <2>3, <2>4 DEF update_member_role
<1> QED
  BY <1>3, <1>4, <1>5, <1>6, <1>7, <1>8 DEF GroupStep

LEMMA SpaceStepSafe ==
    ASSUME OwnerInv, NEW r \in Reqs, SpaceStep(r)
    PROVE  Safe(r)
<1> DEFINE q == req[r]
<1>1. WellFormed(q) /\ q \in Request /\ RequestsWell
  BY DEF OwnerInv, TypeInv, RequestsWell
<1>2. q.op \notin GroupOps
  BY DEF GroupOps, SpaceStep, create_space, create_group_space, update_space,
         delete_space, grant_user_access, grant_group_access, revoke_access,
         update_access_permission, use_files
<1>3. ASSUME NEW pc, Goto(r, pc) \/ Return(r), UNCHANGED rows
      PROVE  Safe(r)
  <2>1. Goto(r, pc) => Pending(req[r])'
    BY <1>1, <1>2, WentTo, PendingOther
  <2> QED
    BY <1>3, <2>1, CheckSafe
<1>4. ASSUME NEW level, NEW pc, check_space_permission(r, level, pc)
      PROVE  Safe(r)
  BY <1>3, <1>4 DEF check_space_permission, Check
<1>5. ASSUME NEW pc, require_permission(r, pc)
      PROVE  Safe(r)
  BY <1>3, <1>5 DEF require_permission, Check
<1>6. ASSUME Finish(r), UNCHANGED rows
      PROVE  Safe(r)
  BY <1>6, SoundStays, EndSafe DEF Finish
<1>7. ASSUME NEW owner \in Grantees, InsertSpace(r, owner)
      PROVE  Safe(r)
  <2>1. PICK s \in Spaces \ minted : req' = [req EXCEPT ![r].pc = "dir", ![r].s = s]
    BY <1>7 DEF InsertSpace
  <2>2. req'[r].op = q.op /\ \A x \in Reqs \ {r} : req'[x] = req[x]
    BY <1>1, <2>1 DEF RequestsWell, Request
  <2> QED
    BY <1>2, <1>7, <2>2, InsertSpaceSound, PendingOther DEF Safe
<1>8. ASSUME q.s \in Spaces, DeleteSpaceRow(r)
      PROVE  Safe(r)
  BY <1>8, DeleteSpaceRowSound, EndSafe DEF DeleteSpaceRow, Finish
<1>9. ASSUME q.s \in Spaces, q.to \in Grantees,
             InsertGrant(r) \/ UpdateGrant(r) \/ DeleteGrant(r)
      PROVE  Safe(r)
  BY <1>9, GrantSound, EndSafe DEF InsertGrant, UpdateGrant, DeleteGrant, Finish
<1>10. ASSUME q.op \in {"create_space", "create_group_space"}, MakeDirectory(r)
       PROVE  Safe(r)
  BY <1>1, <1>3, <1>8, <1>10 DEF MakeDirectory, Check, WellFormed
<1>11. CASE create_space(r)
  <2>1. q.pc = "write" => <<"user", q.by>> \in Grantees
    BY <1>1, <1>11 DEF WellFormed, create_space, Grantees
  <2> QED
    BY <1>7, <1>10, <1>11, <2>1 DEF create_space
<1>12. CASE create_group_space(r)
  <2>1. <<"group", q.g>> \in Grantees
    BY <1>1, <1>12 DEF WellFormed, create_group_space, Grantees
  <2> QED
    BY <1>3, <1>7, <1>10, <1>12, <2>1 DEF create_group_space, Check
<1>13. CASE update_space(r)
  BY <1>4, <1>5, <1>6, <1>13 DEF update_space
<1>14. CASE delete_space(r)
  BY <1>1, <1>4, <1>5, <1>8, <1>14 DEF delete_space, WellFormed, SettingOps
<1>15. CASE grant_user_access(r)
  BY <1>1, <1>4, <1>5, <1>9, <1>15
     DEF grant_user_access, WellFormed, SettingOps, Granting
<1>16. CASE grant_group_access(r)
  BY <1>1, <1>3, <1>4, <1>5, <1>9, <1>16
     DEF grant_group_access, WellFormed, SettingOps, Granting, Check
<1>17. CASE revoke_access(r)
  BY <1>1, <1>4, <1>5, <1>9, <1>17 DEF revoke_access, WellFormed, SettingOps
<1>18. CASE update_access_permission(r)
  BY <1>1, <1>4, <1>5, <1>9, <1>18
     DEF update_access_permission, WellFormed, SettingOps, Granting
<1>19. CASE use_files(r)
  BY <1>4, <1>6, <1>19 DEF use_files
<1> QED
  BY <1>11, <1>12, <1>13, <1>14, <1>15, <1>16, <1>17, <1>18, <1>19 DEF SpaceStep

\* A request begins before every check, on a group that has been made.
LEMMA BeginRequestSafe ==
    ASSUME OwnerInv, NEW r \in Reqs, BeginRequest(r)
    PROVE  Safe(r)
<1>1. ASSUME NEW op, NEW pc \in {"check", "guard", "write"}, NEW args,
             Begin(r, op, pc, args), args.g \in minted \cup {None},
             pc = "write" => op = "create_space"
      PROVE  Safe(r)
  <2>1. req' = [req EXCEPT ![r] = Begun(op, pc, args)] /\ UNCHANGED rows
    BY <1>1, Zenon DEF Begin, Begun
  <2>2. req'[r] = Begun(op, pc, args) /\ \A x \in Reqs \ {r} : req'[x] = req[x]
    BY <2>1 DEF OwnerInv, TypeInv, RequestsWell
  <2>3. req'[r].op = op /\ req'[r].pc = pc /\ req'[r].g = args.g
    BY <2>2 DEF Begun
  <2>4. Pending(req[r])'
    BY <1>1, <2>1, <2>3 DEF Pending, rows
  <2> QED
    BY <2>1, <2>2, <2>4, SoundStays DEF Safe
<1>2. CASE BeginCreate(r)
  <2>1. \A u, n : [Args(u) EXCEPT !.val = n].g = None /\ Args(u).g = None
    BY DEF Args
  <2>2. \A u, g : [Args(u) EXCEPT !.g = g].g = g
    BY DEF Args
  <2> QED
    BY <1>1, <1>2, <2>1, <2>2 DEF BeginCreate
<1>3. CASE BeginOnGroup(r)
  <2> QED
    <3>1. PICK u \in Users, g \in Groups \cap minted :
            \/ \E n \in Names : Begin(r, "update_group", "check",
                                      [Args(u) EXCEPT !.g = g, !.val = n])
            \/ Begin(r, "delete_group", "check", [Args(u) EXCEPT !.g = g])
            \/ \E v \in Users : Begin(r, "remove_member", "check",
                                      [Args(u) EXCEPT !.g = g, !.who = v])
            \/ \E v \in Users, role \in Roles, op \in Ops \ {"create_space"} :
                  Begin(r, op, "check", [Args(u) EXCEPT !.g = g, !.who = v, !.val = role])
      BY <1>3, OpNames DEF BeginOnGroup
    <3>2. ASSUME NEW op, NEW args, args.g = g, Begin(r, op, "check", args)
          PROVE  Safe(r)
      BY <1>1, <3>1, <3>2
    <3>3. ASSUME NEW n \in Names, Begin(r, "update_group", "check", [Args(u) EXCEPT !.g = g, !.val = n])
          PROVE  Safe(r)
      <4> DEFINE a == [Args(u) EXCEPT !.g = g, !.val = n]
      <4>1. a.g = g
        BY DEF Args
      <4> HIDE DEF a
      <4> QED
        BY <3>2, <3>3, <4>1 DEF a
    <3>4. ASSUME Begin(r, "delete_group", "check", [Args(u) EXCEPT !.g = g])
          PROVE  Safe(r)
      <4> DEFINE a == [Args(u) EXCEPT !.g = g]
      <4>1. a.g = g
        BY DEF Args
      <4> HIDE DEF a
      <4> QED
        BY <3>2, <3>4, <4>1 DEF a
    <3>5. ASSUME NEW v \in Users, Begin(r, "remove_member", "check", [Args(u) EXCEPT !.g = g, !.who = v])
          PROVE  Safe(r)
      <4> DEFINE a == [Args(u) EXCEPT !.g = g, !.who = v]
      <4>1. a.g = g
        BY DEF Args
      <4> HIDE DEF a
      <4> QED
        BY <3>2, <3>5, <4>1 DEF a
    <3>6. ASSUME NEW v \in Users, NEW role \in Roles,
                 NEW op \in Ops \ {"create_space"},
                 Begin(r, op, "check", [Args(u) EXCEPT !.g = g, !.who = v, !.val = role])
          PROVE  Safe(r)
      <4> DEFINE a == [Args(u) EXCEPT !.g = g, !.who = v, !.val = role]
      <4>1. a.g = g
        BY DEF Args
      <4> HIDE DEF a
      <4> QED
        BY <3>2, <3>6, <4>1 DEF a
    <3> QED
      BY <3>1, <3>3, <3>4, <3>5, <3>6, Zenon
<1>4. CASE BeginOnSpace(r)
  <2> QED
    <3>1. PICK u \in Users, s \in Spaces \cap minted :
            \/ \E op : Begin(r, op, "guard", [Args(u) EXCEPT !.s = s])
            \/ \E op, p : Begin(r, op, "guard", [Args(u) EXCEPT !.s = s, !.val = p])
            \/ \E op, w : Begin(r, op, "guard", [Args(u) EXCEPT !.s = s, !.to = w])
            \/ \E op, p, w : Begin(r, op, "guard",
                                   [Args(u) EXCEPT !.s = s, !.to = w, !.val = p])
      BY <1>4, Zenon DEF BeginOnSpace
    <3>2. ASSUME NEW op, NEW args, args.g = None, Begin(r, op, "guard", args)
          PROVE  Safe(r)
      BY <1>1, <3>2
    <3>3. ASSUME NEW op, Begin(r, op, "guard", [Args(u) EXCEPT !.s = s])
          PROVE  Safe(r)
      <4> DEFINE a == [Args(u) EXCEPT !.s = s]
      <4>1. a.g = None
        BY DEF Args
      <4> HIDE DEF a
      <4> QED
        BY <3>2, <3>3, <4>1 DEF a
    <3>4. ASSUME NEW op, NEW p, Begin(r, op, "guard", [Args(u) EXCEPT !.s = s, !.val = p])
          PROVE  Safe(r)
      <4> DEFINE a == [Args(u) EXCEPT !.s = s, !.val = p]
      <4>1. a.g = None
        BY DEF Args
      <4> HIDE DEF a
      <4> QED
        BY <3>2, <3>4, <4>1 DEF a
    <3>5. ASSUME NEW op, NEW w, Begin(r, op, "guard", [Args(u) EXCEPT !.s = s, !.to = w])
          PROVE  Safe(r)
      <4> DEFINE a == [Args(u) EXCEPT !.s = s, !.to = w]
      <4>1. a.g = None
        BY DEF Args
      <4> HIDE DEF a
      <4> QED
        BY <3>2, <3>5, <4>1 DEF a
    <3>6. ASSUME NEW op, NEW w, NEW p,
                 Begin(r, op, "guard", [Args(u) EXCEPT !.s = s, !.to = w, !.val = p])
          PROVE  Safe(r)
      <4> DEFINE a == [Args(u) EXCEPT !.s = s, !.to = w, !.val = p]
      <4>1. a.g = None
        BY DEF Args
      <4> HIDE DEF a
      <4> QED
        BY <3>2, <3>6, <4>1 DEF a
    <3> QED
      BY <3>1, <3>3, <3>4, <3>5, <3>6, Zenon
<1> QED
  BY <1>2, <1>3, <1>4 DEF BeginRequest

LEMMA OwnerInit == Init => OwnerInv
<1> SUFFICES ASSUME Init PROVE OwnerInv
  OBVIOUS
<1>1. Sound
  BY DEF Init, Sound, OwnerAndCreator, GrantsOfSpaces, GroupExists, is_member
<1>2. \A r \in Reqs : Pending(req[r])
  BY NoneAssumption DEF Init, Pending, Idle, Ops, GroupOps
<1> QED
  BY <1>1, <1>2, TypeInit DEF OwnerInv

LEMMA OwnerStep == OwnerInv /\ [Next]_vars => OwnerInv'
<1> SUFFICES ASSUME OwnerInv, [Next]_vars PROVE OwnerInv'
  OBVIOUS
<1>1. TypeInv'
  BY TypeStep DEF OwnerInv
<1>2. CASE UNCHANGED vars
  BY <1>1, <1>2
     DEF OwnerInv, Sound, OwnerAndCreator, GrantsOfSpaces, GroupExists, is_member,
         Pending, vars, rows
<1>3. ASSUME NEW r \in Reqs, BeginRequest(r) \/ GroupStep(r) \/ SpaceStep(r)
      PROVE  OwnerInv'
  <2>1. Kept /\ Safe(r)
    BY <1>3, BeginRequestKept, GroupStepKept, SpaceStepKept, BeginRequestSafe,
       GroupStepSafe, SpaceStepSafe DEF OwnerInv
  <2> QED
    BY <1>1, <2>1, SlotStep DEF Safe, OwnerInv
<1>4. CASE Crash
  <2>1. \A r \in Reqs : req'[r] = Idle
    BY <1>4 DEF Crash
  <2>2. \A r \in Reqs : Pending(req[r])'
    BY <2>1, PendingIdle
  <2> QED
    BY <1>1, <1>4, <2>2, SoundStays DEF OwnerInv, Crash
<1> QED
  BY <1>2, <1>3, <1>4 DEF Next

\* In every group there is one owner, its creator, as soon as there is any
\* member: whatever add_member, remove_member, update_member_role,
\* update_group and delete_group interleave, and wherever a crash cuts them.
THEOREM OneOwner == Spec => []OwnerAndCreator
<1>1. OwnerInv => OwnerAndCreator
  BY DEF OwnerInv, Sound
<1> QED
  BY <1>1, OwnerInit, OwnerStep, PTL DEF Spec

\* No grant outlives its space: delete_space and the grants of other requests
\* interleave, and the foreign key of space_access decides.
THEOREM GrantsHaveSpaces == Spec => []GrantsOfSpaces
<1>1. OwnerInv => GrantsOfSpaces
  BY DEF OwnerInv, Sound
<1> QED
  BY <1>1, OwnerInit, OwnerStep, PTL DEF Spec

(***************************************************************************)
(* The three queries.  Level is what each of them computes.                *)
(***************************************************************************)

Reaches(u, s, p) ==
    \/ p = "admin" /\ space[s] \in Faces(u)
    \/ \E w \in Faces(u) : access[s][w] = p

Level(u, s) == Best({p \in Permissions : Reaches(u, s, p)})

LEMMA SameBest ==
    ASSUME NEW A, NEW B, \A p \in Permissions : p \in A <=> p \in B
    PROVE  Best(A) = Best(B)
BY DEF Best, Permissions

LEMMA FacesAre ==
    ASSUME NEW u \in Users
    PROVE  /\ Faces(u) \subseteq Grantees
           /\ \A w : w \in Faces(u) <=>
                 w = <<"user", u>> \/ \E g \in user_groups(u) : w = <<"group", g>>
BY DEF Faces, Grantees, user_groups

LEMMA ServiceQuery ==
    ASSUME NEW u \in Users, NEW s \in Spaces
    PROVE  resolve_user_permission(u, s) = Level(u, s)
<1> DEFINE A == {"admin" : w \in {space[s]} \cap {<<"user", u>>}}
           B == {"admin" : w \in {space[s]} \cap ({"group"} \X user_groups(u))}
           C == {access[s][<<"user", u>>]} \ {None}
           D == {access[s][<<"group", g>>] : g \in user_groups(u)} \ {None}
<1>1. \A p : p \in A <=> p = "admin" /\ space[s] = <<"user", u>>
  OBVIOUS
<1>2. \A p : p \in B <=> p = "admin" /\ \E g \in user_groups(u) : space[s] = <<"group", g>>
  OBVIOUS
<1>3. \A p \in Permissions : p \in C <=> access[s][<<"user", u>>] = p
  BY NoneAssumption
<1>4. \A p \in Permissions : p \in D <=>
         \E g \in user_groups(u) : access[s][<<"group", g>>] = p
  BY NoneAssumption
<1>5. \A p \in Permissions : p \in A \cup B \cup C \cup D <=> Reaches(u, s, p)
  <2> HIDE DEF A, B, C, D
  <2>1. space[s] \in Faces(u) <=>
           \/ space[s] = <<"user", u>>
           \/ \E g \in user_groups(u) : space[s] = <<"group", g>>
    BY FacesAre
  <2>2. ASSUME NEW p
        PROVE  (\E w \in Faces(u) : access[s][w] = p) <=>
                  \/ access[s][<<"user", u>>] = p
                  \/ \E g \in user_groups(u) : access[s][<<"group", g>>] = p
    <3>1. /\ <<"user", u>> \in Faces(u)
          /\ \A g \in user_groups(u) : <<"group", g>> \in Faces(u)
          /\ \A w \in Faces(u) : \/ w = <<"user", u>>
                                 \/ \E g \in user_groups(u) : w = <<"group", g>>
      BY FacesAre
    <3>2. ASSUME NEW w \in Faces(u), access[s][w] = p
          PROVE  \/ access[s][<<"user", u>>] = p
                 \/ \E g \in user_groups(u) : access[s][<<"group", g>>] = p
      BY <3>1, <3>2
    <3> QED
      BY <3>1, <3>2
  <2> QED
    <3> SUFFICES ASSUME NEW p \in Permissions
                 PROVE  p \in A \cup B \cup C \cup D <=> Reaches(u, s, p)
      OBVIOUS
    <3>1. Reaches(u, s, p) <=>
             \/ p = "admin" /\ space[s] = <<"user", u>>
             \/ p = "admin" /\ \E g \in user_groups(u) : space[s] = <<"group", g>>
             \/ access[s][<<"user", u>>] = p
             \/ \E g \in user_groups(u) : access[s][<<"group", g>>] = p
      BY <2>1, <2>2, Zenon DEF Reaches
    <3> QED
      BY <1>1, <1>2, <1>3, <1>4, <3>1
<1>6. Best(A \cup B \cup C \cup D) = Level(u, s)
  <2> HIDE DEF A, B, C, D
  <2> QED
    BY <1>5, SameBest DEF Level
<1> QED
  BY <1>6 DEF resolve_user_permission

LEMMA GuardQuery ==
    ASSUME NEW u \in Users, NEW s \in Spaces
    PROVE  find_for_user(u, s) = IF space[s] = None THEN 0 ELSE Level(u, s)
<1> DEFINE A == IF space[s] \in Faces(u) THEN {"admin"} ELSE {}
           B == {access[s][w] : w \in Faces(u)}
<1>1. \A p \in Permissions : p \in A \cup B <=> Reaches(u, s, p)
  BY DEF Reaches
<1>2. Best(A \cup B) = Level(u, s)
  <2> HIDE DEF A, B
  <2> QED
    BY <1>1, SameBest DEF Level
<1> QED
  BY <1>2 DEF find_for_user

\* A space without a row has no grants, so no level.
LEMMA NoRowNoLevel ==
    ASSUME TypeInv, GrantsOfSpaces, NEW u \in Users, NEW s \in Spaces, space[s] = None
    PROVE  Level(u, s) = 0
<1>1. \A p \in Permissions : ~Reaches(u, s, p)
  <2> SUFFICES ASSUME NEW p \in Permissions, Reaches(u, s, p) PROVE FALSE
    OBVIOUS
  <2>1. space[s] \notin Faces(u)
    BY FacesAre, NoneAssumption
  <2>2. \A w \in Faces(u) : access[s][w] = None
    BY FacesAre DEF GrantsOfSpaces
  <2> QED
    BY <2>1, <2>2, NoneAssumption DEF Reaches
<1> QED
  BY <1>1 DEF Level, Best, Permissions

LEMMA ListQuery ==
    ASSUME TypeInv, NEW u \in Users, NEW s \in Spaces, NEW n
    PROVE  <<s, n>> \in find_all_for_user(u) <=>
              space[s] # None /\ n = Level(u, s) /\ n # 0
<1> DEFINE A == {<<t, "admin">> : t \in {t \in Spaces : space[t] \in Faces(u)}}
           B == {<<p[1], access[p[1]][p[2]]>> : p \in
                     {q \in Spaces \X Faces(u) : access[q[1]][q[2]] # None}}
           P(t) == {p[2] : p \in {q \in A \cup B : q[1] = t}}
<1>1. \A t, p : <<t, p>> \in A <=> t \in Spaces /\ space[t] \in Faces(u) /\ p = "admin"
  OBVIOUS
<1>2. \A t, p : <<t, p>> \in B <=>
         t \in Spaces /\ p # None /\ \E w \in Faces(u) : access[t][w] = p
  <2> SUFFICES ASSUME NEW t, NEW p
               PROVE  <<t, p>> \in B <=>
                         t \in Spaces /\ p # None /\ \E w \in Faces(u) : access[t][w] = p
    OBVIOUS
  <2>1. ASSUME <<t, p>> \in B
        PROVE  t \in Spaces /\ p # None /\ \E w \in Faces(u) : access[t][w] = p
    <3>1. PICK q \in Spaces \X Faces(u) :
            access[q[1]][q[2]] # None /\ <<t, p>> = <<q[1], access[q[1]][q[2]]>>
      BY <2>1
    <3> QED
      BY <3>1
  <2>2. ASSUME t \in Spaces, p # None, NEW w \in Faces(u), access[t][w] = p
        PROVE  <<t, p>> \in B
    <3>1. <<t, w>> \in Spaces \X Faces(u) /\ <<t, w>>[1] = t /\ <<t, w>>[2] = w
      BY <2>2
    <3> QED
      BY <2>2, <3>1
  <2> QED
    BY <2>1, <2>2
<1>3. \A x \in A \cup B : x = <<x[1], x[2]>>
  OBVIOUS
<1> HIDE DEF A, B
<1>4. \A t \in Spaces : \A p : p \in P(t) <=> <<t, p>> \in A \cup B
  BY <1>3
<1>5. ASSUME NEW t \in Spaces, NEW p \in Permissions
      PROVE  p \in P(t) <=> Reaches(u, t, p)
  BY <1>1, <1>2, <1>4, NoneAssumption DEF Reaches
<1>6. \A t \in Spaces : Best(P(t)) = Level(u, t)
  <2> HIDE DEF P
  <2> QED
    BY <1>5, SameBest DEF Level
<1>7. \A t \in Spaces : t \in {p[1] : p \in A \cup B} <=> \E p : <<t, p>> \in A \cup B
  <2> SUFFICES ASSUME NEW t \in Spaces
               PROVE  t \in {p[1] : p \in A \cup B} <=> \E p : <<t, p>> \in A \cup B
    OBVIOUS
  <2>1. ASSUME NEW x \in A \cup B, t = x[1]
        PROVE  <<t, x[2]>> \in A \cup B
    BY <1>3, <2>1
  <2>2. ASSUME NEW p, <<t, p>> \in A \cup B
        PROVE  t \in {x[1] : x \in A \cup B}
    <3>1. <<t, p>>[1] = t
      OBVIOUS
    <3> QED
      BY <2>2, <3>1
  <2> QED
    BY <2>1, <2>2
<1>8. \A t \in Spaces : (\E p : <<t, p>> \in A \cup B) <=>
         \E p \in Permissions : Reaches(u, t, p)
  <2> SUFFICES ASSUME NEW t \in Spaces
               PROVE (\E p : <<t, p>> \in A \cup B) <=> \E p \in Permissions : Reaches(u, t, p)
    OBVIOUS
  <2>1. \A w \in Faces(u) : access[t][w] \in Permissions \cup {None}
    BY FacesAre DEF TypeInv, Tables
  <2> QED
    <3>1. ASSUME NEW p, <<t, p>> \in A \cup B
          PROVE  p \in Permissions /\ Reaches(u, t, p)
      BY <1>1, <1>2, <2>1, <3>1 DEF Reaches, Permissions
    <3>2. ASSUME NEW p \in Permissions, Reaches(u, t, p)
          PROVE  <<t, p>> \in A \cup B
      BY <1>1, <1>2, <3>2, NoneAssumption DEF Reaches
    <3> QED
      BY <3>1, <3>2
<1>9. \A t \in Spaces : (\E p \in Permissions : Reaches(u, t, p)) <=> Level(u, t) # 0
  BY DEF Level, Best, Permissions
<1>10. find_all_for_user(u) =
          {<<t, Best(P(t))>> : t \in {p[1] : p \in A \cup B} \cap
                                     {t \in Spaces : space[t] # None}}
  BY DEF find_all_for_user, A, B
<1> HIDE DEF P
<1>11. <<s, n>> \in find_all_for_user(u) <=>
          /\ s \in {p[1] : p \in A \cup B} /\ space[s] # None /\ n = Best(P(s))
  BY <1>10
<1> QED
  BY <1>6, <1>7, <1>8, <1>9, <1>11

\* The list, the guard and the service agree on every user and every space,
\* although only two of the three look at the row of spaces.
THEOREM QueriesAlwaysAgree == Spec => []QueriesAgree
<1>1. OwnerInv => QueriesAgree
  <2> SUFFICES ASSUME OwnerInv, NEW u \in Users, NEW s \in Spaces
               PROVE  /\ find_for_user(u, s) = resolve_user_permission(u, s)
                      /\ \A n \in 0..3 : <<s, n>> \in find_all_for_user(u) <=>
                                             n = find_for_user(u, s) /\ n > 0
    BY DEF QueriesAgree
  <2>1. find_for_user(u, s) = Level(u, s)
    BY GuardQuery, NoRowNoLevel DEF OwnerInv, Sound
  <2>2. space[s] = None => Level(u, s) = 0
    BY NoRowNoLevel DEF OwnerInv, Sound
  <2>3. \A n \in 0..3 : <<s, n>> \in find_all_for_user(u) <=>
           n = Level(u, s) /\ n # 0
    BY <2>2, ListQuery DEF OwnerInv
  <2> QED
    BY <2>1, <2>3, ServiceQuery
<1> QED
  BY <1>1, OwnerInit, OwnerStep, PTL DEF Spec

(***************************************************************************)
(* Authorisation.  entitled[r] is set at the check that decides, and stays *)
(* set until the request ends.                                             *)
(***************************************************************************)

Decided == {"update_group", "update_member_role", "grant_group_access"}

Authorised(r) ==
    /\ req[r].pc = "write" => entitled[r]
    /\ req[r].pc = "look" /\ req[r].op \in Decided => entitled[r]

AuthInv == \A r \in Reqs : Authorised(r)

\* What Entitled asks, operation by operation.
LEMMA EntitledWhen ==
    ASSUME NEW q
    PROVE  /\ q.op \in {"update_group", "add_member"} /\ Manages(q.by, q.g) => Entitled(q)
           /\ q.op \in {"delete_group", "update_member_role"} /\ Created(q.by, q.g)
                 => Entitled(q)
           /\ q.op = "remove_member"
                 /\ (Manages(q.by, q.g) \/ (q.by = q.who /\ is_member(q.g, q.by)))
                 => Entitled(q)
           /\ q.op \in SettingOps /\ Holds(q.by, q.s, "admin") => Entitled(q)
           /\ q.op = "use_files" /\ Holds(q.by, q.s, q.val) => Entitled(q)
           /\ q.op \in {"create_group", "create_space", "create_group_space"} => Entitled(q)
BY DEF Entitled, SettingOps

\* A check reads what the history reads.
LEMMA EntitledStays ==
    ASSUME NEW r \in Reqs, RequestsWell, NEW pc, Goto(r, pc), UNCHANGED rows,
           Entitled(req[r])
    PROVE  Entitled(req[r])'
<1>1. /\ req'[r].op = req[r].op /\ req'[r].by = req[r].by
      /\ req'[r].g = req[r].g /\ req'[r].s = req[r].s
      /\ req'[r].who = req[r].who /\ req'[r].val = req[r].val
  BY WentTo
<1>2. group' = group /\ member' = member /\ space' = space /\ access' = access
  BY DEF rows
<1> QED
  BY <1>1, <1>2 DEF Entitled, Manages, Created, Holds, GroupExists, is_member

LEMMA Observed ==
    ASSUME NEW r \in Reqs, Observe, req'[r].pc # "idle",
           \/ req[r].pc # "idle" /\ entitled[r]
           \/ Entitled(req[r])'
    PROVE  entitled'[r]
<1>1. req'[r] # Idle /\ (req[r].pc # "idle" => req[r] # Idle)
  BY DEF Idle
<1>2. entitled'[r] <=> /\ req'[r] # Idle
                       /\ \/ req[r] # Idle /\ entitled[r]
                          \/ Entitled(req[r])'
  BY Zenon DEF Observe
<1> QED
  BY <1>1, <1>2

LEMMA LevelHolds ==
    ASSUME OwnerInv, NEW u \in Users, NEW s \in Spaces, NEW p \in Permissions,
           Level(u, s) >= Rank[p]
    PROVE  Holds(u, s, p)
<1>1. PICK q \in Permissions : Reaches(u, s, q) /\ Rank[q] >= Rank[p]
  BY DEF Level, Best, Rank, Permissions
<1>2. space[s] # None
  BY <1>1, NoRowNoLevel DEF OwnerInv, Sound, Rank, Permissions
<1>3. ASSUME NEW w \in Faces(u)
      PROVE  /\ w \in Grantees
             /\ \/ w = <<"user", u>>
                \/ \E g \in Groups : w = <<"group", g>> /\ is_member(g, u)
  BY FacesAre DEF user_groups
<1>4. CASE q = "admin" /\ space[s] \in Faces(u)
  BY <1>2, <1>3, <1>4 DEF Holds
<1>5. CASE \E w \in Faces(u) : access[s][w] = q
  BY <1>1, <1>2, <1>3, <1>5 DEF Holds
<1> QED
  BY <1>1, <1>4, <1>5 DEF Reaches

\* A check that lets a request on to a write has found it entitled, or an
\* earlier one has.
LEMMA CheckAuthorised ==
    ASSUME OwnerInv, Observe, NEW r \in Reqs, Authorised(r), NEW pc,
           Goto(r, pc) \/ Return(r), UNCHANGED rows,
           Goto(r, pc) /\ (pc = "write" \/ (pc = "look" /\ req[r].op \in Decided)) =>
              \/ Entitled(req[r])
              \/ req[r].pc = "look" /\ req[r].op \in Decided
    PROVE  Authorised(r)'
<1>1. RequestsWell
  BY DEF OwnerInv, TypeInv
<1>2. CASE Return(r)
  <2>1. req'[r].pc = "idle"
    BY <1>1, <1>2, Returned DEF Idle
  <2> QED
    BY <2>1 DEF Authorised
<1>3. CASE Goto(r, pc)
  <2>1. req'[r].pc = pc /\ req'[r].op = req[r].op
    BY <1>1, <1>3, WentTo
  <2>2. ASSUME pc = "write" \/ (pc = "look" /\ req[r].op \in Decided)
        PROVE  entitled'[r]
    <3>1. CASE Entitled(req[r])
      BY <1>1, <1>3, <2>1, <2>2, <3>1, EntitledStays, Observed
    <3>2. CASE req[r].pc = "look" /\ req[r].op \in Decided
      BY <2>1, <2>2, <3>2, Observed DEF Authorised
    <3>3. Entitled(req[r]) \/ (req[r].pc = "look" /\ req[r].op \in Decided)
      BY <1>3, <2>2
    <3> QED
      BY <3>1, <3>2, <3>3, Zenon
  <2> QED
    BY <2>1, <2>2 DEF Authorised
<1> QED
  BY <1>2, <1>3

LEMMA EndAuthorised ==
    ASSUME OwnerInv, NEW r \in Reqs, Return(r)
    PROVE  Authorised(r)'
<1>1. req'[r].pc = "idle"
  BY Returned DEF OwnerInv, TypeInv, Idle
<1> QED
  BY <1>1 DEF Authorised

LEMMA GroupStepAuthorised ==
    ASSUME OwnerInv, Observe, NEW r \in Reqs, Authorised(r), GroupStep(r)
    PROVE  Authorised(r)'
<1> DEFINE q == req[r]
<1>1. WellFormed(q) /\ q \in Request /\ RequestsWell
  BY DEF OwnerInv, TypeInv, RequestsWell
<1>2. require_manager_or_owner(q.g, q.by) /\ q.g \in Groups /\ q.by \in Users =>
         Manages(q.by, q.g)
  BY NoneAssumption
     DEF OwnerInv, Sound, OwnerAndCreator, require_manager_or_owner, Manages, is_member, Roles
<1>3. CASE create_group(r)
  <2>1. q.op = "create_group" /\ Entitled(q)
    BY <1>3, EntitledWhen DEF create_group, At
  <2>2. ASSUME Check(r, find_by_name(q.val) = {}, "insert")
        PROVE  Authorised(r)'
    BY <2>1, <2>2, CheckAuthorised DEF Check
  <2>3. ASSUME At(r, "create_group", "insert"), InsertGroup(r)
        PROVE  Authorised(r)'
    <3>1. CASE Return(r)
      BY <3>1, EndAuthorised
    <3>2. CASE ~Return(r)
      <4>1. PICK g \in Groups \ minted : req' = [req EXCEPT ![r].pc = "write", ![r].g = g]
        BY <2>3, <3>2 DEF InsertGroup, Check
      <4>2. req'[r].op = "create_group" /\ req'[r].pc = "write"
        BY <1>1, <2>1, <4>1 DEF RequestsWell, Request
      <4>3. Entitled(req[r])'
        BY <4>2 DEF Entitled, SettingOps
      <4>4. entitled'[r]
        BY <4>2, <4>3, Observed
      <4> QED
        BY <4>2, <4>4 DEF Authorised
    <3> QED
      BY <3>1, <3>2
  <2> QED
    BY <1>3, <2>2, <2>3, EndAuthorised DEF create_group, InsertMember, Finish
<1>4. CASE update_group(r)
  <2>1. q.op = "update_group" /\ q.g \in Groups /\ q.pc # "idle" /\ q.by \in Users
    BY <1>1, <1>4 DEF update_group, At, WellFormed, GroupOps
  <2>2. CASE q.pc = "check"
    BY <1>2, <1>4, <2>1, <2>2, CheckAuthorised, EntitledWhen, EndAuthorised
       DEF update_group, At, Check
  <2>3. CASE q.pc = "look"
    BY <1>4, <2>1, <2>3, CheckAuthorised DEF update_group, At, Check, Decided
  <2>4. CASE q.pc = "write"
    BY <1>4, <2>4, EndAuthorised DEF update_group, At, RenameGroup, Finish
  <2> QED
    BY <1>4, <2>2, <2>3, <2>4 DEF update_group, At
<1>5. CASE delete_group(r)
  <2>1. q.op = "delete_group"
    BY <1>5 DEF delete_group, At
  <2>2. CASE q.pc = "check"
    <3>1. Check(r, Created(q.by, q.g), "write")
      BY <1>5, <2>2 DEF delete_group, At, Created
    <3>2. CASE Created(q.by, q.g)
      BY <2>1, <3>1, <3>2, CheckAuthorised, EntitledWhen DEF Check
    <3> QED
      BY <3>1, <3>2, EndAuthorised DEF Check
  <2> QED
    BY <1>5, <2>2, EndAuthorised DEF delete_group, At, DeleteGroupRow, Finish
<1>6. CASE add_member(r)
  <2>1. q.op = "add_member" /\ q.g \in Groups /\ q.pc # "idle" /\ q.by \in Users
    BY <1>1, <1>6 DEF add_member, At, WellFormed, GroupOps
  <2>2. CASE q.pc = "check"
    <3>1. Check(r, require_manager_or_owner(q.g, q.by) /\ q.val # "owner", "write")
      BY <1>6, <2>2 DEF add_member, At
    <3>2. CASE require_manager_or_owner(q.g, q.by)
      BY <1>2, <2>1, <3>1, <3>2, CheckAuthorised, EntitledWhen DEF Check
    <3> QED
      BY <3>1, <3>2, EndAuthorised DEF Check
  <2> QED
    BY <1>6, <2>2, EndAuthorised DEF add_member, At, InsertMember, Finish
<1>7. CASE remove_member(r)
  <2>1. q.op = "remove_member" /\ q.g \in Groups /\ q.pc # "idle" /\ q.by \in Users
    BY <1>1, <1>7 DEF remove_member, At, WellFormed, GroupOps
  <2>2. CASE q.pc = "check"
    <3>1. UNCHANGED rows /\ (Goto(r, "look") \/ Return(r))
      BY <1>7, <2>2 DEF remove_member, At, Check
    <3> QED
      BY <2>1, <3>1, CheckAuthorised DEF Decided
  <2>3. CASE q.pc = "look"
    <3> DEFINE ok == IF q.by = q.who THEN require_member(q.g, q.by)
                                     ELSE require_manager_or_owner(q.g, q.by)
    <3>1. Check(r, ok, "write")
      BY <1>7, <2>3 DEF remove_member, At
    <3>2. CASE ok
      <4>1. Entitled(q)
        <5>1. CASE q.by = q.who
          BY <2>1, <3>2, <5>1, EntitledWhen DEF require_member
        <5>2. CASE q.by # q.who
          <6>1. Manages(q.by, q.g)
            BY <1>2, <2>1, <3>2, <5>2
          <6> QED
            BY <2>1, <6>1, EntitledWhen
        <5> QED
          BY <5>1, <5>2
      <4> QED
        BY <3>1, <3>2, <4>1, CheckAuthorised DEF Check
    <3> QED
      BY <3>1, <3>2, EndAuthorised DEF Check
  <2> QED
    BY <1>7, <2>2, <2>3, EndAuthorised DEF remove_member, At, DeleteMember, Finish
<1>8. CASE update_member_role(r)
  <2>1. q.op = "update_member_role"
    BY <1>8 DEF update_member_role, At
  <2>2. CASE q.pc = "check"
    <3> DEFINE ok == /\ GroupExists(q.g) /\ group[q.g].by = q.by
                     /\ q.who # group[q.g].by /\ q.val # "owner"
    <3>1. Check(r, ok, "look")
      BY <1>8, <2>2 DEF update_member_role, At
    <3>2. CASE ok
      <4>1. Entitled(q)
        BY <2>1, <3>2, EntitledWhen DEF Created
      <4> QED
        BY <3>1, <3>2, <4>1, CheckAuthorised DEF Check
    <3> QED
      BY <3>1, <3>2, EndAuthorised DEF Check
  <2>3. CASE q.pc = "look"
    <3>1. UNCHANGED rows /\ (Goto(r, "write") \/ Return(r))
      BY <1>8, <2>3 DEF update_member_role, At, Check
    <3> QED
      BY <2>1, <2>3, <3>1, CheckAuthorised DEF Decided
  <2> QED
    BY <1>8, <2>2, <2>3, EndAuthorised DEF update_member_role, At, UpdateRole, Finish
<1> QED
  BY <1>3, <1>4, <1>5, <1>6, <1>7, <1>8 DEF GroupStep

LEMMA SpaceStepAuthorised ==
    ASSUME OwnerInv, Observe, NEW r \in Reqs, Authorised(r), SpaceStep(r)
    PROVE  Authorised(r)'
<1> DEFINE q == req[r]
<1>1. WellFormed(q) /\ q \in Request /\ RequestsWell
  BY DEF OwnerInv, TypeInv, RequestsWell
<1>2. ASSUME NEW pc \in {"undo", "check"}, Goto(r, pc) \/ Return(r), UNCHANGED rows
      PROVE  Authorised(r)'
  BY <1>2, CheckAuthorised
<1>3. ASSUME NEW level, check_space_permission(r, level, "check")
      PROVE  Authorised(r)'
  BY <1>2, <1>3 DEF check_space_permission, Check
<1>4. ASSUME NEW pc, q.op \in SettingOps, require_permission(r, pc)
      PROVE  Authorised(r)'
  <2>1. q.by \in Users /\ q.s \in Spaces
    BY <1>1, <1>4 DEF require_permission, WellFormed
  <2>2. CASE resolve_user_permission(q.by, q.s) >= Rank["admin"]
    <3>1. Holds(q.by, q.s, "admin")
      BY <2>1, <2>2, ServiceQuery, LevelHolds DEF Permissions
    <3>2. Entitled(q)
      BY <1>4, <3>1, EntitledWhen
    <3> QED
      BY <1>4, <2>2, <3>2, CheckAuthorised DEF require_permission, Check
  <2> QED
    BY <1>4, <2>2, EndAuthorised DEF require_permission, Check
<1>5. ASSUME NEW owner, InsertSpace(r, owner)
      PROVE  Authorised(r)'
  <2>1. PICK s \in Spaces \ minted : req' = [req EXCEPT ![r].pc = "dir", ![r].s = s]
    BY <1>5 DEF InsertSpace
  <2>2. req'[r].pc = "dir"
    BY <1>1, <2>1 DEF RequestsWell, Request
  <2> QED
    BY <2>2 DEF Authorised
<1>6. ASSUME Finish(r) \/ DeleteSpaceRow(r) \/ InsertGrant(r) \/ UpdateGrant(r)
                \/ DeleteGrant(r)
      PROVE  Authorised(r)'
  BY <1>6, EndAuthorised
     DEF Finish, DeleteSpaceRow, InsertGrant, UpdateGrant, DeleteGrant
<1>7. ASSUME MakeDirectory(r)
      PROVE  Authorised(r)'
  BY <1>2, <1>6, <1>7 DEF MakeDirectory, Check
<1>8. CASE create_space(r)
  BY <1>5, <1>7, <1>8 DEF create_space
<1>9. CASE create_group_space(r)
  <2>1. Entitled(q)
    BY <1>9, EntitledWhen DEF create_group_space
  <2> QED
    BY <1>5, <1>7, <1>9, <2>1, CheckAuthorised DEF create_group_space, Check
<1>10. CASE update_space(r)
  BY <1>3, <1>4, <1>6, <1>10 DEF update_space, SettingOps
<1>11. CASE delete_space(r)
  BY <1>3, <1>4, <1>6, <1>11 DEF delete_space, SettingOps
<1>12. CASE grant_user_access(r)
  BY <1>3, <1>4, <1>6, <1>12 DEF grant_user_access, SettingOps
<1>13. CASE grant_group_access(r)
  <2>1. CASE q.pc = "look" /\ Check(r, GroupExists(q.to[2]), "write")
    <3>1. UNCHANGED rows /\ (Goto(r, "write") \/ Return(r))
      BY <2>1 DEF Check
    <3> QED
      BY <1>13, <2>1, <3>1, CheckAuthorised DEF grant_group_access, Decided
  <2> QED
    BY <1>3, <1>4, <1>6, <1>13, <2>1 DEF grant_group_access, SettingOps
<1>14. CASE revoke_access(r)
  BY <1>3, <1>4, <1>6, <1>14 DEF revoke_access, SettingOps
<1>15. CASE update_access_permission(r)
  BY <1>3, <1>4, <1>6, <1>15 DEF update_access_permission, SettingOps
<1>16. CASE use_files(r)
  <2>1. CASE check_space_permission(r, q.val, "write")
    <3>1. q.by \in Users /\ q.s \in Spaces /\ q.val \in Permissions /\ q.op = "use_files"
      BY <1>1, <1>16, <2>1 DEF use_files, check_space_permission, WellFormed
    <3>2. CASE find_for_user(q.by, q.s) >= Rank[q.val]
      <4>1. Level(q.by, q.s) >= Rank[q.val]
        <5>1. Rank[q.val] \in {1, 2, 3}
          BY <3>1 DEF Rank, Permissions
        <5> QED
          BY <3>1, <3>2, <5>1, GuardQuery
      <4>2. Entitled(q)
        BY <3>1, <4>1, LevelHolds, EntitledWhen
      <4> QED
        BY <2>1, <3>2, <4>2, CheckAuthorised DEF check_space_permission, Check
    <3> QED
      BY <2>1, <3>2, EndAuthorised DEF check_space_permission, Check
  <2> QED
    BY <1>6, <1>16, <2>1 DEF use_files
<1> QED
  BY <1>8, <1>9, <1>10, <1>11, <1>12, <1>13, <1>14, <1>15, <1>16 DEF SpaceStep

\* A request that begins has not been authorised, unless it needs nothing.
LEMMA BeginAuthorised ==
    ASSUME OwnerInv, Observe, NEW r \in Reqs, BeginRequest(r)
    PROVE  Authorised(r)'
<1>1. ASSUME NEW op, NEW pc \in {"check", "guard"}, NEW args, Begin(r, op, pc, args)
      PROVE  Authorised(r)'
  <2>1. req' = [req EXCEPT ![r] = Begun(op, pc, args)]
    BY <1>1, Zenon DEF Begin, Begun
  <2>2. req'[r].pc = pc
    BY <2>1 DEF OwnerInv, TypeInv, RequestsWell, Begun
  <2> QED
    BY <1>1, <2>2 DEF Authorised
<1>2. ASSUME NEW args, Begin(r, "create_space", "write", args)
      PROVE  Authorised(r)'
  <2>1. req' = [req EXCEPT ![r] = Begun("create_space", "write", args)]
    BY <1>2, Zenon DEF Begin, Begun
  <2>2. req'[r].pc = "write" /\ req'[r].op = "create_space"
    BY <2>1 DEF OwnerInv, TypeInv, RequestsWell, Begun
  <2>3. Entitled(req[r])'
    BY <2>2 DEF Entitled, SettingOps
  <2>4. entitled'[r]
    BY <2>2, <2>3, Observed
  <2> QED
    BY <2>2, <2>4 DEF Authorised
<1>3. CASE BeginCreate(r)
  <2>1. \/ \E op, args : Begin(r, op, "check", args)
        \/ \E args : Begin(r, "create_space", "write", args)
    BY <1>3, Zenon DEF BeginCreate
  <2> QED
    BY <1>1, <1>2, <2>1
<1>4. CASE BeginOnGroup(r)
  <2>1. \E op, args : Begin(r, op, "check", args)
    BY <1>4, Zenon DEF BeginOnGroup
  <2> QED
    BY <1>1, <2>1
<1>5. CASE BeginOnSpace(r)
  <2>1. \E op, args : Begin(r, op, "guard", args)
    BY <1>5, Zenon DEF BeginOnSpace
  <2> QED
    BY <1>1, <2>1
<1> QED
  BY <1>3, <1>4, <1>5 DEF BeginRequest

LEMMA AuthorisedStays ==
    ASSUME Observe, NEW x \in Reqs, Authorised(x), req'[x] = req[x]
    PROVE  Authorised(x)'
<1>1. req[x].pc # "idle" /\ entitled[x] => entitled'[x]
  BY Observed
<1> QED
  BY <1>1 DEF Authorised

LEMMA AuthStep == OwnerInv /\ AuthInv /\ [Next]_vars => AuthInv'
<1> SUFFICES ASSUME OwnerInv, AuthInv, [Next]_vars, NEW x \in Reqs PROVE Authorised(x)'
  BY DEF AuthInv
<1>1. CASE UNCHANGED vars
  BY <1>1 DEF AuthInv, Authorised, vars
<1>2. ASSUME Observe, NEW r \in Reqs, BeginRequest(r) \/ GroupStep(r) \/ SpaceStep(r)
      PROVE  Authorised(x)'
  <2>1. CASE x = r
    BY <1>2, <2>1, BeginAuthorised, GroupStepAuthorised, SpaceStepAuthorised DEF AuthInv
  <2>2. CASE x # r
    <3>1. Safe(r)
      BY <1>2, BeginRequestSafe, GroupStepSafe, SpaceStepSafe
    <3> QED
      BY <1>2, <2>2, <3>1, AuthorisedStays DEF Safe, AuthInv
  <2> QED
    BY <2>1, <2>2
<1>3. CASE Crash
  BY <1>3 DEF Crash, Authorised, Idle
<1> QED
  BY <1>1, <1>2, <1>3 DEF Next

LEMMA AuthInit == Init => AuthInv
BY DEF Init, AuthInv, Authorised, Idle

\* No statement that writes runs for a request that was at no time during its
\* run entitled to it: the argument of every check is that of the write.
THEOREM WritesAreAuthorised == Spec => []AuthorisedWrites
<1>1. AuthInv => AuthorisedWrites
  BY DEF AuthInv, Authorised, AuthorisedWrites
<1> QED
  BY <1>1, OwnerInit, OwnerStep, AuthInit, AuthStep, PTL DEF Spec

(***************************************************************************)
(* Rising.  A level depends on who is a member, who owns and what is       *)
(* granted; a step that adds to none of the three raises nobody.           *)
(***************************************************************************)

Lowering ==
    /\ \A g \in Groups, u \in Users : member'[g][u] # None => member[g][u] # None
    /\ \A s \in Spaces : space'[s] # None => space'[s] = space[s]
    /\ \A s \in Spaces, w \in Grantees : access'[s][w] # None => access'[s][w] = access[s][w]

LEMMA BestGrows ==
    ASSUME NEW A, NEW B, \A p \in Permissions : p \in A => p \in B
    PROVE  Best(A) <= Best(B) /\ Best(A) \in 0..3
BY DEF Best, Permissions

LEMMA NoRise ==
    ASSUME TypeInv, TypeInv', Lowering, NEW u \in Users, NEW s \in Spaces
    PROVE  ~(resolve_user_permission(u, s)' > resolve_user_permission(u, s))
<1> DEFINE A == {"admin" : w \in {space[s]} \cap {<<"user", u>>}}
           B == {"admin" : w \in {space[s]} \cap ({"group"} \X user_groups(u))}
           C == {access[s][<<"user", u>>]} \ {None}
           D == {access[s][<<"group", g>>] : g \in user_groups(u)} \ {None}
           S == A \cup B \cup C \cup D
<1>1. user_groups(u)' \subseteq user_groups(u)
  BY DEF Lowering, user_groups, is_member
<1>2. <<"user", u>> \in Grantees /\ \A g \in user_groups(u) : <<"group", g>> \in Grantees
  BY DEF Grantees, user_groups
<1>3. \A w \in Grantees : space'[s] = w => space[s] = w
  BY NoneAssumption DEF Lowering
<1>4. A' \subseteq A
  BY <1>2, <1>3
<1>5. B' \subseteq B
  BY <1>1, <1>2, <1>3
<1>6. C' \subseteq C
  BY <1>2 DEF Lowering
<1>7. D' \subseteq D
  BY <1>1, <1>2 DEF Lowering
<1>8. S' \subseteq S
  <2> HIDE DEF A, B, C, D
  <2> QED
    BY <1>4, <1>5, <1>6, <1>7
<1>9. resolve_user_permission(u, s) = Best(S) /\ resolve_user_permission(u, s)' = Best(S')
  BY DEF resolve_user_permission
<1>10. Best(S') <= Best(S) /\ Best(S) \in 0..3 /\ Best(S') \in 0..3
  <2> HIDE DEF S
  <2> QED
    BY <1>8, BestGrows
<1> HIDE DEF S
<1> QED
  BY <1>9, <1>10

\* The last statement of a request that is entitled to raise somebody.
Raises(r) == /\ req[r].op \in Raising
             /\ req[r].pc = "write" /\ req'[r].pc # "write"

LEMMA RowsLowering == ASSUME UNCHANGED rows PROVE Lowering
BY DEF Lowering, rows

LEMMA GroupStepRises ==
    ASSUME OwnerInv, NEW r \in Reqs, GroupStep(r)
    PROVE  Lowering \/ Raises(r)
<1> DEFINE q == req[r]
<1>1. WellFormed(q) /\ RequestsWell
  BY DEF OwnerInv, TypeInv, RequestsWell
<1>2. ASSUME NEW pc, NEW ok, Check(r, ok, pc) PROVE Lowering
  BY <1>2, RowsLowering DEF Check
<1>3. CASE create_group(r)
  <2>1. CASE At(r, "create_group", "insert") /\ InsertGroup(r)
    <3>1. UNCHANGED <<member, space, access>>
      BY <2>1 DEF InsertGroup, Check, rows
    <3> QED
      BY <3>1 DEF Lowering
  <2>2. CASE At(r, "create_group", "write") /\ InsertMember(r, q.by, "owner")
    <3>1. req'[r].pc = "idle"
      BY <1>1, <2>2, Returned DEF InsertMember, Finish, Idle
    <3> QED
      BY <2>2, <3>1 DEF Raises, Raising, At
  <2> QED
    BY <1>2, <1>3, <2>1, <2>2 DEF create_group
<1>4. CASE update_group(r)
  <2>1. CASE RenameGroup(r)
    BY <2>1 DEF Lowering, RenameGroup
  <2> QED
    BY <1>2, <1>4, <2>1 DEF update_group
<1>5. CASE delete_group(r)
  <2>1. CASE DeleteGroupRow(r) /\ q.g \in Groups
    BY <2>1 DEF Lowering, DeleteGroupRow, OwnerInv, TypeInv, Tables
  <2>2. q.g \in Groups
    BY <1>1, <1>5 DEF delete_group, At, WellFormed, GroupOps
  <2> QED
    BY <1>2, <1>5, <2>1, <2>2 DEF delete_group
<1>6. CASE add_member(r)
  <2>1. CASE At(r, "add_member", "write") /\ InsertMember(r, q.who, q.val)
    <3>1. req'[r].pc = "idle"
      BY <1>1, <2>1, Returned DEF InsertMember, Finish, Idle
    <3> QED
      BY <2>1, <3>1 DEF Raises, Raising, At
  <2> QED
    BY <1>2, <1>6, <2>1 DEF add_member
<1>7. CASE remove_member(r)
  <2>1. q.g \in Groups /\ q.who \in Users
    BY <1>1, <1>7 DEF remove_member, At, WellFormed, GroupOps
  <2>2. CASE DeleteMember(r)
    BY <2>1, <2>2 DEF Lowering, DeleteMember, OwnerInv, TypeInv, Tables
  <2> QED
    BY <1>2, <1>7, <2>2 DEF remove_member
<1>8. CASE update_member_role(r)
  <2>1. q.g \in Groups /\ q.who \in Users
    BY <1>1, <1>8 DEF update_member_role, At, WellFormed, GroupOps
  <2>2. CASE UpdateRole(r)
    BY <2>1, <2>2 DEF Lowering, UpdateRole, is_member, OwnerInv, TypeInv, Tables
  <2> QED
    BY <1>2, <1>8, <2>2 DEF update_member_role
<1> QED
  BY <1>3, <1>4, <1>5, <1>6, <1>7, <1>8 DEF GroupStep

LEMMA SpaceStepRises ==
    ASSUME OwnerInv, NEW r \in Reqs, SpaceStep(r)
    PROVE  Lowering \/ Raises(r)
<1> DEFINE q == req[r]
<1>1. WellFormed(q) /\ q \in Request /\ RequestsWell
  BY DEF OwnerInv, TypeInv, RequestsWell
<1>2. ASSUME NEW ok, NEW pc, Check(r, ok, pc) PROVE Lowering
  BY <1>2, RowsLowering DEF Check
<1>3. ASSUME NEW level, NEW pc,
             check_space_permission(r, level, pc) \/ require_permission(r, pc)
      PROVE  Lowering
  BY <1>3, RowsLowering DEF check_space_permission, require_permission, Check
<1>4. ASSUME NEW owner, q.op \in Raising, q.pc = "write", InsertSpace(r, owner)
      PROVE  Raises(r)
  <2>1. PICK s \in Spaces \ minted : req' = [req EXCEPT ![r].pc = "dir", ![r].s = s]
    BY <1>4 DEF InsertSpace
  <2>2. req'[r].pc = "dir"
    BY <1>1, <2>1 DEF RequestsWell, Request
  <2> QED
    BY <1>4, <2>2 DEF Raises
<1>5. ASSUME q.s \in Spaces, DeleteSpaceRow(r) PROVE Lowering
  BY <1>5 DEF DeleteSpaceRow, Lowering, OwnerInv, TypeInv, Tables
<1>6. ASSUME q.op \in Raising, q.pc = "write", InsertGrant(r) \/ UpdateGrant(r)
      PROVE  Raises(r)
  <2>1. req'[r].pc = "idle"
    BY <1>1, <1>6, Returned DEF InsertGrant, UpdateGrant, Finish, Idle
  <2> QED
    BY <1>6, <2>1 DEF Raises
<1>7. ASSUME q.op \in {"create_space", "create_group_space"}, MakeDirectory(r)
      PROVE  Lowering
  BY <1>1, <1>5, <1>7, RowsLowering DEF MakeDirectory, Check, WellFormed
<1>8. CASE create_space(r)
  BY <1>4, <1>7, <1>8 DEF create_space, Raising
<1>9. CASE create_group_space(r)
  BY <1>2, <1>4, <1>7, <1>9 DEF create_group_space, Raising
<1>10. CASE update_space(r)
  BY <1>3, <1>10, RowsLowering DEF update_space
<1>11. CASE delete_space(r)
  BY <1>1, <1>3, <1>5, <1>11 DEF delete_space, WellFormed, SettingOps
<1>12. CASE grant_user_access(r)
  BY <1>3, <1>6, <1>12 DEF grant_user_access, Raising
<1>13. CASE grant_group_access(r)
  BY <1>2, <1>3, <1>6, <1>13 DEF grant_group_access, Raising
<1>14. CASE revoke_access(r)
  <2>1. q.s \in Spaces /\ q.to \in Grantees
    BY <1>1, <1>14 DEF revoke_access, WellFormed, SettingOps
  <2>2. CASE DeleteGrant(r)
    BY <2>1, <2>2 DEF DeleteGrant, Lowering, OwnerInv, TypeInv, Tables
  <2> QED
    BY <1>3, <1>14, <2>2 DEF revoke_access
<1>15. CASE update_access_permission(r)
  BY <1>3, <1>6, <1>15 DEF update_access_permission, Raising
<1>16. CASE use_files(r)
  BY <1>3, <1>16, RowsLowering DEF use_files
<1> QED
  BY <1>8, <1>9, <1>10, <1>11, <1>12, <1>13, <1>14, <1>15, <1>16 DEF SpaceStep

LEMMA StepRises ==
    ASSUME OwnerInv, AuthInv, Next
    PROVE  Lowering \/ \E r \in Reqs : Raises(r) /\ entitled[r]
<1>1. ASSUME NEW r \in Reqs, BeginRequest(r) PROVE Lowering
  <2>1. UNCHANGED rows
    <3>1. ASSUME NEW op, NEW pc, NEW args, Begin(r, op, pc, args) PROVE UNCHANGED rows
      BY <3>1, Zenon DEF Begin
    <3>2. CASE BeginCreate(r)
      BY <3>1, <3>2, Zenon DEF BeginCreate
    <3>3. CASE BeginOnGroup(r)
      BY <3>1, <3>3, Zenon DEF BeginOnGroup
    <3>4. CASE BeginOnSpace(r)
      BY <3>1, <3>4, Zenon DEF BeginOnSpace
    <3> QED
      BY <1>1, <3>2, <3>3, <3>4 DEF BeginRequest
  <2> QED
    BY <2>1, RowsLowering
<1>2. CASE Crash
  BY <1>2, RowsLowering DEF Crash
<1>3. ASSUME NEW r \in Reqs, GroupStep(r) \/ SpaceStep(r)
      PROVE  Lowering \/ (Raises(r) /\ entitled[r])
  <2>1. Raises(r) => entitled[r]
    BY DEF Raises, AuthInv, Authorised
  <2> QED
    BY <1>3, <2>1, GroupStepRises, SpaceStepRises
<1> QED
  BY <1>1, <1>2, <1>3 DEF Next

\* A permission rises by the last statement of an entitled request that gives
\* one, and by nothing else: no deletion, revocation, removal, renaming, check
\* or crash, in any order.
THEOREM OnlyGrantsRaise == Spec => RisesOnlyByGrant
<1> DEFINE A == \A u \in Users, s \in Spaces :
                  resolve_user_permission(u, s)' > resolve_user_permission(u, s) =>
                      \E r \in Reqs : /\ req[r].op \in Raising
                                      /\ req[r].pc = "write" /\ req'[r].pc # "write"
                                      /\ entitled[r]
<1>1. OwnerInv /\ OwnerInv' /\ AuthInv /\ [Next]_vars => [A]_vars
  <2> SUFFICES ASSUME OwnerInv, OwnerInv', AuthInv, Next PROVE A
    OBVIOUS
  <2>1. CASE Lowering
    BY <2>1, NoRise DEF OwnerInv
  <2>2. CASE \E r \in Reqs : Raises(r) /\ entitled[r]
    BY <2>2 DEF Raises
  <2> QED
    BY <2>1, <2>2, StepRises
<1> QED
  BY <1>1, OwnerInit, OwnerStep, AuthInit, AuthStep, PTL DEF Spec, RisesOnlyByGrant
=============================================================================
