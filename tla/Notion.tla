------------------------------- MODULE Notion -------------------------------
(***************************************************************************)
(* The Notion workspace as the connector sees it through SCIM 2.0: the     *)
(* store behind the API and the effect and answer of each request the      *)
(* connector sends about one user.  Translated from the repository's       *)
(* reference server (test-server/main.go), which serves the same           *)
(* endpoints; every handler there runs under the store's mutex, so one     *)
(* handler is one atomic step.                                             *)
(***************************************************************************)
EXTENDS FiniteSets

CONSTANTS
    Ids,     \* user ids that may ever exist (uuids are never handed out twice)
    Groups,  \* group ids
    Emails,  \* userName values
    Fold     \* Fold[e]: e in the case strings.EqualFold compares

VARIABLES
    role,      \* role[u]: workspace role of u, or Absent / Unused
    userName,  \* userName[u]: the email u was created with
    members    \* members[g]: ids listed in g's members array

store == <<role, userName, members>>

(***************************************************************************)
(* Roles.  A user may carry no role extension (User.Role() = "") or a tier *)
(* the connector was not written for.                                      *)
(***************************************************************************)
RoleOwner            == "owner"
RoleMembershipAdmin  == "membership_admin"
RoleMember           == "member"
RoleRestrictedMember == "restricted_member"

supportedRoles == {RoleOwner, RoleMembershipAdmin, RoleMember, RoleRestrictedMember}
NoRole         == "no_role"
OtherRole      == "other_role"
UserRole       == supportedRoles \cup {NoRole, OtherRole}

Absent == "absent"  \* was in the workspace and has been removed
Unused == "unused"  \* an id the server has not handed out yet

(* Undecodable: a 200 whose body the client cannot read. *)
Undecodable == "undecodable"
Code  == {"OK", "NotFound", "AlreadyExists", "InvalidArgument", "Unavailable", "Unknown", Undecodable}
Reply == [code : Code, role : UserRole]

ASSUME FoldAssumption == Fold \in [Emails -> Emails]

Present(u) == role[u] \in UserRole

StoreTypeOK ==
    /\ role \in [Ids -> UserRole \cup {Absent, Unused}]
    /\ userName \in [Ids -> Emails]
    /\ members \in [Groups -> SUBSET Ids]

-----------------------------------------------------------------------------
(* Answers.  A reply's role is that of the user in its body; it is          *)
(* meaningful only when the code is OK.                                    *)
Failed(c) == [code |-> c, role |-> NoRole]

handleGetUser(u) ==
    IF Present(u) THEN [code |-> "OK", role |-> role[u]] ELSE Failed("NotFound")

isKnownRole(r) == r \in {RoleOwner, RoleMembershipAdmin, RoleMember, RoleRestrictedMember}

(* The PATCH the connector sends has one replace operation on the role     *)
(* extension; applyPatchOp hands its value to setRole, which refuses a     *)
(* role it does not know.                                                  *)
applyPatchOp(r) == IF isKnownRole(r) THEN [code |-> "OK", role |-> r]
                                     ELSE Failed("InvalidArgument")

PatchReply(u, r) == IF Present(u) THEN applyPatchOp(r) ELSE Failed("NotFound")

(* The write itself; handlers that add or remove a user use it too. *)
setRole(u, r) == role' = [role EXCEPT ![u] = r]

handlePatchUser(u, r) ==
    /\ IF PatchReply(u, r).code = "OK" THEN setRole(u, r) ELSE UNCHANGED role
    /\ UNCHANGED <<userName, members>>

(* Mutant: the groups are not filtered. *)
filterMembersSkipped(u) == UNCHANGED members

filterMembers(u) == members' = [g \in Groups |-> members[g] \ {u}]

DeleteReply(u) == IF Present(u) THEN [code |-> "OK", role |-> NoRole] ELSE Failed("NotFound")

handleDeleteUser(u) ==
    /\ IF Present(u) THEN setRole(u, Absent) /\ filterMembers(u)
                     ELSE UNCHANGED <<role, members>>
    /\ UNCHANGED userName

(* Mutant: compares with == instead of strings.EqualFold. *)
NameTakenExact(e) == \E u \in Ids : Present(u) /\ userName[u] = e

(* strings.EqualFold over the users in the store. *)
NameTaken(e) == \E u \in Ids : Present(u) /\ Fold[userName[u]] = Fold[e]

CreateReply(e) == IF NameTaken(e) THEN Failed("AlreadyExists")
                                  ELSE [code |-> "OK", role |-> RoleMember]

(* POST /Users with a body that carries no role extension; id is the uuid  *)
(* the server draws.  Emails holds no blank address (a 400).               *)
handleCreateUser(id, e) ==
    /\ IF NameTaken(e)
       THEN UNCHANGED <<role, userName>>
       ELSE /\ setRole(id, RoleMember)
            /\ userName' = [userName EXCEPT ![id] = e]
    /\ UNCHANGED members

(***************************************************************************)
(* Outside the connector: a workspace admin gives u another role (possibly *)
(* one the connector does not know), removes u, or invites a removed       *)
(* account back.                                                           *)
(***************************************************************************)
AdminSetRole(u, r) ==
    /\ Present(u)
    /\ r # role[u]
    /\ setRole(u, r)
    /\ UNCHANGED <<userName, members>>

AdminRemove(u) == Present(u) /\ handleDeleteUser(u)

AdminInviteBack(u) ==
    /\ role[u] = Absent
    /\ ~NameTaken(userName[u])
    /\ setRole(u, RoleMember)
    /\ UNCHANGED <<userName, members>>
=============================================================================
