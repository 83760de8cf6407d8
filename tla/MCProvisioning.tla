--------------------------- MODULE MCProvisioning ---------------------------
(***************************************************************************)
(* Small instances of Provisioning for TLC.                                *)
(***************************************************************************)
EXTENDS Provisioning, TLC

CONSTANTS u1, u2, g1, t1, t2, lower, upper

MCIds    == {u1, u2}
MCGroups == {g1}
MCTasks  == {t1, t2}
OneTask  == {t1}

(* Two spellings of one address, or one: at most one of the two users is   *)
(* present, and every task is about the same person.                       *)
Spellings == {lower, upper}
SameFold  == [e \in Spellings |-> lower]
OneAddress == {lower}
OneFold    == [e \in OneAddress |-> e]

(* Owner, membership_admin and member are alike to the code (only equality *)
(* and support are tested); two of them, the floor and one unknown tier.   *)
MCAsked     == {RoleOwner, RoleRestrictedMember, OtherRole}
MCWorkspace == {RoleOwner, RoleMember, RoleRestrictedMember, OtherRole}
OwnerFloor  == {RoleOwner, RoleRestrictedMember}

Symmetry == Permutations(MCTasks) \cup Permutations(MCIds)
=============================================================================
