------------------------------- MODULE MCSync -------------------------------
(***************************************************************************)
(* A small instance of Sync for TLC.                                       *)
(***************************************************************************)
EXTENDS Sync

MCIds    == {1, 2, 3}
MCGroups == {1}

(* Addresses play no part in a sync: one for each account. *)
MCEmails    == MCIds
MCFold      == [e \in MCEmails |-> e]
MCUserNames == [u \in MCIds |-> u]

(* Everything, no roles, or groups only; the types of a task may differ    *)
(* from those of the configuration.                                        *)
MCFilters == {{}, {"user", "group"}, {"group"}}

(* A configuration without roles and a task that names all types. *)
MismatchFilters == {{"user", "group"}, {"user", "group", "role"}}

(* Three users, on two pages; or an id still to be handed out, a user with *)
(* a role the connector knows and one whose tier it does not know.         *)
MCWorkspaces ==
    {[u \in MCIds |-> RoleOwner],
     [u \in MCIds |-> CASE u = 1 -> Unused [] u = 2 -> RoleOwner [] u = 3 -> OtherRole]}

OneKnown == {RoleOwner, OtherRole}
=============================================================================
