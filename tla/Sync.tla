-------------------------------- MODULE Sync --------------------------------
(***************************************************************************)
(* A full sync: the SDK's engine lists users, groups and roles, plans and  *)
(* reads their grants from the connector, and seals the result in a c1z    *)
(* file, while the workspace changes, exchanges fail and processes die.    *)
(*                                                                         *)
(* The engine commits each page together with the work that is left, so a  *)
(* page is one step; its exchange may be answered from the response cache. *)
(* Pages of different resource types come in any order (--workers).  A     *)
(* page that is Unavailable is asked for again: a stutter.                 *)
(*                                                                         *)
(* mode "local" is the one-shot command: the file is packed when Sync      *)
(* fails and the next process resumes it; the cache dies with the process. *)
(* mode "service" runs C1's sync tasks: a failed sync's file is removed,   *)
(* but the process lives on, and with it the cache.                        *)
(***************************************************************************)
EXTENDS Notion, Integers

CONSTANTS
    PerPage,        \* entries on a full page (the code: 100)
    UserNames,      \* the address of each account
    Filters,        \* resource type selections in configurations and tasks; {} selects all
    Workspaces,     \* roles of the users at the start
    WorkspaceRoles, \* roles that users are given
    MaxFaults,      \* bound: syncs or pages that fail
    MaxMoves        \* bound: changes of the workspace

resourceTypes == {"user", "group", "role"}

(* The server sorts by id. *)
ASSUME IdsAssumption == Ids \subseteq Nat /\ IsFiniteSet(Ids) /\ Groups \subseteq Nat /\ IsFiniteSet(Groups)
ASSUME NamesAssumption == UserNames \in [Ids -> Emails]
ASSUME FiltersAssumption == Filters \subseteq SUBSET resourceTypes
ASSUME WorkspaceAssumption ==
    WorkspaceRoles \subseteq UserRole /\ Workspaces \subseteq [Ids -> UserRole \cup {Unused}]
ASSUME SyncBoundsAssumption == PerPage \in Nat \ {0} /\ MaxFaults \in Nat /\ MaxMoves \in Nat

VARIABLES
    groups,       \* ids of the groups that exist
    mode,         \* "local" or "service"
    connFilter,   \* selection in the connector's own configuration
    status,       \* of the current sync
    file,         \* the c1z the current sync writes
    saved,        \* local: the unfinished sync in the packed c1z, if any
    userPages,    \* cached answers to GET /Users
    groupPages,   \* cached answers to GET /Groups
    groupBodies,  \* cached answers to GET /Groups/{id}
    faults,
    moves,
    roleEver, roleAlways,     \* history: <<r, u>> once, resp. always true since the base
    memberEver, memberAlways  \* history: <<g, u>> likewise

workspace == <<store, groups>>
config    == <<mode, connFilter>>
caches    == <<userPages, groupPages, groupBodies>>
history   == <<roleEver, roleAlways, memberEver, memberAlways>>
vars      == <<workspace, config, status, file, saved, caches, faults, moves, history>>

Finished  == -1            \* no page left
NotListed == "not_listed"
Phase     == {"none", "resources", "entitlements", "grants", "sealed"}
Token     == Nat \cup {Finished}
Rows      == [Ids -> UserRole \cup {NotListed}]
UserPage  == [token : Nat, rows : Rows, next : Token]
GroupPage == [token : Nat, entries : SUBSET Groups, next : Token]
GroupBody == [id : Groups, members : SUBSET Ids]

File == [phase : Phase, types : SUBSET resourceTypes, cursor : [resourceTypes -> Token],
         users : Rows, groups : SUBSET Groups, roles : SUBSET supportedRoles,
         roleEnts : SUBSET supportedRoles, groupEnts : SUBSET Groups,
         userTodo : SUBSET Ids, groupTodo : SUBSET Groups,
         roleGrants : SUBSET (supportedRoles \X Ids), groupGrants : SUBSET (Groups \X Ids)]

(* Every variable keeps its shape; in particular no grant of a role that   *)
(* the connector does not list is ever written (user.go Grants).           *)
TypeOK ==
    /\ StoreTypeOK
    /\ groups \in SUBSET Groups
    /\ mode \in {"local", "service"}
    /\ connFilter \in Filters
    /\ status \in {"idle", "running", "failed", "sealed", "uncleared"}
    /\ file \in File /\ saved \in File
    /\ userPages \in SUBSET UserPage
    /\ groupPages \in SUBSET GroupPage
    /\ groupBodies \in SUBSET GroupBody
    /\ faults \in 0..MaxFaults /\ moves \in 0..MaxMoves
    /\ roleEver \in SUBSET (UserRole \X Ids) /\ roleAlways \in SUBSET (UserRole \X Ids)
    /\ memberEver \in SUBSET (Groups \X Ids) /\ memberAlways \in SUBSET (Groups \X Ids)

(* What is true of the workspace. *)
RoleFacts   == {f \in UserRole \X Ids : role[f[2]] = f[1]}
MemberFacts == {f \in Groups \X Ids : f[2] \in members[f[1]]}

EmptyFile ==
    [phase |-> "none", types |-> {}, cursor |-> [t \in resourceTypes |-> Finished],
     users |-> [u \in Ids |-> NotListed], groups |-> {}, roles |-> {},
     roleEnts |-> {}, groupEnts |-> {}, userTodo |-> {}, groupTodo |-> {},
     roleGrants |-> {}, groupGrants |-> {}]

Init ==
    /\ role \in Workspaces
    /\ userName = UserNames
    /\ groups = Groups
    /\ members = [g \in Groups |-> {u \in Ids : Present(u)}]
    /\ mode \in {"local", "service"}
    /\ connFilter \in Filters
    /\ status = "idle"
    /\ file = EmptyFile /\ saved = EmptyFile
    /\ userPages = {} /\ groupPages = {} /\ groupBodies = {}
    /\ faults = 0 /\ moves = 0
    /\ roleEver = RoleFacts /\ roleAlways = RoleFacts
    /\ memberEver = MemberFacts /\ memberAlways = MemberFacts

-----------------------------------------------------------------------------
(* A process starts (local) or a task arrives (service).                   *)

Resumable == saved.phase # "none"

WillSyncResourceType(selection, t) == selection = {} \/ t \in selection

(* A new file after its first page, SyncResourceTypes: the engine keeps    *)
(* the types that the sync selects and has each of them listed.            *)
SyncResourceTypes(selection) ==
    LET types == {t \in resourceTypes : WillSyncResourceType(selection, t)}
    IN  [EmptyFile EXCEPT !.phase = "resources", !.types = types,
           !.cursor = [t \in resourceTypes |-> IF t \in types THEN 0 ELSE Finished]]

(* The task's selection, or that of the configuration when it has none;    *)
(* the one-shot command has no task.                                       *)
Selections == IF mode = "local" THEN {connFilter} ELSE (Filters \ {{}}) \cup {connFilter}

(* The base of the histories moves to a sync that inherits neither a file  *)
(* nor a cache: not of a failed sync, nor of one whose Cleanup failed.     *)
Start ==
    /\ status # "running"
    /\ status' = "running"
    /\ file' \in IF Resumable THEN {saved} ELSE {SyncResourceTypes(f) : f \in Selections}
    /\ IF Resumable \/ status \in {"failed", "uncleared"}
       THEN UNCHANGED history
       ELSE /\ roleEver' = RoleFacts /\ roleAlways' = RoleFacts
            /\ memberEver' = MemberFacts /\ memberAlways' = MemberFacts
    /\ UNCHANGED <<workspace, config, saved, caches, faults, moves>>

Running(phase) == status = "running" /\ file.phase = phase

Write(newFile) ==
    /\ file' = newFile
    /\ UNCHANGED <<workspace, config, status, saved, faults, moves, history>>

-----------------------------------------------------------------------------
(* Listing.  A page number is 0 first and then the 1-based number of the   *)
(* next entry.                                                             *)

Rank(S, x) == Cardinality({y \in S : y <= x})

pageSlice(S, token) ==
    LET startIndex == IF token = 0 THEN 1 ELSE token
    IN  {x \in S : startIndex <= Rank(S, x) /\ Rank(S, x) < startIndex + PerPage}

(* Mutant: the token stays on a page that is not the last. *)
nextPageStays(S, token) ==
    IF token + Cardinality(pageSlice(S, token)) < Cardinality(S) THEN token ELSE Finished

nextPage(S, token) ==
    LET seen == token + Cardinality(pageSlice(S, token))
    IN  IF seen < Cardinality(S) THEN seen ELSE Finished

GetUsers(token) ==
    LET S == {u \in Ids : Present(u)}
    IN  [token |-> token, next |-> nextPage(S, token),
         rows |-> [u \in Ids |-> IF u \in pageSlice(S, token) THEN role[u] ELSE NotListed]]

GetGroups(token) ==
    [token |-> token, next |-> nextPage(groups, token), entries |-> pageSlice(groups, token)]

(* Do: the cached answer to the same request, or the server's when there   *)
(* is none.  An entry's hour may be over, or it may have been evicted, at  *)
(* any time: that shows here, when it is looked up.                        *)
CachedUsers(token)  == {p \in userPages : p.token = token}
CachedGroups(token) == {p \in groupPages : p.token = token}
CachedGroup(g)      == {b \in groupBodies : b.id = g}

(* The answer replaces the entry there was for the request.  One-shot: no  *)
(* request is made twice in a process, so nothing is kept.                 *)
Kept(cache, old, answer) == IF mode = "service" THEN (cache \ old) \cup {answer} ELSE cache

Pending(t) == Running("resources") /\ file.cursor[t] # Finished

(* A later page overwrites the row of an entry listed before; the row has  *)
(* the role stashed by parseIntoUserResource.                              *)
ListUsers ==
    /\ Pending("user")
    /\ \E page \in CachedUsers(file.cursor["user"]) \cup {GetUsers(file.cursor["user"])} :
          /\ Write([file EXCEPT !.cursor["user"] = page.next,
                      !.users = [u \in Ids |-> IF page.rows[u] # NotListed THEN page.rows[u] ELSE @[u]]])
          /\ userPages' = Kept(userPages, CachedUsers(page.token), page)
    /\ UNCHANGED <<groupPages, groupBodies>>

ListGroups ==
    /\ Pending("group")
    /\ \E page \in CachedGroups(file.cursor["group"]) \cup {GetGroups(file.cursor["group"])} :
          /\ Write([file EXCEPT !.cursor["group"] = page.next, !.groups = @ \cup page.entries])
          /\ groupPages' = Kept(groupPages, CachedGroups(page.token), page)
    /\ UNCHANGED <<userPages, groupBodies>>

ListRoles ==
    /\ Pending("role")
    /\ Write([file EXCEPT !.cursor["role"] = Finished, !.roles = supportedRoles])
    /\ UNCHANGED caches

(* A list request answered with 404 is a warning that ends the listing.    *)
PageMissing(t) ==
    /\ Pending(t)
    /\ faults < MaxFaults
    /\ faults' = faults + 1
    /\ file' = [file EXCEPT !.cursor[t] = Finished]
    /\ UNCHANGED <<workspace, config, status, saved, caches, moves, history>>

-----------------------------------------------------------------------------
(* Entitlements and grants.                                                *)

(* One entitlement per stored role and group; users have none. *)
SyncEntitlements ==
    /\ Running("resources")
    /\ \A t \in resourceTypes : file.cursor[t] = Finished
    /\ Write([file EXCEPT !.phase = "entitlements", !.roleEnts = file.roles, !.groupEnts = file.groups])
    /\ UNCHANGED caches

syncRoles == WillSyncResourceType(connFilter, "role")

(* Types whose annotations tell the engine not to ask for grants: role     *)
(* always (its grants come with the users), user when the connector        *)
(* believes that roles are not synced.                                     *)
SkipGrants == {"role"} \cup (IF syncRoles THEN {} ELSE {"user"})

PlanGrants ==
    /\ Running("entitlements")
    /\ Write([file EXCEPT !.phase = "grants", !.groupTodo = file.groups,
                !.userTodo = IF "user" \in SkipGrants THEN {} ELSE {u \in Ids : file.users[u] # NotListed}])
    /\ UNCHANGED caches

(* Mutant: references to types that are not synced are kept. *)
filterNothing(grants, t) == grants

(* Drops grants on, or to, resources of a type that is not in the file.    *)
filterFreshGrants(grants, t) == IF {t, "user"} \subseteq file.types THEN grants ELSE {}

(* Mutant: unknown tiers are not skipped. *)
UserGrantsUnchecked(u) == {<<file.users[u], u>>}

workspaceRoleFromResource(u) == file.users[u]

(* userBuilder.Grants: the stashed role, if the connector knows it. *)
UserGrants(u) ==
    IF workspaceRoleFromResource(u) \in supportedRoles THEN {<<workspaceRoleFromResource(u), u>>} ELSE {}

SyncUserGrants(u) ==
    /\ Running("grants") /\ u \in file.userTodo
    /\ Write([file EXCEPT !.userTodo = @ \ {u},
                !.roleGrants = @ \cup filterFreshGrants(UserGrants(u), "role")])
    /\ UNCHANGED caches

handleGetGroup(g) == IF g \in groups THEN {[id |-> g, members |-> members[g]]} ELSE {}

(* groupBuilder.Grants; a group that is gone is a warning. *)
GroupGrants(body) == {<<body.id, u>> : u \in body.members}

SyncGroupGrants(g) ==
    /\ Running("grants") /\ g \in file.groupTodo
    /\ \/ \E body \in CachedGroup(g) \cup handleGetGroup(g) :
             /\ Write([file EXCEPT !.groupTodo = @ \ {g},
                         !.groupGrants = @ \cup filterFreshGrants(GroupGrants(body), "group")])
             /\ groupBodies' = Kept(groupBodies, CachedGroup(g), body)
       \/ /\ handleGetGroup(g) = {}
          /\ Write([file EXCEPT !.groupTodo = @ \ {g}])
          /\ UNCHANGED groupBodies
    /\ UNCHANGED <<userPages, groupPages>>

-----------------------------------------------------------------------------
(* The end of a sync.                                                      *)

(* Mutant: the end of a sync leaves the caches alone. *)
KeepCaches == UNCHANGED caches

ClearCaches == userPages' = {} /\ groupPages' = {} /\ groupBodies' = {}

(* The Cleanup call after the seal.  Its failure is only logged: a task's  *)
(* sync is then complete with the caches as they were.  (The one-shot      *)
(* command's process ends, and its caches with it.)                        *)
Cleanup ==
    \/ status' = "sealed" /\ ClearCaches /\ UNCHANGED faults
    \/ /\ mode = "service" /\ faults < MaxFaults
       /\ faults' = faults + 1
       /\ status' = "uncleared"
       /\ UNCHANGED caches

(* The checks and writes before the seal - the invariant pass, the store's *)
(* own clean-up, the seal record - end the sync when they fail: see Fail.  *)
Seal ==
    /\ Running("grants")
    /\ file.userTodo = {} /\ file.groupTodo = {}
    /\ file' = [file EXCEPT !.phase = "sealed"]
    /\ saved' = EmptyFile
    /\ Cleanup
    /\ UNCHANGED <<workspace, config, moves, history>>

(* Mutants: the work left is lost; the listing starts over on top of the   *)
(* grants already written.                                                 *)
PackWithoutTodo == [file EXCEPT !.userTodo = {}, !.groupTodo = {}]
PackAtListing ==
    IF file.phase # "grants" THEN file
    ELSE [file EXCEPT !.phase = "resources", !.cursor["user"] = IF "user" \in file.types THEN 0 ELSE Finished]

(* Close packs what has been committed. *)
Pack == file

(* An exchange fails for good (a cached answer that cannot be decoded does *)
(* so until it expires), warnings are too many, or a step before the seal  *)
(* fails: Sync returns an error.                                           *)
Fail ==
    /\ status = "running"
    /\ faults < MaxFaults
    /\ faults' = faults + 1
    /\ status' = "failed"
    /\ saved' = IF mode = "local" THEN Pack ELSE saved
    /\ file' = EmptyFile
    /\ UNCHANGED <<workspace, config, caches, moves, history>>

(* The process dies: what was not packed is lost, and so is the cache.     *)
Crash ==
    /\ status \in {"running", "failed", "uncleared"}
    /\ faults < MaxFaults
    /\ faults' = faults + 1
    /\ status' = "idle"
    /\ file' = EmptyFile
    /\ ClearCaches
    /\ UNCHANGED <<workspace, config, saved, moves, history>>

-----------------------------------------------------------------------------
(* The workspace changes: roles and accounts as in Notion; group members   *)
(* are added and removed, and groups dropped.                              *)

CreateUser(u) == role[u] = Unused /\ handleCreateUser(u, userName[u])

ChangeMember(g, u) ==
    /\ g \in groups /\ Present(u)
    /\ members' = [members EXCEPT ![g] = IF u \in @ THEN @ \ {u} ELSE @ \cup {u}]
    /\ UNCHANGED <<role, userName, groups>>

RemoveGroup(g) ==
    /\ g \in groups
    /\ groups' = groups \ {g}
    /\ members' = [members EXCEPT ![g] = {}]
    /\ UNCHANGED <<role, userName>>

UserChange(u) ==
    /\ \/ \E r \in WorkspaceRoles : AdminSetRole(u, r)
       \/ AdminRemove(u)
       \/ AdminInviteBack(u)
       \/ CreateUser(u)
    /\ UNCHANGED groups

(* What changes after a sync was sealed and the caches cleared is not part *)
(* of its history, nor of the next one's.                                  *)
Observe ==
    IF status = "sealed" THEN UNCHANGED history
    ELSE /\ roleEver' = roleEver \cup RoleFacts' /\ roleAlways' = roleAlways \cap RoleFacts'
         /\ memberEver' = memberEver \cup MemberFacts' /\ memberAlways' = memberAlways \cap MemberFacts'

WorkspaceChange ==
    /\ moves < MaxMoves
    /\ moves' = moves + 1
    /\ \/ \E u \in Ids : UserChange(u)
       \/ \E g \in Groups, u \in Ids : ChangeMember(g, u)
       \/ \E g \in Groups : RemoveGroup(g)
    /\ Observe
    /\ UNCHANGED <<config, status, file, saved, caches, faults>>

EngineStep ==
    \/ ListUsers \/ ListGroups \/ ListRoles
    \/ SyncEntitlements \/ PlanGrants
    \/ \E u \in Ids : SyncUserGrants(u)
    \/ \E g \in Groups : SyncGroupGrants(g)
    \/ Seal

Fault == Fail \/ Crash \/ \E t \in {"user", "group"} : PageMissing(t)

Next == Start \/ EngineStep \/ Fault \/ WorkspaceChange

Spec == Init /\ [][Next]_vars

(* The engine goes on while it has work, and a server that is Unavailable  *)
(* answers in the end; nothing obliges anyone to start a sync.             *)
FairSpec == Spec /\ WF_vars(EngineStep)

-----------------------------------------------------------------------------
(***************************************************************************)
(* Properties.                                                             *)
(***************************************************************************)

Sealed == status \in {"sealed", "uncleared"}

(* Every grant in a sealed file was true at some moment since the base: no *)
(* page cached by an earlier, completed sync gets into a later one once it *)
(* was cleared (connectorbuilder.go:380), and neither the role stashed at  *)
(* List time (user.go:132) nor a resumed listing makes up a fact.          *)
FactsWereTrue ==
    Sealed => file.roleGrants \subseteq roleEver /\ file.groupGrants \subseteq memberEver

(* What is true all along of a listed user or group is in the sealed file, *)
(* however often the sync failed, crashed and was resumed and whatever     *)
(* else changed: no grant that is due is lost with a page, a cached answer *)
(* or the work left in a packed file.                                      *)
LastingFactsSynced ==
    Sealed /\ "user" \in file.types =>
        /\ "role" \in file.types /\ syncRoles =>
             \A f \in roleAlways : f[1] \in supportedRoles /\ file.users[f[2]] # NotListed
                                     => f \in file.roleGrants
        /\ \A f \in memberAlways : f[1] \in file.groups => f \in file.groupGrants

(* A file gives no user two workspace roles, although users are listed     *)
(* twice at page boundaries and a resumed sync reads roles that have       *)
(* changed: the roles are mutually exclusive (role.go:47-48).              *)
OneRolePerUser ==
    \A f, h \in file.roleGrants : f[2] = h[2] => f[1] = h[1]

(* A grant is on an entitlement in the file, and a role grant is to a user *)
(* in the file, whichever types the configuration and the task select      *)
(* (user.go:53-57: no "role grant that references a resource type the SDK  *)
(* never listed").                                                         *)
NoDanglingGrants ==
    /\ \A f \in file.roleGrants : f[1] \in file.roleEnts /\ file.users[f[2]] # NotListed
    /\ \A f \in file.groupGrants : f[1] \in file.groupEnts /\ "user" \in file.types

(* A sync that runs ends: sealed, failed or killed. *)
SyncEnds == status = "running" ~> status # "running"

(* The page numbers a listing of each type may go through. *)
Size == [user |-> Cardinality(Ids), group |-> Cardinality(Groups), role |-> 1]

Advances(new) ==
    \/ <<file.phase, new.phase>> \in {<<"resources", "entitlements">>, <<"entitlements", "grants">>}
    \/ /\ file.phase = "resources" /\ new.phase = "resources"
       /\ \E t \in resourceTypes :
             /\ file.cursor[t] # Finished
             /\ new.cursor[t] = Finished \/ new.cursor[t] \in (file.cursor[t] + 1)..(Size[t] - 1)
             /\ \A o \in resourceTypes \ {t} : new.cursor[o] = file.cursor[o]
    \/ /\ file.phase = "grants" /\ new.phase = "grants"
       /\ new.userTodo \subseteq file.userTodo /\ new.groupTodo \subseteq file.groupTodo
       /\ new.userTodo # file.userTodo \/ new.groupTodo # file.groupTodo

(* Why a sync ends: whatever is written to the file of a running sync goes *)
(* with less work left in it.  A listing goes on to a later page or is     *)
(* over, also when the page was cached by a sync over another directory;   *)
(* no listing is reopened, no phase repeated and no grant action added     *)
(* (ledger_page.go:88-151, parallel_syncer.go:138).                        *)
SyncAdvances == [][status = "running" /\ status' = "running" /\ file' # file => Advances(file')]_vars

-----------------------------------------------------------------------------
(* user.go:50-52: "when "role" IS being synced we set SkipEntitlements",   *)
(* so that Grants is called: a sealed sync with users and roles has the    *)
(* role grant of every listed user who has one.                            *)
RoleGrantsWhenSynced ==
    Sealed /\ {"user", "role"} \subseteq file.types =>
        \A u \in Ids : file.users[u] \in supportedRoles => <<file.users[u], u>> \in file.roleGrants
=============================================================================
