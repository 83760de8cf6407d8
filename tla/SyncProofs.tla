----------------------------- MODULE SyncProofs -----------------------------
(***************************************************************************)
(* Theorems about Sync, for any users, groups, page size, resource type    *)
(* selections, number of faults and number of workspace changes.           *)
(***************************************************************************)
EXTENDS Sync, FiniteSetTheorems, TLAPS

-----------------------------------------------------------------------------
(* Type correctness. *)

LEMMA NextPageType ==
    ASSUME NEW S, IsFiniteSet(S), NEW token \in Nat
    PROVE  nextPage(S, token) \in Token
<1>1. IsFiniteSet(pageSlice(S, token))
    BY FS_Subset DEF pageSlice
<1>2. Cardinality(S) \in Nat /\ Cardinality(pageSlice(S, token)) \in Nat
    BY <1>1, FS_CardinalityType
<1> QED BY <1>2 DEF nextPage, Token

LEMMA GetUsersType ==
    ASSUME StoreTypeOK, NEW token \in Nat
    PROVE  /\ GetUsers(token) \in UserPage
           /\ GetUsers(token).token = token
           /\ \A u \in Ids : GetUsers(token).rows[u] # NotListed =>
                 Present(u) /\ GetUsers(token).rows[u] = role[u]
<1> DEFINE S == {u \in Ids : Present(u)}
<1>1. IsFiniteSet(S)
    BY IdsAssumption, FS_Subset
<1>2. nextPage(S, token) \in Token
    BY <1>1, NextPageType
<1>3. \A u \in pageSlice(S, token) : Present(u) /\ role[u] \in UserRole
    BY DEF pageSlice, Present
<1> HIDE DEF S
<1> QED BY <1>2, <1>3 DEF GetUsers, UserPage, Rows, S

LEMMA GetGroupsType ==
    ASSUME groups \in SUBSET Groups, NEW token \in Nat
    PROVE  GetGroups(token) \in GroupPage
<1>1. IsFiniteSet(groups)
    BY IdsAssumption, FS_Subset
<1>2. nextPage(groups, token) \in Token
    BY <1>1, NextPageType
<1> QED BY <1>2 DEF GetGroups, GroupPage, pageSlice

LEMMA EmptyFileType == EmptyFile \in File
BY DEF EmptyFile, File, Phase, Rows, Token, Finished

LEMMA NewFileType ==
    ASSUME NEW f PROVE SyncResourceTypes(f) \in File
BY DEF SyncResourceTypes, EmptyFile, File, Phase, Rows, Token, Finished

LEMMA FactsType ==
    /\ RoleFacts \in SUBSET (UserRole \X Ids) /\ MemberFacts \in SUBSET (Groups \X Ids)
    /\ RoleFacts' \in SUBSET (UserRole \X Ids) /\ MemberFacts' \in SUBSET (Groups \X Ids)
BY DEF RoleFacts, MemberFacts

LEMMA InitType == Init => TypeOK
<1> SUFFICES ASSUME Init PROVE TypeOK
    OBVIOUS
<1>1. StoreTypeOK
    BY WorkspaceAssumption, NamesAssumption DEF Init, StoreTypeOK
<1> QED
    BY <1>1, EmptyFileType, FactsType, SyncBoundsAssumption DEF Init, TypeOK

LEMMA PendingToken ==
    ASSUME TypeOK, NEW t \in resourceTypes, Pending(t)
    PROVE  file.cursor[t] \in Nat
BY DEF TypeOK, Pending, Running, File, Token

(* A step of the engine that writes a file of the right shape. *)
LEMMA WriteType ==
    ASSUME TypeOK, NEW f \in File, Write(f),
           userPages' \in SUBSET UserPage, groupPages' \in SUBSET GroupPage,
           groupBodies' \in SUBSET GroupBody
    PROVE  TypeOK'
BY DEF TypeOK, StoreTypeOK, Write, workspace, config, history, store

LEMMA ListUsersType == ASSUME TypeOK, ListUsers PROVE TypeOK'
<1>1. PICK page \in CachedUsers(file.cursor["user"]) \cup {GetUsers(file.cursor["user"])} :
        /\ Write([file EXCEPT !.cursor["user"] = page.next,
                     !.users = [u \in Ids |-> IF page.rows[u] # NotListed THEN page.rows[u] ELSE @[u]]])
        /\ userPages' = Kept(userPages, CachedUsers(page.token), page)
    BY DEF ListUsers
<1>2. file.cursor["user"] \in Nat
    BY PendingToken DEF ListUsers, resourceTypes
<1>3. page \in UserPage
    BY <1>2, GetUsersType DEF TypeOK, CachedUsers
<1>4. userPages' \in SUBSET UserPage
    BY <1>1, <1>3 DEF Kept, TypeOK
<1> DEFINE f == [file EXCEPT !.cursor["user"] = page.next,
                   !.users = [u \in Ids |-> IF page.rows[u] # NotListed THEN page.rows[u] ELSE @[u]]]
<1>5. f \in File
  <2>1. page.next \in Token /\ page.rows \in Rows
      BY <1>3 DEF UserPage
  <2>2. file \in File
      BY DEF TypeOK
  <2>3. f.users \in Rows
      BY <2>1, <2>2 DEF Rows, File
  <2>4. f.cursor \in [resourceTypes -> Token]
      BY <2>1, <2>2 DEF File
  <2> QED BY <2>2, <2>3, <2>4 DEF File
<1>6. groupPages' \in SUBSET GroupPage /\ groupBodies' \in SUBSET GroupBody
    BY DEF ListUsers, TypeOK
<1> HIDE DEF f
<1> QED BY <1>1, <1>4, <1>5, <1>6, WriteType DEF f

LEMMA ListGroupsType == ASSUME TypeOK, ListGroups PROVE TypeOK'
<1>1. PICK page \in CachedGroups(file.cursor["group"]) \cup {GetGroups(file.cursor["group"])} :
        /\ Write([file EXCEPT !.cursor["group"] = page.next, !.groups = @ \cup page.entries])
        /\ groupPages' = Kept(groupPages, CachedGroups(page.token), page)
    BY DEF ListGroups
<1>2. file.cursor["group"] \in Nat
    BY PendingToken DEF ListGroups, resourceTypes
<1>3. page \in GroupPage
    BY <1>2, GetGroupsType DEF TypeOK, CachedGroups
<1>4. groupPages' \in SUBSET GroupPage
    BY <1>1, <1>3 DEF Kept, TypeOK
<1>5. [file EXCEPT !.cursor["group"] = page.next, !.groups = @ \cup page.entries] \in File
    BY <1>3 DEF TypeOK, File, GroupPage
<1>6. userPages' \in SUBSET UserPage /\ groupBodies' \in SUBSET GroupBody
    BY DEF ListGroups, TypeOK
<1> QED BY <1>1, <1>4, <1>5, <1>6, WriteType

LEMMA CachesKept ==
    ASSUME TypeOK, UNCHANGED caches
    PROVE  /\ userPages' \in SUBSET UserPage /\ groupPages' \in SUBSET GroupPage
           /\ groupBodies' \in SUBSET GroupBody
BY DEF TypeOK, caches

LEMMA ListRolesType == ASSUME TypeOK, ListRoles PROVE TypeOK'
<1>1. [file EXCEPT !.cursor["role"] = Finished, !.roles = supportedRoles] \in File
    BY DEF TypeOK, File, Token
<1> QED BY <1>1, WriteType, CachesKept DEF ListRoles

LEMMA SyncEntitlementsType == ASSUME TypeOK, SyncEntitlements PROVE TypeOK'
<1>1. [file EXCEPT !.phase = "entitlements", !.roleEnts = file.roles, !.groupEnts = file.groups] \in File
    BY DEF TypeOK, File, Phase
<1> QED BY <1>1, WriteType, CachesKept DEF SyncEntitlements

LEMMA PlanGrantsType == ASSUME TypeOK, PlanGrants PROVE TypeOK'
<1>1. [file EXCEPT !.phase = "grants", !.groupTodo = file.groups,
         !.userTodo = IF "user" \in SkipGrants THEN {} ELSE {u \in Ids : file.users[u] # NotListed}] \in File
    BY DEF TypeOK, File, Phase
<1> QED BY <1>1, WriteType, CachesKept DEF PlanGrants

LEMMA SyncUserGrantsType == ASSUME TypeOK, NEW u \in Ids, SyncUserGrants(u) PROVE TypeOK'
<1>1. filterFreshGrants(UserGrants(u), "role") \in SUBSET (supportedRoles \X Ids)
    BY DEF filterFreshGrants, UserGrants
<1>2. [file EXCEPT !.userTodo = @ \ {u},
         !.roleGrants = @ \cup filterFreshGrants(UserGrants(u), "role")] \in File
    BY <1>1 DEF TypeOK, File
<1> QED BY <1>2, WriteType, CachesKept DEF SyncUserGrants

LEMMA GroupBodyType ==
    ASSUME TypeOK, NEW g \in Groups, NEW body \in CachedGroup(g) \cup handleGetGroup(g)
    PROVE  body \in GroupBody /\ body.id = g
BY DEF TypeOK, StoreTypeOK, CachedGroup, handleGetGroup, GroupBody

LEMMA SyncGroupGrantsType == ASSUME TypeOK, NEW g \in Groups, SyncGroupGrants(g) PROVE TypeOK'
<1>1. userPages' \in SUBSET UserPage /\ groupPages' \in SUBSET GroupPage
    BY DEF SyncGroupGrants, TypeOK
<1>2. CASE \E body \in CachedGroup(g) \cup handleGetGroup(g) :
             /\ Write([file EXCEPT !.groupTodo = @ \ {g},
                         !.groupGrants = @ \cup filterFreshGrants(GroupGrants(body), "group")])
             /\ groupBodies' = Kept(groupBodies, CachedGroup(g), body)
  <2>1. PICK body \in CachedGroup(g) \cup handleGetGroup(g) :
             /\ Write([file EXCEPT !.groupTodo = @ \ {g},
                         !.groupGrants = @ \cup filterFreshGrants(GroupGrants(body), "group")])
             /\ groupBodies' = Kept(groupBodies, CachedGroup(g), body)
      BY <1>2
  <2>2. body \in GroupBody /\ body.id = g
      BY GroupBodyType
  <2>3. groupBodies' \in SUBSET GroupBody
      BY <2>1, <2>2 DEF Kept, TypeOK
  <2>4. filterFreshGrants(GroupGrants(body), "group") \in SUBSET (Groups \X Ids)
      BY <2>2 DEF filterFreshGrants, GroupGrants, GroupBody
  <2>5. [file EXCEPT !.groupTodo = @ \ {g},
           !.groupGrants = @ \cup filterFreshGrants(GroupGrants(body), "group")] \in File
      BY <2>4 DEF TypeOK, File
  <2> QED BY <1>1, <2>1, <2>3, <2>5, WriteType
<1>3. CASE Write([file EXCEPT !.groupTodo = @ \ {g}]) /\ UNCHANGED groupBodies
  <2>1. [file EXCEPT !.groupTodo = @ \ {g}] \in File
      BY DEF TypeOK, File
  <2> QED BY <1>1, <1>3, <2>1, WriteType DEF TypeOK
<1> QED BY <1>2, <1>3 DEF SyncGroupGrants

LEMMA SealType == ASSUME TypeOK, Seal PROVE TypeOK'
<1>1. file' \in File
    BY DEF Seal, TypeOK, File, Phase
<1> QED BY <1>1, EmptyFileType, SyncBoundsAssumption
    DEF Seal, Cleanup, ClearCaches, TypeOK, StoreTypeOK, workspace, config, history, store, caches

LEMMA StartType == ASSUME TypeOK, Start PROVE TypeOK'
<1>1. file' \in File
    BY NewFileType DEF Start, TypeOK
<1> QED BY <1>1, FactsType DEF Start, TypeOK, StoreTypeOK, workspace, config, history, store, caches

LEMMA FaultType == ASSUME TypeOK, Fault PROVE TypeOK'
<1>1. ASSUME Fail PROVE TypeOK'
    BY <1>1, EmptyFileType, SyncBoundsAssumption
    DEF Fail, Pack, TypeOK, StoreTypeOK, workspace, config, history, store, caches
<1>2. ASSUME Crash PROVE TypeOK'
    BY <1>2, EmptyFileType, SyncBoundsAssumption
    DEF Crash, ClearCaches, TypeOK, StoreTypeOK, workspace, config, history, store
<1>3. ASSUME NEW t \in {"user", "group"}, PageMissing(t) PROVE TypeOK'
  <2>1. file' \in File
      BY <1>3 DEF PageMissing, TypeOK, File, Token
  <2> QED BY <1>3, <2>1, SyncBoundsAssumption
      DEF PageMissing, TypeOK, StoreTypeOK, workspace, config, history, store, caches
<1> QED BY <1>1, <1>2, <1>3 DEF Fault

LEMMA ChangedStoreType ==
    ASSUME TypeOK, WorkspaceChange
    PROVE  StoreTypeOK' /\ groups' \in SUBSET Groups
<1> USE DEF TypeOK, StoreTypeOK
<1>1. ASSUME NEW u \in Ids, UserChange(u) PROVE StoreTypeOK' /\ groups' \in SUBSET Groups
  <2>1. ASSUME NEW r \in WorkspaceRoles, AdminSetRole(u, r) PROVE StoreTypeOK'
      BY <2>1, WorkspaceAssumption DEF AdminSetRole, setRole
  <2>2. ASSUME AdminRemove(u) PROVE StoreTypeOK'
      BY <2>2 DEF AdminRemove, handleDeleteUser, setRole, filterMembers
  <2>3. ASSUME AdminInviteBack(u) PROVE StoreTypeOK'
      BY <2>3 DEF AdminInviteBack, setRole, UserRole, supportedRoles
  <2>4. ASSUME CreateUser(u) PROVE StoreTypeOK'
      BY <2>4 DEF CreateUser, handleCreateUser, setRole, UserRole, supportedRoles
  <2> QED BY <1>1, <2>1, <2>2, <2>3, <2>4 DEF UserChange
<1>2. ASSUME NEW g \in Groups, NEW u \in Ids, ChangeMember(g, u)
      PROVE StoreTypeOK' /\ groups' \in SUBSET Groups
    BY <1>2 DEF ChangeMember
<1>3. ASSUME NEW g \in Groups, RemoveGroup(g)
      PROVE StoreTypeOK' /\ groups' \in SUBSET Groups
    BY <1>3 DEF RemoveGroup
<1> QED BY <1>1, <1>2, <1>3 DEF WorkspaceChange

LEMMA WorkspaceChangeType == ASSUME TypeOK, WorkspaceChange PROVE TypeOK'
<1>1. StoreTypeOK' /\ groups' \in SUBSET Groups
    BY ChangedStoreType
<1>2. /\ roleEver' \in SUBSET (UserRole \X Ids) /\ roleAlways' \in SUBSET (UserRole \X Ids)
      /\ memberEver' \in SUBSET (Groups \X Ids) /\ memberAlways' \in SUBSET (Groups \X Ids)
    BY FactsType DEF WorkspaceChange, Observe, TypeOK, history
<1> QED BY <1>1, <1>2, SyncBoundsAssumption DEF WorkspaceChange, TypeOK, config, caches

LEMMA NextType == ASSUME TypeOK, [Next]_vars PROVE TypeOK'
<1>1. CASE UNCHANGED vars
    BY <1>1 DEF vars, TypeOK, StoreTypeOK, workspace, config, history, store, caches
<1>2. CASE EngineStep
    BY <1>2, ListUsersType, ListGroupsType, ListRolesType, SyncEntitlementsType, PlanGrantsType,
       SyncUserGrantsType, SyncGroupGrantsType, SealType DEF EngineStep
<1> QED BY <1>1, <1>2, StartType, FaultType, WorkspaceChangeType DEF Next

(* Every variable of a sync keeps its shape; in particular a file never    *)
(* holds a grant of a role that roleBuilder.List does not list.            *)
THEOREM SyncTypeCorrect == Spec => []TypeOK
BY InitType, NextType, PTL DEF Spec

-----------------------------------------------------------------------------
(* The inductive invariant.  Its parts about one file take the histories   *)
(* as parameters: re, ra for roleEver and roleAlways, me, ma for           *)
(* memberEver and memberAlways; sr stands for syncRoles.                   *)

(* A role read of u: it was u's at some moment since the base, and any     *)
(* role u has had all along is that one.                                   *)
RowTrue(u, r, re, ra) ==
    /\ <<r, u>> \in re
    /\ \A q \in UserRole : <<q, u>> \in ra => q = r

RowsTrue(rows, re, ra) == \A u \in Ids : rows[u] # NotListed => RowTrue(u, rows[u], re, ra)

BodyTrue(g, ids, me, ma) ==
    \A u \in Ids : /\ u \in ids => <<g, u>> \in me
                   /\ <<g, u>> \in ma => u \in ids

(* Histories that are still being written agree with the workspace; groups *)
(* that are gone have no members.                                          *)
WorkspaceInv ==
    /\ \A g \in Groups : g \notin groups => members[g] = {}
    /\ status # "sealed" =>
         /\ RoleFacts \subseteq roleEver /\ roleAlways \subseteq RoleFacts
         /\ MemberFacts \subseteq memberEver /\ memberAlways \subseteq MemberFacts

CacheInv ==
    /\ \A p \in userPages : RowsTrue(p.rows, roleEver, roleAlways)
    /\ \A b \in groupBodies : BodyTrue(b.id, b.members, memberEver, memberAlways)
    /\ status \in {"idle", "sealed"} => userPages = {} /\ groupBodies = {}

Planned(f) == f.phase \in {"grants", "sealed"}

(* What has been written agrees with the phase the file is in. *)
FileShape(f) ==
    /\ f.phase \in {"none", "resources", "entitlements"} => f.roleGrants = {} /\ f.groupGrants = {}
    /\ f.roleGrants # {} => "role" \in f.types
    /\ "role" \in f.types /\ f.cursor["role"] = Finished => f.roles = supportedRoles
    /\ "group" \notin f.types => f.groups = {} /\ f.cursor["group"] = Finished
    /\ f.phase \in {"entitlements", "grants", "sealed"} =>
         f.roleEnts = f.roles /\ f.groupEnts = f.groups /\ f.cursor["role"] = Finished
    /\ f.phase = "grants" => f.groupTodo \subseteq f.groups
    /\ f.phase = "sealed" => f.userTodo = {} /\ f.groupTodo = {}

(* Role grants are those of the stashed rows; the rows that are not left   *)
(* to do have theirs.                                                      *)
RoleGrantsInv(f, sr) ==
    /\ \A r \in supportedRoles, u \in Ids : <<r, u>> \in f.roleGrants => f.users[u] = r
    /\ Planned(f) /\ sr /\ {"user", "role"} \subseteq f.types =>
         \A u \in Ids : f.users[u] \in supportedRoles /\ u \notin f.userTodo =>
                           <<f.users[u], u>> \in f.roleGrants

GroupGrantsInv(f, me, ma) ==
    /\ \A g \in Groups, u \in Ids : <<g, u>> \in f.groupGrants =>
          <<g, u>> \in me /\ g \in f.groups /\ "user" \in f.types
    /\ Planned(f) /\ "user" \in f.types =>
         \A g \in f.groups, u \in Ids : g \notin f.groupTodo /\ <<g, u>> \in ma =>
                           <<g, u>> \in f.groupGrants

FileInv(f, re, ra, me, ma, sr) ==
    RowsTrue(f.users, re, ra) /\ FileShape(f) /\ RoleGrantsInv(f, sr) /\ GroupGrantsInv(f, me, ma)

Sound(f) == FileInv(f, roleEver, roleAlways, memberEver, memberAlways, syncRoles)

(* Only an unfinished sync can be resumed, and none once it is sealed. *)
SavedInv ==
    /\ Sound(saved)
    /\ saved.phase = "none" => saved = EmptyFile
    /\ saved.phase # "sealed"
    /\ Sealed => saved = EmptyFile

CurrentInv ==
    /\ Sound(file)
    /\ Sealed => file.phase = "sealed"
    /\ status = "running" => file.phase \in {"resources", "entitlements", "grants"}

SyncInv == TypeOK /\ WorkspaceInv /\ CacheInv /\ SavedInv /\ CurrentInv

-----------------------------------------------------------------------------
(* Files. *)

LEMMA EmptyFileSound ==
    ASSUME NEW re, NEW ra, NEW me, NEW ma, NEW sr
    PROVE  FileInv(EmptyFile, re, ra, me, ma, sr)
BY DEF EmptyFile, FileInv, RowsTrue, FileShape, RoleGrantsInv, GroupGrantsInv, Planned, resourceTypes

LEMMA NewFileSound ==
    ASSUME NEW re, NEW ra, NEW me, NEW ma, NEW sr, NEW selection
    PROVE  /\ FileInv(SyncResourceTypes(selection), re, ra, me, ma, sr)
           /\ SyncResourceTypes(selection).phase = "resources"
<1> DEFINE types == {t \in resourceTypes : WillSyncResourceType(selection, t)}
           f == SyncResourceTypes(selection)
<1>1. /\ f.phase = "resources" /\ f.types = types
      /\ f.cursor = [t \in resourceTypes |-> IF t \in types THEN 0 ELSE Finished]
      /\ f.users = [u \in Ids |-> NotListed] /\ f.groups = {} /\ f.roles = {}
      /\ f.roleGrants = {} /\ f.groupGrants = {}
    BY DEF SyncResourceTypes, EmptyFile
<1>2. "role" \in resourceTypes /\ "group" \in resourceTypes /\ 0 # Finished
    BY DEF resourceTypes, Finished
<1> HIDE DEF f, types
<1>3. RowsTrue(f.users, re, ra)
    BY <1>1 DEF RowsTrue
<1>4. FileShape(f)
    BY <1>1, <1>2 DEF FileShape
<1>5. RoleGrantsInv(f, sr) /\ GroupGrantsInv(f, me, ma)
    BY <1>1 DEF RoleGrantsInv, GroupGrantsInv, Planned
<1> QED BY <1>1, <1>3, <1>4, <1>5 DEF FileInv, f

(* The histories grow and the lasting facts become fewer. *)
LEMMA FileStaysSound ==
    ASSUME NEW f, NEW sr, NEW re, NEW ra, NEW me, NEW ma, NEW re2, NEW ra2, NEW me2, NEW ma2,
           FileInv(f, re, ra, me, ma, sr),
           re \subseteq re2, ra2 \subseteq ra, me \subseteq me2, ma2 \subseteq ma
    PROVE  FileInv(f, re2, ra2, me2, ma2, sr)
BY DEF FileInv, RowsTrue, RowTrue, RoleGrantsInv, GroupGrantsInv

LEMMA RowsStayTrue ==
    ASSUME NEW rows, NEW re, NEW ra, NEW re2, NEW ra2,
           RowsTrue(rows, re, ra), re \subseteq re2, ra2 \subseteq ra
    PROVE  RowsTrue(rows, re2, ra2)
BY DEF RowsTrue, RowTrue

LEMMA BodyStaysTrue ==
    ASSUME NEW g, NEW ids, NEW me, NEW ma, NEW me2, NEW ma2,
           BodyTrue(g, ids, me, ma), me \subseteq me2, ma2 \subseteq ma
    PROVE  BodyTrue(g, ids, me2, ma2)
BY DEF BodyTrue

-----------------------------------------------------------------------------
(* Steps of the engine. *)

SoundCaches ==
    /\ \A p \in userPages' : RowsTrue(p.rows, roleEver, roleAlways)
    /\ \A b \in groupBodies' : BodyTrue(b.id, b.members, memberEver, memberAlways)

LEMMA WriteKeeps ==
    ASSUME SyncInv, TypeOK', status = "running", NEW f, Write(f), Sound(f),
           f.phase \in {"resources", "entitlements", "grants"}, SoundCaches
    PROVE  SyncInv'
<1>1. /\ UNCHANGED <<role, userName, members, groups, connFilter, status, saved>>
      /\ UNCHANGED <<roleEver, roleAlways, memberEver, memberAlways>>
      /\ file' = f
    BY DEF Write, workspace, config, history, store
<1>2. RoleFacts' = RoleFacts /\ MemberFacts' = MemberFacts /\ syncRoles' = syncRoles
    BY <1>1 DEF RoleFacts, MemberFacts, syncRoles
<1>3. WorkspaceInv'
    BY <1>1, <1>2 DEF SyncInv, WorkspaceInv
<1>4. CacheInv'
    BY <1>1 DEF SoundCaches, CacheInv
<1>5. SavedInv'
    BY <1>1, <1>2 DEF SyncInv, SavedInv, Sealed, Sound
<1>6. CurrentInv'
    BY <1>1, <1>2 DEF CurrentInv, Sealed, Sound
<1> QED BY <1>3, <1>4, <1>5, <1>6 DEF SyncInv

LEMMA SameCachesSound ==
    ASSUME SyncInv, UNCHANGED <<userPages, groupBodies>>
    PROVE  SoundCaches
BY DEF SyncInv, CacheInv, SoundCaches

LEMMA FreshRowsTrue ==
    ASSUME SyncInv, status = "running", NEW token \in Nat
    PROVE  RowsTrue(GetUsers(token).rows, roleEver, roleAlways)
<1> DEFINE rows == GetUsers(token).rows
<1>1. \A u \in Ids : rows[u] # NotListed => role[u] \in UserRole /\ rows[u] = role[u]
    BY GetUsersType DEF SyncInv, TypeOK, Present
<1>2. RoleFacts \subseteq roleEver /\ roleAlways \subseteq RoleFacts
    BY DEF SyncInv, WorkspaceInv
<1>3. ASSUME NEW u \in Ids, rows[u] # NotListed PROVE RowTrue(u, rows[u], roleEver, roleAlways)
  <2>1. <<role[u], u>> \in RoleFacts
      BY <1>1, <1>3 DEF RoleFacts
  <2>2. \A q \in UserRole : <<q, u>> \in RoleFacts => q = role[u]
      BY DEF RoleFacts
  <2> QED BY <1>1, <1>2, <1>3, <2>1, <2>2 DEF RowTrue
<1> QED BY <1>3 DEF RowsTrue

LEMMA ListUsersKeeps == ASSUME SyncInv, TypeOK', ListUsers PROVE SyncInv'
<1>1. PICK page \in CachedUsers(file.cursor["user"]) \cup {GetUsers(file.cursor["user"])} :
        /\ Write([file EXCEPT !.cursor["user"] = page.next,
                     !.users = [u \in Ids |-> IF page.rows[u] # NotListed THEN page.rows[u] ELSE @[u]]])
        /\ userPages' = Kept(userPages, CachedUsers(page.token), page)
    BY DEF ListUsers
<1>2. status = "running" /\ file.phase = "resources" /\ file \in File
    BY DEF ListUsers, Pending, Running, SyncInv, TypeOK
<1>3. file.cursor["user"] \in Nat
    BY PendingToken DEF ListUsers, resourceTypes, SyncInv
<1>4. RowsTrue(page.rows, roleEver, roleAlways)
    BY <1>2, <1>3, FreshRowsTrue DEF SyncInv, CacheInv, CachedUsers
<1>5. SoundCaches
    BY <1>1, <1>4 DEF ListUsers, SyncInv, CacheInv, SoundCaches, Kept
<1> DEFINE f == [file EXCEPT !.cursor["user"] = page.next,
                   !.users = [u \in Ids |-> IF page.rows[u] # NotListed THEN page.rows[u] ELSE @[u]]]
<1>6. /\ f.phase = "resources" /\ f.types = file.types /\ f.groups = file.groups /\ f.roles = file.roles
      /\ f.roleGrants = file.roleGrants /\ f.groupGrants = file.groupGrants
      /\ f.users = [u \in Ids |-> IF page.rows[u] # NotListed THEN page.rows[u] ELSE file.users[u]]
      /\ f.cursor["role"] = file.cursor["role"] /\ f.cursor["group"] = file.cursor["group"]
    BY <1>2 DEF File
<1>7. Sound(file)
    BY DEF SyncInv, CurrentInv
<1> HIDE DEF f
<1>8. RowsTrue(f.users, roleEver, roleAlways)
    BY <1>4, <1>6, <1>7 DEF Sound, FileInv, RowsTrue
<1>9. FileShape(f) /\ RoleGrantsInv(f, syncRoles) /\ GroupGrantsInv(f, memberEver, memberAlways)
    BY <1>2, <1>6, <1>7 DEF Sound, FileInv, FileShape, RoleGrantsInv, GroupGrantsInv, Planned
<1> QED BY <1>1, <1>2, <1>5, <1>6, <1>8, <1>9, WriteKeeps DEF Sound, FileInv, f

LEMMA ListGroupsKeeps == ASSUME SyncInv, TypeOK', ListGroups PROVE SyncInv'
<1>1. PICK page \in CachedGroups(file.cursor["group"]) \cup {GetGroups(file.cursor["group"])} :
        Write([file EXCEPT !.cursor["group"] = page.next, !.groups = @ \cup page.entries])
    BY DEF ListGroups
<1>2. status = "running" /\ file.phase = "resources" /\ file \in File /\ file.cursor["group"] # Finished
    BY DEF ListGroups, Pending, Running, SyncInv, TypeOK
<1>3. SoundCaches
    BY SameCachesSound DEF ListGroups
<1> DEFINE f == [file EXCEPT !.cursor["group"] = page.next, !.groups = @ \cup page.entries]
<1>4. /\ f.phase = "resources" /\ f.types = file.types /\ f.roles = file.roles /\ f.users = file.users
      /\ f.roleGrants = file.roleGrants /\ f.groupGrants = file.groupGrants
      /\ f.cursor["role"] = file.cursor["role"]
    BY <1>2 DEF File
<1>5. Sound(file)
    BY DEF SyncInv, CurrentInv
<1> HIDE DEF f
<1>6. Sound(f)
    BY <1>2, <1>4, <1>5 DEF Sound, FileInv, FileShape, RoleGrantsInv, GroupGrantsInv, Planned
<1> QED BY <1>1, <1>2, <1>3, <1>4, <1>6, WriteKeeps DEF f

LEMMA ListRolesKeeps == ASSUME SyncInv, TypeOK', ListRoles PROVE SyncInv'
<1> DEFINE f == [file EXCEPT !.cursor["role"] = Finished, !.roles = supportedRoles]
<1>1. status = "running" /\ file.phase = "resources" /\ file \in File /\ Write(f)
    BY DEF ListRoles, Pending, Running, SyncInv, TypeOK
<1>2. SoundCaches
    BY SameCachesSound DEF ListRoles, caches
<1>3. /\ f.phase = "resources" /\ f.types = file.types /\ f.roles = supportedRoles /\ f.users = file.users
      /\ f.groups = file.groups /\ f.roleGrants = file.roleGrants /\ f.groupGrants = file.groupGrants
      /\ f.cursor["group"] = file.cursor["group"]
    BY <1>1 DEF File
<1>4. Sound(file)
    BY DEF SyncInv, CurrentInv
<1> HIDE DEF f
<1>5. Sound(f)
    BY <1>1, <1>3, <1>4 DEF Sound, FileInv, FileShape, RoleGrantsInv, GroupGrantsInv, Planned
<1> QED BY <1>1, <1>2, <1>3, <1>5, WriteKeeps

LEMMA SyncEntitlementsKeeps == ASSUME SyncInv, TypeOK', SyncEntitlements PROVE SyncInv'
<1> DEFINE f == [file EXCEPT !.phase = "entitlements", !.roleEnts = file.roles, !.groupEnts = file.groups]
<1>1. /\ status = "running" /\ file.phase = "resources" /\ file \in File /\ Write(f)
      /\ file.cursor["role"] = Finished
    BY DEF SyncEntitlements, Running, SyncInv, TypeOK, resourceTypes
<1>2. SoundCaches
    BY SameCachesSound DEF SyncEntitlements, caches
<1>3. /\ f.phase = "entitlements" /\ f.types = file.types /\ f.roles = file.roles /\ f.users = file.users
      /\ f.groups = file.groups /\ f.roleGrants = file.roleGrants /\ f.groupGrants = file.groupGrants
      /\ f.cursor = file.cursor /\ f.roleEnts = file.roles /\ f.groupEnts = file.groups
    BY <1>1 DEF File
<1>4. Sound(file)
    BY DEF SyncInv, CurrentInv
<1> HIDE DEF f
<1>5. Sound(f)
    BY <1>1, <1>3, <1>4 DEF Sound, FileInv, FileShape, RoleGrantsInv, GroupGrantsInv, Planned
<1> QED BY <1>1, <1>2, <1>3, <1>5, WriteKeeps

LEMMA PlanGrantsKeeps == ASSUME SyncInv, TypeOK', PlanGrants PROVE SyncInv'
<1> DEFINE f == [file EXCEPT !.phase = "grants", !.groupTodo = file.groups,
                   !.userTodo = IF "user" \in SkipGrants THEN {} ELSE {u \in Ids : file.users[u] # NotListed}]
<1>1. status = "running" /\ file.phase = "entitlements" /\ file \in File /\ Write(f)
    BY DEF PlanGrants, Running, SyncInv, TypeOK
<1>2. SoundCaches
    BY SameCachesSound DEF PlanGrants, caches
<1>3. /\ f.phase = "grants" /\ f.types = file.types /\ f.roles = file.roles /\ f.users = file.users
      /\ f.groups = file.groups /\ f.roleGrants = file.roleGrants /\ f.groupGrants = file.groupGrants
      /\ f.cursor = file.cursor /\ f.roleEnts = file.roleEnts /\ f.groupEnts = file.groupEnts
      /\ f.groupTodo = file.groups
      /\ syncRoles => f.userTodo = {u \in Ids : file.users[u] # NotListed}
    BY <1>1 DEF File, SkipGrants
<1>4. Sound(file)
    BY DEF SyncInv, CurrentInv
<1>5. NotListed \notin supportedRoles
    BY DEF NotListed, supportedRoles, RoleOwner, RoleMember, RoleMembershipAdmin, RoleRestrictedMember
<1> HIDE DEF f
<1>6. Sound(f)
    BY <1>1, <1>3, <1>4, <1>5 DEF Sound, FileInv, FileShape, RoleGrantsInv, GroupGrantsInv, Planned
<1> QED BY <1>1, <1>2, <1>3, <1>6, WriteKeeps

LEMMA SyncUserGrantsKeeps == ASSUME SyncInv, TypeOK', NEW v \in Ids, SyncUserGrants(v) PROVE SyncInv'
<1> DEFINE new == filterFreshGrants(UserGrants(v), "role")
           f == [file EXCEPT !.userTodo = @ \ {v}, !.roleGrants = @ \cup new]
<1>1. status = "running" /\ file.phase = "grants" /\ file \in File /\ Write(f)
    BY DEF SyncUserGrants, Running, SyncInv, TypeOK
<1>2. SoundCaches
    BY SameCachesSound DEF SyncUserGrants, caches
<1>3. /\ \A x \in new : x = <<file.users[v], v>> /\ "role" \in file.types
      /\ {"user", "role"} \subseteq file.types /\ file.users[v] \in supportedRoles => <<file.users[v], v>> \in new
    BY DEF filterFreshGrants, UserGrants, workspaceRoleFromResource
<1> HIDE DEF new
<1>4. /\ f.phase = "grants" /\ f.types = file.types /\ f.roles = file.roles /\ f.users = file.users
      /\ f.groups = file.groups /\ f.roleGrants = file.roleGrants \cup new
      /\ f.groupGrants = file.groupGrants /\ f.cursor = file.cursor
      /\ f.roleEnts = file.roleEnts /\ f.groupEnts = file.groupEnts
      /\ f.groupTodo = file.groupTodo /\ f.userTodo = file.userTodo \ {v}
    BY <1>1 DEF File
<1>5. Sound(file)
    BY DEF SyncInv, CurrentInv
<1> HIDE DEF f
<1>6. RowsTrue(f.users, roleEver, roleAlways) /\ GroupGrantsInv(f, memberEver, memberAlways)
    BY <1>4, <1>5, <1>1 DEF Sound, FileInv, GroupGrantsInv, Planned
<1>7. FileShape(f)
    BY <1>1, <1>3, <1>4, <1>5 DEF Sound, FileInv, FileShape
<1>8. RoleGrantsInv(f, syncRoles)
  <2>1. ASSUME NEW r \in supportedRoles, NEW u \in Ids, <<r, u>> \in f.roleGrants PROVE f.users[u] = r
    <3>1. CASE <<r, u>> \in file.roleGrants
        BY <1>4, <1>5, <3>1 DEF Sound, FileInv, RoleGrantsInv
    <3>2. CASE <<r, u>> \in new
        BY <1>3, <1>4, <3>2
    <3> QED BY <1>4, <2>1, <3>1, <3>2
  <2>2. ASSUME syncRoles, {"user", "role"} \subseteq f.types, NEW u \in Ids,
               f.users[u] \in supportedRoles, u \notin f.userTodo
        PROVE  <<f.users[u], u>> \in f.roleGrants
    <3>1. CASE u = v
        BY <1>3, <1>4, <2>2, <3>1
    <3>2. CASE u # v
        BY <1>1, <1>4, <1>5, <2>2, <3>2 DEF Sound, FileInv, RoleGrantsInv, Planned
    <3> QED BY <3>1, <3>2
  <2> QED BY <2>1, <2>2 DEF RoleGrantsInv
<1> QED BY <1>1, <1>2, <1>4, <1>6, <1>7, <1>8, WriteKeeps DEF Sound, FileInv

LEMMA FreshBodyTrue ==
    ASSUME SyncInv, status = "running", NEW g \in Groups
    PROVE  BodyTrue(g, members[g], memberEver, memberAlways)
<1>1. MemberFacts \subseteq memberEver /\ memberAlways \subseteq MemberFacts
    BY DEF SyncInv, WorkspaceInv
<1>2. \A u \in Ids : <<g, u>> \in MemberFacts <=> u \in members[g]
    BY DEF MemberFacts
<1> QED BY <1>1, <1>2 DEF BodyTrue

(* A group's grants are written, or skipped because the group is gone: new *)
(* are the grants written, of the members ids.                             *)
LEMMA GroupDone ==
    ASSUME SyncInv, status = "running", file.phase = "grants", NEW g \in file.groupTodo, g \in Groups,
           NEW new, NEW ids, BodyTrue(g, ids, memberEver, memberAlways), ids \subseteq Ids,
           new = IF {"group", "user"} \subseteq file.types THEN {<<g, u>> : u \in ids} ELSE {}
    PROVE  Sound([file EXCEPT !.groupTodo = @ \ {g}, !.groupGrants = @ \cup new])
<1> DEFINE f == [file EXCEPT !.groupTodo = @ \ {g}, !.groupGrants = @ \cup new]
<1>1. file \in File /\ Sound(file)
    BY DEF SyncInv, TypeOK, CurrentInv
<1>2. g \in file.groups /\ "group" \in file.types
    BY <1>1 DEF Sound, FileInv, FileShape
<1>3. /\ \A x \in new : "user" \in file.types /\ \E u \in ids : x = <<g, u>>
      /\ "user" \in file.types => \A u \in ids : <<g, u>> \in new
    BY <1>2
<1>4. /\ f.phase = "grants" /\ f.types = file.types /\ f.roles = file.roles /\ f.users = file.users
      /\ f.groups = file.groups /\ f.roleGrants = file.roleGrants
      /\ f.groupGrants = file.groupGrants \cup new /\ f.cursor = file.cursor
      /\ f.roleEnts = file.roleEnts /\ f.groupEnts = file.groupEnts
      /\ f.groupTodo = file.groupTodo \ {g} /\ f.userTodo = file.userTodo
    BY <1>1 DEF File
<1> HIDE DEF f
<1>5. RowsTrue(f.users, roleEver, roleAlways) /\ FileShape(f) /\ RoleGrantsInv(f, syncRoles)
    BY <1>1, <1>4 DEF Sound, FileInv, FileShape, RoleGrantsInv, Planned
<1>6. ASSUME NEW h \in Groups, NEW u \in Ids, <<h, u>> \in f.groupGrants
      PROVE  <<h, u>> \in memberEver /\ h \in f.groups /\ "user" \in f.types
  <2>1. CASE <<h, u>> \in file.groupGrants
      BY <1>1, <1>4, <2>1 DEF Sound, FileInv, GroupGrantsInv
  <2>2. CASE <<h, u>> \in new
    <3>1. "user" \in file.types /\ h = g /\ u \in ids
        BY <1>3, <2>2
    <3> QED BY <1>2, <1>4, <3>1 DEF BodyTrue
  <2> QED BY <1>4, <1>6, <2>1, <2>2
<1>7. ASSUME "user" \in f.types, NEW h \in f.groups, NEW u \in Ids, h \notin f.groupTodo, <<h, u>> \in memberAlways
      PROVE  <<h, u>> \in f.groupGrants
  <2>1. CASE h = g
    <3>1. u \in ids
        BY <1>7, <2>1 DEF BodyTrue
    <3> QED BY <1>3, <1>4, <1>7, <2>1, <3>1
  <2>2. CASE h # g
      BY <1>1, <1>4, <1>7, <2>2 DEF Sound, FileInv, GroupGrantsInv, Planned
  <2> QED BY <2>1, <2>2
<1>8. GroupGrantsInv(f, memberEver, memberAlways)
    BY <1>6, <1>7 DEF GroupGrantsInv
<1> QED BY <1>5, <1>8 DEF Sound, FileInv, f

LEMMA SyncGroupGrantsKeeps == ASSUME SyncInv, TypeOK', NEW g \in Groups, SyncGroupGrants(g) PROVE SyncInv'
<1>1. status = "running" /\ file.phase = "grants" /\ g \in file.groupTodo /\ file \in File
    BY DEF SyncGroupGrants, Running, SyncInv, TypeOK
<1>2. UNCHANGED userPages
    BY DEF SyncGroupGrants
<1>3. CASE \E body \in CachedGroup(g) \cup handleGetGroup(g) :
             /\ Write([file EXCEPT !.groupTodo = @ \ {g},
                         !.groupGrants = @ \cup filterFreshGrants(GroupGrants(body), "group")])
             /\ groupBodies' = Kept(groupBodies, CachedGroup(g), body)
  <2>1. PICK body \in CachedGroup(g) \cup handleGetGroup(g) :
             /\ Write([file EXCEPT !.groupTodo = @ \ {g},
                         !.groupGrants = @ \cup filterFreshGrants(GroupGrants(body), "group")])
             /\ groupBodies' = Kept(groupBodies, CachedGroup(g), body)
      BY <1>3
  <2>2. body \in GroupBody /\ body.id = g
      BY GroupBodyType DEF SyncInv
  <2>3. BodyTrue(g, body.members, memberEver, memberAlways)
      BY <1>1, <2>2, FreshBodyTrue DEF CachedGroup, handleGetGroup, SyncInv, CacheInv
  <2>4. SoundCaches
      BY <1>2, <2>1, <2>2, <2>3 DEF SyncInv, CacheInv, SoundCaches, Kept
  <2> DEFINE new == filterFreshGrants(GroupGrants(body), "group")
             f == [file EXCEPT !.groupTodo = @ \ {g}, !.groupGrants = @ \cup new]
  <2>5. new = IF {"group", "user"} \subseteq file.types THEN {<<g, u>> : u \in body.members} ELSE {}
      BY <2>2 DEF filterFreshGrants, GroupGrants
  <2>6. body.members \subseteq Ids
      BY <2>2 DEF GroupBody
  <2>7. Write(f)
      BY <2>1
  <2> HIDE DEF new
  <2>8. Sound(f)
      BY <1>1, <2>3, <2>5, <2>6, GroupDone
  <2>9. f.phase = "grants"
      BY <1>1 DEF File
  <2> HIDE DEF f
  <2> QED BY <1>1, <2>4, <2>7, <2>8, <2>9, WriteKeeps
<1>4. CASE handleGetGroup(g) = {} /\ Write([file EXCEPT !.groupTodo = @ \ {g}]) /\ UNCHANGED groupBodies
  <2>1. members[g] = {}
      BY <1>4 DEF handleGetGroup, SyncInv, WorkspaceInv
  <2>2. BodyTrue(g, {}, memberEver, memberAlways)
      BY <1>1, <2>1, FreshBodyTrue
  <2> DEFINE new == IF {"group", "user"} \subseteq file.types THEN {<<g, u>> : u \in {}} ELSE {}
             f == [file EXCEPT !.groupTodo = @ \ {g}, !.groupGrants = @ \cup new]
  <2>3. new = {} /\ new = IF {"group", "user"} \subseteq file.types THEN {<<g, u>> : u \in {}} ELSE {}
      OBVIOUS
  <2> HIDE DEF new
  <2>4. Sound(f)
      BY <1>1, <2>2, <2>3, GroupDone
  <2>5. f = [file EXCEPT !.groupTodo = @ \ {g}]
      BY <1>1, <2>3 DEF File
  <2>6. f.phase = "grants"
      BY <1>1 DEF File
  <2>7. SoundCaches
      BY <1>2, <1>4, SameCachesSound
  <2> HIDE DEF f
  <2> QED BY <1>1, <1>4, <2>4, <2>5, <2>6, <2>7, WriteKeeps
<1> QED BY <1>3, <1>4 DEF SyncGroupGrants

LEMMA SealKeeps == ASSUME SyncInv, TypeOK', Seal PROVE SyncInv'
<1>1. /\ UNCHANGED <<role, userName, members, groups, connFilter>>
      /\ UNCHANGED <<roleEver, roleAlways, memberEver, memberAlways>>
      /\ status = "running" /\ saved' = EmptyFile
      /\ \/ status' = "sealed" /\ userPages' = {} /\ groupBodies' = {}
         \/ status' = "uncleared" /\ UNCHANGED <<userPages, groupBodies>>
    BY DEF Seal, Running, Cleanup, ClearCaches, workspace, config, history, store, caches
<1>2. syncRoles' = syncRoles
    BY <1>1 DEF syncRoles
<1>3. file \in File /\ Sound(file) /\ file.phase = "grants" /\ file.userTodo = {} /\ file.groupTodo = {}
    BY DEF SyncInv, TypeOK, CurrentInv, Seal, Running
<1> DEFINE f == [file EXCEPT !.phase = "sealed"]
<1>4. /\ f.phase = "sealed" /\ f.types = file.types /\ f.roles = file.roles /\ f.users = file.users
      /\ f.groups = file.groups /\ f.roleGrants = file.roleGrants
      /\ f.groupGrants = file.groupGrants /\ f.cursor = file.cursor
      /\ f.roleEnts = file.roleEnts /\ f.groupEnts = file.groupEnts
      /\ f.groupTodo = {} /\ f.userTodo = {}
    BY <1>3 DEF File
<1>5. file' = f
    BY DEF Seal
<1> HIDE DEF f
<1>6. Sound(f)
    BY <1>3, <1>4 DEF Sound, FileInv, FileShape, RoleGrantsInv, GroupGrantsInv, Planned
<1>7. CurrentInv'
    BY <1>1, <1>2, <1>4, <1>5, <1>6 DEF CurrentInv, Sound
<1>8. SavedInv'
    BY <1>1, EmptyFileSound DEF SavedInv, Sound, EmptyFile
<1>9. RoleFacts' = RoleFacts /\ MemberFacts' = MemberFacts
    BY <1>1 DEF RoleFacts, MemberFacts
<1>10. WorkspaceInv' /\ CacheInv'
    BY <1>1, <1>9 DEF SyncInv, WorkspaceInv, CacheInv
<1> QED BY <1>7, <1>8, <1>10 DEF SyncInv

-----------------------------------------------------------------------------
(* Starts, faults and changes of the workspace. *)

LEMMA StartKeeps == ASSUME SyncInv, TypeOK', Start PROVE SyncInv'
<1>1. /\ UNCHANGED <<role, userName, members, groups, connFilter, saved, userPages, groupBodies>>
      /\ status # "running" /\ status' = "running"
      /\ RoleFacts' = RoleFacts /\ MemberFacts' = MemberFacts /\ syncRoles' = syncRoles
    BY DEF Start, workspace, config, caches, store, RoleFacts, MemberFacts, syncRoles
<1>2. CASE Resumable
  <2>1. /\ UNCHANGED <<roleEver, roleAlways, memberEver, memberAlways>> /\ file' = saved
        /\ status # "sealed" /\ saved.phase \in {"resources", "entitlements", "grants"}
      BY <1>2 DEF Start, history, SyncInv, SavedInv, Sealed, Resumable, EmptyFile, TypeOK, File, Phase
  <2>2. WorkspaceInv' /\ CacheInv'
      BY <1>1, <2>1 DEF SyncInv, WorkspaceInv, CacheInv
  <2>3. Sound(saved)'
      BY <1>1, <2>1 DEF SyncInv, SavedInv, Sound
  <2>4. SavedInv' /\ CurrentInv'
      BY <1>1, <2>1, <2>3 DEF SyncInv, SavedInv, CurrentInv, Sealed, Sound
  <2> QED BY <2>2, <2>4 DEF SyncInv
<1>3. CASE ~Resumable
  <2>1. PICK selection \in Selections : file' = SyncResourceTypes(selection)
      BY <1>3 DEF Start
  <2>2. saved = EmptyFile /\ saved' = EmptyFile
      BY <1>1, <1>3 DEF Resumable, SyncInv, SavedInv
  <2>3. Sound(file)' /\ file'.phase = "resources"
      BY <2>1, NewFileSound DEF Sound
  <2>4. Sound(saved)'
      BY <2>2, EmptyFileSound DEF Sound
  <2>5. SavedInv' /\ CurrentInv'
      BY <1>1, <2>2, <2>3, <2>4 DEF SavedInv, CurrentInv, Sealed, EmptyFile
  <2>6. WorkspaceInv' /\ CacheInv'
    <3>1. CASE status \in {"failed", "uncleared"}
      <4>1. UNCHANGED <<roleEver, roleAlways, memberEver, memberAlways>>
          BY <3>1 DEF Start, history
      <4> QED BY <1>1, <3>1, <4>1 DEF SyncInv, WorkspaceInv, CacheInv
    <3>2. CASE status \notin {"failed", "uncleared"}
      <4>1. /\ roleEver' = RoleFacts /\ roleAlways' = RoleFacts
            /\ memberEver' = MemberFacts /\ memberAlways' = MemberFacts
          BY <1>3, <3>2 DEF Start
      <4>2. userPages' = {} /\ groupBodies' = {}
          BY <1>1, <3>2 DEF SyncInv, CacheInv, TypeOK
      <4> QED BY <1>1, <4>1, <4>2 DEF SyncInv, WorkspaceInv, CacheInv
    <3> QED BY <3>1, <3>2
  <2> QED BY <2>5, <2>6 DEF SyncInv
<1> QED BY <1>2, <1>3

LEMMA FailKeeps == ASSUME SyncInv, TypeOK', Fail PROVE SyncInv'
<1>1. /\ UNCHANGED <<role, userName, members, groups, connFilter, userPages, groupBodies>>
      /\ UNCHANGED <<roleEver, roleAlways, memberEver, memberAlways>>
      /\ status = "running" /\ status' = "failed" /\ file' = EmptyFile /\ saved' \in {file, saved}
    BY DEF Fail, Pack, workspace, config, caches, history, store
<1>2. RoleFacts' = RoleFacts /\ MemberFacts' = MemberFacts /\ syncRoles' = syncRoles
    BY <1>1 DEF RoleFacts, MemberFacts, syncRoles
<1>3. WorkspaceInv' /\ CacheInv'
    BY <1>1, <1>2 DEF SyncInv, WorkspaceInv, CacheInv
<1>4. Sound(file)'
    BY <1>1, EmptyFileSound DEF Sound
<1>5. Sound(saved)'
    BY <1>1, <1>2 DEF Sound, SyncInv, SavedInv, CurrentInv
<1>6. SavedInv' /\ CurrentInv'
    BY <1>1, <1>4, <1>5 DEF SyncInv, SavedInv, CurrentInv, Sealed
<1> QED BY <1>3, <1>6 DEF SyncInv

LEMMA CrashKeeps == ASSUME SyncInv, TypeOK', Crash PROVE SyncInv'
<1>1. /\ UNCHANGED <<role, userName, members, groups, connFilter, saved>>
      /\ UNCHANGED <<roleEver, roleAlways, memberEver, memberAlways>>
      /\ status \in {"running", "failed", "uncleared"} /\ status' = "idle" /\ file' = EmptyFile
      /\ userPages' = {} /\ groupBodies' = {}
    BY DEF Crash, ClearCaches, workspace, config, history, store
<1>2. RoleFacts' = RoleFacts /\ MemberFacts' = MemberFacts /\ syncRoles' = syncRoles
    BY <1>1 DEF RoleFacts, MemberFacts, syncRoles
<1>3. WorkspaceInv' /\ CacheInv'
    BY <1>1, <1>2 DEF SyncInv, WorkspaceInv, CacheInv
<1>4. Sound(file)'
    BY <1>1, EmptyFileSound DEF Sound
<1>5. Sound(saved)'
    BY <1>1, <1>2 DEF Sound, SyncInv, SavedInv
<1>6. SavedInv' /\ CurrentInv'
    BY <1>1, <1>4, <1>5 DEF SyncInv, SavedInv, CurrentInv, Sealed
<1> QED BY <1>3, <1>6 DEF SyncInv

LEMMA PageMissingKeeps == ASSUME SyncInv, TypeOK', NEW t \in {"user", "group"}, PageMissing(t) PROVE SyncInv'
<1> DEFINE f == [file EXCEPT !.cursor[t] = Finished]
<1>1. /\ UNCHANGED <<role, userName, members, groups, connFilter, status, saved, userPages, groupBodies>>
      /\ UNCHANGED <<roleEver, roleAlways, memberEver, memberAlways>>
      /\ file' = f /\ status = "running" /\ file.phase = "resources"
    BY DEF PageMissing, Pending, Running, workspace, config, caches, history, store
<1>2. RoleFacts' = RoleFacts /\ MemberFacts' = MemberFacts /\ syncRoles' = syncRoles
    BY <1>1 DEF RoleFacts, MemberFacts, syncRoles
<1>3. file \in File /\ Sound(file)
    BY DEF SyncInv, TypeOK, CurrentInv
<1>4. /\ f.phase = "resources" /\ f.types = file.types /\ f.roles = file.roles /\ f.users = file.users
      /\ f.groups = file.groups /\ f.roleGrants = file.roleGrants /\ f.groupGrants = file.groupGrants
      /\ f.cursor["role"] = file.cursor["role"] /\ f.cursor["group"] \in {file.cursor["group"], Finished}
    BY <1>1, <1>3 DEF File, resourceTypes
<1> HIDE DEF f
<1>5. Sound(f)
    BY <1>1, <1>3, <1>4 DEF Sound, FileInv, FileShape, RoleGrantsInv, GroupGrantsInv, Planned
<1>6. WorkspaceInv' /\ CacheInv'
    BY <1>1, <1>2 DEF SyncInv, WorkspaceInv, CacheInv
<1>7. SavedInv' /\ CurrentInv'
    BY <1>1, <1>2, <1>4, <1>5 DEF SyncInv, SavedInv, CurrentInv, Sealed, Sound
<1> QED BY <1>6, <1>7 DEF SyncInv

(* Groups that are gone stay empty: members are added to groups that exist.*)
LEMMA GoneGroupsStayEmpty ==
    ASSUME SyncInv, WorkspaceChange
    PROVE  \A g \in Groups : g \notin groups' => members'[g] = {}
<1>1. members \in [Groups -> SUBSET Ids] /\ \A g \in Groups : g \notin groups => members[g] = {}
    BY DEF SyncInv, TypeOK, StoreTypeOK, WorkspaceInv
<1>2. ASSUME NEW u \in Ids, UserChange(u) PROVE \A g \in Groups : g \notin groups' => members'[g] = {}
  <2>1. groups' = groups /\ (members' = members \/ members' = [g \in Groups |-> members[g] \ {u}])
      BY <1>2 DEF UserChange, AdminSetRole, AdminRemove, AdminInviteBack, CreateUser,
                  handleCreateUser, handleDeleteUser, filterMembers
  <2> QED BY <1>1, <2>1
<1>3. ASSUME NEW h \in Groups, NEW u \in Ids, ChangeMember(h, u)
      PROVE  \A g \in Groups : g \notin groups' => members'[g] = {}
    BY <1>1, <1>3 DEF ChangeMember
<1>4. ASSUME NEW h \in Groups, RemoveGroup(h) PROVE \A g \in Groups : g \notin groups' => members'[g] = {}
    BY <1>1, <1>4 DEF RemoveGroup
<1> QED BY <1>2, <1>3, <1>4 DEF WorkspaceChange

LEMMA WorkspaceChangeKeeps == ASSUME SyncInv, TypeOK', WorkspaceChange PROVE SyncInv'
<1>1. UNCHANGED <<connFilter, status, file, saved, userPages, groupBodies>> /\ syncRoles' = syncRoles
    BY DEF WorkspaceChange, config, caches, syncRoles
<1>2. /\ roleEver \subseteq roleEver' /\ roleAlways' \subseteq roleAlways
      /\ memberEver \subseteq memberEver' /\ memberAlways' \subseteq memberAlways
    BY DEF WorkspaceChange, Observe, history
<1>3. WorkspaceInv'
  <2>1. status # "sealed" =>
          /\ RoleFacts' \subseteq roleEver' /\ roleAlways' \subseteq RoleFacts'
          /\ MemberFacts' \subseteq memberEver' /\ memberAlways' \subseteq MemberFacts'
      BY DEF WorkspaceChange, Observe
  <2> QED BY <1>1, <2>1, GoneGroupsStayEmpty DEF WorkspaceInv
<1>4. CacheInv'
  <2>1. \A p \in userPages : RowsTrue(p.rows, roleEver', roleAlways')
      BY <1>2, RowsStayTrue DEF SyncInv, CacheInv
  <2>2. \A b \in groupBodies : BodyTrue(b.id, b.members, memberEver', memberAlways')
      BY <1>2, BodyStaysTrue DEF SyncInv, CacheInv
  <2> QED BY <1>1, <2>1, <2>2 DEF SyncInv, CacheInv
<1>5. Sound(file)' /\ Sound(saved)'
    BY <1>1, <1>2, FileStaysSound DEF SyncInv, SavedInv, CurrentInv, Sound
<1>6. SavedInv' /\ CurrentInv'
    BY <1>1, <1>5 DEF SyncInv, SavedInv, CurrentInv, Sealed
<1> QED BY <1>3, <1>4, <1>6 DEF SyncInv

LEMMA InitSyncInv == Init => SyncInv
<1> SUFFICES ASSUME Init PROVE SyncInv
    OBVIOUS
<1>1. WorkspaceInv /\ CacheInv
    BY DEF Init, WorkspaceInv, CacheInv
<1>2. Sound(EmptyFile)
    BY EmptyFileSound DEF Sound
<1>3. SavedInv /\ CurrentInv
    BY <1>2 DEF Init, SavedInv, CurrentInv, Sealed, EmptyFile
<1> QED BY <1>1, <1>3, InitType DEF SyncInv

LEMMA NextKeeps == ASSUME SyncInv, [Next]_vars PROVE SyncInv'
<1>1. TypeOK'
    BY NextType DEF SyncInv
<1>2. CASE UNCHANGED vars
  <2>1. /\ UNCHANGED <<role, userName, members, groups, connFilter, status, file, saved>>
        /\ UNCHANGED <<userPages, groupBodies, roleEver, roleAlways, memberEver, memberAlways>>
      BY <1>2 DEF vars, workspace, store, config, caches, history
  <2>2. RoleFacts' = RoleFacts /\ MemberFacts' = MemberFacts /\ syncRoles' = syncRoles
      BY <2>1 DEF RoleFacts, MemberFacts, syncRoles
  <2> QED BY <1>1, <2>1, <2>2 DEF SyncInv, WorkspaceInv, CacheInv, SavedInv, CurrentInv, Sealed, Sound
<1>3. CASE EngineStep
    BY <1>1, <1>3, ListUsersKeeps, ListGroupsKeeps, ListRolesKeeps, SyncEntitlementsKeeps, PlanGrantsKeeps,
       SyncUserGrantsKeeps, SyncGroupGrantsKeeps, SealKeeps DEF EngineStep
<1>4. CASE Fault
    BY <1>1, <1>4, FailKeeps, CrashKeeps, PageMissingKeeps DEF Fault
<1> QED BY <1>1, <1>2, <1>3, <1>4, StartKeeps, WorkspaceChangeKeeps DEF Next

(* Everything cached, packed or being written is an account of the         *)
(* workspace since the base, in every reachable state.                     *)
THEOREM SyncInvariance == Spec => []SyncInv
BY InitSyncInv, NextKeeps, PTL DEF Spec

-----------------------------------------------------------------------------
(* The properties. *)

(* A sealed file holds no grant that was never true since the base: the    *)
(* base moves only over caches that were cleared, and the roles stashed by *)
(* parseIntoUserResource are those of pages read since.                    *)
THEOREM SealedFactsWereTrue == Spec => []FactsWereTrue
<1>1. SyncInv => FactsWereTrue
  <2> SUFFICES ASSUME SyncInv PROVE FactsWereTrue
      OBVIOUS
  <2>1. file \in File /\ Sound(file)
      BY DEF SyncInv, TypeOK, CurrentInv
  <2>2. ASSUME NEW x \in file.roleGrants PROVE x \in roleEver
    <3>1. PICK r \in supportedRoles, u \in Ids : x = <<r, u>>
        BY <2>1, <2>2 DEF File
    <3>2. file.users[u] = r /\ r # NotListed
        BY <2>1, <2>2, <3>1 DEF Sound, FileInv, RoleGrantsInv, NotListed, supportedRoles,
           RoleOwner, RoleMember, RoleMembershipAdmin, RoleRestrictedMember
    <3> QED BY <2>1, <3>1, <3>2 DEF Sound, FileInv, RowsTrue, RowTrue
  <2>3. ASSUME NEW x \in file.groupGrants PROVE x \in memberEver
    <3>1. PICK g \in Groups, u \in Ids : x = <<g, u>>
        BY <2>1, <2>3 DEF File
    <3> QED BY <2>1, <2>3, <3>1 DEF Sound, FileInv, GroupGrantsInv
  <2> QED BY <2>2, <2>3 DEF FactsWereTrue
<1> QED BY <1>1, SyncInvariance, PTL

(* A sealed file holds every grant that was true all along of a user or    *)
(* group it lists, through any number of failures, crashes and resumes.    *)
THEOREM LastingFactsAreSynced == Spec => []LastingFactsSynced
<1>1. SyncInv => LastingFactsSynced
  <2> SUFFICES ASSUME SyncInv, Sealed, "user" \in file.types
               PROVE  /\ "role" \in file.types /\ syncRoles =>
                           \A f \in roleAlways : f[1] \in supportedRoles /\ file.users[f[2]] # NotListed
                                                   => f \in file.roleGrants
                      /\ \A f \in memberAlways : f[1] \in file.groups => f \in file.groupGrants
      BY DEF LastingFactsSynced
  <2>1. file \in File /\ Sound(file) /\ file.phase = "sealed"
      BY DEF SyncInv, TypeOK, CurrentInv
  <2>2. file.userTodo = {} /\ file.groupTodo = {}
      BY <2>1 DEF Sound, FileInv, FileShape
  <2>3. ASSUME "role" \in file.types, syncRoles, NEW f \in roleAlways,
               f[1] \in supportedRoles, file.users[f[2]] # NotListed
        PROVE  f \in file.roleGrants
    <3>1. PICK r \in UserRole, u \in Ids : f = <<r, u>>
        BY <2>3 DEF SyncInv, TypeOK
    <3>2. file.users[u] = r
        BY <2>1, <2>3, <3>1 DEF Sound, FileInv, RowsTrue, RowTrue
    <3> QED BY <2>1, <2>2, <2>3, <3>1, <3>2 DEF Sound, FileInv, RoleGrantsInv, Planned
  <2>4. ASSUME NEW f \in memberAlways, f[1] \in file.groups PROVE f \in file.groupGrants
    <3>1. PICK g \in Groups, u \in Ids : f = <<g, u>>
        BY <2>4 DEF SyncInv, TypeOK
    <3> QED BY <2>1, <2>2, <2>4, <3>1 DEF Sound, FileInv, GroupGrantsInv, Planned
  <2> QED BY <2>3, <2>4
<1> QED BY <1>1, SyncInvariance, PTL

(* No user ever has two workspace roles in a file, finished or not.        *)
THEOREM OneRoleInFile == Spec => []OneRolePerUser
<1>1. SyncInv => OneRolePerUser
  <2> SUFFICES ASSUME SyncInv, NEW f \in file.roleGrants, NEW h \in file.roleGrants, f[2] = h[2]
               PROVE  f[1] = h[1]
      BY DEF OneRolePerUser
  <2>1. file \in File /\ Sound(file)
      BY DEF SyncInv, TypeOK, CurrentInv
  <2>2. PICK r \in supportedRoles, u \in Ids : f = <<r, u>>
      BY <2>1 DEF File
  <2>3. PICK q \in supportedRoles, v \in Ids : h = <<q, v>>
      BY <2>1 DEF File
  <2>4. file.users[u] = r /\ file.users[v] = q
      BY <2>1, <2>2, <2>3 DEF Sound, FileInv, RoleGrantsInv
  <2> QED BY <2>2, <2>3, <2>4
<1> QED BY <1>1, SyncInvariance, PTL

(* No grant of any file refers to an entitlement or a resource type that   *)
(* the sync did not list, whatever the configuration and the task select.  *)
THEOREM GrantsNeverDangle == Spec => []NoDanglingGrants
<1>1. SyncInv => NoDanglingGrants
  <2> SUFFICES ASSUME SyncInv PROVE NoDanglingGrants
      OBVIOUS
  <2>1. file \in File /\ Sound(file)
      BY DEF SyncInv, TypeOK, CurrentInv
  <2>2. file.roleGrants # {} \/ file.groupGrants # {} => file.phase \in {"grants", "sealed"}
      BY <2>1 DEF Sound, FileInv, FileShape, File, Phase
  <2>3. ASSUME NEW f \in file.roleGrants PROVE f[1] \in file.roleEnts /\ file.users[f[2]] # NotListed
    <3>1. PICK r \in supportedRoles, u \in Ids : f = <<r, u>>
        BY <2>1, <2>3 DEF File
    <3>2. file.users[u] = r /\ r # NotListed
        BY <2>1, <2>3, <3>1 DEF Sound, FileInv, RoleGrantsInv, NotListed, supportedRoles,
           RoleOwner, RoleMember, RoleMembershipAdmin, RoleRestrictedMember
    <3>3. file.roleEnts = supportedRoles
        BY <2>1, <2>2, <2>3 DEF Sound, FileInv, FileShape
    <3> QED BY <3>1, <3>2, <3>3
  <2>4. ASSUME NEW f \in file.groupGrants PROVE f[1] \in file.groupEnts /\ "user" \in file.types
    <3>1. PICK g \in Groups, u \in Ids : f = <<g, u>>
        BY <2>1, <2>4 DEF File
    <3>2. g \in file.groups /\ "user" \in file.types
        BY <2>1, <2>4, <3>1 DEF Sound, FileInv, GroupGrantsInv
    <3>3. file.groupEnts = file.groups
        BY <2>1, <2>2, <2>4 DEF Sound, FileInv, FileShape
    <3> QED BY <3>1, <3>2, <3>3
  <2> QED BY <2>3, <2>4 DEF NoDanglingGrants
<1> QED BY <1>1, SyncInvariance, PTL

-----------------------------------------------------------------------------
(***************************************************************************)
(* Why a sync ends.  A page that is not the last has at least one entry,   *)
(* so its next page number is larger; that is true of cached pages as      *)
(* well, although they may come from another directory.                    *)
(***************************************************************************)

(* A finite set of page numbers or ids has a greatest and a least element. *)
LEMMA GreatestExists ==
    ASSUME NEW S \in SUBSET Nat, IsFiniteSet(S), S # {}
    PROVE  \E x \in S : \A y \in S : y <= x
<1> DEFINE Above(x) == {y \in S : y > x}
           T == {Above(x) : x \in S}
<1>0. \A x \in S : Above(x) \in SUBSET S /\ IsFiniteSet(Above(x))
    BY FS_Subset
<1>1. T \subseteq FiniteSubsetsOf(S) /\ T # {}
    BY <1>0, Zenon DEF FiniteSubsetsOf
<1>2. PICK A \in T : \A B \in T : ~(<<B, A>> \in StrictSubsetOrdering(S))
    BY <1>1, FS_StrictSubsetOrderingWellFounded, WFMin
<1>3. PICK x \in S : A = Above(x)
    OBVIOUS
<1>4. ASSUME NEW z \in Above(x) PROVE FALSE
    <2>1. z \in S /\ z \in Nat /\ x \in Nat /\ z > x /\ ~(z > z)
        BY <1>4
    <2>2. Above(z) \in T
        BY <2>1
    <2>3. Above(z) \subseteq Above(x)
        <3>1. \A y \in S : y > z => y > x
            BY <2>1
        <3> QED
            BY <3>1, Zenon
    <2>4. Above(z) # Above(x)
        <3>1. z \in Above(x) /\ z \notin Above(z)
            BY <2>1
        <3> QED
            BY <3>1, Zenon
    <2>5. Above(z) \in SUBSET S /\ Above(x) \in SUBSET S
        OBVIOUS
    <2>6. <<Above(z), Above(x)>> \in StrictSubsetOrdering(S)
        BY <2>3, <2>4, <2>5 DEF StrictSubsetOrdering
    <2> QED
        BY <1>2, <1>3, <2>2, <2>6
<1>5. \A y \in S : y <= x
    BY <1>4
<1> QED
    BY <1>5

LEMMA LeastExists ==
    ASSUME NEW S \in SUBSET Nat, IsFiniteSet(S), S # {}
    PROVE  \E x \in S : \A y \in S : x <= y
<1> DEFINE Below(x) == {y \in S : y < x}
           T == {Below(x) : x \in S}
<1>0. \A x \in S : Below(x) \in SUBSET S /\ IsFiniteSet(Below(x))
    BY FS_Subset
<1>1. T \subseteq FiniteSubsetsOf(S) /\ T # {}
    BY <1>0, Zenon DEF FiniteSubsetsOf
<1>2. PICK A \in T : \A B \in T : ~(<<B, A>> \in StrictSubsetOrdering(S))
    BY <1>1, FS_StrictSubsetOrderingWellFounded, WFMin
<1>3. PICK x \in S : A = Below(x)
    OBVIOUS
<1>4. ASSUME NEW z \in Below(x) PROVE FALSE
    <2>1. z \in S /\ z \in Nat /\ x \in Nat /\ z < x /\ ~(z < z)
        BY <1>4
    <2>2. Below(z) \in T
        BY <2>1
    <2>3. Below(z) \subseteq Below(x)
        <3>1. \A y \in S : y < z => y < x
            BY <2>1
        <3> QED
            BY <3>1, Zenon
    <2>4. Below(z) # Below(x)
        <3>1. z \in Below(x) /\ z \notin Below(z)
            BY <2>1
        <3> QED
            BY <3>1, Zenon
    <2>5. Below(z) \in SUBSET S /\ Below(x) \in SUBSET S
        OBVIOUS
    <2>6. <<Below(z), Below(x)>> \in StrictSubsetOrdering(S)
        BY <2>3, <2>4, <2>5 DEF StrictSubsetOrdering
    <2> QED
        BY <1>2, <1>3, <2>2, <2>6
<1>5. \A y \in S : x <= y
    BY <1>4
<1> QED
    BY <1>5

(* In a directory of n entries, every number from 1 to n is the rank of    *)
(* one of them.                                                            *)
LEMMA EveryRankTaken ==
    ASSUME NEW S \in SUBSET Nat, IsFiniteSet(S), NEW k \in 1..Cardinality(S)
    PROVE  \E x \in S : Rank(S, x) = k
<1> DEFINE UpTo(x) == {y \in S : y <= x}
           U == {x \in S : Rank(S, x) >= k}
<1>1. /\ Cardinality(S) \in Nat
      /\ \A x \in S : IsFiniteSet(UpTo(x)) /\ Rank(S, x) = Cardinality(UpTo(x)) /\ Rank(S, x) \in Nat
    BY FS_Subset, FS_CardinalityType DEF Rank
<1>2. S # {}
    BY <1>1, FS_EmptySet
<1>3. U # {}
    <2>1. PICK x \in S : \A y \in S : y <= x
        BY <1>2, GreatestExists
    <2>2. UpTo(x) = S
        BY <2>1
    <2>3. Rank(S, x) = Cardinality(S)
        BY <1>1, <2>2
    <2> QED
        BY <1>1, <2>3
<1>4. U \in SUBSET Nat /\ IsFiniteSet(U)
    BY FS_Subset
<1>5. PICK m \in U : \A y \in U : m <= y
    BY <1>3, <1>4, LeastExists
<1>6. ASSUME Rank(S, m) # k PROVE FALSE
    <2> DEFINE D == UpTo(m) \ {m}
    <2>0. m \in S /\ m \in UpTo(m) /\ Rank(S, m) >= k
        OBVIOUS
    <2>1. /\ IsFiniteSet(D) /\ Cardinality(D) = Rank(S, m) - 1
        <3>1. IsFiniteSet(UpTo(m)) /\ Rank(S, m) = Cardinality(UpTo(m))
            BY <1>1, <2>0, Zenon
        <3> HIDE DEF UpTo
        <3> QED
            BY <2>0, <3>1, FS_RemoveElement
    <2>2. Rank(S, m) \in Nat /\ Rank(S, m) > k /\ k >= 1 /\ k \in Nat
        <3>1. Rank(S, m) \in Nat
            BY <1>1, <2>0, Zenon
        <3>2. k \in Nat /\ k >= 1
            BY <1>1, SMT
        <3> HIDE DEF UpTo, D, U
        <3> QED
            BY <1>6, <2>0, <3>1, <3>2
    <2>3. D # {}
        BY <2>1, <2>2, FS_EmptySet
    <2>4. PICK n \in D : \A y \in D : y <= n
        BY <2>1, <2>3, GreatestExists
    <2>5. n \in S /\ n < m
        BY <2>4
    <2>6. UpTo(n) = D
        <3>1. ASSUME NEW y \in S PROVE y \in UpTo(n) <=> y \in D
            BY <2>0, <2>4, <2>5
        <3> QED
            BY <3>1
    <2>7. Rank(S, n) >= k
        BY <1>1, <2>1, <2>2, <2>5, <2>6
    <2> QED
        BY <1>5, <2>5, <2>7
<1> QED
    BY <1>6

(* The page after another page has a larger number, within the directory.  *)
LEMMA NextPageLater ==
    ASSUME NEW S \in SUBSET Nat, IsFiniteSet(S), NEW token \in Nat
    PROVE  \/ nextPage(S, token) = Finished
           \/ nextPage(S, token) \in (token + 1)..(Cardinality(S) - 1)
<1> DEFINE P == pageSlice(S, token)
           start == IF token = 0 THEN 1 ELSE token
<1>1. IsFiniteSet(P) /\ Cardinality(P) \in Nat /\ Cardinality(S) \in Nat
    BY FS_Subset, FS_CardinalityType DEF pageSlice
<1>2. CASE token < Cardinality(S)
    <2>1. start \in 1..Cardinality(S)
        BY <1>1, <1>2
    <2>2. PICK x \in S : Rank(S, x) = start
        BY <2>1, EveryRankTaken
    <2>3. x \in P
        BY <2>1, <2>2, <1>1, SyncBoundsAssumption DEF pageSlice
    <2>4. Cardinality(P) # 0
        BY <1>1, <2>3, FS_EmptySet
    <2> QED
        BY <1>1, <2>4 DEF nextPage
<1>3. CASE ~(token < Cardinality(S))
    BY <1>1, <1>3 DEF nextPage
<1> QED
    BY <1>2, <1>3

-----------------------------------------------------------------------------
(* A page leads to a later one or to none, whenever it was answered. *)
LeadsOn(page, size) == page.next = Finished \/ page.next \in (page.token + 1)..(size - 1)

PagesInv ==
    /\ TypeOK
    /\ \A p \in userPages : LeadsOn(p, Cardinality(Ids))
    /\ \A p \in groupPages : LeadsOn(p, Cardinality(Groups))

LEMMA FreshPagesLeadOn ==
    ASSUME TypeOK, NEW token \in Nat
    PROVE  LeadsOn(GetUsers(token), Cardinality(Ids)) /\ LeadsOn(GetGroups(token), Cardinality(Groups))
<1> DEFINE S == {u \in Ids : Present(u)}
<1>1. /\ S \in SUBSET Nat /\ IsFiniteSet(S) /\ Cardinality(S) \in Nat
      /\ Cardinality(Ids) \in Nat /\ Cardinality(S) <= Cardinality(Ids)
    BY IdsAssumption, FS_Subset, FS_CardinalityType
<1>2. /\ groups \in SUBSET Nat /\ IsFiniteSet(groups) /\ Cardinality(groups) \in Nat
      /\ Cardinality(Groups) \in Nat /\ Cardinality(groups) <= Cardinality(Groups)
    BY IdsAssumption, FS_Subset, FS_CardinalityType DEF TypeOK
<1>3. GetUsers(token).token = token /\ GetUsers(token).next = nextPage(S, token)
    BY DEF GetUsers
<1>4. GetGroups(token).token = token /\ GetGroups(token).next = nextPage(groups, token)
    BY DEF GetGroups
<1> HIDE DEF S
<1>5. LeadsOn(GetUsers(token), Cardinality(Ids))
    BY <1>1, <1>3, NextPageLater DEF LeadsOn
<1>6. LeadsOn(GetGroups(token), Cardinality(Groups))
    BY <1>2, <1>4, NextPageLater DEF LeadsOn
<1> QED
    BY <1>5, <1>6

(* Listing one page: what was answered leads on, and the file goes on with *)
(* it.                                                                     *)
LEMMA UserPageAdvances ==
    ASSUME PagesInv, TypeOK', ListUsers
    PROVE  PagesInv' /\ Advances(file')
<1>1. PICK page \in CachedUsers(file.cursor["user"]) \cup {GetUsers(file.cursor["user"])} :
        /\ Write([file EXCEPT !.cursor["user"] = page.next,
                     !.users = [u \in Ids |-> IF page.rows[u] # NotListed THEN page.rows[u] ELSE @[u]]])
        /\ userPages' = Kept(userPages, CachedUsers(page.token), page)
    BY DEF ListUsers
<1>2. file.cursor["user"] \in Nat /\ file \in File
    BY PendingToken DEF ListUsers, resourceTypes, PagesInv, TypeOK
<1>3. page.token = file.cursor["user"]
    BY DEF CachedUsers, GetUsers
<1>4. LeadsOn(page, Cardinality(Ids))
    BY <1>2, FreshPagesLeadOn DEF CachedUsers, PagesInv
<1>5. PagesInv'
    BY <1>1, <1>4 DEF PagesInv, Kept, ListUsers
<1>6. /\ file.phase = "resources" /\ file'.phase = "resources" /\ file.cursor["user"] # Finished
      /\ file'.cursor = [file.cursor EXCEPT !["user"] = page.next]
    BY <1>1, <1>2 DEF ListUsers, Pending, Running, Write, File
<1>7. file'.cursor["user"] = page.next
      /\ \A o \in resourceTypes \ {"user"} : file'.cursor[o] = file.cursor[o]
    BY <1>2, <1>6 DEF File, resourceTypes
<1> QED
    BY <1>3, <1>4, <1>5, <1>6, <1>7 DEF Advances, LeadsOn, Size, resourceTypes

LEMMA GroupPageAdvances ==
    ASSUME PagesInv, TypeOK', ListGroups
    PROVE  PagesInv' /\ Advances(file')
<1>1. PICK page \in CachedGroups(file.cursor["group"]) \cup {GetGroups(file.cursor["group"])} :
        /\ Write([file EXCEPT !.cursor["group"] = page.next, !.groups = @ \cup page.entries])
        /\ groupPages' = Kept(groupPages, CachedGroups(page.token), page)
    BY DEF ListGroups
<1>2. file.cursor["group"] \in Nat /\ file \in File
    BY PendingToken DEF ListGroups, resourceTypes, PagesInv, TypeOK
<1>3. page.token = file.cursor["group"]
    BY DEF CachedGroups, GetGroups
<1>4. LeadsOn(page, Cardinality(Groups))
    BY <1>2, FreshPagesLeadOn DEF CachedGroups, PagesInv
<1>5. PagesInv'
    BY <1>1, <1>4 DEF PagesInv, Kept, ListGroups
<1>6. /\ file.phase = "resources" /\ file'.phase = "resources" /\ file.cursor["group"] # Finished
      /\ file'.cursor = [file.cursor EXCEPT !["group"] = page.next]
    BY <1>1, <1>2 DEF ListGroups, Pending, Running, Write, File
<1>7. file'.cursor["group"] = page.next
      /\ \A o \in resourceTypes \ {"group"} : file'.cursor[o] = file.cursor[o]
    BY <1>2, <1>6 DEF File, resourceTypes
<1> QED
    BY <1>3, <1>4, <1>5, <1>6, <1>7 DEF Advances, LeadsOn, Size, resourceTypes

(* A listing that is over: of the roles, or after a warning. *)
LEMMA LastPageAdvances ==
    ASSUME TypeOK, ListRoles \/ \E t \in {"user", "group"} : PageMissing(t)
    PROVE  Advances(file')
<1>1. PICK t \in resourceTypes :
        /\ file.phase = "resources" /\ file'.phase = "resources" /\ file.cursor[t] # Finished
        /\ file'.cursor = [file.cursor EXCEPT ![t] = Finished]
    <2>1. CASE ListRoles
        BY <2>1 DEF ListRoles, Pending, Running, Write, TypeOK, File, resourceTypes
    <2>2. CASE \E t \in {"user", "group"} : PageMissing(t)
        BY <2>2 DEF PageMissing, Pending, Running, TypeOK, File, resourceTypes
    <2> QED
        BY <2>1, <2>2
<1>2. file'.cursor[t] = Finished /\ \A o \in resourceTypes \ {t} : file'.cursor[o] = file.cursor[o]
    BY <1>1 DEF TypeOK, File
<1> QED
    BY <1>1, <1>2 DEF Advances

(* The steps after the listing. *)
LEMMA LaterPhasesAdvance ==
    ASSUME TypeOK,
           \/ SyncEntitlements \/ PlanGrants
           \/ (\E u \in Ids : SyncUserGrants(u)) \/ (\E g \in Groups : SyncGroupGrants(g))
    PROVE  Advances(file')
<1>0. file \in File
    BY DEF TypeOK
<1>1. CASE SyncEntitlements \/ PlanGrants
    BY <1>0, <1>1 DEF SyncEntitlements, PlanGrants, Running, Write, File, Advances
<1>2. ASSUME NEW u \in Ids, SyncUserGrants(u) PROVE Advances(file')
    <2>1. /\ file.phase = "grants" /\ file'.phase = "grants" /\ u \in file.userTodo
          /\ file'.userTodo = file.userTodo \ {u} /\ file'.groupTodo = file.groupTodo
        BY <1>0, <1>2 DEF SyncUserGrants, Running, Write, File
    <2> QED
        BY <2>1 DEF Advances
<1>3. ASSUME NEW g \in Groups, SyncGroupGrants(g) PROVE Advances(file')
    <2>1. /\ file.phase = "grants" /\ file'.phase = "grants" /\ g \in file.groupTodo
          /\ file'.groupTodo = file.groupTodo \ {g} /\ file'.userTodo = file.userTodo
        BY <1>0, <1>3 DEF SyncGroupGrants, Running, Write, File
    <2> QED
        BY <2>1 DEF Advances
<1> QED
    BY <1>1, <1>2, <1>3

LEMMA NextPagesInv ==
    ASSUME PagesInv, [Next]_vars
    PROVE  /\ PagesInv'
           /\ status = "running" /\ status' = "running" /\ file' # file => Advances(file')
<1>0. TypeOK /\ TypeOK'
    BY NextType DEF PagesInv
<1>1. CASE ListUsers \/ ListGroups
    BY <1>0, <1>1, UserPageAdvances, GroupPageAdvances
<1>2. CASE \/ ListRoles \/ (\E t \in {"user", "group"} : PageMissing(t)) \/ SyncEntitlements \/ PlanGrants
           \/ (\E u \in Ids : SyncUserGrants(u)) \/ (\E g \in Groups : SyncGroupGrants(g))
    <2>1. UNCHANGED <<userPages, groupPages>>
        BY <1>2 DEF ListRoles, PageMissing, SyncEntitlements, PlanGrants, SyncUserGrants, SyncGroupGrants,
           caches
    <2>2. Advances(file')
        BY <1>0, <1>2, LastPageAdvances, LaterPhasesAdvance
    <2> QED
        BY <1>0, <2>1, <2>2 DEF PagesInv
<1>3. CASE Seal \/ Fail \/ Crash
    BY <1>0, <1>3 DEF Seal, Cleanup, Fail, Crash, ClearCaches, caches, PagesInv
<1>4. CASE Start \/ WorkspaceChange \/ UNCHANGED vars
    BY <1>0, <1>4 DEF Start, WorkspaceChange, vars, caches, PagesInv
<1> QED
    BY <1>1, <1>2, <1>3, <1>4 DEF Next, EngineStep, Fault

(* Every page a running sync commits leaves less work, for any directory,  *)
(* page size and cached pages: listings go forward within the bounds of    *)
(* the directory, phases in their order, and grant actions only go.        *)
THEOREM SyncGoesForward == Spec => SyncAdvances
<1>1. Init => PagesInv
    BY InitType DEF Init, PagesInv
<1>2. PagesInv /\ [Next]_vars => PagesInv'
    BY NextPagesInv
<1>3. PagesInv /\ [Next]_vars
        => [status = "running" /\ status' = "running" /\ file' # file => Advances(file')]_vars
    BY NextPagesInv
<1> QED
    BY <1>1, <1>2, <1>3, PTL DEF Spec, SyncAdvances
=============================================================================
