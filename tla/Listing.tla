------------------------------- MODULE Listing -------------------------------
(***************************************************************************)
(* Paging through GET /Users or GET /Groups: the connector's List handlers *)
(* and the server's list handlers, while others add and remove entries     *)
(* between two pages.                                                      *)
(*                                                                         *)
(* The server sorts by id and ids are random, so a new entry may land      *)
(* anywhere: dir is the sorted directory, and only positions matter.  One  *)
(* page is one step, because the server answers it under its read lock and *)
(* the connector keeps nothing between pages but the token.  A page that   *)
(* fails leaves the token as it is and is asked for again (a stutter).     *)
(***************************************************************************)
EXTENDS Integers, SequencesExt

CONSTANTS
    PerPage,          \* page size List asks for (the code: 100)
    maxItemsPerPage,  \* the client's cap on it (the code: 100)
    maxPerPage,       \* the server's cap on it (the code: 100)
    defaultPerPage,   \* the server's page size when none is asked for
    MaxEntries,       \* bound: entries the directory starts with
    MaxInserts,       \* bound: entries added during the listing
    MaxRemoves        \* bound: entries removed during the listing

ASSUME PageAssumption ==
    /\ PerPage \in Int
    /\ maxItemsPerPage \in Nat \ {0} /\ maxPerPage \in Nat \ {0} /\ defaultPerPage \in Nat \ {0}
ASSUME ChangeAssumption == MaxEntries \in Nat /\ MaxInserts \in Nat /\ MaxRemoves \in Nat

VARIABLES
    kind,     \* which directory is listed: "user" or "group"
    dir,      \* the server's directory in id order
    token,    \* the page token the syncer holds
    status,   \* of the listing
    listed,   \* entries handed to the syncer
    stayed,   \* history: entries present from the start until now
    inserts,  \* entries added so far
    removes   \* entries removed so far

vars == <<kind, dir, token, status, listed, stayed, inserts, removes>>

NoToken == -1  \* the empty token: no page yet, or no page left

Status == {"listing", "done", "tokenUnchanged"}

(* Every variable keeps its shape. *)
TypeOK ==
    /\ kind \in {"user", "group"}
    /\ dir \in Seq(Nat)
    /\ token \in Nat \cup {NoToken}
    /\ status \in Status
    /\ listed \in SUBSET Nat
    /\ stayed \in SUBSET Nat
    /\ inserts \in 0..MaxInserts
    /\ removes \in 0..MaxRemoves

Init ==
    /\ kind \in {"user", "group"}
    /\ \E n \in 0..MaxEntries : dir = [i \in 1..n |-> i]
    /\ token = NoToken
    /\ status = "listing"
    /\ listed = {}
    /\ stayed = 1..Len(dir)
    /\ inserts = 0
    /\ removes = 0

-----------------------------------------------------------------------------
(* The server. *)

Least(a, b) == IF a <= b THEN a ELSE b

paginationParams(startIndex, count) ==
    [startIndex |-> IF startIndex >= 1 THEN startIndex ELSE 1,
     perPage    |-> Least(IF count > 0 THEN count ELSE defaultPerPage, maxPerPage)]

pageSlice(items, startIndex, perPage) ==
    IF startIndex - 1 < 0 \/ startIndex - 1 >= Len(items)
    THEN <<>>
    ELSE SubSeq(items, startIndex, Least(startIndex - 1 + perPage, Len(items)))

ListResponse(startIndex, count) ==
    LET q    == paginationParams(startIndex, count)
        page == pageSlice(dir, q.startIndex, q.perPage)
    IN  [Resources |-> page, ItemsPerPage |-> Len(page), TotalResults |-> Len(dir)]

handleListUsers(startIndex, count) == ListResponse(startIndex, count)

handleListGroups(startIndex, count) == ListResponse(startIndex, count)

-----------------------------------------------------------------------------
(* The connector. *)

WithPageSize(count) == IF count <= 0 \/ count > maxItemsPerPage THEN maxItemsPerPage ELSE count

WithStartIndex(index) == IF index <= 0 THEN 1 ELSE index

(* The page number in a token; the first call has none and starts at 0.    *)
getToken(tok) == IF tok = NoToken THEN 0 ELSE tok

(* Mutants: the next page stays where it is; goes backwards; skips one     *)
(* entry; forgets startIndex; is asked for one more time.                  *)
NextPageStays(startIndex, res) ==
    IF startIndex + res.ItemsPerPage < res.TotalResults THEN startIndex ELSE NoToken
NextPageBackwards(startIndex, res) ==
    IF startIndex + res.ItemsPerPage < res.TotalResults THEN startIndex - res.ItemsPerPage ELSE NoToken
NextPageSkips(startIndex, res) ==
    IF startIndex + res.ItemsPerPage < res.TotalResults
    THEN startIndex + res.ItemsPerPage + 2
    ELSE NoToken
NextPageForgets(startIndex, res) ==
    IF res.ItemsPerPage < res.TotalResults THEN res.ItemsPerPage ELSE NoToken
NextPageInclusive(startIndex, res) ==
    IF startIndex + res.ItemsPerPage <= res.TotalResults
    THEN startIndex + res.ItemsPerPage
    ELSE NoToken

usersNextPage(startIndex, res) ==
    IF startIndex + res.ItemsPerPage < res.TotalResults
    THEN startIndex + res.ItemsPerPage
    ELSE NoToken

groupsNextPage(startIndex, res) ==
    IF startIndex + res.ItemsPerPage < res.TotalResults
    THEN startIndex + res.ItemsPerPage
    ELSE NoToken

GetUsers(startIndex) ==
    LET res == handleListUsers(WithStartIndex(startIndex), WithPageSize(PerPage))
    IN  [entries |-> res.Resources, nextPage |-> usersNextPage(startIndex, res)]

GetGroups(startIndex) ==
    LET res == handleListGroups(WithStartIndex(startIndex), WithPageSize(PerPage))
    IN  [entries |-> res.Resources, nextPage |-> groupsNextPage(startIndex, res)]

(* builder.ListResources passes the page on to the syncer, unless List     *)
(* returned the token it was given.                                        *)
ListResources(page) ==
    /\ IF token # NoToken /\ token = page.nextPage
       THEN /\ status' = "tokenUnchanged"
            /\ UNCHANGED <<token, listed>>
       ELSE /\ listed' = listed \cup Range(page.entries)
            /\ token' = page.nextPage
            /\ status' = IF page.nextPage = NoToken THEN "done" ELSE "listing"
    /\ UNCHANGED <<kind, dir, stayed, inserts, removes>>

UserList ==
    /\ status = "listing" /\ kind = "user"
    /\ ListResources(GetUsers(getToken(token)))

GroupList ==
    /\ status = "listing" /\ kind = "group"
    /\ ListResources(GetGroups(getToken(token)))

-----------------------------------------------------------------------------
(* Others change the directory between two pages: a user is created or     *)
(* deleted through SCIM, a group is made or dropped by an admin.  What     *)
(* happens after the last page is no longer of interest.                   *)

NewId == MaxEntries + inserts + 1

InsertEntry ==
    /\ status = "listing" /\ inserts < MaxInserts
    /\ inserts' = inserts + 1
    /\ \E i \in 1..(Len(dir) + 1) : dir' = InsertAt(dir, i, NewId)
    /\ UNCHANGED <<kind, token, status, listed, stayed, removes>>

RemoveEntry ==
    /\ status = "listing" /\ removes < MaxRemoves
    /\ removes' = removes + 1
    /\ \E i \in 1..Len(dir) :
          /\ dir' = RemoveAt(dir, i)
          /\ stayed' = stayed \ {dir[i]}
    /\ UNCHANGED <<kind, token, status, listed, inserts>>

Ended == status # "listing" /\ UNCHANGED vars

Next == UserList \/ GroupList \/ InsertEntry \/ RemoveEntry \/ Ended

Spec == Init /\ [][Next]_vars

(* The syncer asks for page after page. *)
FairSpec == Spec /\ WF_vars(UserList \/ GroupList)

-----------------------------------------------------------------------------
(***************************************************************************)
(* Properties.                                                             *)
(***************************************************************************)
Page == Least(WithPageSize(PerPage), maxPerPage)  \* entries on a full page

missed == stayed \ listed

(* What a listing of an unchanging directory returns, exactly: everything, *)
(* except that it loses the last entry of a directory of two or more full  *)
(* pages and no partial one.  The first call's page number is 0 but its    *)
(* first entry is number 1, so the test startIndex + itemsPerPage <        *)
(* totalResults (client.go:55, 88) is one short on every page but the      *)
(* first, and the page boundary after the first overlaps by one.           *)
StaticListing ==
    status = "done" /\ inserts = 0 /\ removes = 0 =>
        missed = IF \E m \in 2..Len(dir) : Len(dir) = m * Page THEN {dir[Len(dir)]} ELSE {}

(* Entries added during the listing, wherever they land, never push an     *)
(* entry that was there all along out of it: only the very last one can be *)
(* missed (client.go:55, 88; main.go:496-506).                             *)
InsertsHideNothing ==
    status = "done" /\ removes = 0 =>
        \A i \in 1..Len(dir) : dir[i] \in missed => i = Len(dir)

(* A removal shifts the rest of the directory across the page boundary: a  *)
(* listing misses at most one lasting entry per removal, besides the last. *)
RemovesHideOneEach ==
    status = "done" => Cardinality(missed) <= removes + 1

(* The SDK's guard "next page token unchanged - likely a connector bug"    *)
(* (resource_syncer.go:175) is never hit, even when the directory shrinks  *)
(* below the page asked for: an empty page is always taken for the last.   *)
TokenMoves == status # "tokenUnchanged"

(* Why the listing ends: a page that is not the last one moves the token   *)
(* forward, and to a position inside the directory as the server has it at *)
(* that moment; nothing but a page moves it.  (The SDK's guard would not   *)
(* notice a token that goes back: client.go:55, 88.)                       *)
PagesAdvance ==
    [][token' # token => \/ token' = NoToken /\ status' = "done"
                         \/ token < token' /\ token' < Len(dir)]_vars

(* The listing ends, whatever is added or removed meanwhile. *)
ListingEnds == <>(status # "listing")

(* BUGBOT.md:69-71: "Early termination (stops too soon)" is data loss; of  *)
(* an unchanging directory a listing should return everything.             *)
CompleteListing ==
    status = "done" /\ inserts = 0 /\ removes = 0 => Range(dir) \subseteq listed
==============================================================================
