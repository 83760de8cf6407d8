--------------------------- MODULE ListingProofs ---------------------------
(***************************************************************************)
(* Proofs about Listing, for every page size, every size of the directory  *)
(* and any number of entries added and removed meanwhile.                  *)
(***************************************************************************)
EXTENDS Listing, FiniteSetTheorems, TLAPS

(* The page an answer holds, whichever of the two handlers asks for it:    *)
(* positions Lo(s) to Hi(s) of the directory.                              *)
Lo(s) == WithStartIndex(s)
Hi(s) == Least(Lo(s) - 1 + Page, Len(dir))
Items(s) == IF Lo(s) > Len(dir) THEN 0 ELSE Hi(s) - Lo(s) + 1

(* A full page has at least one entry. *)
LEMMA PagePositive == Page \in Nat \ {0}
BY PageAssumption DEF Page, Least, WithPageSize

(* Page numbers stay in range. *)
LEMMA PageBounds ==
    ASSUME dir \in Seq(Nat), NEW s \in Nat
    PROVE  /\ Lo(s) \in Nat \ {0} /\ (s > 0 => Lo(s) = s) /\ (s = 0 => Lo(s) = 1)
           /\ Hi(s) \in Nat /\ Hi(s) <= Len(dir)
           /\ Items(s) \in Nat
           /\ Items(s) = 0 <=> Lo(s) > Len(dir)
           /\ Lo(s) <= Len(dir) => Items(s) = Hi(s) - Lo(s) + 1
<1>1. /\ Lo(s) \in Nat \ {0} /\ (s > 0 => Lo(s) = s) /\ (s = 0 => Lo(s) = 1)
    BY DEF Lo, WithStartIndex
<1>2. Page \in Nat \ {0} /\ Len(dir) \in Nat
    BY PagePositive
<1>3. Hi(s) \in Nat /\ Hi(s) <= Len(dir) /\ (Lo(s) <= Len(dir) => Lo(s) <= Hi(s))
    BY <1>1, <1>2 DEF Hi, Least
<1> QED
    BY <1>1, <1>2, <1>3 DEF Items

(* What the server answers. *)
LEMMA ResponseIs ==
    ASSUME dir \in Seq(Nat), NEW s \in Nat
    PROVE  LET res == ListResponse(Lo(s), WithPageSize(PerPage)) IN
           /\ res.ItemsPerPage = Items(s)
           /\ res.TotalResults = Len(dir)
           /\ Range(res.Resources) = {dir[i] : i \in Lo(s)..Hi(s)}
<1> DEFINE q    == paginationParams(Lo(s), WithPageSize(PerPage))
           page == pageSlice(dir, q.startIndex, q.perPage)
<1>0. /\ Lo(s) \in Nat \ {0} /\ Hi(s) \in Nat /\ Hi(s) <= Len(dir) /\ Items(s) \in Nat
    BY PageBounds
<1>1. q.startIndex = Lo(s) /\ q.perPage = Page
    BY <1>0, PageAssumption DEF paginationParams, Page, WithPageSize, Least
<1> Len(dir) \in Nat
    OBVIOUS
<1>a. page = IF Lo(s) - 1 < 0 \/ Lo(s) - 1 >= Len(dir)
             THEN <<>> ELSE SubSeq(dir, Lo(s), Least(Lo(s) - 1 + Page, Len(dir)))
    BY <1>1 DEF pageSlice
<1>b. ListResponse(Lo(s), WithPageSize(PerPage)) =
          [Resources |-> page, ItemsPerPage |-> Len(page), TotalResults |-> Len(dir)]
    BY DEF ListResponse
<1> HIDE DEF page, q
<1>2. CASE Lo(s) > Len(dir)
    <2>1. page = << >>
        BY <1>0, <1>a, <1>2
    <2>2. Lo(s)..Hi(s) = {}
        BY <1>0, <1>2
    <2> QED
        BY <1>b, <1>2, <2>1, <2>2 DEF Items, Range
<1>3. CASE Lo(s) <= Len(dir)
    <2>1. page = SubSeq(dir, Lo(s), Hi(s))
        <3>1. ~(Lo(s) - 1 < 0 \/ Lo(s) - 1 >= Len(dir))
            BY <1>0, <1>3
        <3> QED
            BY <3>1, <1>a, Zenon DEF Hi
    <2>2. Lo(s) <= Hi(s)
        BY <1>0, <1>3, PagePositive DEF Hi, Least
    <2>3. /\ Len(page) = Hi(s) - Lo(s) + 1
          /\ DOMAIN page = 1..(Hi(s) - Lo(s) + 1)
          /\ \A i \in 1..(Hi(s) - Lo(s) + 1) : page[i] = dir[Lo(s) + i - 1]
        BY <1>0, <2>1, <2>2
    <2>4. ASSUME NEW i \in Lo(s)..Hi(s) PROVE \E j \in DOMAIN page : page[j] = dir[i]
        <3>1. i - Lo(s) + 1 \in DOMAIN page
            BY <1>0, <2>3
        <3>2. page[i - Lo(s) + 1] = dir[i]
            BY <1>0, <2>3, <3>1
        <3> QED
            BY <3>1, <3>2
    <2>5. ASSUME NEW j \in DOMAIN page PROVE \E i \in Lo(s)..Hi(s) : page[j] = dir[i]
        <3>1. Lo(s) + j - 1 \in Lo(s)..Hi(s)
            BY <1>0, <2>3
        <3> QED
            BY <1>0, <2>3, <3>1
    <2>6. Range(page) = {dir[i] : i \in Lo(s)..Hi(s)}
        BY <2>4, <2>5 DEF Range
    <2> QED
        BY <1>0, <1>b, <1>3, <2>3, <2>6 DEF Items
<1> QED
    BY <1>0, <1>2, <1>3

(* What one call of either List handler does to the syncer's state.        *)
NextToken(s) == IF s + Items(s) < Len(dir) THEN s + Items(s) ELSE NoToken

LEMMA ListStep ==
    ASSUME TypeOK, UserList \/ GroupList
    PROVE  LET s == getToken(token) IN
           /\ s \in Nat /\ status = "listing"
           /\ status' # "tokenUnchanged"
           /\ listed' = listed \cup {dir[i] : i \in Lo(s)..Hi(s)}
           /\ token' = NextToken(s)
           /\ status' = IF NextToken(s) = NoToken THEN "done" ELSE "listing"
           /\ UNCHANGED <<kind, dir, stayed, inserts, removes>>
<1> DEFINE s   == getToken(token)
           res == ListResponse(Lo(s), WithPageSize(PerPage))
<1>1. s \in Nat /\ dir \in Seq(Nat) /\ Len(dir) \in Nat /\ (token # NoToken => s = token)
    BY DEF TypeOK, getToken
<1> HIDE DEF s
<1>2. /\ res.ItemsPerPage = Items(s) /\ res.TotalResults = Len(dir)
      /\ Range(res.Resources) = {dir[i] : i \in Lo(s)..Hi(s)}
    BY <1>1, ResponseIs
<1> HIDE DEF res
<1>3. /\ status = "listing"
      /\ ListResources([entries |-> res.Resources, nextPage |-> NextToken(s)])
    <2>1. CASE UserList
        BY <2>1, <1>2 DEF UserList, GetUsers, usersNextPage, handleListUsers, NextToken, Lo, s, res
    <2>2. CASE GroupList
        BY <2>2, <1>2 DEF GroupList, GetGroups, groupsNextPage, handleListGroups, NextToken, Lo, s, res
    <2> QED
        BY <2>1, <2>2
<1>4. ~(token # NoToken /\ token = NextToken(s))
    <2> SUFFICES ASSUME token # NoToken, token = NextToken(s) PROVE FALSE
        OBVIOUS
    <2>1. s = s + Items(s) /\ s + Items(s) < Len(dir)
        BY <1>1 DEF NextToken
    <2>2. /\ Items(s) \in Nat /\ Lo(s) \in Nat /\ (s > 0 => Lo(s) = s) /\ (s = 0 => Lo(s) = 1)
          /\ Items(s) = 0 <=> Lo(s) > Len(dir)
        BY <1>1, PageBounds
    <2> QED
        BY <1>1, <2>1, <2>2
<1>5. /\ listed' = listed \cup Range(res.Resources) /\ token' = NextToken(s)
      /\ status' = IF NextToken(s) = NoToken THEN "done" ELSE "listing"
      /\ UNCHANGED <<kind, dir, stayed, inserts, removes>>
    BY <1>3, <1>4 DEF ListResources
<1> QED
    BY <1>1, <1>2, <1>3, <1>5 DEF s

-----------------------------------------------------------------------------
(***************************************************************************)
(* The inductive invariant.  While entries are only added, everything      *)
(* lasting below the page number held has been listed: an insertion moves  *)
(* entries up, never down across that line.  While nothing changes, the    *)
(* page number is a multiple of the page size, and what is listed is known *)
(* up to the entry at that number itself.                                  *)
(***************************************************************************)
Covered == removes = 0 /\ status = "listing" =>
    \A i \in 1..Len(dir) : i < token /\ dir[i] \in stayed => dir[i] \in listed

Unchanged == inserts = 0 /\ removes = 0 =>
    /\ \A i \in 1..Len(dir) : dir[i] = i
    /\ stayed = 1..Len(dir)
    /\ status = "listing" =>
         /\ token = NoToken => listed = {}
         /\ token # NoToken =>
              /\ \E m \in Nat \ {0} : token = m * Page
              /\ token < Len(dir)
              /\ 1..(token - 1) \subseteq listed
              /\ listed \subseteq 1..token

LInv ==
    /\ TypeOK
    /\ token # NoToken => token > 0
    /\ stayed \subseteq 1..MaxEntries
    /\ TokenMoves
    /\ Covered /\ InsertsHideNothing
    /\ Unchanged /\ StaticListing

(* It holds before the first page. *)
LEMMA InitLInv == Init => LInv
<1> SUFFICES ASSUME Init PROVE LInv
    OBVIOUS
<1>1. PICK n \in 0..MaxEntries : dir = [i \in 1..n |-> i]
    BY DEF Init
<1>2. dir \in Seq(Nat) /\ Len(dir) = n /\ \A i \in 1..n : dir[i] = i
    BY <1>1, ChangeAssumption
<1>3. TypeOK
    BY <1>2, ChangeAssumption DEF Init, TypeOK, NoToken, Status
<1>4. Covered /\ InsertsHideNothing
    BY <1>2 DEF Init, Covered, InsertsHideNothing, NoToken
<1>5. Unchanged /\ StaticListing
    BY <1>2 DEF Init, Unchanged, StaticListing
<1> QED
    BY <1>2, <1>3, <1>4, <1>5, ChangeAssumption DEF LInv, Init, TokenMoves

(* Multiples of the page size: none lies strictly between two neighbours.  *)
LEMMA NoMultipleBetween ==
    ASSUME NEW p \in Nat \ {0}, NEW m \in Nat, NEW k \in Nat,
           m * p < k * p, k * p < m * p + p
    PROVE  FALSE
<1>1. m < k
    <2> SUFFICES ASSUME k <= m PROVE FALSE
        OBVIOUS
    <2>1. k * p <= m * p
        BY SMT
    <2> QED
        BY <2>1
<1>2. (m + 1) * p <= k * p
    BY <1>1, SMT
<1>3. (m + 1) * p = m * p + p
    BY SMT
<1> QED
    BY <1>2, <1>3

(* A page keeps the part about additions. *)
LEMMA ListCovered ==
    ASSUME LInv, UserList \/ GroupList
    PROVE  Covered' /\ InsertsHideNothing' /\ (token' # NoToken => token' > 0)
<1> DEFINE s == getToken(token)
<1>1. /\ s \in Nat /\ Len(dir) \in Nat /\ status = "listing"
      /\ listed' = listed \cup {dir[i] : i \in Lo(s)..Hi(s)}
      /\ token' = NextToken(s)
      /\ status' = IF NextToken(s) = NoToken THEN "done" ELSE "listing"
      /\ UNCHANGED <<dir, stayed, inserts, removes>>
    BY ListStep DEF LInv, TypeOK
<1>2. (s > 0 => s = token) /\ dir \in Seq(Nat)
    BY DEF getToken, LInv, TypeOK, NoToken
<1> HIDE DEF s
<1>3. /\ Lo(s) \in Nat \ {0} /\ (s > 0 => Lo(s) = s) /\ (s = 0 => Lo(s) = 1)
      /\ Hi(s) \in Nat /\ Hi(s) <= Len(dir) /\ Items(s) \in Nat
      /\ Items(s) = 0 <=> Lo(s) > Len(dir)
      /\ Lo(s) <= Len(dir) => Items(s) = Hi(s) - Lo(s) + 1
    BY <1>1, <1>2, PageBounds
<1>4. removes = 0 => \A i \in 1..Len(dir) : i < s /\ dir[i] \in stayed => dir[i] \in listed
    BY <1>1, <1>2 DEF LInv, Covered
<1>5. \A i \in 1..Len(dir) : i \in Lo(s)..Hi(s) => dir[i] \in listed'
    BY <1>1
<1>6. removes = 0 => \A i \in 1..Len(dir) : i < s + Items(s) /\ i < Len(dir) /\ dir[i] \in stayed
                        => dir[i] \in listed'
    <2> SUFFICES ASSUME removes = 0, NEW i \in 1..Len(dir), i < s + Items(s), i < Len(dir),
                        dir[i] \in stayed
                 PROVE  dir[i] \in listed'
        OBVIOUS
    <2>1. CASE i < s
        BY <1>1, <1>4, <2>1
    <2>2. CASE i >= s
        <3>1. i \in Lo(s)..Hi(s)
            BY <1>1, <1>3, <2>2
        <3> QED
            BY <1>5, <3>1
    <2> QED
        BY <1>1, <2>1, <2>2
<1>7. CASE s + Items(s) < Len(dir)
    <2>1. token' = s + Items(s) /\ status' = "listing"
        BY <1>1, <1>3, <1>7 DEF NextToken, NoToken
    <2>2. token' > 0
        BY <1>1, <1>3, <1>7, <2>1
    <2>3. Covered'
        BY <1>1, <1>3, <1>6, <1>7, <2>1 DEF Covered
    <2> QED
        BY <2>1, <2>2, <2>3 DEF InsertsHideNothing
<1>8. CASE ~(s + Items(s) < Len(dir))
    <2>1. token' = NoToken /\ status' = "done"
        BY <1>1, <1>8 DEF NextToken
    <2>2. InsertsHideNothing'
        BY <1>1, <1>3, <1>6, <1>8, <2>1 DEF InsertsHideNothing, missed
    <2> QED
        BY <2>1, <2>2 DEF Covered
<1> QED
    BY <1>7, <1>8

(* A page of a directory that does not change. *)
LEMMA ListUnchanged ==
    ASSUME LInv, UserList \/ GroupList
    PROVE  Unchanged' /\ StaticListing'
<1> DEFINE s == getToken(token)
<1>1. /\ s \in Nat /\ Len(dir) \in Nat /\ status = "listing"
      /\ listed' = listed \cup {dir[i] : i \in Lo(s)..Hi(s)}
      /\ token' = NextToken(s)
      /\ status' = IF NextToken(s) = NoToken THEN "done" ELSE "listing"
      /\ UNCHANGED <<dir, stayed, inserts, removes>>
    BY ListStep DEF LInv, TypeOK
<1>2. /\ (s > 0 => s = token /\ token # NoToken) /\ (s = 0 => token = NoToken) /\ dir \in Seq(Nat)
    BY DEF getToken, LInv, TypeOK, NoToken
<1> HIDE DEF s
<1>n. s \in Nat /\ Len(dir) \in Nat
    BY <1>1
<1>3. CASE ~(inserts = 0 /\ removes = 0)
    BY <1>1, <1>3 DEF Unchanged, StaticListing
<1>4. CASE inserts = 0 /\ removes = 0
    <2>1. /\ \A i \in 1..Len(dir) : dir[i] = i
          /\ stayed = 1..Len(dir)
          /\ s = 0 => listed = {}
          /\ s > 0 => /\ \E m \in Nat \ {0} : s = m * Page
                      /\ s < Len(dir)
                      /\ 1..(s - 1) \subseteq listed
                      /\ listed \subseteq 1..s
        BY <1>1, <1>2, <1>4 DEF LInv, Unchanged
    <2>2. /\ Lo(s) \in Nat \ {0} /\ (s > 0 => Lo(s) = s) /\ (s = 0 => Lo(s) = 1)
          /\ Hi(s) \in Nat /\ Hi(s) <= Len(dir) /\ Items(s) \in Nat
          /\ Items(s) = 0 <=> Lo(s) > Len(dir)
          /\ Lo(s) <= Len(dir) => Items(s) = Hi(s) - Lo(s) + 1
        BY <1>1, <1>2, PageBounds
    <2>3. Hi(s) = IF Lo(s) - 1 + Page <= Len(dir) THEN Lo(s) - 1 + Page ELSE Len(dir)
        BY DEF Hi, Least
    <2>4. Page \in Nat \ {0}
        BY PagePositive
    <2>5. listed' = listed \cup (Lo(s)..Hi(s))
        <3>1. \A i \in Lo(s)..Hi(s) : dir[i] = i
            BY <1>n, <2>1, <2>2
        <3>2. {dir[i] : i \in Lo(s)..Hi(s)} = Lo(s)..Hi(s)
            BY <3>1
        <3> QED
            BY <1>1, <3>2
    <2>6. CASE s = 0 /\ s + Items(s) < Len(dir)
        <3>1. Hi(s) = Page /\ Items(s) = Page
            BY <1>1, <2>2, <2>3, <2>4, <2>6
        <3>2. token' = Page /\ status' = "listing" /\ listed' = 1..Page
            BY <1>1, <2>1, <2>2, <2>4, <2>5, <2>6, <3>1 DEF NextToken, NoToken
        <3>3. 1 \in Nat \ {0} /\ Page = 1 * Page
            BY <2>4
        <3>4. /\ \E m \in Nat \ {0} : token' = m * Page
              /\ token' < Len(dir) /\ token' # NoToken
            BY <1>n, <2>4, <2>6, <3>1, <3>2, <3>3 DEF NoToken
        <3>5. 1..(token' - 1) \subseteq listed' /\ listed' \subseteq 1..token'
            BY <2>4, <3>2
        <3> QED
            BY <1>1, <2>1, <3>2, <3>4, <3>5 DEF Unchanged, StaticListing
    <2>7. CASE s = 0 /\ ~(s + Items(s) < Len(dir))
        <3>1. Hi(s) = Len(dir) /\ Len(dir) <= Page
            BY <1>1, <2>2, <2>3, <2>4, <2>7
        <3>2. status' = "done" /\ listed' = 1..Len(dir)
            BY <1>1, <2>1, <2>2, <2>5, <2>7, <3>1 DEF NextToken
        <3>3. ~\E m \in 2..Len(dir) : Len(dir) = m * Page
            <4> SUFFICES ASSUME NEW m \in 2..Len(dir), Len(dir) = m * Page PROVE FALSE
                OBVIOUS
            <4>1. 2 * Page <= m * Page
                BY <1>1, <2>4, SMT
            <4> QED
                BY <1>1, <2>4, <3>1, <4>1
        <3> QED
            BY <1>1, <2>1, <3>2, <3>3 DEF Unchanged, StaticListing, missed
    <2>8. CASE s > 0
        <3>1. PICK m \in Nat \ {0} : s = m * Page
            BY <2>1, <2>8
        <3>2. (m + 1) * Page = s + Page /\ m + 1 \in Nat \ {0} /\ m + 1 >= 2
            BY <2>4, <3>1, SMT
        <3>3. /\ Lo(s) = s /\ s <= Len(dir) /\ Items(s) = Hi(s) - s + 1
              /\ 1..(s - 1) \subseteq listed /\ listed \subseteq 1..s /\ s < Len(dir)
            BY <1>1, <2>1, <2>2, <2>8
        <3>4. s <= Hi(s)
            BY <1>1, <2>2, <2>3, <2>4, <3>3
        <3>5. listed' \subseteq 1..Hi(s) /\ 1..Hi(s) \subseteq listed'
            <4>1. \A i \in 1..Hi(s) : i \in 1..(s - 1) \/ i \in Lo(s)..Hi(s)
                BY <1>n, <2>2, <3>3
            <4>2. \A i \in 1..s : i \in 1..Hi(s)
                BY <1>n, <2>2, <3>4
            <4>3. \A i \in Lo(s)..Hi(s) : i \in 1..Hi(s)
                BY <1>n, <2>2
            <4> QED
                BY <2>5, <3>3, <4>1, <4>2, <4>3
        <3>6. CASE s + Items(s) < Len(dir)
            <4>1. Hi(s) = s - 1 + Page
                BY <1>1, <2>2, <2>3, <2>4, <3>3, <3>6
            <4>2. token' = s + Page /\ status' = "listing"
                BY <1>1, <2>2, <2>4, <3>3, <3>6, <4>1 DEF NextToken, NoToken
            <4>3. /\ \E k \in Nat \ {0} : token' = k * Page
                  /\ token' < Len(dir) /\ token' # NoToken
                <5>1. s + Page < Len(dir) /\ s + Page # NoToken
                    BY <1>n, <2>2, <2>4, <3>3, <3>6, <4>1 DEF NoToken
                <5> QED
                    BY <3>2, <4>2, <5>1
            <4>4. 1..(token' - 1) \subseteq listed' /\ listed' \subseteq 1..token'
                <5>1. 1..(token' - 1) = 1..Hi(s) /\ 1..Hi(s) \subseteq 1..token'
                    BY <1>n, <2>4, <4>1, <4>2
                <5> QED
                    BY <3>5, <5>1
            <4> QED
                BY <1>1, <2>1, <4>2, <4>3, <4>4 DEF Unchanged, StaticListing
        <3>7. CASE ~(s + Items(s) < Len(dir))
            <4>1. status' = "done"
                BY <1>1, <3>7 DEF NextToken
            <4>2. CASE Hi(s) = Len(dir)
                <5>1. stayed' \ listed' = {}
                    BY <1>1, <2>1, <3>5, <4>2
                <5>2. ~\E k \in 2..Len(dir) : Len(dir) = k * Page
                    <6> SUFFICES ASSUME NEW k \in 2..Len(dir), Len(dir) = k * Page PROVE FALSE
                        OBVIOUS
                    <6>1. m * Page < k * Page /\ k * Page < m * Page + Page
                        <7>1. s < Len(dir) /\ Len(dir) < s + Page
                            BY <1>n, <2>2, <2>3, <2>4, <3>3, <3>7, <4>2
                        <7> QED
                            BY <3>1, <7>1
                    <6> QED
                        BY <1>1, <2>4, <6>1, NoMultipleBetween
                <5> QED
                    BY <1>1, <2>1, <4>1, <5>1, <5>2 DEF Unchanged, StaticListing, missed
            <4>3. CASE Hi(s) # Len(dir)
                <5>1. Len(dir) = s + Page /\ Hi(s) = Len(dir) - 1
                    BY <1>1, <2>2, <2>3, <2>4, <3>3, <3>7, <4>3
                <5>2. m + 1 <= (m + 1) * Page
                    BY <2>4, SMT
                <5>3. \E k \in 2..Len(dir) : Len(dir) = k * Page
                    BY <1>1, <3>2, <5>1, <5>2
                <5>4. stayed' \ listed' = {Len(dir)} /\ dir[Len(dir)] = Len(dir)
                    BY <1>1, <2>1, <2>2, <3>3, <3>5, <5>1
                <5> QED
                    BY <1>1, <2>1, <4>1, <5>3, <5>4 DEF Unchanged, StaticListing, missed
            <4> QED
                BY <4>2, <4>3
        <3> QED
            BY <3>6, <3>7
    <2> QED
        BY <1>1, <2>6, <2>7, <2>8
<1> QED
    BY <1>3, <1>4

-----------------------------------------------------------------------------
(* What a concatenation is, position by position. *)
LEMMA ConcatIs ==
    ASSUME NEW c \in Seq(Nat), NEW b \in Seq(Nat)
    PROVE  /\ c \o b \in Seq(Nat)
           /\ Len(c \o b) = Len(c) + Len(b)
           /\ \A j \in 1..(Len(c) + Len(b)) :
                (c \o b)[j] = IF j <= Len(c) THEN c[j] ELSE b[j - Len(c)]
OBVIOUS

(* What the community modules' InsertAt does. *)
LEMMA InsertAtIs ==
    ASSUME NEW d \in Seq(Nat), NEW i \in 1..(Len(d) + 1), NEW e \in Nat
    PROVE  /\ InsertAt(d, i, e) \in Seq(Nat)
           /\ Len(InsertAt(d, i, e)) = Len(d) + 1
           /\ \A j \in 1..(Len(d) + 1) :
                InsertAt(d, i, e)[j] = IF j < i THEN d[j] ELSE IF j = i THEN e ELSE d[j - 1]
<1> DEFINE a == SubSeq(d, 1, i - 1)
           b == SubSeq(d, i, Len(d))
<1>1. /\ a \in Seq(Nat) /\ Len(a) = i - 1 /\ \A j \in 1..(i - 1) : a[j] = d[j]
    OBVIOUS
<1>2. /\ b \in Seq(Nat) /\ Len(b) = Len(d) - i + 1
      /\ \A j \in 1..(Len(d) - i + 1) : b[j] = d[i + j - 1]
    OBVIOUS
<1> HIDE DEF a, b
<1>3. /\ a \o <<e>> \in Seq(Nat) /\ Len(a \o <<e>>) = i
      /\ \A j \in 1..i : (a \o <<e>>)[j] = IF j < i THEN d[j] ELSE e
    BY <1>1
<1>4. InsertAt(d, i, e) = (a \o <<e>>) \o b
    BY DEF InsertAt, a, b
<1> DEFINE c == a \o <<e>>
<1> HIDE DEF c
<1>5. c \in Seq(Nat) /\ Len(c) = i /\ \A j \in 1..i : c[j] = IF j < i THEN d[j] ELSE e
    BY <1>3 DEF c
<1>6. InsertAt(d, i, e) = c \o b
    BY <1>4 DEF c
<1>7. i \in Nat /\ Len(d) \in Nat /\ i <= Len(d) + 1 /\ i >= 1
    OBVIOUS
<1>8. Len(c) = i /\ Len(b) = Len(d) - i + 1 /\ Len(c) + Len(b) = Len(d) + 1
    BY <1>2, <1>5, <1>7
<1>9. /\ c \o b \in Seq(Nat) /\ Len(c \o b) = Len(d) + 1
      /\ \A j \in 1..(Len(d) + 1) : (c \o b)[j] = IF j <= i THEN c[j] ELSE b[j - i]
    <2>1. c \in Seq(Nat) /\ b \in Seq(Nat)
        BY <1>2, <1>5
    <2> QED
        BY <1>8, <2>1, ConcatIs
<1> DEFINE n == Len(d)
           w == c \o b
<1>10. /\ n \in Nat /\ i \in 1..(n + 1)
       /\ \A j \in 1..(n + 1) : w[j] = IF j <= i THEN c[j] ELSE b[j - i]
       /\ \A j \in 1..i : c[j] = IF j < i THEN d[j] ELSE e
       /\ \A j \in 1..(n - i + 1) : b[j] = d[i + j - 1]
    BY <1>2, <1>5, <1>7, <1>9
<1>11. \A j \in 1..(n + 1) : w[j] = IF j < i THEN d[j] ELSE IF j = i THEN e ELSE d[j - 1]
    <2> HIDE DEF n, w
    <2> SUFFICES ASSUME NEW j \in 1..(n + 1)
                 PROVE  w[j] = IF j < i THEN d[j] ELSE IF j = i THEN e ELSE d[j - 1]
        OBVIOUS
    <2>1. CASE j \in 1..i
        BY <1>10, <2>1
    <2>2. CASE j \in (i + 1)..(n + 1)
        <3>1. j - i \in 1..(n - i + 1) /\ i + (j - i) - 1 = j - 1
            BY <1>10, <2>2
        <3>2. b[j - i] = d[j - 1]
            BY <1>10, <3>1
        <3>3. w[j] = b[j - i]
            BY <1>10, <2>2
        <3> QED
            BY <1>10, <2>2, <3>2, <3>3
    <2> QED
        BY <1>10, <2>1, <2>2
<1> QED
    BY <1>6, <1>9, <1>11

(* Removing an entry leaves a sequence of entries. *)
LEMMA RemoveAtType ==
    ASSUME NEW d \in Seq(Nat), NEW i \in 1..Len(d)
    PROVE  RemoveAt(d, i) \in Seq(Nat)
BY DEF RemoveAt

(* An entry added anywhere keeps the invariant. *)
LEMMA InsertLInv ==
    ASSUME LInv, InsertEntry
    PROVE  LInv'
<1>1. PICK i \in 1..(Len(dir) + 1) : dir' = InsertAt(dir, i, NewId)
    BY DEF InsertEntry
<1>2. /\ dir \in Seq(Nat) /\ Len(dir) \in Nat /\ NewId \in Nat /\ NewId > MaxEntries
      /\ inserts' \in 0..MaxInserts /\ inserts' # 0 /\ status' = "listing"
      /\ UNCHANGED <<kind, token, status, listed, stayed, removes>>
    <2>1. dir \in Seq(Nat) /\ inserts \in 0..MaxInserts
        BY DEF LInv, TypeOK
    <2>2. Len(dir) \in Nat
        BY <2>1
    <2>3. /\ inserts < MaxInserts /\ inserts' = inserts + 1 /\ status = "listing"
          /\ UNCHANGED <<kind, token, status, listed, stayed, removes>>
        BY DEF InsertEntry
    <2>4. NewId \in Nat /\ NewId > MaxEntries /\ inserts' \in 0..MaxInserts /\ inserts' # 0
        BY <2>1, <2>3, ChangeAssumption DEF NewId
    <2> QED
        BY <2>1, <2>2, <2>3, <2>4
<1>3. /\ dir' \in Seq(Nat) /\ Len(dir') = Len(dir) + 1
      /\ \A j \in 1..(Len(dir) + 1) :
            dir'[j] = IF j < i THEN dir[j] ELSE IF j = i THEN NewId ELSE dir[j - 1]
    <2> DEFINE x == NewId
               ins == InsertAt(dir, i, x)
    <2>1. dir \in Seq(Nat) /\ i \in 1..(Len(dir) + 1) /\ x \in Nat
        BY <1>2
    <2>2. dir' = ins
        BY <1>1
    <2> HIDE DEF x
    <2>3. /\ ins \in Seq(Nat) /\ Len(ins) = Len(dir) + 1
          /\ \A j \in 1..(Len(dir) + 1) :
                ins[j] = IF j < i THEN dir[j] ELSE IF j = i THEN x ELSE dir[j - 1]
        BY <2>1, InsertAtIs
    <2> HIDE DEF ins
    <2> QED
        BY <2>2, <2>3 DEF x
<1>4. Covered'
    <2> SUFFICES ASSUME removes = 0, status = "listing",
                        NEW j \in 1..(Len(dir) + 1), j < token, dir'[j] \in stayed
                 PROVE  dir'[j] \in listed
        BY <1>2, <1>3 DEF Covered
    <2>0. token \in Int /\ NewId \notin stayed
        BY <1>2, ChangeAssumption DEF LInv, TypeOK, NoToken
    <2>1. CASE j < i
        <3>1. j \in 1..Len(dir) /\ dir'[j] = dir[j]
            BY <1>2, <1>3, <2>1
        <3> QED
            BY <3>1 DEF LInv, Covered
    <2>2. CASE j = i
        BY <1>3, <2>0, <2>2
    <2>3. CASE j > i
        <3>1. j - 1 \in 1..Len(dir) /\ j - 1 < token /\ dir'[j] = dir[j - 1]
            BY <1>2, <1>3, <2>0, <2>3
        <3> QED
            BY <3>1 DEF LInv, Covered
    <2> QED
        BY <2>1, <2>2, <2>3
<1>5. TypeOK'
    BY <1>2, <1>3 DEF LInv, TypeOK
<1> QED
    BY <1>2, <1>4, <1>5 DEF LInv, Unchanged, StaticListing, InsertsHideNothing, TokenMoves

(* Once an entry has been removed, only the types and the token matter.    *)
LEMMA RemoveLInv ==
    ASSUME LInv, RemoveEntry
    PROVE  LInv'
<1>1. PICK i \in 1..Len(dir) : dir' = RemoveAt(dir, i) /\ stayed' = stayed \ {dir[i]}
    BY DEF RemoveEntry
<1>2. dir' \in Seq(Nat)
    BY <1>1, RemoveAtType DEF LInv, TypeOK
<1>3. /\ removes' \in 0..MaxRemoves /\ removes' # 0 /\ status' = "listing"
      /\ UNCHANGED <<kind, token, status, listed, inserts>>
    BY ChangeAssumption DEF LInv, TypeOK, RemoveEntry
<1>4. TypeOK' /\ stayed' \subseteq 1..MaxEntries
    BY <1>1, <1>2, <1>3 DEF LInv, TypeOK
<1> QED
    BY <1>3, <1>4 DEF LInv, Covered, Unchanged, StaticListing, InsertsHideNothing, TokenMoves

(* Every step keeps the invariant. *)
LEMMA NextLInv == LInv /\ [Next]_vars => LInv'
<1> SUFFICES ASSUME LInv, [Next]_vars PROVE LInv'
    OBVIOUS
<1>1. CASE UserList \/ GroupList
    <2> DEFINE s == getToken(token)
    <2>1. /\ s \in Nat /\ token' = NextToken(s) /\ dir \in Seq(Nat)
          /\ listed' = listed \cup {dir[i] : i \in Lo(s)..Hi(s)}
          /\ status' \in {"done", "listing"}
          /\ UNCHANGED <<kind, dir, stayed, inserts, removes>>
        BY <1>1, ListStep DEF LInv, TypeOK
    <2> HIDE DEF s
    <2>2. Items(s) \in Nat /\ Lo(s) \in Nat \ {0} /\ Hi(s) \in Nat /\ Hi(s) <= Len(dir)
        BY <2>1, PageBounds
    <2>3. token' \in Nat \cup {NoToken}
        BY <2>1, <2>2 DEF NextToken
    <2>4. \A i \in Lo(s)..Hi(s) : dir[i] \in Nat
        BY <2>1, <2>2
    <2>5. listed' \in SUBSET Nat
        BY <2>1, <2>4 DEF LInv, TypeOK
    <2>6. TypeOK' /\ stayed' \subseteq 1..MaxEntries /\ TokenMoves'
        BY <2>1, <2>3, <2>5 DEF LInv, TypeOK, Status, TokenMoves
    <2> QED
        BY <1>1, <2>6, ListCovered, ListUnchanged DEF LInv
<1>2. CASE InsertEntry
    BY <1>2, InsertLInv
<1>3. CASE RemoveEntry
    BY <1>3, RemoveLInv
<1>4. CASE Ended \/ UNCHANGED vars
    BY <1>4 DEF Ended, vars, LInv, TypeOK, TokenMoves, Covered, InsertsHideNothing, Unchanged,
       StaticListing, missed
<1> QED
    BY <1>1, <1>2, <1>3, <1>4 DEF Next

(* The invariant holds throughout. *)
THEOREM ListingInvariance == Spec => []LInv
BY InitLInv, NextLInv, PTL DEF Spec

(* Every variable keeps its shape. *)
THEOREM ListingTypeCorrect == Spec => []TypeOK
<1>1. LInv => TypeOK
    BY DEF LInv
<1> QED
    BY <1>1, ListingInvariance, PTL

(* For every page size and every size of an unchanging directory: what is  *)
(* lost is the last entry, and only of two or more full pages.             *)
THEOREM StaticListingExact == Spec => []StaticListing
<1>1. LInv => StaticListing
    BY DEF LInv
<1> QED
    BY <1>1, ListingInvariance, PTL

(* However many entries are added, wherever they land, no lasting entry    *)
(* but the last one is missed.                                             *)
THEOREM InsertsAreHarmless == Spec => []InsertsHideNothing
<1>1. LInv => InsertsHideNothing
    BY DEF LInv
<1> QED
    BY <1>1, ListingInvariance, PTL

(* The SDK's "next page token unchanged" error is never raised.            *)
THEOREM TokenAlwaysMoves == Spec => []TokenMoves
<1>1. LInv => TokenMoves
    BY DEF LInv
<1> QED
    BY <1>1, ListingInvariance, PTL

(* Every page but the last moves the token forward, and into the directory *)
(* the server has at that moment, for every page size and whatever is      *)
(* added or removed in between (client.go GetUsers, GetGroups).            *)
THEOREM PagesGoForward == Spec => PagesAdvance
<1> DEFINE Advance == token' # token => \/ token' = NoToken /\ status' = "done"
                                        \/ token < token' /\ token' < Len(dir)
<1>1. ASSUME TypeOK, UserList \/ GroupList PROVE Advance
    <2> DEFINE s == getToken(token)
    <2>1. s \in Nat /\ Len(dir) \in Nat /\ dir \in Seq(Nat) /\ (token = s \/ (token = NoToken /\ s = 0))
        BY <1>1 DEF TypeOK, getToken
    <2>2. token' = NextToken(s) /\ status' = (IF NextToken(s) = NoToken THEN "done" ELSE "listing")
        BY <1>1, ListStep
    <2> HIDE DEF s
    <2>3. Items(s) \in Nat
        BY <2>1, PageBounds
    <2>4. CASE s + Items(s) < Len(dir)
        <3>1. token' = s + Items(s) /\ token' < Len(dir)
            BY <2>2, <2>4 DEF NextToken
        <3>2. token <= s
            BY <2>1 DEF NoToken
        <3> QED
            BY <2>1, <2>3, <3>1, <3>2 DEF NoToken
    <2>5. CASE ~(s + Items(s) < Len(dir))
        BY <2>2, <2>5 DEF NextToken
    <2> QED
        BY <2>4, <2>5
<1>2. ASSUME InsertEntry \/ RemoveEntry \/ Ended \/ UNCHANGED vars PROVE Advance
    BY <1>2 DEF InsertEntry, RemoveEntry, Ended, vars
<1>3. TypeOK /\ [Next]_vars => [Advance]_vars
    BY <1>1, <1>2 DEF Next
<1> QED
    BY <1>3, ListingTypeCorrect, PTL DEF Spec, PagesAdvance

-----------------------------------------------------------------------------
(***************************************************************************)
(* Removals.  The lasting entries that the listing has passed without      *)
(* returning them are at most one per removal: a removal pulls one entry   *)
(* down across the page number held, an insertion or a page none.          *)
(***************************************************************************)
Passed == {e \in missed : \E i \in 1..Len(dir) : i < token /\ dir[i] = e}

RInv ==
    /\ \A e \in stayed : \E i \in 1..Len(dir) : dir[i] = e
    /\ status = "listing" => Cardinality(Passed) <= removes
    /\ RemovesHideOneEach

(* Sets of lasting entries are finite. *)
LEMMA MissedFinite ==
    ASSUME LInv, NEW S \in SUBSET stayed
    PROVE  IsFiniteSet(S) /\ Cardinality(S) \in Nat
<1>1. IsFiniteSet(1..MaxEntries)
    BY ChangeAssumption, FS_Interval
<1>2. S \in SUBSET (1..MaxEntries)
    BY DEF LInv
<1>3. IsFiniteSet(S)
    BY <1>1, <1>2, FS_Subset
<1> QED
    BY <1>3, FS_CardinalityType

(* A set with at most one element more is at most one larger. *)
LEMMA OneMore ==
    ASSUME NEW S, NEW T, NEW x, IsFiniteSet(S), T \subseteq S \cup {x}
    PROVE  /\ Cardinality(T) \in Nat /\ Cardinality(S) \in Nat
           /\ Cardinality(T) <= Cardinality(S) + 1
<1>1. /\ IsFiniteSet(S \cup {x})
      /\ Cardinality(S \cup {x}) = IF x \in S THEN Cardinality(S) ELSE Cardinality(S) + 1
    BY FS_AddElement
<1>2. IsFiniteSet(T) /\ Cardinality(T) <= Cardinality(S \cup {x})
    BY <1>1, FS_Subset
<1>3. Cardinality(T) \in Nat /\ Cardinality(S) \in Nat
    BY <1>2, FS_CardinalityType
<1> QED
    BY <1>1, <1>2, <1>3

(* A subset is not larger. *)
LEMMA NoMore ==
    ASSUME NEW S, NEW T, IsFiniteSet(S), T \subseteq S
    PROVE  Cardinality(T) \in Nat /\ Cardinality(S) \in Nat /\ Cardinality(T) <= Cardinality(S)
<1>1. IsFiniteSet(T) /\ Cardinality(T) <= Cardinality(S)
    BY FS_Subset
<1> QED
    BY <1>1, FS_CardinalityType

(* What the community modules' RemoveAt does. *)
LEMMA RemoveAtIs ==
    ASSUME NEW d \in Seq(Nat), NEW i \in 1..Len(d)
    PROVE  /\ RemoveAt(d, i) \in Seq(Nat)
           /\ Len(RemoveAt(d, i)) = Len(d) - 1
           /\ \A j \in 1..(Len(d) - 1) : RemoveAt(d, i)[j] = IF j < i THEN d[j] ELSE d[j + 1]
<1> DEFINE a == SubSeq(d, 1, i - 1)
           b == SubSeq(d, i + 1, Len(d))
           n == Len(d)
           w == a \o b
<1>1. /\ a \in Seq(Nat) /\ Len(a) = i - 1 /\ \A j \in 1..(i - 1) : a[j] = d[j]
    OBVIOUS
<1>2. /\ b \in Seq(Nat) /\ Len(b) = n - i /\ \A j \in 1..(n - i) : b[j] = d[i + j]
    OBVIOUS
<1>3. n \in Nat /\ i \in 1..n
    OBVIOUS
<1>4. RemoveAt(d, i) = w
    BY DEF RemoveAt
<1> HIDE DEF a, b, n
<1>5. /\ w \in Seq(Nat) /\ Len(w) = n - 1
      /\ \A j \in 1..(n - 1) : w[j] = IF j <= i - 1 THEN a[j] ELSE b[j - (i - 1)]
    <2>1. Len(a) + Len(b) = n - 1
        BY <1>1, <1>2, <1>3
    <2> QED
        BY <1>1, <1>2, <2>1, ConcatIs
<1> HIDE DEF w
<1>6. ASSUME NEW j \in 1..(n - 1) PROVE w[j] = IF j < i THEN d[j] ELSE d[j + 1]
    <2>1. CASE j < i
        <3>1. j \in 1..(i - 1) /\ j <= i - 1
            BY <1>3, <2>1
        <3>2. a[j] = d[j] /\ w[j] = a[j]
            BY <1>1, <1>5, <3>1
        <3> QED
            BY <2>1, <3>2
    <2>2. CASE j >= i
        <3>1. j - (i - 1) \in 1..(n - i) /\ i + (j - (i - 1)) = j + 1 /\ ~(j <= i - 1)
            BY <1>3, <2>2
        <3>2. b[j - (i - 1)] = d[j + 1]
            BY <1>2, <3>1
        <3>3. w[j] = b[j - (i - 1)]
            BY <1>5, <3>1, Zenon
        <3>4. ~(j < i)
            BY <1>3, <2>2
        <3> QED
            BY <3>2, <3>3, <3>4, Zenon
    <2> QED
        BY <1>3, <2>1, <2>2
<1> QED
    BY <1>4, <1>5, <1>6 DEF n

(* A page passes nothing by; the last one leaves at most the last entry.   *)
LEMMA ListRInv ==
    ASSUME LInv, RInv, UserList \/ GroupList
    PROVE  RInv'
<1> DEFINE s == getToken(token)
<1>1. /\ s \in Nat /\ Len(dir) \in Nat /\ status = "listing"
      /\ listed' = listed \cup {dir[i] : i \in Lo(s)..Hi(s)}
      /\ token' = NextToken(s)
      /\ status' = IF NextToken(s) = NoToken THEN "done" ELSE "listing"
      /\ UNCHANGED <<dir, stayed, inserts, removes>>
    BY ListStep DEF LInv, TypeOK
<1>2. (s > 0 => s = token) /\ dir \in Seq(Nat) /\ removes \in Nat
    BY DEF getToken, LInv, TypeOK, NoToken
<1> HIDE DEF s
<1>3. /\ Lo(s) \in Nat \ {0} /\ (s > 0 => Lo(s) = s) /\ (s = 0 => Lo(s) = 1)
      /\ Hi(s) \in Nat /\ Hi(s) <= Len(dir) /\ Items(s) \in Nat
      /\ Items(s) = 0 <=> Lo(s) > Len(dir)
      /\ Lo(s) <= Len(dir) => Items(s) = Hi(s) - Lo(s) + 1
    BY <1>1, <1>2, PageBounds
<1>4. /\ IsFiniteSet(Passed) /\ Cardinality(Passed) \in Nat /\ Cardinality(Passed) <= removes
    BY <1>1, MissedFinite DEF Passed, missed, RInv
<1>5. missed' \subseteq missed
    BY <1>1 DEF missed
<1>6. ASSUME NEW e \in missed', NEW i \in 1..Len(dir), dir[i] = e, e \notin Passed
      PROVE  i >= s /\ ~(i \in Lo(s)..Hi(s))
    <2>1. i >= s
        <3> SUFFICES ASSUME i < s PROVE FALSE
            BY <1>1
        <3>1. i < token
            BY <1>1, <1>2
        <3> QED
            BY <1>5, <1>6, <3>1 DEF Passed
    <2>2. ~(i \in Lo(s)..Hi(s))
        BY <1>1, <1>6 DEF missed
    <2> QED
        BY <2>1, <2>2
<1>7. CASE s + Items(s) < Len(dir)
    <2>1. token' = s + Items(s) /\ status' = "listing"
        BY <1>1, <1>3, <1>7 DEF NextToken, NoToken
    <2>2. ASSUME NEW e \in Passed' PROVE e \in Passed
        <3>1. PICK i \in 1..Len(dir) : i < token' /\ dir[i] = e
            BY <1>1, <2>2 DEF Passed
        <3>2. i \in Lo(s)..Hi(s) \/ i < s
            BY <1>1, <1>3, <1>7, <2>1, <3>1
        <3>3. e \in missed'
            BY <2>2 DEF Passed
        <3> QED
            BY <1>1, <1>6, <3>1, <3>2, <3>3
    <2>3. Cardinality(Passed') \in Nat /\ Cardinality(Passed') <= Cardinality(Passed)
        BY <1>4, <2>2, NoMore
    <2>4. Cardinality(Passed') <= removes
        BY <1>2, <1>4, <2>3
    <2> QED
        BY <1>1, <2>1, <2>4 DEF RInv, RemovesHideOneEach
<1>8. CASE ~(s + Items(s) < Len(dir))
    <2>1. status' = "done"
        BY <1>1, <1>8 DEF NextToken
    <2>2. ASSUME NEW e \in missed' PROVE e \in Passed \cup {dir[Len(dir)]}
        <3>1. PICK i \in 1..Len(dir) : dir[i] = e
            BY <1>1, <2>2 DEF missed, RInv
        <3>2. e \notin Passed => i = Len(dir)
            <4> SUFFICES ASSUME e \notin Passed PROVE i = Len(dir)
                OBVIOUS
            <4>1. i >= s /\ ~(i \in Lo(s)..Hi(s))
                BY <1>6, <2>2, <3>1
            <4> QED
                BY <1>1, <1>3, <1>8, <4>1
        <3> QED
            BY <3>1, <3>2
    <2>3. Cardinality(missed') <= Cardinality(Passed) + 1 /\ Cardinality(missed') \in Nat
        BY <1>4, <2>2, OneMore
    <2>4. Cardinality(missed') <= removes + 1
        BY <1>2, <1>4, <2>3
    <2>5. RemovesHideOneEach'
        BY <1>1, <2>4 DEF RemovesHideOneEach
    <2> QED
        BY <1>1, <2>1, <2>5 DEF RInv
<1> QED
    BY <1>7, <1>8

(* An entry that is added moves others up, across no line. *)
LEMMA InsertRInv ==
    ASSUME LInv, RInv, InsertEntry
    PROVE  RInv'
<1>1. PICK i \in 1..(Len(dir) + 1) : dir' = InsertAt(dir, i, NewId)
    BY DEF InsertEntry
<1>2. /\ dir \in Seq(Nat) /\ Len(dir) \in Nat /\ NewId \in Nat /\ NewId \notin stayed
      /\ status = "listing" /\ token \in Int /\ removes \in Nat
      /\ UNCHANGED <<token, status, listed, stayed, removes>>
    <2>1. dir \in Seq(Nat) /\ inserts \in Nat /\ token \in Int /\ removes \in Nat
        BY DEF LInv, TypeOK, NoToken
    <2>2. NewId \in Nat /\ NewId \notin stayed
        BY <2>1, ChangeAssumption DEF NewId, LInv
    <2> QED
        BY <2>1, <2>2 DEF InsertEntry
<1>3. /\ Len(dir') = Len(dir) + 1
      /\ \A j \in 1..(Len(dir) + 1) :
            dir'[j] = IF j < i THEN dir[j] ELSE IF j = i THEN NewId ELSE dir[j - 1]
    <2> DEFINE x == NewId
               ins == InsertAt(dir, i, x)
    <2>1. dir \in Seq(Nat) /\ i \in 1..(Len(dir) + 1) /\ x \in Nat
        BY <1>2
    <2>2. dir' = ins
        BY <1>1
    <2> HIDE DEF x
    <2>3. /\ Len(ins) = Len(dir) + 1
          /\ \A j \in 1..(Len(dir) + 1) :
                ins[j] = IF j < i THEN dir[j] ELSE IF j = i THEN x ELSE dir[j - 1]
        BY <2>1, InsertAtIs
    <2> HIDE DEF ins
    <2> QED
        BY <2>2, <2>3 DEF x
<1>4. ASSUME NEW e \in stayed PROVE \E j \in 1..Len(dir') : dir'[j] = e
    <2>1. PICK k \in 1..Len(dir) : dir[k] = e
        BY DEF RInv
    <2>2. CASE k < i
        <3>1. k \in 1..(Len(dir) + 1) /\ dir'[k] = e
            BY <1>2, <1>3, <2>1, <2>2
        <3> QED
            BY <1>3, <3>1
    <2>3. CASE k >= i
        <3>1. k + 1 \in 1..(Len(dir) + 1) /\ ~(k + 1 < i) /\ k + 1 # i /\ (k + 1) - 1 = k
            BY <1>2, <2>3
        <3>2. dir'[k + 1] = e
            BY <1>3, <2>1, <3>1
        <3> QED
            BY <1>3, <3>1, <3>2
    <2> QED
        BY <1>2, <2>2, <2>3
<1>5. ASSUME NEW e \in Passed' PROVE e \in Passed
    <2>1. e \in missed /\ e # NewId
        BY <1>2, <1>5 DEF Passed, missed
    <2>2. PICK j \in 1..(Len(dir) + 1) : j < token /\ dir'[j] = e
        BY <1>2, <1>3, <1>5 DEF Passed
    <2>3. CASE j < i
        <3>1. j \in 1..Len(dir) /\ dir[j] = e
            BY <1>2, <1>3, <2>2, <2>3
        <3> QED
            BY <2>1, <2>2, <3>1 DEF Passed
    <2>4. CASE j > i
        <3>1. j - 1 \in 1..Len(dir) /\ dir[j - 1] = e /\ j - 1 < token
            BY <1>2, <1>3, <2>2, <2>4
        <3> QED
            BY <2>1, <3>1 DEF Passed
    <2>5. CASE j = i
        BY <1>3, <2>1, <2>2, <2>5
    <2> QED
        BY <2>3, <2>4, <2>5
<1>6. IsFiniteSet(Passed) /\ Cardinality(Passed) <= removes
    BY <1>2, MissedFinite DEF Passed, missed, RInv
<1>7. /\ Cardinality(Passed') \in Nat /\ Cardinality(Passed) \in Nat
      /\ Cardinality(Passed') <= Cardinality(Passed)
    BY <1>5, <1>6, NoMore
<1>8. Cardinality(Passed') <= removes
    BY <1>2, <1>6, <1>7
<1> QED
    BY <1>2, <1>4, <1>8 DEF RInv, RemovesHideOneEach

(* An entry that is removed pulls one down across the line. *)
LEMMA RemoveRInv ==
    ASSUME LInv, RInv, RemoveEntry
    PROVE  RInv'
<1>1. PICK i \in 1..Len(dir) : dir' = RemoveAt(dir, i) /\ stayed' = stayed \ {dir[i]}
    BY DEF RemoveEntry
<1>2. /\ dir \in Seq(Nat) /\ Len(dir) \in Nat /\ token \in Int /\ removes \in Nat
      /\ status = "listing" /\ removes' = removes + 1 /\ UNCHANGED <<token, status, listed>>
    BY DEF LInv, TypeOK, NoToken, RemoveEntry
<1>3. /\ Len(dir') = Len(dir) - 1
      /\ \A j \in 1..(Len(dir) - 1) : dir'[j] = IF j < i THEN dir[j] ELSE dir[j + 1]
    BY <1>1, <1>2, RemoveAtIs
<1>4. ASSUME NEW e \in stayed' PROVE \E j \in 1..Len(dir') : dir'[j] = e
    <2>1. PICK k \in 1..Len(dir) : dir[k] = e /\ k # i
        BY <1>1 DEF RInv
    <2>2. CASE k < i
        <3>1. k \in 1..(Len(dir) - 1) /\ dir'[k] = e
            BY <1>2, <1>3, <2>1, <2>2
        <3> QED
            BY <1>3, <3>1
    <2>3. CASE k > i
        <3>1. k - 1 \in 1..(Len(dir) - 1) /\ ~(k - 1 < i) /\ (k - 1) + 1 = k
            BY <1>2, <2>3
        <3>2. dir'[k - 1] = e
            BY <1>3, <2>1, <3>1
        <3> QED
            BY <1>3, <3>1, <3>2
    <2> QED
        BY <1>2, <2>1, <2>2, <2>3
<1>5. ASSUME NEW e \in Passed' PROVE e \in Passed \cup {dir[token]}
    <2>1. e \in missed
        BY <1>1, <1>2, <1>5 DEF Passed, missed
    <2>2. PICK j \in 1..(Len(dir) - 1) : j < token /\ dir'[j] = e
        BY <1>2, <1>3, <1>5 DEF Passed
    <2>3. CASE j < i
        <3>1. j \in 1..Len(dir) /\ dir[j] = e
            BY <1>2, <1>3, <2>2, <2>3
        <3> QED
            BY <2>1, <2>2, <3>1 DEF Passed
    <2>4. CASE j >= i
        <3>1. j + 1 \in 1..Len(dir) /\ dir[j + 1] = e /\ (j + 1 < token \/ j + 1 = token)
            BY <1>2, <1>3, <2>2, <2>4
        <3> QED
            BY <2>1, <3>1 DEF Passed
    <2> QED
        BY <1>2, <2>3, <2>4
<1>6. IsFiniteSet(Passed) /\ Cardinality(Passed) \in Nat /\ Cardinality(Passed) <= removes
    BY <1>2, MissedFinite DEF Passed, missed, RInv
<1>7. Cardinality(Passed') <= Cardinality(Passed) + 1 /\ Cardinality(Passed') \in Nat
    BY <1>5, <1>6, OneMore
<1>8. Cardinality(Passed') <= removes'
    BY <1>2, <1>6, <1>7
<1> QED
    BY <1>2, <1>4, <1>8 DEF RInv, RemovesHideOneEach

(* However many entries are added and removed, for every page size, a      *)
(* listing misses at most one lasting entry per removal, besides the last. *)
THEOREM RemovalsHideAtMostOne == Spec => []RemovesHideOneEach
<1>1. Init => RInv
    <2> SUFFICES ASSUME Init PROVE RInv
        OBVIOUS
    <2>1. PICK n \in 0..MaxEntries : dir = [i \in 1..n |-> i]
        BY DEF Init
    <2>2. Len(dir) = n /\ \A i \in 1..n : dir[i] = i
        BY <2>1, ChangeAssumption
    <2>3. Passed = {}
        BY <2>2 DEF Init, Passed, NoToken
    <2> QED
        BY <2>2, <2>3, FS_EmptySet DEF Init, RInv, RemovesHideOneEach
<1>2. LInv /\ RInv /\ [Next]_vars => RInv'
    <2> SUFFICES ASSUME LInv, RInv, [Next]_vars PROVE RInv'
        OBVIOUS
    <2>1. CASE Ended \/ UNCHANGED vars
        BY <2>1 DEF Ended, vars, RInv, Passed, missed, RemovesHideOneEach
    <2> QED
        BY <2>1, ListRInv, InsertRInv, RemoveRInv DEF Next
<1>3. RInv => RemovesHideOneEach
    BY DEF RInv
<1> QED
    BY <1>1, <1>2, <1>3, ListingInvariance, PTL DEF Spec
=============================================================================
