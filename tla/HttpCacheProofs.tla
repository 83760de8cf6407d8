--------------------------- MODULE HttpCacheProofs ---------------------------
(***************************************************************************)
(* Theorems about HttpCache, for any requests, callers, lifetime of an     *)
(* entry, number of clears and length of time.                             *)
(***************************************************************************)
EXTENDS HttpCache, TLAPS

LEMMA NoEntryType == NoAnswer \in Answer /\ NoEntry \in Entry
BY LimitsAssumption DEF NoEntry, NoAnswer, Entry, Answer, Bodies

LEMMA InitType == Init => TypeOK
BY NoEntryType, TTLAssumption, LimitsAssumption DEF Init, TypeOK

LEMMA NextType == ASSUME TypeOK, [Next]_vars PROVE TypeOK'
<1> USE DEF TypeOK
<1>1. ASSUME NEW c \in Callers, NEW k \in Keys, Get(c, k) PROVE TypeOK'
    BY <1>1 DEF Get, Goto, Entry
<1>2. ASSUME NEW c \in Callers, Fetch(c) PROVE TypeOK'
  <2>1. answer' \in [Callers -> Answer] /\ broken' \in 0..MaxBroken
      BY <1>2, LimitsAssumption DEF Fetch, Answer, Bodies
  <2> QED BY <1>2, <2>1 DEF Fetch, Goto
<1>3. ASSUME NEW c \in Callers, FetchFails(c) PROVE TypeOK'
    BY <1>3 DEF FetchFails, Goto
<1>4. ASSUME NEW c \in Callers, Set(c) PROVE TypeOK'
  <2>1. now + TTL \in Nat
      BY TTLAssumption
  <2>2. [answer |-> answer[c], until |-> now + TTL] \in Entry
      BY <2>1 DEF Entry
  <2>3. entry' \in [Keys -> Entry]
      BY <1>4, <2>2 DEF Set
  <2> QED BY <1>4, <2>3 DEF Set, Goto
<1>5. ASSUME NEW k \in Keys, Evict(k) PROVE TypeOK'
    BY <1>5, NoEntryType DEF Evict
<1>6. ASSUME ClearCaches PROVE TypeOK'
    BY <1>6, NoEntryType, LimitsAssumption DEF ClearCaches, Clear
<1>7. ASSUME Tick PROVE TypeOK'
    BY <1>7 DEF Tick
<1>8. CASE UNCHANGED vars
    BY <1>8 DEF vars
<1> QED BY <1>1, <1>2, <1>3, <1>4, <1>5, <1>6, <1>7, <1>8 DEF Next

(* Every variable of the cache keeps its shape. *)
THEOREM CacheTypeCorrect == Spec => []TypeOK
BY InitType, NextType, PTL DEF Spec

-----------------------------------------------------------------------------
(* An entry that is not live yet may be brought back by nobody, but the    *)
(* invariant must not depend on the clock: it speaks of every entry that   *)
(* was ever stored.                                                        *)
ClearInv ==
    /\ \A k \in Keys : entry[k].until > 0 => Carried(k, entry[k].answer)
    /\ \A c \in Callers : pc[c] = "store" => Carried(key[c], answer[c])

LEMMA NextClear == ASSUME TypeOK, ClearInv, [Next]_vars PROVE ClearInv'
<1> USE DEF TypeOK
<1>1. ASSUME NEW c \in Callers, NEW k \in Keys, Get(c, k) PROVE ClearInv'
  <2>1. UNCHANGED <<entry, clears, carried>>
      BY <1>1 DEF Get
  <2>2. ASSUME NEW d \in Callers, pc'[d] = "store" PROVE Carried(key[d], answer[d])'
    <3>1. CASE d = c
      <4>1. Live(k) /\ key'[d] = k /\ answer'[d] = entry[k].answer
          BY <1>1, <2>2, <3>1 DEF Get, Goto
      <4>2. entry[k].until > 0
          BY <4>1 DEF Live, Entry
      <4> QED BY <2>1, <4>1, <4>2 DEF ClearInv, Carried
    <3>2. CASE d # c
      <4>1. pc[d] = "store" /\ key'[d] = key[d] /\ answer'[d] = answer[d]
          BY <1>1, <2>2, <3>2 DEF Get, Goto
      <4> QED BY <2>1, <4>1 DEF ClearInv, Carried
    <3> QED BY <3>1, <3>2
  <2> QED BY <2>1, <2>2 DEF ClearInv, Carried
<1>2. ASSUME NEW c \in Callers, Fetch(c) PROVE ClearInv'
  <2>1. UNCHANGED <<entry, clears, carried, key>> /\ answer'[c].era = clears
      BY <1>2 DEF Fetch
  <2>2. \A d \in Callers : d # c => pc'[d] = pc[d] /\ answer'[d] = answer[d]
      BY <1>2 DEF Fetch, Goto
  <2> QED BY <2>1, <2>2, LimitsAssumption DEF ClearInv, Carried
<1>3. ASSUME NEW c \in Callers, FetchFails(c) PROVE ClearInv'
    BY <1>3 DEF FetchFails, Goto, ClearInv, Carried
<1>4. ASSUME NEW c \in Callers, Set(c) PROVE ClearInv'
  <2>1. UNCHANGED <<clears, carried, key, answer>> /\ pc[c] = "store"
      BY <1>4 DEF Set
  <2>2. \A d \in Callers : pc'[d] = "store" => pc[d] = "store"
      BY <1>4 DEF Set, Goto
  <2>3. ASSUME NEW k \in Keys, entry'[k].until > 0 PROVE Carried(k, entry[k].answer)'
    <3> DEFINE e == [answer |-> answer[c], until |-> now + TTL]
    <3>0. entry' = [entry EXCEPT ![key[c]] = e] \/ entry' = entry
        BY <1>4 DEF Set
    <3> HIDE DEF e
    <3>1. entry'[k] = entry[k] \/ (k = key[c] /\ entry'[k] = e)
        BY <3>0
    <3>2. CASE entry'[k] = entry[k]
        BY <2>1, <2>3, <3>2 DEF ClearInv, Carried
    <3>3. CASE k = key[c] /\ entry'[k] = e
        BY <2>1, <3>3 DEF ClearInv, Carried, e
    <3> QED BY <3>1, <3>2, <3>3
  <2> QED BY <2>1, <2>2, <2>3 DEF ClearInv, Carried
<1>5. ASSUME NEW k \in Keys, Evict(k) PROVE ClearInv'
  <2>1. \A j \in Keys : entry'[j] = entry[j] \/ entry'[j].until = 0
      BY <1>5 DEF Evict, NoEntry
  <2>2. UNCHANGED <<pc, key, answer, clears, carried>>
      BY <1>5 DEF Evict
  <2> QED BY <2>1, <2>2 DEF ClearInv, Carried
<1>6. ASSUME ClearCaches PROVE ClearInv'
  <2>1. \A k \in Keys : entry'[k].until = 0
      BY <1>6 DEF ClearCaches, Clear, NoEntry
  <2>2. \A c \in Callers : pc'[c] = "store" => key'[c] \in carried'
      BY <1>6 DEF ClearCaches
  <2> QED BY <2>1, <2>2 DEF ClearInv, Carried
<1>7. ASSUME Tick PROVE ClearInv'
    BY <1>7 DEF Tick, ClearInv, Carried
<1>8. CASE UNCHANGED vars
    BY <1>8 DEF vars, ClearInv, Carried
<1> QED BY <1>1, <1>2, <1>3, <1>4, <1>5, <1>6, <1>7, <1>8 DEF Next

(* After ClearCaches no answer from before it is served, except of the     *)
(* requests that some caller was about to store when the caches were       *)
(* cleared, however many callers and clears there are.                     *)
THEOREM ClearedIsForgotten == Spec => []ClearForgets
<1>1. Init => ClearInv
    BY DEF Init, ClearInv, NoEntry
<1>2. TypeOK /\ ClearInv => ClearForgets
  <2> SUFFICES ASSUME TypeOK, ClearInv PROVE ClearForgets
      OBVIOUS
  <2>1. \A k \in Keys : Live(k) => entry[k].until > 0
      BY DEF Live, TypeOK, Entry
  <2> QED BY <2>1 DEF ClearInv, ClearForgets
<1> QED BY <1>1, <1>2, NextClear, CacheTypeCorrect, PTL DEF Spec

-----------------------------------------------------------------------------
(* No entry lives longer than TTL after the last answer of its kind to its *)
(* request; nothing was asked in the future.                               *)
LifeInv == \A k \in Keys :
    /\ entry[k].until <= asked[k][entry[k].answer.body] + TTL
    /\ \A b \in Bodies : asked[k][b] <= now

LEMMA NextLife == ASSUME TypeOK, LifeInv, [Next]_vars PROVE LifeInv'
<1> USE TTLAssumption DEF TypeOK
<1>1. ASSUME NEW c \in Callers, Set(c) PROVE LifeInv'
  <2>1. now' = now /\ asked' = [asked EXCEPT ![key[c]][answer[c].body] = now]
      BY <1>1 DEF Set
  <2>2. ASSUME NEW k \in Keys
        PROVE  /\ entry'[k].until <= asked'[k][entry'[k].answer.body] + TTL
               /\ \A b \in Bodies : asked'[k][b] <= now'
    <3>1. CASE k = key[c]
      <4>1. \A b \in Bodies : asked'[k][b] = IF b = answer[c].body THEN now ELSE asked[k][b]
          BY <2>1, <3>1
      <4>2. \A b \in Bodies : asked[k][b] <= asked'[k][b] /\ asked'[k][b] <= now
          BY <4>1 DEF LifeInv
      <4>3. CASE entry'[k] = [answer |-> answer[c], until |-> now + TTL]
        <5>1. answer[c].body \in Bodies
            BY DEF Answer
        <5> QED BY <2>1, <4>1, <4>2, <4>3, <5>1
      <4>4. CASE entry'[k] = entry[k]
        <5>1. entry[k].answer.body \in Bodies /\ entry[k].until \in Nat
            BY DEF Entry, Answer
        <5>2. entry[k].until <= asked[k][entry[k].answer.body] + TTL
            BY DEF LifeInv
        <5>3. \A b \in Bodies : asked[k][b] \in Nat /\ asked'[k][b] \in Nat
            BY <4>1
        <5> QED BY <2>1, <4>2, <4>4, <5>1, <5>2, <5>3
      <4>5. entry'[k] = [answer |-> answer[c], until |-> now + TTL] \/ entry'[k] = entry[k]
          BY <1>1, <3>1 DEF Set
      <4> QED BY <4>3, <4>4, <4>5
    <3>2. CASE k # key[c]
        BY <1>1, <2>1, <3>2 DEF Set, LifeInv
    <3> QED BY <3>1, <3>2
  <2> QED BY <2>2 DEF LifeInv
<1>2. ASSUME NEW k \in Keys, Evict(k) PROVE LifeInv'
    BY <1>2 DEF Evict, NoEntry, NoAnswer, Bodies, LifeInv
<1>3. ASSUME ClearCaches PROVE LifeInv'
    BY <1>3 DEF ClearCaches, Clear, NoEntry, NoAnswer, Bodies, LifeInv
<1>4. ASSUME Tick PROVE LifeInv'
    BY <1>4 DEF Tick, LifeInv
<1>5. CASE UNCHANGED <<now, entry, asked>>
    BY <1>5 DEF LifeInv
<1> QED BY <1>1, <1>2, <1>3, <1>4, <1>5 DEF Next, vars, Get, Fetch, FetchFails

LEMMA HitIsRecent ==
    ASSUME TypeOK, LifeInv, [Next]_vars
    PROVE  [\A c \in Callers : pc[c] = "idle" /\ pc'[c] = "store" =>
              now < asked[key'[c]][answer'[c].body] + TTL]_vars
<1> SUFFICES ASSUME Next, NEW c \in Callers, pc[c] = "idle", pc'[c] = "store"
             PROVE  now < asked[key'[c]][answer'[c].body] + TTL
    OBVIOUS
<1>1. \A d \in Callers : (Fetch(d) \/ FetchFails(d) \/ Set(d)) => pc'[c] = pc[c] \/ pc[c] # "idle"
    BY DEF Fetch, FetchFails, Set, Goto, TypeOK
<1>2. PICK d \in Callers, k \in Keys : Get(d, k)
    BY <1>1 DEF Next, Evict, ClearCaches, Tick
<1>3. d = c /\ Live(k) /\ key'[c] = k /\ answer'[c] = entry[k].answer
    BY <1>2 DEF Get, Goto, TypeOK
<1>4. entry[k].answer.body \in Bodies /\ entry[k].until \in Nat
    BY DEF TypeOK, Entry, Answer
<1> QED BY <1>3, <1>4, TTLAssumption DEF Live, LifeInv, TypeOK

(* A sound, resp. broken, answer comes from the cache only if one of the   *)
(* same kind to the same request was handed out within the last TTL,       *)
(* although every hit restarts the entry's time.                           *)
THEOREM HitsAreRecent == Spec => StaleOnlyIfAsked
<1>1. Init => LifeInv
  <2> SUFFICES ASSUME Init, NEW k \in Keys
               PROVE  /\ entry[k].until <= asked[k][entry[k].answer.body] + TTL
                      /\ \A b \in Bodies : asked[k][b] <= now
      BY DEF LifeInv
  <2>1. entry[k] = NoEntry /\ asked[k] = [b \in Bodies |-> 0] /\ now = TTL
      BY DEF Init
  <2>2. NoEntry.until = 0 /\ NoEntry.answer.body \in Bodies
      BY DEF NoEntry, NoAnswer, Bodies
  <2> QED BY <2>1, <2>2, TTLAssumption
<1> QED BY <1>1, NextLife, HitIsRecent, CacheTypeCorrect, PTL DEF Spec, StaleOnlyIfAsked
==============================================================================
