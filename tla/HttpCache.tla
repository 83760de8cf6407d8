------------------------------ MODULE HttpCache ------------------------------
(***************************************************************************)
(* The response cache inside BaseHttpClient.Do over time: tasks and the    *)
(* sync send GETs through one cache whose entries live for TTL after they  *)
(* were last stored, may be evicted, and are all dropped by ClearCaches at *)
(* the end of a sync.                                                      *)
(*                                                                         *)
(* Do is cut where other goroutines can run: after the lookup, and between *)
(* having an answer and storing it; a hit is stored again, too.  A body is *)
(* sound or one that the caller cannot decode, and Do stores both.         *)
(***************************************************************************)
EXTENDS Naturals

CONSTANTS
    Keys,      \* requests (CreateCacheKey)
    Callers,   \* goroutines that call Do
    TTL,       \* lifetime of an entry (the code: an hour)
    MaxTime,   \* bound: the clock
    MaxClears, \* bound: syncs that end
    MaxBroken  \* bound: undecodable bodies that the server sends

(* With a TTL of 0 the code takes the noop cache. *)
ASSUME TTLAssumption == TTL \in Nat \ {0}
ASSUME LimitsAssumption == MaxTime \in Nat /\ MaxClears \in Nat /\ MaxBroken \in Nat

VARIABLES
    now,     \* the clock
    entry,   \* entry[k]: what is stored for k
    pc,      \* pc[c]: where c is in Do
    key,     \* key[c]: the request c makes
    answer,  \* answer[c]: the answer c holds
    clears,  \* calls of ClearCaches so far
    broken,  \* undecodable bodies sent so far
    asked,   \* history: when a sound, resp. broken, answer to k was last handed to a caller
    carried  \* history: requests whose answers a caller held at the last clear

vars == <<now, entry, pc, key, answer, clears, broken, asked, carried>>

(* era: clears before the server gave the answer. *)
Bodies == {"sound", "broken"}
Answer == [era : 0..MaxClears, body : Bodies]
Entry  == [answer : Answer, until : Nat]

NoAnswer == [era |-> 0, body |-> "sound"]
NoEntry  == [answer |-> NoAnswer, until |-> 0]  \* expired at any time

(* Every variable keeps its shape. *)
TypeOK ==
    /\ now \in Nat
    /\ entry \in [Keys -> Entry]
    /\ pc \in [Callers -> {"idle", "fetch", "store"}]
    /\ key \in [Callers -> Keys]
    /\ answer \in [Callers -> Answer]
    /\ clears \in 0..MaxClears
    /\ broken \in 0..MaxBroken
    /\ asked \in [Keys -> [Bodies -> Nat]]
    /\ carried \in SUBSET Keys

(* The clock starts at TTL, so that nothing was asked within TTL before. *)
Init ==
    /\ now = TTL
    /\ entry = [k \in Keys |-> NoEntry]
    /\ pc = [c \in Callers |-> "idle"]
    /\ key \in [Callers -> Keys]
    /\ answer = [c \in Callers |-> NoAnswer]
    /\ clears = 0
    /\ broken = 0
    /\ asked = [k \in Keys |-> [b \in Bodies |-> 0]]
    /\ carried = {}

-----------------------------------------------------------------------------
Goto(c, step) == pc' = [pc EXCEPT ![c] = step]

(* Mutant: entries are served after their time. *)
StoredEver(k) == entry[k].until > 0

Live(k) == now < entry[k].until

(* Do looks the request up. *)
Get(c, k) ==
    /\ pc[c] = "idle"
    /\ key' = [key EXCEPT ![c] = k]
    /\ IF Live(k) THEN Goto(c, "store") /\ answer' = [answer EXCEPT ![c] = entry[k].answer]
                  ELSE Goto(c, "fetch") /\ UNCHANGED answer
    /\ UNCHANGED <<now, entry, clears, broken, asked, carried>>

(* The server sends a 200; its body may be one that cannot be decoded. *)
Fetch(c) ==
    /\ pc[c] = "fetch"
    /\ \/ /\ answer' = [answer EXCEPT ![c] = [era |-> clears, body |-> "sound"]]
          /\ UNCHANGED broken
       \/ /\ broken < MaxBroken
          /\ broken' = broken + 1
          /\ answer' = [answer EXCEPT ![c] = [era |-> clears, body |-> "broken"]]
    /\ Goto(c, "store")
    /\ UNCHANGED <<now, entry, key, clears, asked, carried>>

(* Another status, or no answer: nothing is stored. *)
FetchFails(c) ==
    /\ pc[c] = "fetch"
    /\ Goto(c, "idle")
    /\ UNCHANGED <<now, entry, key, answer, clears, broken, asked, carried>>

(* Do stores the answer, sound or not, from the server or from the cache,  *)
(* for another TTL - unless there is no room for it - and returns.         *)
Set(c) ==
    /\ pc[c] = "store"
    /\ \/ entry' = [entry EXCEPT ![key[c]] = [answer |-> answer[c], until |-> now + TTL]]
       \/ UNCHANGED entry
    /\ asked' = [asked EXCEPT ![key[c]][answer[c].body] = now]
    /\ Goto(c, "idle")
    /\ UNCHANGED <<now, key, answer, clears, broken, carried>>

Evict(k) ==
    /\ entry[k] # NoEntry
    /\ entry' = [entry EXCEPT ![k] = NoEntry]
    /\ UNCHANGED <<now, pc, key, answer, clears, broken, asked, carried>>

(* Mutant: nothing is invalidated. *)
ClearNothing == UNCHANGED entry

Clear == entry' = [k \in Keys |-> NoEntry]

ClearCaches ==
    /\ clears < MaxClears
    /\ clears' = clears + 1
    /\ Clear
    /\ carried' = {key[c] : c \in {d \in Callers : pc[d] = "store"}}
    /\ UNCHANGED <<now, pc, key, answer, broken, asked>>

Tick ==
    /\ now < MaxTime
    /\ now' = now + 1
    /\ UNCHANGED <<entry, pc, key, answer, clears, broken, asked, carried>>

Next ==
    \/ \E c \in Callers : (\E k \in Keys : Get(c, k)) \/ Fetch(c) \/ FetchFails(c) \/ Set(c)
    \/ \E k \in Keys : Evict(k)
    \/ ClearCaches
    \/ Tick

Spec == Init /\ [][Next]_vars

-----------------------------------------------------------------------------
(***************************************************************************)
(* Properties.                                                             *)
(***************************************************************************)

Carried(k, a) == a.era < clears => k \in carried

(* ClearCaches forgets every answer given before it (sound or broken) -    *)
(* but for the requests whose answer some caller held at that moment: such *)
(* a caller stores it again after the clear (wrapper.go:832-837 against    *)
(* connectorbuilder.go:380), and only those come back.                     *)
ClearForgets ==
    /\ \A k \in Keys : Live(k) => Carried(k, entry[k].answer)
    /\ \A c \in Callers : pc[c] = "store" => Carried(key[c], answer[c])

(* A sound answer is taken from the cache only if a sound one to the same  *)
(* request was handed out within the last TTL, and a body that cannot be   *)
(* decoded only if such a body was (wrapper.go:759-769, 832-839): a caller *)
(* that repeats a failed request may read the same broken body again, but  *)
(* once nobody makes the request for TTL it goes to the server.  (Any      *)
(* answer may outlive any number of TTLs if it is asked for often enough:  *)
(* every hit stores it again.)                                             *)
StaleOnlyIfAsked ==
    [][\A c \in Callers : pc[c] = "idle" /\ pc'[c] = "store" =>
         now < asked[key'[c]][answer'[c].body] + TTL]_vars
==============================================================================
