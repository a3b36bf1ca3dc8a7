------------------------- MODULE StarterSuggestions -------------------------
(***************************************************************************)
(* The example prompts of the idle chat, cached in Redis for every user.   *)
(* Requests that miss the cache at the same time each ask the model, and   *)
(* each writes what came of it over what the others wrote.                 *)
(*                                                                         *)
(* An answer of the model is the number of the generation that made it,    *)
(* 0 the empty list; a time to live is the name of its constant.           *)
(***************************************************************************)
EXTENDS Integers, FiniteSets

CONSTANTS
  Requests,       \* page loads that overlap
  MaxGenerations  \* bound on the generations

VARIABLES
  entry,  \* what Redis holds under _CACHE_KEY
  made,   \* generations begun
  herd,   \* since the entry expired: generations begun, and those of which
          \* nothing was cached (history)
  req     \* where each request is, and what it works on

vars == <<entry, made, herd, req>>

\* stop_after_attempt(5)
MaxAttempts == 5

NoEntry == [kind |-> "none"]
Entry(prompts, ttl) == [kind |-> "entry", prompts |-> prompts, ttl |-> ttl]
Idle == [at |-> "idle"]

Init ==
  /\ entry = NoEntry
  /\ made = 0
  /\ herd = [begun |-> 0, lost |-> 0]
  /\ req = [r \in Requests |-> Idle]

At(r, place) == req[r].at = place
Goto(r, state) == req' = [req EXCEPT ![r] = state]

\* The request reads the cache; a miss asks the model at once.
Load(r) ==
  /\ At(r, "idle")
  /\ IF entry # NoEntry THEN Goto(r, [at |-> "answered", prompts |-> entry.prompts]) /\ UNCHANGED <<made, herd>>
     ELSE /\ made < MaxGenerations
          /\ made' = made + 1
          /\ herd' = [herd EXCEPT !.begun = @ + 1]
          /\ Goto(r, [at |-> "model", id |-> made', tries |-> 1])
  /\ UNCHANGED entry

\* A rate limit, a server or a connection error: asked again.
Transient(r) ==
  /\ At(r, "model")
  /\ Goto(r, IF req[r].tries < MaxAttempts THEN [req[r] EXCEPT !.tries = @ + 1]
             ELSE [at |-> "store", prompts |-> 0])
  /\ UNCHANGED <<entry, made, herd>>

\* Any other exception, also an answer whose prompts are not three.
Rejected(r) ==
  /\ At(r, "model")
  /\ Goto(r, [at |-> "store", prompts |-> 0])
  /\ UNCHANGED <<entry, made, herd>>

\* An answer without prompts at all passes the handler: the assertion behind
\* it raises, the route answers 500 and nothing is cached.
NotStructured(r) ==
  /\ At(r, "model")
  /\ herd' = [herd EXCEPT !.lost = @ + 1]
  /\ Goto(r, [at |-> "raised"])
  /\ UNCHANGED <<entry, made>>

Generated(r) ==
  /\ At(r, "model")
  /\ Goto(r, [at |-> "store", prompts |-> req[r].id])
  /\ UNCHANGED <<entry, made, herd>>

\* Mutant: a failure is not cached.
StoreAnswersOnly(r) ==
  /\ At(r, "store")
  /\ entry' = IF req[r].prompts = 0 THEN entry ELSE Entry(req[r].prompts, "cache")
  /\ Goto(r, [at |-> "answered", prompts |-> req[r].prompts])
  /\ UNCHANGED <<made, herd>>

\* SET with its expiry: the prompts for the hour, a failure for a minute.
Store(r) ==
  /\ At(r, "store")
  /\ entry' = Entry(req[r].prompts, IF req[r].prompts = 0 THEN "failure" ELSE "cache")
  /\ Goto(r, [at |-> "answered", prompts |-> req[r].prompts])
  /\ UNCHANGED <<made, herd>>

\* Redis fails on the read or the write: the route answers 500.
RedisRaises(r) ==
  /\ At(r, "idle") \/ At(r, "store")
  /\ herd' = [herd EXCEPT !.lost = @ + IF At(r, "store") THEN 1 ELSE 0]
  /\ Goto(r, [at |-> "raised"])
  /\ UNCHANGED <<entry, made>>

Again(r) ==
  /\ At(r, "answered") \/ At(r, "raised")
  /\ Goto(r, Idle)
  /\ UNCHANGED <<entry, made, herd>>

Expire ==
  /\ entry # NoEntry
  /\ entry' = NoEntry
  /\ herd' = [begun |-> 0, lost |-> 0]
  /\ UNCHANGED <<made, req>>

Next ==
  \/ Expire
  \/ \E r \in Requests :
       \/ Load(r) \/ Transient(r) \/ Rejected(r) \/ NotStructured(r) \/ Generated(r)
       \/ Store(r) \/ RedisRaises(r) \/ Again(r)

Spec == Init /\ [][Next]_vars

----------------------------------------------------------------------------
(* Properties.                                                             *)

TypeOK ==
  /\ entry = NoEntry \/ entry \in [kind: {"entry"}, prompts: 0..made, ttl: {"cache", "failure"}]
  /\ entry # NoEntry => (entry.ttl = "failure" <=> entry.prompts = 0)
  /\ made \in 0..MaxGenerations
  /\ \A r \in Requests : req[r].at \in {"idle", "model", "store", "answered", "raised"}

\* However often pages are loaded and generations raise, between two expiries
\* each of the overlapping loads asks the model at most once, beyond the
\* generations of which nothing was cached: an exception is remembered too.
\* Not remembered are an answer without prompts, which the assertion behind
\* the handler refuses, and what Redis fails to take.
HerdIsBounded == herd.begun <= Cardinality(Requests) + herd.lost
=============================================================================
