--------------------------- MODULE ServicesProofs ---------------------------
(***************************************************************************)
(* Proofs about the services that MCServices runs, for any number of       *)
(* searches, requests, renames and fetches: the load a tripped breaker     *)
(* still lets through, reddit's token, the de-duplicated results, the      *)
(* generations of the starter prompts, the sidebar's list, and the types.  *)
(***************************************************************************)
EXTENDS MCServices, ResearchStatusProofs, FiniteSetTheorems, WellFoundedInduction

\* Each service's module brings its own copy of the library's definition.
LEMMA SameCardinality ==
  \A S : Search!Cardinality(S) = Cardinality(S) /\ Suggestions!Cardinality(S) = Cardinality(S)
BY Zenon DEF Search!Cardinality, Suggestions!Cardinality, Cardinality

\* The size of a finite set's subsets.
LEMMA Sizes ==
  ASSUME NEW S, IsFiniteSet(S)
  PROVE  \A A \in SUBSET S :
           /\ IsFiniteSet(A) /\ Cardinality(A) \in Nat /\ Cardinality(A) <= Cardinality(S)
           /\ \A x : x \notin A => Cardinality(A \cup {x}) = Cardinality(A) + 1
           /\ \A x \in A : Cardinality(A \ {x}) = Cardinality(A) - 1
           /\ \A B \in SUBSET A : Cardinality(B) <= Cardinality(A)
<1>1. \A A \in SUBSET S : IsFiniteSet(A) /\ Cardinality(A) <= Cardinality(S)
  BY FS_Subset
<1>2. SUFFICES ASSUME NEW A \in SUBSET S
      PROVE  /\ Cardinality(A) \in Nat
             /\ \A x : x \notin A => Cardinality(A \cup {x}) = Cardinality(A) + 1
             /\ \A x \in A : Cardinality(A \ {x}) = Cardinality(A) - 1
             /\ \A B \in SUBSET A : Cardinality(B) <= Cardinality(A)
  BY <1>1
<1>3. Cardinality(A) \in Nat
  BY <1>1, FS_CardinalityType
<1>4. \A x : x \notin A => Cardinality(A \cup {x}) = Cardinality(A) + 1
  BY <1>1, FS_AddElement
<1>5. \A x \in A : Cardinality(A \ {x}) = Cardinality(A) - 1
  BY <1>1, FS_RemoveElement
<1>6. \A B \in SUBSET A : Cardinality(B) <= Cardinality(A)
  BY <1>1, FS_Subset
<1>7. QED
  BY <1>3, <1>4, <1>5, <1>6

----------------------------------------------------------------------------
(* The sidebar.                                                            *)

Row == [title: 0..renames, pinned: BOOLEAN]

\* What an answer under way will show, a roll-back will restore and a pin
\* will store are states that the row can be in.
BInv ==
  /\ Bar!TypeOK
  /\ renames \in Nat /\ fetch \in Nat /\ listed \in Nat
  /\ \A l \in lists : l.entries \subseteq Row
  /\ calls \subseteq [title: 1..renames, previous: 0..renames, at: {"sent", "applied"}]
  /\ pin.at = "sent" => pin.pinned \in BOOLEAN
  /\ pin.at = "applied" => pin.entry \in Row

LEMMA InitBInv == Bar!Init => BInv
BY DEF Bar!Init, BInv, Bar!TypeOK, Row, Bar!NoPin

LEMMA NextBInv == BInv /\ [Bar!Next]_barVars => BInv'
<1> SUFFICES ASSUME BInv, [Bar!Next]_barVars PROVE BInv'
  OBVIOUS
<1> USE DEF BInv, Bar!TypeOK, Row
<1>1. CASE Bar!Refresh
  BY <1>1 DEF Bar!Refresh
<1>2. CASE Bar!CommitRename
  <2>1. /\ renames' = renames + 1
        /\ \E e \in shown :
             calls' = calls \cup {[title |-> renames + 1, previous |-> e.title, at |-> "sent"]}
        /\ shown' = {[e EXCEPT !.title = renames + 1] : e \in shown}
        /\ UNCHANGED <<stored, fetch, listed, lists, pin>>
    BY <1>2 DEF Bar!CommitRename, Bar!Titled
  <2>2. 0..renames \subseteq 0..(renames + 1) /\ renames + 1 \in Nat
    OBVIOUS
  <2>3. (\A e \in shown : e.title \in 0..renames) /\ shown \subseteq Row /\ stored \in Row
    OBVIOUS
  <2>4. shown' \subseteq Row' /\ stored' \in Row'
    <3>1. \A e \in Row : [e EXCEPT !.title = renames + 1] \in Row'
      BY <2>1, <2>2
    <3>2. QED
      BY <2>1, <2>2, <2>3, <3>1
  <2>5. calls' \subseteq [title: 1..renames', previous: 0..renames', at: {"sent", "applied"}]
    BY <2>1, <2>2, <2>3
  <2>6. \A e \in Row : e \in Row'
    BY <2>1, <2>2
  <2>7. QED
    BY <2>1, <2>2, <2>4, <2>5, <2>6
<1>3. CASE Bar!TogglePin
  <2>1. PICK e \in shown : pin' = [at |-> "sent", pinned |-> ~e.pinned]
    BY <1>3 DEF Bar!TogglePin
  <2>2. pin'.at = "sent" /\ pin'.pinned \in BOOLEAN
    BY <2>1
  <2>3. QED
    BY <1>3, <2>2 DEF Bar!TogglePin
<1>4. CASE Bar!SetPinned
  <2>1. stored' = [stored EXCEPT !.pinned = pin.pinned] /\ pin.at = "sent"
        /\ pin' = [at |-> "applied", entry |-> stored']
        /\ UNCHANGED <<shown, fetch, listed, lists, renames, calls>>
    BY <1>4 DEF Bar!SetPinned
  <2>2. stored' \in Row
    BY <2>1
  <2>3. pin'.at = "applied" /\ pin'.entry = stored'
    BY <2>1
  <2>4. QED
    BY <2>1, <2>2, <2>3
<1>5. CASE Bar!Pinned
  <2>1. pin.entry \in Row /\ shown' = {pin.entry : e \in shown}
    BY <1>5 DEF Bar!Pinned
  <2>2. shown' \subseteq Row
    BY <2>1
  <2>3. QED
    BY <1>5, <2>2 DEF Bar!Pinned, Bar!NoPin
<1>6. CASE Bar!PinFails
  BY <1>6 DEF Bar!PinFails, Bar!NoPin
<1>7. ASSUME NEW f \in 1..fetch, Bar!ListSessions(f)
      PROVE  BInv'
  BY <1>7 DEF Bar!ListSessions
<1>8. ASSUME NEW l \in lists, Bar!Show(l)
      PROVE  BInv'
  BY <1>8 DEF Bar!Show
<1>9. ASSUME NEW c \in calls, Bar!Rename(c) \/ Bar!Renamed(c) \/ Bar!RollBack(c)
      PROVE  BInv'
  <2>1. CASE Bar!Rename(c)
    <3>1. stored' = [stored EXCEPT !.title = c.title] /\ c.title \in 1..renames
          /\ calls' = (calls \ {c}) \cup {[c EXCEPT !.at = "applied"]}
          /\ UNCHANGED <<shown, fetch, listed, lists, renames, pin>>
      BY <2>1 DEF Bar!Rename
    <3>2. [c EXCEPT !.at = "applied"] \in [title: 1..renames, previous: 0..renames, at: {"sent", "applied"}]
      OBVIOUS
    <3>3. stored' \in Row
      BY <3>1
    <3>4. QED
      BY <3>1, <3>2, <3>3
  <2>2. CASE Bar!Renamed(c)
    BY <2>2 DEF Bar!Renamed
  <2>3. CASE Bar!RollBack(c)
    <3>1. c.previous \in 0..renames /\ shown' = {[e EXCEPT !.title = c.previous] : e \in shown}
      BY <2>3 DEF Bar!RollBack, Bar!Titled
    <3>2. \A e \in Row : [e EXCEPT !.title = c.previous] \in Row
      BY <3>1
    <3>3. shown' \subseteq Row
      BY <3>1, <3>2
    <3>4. QED
      BY <2>3, <3>3 DEF Bar!RollBack
  <2>4. QED
    BY <1>9, <2>1, <2>2, <2>3
<1>10. CASE UNCHANGED barVars
  BY <1>10 DEF barVars
<1>11. QED
  BY <1>1, <1>2, <1>3, <1>4, <1>5, <1>6, <1>7, <1>8, <1>9, <1>10 DEF Bar!Next

LEMMA ListStepGrows == BInv /\ [Bar!Next]_barVars => [listed' >= listed]_listed
BY DEF BInv, Bar!TypeOK, Bar!Next, Bar!Refresh, Bar!CommitRename, Bar!TogglePin, Bar!SetPinned,
   Bar!Pinned, Bar!PinFails, Bar!ListSessions, Bar!Show, Bar!Rename, Bar!Renamed, Bar!RollBack, barVars

----------------------------------------------------------------------------
(* The starter prompts.                                                    *)

Busy == {r \in Requests : req[r].at \in {"model", "store"}}

Asking == [at: {"model"}, id: 1..made, tries: 1..Suggestions!MaxAttempts]
Storing == [at: {"store"}, prompts: 0..made]

\* While nothing is cached, each generation since the last expiry is still
\* in the hands of a request, or was lost; while an answer is cached nobody
\* begins one.
GInv ==
  /\ Suggestions!TypeOK
  /\ req = [r \in Requests |-> req[r]]
  /\ \A r \in Requests : (req[r].at = "model" => req[r] \in Asking) /\ (req[r].at = "store" => req[r] \in Storing)
  /\ herd \in [begun: Nat, lost: Nat]
  /\ entry = Suggestions!NoEntry => herd.begun <= Cardinality(Busy) + herd.lost
  /\ herd.begun <= Cardinality(Requests) + herd.lost

LEMMA InitGInv == Suggestions!Init => GInv
<1> SUFFICES ASSUME Suggestions!Init PROVE GInv
  OBVIOUS
<1>1. Busy \in SUBSET Requests
  BY DEF Busy
<1>2. Cardinality(Busy) \in Nat /\ Cardinality(Requests) \in Nat
  BY <1>1, Sizes, ServicesAssumption
<1>3. QED
  BY <1>2, ServicesAssumption DEF Suggestions!Init, GInv, Suggestions!TypeOK, Suggestions!NoEntry, Suggestions!Idle

\* A step of a request makes it busy or idle, and nobody else.
LEMMA BusyAfter ==
  ASSUME GInv, NEW r \in Requests, NEW v, Suggestions!Goto(r, v)
  PROVE  /\ Busy' = IF v.at \in {"model", "store"} THEN Busy \cup {r} ELSE Busy \ {r}
         /\ req' = [q \in Requests |-> req'[q]]
         /\ req'[r] = v /\ \A q \in Requests \ {r} : req'[q] = req[q]
         /\ Busy \in SUBSET Requests /\ Busy' \in SUBSET Requests
         /\ Cardinality(Busy) \in Nat /\ Cardinality(Busy') \in Nat /\ Cardinality(Requests) \in Nat
         /\ Cardinality(Busy) <= Cardinality(Requests)
         /\ Cardinality(Busy') <= Cardinality(Requests)
<1>1. /\ req' = [q \in Requests |-> req'[q]]
      /\ req'[r] = v /\ \A q \in Requests \ {r} : req'[q] = req[q]
  BY DEF GInv, Suggestions!Goto
<1>2. Busy' = IF v.at \in {"model", "store"} THEN Busy \cup {r} ELSE Busy \ {r}
  BY <1>1 DEF Busy
<1>3. Busy \in SUBSET Requests /\ Busy' \in SUBSET Requests /\ Requests \in SUBSET Requests
  BY DEF Busy
<1>4. QED
  BY <1>1, <1>2, <1>3, Sizes, ServicesAssumption

LEMMA NextGInv == GInv /\ [Suggestions!Next]_suggestVars => GInv'
<1> SUFFICES ASSUME GInv, [Suggestions!Next]_suggestVars PROVE GInv'
  OBVIOUS
<1>0. Cardinality(Requests) \in Nat
  BY Sizes, ServicesAssumption
<1>1. CASE Suggestions!Expire
  <2>1. Cardinality(Busy') \in Nat
    <3>1. Busy' \in SUBSET Requests
      BY DEF Busy
    <3>2. QED
      BY <3>1, Sizes, ServicesAssumption
  <2>2. QED
    BY <1>0, <1>1, <2>1 DEF Suggestions!Expire, GInv, Suggestions!TypeOK, Asking, Storing
<1>2. CASE UNCHANGED suggestVars
  BY <1>2 DEF suggestVars, GInv, Suggestions!TypeOK, Asking, Storing, Busy
<1>3. ASSUME NEW r \in Requests,
             \/ Suggestions!Load(r) \/ Suggestions!Transient(r) \/ Suggestions!Rejected(r)
             \/ Suggestions!NotStructured(r)
             \/ Suggestions!Generated(r) \/ Suggestions!Store(r) \/ Suggestions!RedisRaises(r)
             \/ Suggestions!Again(r)
      PROVE  GInv'
  <2>1. PICK v : Suggestions!Goto(r, v)
    BY <1>3 DEF Suggestions!Load, Suggestions!Transient, Suggestions!Rejected, Suggestions!NotStructured, Suggestions!Generated,
                Suggestions!Store, Suggestions!RedisRaises, Suggestions!Again
  <2>2. /\ Busy' = IF v.at \in {"model", "store"} THEN Busy \cup {r} ELSE Busy \ {r}
        /\ req' = [q \in Requests |-> req'[q]]
        /\ req'[r] = v /\ \A q \in Requests \ {r} : req'[q] = req[q]
        /\ Busy \in SUBSET Requests /\ Cardinality(Busy) \in Nat /\ Cardinality(Busy') \in Nat
        /\ Cardinality(Busy) <= Cardinality(Requests)
        /\ Cardinality(Busy') <= Cardinality(Requests)
    BY <2>1, BusyAfter
  \* The numbers are the library's.
  <2>3. /\ r \notin Busy => Cardinality(Busy \cup {r}) = Cardinality(Busy) + 1
        /\ r \in Busy => Cardinality(Busy \ {r}) = Cardinality(Busy) - 1
        /\ r \in Busy => Busy \cup {r} = Busy
        /\ r \notin Busy => Busy \ {r} = Busy
    BY <2>2, Sizes, ServicesAssumption
  <2>4. r \in Busy <=> req[r].at \in {"model", "store"}
    BY DEF Busy
  <2>5. CASE Suggestions!Load(r)
    <3>1. CASE entry # Suggestions!NoEntry
      <4>1. req'[r].at = "answered" /\ UNCHANGED <<entry, made, herd>> /\ req[r].at = "idle"
        BY <2>2, <2>5, <3>1 DEF Suggestions!Load, Suggestions!At, Suggestions!Goto, GInv
      <4>2. QED
        BY <2>2, <3>1, <4>1 DEF GInv, Suggestions!TypeOK, Asking, Storing
    <3>2. CASE entry = Suggestions!NoEntry
      <4>1. /\ req'[r] = [at |-> "model", id |-> made + 1, tries |-> 1]
            /\ made < MaxGenerations /\ made' = made + 1 /\ entry' = entry
            /\ herd' = [herd EXCEPT !.begun = @ + 1] /\ req[r].at = "idle"
        BY <2>2, <2>5, <3>2 DEF Suggestions!Load, Suggestions!At, Suggestions!Goto, GInv
      <4>2. Cardinality(Busy') = Cardinality(Busy) + 1
        BY <2>2, <2>3, <2>4, <4>1
      <4>3. /\ made \in Nat /\ 0..made \subseteq 0..made' /\ 1..made \subseteq 1..made'
            /\ made' \in 0..MaxGenerations /\ made' \in 1..made'
        BY <4>1, ServicesAssumption DEF GInv, Suggestions!TypeOK
      <4>4. req'[r] \in Asking'
        BY <4>1, <4>3 DEF Asking, Suggestions!MaxAttempts
      <4>5. \A q \in Requests : (req'[q].at = "model" => req'[q] \in Asking') /\ (req'[q].at = "store" => req'[q] \in Storing')
        BY <2>2, <4>1, <4>3, <4>4 DEF GInv, Asking, Storing
      <4>6. herd' \in [begun: Nat, lost: Nat] /\ herd'.begun = herd.begun + 1 /\ herd'.lost = herd.lost
        BY <4>1 DEF GInv
      <4>7. herd'.begun <= Cardinality(Busy') + herd'.lost
        BY <2>2, <3>2, <4>2, <4>6 DEF GInv
      <4>8. Suggestions!TypeOK'
        BY <2>2, <3>2, <4>1, <4>3 DEF GInv, Suggestions!TypeOK, Suggestions!NoEntry
      <4>9. QED
        BY <1>0, <2>2, <4>5, <4>6, <4>7, <4>8 DEF GInv
    <3>3. QED
      BY <3>1, <3>2
  <2>6. CASE Suggestions!Transient(r) \/ Suggestions!Rejected(r) \/ Suggestions!Generated(r)
    <3>1. UNCHANGED <<entry, made, herd>> /\ req[r].at = "model" /\ made \in Nat
      BY <2>6, ServicesAssumption
         DEF Suggestions!Transient, Suggestions!Rejected, Suggestions!Generated, Suggestions!At,
             GInv, Suggestions!TypeOK
    <3>2. req[r] \in Asking
      BY <3>1 DEF GInv
    <3>3. req'[r] \in Asking \/ req'[r] \in Storing
      <4>1. CASE Suggestions!Transient(r) /\ req[r].tries < Suggestions!MaxAttempts
        <5>1. req'[r] = [req[r] EXCEPT !.tries = @ + 1]
          BY <2>2, <4>1 DEF Suggestions!Transient, Suggestions!Goto, GInv
        <5>2. QED
          BY <3>2, <4>1, <5>1 DEF Asking, Suggestions!MaxAttempts
      <4>2. CASE ~(Suggestions!Transient(r) /\ req[r].tries < Suggestions!MaxAttempts)
        <5>1. req'[r] = [at |-> "store", prompts |-> 0] \/ req'[r] = [at |-> "store", prompts |-> req[r].id]
          BY <2>2, <2>6, <4>2
             DEF Suggestions!Transient, Suggestions!Rejected, Suggestions!Generated, Suggestions!Goto, GInv
        <5>2. QED
          BY <3>1, <3>2, <5>1 DEF Asking, Storing
      <4>3. QED
        BY <4>1, <4>2
    <3>4. Busy' = Busy /\ req'[r].at \in {"model", "store"}
      BY <2>2, <2>3, <2>4, <3>1, <3>3 DEF Asking, Storing
    <3>5. \A q \in Requests : (req'[q].at = "model" => req'[q] \in Asking) /\ (req'[q].at = "store" => req'[q] \in Storing)
      BY <2>2, <3>3 DEF GInv, Asking, Storing
    <3>6. QED
      BY <2>2, <3>1, <3>4, <3>5 DEF GInv, Suggestions!TypeOK, Asking, Storing
  <2>7. CASE Suggestions!Store(r)
    <3>1. /\ req[r].at = "store" /\ req'[r].at = "answered" /\ UNCHANGED <<made, herd>>
          /\ entry' = Suggestions!Entry(req[r].prompts, IF req[r].prompts = 0 THEN "failure" ELSE "cache")
      BY <2>2, <2>7 DEF Suggestions!Store, Suggestions!At, Suggestions!Goto, GInv
    <3>2. req[r].prompts \in 0..made
      BY <3>1 DEF GInv, Storing
    <3>3. Suggestions!TypeOK'
      BY <2>2, <3>1, <3>2 DEF GInv, Suggestions!TypeOK, Suggestions!Entry, Suggestions!NoEntry
    <3>4. entry' # Suggestions!NoEntry
      BY <3>1 DEF Suggestions!Entry, Suggestions!NoEntry
    <3>5. QED
      BY <2>2, <3>1, <3>3, <3>4 DEF GInv, Asking, Storing
  <2>8. CASE Suggestions!RedisRaises(r) \/ Suggestions!NotStructured(r)
    <3>1. /\ req[r].at \in {"idle", "model", "store"} /\ req'[r].at = "raised" /\ UNCHANGED <<entry, made>>
          /\ herd' = [herd EXCEPT !.lost = @ + IF req[r].at \in {"model", "store"} THEN 1 ELSE 0]
      BY <2>2, <2>8 DEF Suggestions!RedisRaises, Suggestions!NotStructured, Suggestions!At, Suggestions!Goto, GInv
    <3>2. /\ herd' \in [begun: Nat, lost: Nat] /\ herd'.begun = herd.begun
          /\ herd'.lost = herd.lost + IF req[r].at \in {"model", "store"} THEN 1 ELSE 0
      BY <3>1 DEF GInv
    <3>3. Busy' = Busy \ {r}
      BY <2>2, <3>1
    <3>4. Cardinality(Busy') = Cardinality(Busy) - IF req[r].at \in {"model", "store"} THEN 1 ELSE 0
      <4>1. CASE req[r].at \in {"model", "store"}
        BY <2>3, <2>4, <3>3, <4>1
      <4>2. CASE req[r].at = "idle"
        BY <2>2, <2>3, <2>4, <3>3, <4>2
      <4>3. QED
        BY <3>1, <4>1, <4>2
    <3>5. QED
      BY <1>0, <2>2, <3>1, <3>2, <3>4 DEF GInv, Suggestions!TypeOK, Asking, Storing
  <2>9. CASE Suggestions!Again(r)
    <3>1. /\ req[r].at \in {"answered", "raised"} /\ req'[r].at = "idle" /\ UNCHANGED <<entry, made, herd>>
      BY <2>2, <2>9 DEF Suggestions!Again, Suggestions!At, Suggestions!Goto, Suggestions!Idle, GInv
    <3>2. Busy' = Busy
      BY <2>2, <2>3, <2>4, <3>1
    <3>3. QED
      BY <2>2, <3>1, <3>2 DEF GInv, Suggestions!TypeOK, Asking, Storing
  <2>10. QED
    BY <1>3, <2>5, <2>6, <2>7, <2>8, <2>9
<1>4. QED
  BY <1>1, <1>2, <1>3 DEF Suggestions!Next

LEMMA GInvBounds == GInv => Suggestions!TypeOK /\ HerdIsBounded
BY SameCardinality DEF GInv, HerdIsBounded, Suggestions!HerdIsBounded
----------------------------------------------------------------------------
(* The searches.                                                           *)

Breakers == [state: {"closed", "open", "half"}, fails: 0..FailMax]
Trying(n) == {s \in Searches : tries[s] = n}

\* While the breaker is open, what has been sent since and the retries that
\* the calls then running still have come to no more than they had.
Budget ==
  /\ breaker.state # "open" => trip = Search!NoTrip
  /\ breaker.state = "open" =>
       trip.sent + 2 * Cardinality(Trying(1)) + Cardinality(Trying(2)) <= 2 * trip.flying

\* A token is stored before its expiry is: the one at hand is never older
\* than the one the expiry belongs to.
TokenOrder ==
  /\ {token, expires, received, lapsed} \subseteq Nat
  /\ lapsed <= expires /\ expires <= token /\ token <= received

TInv ==
  /\ Search!TypeOK
  /\ tries \in [Searches -> 0..3] /\ using \in [Searches -> Nat] /\ waits \subseteq Searches
  /\ trip \in [sent: Nat, flying: Nat]
  /\ Budget /\ TokenOrder

LEMMA BreakerMoves ==
  ASSUME NEW b \in Breakers
  PROVE  /\ Search!Fail(b) \subseteq Breakers
         /\ \A c \in Search!Succeed(b) : c \in Breakers /\ c.state \in {b.state, "closed"}
         /\ \A a \in Search!Admit(b) :
              /\ a.breaker \in Breakers /\ a.in \in BOOLEAN
              /\ a.in => a.breaker.state # "open"
              /\ ~a.in => a.breaker = b /\ b.state = "open"
<1>1. Search!Fail(b) \subseteq Breakers
  <2>1. CASE b.fails + 1 >= FailMax
    BY <2>1, ServicesAssumption DEF Search!Fail, Breakers
  <2>2. CASE ~(b.fails + 1 >= FailMax)
    <3>1. b.fails + 1 \in 0..FailMax
      BY <2>2, ServicesAssumption DEF Breakers
    <3> DEFINE more == [b EXCEPT !.fails = @ + 1]
    <3>2. more \in Breakers
      BY <3>1 DEF Breakers
    <3>3. [more EXCEPT !.state = "open"] \in Breakers
      BY <3>2 DEF Breakers
    <3>4. Search!Fail(b) \subseteq {more, [more EXCEPT !.state = "open"]}
      BY <2>2, Zenon DEF Search!Fail, Search!With
    <3>5. QED
      BY <3>2, <3>3, <3>4
  <2>3. QED
    BY <2>1, <2>2
<1>2. \A c \in Search!Succeed(b) : c \in Breakers /\ c.state \in {b.state, "closed"}
  <2> DEFINE reset == [b EXCEPT !.fails = 0]
  <2>1. reset \in Breakers /\ reset.state = b.state
    BY ServicesAssumption DEF Breakers
  <2>2. [reset EXCEPT !.state = "closed"] \in Breakers /\ [reset EXCEPT !.state = "closed"].state = "closed"
    BY <2>1 DEF Breakers
  <2>3. Search!Succeed(b) = {reset, [reset EXCEPT !.state = "closed"]}
    BY Zenon DEF Search!Succeed, Search!With
  <2> HIDE DEF reset
  <2>4. QED
    BY <2>1, <2>2, <2>3
<1>3. \A a \in Search!Admit(b) :
        /\ a.breaker \in Breakers /\ a.in \in BOOLEAN
        /\ a.in => a.breaker.state # "open"
        /\ ~a.in => a.breaker = b /\ b.state = "open"
  <2> DEFINE half == [b EXCEPT !.state = "half"]
  <2>1. half \in Breakers /\ half.state = "half"
    BY DEF Breakers
  <2>2. Search!Admit(b) = IF b.state # "open" THEN {[breaker |-> b, in |-> TRUE]}
                          ELSE {[breaker |-> b, in |-> FALSE], [breaker |-> half, in |-> TRUE]}
    BY Zenon DEF Search!Admit, Search!With
  <2> HIDE DEF half
  <2>3. SUFFICES ASSUME NEW a \in Search!Admit(b)
        PROVE  /\ a.breaker \in Breakers /\ a.in \in BOOLEAN
               /\ a.in => a.breaker.state # "open"
               /\ ~a.in => a.breaker = b /\ b.state = "open"
    OBVIOUS
  <2>4. \/ b.state # "open" /\ a = [breaker |-> b, in |-> TRUE]
        \/ b.state = "open" /\ a = [breaker |-> b, in |-> FALSE]
        \/ a = [breaker |-> half, in |-> TRUE]
    BY <2>2
  <2>5. CASE b.state # "open" /\ a = [breaker |-> b, in |-> TRUE]
    BY <2>5
  <2>6. CASE b.state = "open" /\ a = [breaker |-> b, in |-> FALSE]
    BY <2>6
  <2>7. CASE a = [breaker |-> half, in |-> TRUE]
    BY <2>1, <2>7
  <2>8. QED
    BY <2>4, <2>5, <2>6, <2>7
<1>4. QED
  BY <1>1, <1>2, <1>3

\* A search that enters or leaves a call, whatever becomes of the breaker.
LEMMA CallKeepsBudget ==
  ASSUME TInv, NEW s \in Searches, NEW b \in Breakers, NEW n \in {0, 1},
         Search!Breaker(s, b), tries' = [tries EXCEPT ![s] = n],
         b.state = "open" => n = 0
  PROVE  Budget' /\ trip' \in [sent: Nat, flying: Nat] /\ breaker' = b
<1> USE DEF Search!NoTrip
<1>1. /\ breaker' = b
      /\ trip' = IF b.state # "open" THEN Search!NoTrip
                 ELSE IF breaker.state = "open" THEN trip
                 ELSE [sent |-> 0, flying |-> Cardinality({r \in Searches \ {s} : Search!InCall(r)})]
  BY SameCardinality DEF Search!Breaker
<1>2. CASE b.state # "open"
  BY <1>1, <1>2 DEF Budget, TInv
<1>3. CASE b.state = "open"
  <2> DEFINE F == {r \in Searches \ {s} : Search!InCall(r)}
  <2>1. tries \in [Searches -> 0..3]
    BY DEF TInv
  <2>2. Trying(1)' = Trying(1) \ {s} /\ Trying(2)' = Trying(2) \ {s}
    BY <1>3, <2>1 DEF Trying
  <2>3. F \in SUBSET Searches /\ Trying(1)' \in SUBSET F /\ Trying(2)' \in SUBSET F
    BY <2>1, <2>2 DEF Trying, Search!InCall
  <2>4. Trying(1) \in SUBSET Searches /\ Trying(2) \in SUBSET Searches
    BY DEF Trying
  <2>5. /\ Cardinality(Trying(1)) \in Nat /\ Cardinality(Trying(2)) \in Nat
        /\ Cardinality(Trying(1)') \in Nat /\ Cardinality(Trying(2)') \in Nat
        /\ Cardinality(Trying(1)') <= Cardinality(Trying(1))
        /\ Cardinality(Trying(2)') <= Cardinality(Trying(2))
        /\ Cardinality(F) \in Nat
    BY <2>2, <2>3, <2>4, Sizes, ServicesAssumption
  <2>6. CASE breaker.state = "open"
    <3>1. trip' = trip /\ trip \in [sent: Nat, flying: Nat]
      BY <1>1, <1>3, <2>6 DEF TInv
    <3>2. trip.sent + 2 * Cardinality(Trying(1)) + Cardinality(Trying(2)) <= 2 * trip.flying
      BY <2>6 DEF TInv, Budget
    <3>3. trip.sent + 2 * Cardinality(Trying(1)') + Cardinality(Trying(2)') <= 2 * trip.flying
      BY <2>5, <3>1, <3>2
    <3>4. QED
      BY <1>1, <1>3, <3>1, <3>3 DEF Budget
  <2>7. CASE breaker.state # "open"
    <3>1. trip' = [sent |-> 0, flying |-> Cardinality(F)]
      BY <1>1, <1>3, <2>7
    \* The two sets are disjoint parts of the calls that run.
    <3>2. Cardinality(Trying(1)') + Cardinality(Trying(2)') <= Cardinality(F)
      <4>1. IsFiniteSet(F) /\ IsFiniteSet(Trying(1)') /\ IsFiniteSet(Trying(2)')
        BY <2>3, Sizes, ServicesAssumption
      <4>2. Trying(1)' \cap Trying(2)' = {}
        BY DEF Trying
      <4>3. Cardinality(Trying(1)' \cup Trying(2)') = Cardinality(Trying(1)') + Cardinality(Trying(2)')
        <5>1. Cardinality(Trying(1)' \cup Trying(2)') =
                Cardinality(Trying(1)') + Cardinality(Trying(2)') - Cardinality(Trying(1)' \cap Trying(2)')
          BY <4>1, FS_Union
        <5>2. Cardinality(Trying(1)' \cap Trying(2)') = 0
          BY <4>2, FS_EmptySet
        <5>3. QED
          BY <2>5, <5>1, <5>2
      <4>4. Trying(1)' \cup Trying(2)' \in SUBSET F
        BY <2>3
      <4>5. Cardinality(Trying(1)' \cup Trying(2)') <= Cardinality(F)
        BY <4>1, <4>4, FS_Subset
      <4>6. QED
        BY <4>3, <4>5
    <3>3. 2 * Cardinality(Trying(1)') + Cardinality(Trying(2)') <= 2 * Cardinality(F)
      BY <2>5, <3>2
    <3>4. trip'.sent = 0 /\ trip'.flying = Cardinality(F) /\ trip' \in [sent: Nat, flying: Nat]
      BY <2>5, <3>1
    <3>5. QED
      BY <1>1, <1>3, <2>5, <3>3, <3>4 DEF Budget
  <2>8. QED
    BY <2>6, <2>7
<1>4. QED
  BY <1>2, <1>3

\* A retry spends what its call had left.
LEMMA RetryKeepsBudget ==
  ASSUME TInv, NEW s \in Searches, Search!Retry(s)
  PROVE  Budget' /\ trip' \in [sent: Nat, flying: Nat]
<1>1. /\ tries \in [Searches -> 0..3] /\ tries[s] \in {1, 2}
      /\ tries' = [tries EXCEPT ![s] = @ + 1] /\ breaker' = breaker
      /\ trip \in [sent: Nat, flying: Nat]
  BY DEF TInv, Search!Retry, Search!TypeOK, Search!InCall, Search!MaxAttempts
<1>2. CASE breaker.state # "open"
  BY <1>1, <1>2 DEF Search!Retry, TInv, Budget
<1>3. CASE breaker.state = "open"
  <2>1. trip'.sent = trip.sent + 1 /\ trip'.flying = trip.flying /\ trip' \in [sent: Nat, flying: Nat]
    BY <1>1, <1>3 DEF Search!Retry
  <2>2. Trying(1) \in SUBSET Searches /\ Trying(2) \in SUBSET Searches
    BY DEF Trying
  <2>3. Cardinality(Trying(1)) \in Nat /\ Cardinality(Trying(2)) \in Nat
    BY <2>2, Sizes, ServicesAssumption
  <2>4. trip.sent + 2 * Cardinality(Trying(1)) + Cardinality(Trying(2)) <= 2 * trip.flying
    BY <1>3 DEF TInv, Budget
  <2>5. CASE tries[s] = 1
    <3>1. Trying(1)' = Trying(1) \ {s} /\ Trying(2)' = Trying(2) \cup {s} /\ s \in Trying(1) /\ s \notin Trying(2)
      BY <1>1, <2>5 DEF Trying
    <3>2. /\ Cardinality(Trying(1)') = Cardinality(Trying(1)) - 1
          /\ Cardinality(Trying(2)') = Cardinality(Trying(2)) + 1
      BY <2>2, <3>1, Sizes, ServicesAssumption
    <3>3. QED
      BY <1>1, <1>3, <2>1, <2>3, <2>4, <3>2 DEF Budget
  <2>6. CASE tries[s] = 2
    <3>1. Trying(1)' = Trying(1) /\ Trying(2)' = Trying(2) \ {s} /\ s \in Trying(2)
      BY <1>1, <2>6 DEF Trying
    <3>2. Cardinality(Trying(2)') = Cardinality(Trying(2)) - 1
      BY <2>2, <3>1, Sizes, ServicesAssumption
    <3>3. QED
      BY <1>1, <1>3, <2>1, <2>3, <2>4, <3>1, <3>2 DEF Budget
  <2>7. QED
    BY <1>1, <2>5, <2>6
<1>4. QED
  BY <1>2, <1>3

Stages == {"idle", "token", "search", "summaries", "done", "error"}

LEMMA InitTInv == Search!Init => TInv
<1> SUFFICES ASSUME Search!Init PROVE TInv
  OBVIOUS
<1>1. breaker = [state |-> "closed", fails |-> 0] /\ breaker \in [state: {"closed", "open", "half"}, fails: 0..FailMax]
  BY ServicesAssumption DEF Search!Init
<1>2. QED
  BY <1>1 DEF Search!Init, TInv, Search!TypeOK, Search!InCall, Search!MaxAttempts, Budget, TokenOrder, Search!NoTrip

\* What entering or leaving a call leaves of the types.
LEMMA CallTypes ==
  ASSUME TInv, NEW s \in Searches \ waits, NEW n \in {0, 1}, NEW p \in Stages,
         n = 1 <=> p \in {"token", "search"},
         breaker' \in Breakers, waits' = waits,
         stage' = [stage EXCEPT ![s] = p], tries' = [tries EXCEPT ![s] = n]
  PROVE  Search!TypeOK' /\ tries' \in [Searches -> 0..3] /\ waits' \subseteq Searches
<1>1. /\ stage \in [Searches -> Stages] /\ tries \in [Searches -> 0..3] /\ waits \subseteq Searches
      /\ \A r \in Searches : tries[r] > 0 <=> stage[r] \in {"token", "search"}
      /\ \A r \in waits : tries[r] > 0 /\ tries[r] < 3
  BY DEF TInv, Search!TypeOK, Search!InCall, Search!MaxAttempts, Stages
<1>2. stage' \in [Searches -> Stages] /\ tries' \in [Searches -> 0..3]
  BY <1>1
<1>3. stage'[s] = p /\ tries'[s] = n /\ \A r \in Searches \ {s} : stage'[r] = stage[r] /\ tries'[r] = tries[r]
  BY <1>1
<1>4. \A r \in Searches : tries'[r] > 0 <=> stage'[r] \in {"token", "search"}
  BY <1>1, <1>3
<1>5. \A r \in waits' : tries'[r] > 0 /\ tries'[r] < 3
  BY <1>1, <1>3
<1>6. QED
  BY <1>1, <1>2, <1>4, <1>5 DEF Search!TypeOK, Search!InCall, Search!MaxAttempts, Breakers, Stages

\* A call that is let in, or refused.
LEMMA EnterKeeps ==
  ASSUME TInv, NEW s \in Searches \ waits, NEW b \in Breakers, NEW to \in {"token", "search"},
         Search!Enter(s, b, to), waits' = waits
  PROVE  /\ Search!TypeOK' /\ tries' \in [Searches -> 0..3] /\ waits' \subseteq Searches
         /\ Budget' /\ trip' \in [sent: Nat, flying: Nat]
         /\ \E p \in {to, "error"} : stage' = [stage EXCEPT ![s] = p]
<1>1. PICK a \in Search!Admit(b) :
        /\ Search!Breaker(s, a.breaker)
        /\ stage' = [stage EXCEPT ![s] = IF a.in THEN to ELSE "error"]
        /\ tries' = [tries EXCEPT ![s] = IF a.in THEN 1 ELSE 0]
  BY Zenon DEF Search!Enter, Search!Set
<1>2. /\ a.breaker \in Breakers /\ a.in \in BOOLEAN
      /\ a.in => a.breaker.state # "open"
  BY BreakerMoves
<1>3. PICK n \in {0, 1}, p \in Stages :
        /\ tries' = [tries EXCEPT ![s] = n] /\ stage' = [stage EXCEPT ![s] = p]
        /\ n = 1 <=> p \in {"token", "search"}
        /\ p \in {to, "error"}
        /\ a.breaker.state = "open" => n = 0
  <2>1. CASE a.in
    <3>1. tries' = [tries EXCEPT ![s] = 1] /\ stage' = [stage EXCEPT ![s] = to] /\ a.breaker.state # "open"
      BY <1>1, <1>2, <2>1
    <3>2. 1 \in {0, 1} /\ to \in Stages /\ to \in {"token", "search"}
      BY DEF Stages
    <3>3. QED
      BY <3>1, <3>2
  <2>2. CASE ~a.in
    <3>1. tries' = [tries EXCEPT ![s] = 0] /\ stage' = [stage EXCEPT ![s] = "error"]
      BY <1>1, <1>2, <2>2
    <3>2. 0 \in {0, 1} /\ "error" \in Stages /\ "error" \notin {"token", "search"} /\ 0 # 1
      BY DEF Stages
    <3>3. QED
      BY <3>1, <3>2
  <2>3. QED
    BY <2>1, <2>2
<1>4. Budget' /\ trip' \in [sent: Nat, flying: Nat] /\ breaker' = a.breaker
  BY <1>1, <1>2, <1>3, CallKeepsBudget
<1>5. Search!TypeOK' /\ tries' \in [Searches -> 0..3] /\ waits' \subseteq Searches
  BY <1>2, <1>3, <1>4, CallTypes
<1>6. QED
  BY <1>3, <1>4, <1>5

\* A call that is over.
LEMMA LeaveKeeps ==
  ASSUME TInv, NEW s \in Searches \ waits, NEW b \in Breakers, NEW p \in {"summaries", "done", "error"},
         Search!Breaker(s, b), waits' = waits,
         stage' = [stage EXCEPT ![s] = p], tries' = [tries EXCEPT ![s] = 0]
  PROVE  /\ Search!TypeOK' /\ tries' \in [Searches -> 0..3] /\ waits' \subseteq Searches
         /\ Budget' /\ trip' \in [sent: Nat, flying: Nat]
<1>1. Budget' /\ trip' \in [sent: Nat, flying: Nat] /\ breaker' = b
  BY CallKeepsBudget
<1>2. p \in Stages /\ ~(p \in {"token", "search"}) /\ 0 \in {0, 1} /\ breaker' \in Breakers
  BY <1>1 DEF Stages
<1>3. 0 = 1 <=> p \in {"token", "search"}
  BY <1>2
<1>4. Search!TypeOK' /\ tries' \in [Searches -> 0..3] /\ waits' \subseteq Searches
  BY <1>2, <1>3, CallTypes
<1>5. QED
  BY <1>1, <1>4

LEMMA NextTInv == TInv /\ [Search!Next]_searchVars => TInv'
<1> SUFFICES ASSUME TInv, [Search!Next]_searchVars PROVE TInv'
  OBVIOUS
<1> DEFINE Fine == /\ Search!TypeOK' /\ tries' \in [Searches -> 0..3] /\ waits' \subseteq Searches
                   /\ Budget' /\ trip' \in [sent: Nat, flying: Nat]
<1>1. /\ breaker \in Breakers /\ using \in [Searches -> Nat] /\ tries \in [Searches -> 0..3] /\ TokenOrder
      /\ trip \in [sent: Nat, flying: Nat] /\ waits \subseteq Searches
      /\ stage \in [Searches -> Stages]
      /\ \A r \in Searches : tries[r] > 0 <=> stage[r] \in {"token", "search"}
      /\ \A r \in waits : tries[r] > 0 /\ tries[r] < 3
  BY DEF TInv, Search!TypeOK, Breakers, Stages, Search!InCall, Search!MaxAttempts
<1>2. CASE UNCHANGED searchVars
  BY <1>2 DEF searchVars, TInv, Search!TypeOK, Search!InCall, Budget, TokenOrder, Trying
<1>3. CASE Search!Lapse
  BY <1>3 DEF Search!Lapse, Search!tokens, Search!pages, TInv, Search!TypeOK, Search!InCall, Budget, TokenOrder, Trying
<1>4. ASSUME NEW s \in Searches, Search!SearchStep(s)
      PROVE  TInv'
  <2>1. stage[s] = "idle" => s \notin waits
    BY <1>1
  <2>2. Search!Replied(s) => s \in Searches \ waits
    BY DEF Search!Replied
  <2>3. CASE Search!SearchWithKey(s)
    <3>1. /\ Search!Enter(s, breaker, "search") /\ s \in Searches \ waits /\ waits' = waits
          /\ UNCHANGED <<token, expires, received, lapsed, using>>
      BY <1>1, <2>1, <2>3 DEF Search!SearchWithKey, Search!tokens
    <3>2. Fine
      BY <1>1, <3>1, EnterKeeps
    <3>3. QED
      BY <1>1, <3>1, <3>2 DEF TInv, TokenOrder
  <2>4. CASE Search!SearchReddit(s)
    <3>1. PICK to \in {"token", "search"}, t \in {0, token} :
            /\ Search!Enter(s, breaker, to) /\ using' = [using EXCEPT ![s] = t]
            /\ s \in Searches \ waits /\ waits' = waits
            /\ UNCHANGED <<token, expires, received, lapsed>>
      BY <1>1, <2>1, <2>4 DEF Search!SearchReddit, Search!tokens, Search!Set
    <3>2. Fine
      BY <1>1, <3>1, EnterKeeps
    <3>3. using' \in [Searches -> Nat]
      BY <1>1, <3>1 DEF TokenOrder
    <3>4. QED
      BY <1>1, <3>1, <3>2, <3>3 DEF TInv, TokenOrder
  <2>5. CASE Search!TokenReply(s)
    <3>1. PICK b \in Search!Succeed(breaker) :
            \/ /\ token' = received' /\ expires' = received' /\ using' = [using EXCEPT ![s] = token']
               /\ Search!Enter(s, b, "search")
            \/ /\ token' \in {token, received'} /\ Search!Breaker(s, b) /\ Search!Raise(s)
               /\ UNCHANGED <<expires, using>>
      BY <2>5 DEF Search!TokenReply, Search!Set
    <3>2. /\ s \in Searches \ waits /\ waits' = waits /\ b \in Breakers
          /\ received' = received + 1 /\ lapsed' = lapsed
      BY <1>1, <2>2, <2>5, BreakerMoves DEF Search!TokenReply
    <3>3. CASE /\ token' = received' /\ expires' = received' /\ using' = [using EXCEPT ![s] = token']
               /\ Search!Enter(s, b, "search")
      <4>1. Fine
        BY <3>2, <3>3, EnterKeeps
      <4>2. using' \in [Searches -> Nat] /\ TokenOrder'
        BY <1>1, <3>2, <3>3 DEF TokenOrder
      <4>3. QED
        BY <4>1, <4>2 DEF TInv
    <3>4. CASE /\ token' \in {token, received'} /\ Search!Breaker(s, b) /\ Search!Raise(s)
               /\ UNCHANGED <<expires, using>>
      <4>1. Fine
        BY <3>2, <3>4, LeaveKeeps DEF Search!Raise, Search!Set
      <4>2. using' \in [Searches -> Nat] /\ TokenOrder'
        BY <1>1, <3>2, <3>4 DEF TokenOrder
      <4>3. QED
        BY <4>1, <4>2 DEF TInv
    <3>5. QED
      BY <3>1, <3>3, <3>4
  <2>6. CASE Search!SearchReply(s)
    <3>1. /\ s \in Searches \ waits /\ waits' = waits
          /\ UNCHANGED <<token, expires, received, lapsed, using>>
          /\ \E b \in Search!Succeed(breaker) : Search!Breaker(s, b)
          /\ tries' = [tries EXCEPT ![s] = 0]
          /\ \E p \in {"summaries", "done", "error"} : stage' = [stage EXCEPT ![s] = p]
      BY <2>2, <2>6 DEF Search!SearchReply, Search!Raise, Search!Collect, Search!Set, Search!tokens
    <3>2. PICK b \in Breakers : Search!Breaker(s, b)
      BY <1>1, <3>1, BreakerMoves
    <3>3. Fine
      BY <3>1, <3>2, LeaveKeeps
    <3>4. QED
      BY <1>1, <3>1, <3>3 DEF TInv, TokenOrder
  <2>7. CASE Search!Rejected(s) \/ (Search!Transient(s) /\ ~(tries[s] < Search!MaxAttempts))
    <3>1. /\ s \in Searches \ waits /\ waits' = waits
          /\ UNCHANGED <<token, expires, received, lapsed, using>>
          /\ \E b \in Search!Fail(breaker) : Search!Breaker(s, b)
          /\ tries' = [tries EXCEPT ![s] = 0]
          /\ stage' = [stage EXCEPT ![s] = "error"]
      BY <2>2, <2>7 DEF Search!Rejected, Search!Transient, Search!Raise, Search!Set, Search!tokens
    <3>2. PICK b \in Breakers : Search!Breaker(s, b)
      BY <1>1, <3>1, BreakerMoves
    <3>3. Fine
      BY <3>1, <3>2, LeaveKeeps
    <3>4. QED
      BY <1>1, <3>1, <3>3 DEF TInv, TokenOrder
  <2>8. CASE Search!Transient(s) /\ tries[s] < Search!MaxAttempts
    <3>1. /\ waits' = waits \cup {s} /\ tries[s] > 0 /\ tries[s] < 3
          /\ UNCHANGED <<token, expires, received, lapsed, using, breaker, trip, stage, tries>>
      BY <2>8 DEF Search!Transient, Search!tokens, Search!Replied, Search!InCall, Search!MaxAttempts
    <3>2. QED
      BY <1>1, <3>1 DEF TInv, TokenOrder, Search!TypeOK, Search!InCall, Search!MaxAttempts, Budget, Trying
  <2>9. CASE Search!Retry(s)
    <3>1. Budget' /\ trip' \in [sent: Nat, flying: Nat]
      BY <2>9, RetryKeepsBudget
    <3>2. /\ s \in waits /\ waits' = waits \ {s} /\ tries' = [tries EXCEPT ![s] = @ + 1]
          /\ UNCHANGED <<token, expires, received, lapsed, using, breaker, stage>>
      BY <2>9 DEF Search!Retry, Search!tokens
    <3>3. /\ tries' \in [Searches -> 0..3] /\ tries'[s] > 0
          /\ \A r \in Searches \ {s} : tries'[r] = tries[r]
      BY <1>1, <3>2
    <3>4. \A r \in waits' : tries'[r] > 0 /\ tries'[r] < 3
      BY <1>1, <3>2, <3>3
    <3>5. \A r \in Searches : tries'[r] > 0 <=> stage'[r] \in {"token", "search"}
      BY <1>1, <3>2, <3>3
    <3>6. Search!TypeOK'
      BY <1>1, <3>2, <3>3, <3>4, <3>5 DEF Search!TypeOK, Search!InCall, Search!MaxAttempts, Breakers, Stages
    <3>7. QED
      BY <1>1, <3>1, <3>2, <3>3, <3>6 DEF TInv, TokenOrder
  <2>10. CASE Search!Summarize(s) \/ Search!Another(s)
    <3>1. PICK p \in {"summaries", "done", "idle"}, t \in Nat :
            /\ stage' = [stage EXCEPT ![s] = p]
            /\ using' = [using EXCEPT ![s] = t]
            /\ ~(stage[s] \in {"token", "search"})
            /\ UNCHANGED <<token, expires, received, lapsed, breaker, trip, tries, waits>>
      <4>1. CASE Search!Another(s)
        BY <4>1 DEF Search!Another, Search!Set, Search!tokens
      <4>2. CASE Search!Summarize(s)
        <5>1. using' = [using EXCEPT ![s] = using[s]] /\ using[s] \in Nat
          BY <1>1, <4>2 DEF Search!Summarize
        <5>2. /\ stage[s] = "summaries"
              /\ UNCHANGED <<token, expires, received, lapsed, breaker, trip, tries, waits>>
          BY <4>2 DEF Search!Summarize, Search!tokens
        <5>3. stage' = [stage EXCEPT ![s] = "done"] \/ stage' = [stage EXCEPT ![s] = "summaries"]
          BY <1>1, <4>2 DEF Search!Summarize, Search!Set
        <5>4. QED
          BY <5>1, <5>2, <5>3
      <4>3. QED
        BY <2>10, <4>1, <4>2
    <3>2. /\ stage' \in [Searches -> Stages] /\ using' \in [Searches -> Nat]
          /\ stage'[s] = p /\ \A r \in Searches \ {s} : stage'[r] = stage[r]
      BY <1>1, <3>1 DEF Stages
    <3>3. \A r \in Searches : tries'[r] > 0 <=> stage'[r] \in {"token", "search"}
      BY <1>1, <3>1, <3>2
    <3>4. Search!TypeOK'
      BY <1>1, <3>1, <3>2, <3>3 DEF Search!TypeOK, Search!InCall, Search!MaxAttempts, Breakers, Stages
    <3>5. QED
      BY <1>1, <3>1, <3>2, <3>4 DEF TInv, TokenOrder, Budget, Trying
  <2>11. QED
    BY <1>4, <2>3, <2>4, <2>5, <2>6, <2>7, <2>8, <2>9, <2>10 DEF Search!SearchStep
<1>5. QED
  BY <1>2, <1>3, <1>4 DEF Search!Next

LEMMA TInvBounds == TInv => Search!TypeOK /\ TripShedsLoad
<1> SUFFICES ASSUME TInv PROVE Search!TypeOK /\ TripShedsLoad
  OBVIOUS
<1>1. Trying(1) \in SUBSET Searches /\ Trying(2) \in SUBSET Searches
  BY DEF Trying
<1>2. Cardinality(Trying(1)) \in Nat /\ Cardinality(Trying(2)) \in Nat
  BY <1>1, Sizes, ServicesAssumption
<1>3. trip.sent <= 2 * trip.flying
  BY <1>2 DEF TInv, Budget, Search!NoTrip
<1>4. QED
  BY <1>3 DEF TInv, TripShedsLoad, Search!TripShedsLoad, Search!MaxAttempts

\* Only a search that enters its call begins to send, with the token that it
\* has at hand and found unexpired, or with the one that just came.
LEMMA SearchStepIsFresh ==
  TInv /\ [Search!Next]_searchVars =>
    [\A s \in Searches :
       (tool = "reddit" /\ stage[s] # "search" /\ stage'[s] = "search") => using'[s] > lapsed]_Search!vars
<1> SUFFICES ASSUME TInv, [Search!Next]_searchVars, NEW s \in Searches,
                    tool = "reddit", stage[s] # "search", stage'[s] = "search"
             PROVE  using'[s] > lapsed
  OBVIOUS
<1>1. /\ using \in [Searches -> Nat] /\ stage \in [Searches -> Stages] /\ TokenOrder
  BY DEF TInv, Search!TypeOK, Stages
<1>2. PICK r \in Searches : Search!SearchStep(r)
  BY DEF Search!Next, Search!Lapse, searchVars
<1>3. r = s /\ (Search!SearchReddit(s) \/ Search!TokenReply(s))
  BY <1>1, <1>2 DEF Search!SearchStep, Search!SearchWithKey, Search!SearchReddit, Search!TokenReply,
       Search!SearchReply, Search!Rejected, Search!Transient, Search!Retry,
       Search!Summarize, Search!Another, Search!Raise, Search!Collect, Search!Enter, Search!Set
<1>4. CASE Search!SearchReddit(s)
  <2>1. Search!HasToken
    BY <1>1, <1>4 DEF Search!SearchReddit, Search!Enter, Search!Set
  <2>2. using'[s] = token
    BY <1>1, <1>4, <2>1 DEF Search!SearchReddit, Search!Set
  <2>3. QED
    BY <1>1, <2>1, <2>2 DEF Search!HasToken, TokenOrder
<1>5. CASE Search!TokenReply(s)
  <2>1. using'[s] = received'
    BY <1>1, <1>5 DEF Search!TokenReply, Search!Raise, Search!Set
  <2>2. QED
    BY <1>1, <1>5, <2>1 DEF Search!TokenReply, TokenOrder
<1>6. QED
  BY <1>3, <1>4, <1>5

----------------------------------------------------------------------------
(* The results of a search.  What a fold returns for every answer is the   *)
(* one fact here that needs induction; the library has it as a theorem     *)
(* about an operator, the lemmas get it from the well-foundedness of Nat.  *)

\* The library's well-foundedness of Nat, as a statement about a set: what
\* holds of 0 and of every successor holds of every number.
LEMMA LeastNat ==
  ASSUME NEW T, T \subseteq Nat, T # {}
  PROVE \E x \in T : \A y \in T : x <= y
<1>1. IsWellFoundedOn(OpToRel(<, Nat), Nat)
  BY NatLessThanWellFounded
<1>2. PICK x \in T : \A y \in T : ~(<<y, x>> \in OpToRel(<, Nat))
  BY <1>1, WFMin
<1>3. ASSUME NEW y \in T, y < x PROVE FALSE
  <2>1. <<y, x>> \in Nat \X Nat
    OBVIOUS
  <2>2. OpToRel(<, Nat) = {ss \in Nat \X Nat : ss[1] < ss[2]}
    BY Zenon DEF OpToRel
  <2>3. <<y, x>> \in {ss \in Nat \X Nat : ss[1] < ss[2]}
    BY <1>3, <2>1
  <2>4. <<y, x>> \in OpToRel(<, Nat)
    BY Zenon, <2>2, <2>3
  <2>5. QED
    BY Zenon, <1>2, <2>4
<1>4. QED
  <2>1. \A y \in T : ~(y < x)
    BY Zenon, <1>3
  <2>2. QED
    BY <2>1

LEMMA Induction ==
  ASSUME NEW T, 0 \in T, \A n \in Nat : n \in T => n + 1 \in T
  PROVE  Nat \subseteq T
<1> DEFINE Bad == {n \in Nat : n \notin T}
<1>1. SUFFICES ASSUME Bad # {} PROVE FALSE
  OBVIOUS
<1>2. PICK n \in Bad : \A m \in Bad : n <= m
  BY <1>1, LeastNat
<1>3. n # 0 /\ n - 1 \in Nat /\ n - 1 \notin Bad
  BY <1>2
<1>4. QED
  BY <1>2, <1>3

\* FoldLeft takes the positions of the answer from the last one down.
Top(s) == CHOOSE m \in s : \A y \in s : m >= y

LEMMA TopIsLast ==
  ASSUME NEW n \in Nat, NEW s \in SUBSET (1..n), s # {}
  PROVE  Top(s) \in s /\ \A y \in s : y <= Top(s)
<1> DEFINE Bounds == {m \in Nat : \A y \in s : y <= m}
<1>1. n \in Bounds
  OBVIOUS
<1>2. PICK m \in Bounds : \A k \in Bounds : m <= k
  BY <1>1, LeastNat
<1>3. m \in s
  <2>1. SUFFICES ASSUME m \notin s PROVE FALSE
    OBVIOUS
  <2>2. m # 0 /\ m - 1 \in Nat
    <3>1. PICK y \in s : y \in 1..n /\ y <= m
      BY <1>2
    <3>2. QED
      BY <3>1
  <2>3. \A y \in s : y <= m - 1
    BY <1>2, <2>1
  <2>4. QED
    BY <1>2, <2>2, <2>3
<1>4. \E x \in s : \A y \in s : x >= y
  BY <1>2, <1>3
<1>5. Top(s) \in s /\ \A y \in s : Top(s) >= y
  BY <1>4, Zenon DEF Top
<1>6. QED
  BY <1>5

\* One step of the fold that de-duplicates, and the fold as a whole.
Noting(results, seen, i) ==
  IF Search!Contains(seen, results[i]) THEN seen ELSE Append(seen, results[i])
Folded(results, f, s) == IF s = {} THEN <<>> ELSE Noting(results, f[s \ {Top(s)}], Top(s))

LEMMA FoldExists ==
  ASSUME NEW results, NEW n \in Nat
  PROVE  \E f : f = [s \in SUBSET (1..n) |-> Folded(results, f, s)]
<1> DEFINE Upto(k, f) == /\ f = [s \in SUBSET (1..n) |-> f[s]]
                         /\ \A s \in SUBSET (1..n) : s \subseteq 1..k => f[s] = Folded(results, f, s)
           K == {k \in Nat : \E f : Upto(k, f)}
<1>1. 0 \in K
  <2> DEFINE f == [s \in SUBSET (1..n) |-> <<>>]
  <2>1. Upto(0, f)
    BY DEF Folded
  <2>2. QED
    BY <2>1
<1>2. ASSUME NEW k \in Nat, k \in K PROVE k + 1 \in K
  <2>1. PICK f : Upto(k, f)
    BY <1>2
  <2> DEFINE g == [s \in SUBSET (1..n) |-> IF s \subseteq 1..k THEN f[s] ELSE Folded(results, f, s)]
  <2>2. ASSUME NEW s \in SUBSET (1..n), s \subseteq 1..(k + 1)
        PROVE  g[s] = Folded(results, g, s)
    <3>1. g[s] = Folded(results, f, s)
      BY <2>1
    <3>2. CASE s = {}
      BY <3>1, <3>2 DEF Folded
    <3>3. CASE s # {}
      <4>1. Top(s) \in s /\ \A y \in s : y <= Top(s)
        BY <3>3, TopIsLast
      <4>2. s \ {Top(s)} \in SUBSET (1..n) /\ s \ {Top(s)} \subseteq 1..k
        <5>1. Top(s) \in 1..(k + 1)
          BY <2>2, <4>1
        <5>2. \A z \in s : z \in 1..(k + 1) /\ z <= Top(s)
          BY <2>2, <4>1
        <5>3. \A z \in s \ {Top(s)} : z \in 1..k
          BY <5>1, <5>2
        <5>4. QED
          BY <5>3
      <4>3. g[s \ {Top(s)}] = f[s \ {Top(s)}]
        BY <4>2
      <4> HIDE DEF g
      <4>4. QED
        BY <3>1, <4>3 DEF Folded
    <3>4. QED
      BY <3>2, <3>3
  <2>3. g = [s \in SUBSET (1..n) |-> g[s]]
    OBVIOUS
  <2> HIDE DEF g
  <2>4. Upto(k + 1, g)
    BY <2>2, <2>3
  <2>5. \E h : Upto(k + 1, h)
    BY <2>4, Zenon
  <2> HIDE DEF Upto
  <2>6. QED
    BY <2>5
<1>3. n \in K
  <2> HIDE DEF K
  <2>1. QED
    BY <1>1, <1>2, Induction
<1>4. PICK f : Upto(n, f)
  BY <1>3
<1>5. QED
  BY <1>4

\* deduplicate_search_results, result by result.
LEMMA DedupedByPrefix ==
  ASSUME NEW results \in Seq(Pages)
  PROVE  \E f : /\ Search!Deduped(results) = f[1..Len(results)]
               /\ f[{}] = <<>>
               /\ \A k \in 1..Len(results) : f[1..k] = Noting(results, f[1..(k - 1)], k)
<1> DEFINE D == DOMAIN results
           n == Len(results)
           f == CHOOSE g : g = [s \in SUBSET D |-> Folded(results, g, s)]
<1>1. D = 1..n /\ n \in Nat
  OBVIOUS
<1>2. Search!Deduped(results) = f[D]
  BY DEF Search!Deduped, Search!FoldLeft, Search!MapThenFoldSet, Search!Max, Folded, Noting, Top
<1>3. f = [s \in SUBSET D |-> Folded(results, f, s)]
  <2>1. \E g : g = [s \in SUBSET (1..n) |-> Folded(results, g, s)]
    BY <1>1, FoldExists, Zenon
  <2>2. \E g : g = [s \in SUBSET D |-> Folded(results, g, s)]
    BY <1>1, <2>1, Zenon
  <2>3. QED
    BY <2>2, Zenon
<1> HIDE DEF f
<1>4. f[{}] = <<>>
  BY <1>3 DEF Folded
<1>5. ASSUME NEW k \in 1..n PROVE f[1..k] = Noting(results, f[1..(k - 1)], k)
  <2>0. k \in Nat /\ k <= n /\ k \in 1..k
    BY <1>1
  <2>1. 1..k \in SUBSET D /\ 1..k \in SUBSET (1..n) /\ 1..k # {}
    <3> HIDE DEF D, n
    <3>1. QED
      BY <1>1, <2>0
  <2>2. Top(1..k) = k
    <3>1. Top(1..k) \in 1..k /\ \A y \in 1..k : y <= Top(1..k)
      BY <1>1, <2>1, TopIsLast
    <3>2. QED
      BY <3>1
  <2>3. (1..k) \ {k} = 1..(k - 1)
    OBVIOUS
  <2>4. f[1..k] = Folded(results, f, 1..k)
    BY <1>3, <2>1
  <2>5. f[1..k] = Noting(results, f[(1..k) \ {Top(1..k)}], Top(1..k))
    BY Zenon, <2>1, <2>4 DEF Folded
  <2>6. QED
    BY Zenon, <2>2, <2>3, <2>5
<1>6. QED
  BY <1>1, <1>2, <1>4, <1>5

\* What stands in v after the first k results: each of their URLs, once, in
\* the order in which they first came.
FirstOfEach(results, v, k) ==
  /\ v \in Seq(Pages)
  /\ \A i \in 1..Len(v) : \E m \in 1..k : results[m] = v[i]
  /\ \A m \in 1..k : \E i \in 1..Len(v) : v[i] = results[m]
  /\ \A i, j \in 1..Len(v) : v[i] = v[j] => i = j
  /\ \A i, j \in 1..Len(v) : i < j =>
       \E m \in 1..k : results[m] = v[i] /\ \A l \in 1..m : results[l] # v[j]

LEMMA NotingKeepsOrder ==
  ASSUME NEW results \in Seq(Pages), NEW k \in Nat, k + 1 <= Len(results),
         NEW v, FirstOfEach(results, v, k)
  PROVE  FirstOfEach(results, Noting(results, v, k + 1), k + 1)
<1> DEFINE r == results[k + 1]
           w == Append(v, r)
<1>a. \A i \in 1..Len(v) : \E m \in 1..k : results[m] = v[i]
  BY DEF FirstOfEach
<1>b. \A m \in 1..k : \E i \in 1..Len(v) : v[i] = results[m]
  BY DEF FirstOfEach
<1>c. \A i, j \in 1..Len(v) : v[i] = v[j] => i = j
  BY DEF FirstOfEach
<1>d. \A i, j \in 1..Len(v) : i < j =>
        \E m \in 1..k : results[m] = v[i] /\ \A l \in 1..m : results[l] # v[j]
  BY DEF FirstOfEach
<1>1. r \in Pages /\ v \in Seq(Pages) /\ Len(v) \in Nat
  BY DEF FirstOfEach
<1>2. 1..(k + 1) = (1..k) \cup {k + 1}
  OBVIOUS
<1>3. CASE \E i \in 1..Len(v) : v[i] = r
  <2>1. Noting(results, v, k + 1) = v
    BY <1>3 DEF Noting, Search!Contains
  <2>2. FirstOfEach(results, v, k + 1)
    <3>1. \A i \in 1..Len(v) : \E m \in 1..(k + 1) : results[m] = v[i]
      BY Zenon, <1>2, <1>a
    <3>2. \A m \in 1..(k + 1) : \E i \in 1..Len(v) : v[i] = results[m]
      BY Zenon, <1>2, <1>3, <1>b
    <3>3. \A i, j \in 1..Len(v) : i < j =>
            \E m \in 1..(k + 1) : results[m] = v[i] /\ \A l \in 1..m : results[l] # v[j]
      BY ZenonT(30), <1>2, <1>d
    <3>4. QED
      BY <1>1, <1>c, <3>1, <3>2, <3>3 DEF FirstOfEach
  <2>3. QED
    BY <2>1, <2>2
<1>4. CASE ~\E i \in 1..Len(v) : v[i] = r
  <2>1. Noting(results, v, k + 1) = w
    BY <1>4 DEF Noting, Search!Contains
  <2>2. /\ w \in Seq(Pages) /\ Len(w) = Len(v) + 1
        /\ 1..Len(w) = (1..Len(v)) \cup {Len(v) + 1}
        /\ w[Len(v) + 1] = r
        /\ \A i \in 1..Len(v) : w[i] = v[i] /\ i < Len(v) + 1
    BY <1>1
  <2>3. \A m \in 1..k : results[m] # r
    BY Zenon, <1>4, <1>b
  <2> HIDE DEF w
  <2>4. \A i \in 1..Len(w) : \E m \in 1..(k + 1) : results[m] = w[i]
    <3>1. TAKE i \in 1..Len(w)
    <3>2. CASE i \in 1..Len(v)
      BY Zenon, <1>2, <1>a, <2>2, <3>2
    <3>3. CASE i = Len(v) + 1
      BY Zenon, <1>2, <2>2, <3>3
    <3>4. QED
      BY Zenon, <2>2, <3>2, <3>3
  <2>5. \A m \in 1..(k + 1) : \E i \in 1..Len(w) : w[i] = results[m]
    <3>1. TAKE m \in 1..(k + 1)
    <3>2. CASE m \in 1..k
      <4>1. PICK i \in 1..Len(v) : v[i] = results[m]
        BY Zenon, <1>b, <3>2
      <4>2. QED
        BY Zenon, <2>2, <4>1
    <3>3. CASE m = k + 1
      BY Zenon, <2>2, <3>3
    <3>4. QED
      BY Zenon, <1>2, <3>2, <3>3
  <2>6. \A i, j \in 1..Len(w) : w[i] = w[j] => i = j
    <3>1. SUFFICES ASSUME NEW i \in 1..Len(w), NEW j \in 1..Len(w), w[i] = w[j]
          PROVE  i = j
      OBVIOUS
    <3>2. CASE i \in 1..Len(v) /\ j \in 1..Len(v)
      BY Zenon, <1>c, <2>2, <3>1, <3>2
    <3>3. ASSUME NEW a \in 1..Len(v) PROVE w[a] # r
      BY Zenon, <1>4, <2>2
    <3>4. QED
      BY Zenon, <2>2, <3>1, <3>2, <3>3
  <2>7. \A i, j \in 1..Len(w) : i < j =>
          \E m \in 1..(k + 1) : results[m] = w[i] /\ \A l \in 1..m : results[l] # w[j]
    <3>1. SUFFICES ASSUME NEW i \in 1..Len(w), NEW j \in 1..Len(w), i < j
          PROVE  \E m \in 1..(k + 1) : results[m] = w[i] /\ \A l \in 1..m : results[l] # w[j]
      OBVIOUS
    <3>2. i \in 1..Len(v) /\ w[i] = v[i]
      BY <1>1, <2>2, <3>1
    <3>3. CASE j \in 1..Len(v)
      <4>1. PICK m \in 1..k : results[m] = v[i] /\ \A l \in 1..m : results[l] # v[j]
        BY Zenon, <1>d, <3>1, <3>2, <3>3
      <4>2. QED
        BY Zenon, <1>2, <2>2, <3>2, <3>3, <4>1
    <3>4. CASE j = Len(v) + 1
      <4>1. PICK m \in 1..k : results[m] = v[i]
        BY Zenon, <1>a, <3>2
      <4>2. \A l \in 1..m : l \in 1..k
        BY <4>1
      <4>3. \A l \in 1..m : results[l] # r
        BY Zenon, <2>3, <4>2
      <4>4. QED
        BY Zenon, <1>2, <2>2, <3>2, <3>4, <4>1, <4>3
    <3>5. QED
      BY Zenon, <2>2, <3>3, <3>4
  <2>8. QED
    <3>1. FirstOfEach(results, w, k + 1)
      BY <2>2, <2>4, <2>5, <2>6, <2>7 DEF FirstOfEach
    <3>2. QED
      BY Zenon, <2>1, <3>1
<1>5. QED
  BY <1>3, <1>4

\* deduplicate_search_results keeps the first of each URL, in order.
LEMMA DedupedIsFirstOfEach ==
  ASSUME NEW results \in Seq(Pages)
  PROVE  FirstOfEach(results, Search!Deduped(results), Len(results))
<1>1. PICK f : /\ Search!Deduped(results) = f[1..Len(results)]
               /\ f[{}] = <<>>
               /\ \A k \in 1..Len(results) : f[1..k] = Noting(results, f[1..(k - 1)], k)
  BY DedupedByPrefix
<1> DEFINE K == {k \in Nat : k <= Len(results) => FirstOfEach(results, f[1..k], k)}
<1>2. 0 \in K
  <2>1. 1..0 = {}
    OBVIOUS
  <2>2. FirstOfEach(results, <<>>, 0)
    BY DEF FirstOfEach
  <2>3. QED
    BY <1>1, <2>1, <2>2
<1>3. ASSUME NEW k \in Nat, k \in K PROVE k + 1 \in K
  <2>1. SUFFICES ASSUME k + 1 <= Len(results)
        PROVE FirstOfEach(results, f[1..(k + 1)], k + 1)
    OBVIOUS
  <2>2. k + 1 \in 1..Len(results) /\ (k + 1) - 1 = k /\ k <= Len(results)
    BY <2>1
  <2>3. f[1..(k + 1)] = Noting(results, f[1..k], k + 1)
    <3>1. f[1..(k + 1)] = Noting(results, f[1..((k + 1) - 1)], k + 1)
      BY Zenon, <1>1, <2>2
    <3>2. QED
      BY Zenon, <2>2, <3>1
  <2>4. FirstOfEach(results, f[1..k], k)
    BY <1>3, <2>2
  <2>5. QED
    BY <2>1, <2>3, <2>4, NotingKeepsOrder
<1>4. Len(results) \in Nat /\ Len(results) <= Len(results)
  OBVIOUS
<1>5. Len(results) \in K
  <2> HIDE DEF K
  <2>1. QED
    BY <1>2, <1>3, <1>4, Induction
<1>6. QED
  BY <1>1, <1>4, <1>5

\* A search announces what its tool returned, without the duplicates, and
\* has summarized all of it when it is done.
Reported ==
  /\ found \in [Searches -> Seq(Pages)]
  /\ noted = [s \in Searches |-> Search!Deduped(found[s])]
  /\ summed \in [Searches -> SUBSET Nat]
  /\ \A s \in Searches :
       /\ stage[s] \in {"idle", "token", "search"} => summed[s] = {}
       /\ stage[s] = "done" => summed[s] = DOMAIN noted[s]

LEMMA NothingIsNoted == Search!Deduped(<<>>) = <<>>
<1>1. FirstOfEach(<<>>, Search!Deduped(<<>>), Len(<<>>))
  <2>1. <<>> \in Seq(Pages)
    OBVIOUS
  <2>2. QED
    BY Zenon, <2>1, DedupedIsFirstOfEach
<1> DEFINE v == Search!Deduped(<<>>)
<1>2. v \in Seq(Pages) /\ \A i \in 1..Len(v) : \E m \in 1..0 : <<>>[m] = v[i]
  BY <1>1 DEF FirstOfEach
<1> HIDE DEF v
<1>3. \A i \in 1..Len(v) : FALSE
  BY <1>2
<1>4. Len(v) \in Nat /\ Len(v) = 0
  BY <1>2, <1>3
<1>5. v = <<>>
  BY <1>2, <1>4
<1>6. QED
  BY <1>5 DEF v

LEMMA InitReported == Search!Init => Reported
BY NothingIsNoted DEF Search!Init, Reported

LEMMA TakenAreResults == Search!Taken \subseteq Seq(Pages)
<1>1. SUFFICES ASSUME NEW m \in 0..MaxItems, NEW items \in [1..m -> Pages]
      PROVE  SubSeq(items, 1, Search!Smaller(Len(items), MaxResults)) \in Seq(Pages)
  BY DEF Search!Taken, Search!SeqOf
<1>2. m \in Nat /\ items \in Seq(Pages) /\ Len(items) = m
  BY ServicesAssumption
<1> DEFINE n == Search!Smaller(Len(items), MaxResults)
<1>3. n \in 0..Len(items)
  BY <1>2, ServicesAssumption DEF Search!Smaller
<1> HIDE DEF n
<1>4. SubSeq(items, 1, n) \in Seq(Pages)
  BY <1>2, <1>3
<1>5. QED
  BY <1>4 DEF n

LEMMA NextReported == TInv /\ Reported /\ [Search!Next]_searchVars => Reported'
<1> SUFFICES ASSUME TInv, Reported, [Search!Next]_searchVars PROVE Reported'
  OBVIOUS
<1>1. stage \in [Searches -> Stages]
  BY DEF TInv, Search!TypeOK, Stages
<1>2. CASE UNCHANGED searchVars \/ Search!Lapse
  BY <1>2 DEF searchVars, Search!Lapse, Search!pages, Reported
<1>3. ASSUME NEW s \in Searches, Search!SearchStep(s) PROVE Reported'
  <2>1. CASE Search!SearchReply(s)
    <3>1. /\ stage[s] = "search" /\ summed' = summed
          /\ \/ \E results \in Search!Taken : Search!Collect(s, results)
             \/ Search!Raise(s) /\ UNCHANGED <<found, noted>>
      BY <2>1 DEF Search!SearchReply
    <3>2. summed[s] = {}
      BY <3>1 DEF Reported
    <3>3. CASE Search!Raise(s) /\ UNCHANGED <<found, noted>>
      BY <1>1, <3>1, <3>3 DEF Search!Raise, Search!Set, Reported
    <3>4. ASSUME NEW results \in Search!Taken, Search!Collect(s, results) PROVE Reported'
      <4>1. /\ found' = [found EXCEPT ![s] = results]
            /\ noted' = [noted EXCEPT ![s] = Search!Deduped(results)]
            /\ stage' = [stage EXCEPT ![s] = IF results = <<>> THEN "done" ELSE "summaries"]
        BY <3>4 DEF Search!Collect, Search!Set
      <4>2. found' \in [Searches -> Seq(Pages)] /\ noted' = [r \in Searches |-> Search!Deduped(found'[r])]
        BY <4>1, TakenAreResults DEF Reported
      <4>3. stage'[s] = "done" => noted'[s] = <<>>
        BY <1>1, <4>1, NothingIsNoted DEF Reported
      <4>4. stage'[s] = "done" => summed'[s] = DOMAIN noted'[s]
        BY <3>1, <3>2, <4>3
      <4>5. stage'[s] \in {"done", "summaries"}
            /\ \A r \in Searches \ {s} : stage'[r] = stage[r] /\ noted'[r] = noted[r]
        BY <1>1, <4>1 DEF Reported
      <4>6. QED
        BY ZenonT(30), <3>1, <4>2, <4>4, <4>5 DEF Reported
    <3>5. QED
      BY <3>1, <3>3, <3>4
  <2>2. CASE Search!Summarize(s)
    <3>1. PICK i \in DOMAIN noted[s] \ summed[s] :
            /\ stage[s] = "summaries"
            /\ summed' = [summed EXCEPT ![s] = @ \cup {i}]
            /\ stage' = IF summed'[s] = DOMAIN noted[s] THEN [stage EXCEPT ![s] = "done"] ELSE stage
            /\ found' = found /\ noted' = noted
      BY <2>2 DEF Search!Summarize, Search!Set
    <3>2. noted[s] \in Seq(Pages)
      BY DedupedIsFirstOfEach DEF Reported, FirstOfEach
    <3>3. i \in Nat
      BY <3>1, <3>2
    <3>4. summed' \in [Searches -> SUBSET Nat]
      BY <3>1, <3>3 DEF Reported
    <3>5. /\ stage'[s] \in {"done", "summaries"}
          /\ stage'[s] = "done" => summed'[s] = DOMAIN noted[s]
          /\ \A r \in Searches \ {s} : stage'[r] = stage[r] /\ summed'[r] = summed[r]
      BY <1>1, <3>1 DEF Reported
    <3>6. QED
      BY <3>1, <3>4, <3>5 DEF Reported
  <2>3. CASE Search!Another(s)
    <3>1. /\ stage' = [stage EXCEPT ![s] = "idle"]
          /\ found' = [found EXCEPT ![s] = <<>>]
          /\ noted' = [noted EXCEPT ![s] = <<>>]
          /\ summed' = [summed EXCEPT ![s] = {}]
      BY <2>3 DEF Search!Another, Search!Set
    <3>2. found' \in [Searches -> Seq(Pages)] /\ noted' = [r \in Searches |-> Search!Deduped(found'[r])]
      <4>1. <<>> \in Seq(Pages) /\ Search!Deduped(<<>>) = <<>>
        BY NothingIsNoted
      <4>2. found' \in [Searches -> Seq(Pages)]
        BY <3>1, <4>1 DEF Reported
      <4>3. /\ noted' = [r \in Searches |-> IF r = s THEN <<>> ELSE noted[r]]
            /\ \A r \in Searches : found'[r] = IF r = s THEN <<>> ELSE found[r]
        BY <3>1 DEF Reported
      <4>4. \A r \in Searches : (IF r = s THEN <<>> ELSE noted[r]) = Search!Deduped(found'[r])
        BY <4>1, <4>3 DEF Reported
      <4>5. QED
        BY <4>2, <4>3, <4>4
    <3>3. QED
      BY <1>1, <3>1, <3>2 DEF Reported
  <2>4. CASE Search!SearchWithKey(s) \/ Search!SearchReddit(s) \/ Search!TokenReply(s)
             \/ Search!Rejected(s) \/ Search!Transient(s) \/ Search!Retry(s)
    <3>1. UNCHANGED <<found, noted, summed>>
      BY <2>4 DEF Search!SearchWithKey, Search!SearchReddit, Search!TokenReply, Search!Rejected,
           Search!Transient, Search!Retry, Search!pages
    <3>2. stage' = stage \/ \E p \in {"token", "search", "error"} :
            /\ stage' = [stage EXCEPT ![s] = p]
            /\ p = "error" \/ stage[s] \in {"idle", "token"}
      BY <2>4 DEF Search!SearchWithKey, Search!SearchReddit, Search!TokenReply, Search!Rejected,
           Search!Transient, Search!Retry, Search!Raise, Search!Enter, Search!Set
    <3>3. QED
      BY <1>1, <3>1, <3>2 DEF Reported
  <2>5. QED
    BY <1>3, <2>1, <2>2, <2>3, <2>4 DEF Search!SearchStep
<1>4. QED
  BY <1>2, <1>3 DEF Search!Next

LEMMA ReportedMatches == Reported => OutputMatchesSources
<1> SUFFICES ASSUME Reported, NEW s \in Searches, stage[s] = "done"
    PROVE  /\ Search!Output(s) = noted[s]
           /\ Search!ToSet(noted[s]) = Search!ToSet(found[s])
           /\ Search!IsInjective(noted[s])
           /\ \A i, j \in DOMAIN noted[s] : i < j =>
                \E k \in DOMAIN found[s] :
                  found[s][k] = noted[s][i] /\ \A l \in 1..k : found[s][l] # noted[s][j]
  BY DEF OutputMatchesSources, Search!OutputMatchesSources
<1> DEFINE results == found[s]
           v == noted[s]
<1>1. results \in Seq(Pages) /\ FirstOfEach(results, v, Len(results)) /\ summed[s] = DOMAIN v
  BY DedupedIsFirstOfEach DEF Reported
<1> HIDE DEF results, v
<1>2. DOMAIN results = 1..Len(results) /\ DOMAIN v = 1..Len(v) /\ v \in Seq(Pages)
  BY <1>1 DEF FirstOfEach
<1>3. [i \in summed[s] |-> v[i]] = v
  BY <1>1, <1>2
<1>4. Search!ToSet(v) = Search!ToSet(results)
  <2>1. \A i \in DOMAIN v : \E m \in DOMAIN results : results[m] = v[i]
    BY <1>1, <1>2 DEF FirstOfEach
  <2>2. \A m \in DOMAIN results : \E i \in DOMAIN v : v[i] = results[m]
    BY <1>1, <1>2 DEF FirstOfEach
  <2>3. QED
    BY <2>1, <2>2 DEF Search!ToSet
<1>5. Search!IsInjective(v)
  BY Zenon, <1>1, <1>2 DEF FirstOfEach, Search!IsInjective
<1>6. \A i, j \in DOMAIN v : i < j =>
        \E k \in DOMAIN results : results[k] = v[i] /\ \A l \in 1..k : results[l] # v[j]
  <2>1. \A i, j \in 1..Len(v) : i < j =>
          \E k \in 1..Len(results) : results[k] = v[i] /\ \A l \in 1..k : results[l] # v[j]
    BY <1>1 DEF FirstOfEach
  <2>2. SUFFICES ASSUME NEW i \in DOMAIN v, NEW j \in DOMAIN v, i < j
        PROVE  \E k \in DOMAIN results : results[k] = v[i] /\ \A l \in 1..k : results[l] # v[j]
    OBVIOUS
  <2>3. i \in 1..Len(v) /\ j \in 1..Len(v)
    BY Zenon, <1>2, <2>2
  <2>4. PICK k \in 1..Len(results) : results[k] = v[i] /\ \A l \in 1..k : results[l] # v[j]
    BY Zenon, <2>1, <2>2, <2>3
  <2>5. QED
    BY Zenon, <1>2, <2>4
<1>7. QED
  BY <1>3, <1>4, <1>5, <1>6 DEF results, v, Search!Output

----------------------------------------------------------------------------
(* All four.                                                               *)

\* A step is a step of each service, or leaves it alone.
LEMMA StepOfEach ==
  [ServicesNext]_allVars =>
    [Next]_vars /\ [Search!Next]_searchVars /\ [Suggestions!Next]_suggestVars /\ [Bar!Next]_barVars
BY DEF ServicesNext, allVars

\* Whatever the services do together, each behaves as its own
\* specification says: what is proved of Spec holds here too.
THEOREM EachServiceRuns ==
  ServicesSpec => Spec /\ Search!Spec /\ Suggestions!Spec /\ Bar!Spec
<1>1. UNCHANGED searchVars => UNCHANGED Search!vars
  BY DEF searchVars, Search!vars, Search!tokens, Search!pages
<1>2. UNCHANGED suggestVars => UNCHANGED Suggestions!vars
  BY DEF suggestVars, Suggestions!vars
<1>3. UNCHANGED barVars => UNCHANGED Bar!vars
  BY DEF barVars, Bar!vars
<1>4. [ServicesNext]_allVars =>
        [Next]_vars /\ [Search!Next]_Search!vars /\ [Suggestions!Next]_Suggestions!vars /\ [Bar!Next]_Bar!vars
  BY <1>1, <1>2, <1>3, StepOfEach
<1>5. ServicesInit => Init /\ Search!Init /\ Suggestions!Init /\ Bar!Init
  BY DEF ServicesInit
<1>6. QED
  BY <1>4, <1>5, PTL DEF ServicesSpec, Spec, Search!Spec, Suggestions!Spec, Bar!Spec

LEMMA ServicesHold == ServicesSpec => [](TInv /\ Reported /\ GInv /\ BInv)
<1>1. ServicesInit => TInv /\ Reported /\ GInv /\ BInv
  BY InitTInv, InitReported, InitGInv, InitBInv DEF ServicesInit
<1>2. TInv /\ Reported /\ GInv /\ BInv /\ [ServicesNext]_allVars =>
        (TInv /\ Reported /\ GInv /\ BInv)'
  BY StepOfEach, NextTInv, NextReported, NextGInv, NextBInv
<1>3. QED
  BY <1>1, <1>2, PTL DEF ServicesSpec

\* Every service keeps its types, for any number of searches, requests,
\* renames and fetches.
THEOREM ServicesTyping == ServicesSpec => []ServicesTypeOK
<1>1. TInv /\ GInv /\ BInv => Search!TypeOK /\ Suggestions!TypeOK /\ Bar!TypeOK
  BY DEF TInv, GInv, BInv
<1>2. TypeOK /\ Search!TypeOK /\ Suggestions!TypeOK /\ Bar!TypeOK => ServicesTypeOK
  BY DEF ServicesTypeOK
<1>3. QED
  BY <1>1, <1>2, EachServiceRuns, StatusTyping, ServicesHold, PTL

\* An open breaker lets through the retries of the calls that were running
\* when it opened and nothing else, two requests for each of them at most,
\* however many searches share it and however often it opens and closes.
THEOREM BreakerShedsLoad == ServicesSpec => []TripShedsLoad
BY TInvBounds, ServicesHold, PTL

\* No search of reddit sends a token that is older than an answer whose
\* expiry has passed, however fetches, malformed answers and expiries
\* interleave.
THEOREM TokensAreFresh == ServicesSpec => SearchSendsFreshToken
<1>1. TInv /\ [ServicesNext]_allVars =>
        [\A s \in Searches :
           (tool = "reddit" /\ stage[s] # "search" /\ stage'[s] = "search") => using'[s] > lapsed]_Search!vars
  BY StepOfEach, SearchStepIsFresh
<1>2. QED
  BY <1>1, ServicesHold, PTL DEF ServicesSpec, SearchSendsFreshToken, Search!SearchSendsFreshToken

\* What a finished search hands on cites each URL its tool returned, once
\* and in the order it came, and these are the ones it announced, whatever
\* the answer held and in whatever order the summaries came.
THEOREM OutputIsTheSources == ServicesSpec => []OutputMatchesSources
BY ReportedMatches, ServicesHold, PTL

\* Between two expiries of the cached prompts each overlapping page load
\* asks the model once at most, beyond the generations of which nothing was
\* cached: answers without prompts, and what Redis does not take.
THEOREM HerdStaysSmall == ServicesSpec => []HerdIsBounded
BY GInvBounds, ServicesHold, PTL

\* The sidebar's list never goes back to the answer of an earlier refresh.
THEOREM NewestListWins == ServicesSpec => NewestListStays
<1>1. BInv /\ [ServicesNext]_allVars => [listed' >= listed]_listed
  BY StepOfEach, ListStepGrows
<1>2. QED
  BY <1>1, ServicesHold, PTL DEF ServicesSpec, NewestListStays, Bar!NewestListStays
=============================================================================
