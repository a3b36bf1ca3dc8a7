------------------------------- MODULE Sidebar -------------------------------
(***************************************************************************)
(* The sidebar's list against the sessions API: the fetches of the list    *)
(* that each refresh starts and the next one cancels, optimistic renames   *)
(* with their roll-back, and the pin.                                      *)
(*                                                                         *)
(* One row of the list: a rename, a pin and a search concern one session.  *)
(* A title is the number of the rename that asked for it, 0 the first one. *)
(* A request is applied by the server at some time and answered later, or  *)
(* it fails before the server has applied it.  The list shows the row or,  *)
(* after a failed fetch or a search it does not match, lacks it.           *)
(***************************************************************************)
EXTENDS Integers, FiniteSets

CONSTANTS
  MaxRenames,  \* bound on the renames
  MaxFetches,  \* bound on the fetches of the list
  MaxToggles   \* bound on the clicks on the pin

VARIABLES
  stored,   \* the session's row: title and pinned
  shown,    \* the list's entries of it: one or none
  fetch,    \* fetches started; the last one is not cancelled
  listed,   \* the last fetch whose answer was shown (history)
  lists,    \* answers of fetches under way
  renames,  \* renames started
  calls,    \* renames under way, with the title to roll back to
  toggles,  \* pin requests started
  pin       \* the pin request under way

vars == <<stored, shown, fetch, listed, lists, renames, calls, toggles, pin>>

NoPin == [at |-> "none"]

Init ==
  /\ stored = [title |-> 0, pinned |-> FALSE]
  /\ shown = {stored}
  /\ fetch = 0 /\ listed = 0 /\ lists = {}
  /\ renames = 0 /\ calls = {}
  /\ toggles = 0 /\ pin = NoPin

----------------------------------------------------------------------------
\* The effect of refreshKey and query: it cancels the fetch before it.
Refresh ==
  /\ fetch < MaxFetches
  /\ fetch' = fetch + 1
  /\ UNCHANGED <<stored, shown, listed, lists, renames, calls, toggles, pin>>

\* list_recent answers what is stored, or what of it the search matches, or
\* the request fails, which the list shows as empty.
ListSessions(f) ==
  /\ \A l \in lists : l.fetch # f
  /\ f > listed
  /\ \E entries \in {{stored}, {}} : lists' = lists \cup {[fetch |-> f, entries |-> entries]}
  /\ UNCHANGED <<stored, shown, fetch, listed, renames, calls, toggles, pin>>

\* Mutant: the answer of a cancelled fetch is shown.
ShowAny(l) ==
  /\ lists' = lists \ {l}
  /\ shown' = l.entries /\ listed' = l.fetch
  /\ UNCHANGED <<stored, fetch, renames, calls, toggles, pin>>

Show(l) ==
  /\ lists' = lists \ {l}
  /\ IF l.fetch = fetch THEN shown' = l.entries /\ listed' = fetch
                        ELSE UNCHANGED <<shown, listed>>
  /\ UNCHANGED <<stored, fetch, renames, calls, toggles, pin>>

----------------------------------------------------------------------------
\* The list with another title in its entry.
Titled(title) == {[e EXCEPT !.title = title] : e \in shown}

\* commitRename up to its request.
CommitRename ==
  /\ renames < MaxRenames
  /\ renames' = renames + 1
  /\ \E e \in shown :
       calls' = calls \cup {[title |-> renames', previous |-> e.title, at |-> "sent"]}
  /\ shown' = Titled(renames')
  /\ UNCHANGED <<stored, fetch, listed, lists, toggles, pin>>

\* SessionStore.rename.
Rename(c) ==
  /\ c.at = "sent"
  /\ stored' = [stored EXCEPT !.title = c.title]
  /\ calls' = (calls \ {c}) \cup {[c EXCEPT !.at = "applied"]}
  /\ UNCHANGED <<shown, fetch, listed, lists, renames, toggles, pin>>

Renamed(c) ==
  /\ c.at = "applied"
  /\ calls' = calls \ {c}
  /\ UNCHANGED <<stored, shown, fetch, listed, lists, renames, toggles, pin>>

\* The request failed before it was applied: the title is rolled back.
RollBack(c) ==
  /\ c.at = "sent"
  /\ calls' = calls \ {c}
  /\ shown' = Titled(c.previous)
  /\ UNCHANGED <<stored, fetch, listed, lists, renames, toggles, pin>>

----------------------------------------------------------------------------
\* togglePin up to its request; its button is disabled meanwhile.
TogglePin ==
  /\ pin = NoPin /\ toggles < MaxToggles
  /\ toggles' = toggles + 1
  /\ \E e \in shown : pin' = [at |-> "sent", pinned |-> ~e.pinned]
  /\ UNCHANGED <<stored, shown, fetch, listed, lists, renames, calls>>

\* SessionStore.set_pinned answers the whole row.
SetPinned ==
  /\ pin.at = "sent"
  /\ stored' = [stored EXCEPT !.pinned = pin.pinned]
  /\ pin' = [at |-> "applied", entry |-> stored']
  /\ UNCHANGED <<shown, fetch, listed, lists, renames, calls, toggles>>

Pinned ==
  /\ pin.at = "applied"
  /\ shown' = {pin.entry : e \in shown}
  /\ pin' = NoPin
  /\ UNCHANGED <<stored, fetch, listed, lists, renames, calls, toggles>>

PinFails ==
  /\ pin.at = "sent"
  /\ pin' = NoPin
  /\ UNCHANGED <<stored, shown, fetch, listed, lists, renames, calls, toggles>>

----------------------------------------------------------------------------
Next ==
  \/ Refresh \/ CommitRename \/ TogglePin \/ SetPinned \/ Pinned \/ PinFails
  \/ \E f \in 1..fetch : ListSessions(f)
  \/ \E l \in lists : Show(l)
  \/ \E c \in calls : Rename(c) \/ Renamed(c) \/ RollBack(c)

Spec == Init /\ [][Next]_vars

----------------------------------------------------------------------------
(* Properties.                                                             *)

TypeOK ==
  /\ {stored} \cup shown \subseteq [title: 0..renames, pinned: BOOLEAN]
  /\ listed <= fetch /\ \A l \in lists : l.fetch \in 1..fetch
  /\ \A c \in calls : c.title \in 1..renames /\ c.at \in {"sent", "applied"}
  /\ pin.at \in {"none", "sent", "applied"}

\* The list never goes back to the answer of an earlier refresh or search.
NewestListStays == [][listed' >= listed]_listed

\* The comment of commitRename: a title that the server never applied is
\* rolled back, since "showing it would silently lie about what's actually
\* persisted".  So, with no request under way, a rolled-back rename is not
\* what is shown.
RolledBackIsPersisted ==
  (calls = {} /\ lists = {} /\ pin = NoPin) => \A e \in shown : e.title = stored.title
=============================================================================
