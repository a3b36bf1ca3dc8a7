----------------------------- MODULE MCServices -----------------------------
(***************************************************************************)
(* Four services that share nothing, each checked on its own: `part` says  *)
(* which of them runs, the others stay as they began.                      *)
(***************************************************************************)
EXTENDS ResearchStatus, FiniteSets, TLC

CONSTANTS
  Searches, Tools, Pages, MaxItems, MaxTokens, MaxResults, FailMax,
  Requests, MaxGenerations,
  MaxRenames, MaxFetches, MaxToggles

ASSUME ServicesAssumption ==
  /\ IsFiniteSet(Searches) /\ IsFiniteSet(Requests)
  /\ FailMax \in Nat /\ MaxGenerations \in Nat
  /\ MaxItems \in Nat /\ MaxResults \in Nat

VARIABLES
  part,
  tool, breaker, token, expires, received, lapsed, stage, tries, waits, using,
  found, noted, summed, trip,
  entry, made, herd, req,
  stored, shown, fetch, listed, lists, renames, calls, toggles, pin

Search == INSTANCE SearchTools
Suggestions == INSTANCE StarterSuggestions
Bar == INSTANCE Sidebar

\* A plan beyond the limit, one with a section too short, and none.
ModelPlans == {<<>>, <<1>>, <<4, 1, 4>>}

searchVars == <<tool, breaker, token, expires, received, lapsed, stage, tries,
                waits, using, found, noted, summed, trip>>
suggestVars == <<entry, made, herd, req>>
barVars == <<stored, shown, fetch, listed, lists, renames, calls, toggles, pin>>
allVars == <<part, vars, searchVars, suggestVars, barVars>>

ServicesInit ==
  /\ part \in {"status", "search", "suggestions", "sidebar"}
  /\ Init /\ Search!Init /\ Suggestions!Init /\ Bar!Init
  /\ part = "search" \/ tool = "tavily"

ServicesNext ==
  /\ UNCHANGED part
  /\ \/ /\ part = "status" /\ Next
        /\ UNCHANGED <<searchVars, suggestVars, barVars>>
     \/ /\ part = "search" /\ Search!Next
        /\ UNCHANGED <<vars, suggestVars, barVars>>
     \/ /\ part = "suggestions" /\ Suggestions!Next
        /\ UNCHANGED <<vars, searchVars, barVars>>
     \/ /\ part = "sidebar" /\ Bar!Next
        /\ UNCHANGED <<vars, searchVars, suggestVars>>

ServicesSpec == ServicesInit /\ [][ServicesNext]_allVars

\* Searches and pages are interchangeable; all is safety here.
ServicesSymmetry == Permutations(Searches) \cup Permutations(Pages)

----------------------------------------------------------------------------
\* The types of the four services.
ServicesTypeOK == TypeOK /\ Search!TypeOK /\ Suggestions!TypeOK /\ Bar!TypeOK

\* SearchTools: the retries of running calls are all that an open breaker
\* lets through.
TripShedsLoad == Search!TripShedsLoad

\* SearchTools: no search begins with a token it has reason to hold for
\* expired.
SearchSendsFreshToken == Search!SearchSendsFreshToken

\* SearchTools: the output cites what was found and announced, once each.
OutputMatchesSources == Search!OutputMatchesSources

\* StarterSuggestions: between two expiries an overlapping page load asks
\* the model at most once, beyond the generations that left nothing cached.
HerdIsBounded == Suggestions!HerdIsBounded

\* Sidebar: the list never goes back to an earlier refresh.
NewestListStays == Bar!NewestListStays
=============================================================================
