----------------------------- MODULE SearchTools -----------------------------
(***************************************************************************)
(* Web searches of one worker process with one search tool, and the        *)
(* pipeline behind them: search, de-duplicate, announce, summarize.        *)
(*                                                                         *)
(* What concurrent searches share outlives them: the tool's circuit        *)
(* breaker (_breakers, one per tool name) and reddit's access token.  A    *)
(* call under the breaker is up to MaxAttempts HTTP requests, and counts   *)
(* as one success or one failure.                                          *)
(*                                                                         *)
(* A search result is its URL (reddit's may be the empty one, which is     *)
(* then a page like any other), a token the number of the answer that      *)
(* brought it.  Texts, scores and the waiting times are left out.          *)
(***************************************************************************)
EXTENDS Integers, SequencesExt

CONSTANTS
  Searches,    \* searches that run at the same time
  Tools,       \* the tools to check: "tavily", "reddit"
  Pages,       \* URLs
  MaxItems,    \* bound on the items of an answer
  MaxTokens,   \* bound on the token answers
  MaxResults,  \* max_results
  FailMax      \* breaker_fail_max

VARIABLES
  tool,      \* the tool the searches use
  breaker,   \* pybreaker's state and its failure counter
  token,     \* _token, 0 for None
  expires,   \* the answer that _token_expires_at was computed from
  received,  \* token answers received
  lapsed,    \* the last answer whose expiry has passed
  stage,     \* where each search is
  tries,     \* HTTP requests of its current call, 0 outside of a call
  waits,     \* searches that wait before they try again
  using,     \* the token each search sends
  found,     \* the results its tool returned
  noted,     \* the source_url events it sent
  summed,    \* the results that have a summary or an excerpt
  trip       \* since the breaker opened: requests sent, calls then running

tokens == <<token, expires, received>>
pages == <<found, noted, summed>>
vars == <<tool, breaker, tokens, lapsed, stage, tries, waits, using, pages, trip>>

MaxAttempts == 3
NoTrip == [sent |-> 0, flying |-> 0]

Init ==
  /\ tool \in Tools
  /\ breaker = [state |-> "closed", fails |-> 0]
  /\ token = 0 /\ expires = 0 /\ received = 0 /\ lapsed = 0
  /\ stage = [s \in Searches |-> "idle"]
  /\ tries = [s \in Searches |-> 0]
  /\ waits = {}
  /\ using = [s \in Searches |-> 0]
  /\ found = [s \in Searches |-> <<>>]
  /\ noted = [s \in Searches |-> <<>>]
  /\ summed = [s \in Searches |-> {}]
  /\ trip = NoTrip

----------------------------------------------------------------------------
(* pybreaker.  What it does with several calls while it is half open, and  *)
(* with calls that were let in before it opened, is left open.             *)

With(b, state) == [b EXCEPT !.state = state]

\* Mutant: an open breaker lets calls through.
AdmitAlways(b) == {[breaker |-> b, in |-> TRUE]}

\* An open breaker refuses until its reset_timeout is over.
Admit(b) ==
  IF b.state # "open" THEN {[breaker |-> b, in |-> TRUE]}
  ELSE {[breaker |-> b, in |-> FALSE], [breaker |-> With(b, "half"), in |-> TRUE]}

Succeed(b) ==
  LET reset == [b EXCEPT !.fails = 0]
  IN  {reset, With(reset, "closed")}

Fail(b) ==
  IF b.fails + 1 >= FailMax THEN {[state |-> "open", fails |-> FailMax]}
  ELSE LET more == [b EXCEPT !.fails = @ + 1]
       IN  {more} \cup (IF b.state = "half" THEN {With(more, "open")} ELSE {})

----------------------------------------------------------------------------
(* One call under the breaker.                                             *)

InCall(s) == tries[s] > 0
Replied(s) == InCall(s) /\ s \notin waits
Set(f, s, v) == [f EXCEPT ![s] = v]
Smaller(a, b) == IF a < b THEN a ELSE b

\* The breaker's new state, with the history of its last opening.
Breaker(s, b) ==
  /\ breaker' = b
  /\ trip' = IF b.state # "open" THEN NoTrip
             ELSE IF breaker.state = "open" THEN trip
             ELSE [sent |-> 0, flying |-> Cardinality({r \in Searches \ {s} : InCall(r)})]

\* call_with_breaker: refused, or its first request is on its way.
Enter(s, b, to) ==
  \E a \in Admit(b) :
    /\ Breaker(s, a.breaker)
    /\ stage' = Set(stage, s, IF a.in THEN to ELSE "error")
    /\ tries' = Set(tries, s, IF a.in THEN 1 ELSE 0)

\* The exception leaves the search, mostly as a SearchToolError.
Raise(s) ==
  /\ stage' = Set(stage, s, "error")
  /\ tries' = Set(tries, s, 0)

\* Tavily's, Exa's and NewsAPI's search send their key with the request.
SearchWithKey(s) ==
  /\ tool # "reddit" /\ stage[s] = "idle"
  /\ Enter(s, breaker, "search")
  /\ UNCHANGED <<tool, tokens, lapsed, waits, using, pages>>

HasToken == token # 0 /\ expires > lapsed

\* Reddit's search uses the token at hand or fetches one.
SearchReddit(s) ==
  /\ tool = "reddit" /\ stage[s] = "idle"
  /\ Enter(s, breaker, IF HasToken THEN "search" ELSE "token")
  /\ using' = Set(using, s, IF HasToken THEN token ELSE 0)
  /\ UNCHANGED <<tool, tokens, lapsed, waits, pages>>

\* Mutant: the expiry is stored before the token is looked at.
TokenReplyExpiryFirst(s) ==
  /\ Replied(s) /\ stage[s] = "token" /\ received < MaxTokens
  /\ received' = received + 1
  /\ expires' = received'
  /\ \E b \in Succeed(breaker) :
       \/ /\ token' = received'
          /\ using' = Set(using, s, token')
          /\ Enter(s, b, "search")
       \/ /\ Breaker(s, b) /\ Raise(s)
          /\ UNCHANGED <<token, using>>
  /\ UNCHANGED <<tool, lapsed, waits, pages>>

\* _fetch_token returned: the token is stored, then its expiry, either of
\* which may be missing from the answer; the search goes on at once.
TokenReply(s) ==
  /\ Replied(s) /\ stage[s] = "token" /\ received < MaxTokens
  /\ received' = received + 1
  /\ \E b \in Succeed(breaker) :
       \/ /\ token' = received' /\ expires' = received'
          /\ using' = Set(using, s, token')
          /\ Enter(s, b, "search")
       \/ /\ token' \in {token, received'}
          /\ Breaker(s, b) /\ Raise(s)
          /\ UNCHANGED <<expires, using>>
  /\ UNCHANGED <<tool, lapsed, waits, pages>>

\* Mutant: only consecutive duplicates are dropped.
DedupedNeighbours(results) ==
  FoldLeft(LAMBDA seen, r : IF seen # <<>> /\ Last(seen) = r THEN seen ELSE Append(seen, r),
           <<>>, results)

\* deduplicate_search_results: the first of each URL, in order.
Deduped(results) ==
  FoldLeft(LAMBDA seen, r : IF Contains(seen, r) THEN seen ELSE Append(seen, r),
           <<>>, results)

\* run_search_pipeline has the tool's results: the de-duplicated ones are
\* announced as sources, to be summarized.
Collect(s, results) ==
  /\ found' = Set(found, s, results)
  /\ noted' = Set(noted, s, Deduped(results))
  /\ stage' = Set(stage, s, IF results = <<>> THEN "done" ELSE "summaries")
  /\ tries' = Set(tries, s, 0)

\* The items that are taken of an answer.
Taken == {SubSeq(items, 1, Smaller(Len(items), MaxResults)) : items \in SeqOf(Pages, MaxItems)}

\* _call returned.  An item may lack its URL, or hold null for it: then the
\* tool raises, though the breaker has seen a success.
SearchReply(s) ==
  /\ Replied(s) /\ stage[s] = "search"
  /\ \E b \in Succeed(breaker) : Breaker(s, b)
  /\ \/ \E results \in Taken : Collect(s, results)
     \/ Raise(s) /\ UNCHANGED <<found, noted>>
  /\ UNCHANGED <<tool, tokens, lapsed, waits, using, summed>>

\* 4xx, or an answer that is not JSON: not tried again.
Rejected(s) ==
  /\ Replied(s)
  /\ \E b \in Fail(breaker) : Breaker(s, b)
  /\ Raise(s)
  /\ UNCHANGED <<tool, tokens, lapsed, waits, using, pages>>

\* 5xx or a transport error: tried again after a while, up to the limit.
Transient(s) ==
  /\ Replied(s)
  /\ IF tries[s] < MaxAttempts
     THEN waits' = waits \cup {s} /\ UNCHANGED <<breaker, trip, stage, tries>>
     ELSE /\ \E b \in Fail(breaker) : Breaker(s, b)
          /\ Raise(s)
          /\ UNCHANGED waits
  /\ UNCHANGED <<tool, tokens, lapsed, using, pages>>

\* tenacity sends again, and does not ask the breaker.
Retry(s) ==
  /\ s \in waits
  /\ waits' = waits \ {s}
  /\ tries' = [tries EXCEPT ![s] = @ + 1]
  /\ trip' = IF breaker.state = "open" THEN [trip EXCEPT !.sent = @ + 1] ELSE trip
  /\ UNCHANGED <<tool, breaker, tokens, lapsed, stage, using, pages>>

----------------------------------------------------------------------------
(* The summaries, concurrently; a failed one becomes an excerpt.           *)

Summarize(s) ==
  /\ stage[s] = "summaries"
  /\ \E i \in DOMAIN noted[s] \ summed[s] :
       /\ summed' = [summed EXCEPT ![s] = @ \cup {i}]
       /\ stage' = IF summed'[s] = DOMAIN noted[s] THEN Set(stage, s, "done") ELSE stage
  /\ UNCHANGED <<tool, breaker, tokens, lapsed, tries, waits, using, found, noted, trip>>

\* format_search_output numbers the results in the order of the answer.
Output(s) == [i \in summed[s] |-> noted[s][i]]

\* The process makes another search; the breaker and the token stay.
Another(s) ==
  /\ stage[s] \in {"done", "error"}
  /\ stage' = Set(stage, s, "idle")
  /\ using' = Set(using, s, 0)
  /\ found' = Set(found, s, <<>>)
  /\ noted' = Set(noted, s, <<>>)
  /\ summed' = Set(summed, s, {})
  /\ UNCHANGED <<tool, breaker, tokens, lapsed, tries, waits, trip>>

----------------------------------------------------------------------------
\* Time passes: the expiry that is stored is over.
Lapse ==
  /\ expires > lapsed
  /\ lapsed' = expires
  /\ UNCHANGED <<tool, breaker, tokens, stage, tries, waits, using, pages, trip>>

SearchStep(s) ==
  \/ SearchWithKey(s) \/ SearchReddit(s) \/ TokenReply(s) \/ SearchReply(s)
  \/ Rejected(s) \/ Transient(s) \/ Retry(s) \/ Summarize(s)
  \/ Another(s)

Next == Lapse \/ \E s \in Searches : SearchStep(s)

Spec == Init /\ [][Next]_vars

----------------------------------------------------------------------------
(* Properties.                                                             *)

TypeOK ==
  /\ breaker \in [state: {"closed", "open", "half"}, fails: 0..FailMax]
  /\ stage \in [Searches -> {"idle", "token", "search", "summaries", "done", "error"}]
  /\ \A s \in Searches : tries[s] \in 0..MaxAttempts /\ (InCall(s) <=> stage[s] \in {"token", "search"})
  /\ \A s \in waits : InCall(s) /\ tries[s] < MaxAttempts

\* Once the breaker has opened, all that still reaches the provider until
\* it lets a probe through are the retries of the calls that were running:
\* two each at most.
TripShedsLoad == trip.sent <= (MaxAttempts - 1) * trip.flying

\* However token fetches, malformed answers and expiries interleave, no
\* search begins with a token it has reason to hold for expired: it is newer
\* than every answer whose expiry has passed.  (A retry of its request sends
\* the same token again, as the code does.)
SearchSendsFreshToken ==
  [][\A s \in Searches :
       (tool = "reddit" /\ stage[s] # "search" /\ stage'[s] = "search") => using'[s] > lapsed]_vars

\* What the model gets to read cites each URL that was found once, in the
\* order found, and just those announced to the user as sources, whichever
\* summaries fail.
OutputMatchesSources ==
  \A s \in Searches : stage[s] = "done" =>
    /\ Output(s) = noted[s]
    /\ ToSet(noted[s]) = ToSet(found[s])
    /\ IsInjective(noted[s])
    /\ \A i, j \in DOMAIN noted[s] : i < j =>
         \E k \in DOMAIN found[s] :
           found[s][k] = noted[s][i] /\ \A l \in 1..k : found[s][l] # noted[s][j]
=============================================================================
