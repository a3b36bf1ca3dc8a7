-------------------------- MODULE MCResearchTurns --------------------------
(* Instances of ResearchTurns for TLC: one or two turns of a thread.       *)
EXTENDS ResearchTurns, TLC

CONSTANTS th1, t1, t2, w1, w2

OneThread  == t1 :> th1 @@ t2 :> th1
OneTurn    == t1 :> th1

\* Workers are interchangeable; only runs of safety properties use this.
WorkerSymmetry == Permutations(Workers)
=============================================================================
