-------------------------- MODULE MCScoreSubmission --------------------------
(***************************************************************************)
(* Small instances of ScoreSubmission, and what comments and tests say of  *)
(* submissions where the code does otherwise.                              *)
(***************************************************************************)
EXTENDS ScoreSubmission, TLC

CONSTANTS a, a2, b, f

\* A pass that is sent twice (a and a2), a better pass and a failed play.
MCChecksum == [s \in Submissions |-> IF s = a2 THEN a ELSE s]
MCPoints == [s \in Submissions |-> IF s \in {a, a2} THEN 1 ELSE IF s = b THEN 2 ELSE 0]

Quiet == \A s \in Submissions : at[s] \in Ended \cup {"new"}

-----------------------------------------------------------------------------
\* app/services/score_submission.py:399, before a score is inserted as BEST and
\* the former best is marked submitted: "this score is our best score."
\* Stated of the scores that were rated: those that are a best score or were
\* compared with one.
BestIsBest ==
  \A s \in best : \A t \in rows :
    status[t] = "best" \/ prev[t] # None => Points[t] <= Points[s]

\* app/services/score_submission.py:688: "Stats updated for all submitted
\* scores."  Stated of the stats table when no request is under way.
RowsAreCounted == Quiet => stats.plays = Cardinality(rows)

\* tests/unit/services/score_submission_test.py:1394: persisting a submission
\* "restores_memory_state_on_failure".
FailureRestoresMemory == Quiet => memory.plays = Cardinality(rows)
=============================================================================
