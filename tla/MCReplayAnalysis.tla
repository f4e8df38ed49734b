-------------------------- MODULE MCReplayAnalysis --------------------------
(***************************************************************************)
(* A small instance of replay analysis, and what comments and docstrings   *)
(* say of it where the code does otherwise.                                *)
(***************************************************************************)
EXTENDS ReplayAnalysis

\* Without the record of the verdicts, which no handler and no liveness property
\* reads and of which the invariant asks one thing.
View == <<phase, replay, rows, file, queue, stats, flags, job, pass, auditing,
          NoPhantomVerdict, faults>>

-----------------------------------------------------------------------------

\* app/api/dependencies.py:214: a dropped enqueue "is not a correctness
\* problem: the worker's backfill scan re-derives the score".
DroppedEnqueueIsRecovered ==
  \A n \in Scores :
    n \in file ~> n \notin rows \/ stats[n] \in {"analyzed", "error"}

\* app/services/anticheat/worker.py:55: awaiting the hook means that a failure
\* is "a failed iteration the supervised loop retries, not a silently dropped
\* flag".
FlagIsNotDropped ==
  \A n \in Scores :
    stats[n] = "analyzed" /\ replay[n] = "cheated" ~> n \notin rows \/ flags[n] # "no_row"

\* app/repositories/replay_analysis_queue.py:11: a duplicate entry is harmless,
\* "the worker re-checks the row and skips an already-terminal score".
TerminalScoreIsSkipped ==
  [][\A w \in Workers :
       ReadReplay(w) => stats[job[w].score] \notin {"analyzed", "replay_missing"}]_vars

\* app/services/anticheat/replay_analysis.py:19: after an error "the row stays
\* re-runnable so a later pass can retry it".
ErrorIsRetried ==
  \A n \in Scores :
    stats[n] = "error" ~> n \notin rows \/ \E w \in Workers : job[w].score = n

\* app/services/anticheat/flag_review_queue.py:24: a verdict is logged, "so a
\* review is auditable after the fact".
VerdictIsAudited == decided \subseteq auditing \cup logs

\* app/services/anticheat/worker.py:88: a bounded pass means "a huge cold-start
\* backlog is drained over several passes".
BacklogIsDrained ==
  \A n \in Scores :
    n \in rows /\ replay[n] # "unreadable" ~> n \notin rows \/ stats[n] # "no_row"
=============================================================================
