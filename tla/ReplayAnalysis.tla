--------------------------- MODULE ReplayAnalysis ---------------------------
(***************************************************************************)
(* From a committed score to a verdict on its replay.                      *)
(*                                                                         *)
(* Three processes that share MySQL, Redis and the replay volume:          *)
(*  - the server commits a score, renames the staged replay and pushes the *)
(*    score onto the queue in a background task; staff resolve flags here; *)
(*  - the consume loop of a worker pops a score, reads its replay, upserts *)
(*    the score_replay_stats row and hands a flagged result to the review; *)
(*  - the backfill loop pushes the scores that have no such row.           *)
(* Every await is a step of its own.  A fault is an exception out of an    *)
(* await, a killed process, or a flushed Redis.                            *)
(***************************************************************************)
EXTENDS Integers, Sequences, FiniteSets

CONSTANTS NScores,     \* scores submitted; score ids are assigned in order
          Workers,     \* anticheat_worker processes
          Kinds,       \* what a submission may bring (see Contents)
          Choices,     \* the statuses staff give to flags
          BatchSize,   \* backfill_batch_size
          MaxBatches,  \* backfill_max_batches
          MaxBacklog,  \* bound: a backfill pass starts only below this queue
          MaxFaults    \* bound: faults in one behaviour

\* What analysing a replay comes to: no detector fires, one does, decoding
\* raises ReplayParseError, or reading it raises every time; or no replay.
Contents == {"clean", "cheated", "corrupt", "unreadable", "none"}

ASSUME ReplayAnalysisAssumption ==
  /\ NScores \in Nat /\ MaxBacklog \in Nat /\ MaxFaults \in Nat
  /\ BatchSize \in Nat \ {0} /\ MaxBatches \in Nat \ {0}
  /\ Kinds \subseteq Contents
  /\ Choices \subseteq {"reviewing", "actioned", "dismissed"}

Scores == 1..NScores

VARIABLES
  phase,     \* of each submission: new, committed, enqueueing, done
  replay,    \* what each submission brought
  rows,      \* scores with a row in the scores table
  file,      \* scores with a replay under its final name
  queue,     \* the Redis list, tail (next to pop) first
  stats,     \* score_replay_stats.status, "no_row" without a row
  flags,     \* anticheat_flags.status, "no_row" without a row
  job,       \* what each consume loop is doing: a step and a score
  pass,      \* what each backfill loop is doing
  decided,   \* ghost: verdicts staff have given
  auditing,  \* verdicts whose log entry is still to be written
  logs,      \* verdicts in the moderation log
  faults     \* faults so far

server == <<phase, replay, rows, file>>
review == <<decided, auditing, logs>>
vars == <<server, queue, stats, flags, job, pass, review, faults>>

Idle == [at |-> "idle", score |-> 0]
NoPass == [at |-> "idle", cursor |-> 0, batches |-> 0, todo |-> {}]

Init ==
  /\ phase = [n \in Scores |-> "new"]
  /\ replay = [n \in Scores |-> "none"]
  /\ rows = {} /\ file = {}
  /\ queue = <<>>
  /\ stats = [n \in Scores |-> "no_row"]
  /\ flags = [n \in Scores |-> "no_row"]
  /\ job = [w \in Workers |-> Idle]
  /\ pass = [w \in Workers |-> NoPass]
  /\ decided = {} /\ auditing = {} /\ logs = {}
  /\ faults = 0

Fault == faults < MaxFaults /\ faults' = faults + 1

-----------------------------------------------------------------------------
(* The server.                                                             *)

\* persist_score_submission has committed; a replay is staged as .pending.
Commit(n) ==
  /\ phase[n] = "new" /\ \A m \in 1..(n - 1) : phase[m] # "new"
  /\ \E k \in Kinds : replay' = [replay EXCEPT ![n] = k]
  /\ phase' = [phase EXCEPT ![n] = "committed"]
  /\ rows' = rows \cup {n}
  /\ UNCHANGED <<file, queue, stats, flags, job, pass, review, faults>>

\* commit_replay_file and, without an await, _schedule_replay_analysis.  A
\* rename that fails is swallowed.
StoreReplay(n) ==
  /\ phase[n] = "committed"
  /\ IF replay[n] = "none"
     THEN phase' = [phase EXCEPT ![n] = "done"] /\ UNCHANGED <<file, faults>>
     ELSE /\ phase' = [phase EXCEPT ![n] = "enqueueing"]
          /\ \/ file' = file \cup {n} /\ UNCHANGED faults
             \/ Fault /\ UNCHANGED file
  /\ UNCHANGED <<replay, rows, queue, stats, flags, job, pass, review>>

\* The spawned task's LPUSH, or its failure.
Enqueue(n) ==
  /\ phase[n] = "enqueueing"
  /\ phase' = [phase EXCEPT ![n] = "done"]
  /\ \/ queue' = Append(queue, n) /\ UNCHANGED faults
     \/ Fault /\ UNCHANGED queue
  /\ UNCHANGED <<replay, rows, file, stats, flags, job, pass, review>>

\* The map is wiped: !wipemap, an updated or a removed beatmap.
Wipe(n) ==
  /\ n \in rows
  /\ rows' = rows \ {n}
  /\ UNCHANGED <<phase, replay, file, queue, stats, flags, job, pass, review, faults>>

Verdicts == {"actioned", "dismissed"}

\* resolve_flag: the update of the flag has committed.  Without a flag nothing
\* is updated or logged.
ResolveFlag(n, status) ==
  /\ flags[n] # "no_row"
  /\ flags' = [flags EXCEPT ![n] = status]
  /\ decided' = IF status \in Verdicts THEN decided \cup {<<n, status>>} ELSE decided
  /\ auditing' = IF status \in Verdicts THEN auditing \cup {<<n, status>>} ELSE auditing
  /\ UNCHANGED <<server, queue, stats, job, pass, logs, faults>>

\* ... and its entry in the moderation log, or the failure to write it.
LogVerdict(v) ==
  /\ v \in auditing
  /\ auditing' = auditing \ {v}
  /\ \/ logs' = logs \cup {v} /\ UNCHANGED faults
     \/ Fault /\ UNCHANGED logs
  /\ UNCHANGED <<server, queue, stats, flags, job, pass, decided>>

\* The server is killed: what its tasks had still to do is not done.
ServerCrash ==
  /\ Fault
  /\ auditing # {} \/ \E n \in Scores : phase[n] \in {"committed", "enqueueing"}
  /\ phase' = [n \in Scores |-> IF phase[n] = "new" THEN "new" ELSE "done"]
  /\ auditing' = {}
  /\ UNCHANGED <<replay, rows, file, queue, stats, flags, job, pass, decided, logs>>

-----------------------------------------------------------------------------
(* The consume loop.                                                       *)

At(w, step) == job[w].at = step
Goes(w, step) == job' = [job EXCEPT ![w].at = step]
Ends(w) == job' = [job EXCEPT ![w] = Idle]

\* queue.dequeue: the popped entry is gone from the list.
Dequeue(w) ==
  /\ At(w, "idle") /\ queue # <<>>
  /\ job' = [job EXCEPT ![w] = [at |-> "popped", score |-> Head(queue)]]
  /\ queue' = Tail(queue)
  /\ UNCHANGED <<server, stats, flags, pass, review, faults>>

\* read_replay_bytes, decoding and the detectors.
ReadReplay(w) ==
  /\ At(w, "popped")
  /\ IF job[w].score \notin file THEN Goes(w, "missing")
     ELSE CASE replay[job[w].score] = "corrupt"    -> Goes(w, "undecodable")
            [] replay[job[w].score] = "unreadable" -> Ends(w)
            [] OTHER                               -> Goes(w, "decoded")
  /\ UNCHANGED <<server, queue, stats, flags, pass, review, faults>>

Outcome == [missing |-> "replay_missing", undecodable |-> "error", decoded |-> "analyzed"]

\* Mutated form of Mark: a row that exists is left as it is.
MarkInsertOnly(w) ==
  /\ job[w].at \in DOMAIN Outcome
  /\ stats' = [stats EXCEPT ![job[w].score] = IF @ = "no_row" THEN Outcome[job[w].at] ELSE @]
  /\ IF At(w, "decoded") THEN Goes(w, "marked") ELSE Ends(w)
  /\ UNCHANGED <<server, queue, flags, pass, review, faults>>

\* mark_replay_missing, mark_error and mark_analyzed: the upsert of the row.
Mark(w) ==
  /\ job[w].at \in DOMAIN Outcome
  /\ stats' = [stats EXCEPT ![job[w].score] = Outcome[job[w].at]]
  /\ IF At(w, "decoded") THEN Goes(w, "marked") ELSE Ends(w)
  /\ UNCHANGED <<server, queue, flags, pass, review, faults>>

\* Mutated form of RecordFlag: a flag that was decided is opened again.
RecordFlagReopens(w) ==
  /\ At(w, "marked")
  /\ flags' = IF replay[job[w].score] = "cheated" /\ job[w].score \in rows
              THEN [flags EXCEPT ![job[w].score] = "open"] ELSE flags
  /\ Ends(w)
  /\ UNCHANGED <<server, queue, stats, pass, review, faults>>

\* on_result: a flagged score that still exists gets an open flag unless it
\* has one, whose status then stays.
RecordFlag(w) ==
  /\ At(w, "marked")
  /\ flags' = IF replay[job[w].score] = "cheated" /\ job[w].score \in rows
              THEN [flags EXCEPT ![job[w].score] = IF @ = "no_row" THEN "open" ELSE @]
              ELSE flags
  /\ Ends(w)
  /\ UNCHANGED <<server, queue, stats, pass, review, faults>>

\* An await of the iteration raises: the supervised loop starts a new one.
ConsumeFails(w) ==
  /\ Fault /\ ~At(w, "idle")
  /\ Ends(w)
  /\ UNCHANGED <<server, queue, stats, flags, pass, review>>

-----------------------------------------------------------------------------
(* The backfill loop.                                                      *)

\* The first page of a set of score ids in ascending order.
Page(ids) == {n \in ids : Cardinality({m \in ids : m < n}) < BatchSize}

\* Mutated form of Unanalyzed: the cursor is an inclusive bound.
UnanalyzedInclusive(cursor) ==
  Page({n \in rows : n >= cursor /\ stats[n] = "no_row"})

\* fetch_unanalyzed_scores: one page of the scores without a row.
Unanalyzed(cursor) == Page({n \in rows : n > cursor /\ stats[n] = "no_row"})

\* A pass walks the table from the beginning.
BackfillStarts(w) ==
  /\ pass[w].at = "idle" /\ Len(queue) < MaxBacklog
  /\ pass' = [pass EXCEPT ![w].at = "fetching"]
  /\ UNCHANGED <<server, queue, stats, flags, job, review, faults>>

\* One page is fetched; an empty one ends the pass.
BackfillFetch(w) ==
  /\ pass[w].at = "fetching"
  /\ LET page == Unanalyzed(pass[w].cursor)
     IN  IF page = {} THEN pass' = [pass EXCEPT ![w] = NoPass]
         ELSE \E last \in page :
                /\ \A n \in page : n <= last
                /\ pass' = [pass EXCEPT ![w] =
                     [at |-> IF Cardinality(page) < BatchSize THEN "last" ELSE "pushing",
                      cursor |-> last, batches |-> @.batches + 1, todo |-> page]]
  /\ UNCHANGED <<server, queue, stats, flags, job, review, faults>>

\* After a full page, unless it was the last allowed, comes the next.
AfterPage(p) ==
  IF p.at = "last" \/ p.batches = MaxBatches THEN NoPass
  ELSE [p EXCEPT !.at = "fetching", !.todo = {}]

\* The page is pushed one score at a time.
BackfillPush(w) ==
  /\ \E n \in pass[w].todo :
       /\ \A m \in pass[w].todo : n <= m
       /\ queue' = Append(queue, n)
       /\ LET rest == pass[w].todo \ {n}
          IN  pass' = [pass EXCEPT ![w] = IF rest = {} THEN AfterPage(@)
                                          ELSE [@ EXCEPT !.todo = rest]]
  /\ UNCHANGED <<server, stats, flags, job, review, faults>>

\* An await of the pass raises.
BackfillFails(w) ==
  /\ Fault /\ pass[w].at # "idle"
  /\ pass' = [pass EXCEPT ![w] = NoPass]
  /\ UNCHANGED <<server, queue, stats, flags, job, review>>

\* The worker is killed and started again.
WorkerCrash(w) ==
  /\ Fault /\ pass[w].at # "idle" /\ ~At(w, "idle")
  /\ pass' = [pass EXCEPT ![w] = NoPass]
  /\ Ends(w)
  /\ UNCHANGED <<server, queue, stats, flags, review>>

\* Redis loses the list.
Flush ==
  /\ Fault /\ queue # <<>>
  /\ queue' = <<>>
  /\ UNCHANGED <<server, stats, flags, job, pass, review>>

-----------------------------------------------------------------------------
Server ==
  \/ \E n \in Scores : \/ Commit(n) \/ StoreReplay(n) \/ Enqueue(n) \/ Wipe(n)
                       \/ \E s \in Choices : ResolveFlag(n, s)
  \/ \E v \in auditing : LogVerdict(v)
  \/ ServerCrash \/ Flush

Worker(w) ==
  \/ Dequeue(w) \/ ReadReplay(w) \/ Mark(w) \/ RecordFlag(w) \/ ConsumeFails(w)
  \/ BackfillStarts(w) \/ BackfillFetch(w) \/ BackfillPush(w) \/ BackfillFails(w)
  \/ WorkerCrash(w)

Next == Server \/ \E w \in Workers : Worker(w)

Spec == Init /\ [][Next]_vars

\* The supervised loops of the workers go on, and so does a submission.
Fairness ==
  /\ \A n \in Scores : WF_vars(StoreReplay(n)) /\ WF_vars(Enqueue(n))
  /\ \A w \in Workers :
       /\ WF_vars(Dequeue(w) \/ ReadReplay(w) \/ Mark(w) \/ RecordFlag(w))
       /\ WF_vars(BackfillStarts(w) \/ BackfillFetch(w) \/ BackfillPush(w))

FairSpec == Spec /\ Fairness

-----------------------------------------------------------------------------
(* Properties.                                                             *)

StatsStatus == {"no_row", "analyzed", "replay_missing", "error"}
FlagStatus == {"no_row", "open", "reviewing"} \cup Verdicts
Steps == {"popped", "marked"} \cup DOMAIN Outcome

\* Type correctness; a backfill pass pushes no more than its batches.
TypeOK ==
  /\ phase \in [Scores -> {"new", "committed", "enqueueing", "done"}]
  /\ replay \in [Scores -> Contents]
  /\ rows \subseteq Scores /\ file \subseteq Scores
  /\ queue \in Seq(Scores)
  /\ stats \in [Scores -> StatsStatus] /\ flags \in [Scores -> FlagStatus]
  /\ job \in [Workers -> {Idle} \cup [at : Steps, score : Scores]]
  /\ \A w \in Workers :
       /\ pass[w].at \in {"idle", "fetching", "pushing", "last"}
       /\ pass[w].cursor \in 0..NScores /\ pass[w].batches \in 0..MaxBatches
       /\ pass[w].todo \subseteq Scores /\ Cardinality(pass[w].todo) <= BatchSize
  /\ decided \cup auditing \cup logs \subseteq Scores \X Verdicts
  /\ faults \in 0..MaxFaults

\* Nobody is flagged without evidence: a flagged score has a stored replay that
\* a detector fired on, and with one worker its row says `analyzed` for good,
\* whatever was retried, lost or analysed twice.
FlagsHaveEvidence ==
  \A n \in Scores : flags[n] # "no_row" =>
    n \in file /\ replay[n] = "cheated" /\ stats[n] = "analyzed"

OnlyStaffDecide ==
  \A n \in Scores : flags[n] \in Verdicts /\ flags'[n] # flags[n] =>
    \E s \in FlagStatus : ResolveFlag(n, s)

\* What staff decided is only changed by staff: no re-analysis of a duplicate
\* or backfilled entry opens a decided flag again.
DecisionsAreKept == [][OnlyStaffDecide]_vars

\* The moderation log and the verdicts on their way to it hold no verdict
\* that was not given.
NoPhantomVerdict == auditing \cup logs \subseteq decided

\* Flags have evidence and the moderation log has verdicts, whatever fails,
\* crashes or is analysed twice (record_flag, resolve_flag).
ReviewInv == TypeOK /\ FlagsHaveEvidence /\ NoPhantomVerdict

\* Every score in the table gets an analysis row: the backfill makes up for
\* flushed lists, lost pushes, crashes and failed iterations.
EveryScoreIsAnalyzed ==
  \A n \in Scores :
    n \in rows /\ replay[n] # "unreadable" ~> n \notin rows \/ stats[n] # "no_row"

\* Until something fails, a replay that lands is analysed, also when a backfill
\* found the score before the rename and recorded the replay as missing; and
\* a detected one reaches the review queue unless the score is wiped
\* (consume_once, backfill_once, record_flag).
ReplaysAreJudged ==
  \A n \in Scores :
    /\ n \in file /\ replay[n] # "unreadable" ~> stats[n] \in {"analyzed", "error"} \/ faults > 0
    /\ n \in file /\ replay[n] = "cheated" ~> flags[n] # "no_row" \/ n \notin rows \/ faults > 0
=============================================================================
