--------------------------- MODULE ScoreSubmission ---------------------------
(***************************************************************************)
(* Score submissions of one player, on one ranked map in one mode.         *)
(*                                                                         *)
(* submit_score runs as a task per request.  Requests with the same        *)
(* checksum (resent by the client) queue on a lock; requests with          *)
(* different checksums interleave at every await, and share the player's   *)
(* in-memory statistics, which are changed before the transaction commits  *)
(* and put back when it fails.  The replay is staged under the checksum    *)
(* before the transaction and renamed to the score id after it.            *)
(*                                                                         *)
(* Of the statistics the play count and the ranked score are kept: the     *)
(* others are read, changed, written and restored with them.  MySQL is     *)
(* external: statements of a transaction see what was committed, an update *)
(* locks what it matched until the transaction ends.                       *)
(***************************************************************************)
EXTENDS Integers, FiniteSets

CONSTANTS Submissions,  \* requests
          Checksum,     \* the client checksum each request carries
          Points,       \* its performance points and its score, 0 if it failed
          Replayless,   \* requests whose replay is shorter than MIN_REPLAY_SIZE
          MaxFaults,    \* bound: failed transactions and server crashes
          None

ASSUME ScoreSubmissionAssumption ==
  /\ Points \in [Submissions -> Nat]
  /\ DOMAIN Checksum = Submissions
  /\ MaxFaults \in Nat
  /\ Replayless \subseteq Submissions
  /\ None \notin Submissions

Checksums == {Checksum[s] : s \in Submissions}

VARIABLES
  at,       \* how far each request has come
  lock,     \* score_submission_locks: the request in each checksum's section
  status,   \* score.status of each request, once rated
  prev,     \* score.prev_best of each request
  memory,   \* player.stats[mode]
  snap,     \* the statistics captured before each transaction
  update,   \* the statistics each request is to write
  demoted,  \* the former best scores each transaction has marked submitted
  rows,     \* committed rows of the scores table, named by their request
  best,     \* committed rows with status BEST
  stats,    \* the committed row of the stats table
  staged,   \* checksums with a .osr.pending file
  file,     \* scores with a replay under its final name
  faults

requests == <<at, lock, status, prev, snap, update, demoted>>
tables == <<rows, best, stats>>
disk == <<staged, file>>
vars == <<requests, memory, tables, disk, faults>>

Zero == [plays |-> 0, rscore |-> 0]
Passed(s) == Points[s] > 0

\* read_submitted_replay_file and replay_data_is_valid: is there a replay to keep?
HasReplay(s) == Passed(s) /\ s \notin Replayless

Init ==
  /\ at = [s \in Submissions |-> "new"]
  /\ lock = [c \in Checksums |-> None]
  /\ status = [s \in Submissions |-> "failed"]
  /\ prev = [s \in Submissions |-> None]
  /\ memory = Zero
  /\ snap = [s \in Submissions |-> Zero]
  /\ update = [s \in Submissions |-> Zero]
  /\ demoted = [s \in Submissions |-> {}]
  /\ rows = {} /\ best = {} /\ stats = Zero
  /\ staged = {} /\ file = {}
  /\ faults = 0

-----------------------------------------------------------------------------
(* Transactions.                                                           *)

Goes(s, step) == at' = [at EXCEPT ![s] = step]
Open == {"begun", "marked", "inserted", "written"}

\* Requests, other than s, whose transaction is past a statement.
OthersAt(s, steps) == {t \in Submissions \ {s} : at[t] \in steps}
OthersBest(s, steps) == {t \in OthersAt(s, steps) : status[t] = "best"}

\* The end of the section that the checksum's lock protects.
Release(s) == lock' = [lock EXCEPT ![Checksum[s]] = None]

-----------------------------------------------------------------------------
(* submit_score.                                                           *)

\* The request enters the section of its checksum.
Acquire(s) ==
  /\ at[s] = "new" /\ lock[Checksum[s]] = None
  /\ lock' = [lock EXCEPT ![Checksum[s]] = s]
  /\ Goes(s, "locked")
  /\ UNCHANGED <<status, prev, snap, update, demoted, memory, tables, disk, faults>>

\* Mutated form of CheckDuplicate: nobody looks for an earlier row.
CheckDuplicateNever(s) ==
  /\ at[s] = "locked"
  /\ Goes(s, "checked")
  /\ UNCHANGED <<lock, status, prev, snap, update, demoted, memory, tables, disk, faults>>

\* score_submission_is_duplicate.
CheckDuplicate(s) ==
  /\ at[s] = "locked"
  /\ IF \E t \in rows : Checksum[t] = Checksum[s]
     THEN Goes(s, "duplicate") /\ Release(s)
     ELSE Goes(s, "checked") /\ UNCHANGED lock
  /\ UNCHANGED <<status, prev, snap, update, demoted, memory, tables, disk, faults>>

\* calculate_score_submission_status: the committed best score is read here and
\* not again; a score whose .osu file is not to be had is not rated.
Rate(s) ==
  /\ at[s] = "checked"
  /\ \/ /\ Passed(s) /\ best # {}
        /\ \E b \in best :
             /\ prev' = [prev EXCEPT ![s] = b]
             /\ status' = [status EXCEPT ![s] =
                             IF Points[s] > Points[b] THEN "best" ELSE "submitted"]
     \/ /\ Passed(s) /\ best = {}
        /\ status' = [status EXCEPT ![s] = "best"] /\ UNCHANGED prev
     \/ /\ status' = [status EXCEPT ![s] = IF Passed(s) THEN "submitted" ELSE "failed"]
        /\ UNCHANGED prev
  /\ Goes(s, "rated")
  /\ UNCHANGED <<lock, snap, update, demoted, memory, tables, disk, faults>>

\* stage_replay_file; then, without an await, persist_score_submission captures
\* the state to go back to and opens the transaction.
Stage(s) ==
  /\ at[s] = "rated"
  /\ staged' = IF HasReplay(s) THEN staged \cup {Checksum[s]} ELSE staged
  /\ snap' = [snap EXCEPT ![s] = memory]
  /\ Goes(s, "begun")
  /\ UNCHANGED <<lock, status, prev, update, demoted, memory, tables, file, faults>>

\* mark_previous_best_scores_submitted, for a new best: the update locks the
\* rows with status BEST, committed or inserted, and the gap for new ones.
MarkPrevious(s) ==
  /\ at[s] = "begun" /\ status[s] = "best"
  /\ OthersBest(s, {"inserted", "written"}) = {}
  /\ best # {} => OthersBest(s, {"marked"}) = {}
  /\ demoted' = [demoted EXCEPT ![s] = best]
  /\ Goes(s, "marked")
  /\ UNCHANGED <<lock, status, prev, snap, update, memory, tables, disk, faults>>

\* apply_score_stats: the statistics with this score in them.
Applied(s) ==
  [plays  |-> memory.plays + 1,
   rscore |-> memory.rscore +
                IF status[s] # "best" THEN 0
                ELSE Points[s] - (IF prev[s] = None THEN 0 ELSE Points[prev[s]])]

\* scores.create; then, without an await, apply_score_stats changes the shared
\* statistics and takes down what is to be written.
Insert(s) ==
  /\ IF status[s] = "best"
     THEN at[s] = "marked" /\ OthersBest(s, {"marked"}) = {}
     ELSE at[s] = "begun"
  /\ memory' = Applied(s)
  /\ update' = [update EXCEPT ![s] = Applied(s)]
  /\ Goes(s, "inserted")
  /\ UNCHANGED <<lock, status, prev, snap, demoted, tables, disk, faults>>

\* stats.partial_update, with the absolute values taken down before (and after
\* fetch_weighted_best_performances for a new best).
WriteStats(s) ==
  /\ at[s] = "inserted" /\ OthersAt(s, {"written"}) = {}
  /\ Goes(s, "written")
  /\ UNCHANGED <<lock, status, prev, snap, update, demoted, memory, tables, disk, faults>>

\* The transaction commits what its statements did; the ranked score is among
\* the columns written only for a new best.
CommitTransaction(s) ==
  /\ at[s] = "written"
  /\ rows' = rows \cup {s}
  /\ best' = IF status[s] = "best" THEN (best \ demoted[s]) \cup {s} ELSE best
  /\ stats' = [plays |-> update[s].plays,
               rscore |-> IF status[s] = "best" THEN update[s].rscore ELSE stats.rscore]
  /\ Goes(s, "committed")
  /\ UNCHANGED <<lock, status, prev, snap, update, demoted, memory, disk, faults>>

\* The section ends, and commit_replay_file renames the staged replay.
StoreReplay(s) ==
  /\ at[s] = "committed"
  /\ Release(s)
  /\ IF HasReplay(s) THEN staged' = staged \ {Checksum[s]} /\ file' = file \cup {s}
                     ELSE UNCHANGED disk
  /\ Goes(s, "done")
  /\ UNCHANGED <<status, prev, snap, update, demoted, memory, tables, faults>>

\* Mutated form of RollBack: the section is not left.
RollBackKeepsLock(s) ==
  /\ memory' = snap[s]
  /\ staged' = staged \ {Checksum[s]}
  /\ UNCHANGED lock
  /\ Goes(s, "rolled_back")

\* restore_score_submission_state and discard_staged_replay.
RollBack(s) ==
  /\ memory' = snap[s]
  /\ staged' = staged \ {Checksum[s]}
  /\ Release(s)
  /\ Goes(s, "rolled_back")

\* A statement raises.
Fails(s) ==
  /\ at[s] \in Open /\ faults < MaxFaults
  /\ faults' = faults + 1
  /\ RollBack(s)
  /\ UNCHANGED <<status, prev, snap, update, demoted, tables, file>>

\* MySQL breaks a deadlock of inserts that wait for each other's gaps.
Deadlock(s) ==
  /\ at[s] = "marked" /\ OthersBest(s, {"marked"}) # {}
  /\ RollBack(s)
  /\ UNCHANGED <<status, prev, snap, update, demoted, tables, file, faults>>

\* Mutated form of Crash: staged replays are swept away at the start.
CrashLosesStaged ==
  /\ faults < MaxFaults /\ faults' = faults + 1
  /\ \E s \in Submissions : lock[Checksum[s]] = s
  /\ at' = [s \in Submissions |-> IF lock[Checksum[s]] = s THEN "lost" ELSE at[s]]
  /\ lock' = [c \in Checksums |-> None]
  /\ memory' = stats
  /\ staged' = {}
  /\ UNCHANGED <<status, prev, snap, update, demoted, tables, file>>

\* The server dies and starts again: requests are lost, players log in again
\* and their statistics are read from the stats table.
Crash ==
  /\ faults < MaxFaults /\ faults' = faults + 1
  /\ \E s \in Submissions : lock[Checksum[s]] = s
  /\ at' = [s \in Submissions |-> IF lock[Checksum[s]] = s THEN "lost" ELSE at[s]]
  /\ lock' = [c \in Checksums |-> None]
  /\ memory' = stats
  /\ UNCHANGED <<status, prev, snap, update, demoted, tables, disk>>

Step(s) ==
  \/ Acquire(s) \/ CheckDuplicate(s) \/ Rate(s) \/ Stage(s) \/ MarkPrevious(s)
  \/ Insert(s) \/ WriteStats(s) \/ CommitTransaction(s) \/ StoreReplay(s) \/ Deadlock(s)

Next == Crash \/ \E s \in Submissions : Step(s) \/ Fails(s)

Spec == Init /\ [][Next]_vars

-----------------------------------------------------------------------------
(* Properties.                                                             *)

Ended == {"done", "duplicate", "rolled_back", "lost"}
Stats == [plays : Nat, rscore : Int]

\* Type correctness; a replay under its final name belongs to a committed score.
TypeOK ==
  /\ at \in [Submissions -> Ended \cup Open \cup {"new", "locked", "checked", "rated", "committed"}]
  /\ lock \in [Checksums -> Submissions \cup {None}]
  /\ status \in [Submissions -> {"best", "submitted", "failed"}]
  /\ prev \in [Submissions -> Submissions \cup {None}]
  /\ memory \in Stats /\ stats \in Stats
  /\ snap \in [Submissions -> Stats] /\ update \in [Submissions -> Stats]
  /\ demoted \in [Submissions -> SUBSET Submissions]
  /\ rows \subseteq Submissions /\ best \subseteq rows
  /\ staged \subseteq Checksums /\ file \subseteq rows
  /\ faults \in 0..MaxFaults

\* A play is recorded once however often the client sends it: no two rows
\* have the same checksum, though the table does not enforce it.
NoDuplicateScore ==
  \A s, t \in rows : Checksum[s] = Checksum[t] => s = t

\* The player has at most one best score on the map, whichever submissions
\* race to be it.
OneBest == \A s, t \in best : s = t

\* One row per play and one best score per player and map (score_submission_is_duplicate,
\* mark_previous_best_scores_submitted), with submissions, locks and files well formed.
ScoresInv == TypeOK /\ NoDuplicateScore /\ OneBest

\* No committed score has lost the replay it came with: it is in place, or still
\* under the name it was staged with, whatever crashed and whatever was resent.
ReplaySurvives ==
  \A s \in rows : HasReplay(s) => s \in file \/ Checksum[s] \in staged

\* Every request is answered: none waits for ever for its checksum's section or
\* for the rows another one has locked.  While one is unanswered some request
\* can go on without a fault, and each takes finitely many steps.
RequestsGoOn ==
  (\E s \in Submissions : at[s] \notin Ended) =>
    \E s \in Submissions : ENABLED Step(s)
=============================================================================
