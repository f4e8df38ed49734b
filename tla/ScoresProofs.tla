---------------------------- MODULE ScoresProofs ----------------------------
(***************************************************************************)
(* Proofs about the way of a score, and about the maps it is set on.       *)
(*                                                                         *)
(* First ScoreSubmission, for any requests, checksums and points: a play   *)
(* is recorded once, the player has one best score, and no committed score *)
(* loses its replay.  The inductive invariant says what the lock of a      *)
(* checksum buys (Section and Fresh), what the row locks of MySQL buy      *)
(* (Exclusive and Demoted), and that a replay waits under its checksum for *)
(* as long as its transaction is open (Waiting).                           *)
(*                                                                         *)
(* Then Leaderboard, for any number of users and requests and any batch: a *)
(* player whose operations came one at a time is not ranked while          *)
(* restricted, and a rebuild is exact.  The invariant says who owns the    *)
(* object of a Player (Owned, Collected), what the one request for a user  *)
(* has in hand (InHand), and what a rebuild has added and is about to add  *)
(* (Adds).                                                                 *)
(*                                                                         *)
(* Last BeatmapCache, for any maps, versions, objects and requests: what   *)
(* is listed is not deleted, and a decision stays.  The invariant says     *)
(* what each request knows (ErrandRight) and, of a map no two requests of  *)
(* which overlapped, that the cache holds one object of it and the row     *)
(* with the decision goes before that object (Undisturbed).                *)
(***************************************************************************)
EXTENDS MCScores, MCMaps, FiniteSetTheorems, WellFoundedInduction, TLAPS

\* Between the acquisition and the release of the checksum's lock.
InSection == {"locked", "checked", "rated", "committed"} \cup Open

\* A request is in its section exactly while it holds the lock.
Section ==
  \A s \in Submissions : at[s] \in InSection <=> lock[Checksum[s]] = s

\* Past the check for duplicates there is no row with the checksum.
Fresh ==
  \A s \in Submissions :
    at[s] \in {"checked", "rated"} \cup Open =>
      \A t \in rows : Checksum[t] # Checksum[s]

\* A new best past MarkPrevious.
Locking(s) == status[s] = "best" /\ at[s] \in {"marked", "inserted", "written"}

\* A new best that is inserted is the only one that has marked the former.
Exclusive ==
  \A s, t \in Submissions :
    Locking(s) /\ Locking(t) /\ at[s] \in {"inserted", "written"} => s = t

\* A new best has marked all that are best now.
Demoted == \A s \in Submissions : Locking(s) => best \subseteq demoted[s]

\* Of an open transaction the replay is staged; a committed one has its row.
Waiting ==
  \A s \in Submissions :
    /\ at[s] \in Open /\ HasReplay(s) => Checksum[s] \in staged
    /\ at[s] = "committed" => s \in rows

SubmissionInv ==
  /\ TypeOK
  /\ Section /\ Fresh /\ Exclusive /\ Demoted /\ Waiting
  /\ NoDuplicateScore /\ OneBest /\ ReplaySurvives



\* The lock was free: nobody else was in the section of the checksum.
LEMMA AcquireKeeps ==
  ASSUME SubmissionInv, NEW s \in Submissions, Acquire(s)
  PROVE  SubmissionInv'
<1> USE ScoreSubmissionAssumption DEF SubmissionInv
<1>1. TypeOK'
  BY DEF Acquire, Goes, tables, disk, TypeOK, Open, Ended, Checksums
<1>2. Section'
  BY DEF Acquire, Goes, TypeOK, Section, InSection, Open, Checksums
<1>3. Fresh'
  BY DEF Acquire, Goes, tables, TypeOK, Fresh, Open
<1>4. Exclusive' /\ Demoted'
  BY DEF Acquire, Goes, tables, TypeOK, Exclusive, Demoted, Locking
<1>5. Waiting'
  BY DEF Acquire, Goes, tables, disk, TypeOK, Waiting, Open
<1>6. NoDuplicateScore' /\ OneBest' /\ ReplaySurvives'
  BY DEF Acquire, tables, disk, NoDuplicateScore, OneBest, ReplaySurvives
<1>7. QED
  BY <1>1, <1>2, <1>3, <1>4, <1>5, <1>6

\* Rating reads the best score and changes no row.
LEMMA RateKeeps ==
  ASSUME SubmissionInv, NEW s \in Submissions, Rate(s)
  PROVE  SubmissionInv'
<1> USE ScoreSubmissionAssumption DEF SubmissionInv
<1>1. TypeOK'
  BY DEF Rate, Goes, tables, disk, TypeOK, Open, Ended
<1>2. Section'
  BY DEF Rate, Goes, TypeOK, Section, InSection, Open
<1>3. Fresh'
  BY DEF Rate, Goes, tables, TypeOK, Fresh, Open
<1>4. Exclusive' /\ Demoted'
  BY DEF Rate, Goes, tables, TypeOK, Exclusive, Demoted, Locking
<1>5. Waiting'
  BY DEF Rate, Goes, tables, disk, TypeOK, Waiting, Open
<1>6. NoDuplicateScore' /\ OneBest' /\ ReplaySurvives'
  BY DEF Rate, tables, disk, NoDuplicateScore, OneBest, ReplaySurvives
<1>7. QED
  BY <1>1, <1>2, <1>3, <1>4, <1>5, <1>6

\* The replay waits from before the transaction on.
LEMMA StageKeeps ==
  ASSUME SubmissionInv, NEW s \in Submissions, Stage(s)
  PROVE  SubmissionInv'
<1> USE ScoreSubmissionAssumption DEF SubmissionInv
<1>1. TypeOK'
  BY DEF Stage, Goes, tables, disk, TypeOK, Open, Ended, Checksums, Stats
<1>2. Section'
  BY DEF Stage, Goes, TypeOK, Section, InSection, Open
<1>3. Fresh'
  BY DEF Stage, Goes, tables, TypeOK, Fresh, Open
<1>4. Exclusive' /\ Demoted'
  BY DEF Stage, Goes, tables, TypeOK, Exclusive, Demoted, Locking
<1>5. Waiting'
  BY DEF Stage, Goes, tables, disk, TypeOK, Waiting, Open
<1>6. NoDuplicateScore' /\ OneBest' /\ ReplaySurvives'
  BY DEF Stage, tables, disk, NoDuplicateScore, OneBest, ReplaySurvives
<1>7. QED
  BY <1>1, <1>2, <1>3, <1>4, <1>5, <1>6

\* A new best marks all the best rows while no other new best has inserted.
LEMMA MarkPreviousKeeps ==
  ASSUME SubmissionInv, NEW s \in Submissions, MarkPrevious(s)
  PROVE  SubmissionInv'
<1> USE ScoreSubmissionAssumption DEF SubmissionInv
<1>1. TypeOK'
  BY DEF MarkPrevious, Goes, tables, disk, TypeOK, Open, Ended
<1>2. Section'
  BY DEF MarkPrevious, Goes, TypeOK, Section, InSection, Open
<1>3. Fresh'
  BY DEF MarkPrevious, Goes, tables, TypeOK, Fresh, Open
<1>4. Exclusive' /\ Demoted'
  BY DEF MarkPrevious, Goes, tables, TypeOK, Exclusive, Demoted, Locking, OthersBest, OthersAt
<1>5. Waiting'
  BY DEF MarkPrevious, Goes, tables, disk, TypeOK, Waiting, Open
<1>6. NoDuplicateScore' /\ OneBest' /\ ReplaySurvives'
  BY DEF MarkPrevious, tables, disk, NoDuplicateScore, OneBest, ReplaySurvives
<1>7. QED
  BY <1>1, <1>2, <1>3, <1>4, <1>5, <1>6

\* The update waits for the other writers of the statistics; it changes no score.
LEMMA WriteStatsKeeps ==
  ASSUME SubmissionInv, NEW s \in Submissions, WriteStats(s)
  PROVE  SubmissionInv'
<1> USE ScoreSubmissionAssumption DEF SubmissionInv
<1>1. TypeOK'
  BY DEF WriteStats, Goes, tables, disk, TypeOK, Open, Ended
<1>2. Section'
  BY DEF WriteStats, Goes, TypeOK, Section, InSection, Open
<1>3. Fresh'
  BY DEF WriteStats, Goes, tables, TypeOK, Fresh, Open
<1>4. Exclusive' /\ Demoted'
  BY DEF WriteStats, Goes, tables, TypeOK, Exclusive, Demoted, Locking
<1>5. Waiting'
  BY DEF WriteStats, Goes, tables, disk, TypeOK, Waiting, Open
<1>6. NoDuplicateScore' /\ OneBest' /\ ReplaySurvives'
  BY DEF WriteStats, tables, disk, NoDuplicateScore, OneBest, ReplaySurvives
<1>7. QED
  BY <1>1, <1>2, <1>3, <1>4, <1>5, <1>6

\* A duplicate leaves the section, any other request stays in it.
LEMMA CheckDuplicateKeeps ==
  ASSUME SubmissionInv, NEW s \in Submissions, CheckDuplicate(s)
  PROVE  SubmissionInv'
<1> USE ScoreSubmissionAssumption DEF SubmissionInv
<1>1. lock[Checksum[s]] = s /\ Checksum[s] \in Checksums
  BY DEF CheckDuplicate, Section, InSection, Checksums
<1>2. \/ /\ at' = [at EXCEPT ![s] = "duplicate"]
         /\ lock' = [lock EXCEPT ![Checksum[s]] = None]
      \/ /\ at' = [at EXCEPT ![s] = "checked"] /\ lock' = lock
         /\ \A t \in rows : Checksum[t] # Checksum[s]
  BY DEF CheckDuplicate, Goes, Release
<1>3. TypeOK'
  BY <1>1, <1>2 DEF CheckDuplicate, tables, disk, TypeOK, Open, Ended
<1>4. Section'
  BY <1>1, <1>2 DEF CheckDuplicate, TypeOK, Section, InSection, Open, Checksums
<1>5. Fresh'
  BY <1>2 DEF CheckDuplicate, tables, TypeOK, Fresh, Open
<1>6. Exclusive' /\ Demoted'
  BY <1>2 DEF CheckDuplicate, tables, TypeOK, Exclusive, Demoted, Locking
<1>7. Waiting'
  BY <1>2 DEF CheckDuplicate, tables, disk, TypeOK, Waiting, Open
<1>8. NoDuplicateScore' /\ OneBest' /\ ReplaySurvives'
  BY DEF CheckDuplicate, tables, disk, NoDuplicateScore, OneBest, ReplaySurvives
<1>9. QED
  BY <1>3, <1>4, <1>5, <1>6, <1>7, <1>8

\* A new best inserts when no other new best has marked the former ones.
LEMMA InsertKeeps ==
  ASSUME SubmissionInv, NEW s \in Submissions, Insert(s)
  PROVE  SubmissionInv'
<1> USE ScoreSubmissionAssumption DEF SubmissionInv
<1>1. Applied(s) \in Stats
  BY DEF Applied, Stats, TypeOK
<1>2. /\ at[s] \in {"marked", "begun"} /\ at' = [at EXCEPT ![s] = "inserted"]
      /\ status[s] = "best" => at[s] = "marked" /\ OthersBest(s, {"marked"}) = {}
      /\ memory' = Applied(s) /\ update' = [update EXCEPT ![s] = Applied(s)]
      /\ UNCHANGED <<lock, status, prev, snap, demoted, tables, disk, faults>>
  BY DEF Insert, Goes
<1>3. TypeOK'
  BY <1>1, <1>2 DEF tables, disk, TypeOK, Open
<1>4. Section' /\ Fresh'
  BY <1>2 DEF tables, TypeOK, Section, Fresh, InSection, Open
<1>5. Exclusive' /\ Demoted'
  BY <1>2 DEF tables, TypeOK, Exclusive, Demoted, Locking, OthersBest, OthersAt
<1>6. Waiting'
  BY <1>2 DEF tables, disk, TypeOK, Waiting, Open
<1>7. NoDuplicateScore' /\ OneBest' /\ ReplaySurvives'
  BY <1>2 DEF tables, disk, NoDuplicateScore, OneBest, ReplaySurvives
<1>8. QED
  BY <1>3, <1>4, <1>5, <1>6, <1>7

\* The commit of a new best leaves no other best row, and no other request
\* with its checksum is past the check.
LEMMA CommitTransactionKeeps ==
  ASSUME SubmissionInv, NEW s \in Submissions, CommitTransaction(s)
  PROVE  SubmissionInv'
<1> USE ScoreSubmissionAssumption DEF SubmissionInv
<1>1. /\ at[s] = "written" /\ at' = [at EXCEPT ![s] = "committed"]
      /\ rows' = rows \cup {s}
      /\ UNCHANGED <<lock, status, prev, snap, update, demoted, memory, disk, faults>>
  BY DEF CommitTransaction, Goes
<1>2. best' = IF status[s] = "best" THEN {s} ELSE best
  BY <1>1 DEF CommitTransaction, Demoted, Locking
<1>3. \A t \in Submissions : at[t] \in InSection /\ Checksum[t] = Checksum[s] => t = s
  BY <1>1 DEF Section, InSection, Open
<1>4. TypeOK'
  BY <1>1, <1>2 DEF CommitTransaction, disk, TypeOK, Stats
<1>5. Section'
  BY <1>1 DEF TypeOK, Section, InSection, Open
<1>6. Fresh'
  BY <1>1, <1>3 DEF TypeOK, Fresh, InSection, Open
<1>7. Exclusive' /\ Demoted'
  BY <1>1, <1>2 DEF TypeOK, Exclusive, Demoted, Locking
<1>8. Waiting'
  BY <1>1 DEF disk, TypeOK, Waiting, Open
<1>9. NoDuplicateScore'
  BY <1>1 DEF Fresh, Open, NoDuplicateScore
<1>10. OneBest'
  BY <1>2 DEF OneBest
<1>11. ReplaySurvives'
  BY <1>1 DEF disk, Waiting, Open, ReplaySurvives
<1>12. QED
  BY <1>4, <1>5, <1>6, <1>7, <1>8, <1>9, <1>10, <1>11

\* The renamed file was staged by this request: nobody else in the section
\* and no other row has its checksum.
LEMMA StoreReplayKeeps ==
  ASSUME SubmissionInv, NEW s \in Submissions, StoreReplay(s)
  PROVE  SubmissionInv'
<1> USE ScoreSubmissionAssumption DEF SubmissionInv
<1>1. /\ at[s] = "committed" /\ at' = [at EXCEPT ![s] = "done"]
      /\ lock' = [lock EXCEPT ![Checksum[s]] = None]
      /\ UNCHANGED <<status, prev, snap, update, demoted, memory, tables, faults>>
  BY DEF StoreReplay, Goes, Release
<1>2. IF HasReplay(s) THEN staged' = staged \ {Checksum[s]} /\ file' = file \cup {s}
                      ELSE staged' = staged /\ file' = file
  BY DEF StoreReplay, disk
<1>3. s \in rows /\ lock[Checksum[s]] = s /\ Checksum[s] \in Checksums
  BY <1>1 DEF Waiting, Section, InSection, Checksums
<1>4. \A t \in Submissions : at[t] \in InSection /\ Checksum[t] = Checksum[s] => t = s
  BY <1>1 DEF Section, InSection
<1>5. TypeOK'
  BY <1>1, <1>2, <1>3 DEF tables, TypeOK, Ended
<1>6. Section'
  BY <1>1, <1>3 DEF TypeOK, Section, InSection, Open, Checksums
<1>7. Fresh' /\ Exclusive' /\ Demoted'
  BY <1>1 DEF tables, TypeOK, Fresh, Exclusive, Demoted, Locking, Open
<1>8. Waiting'
  BY <1>1, <1>2, <1>4 DEF tables, TypeOK, Waiting, InSection, Open
<1>9. NoDuplicateScore' /\ OneBest'
  BY <1>1 DEF tables, NoDuplicateScore, OneBest
<1>10. ReplaySurvives'
  BY <1>1, <1>2, <1>3 DEF tables, NoDuplicateScore, ReplaySurvives
<1>11. QED
  BY <1>5, <1>6, <1>7, <1>8, <1>9, <1>10

\* Going back takes away the file this request staged: no row has its checksum.
LEMMA RollBackKeeps ==
  ASSUME SubmissionInv, NEW s \in Submissions, at[s] \in Open, RollBack(s),
         faults' \in 0..MaxFaults,
         UNCHANGED <<status, prev, snap, update, demoted, tables, file>>
  PROVE  SubmissionInv'
<1> USE ScoreSubmissionAssumption DEF SubmissionInv
<1>1. /\ at' = [at EXCEPT ![s] = "rolled_back"]
      /\ lock' = [lock EXCEPT ![Checksum[s]] = None]
      /\ staged' = staged \ {Checksum[s]} /\ memory' = snap[s]
  BY DEF RollBack, Goes, Release
<1>2. lock[Checksum[s]] = s /\ Checksum[s] \in Checksums
  BY DEF Section, InSection, Checksums
<1>3. \A t \in Submissions : at[t] \in InSection /\ Checksum[t] = Checksum[s] => t = s
  BY DEF Section, InSection
<1>4. TypeOK'
  BY <1>1, <1>2 DEF tables, TypeOK, Ended
<1>5. Section'
  BY <1>1, <1>2 DEF TypeOK, Section, InSection, Open, Checksums
<1>6. Fresh' /\ Exclusive' /\ Demoted'
  BY <1>1 DEF tables, TypeOK, Fresh, Exclusive, Demoted, Locking, Open
<1>7. Waiting'
  BY <1>1, <1>3 DEF tables, TypeOK, Waiting, InSection, Open
<1>8. NoDuplicateScore' /\ OneBest'
  BY DEF tables, NoDuplicateScore, OneBest
<1>9. ReplaySurvives'
  BY <1>1 DEF tables, TypeOK, Fresh, ReplaySurvives
<1>10. QED
  BY <1>4, <1>5, <1>6, <1>7, <1>8, <1>9

\* A crash ends every request in a section; the tables and the files survive.
LEMMA CrashKeeps ==
  ASSUME SubmissionInv, Crash
  PROVE  SubmissionInv'
<1> USE ScoreSubmissionAssumption DEF SubmissionInv
<1>1. /\ \A t \in Submissions : at'[t] = IF lock[Checksum[t]] = t THEN "lost" ELSE at[t]
      /\ \A c \in Checksums : lock'[c] = None
  BY DEF Crash
<1>2. \A t \in Submissions : Checksum[t] \in Checksums
  BY DEF Checksums
<1>3. TypeOK'
  BY DEF Crash, tables, disk, TypeOK, Ended
<1>4. \A t \in Submissions : at'[t] \notin InSection
  BY <1>1 DEF Section, InSection, Open
<1>5. Section' /\ Fresh' /\ Exclusive' /\ Demoted' /\ Waiting'
  BY <1>1, <1>2, <1>4 DEF Section, Fresh, Exclusive, Demoted, Waiting, Locking, InSection, Open
<1>6. NoDuplicateScore' /\ OneBest' /\ ReplaySurvives'
  BY DEF Crash, tables, disk, NoDuplicateScore, OneBest, ReplaySurvives
<1>7. QED
  BY <1>3, <1>5, <1>6

-----------------------------------------------------------------------------
\* Every behaviour of the submissions keeps the inductive invariant.
THEOREM SubmissionInvariance == Spec => []SubmissionInv
<1>1. Init => SubmissionInv
  <2> SUFFICES ASSUME Init PROVE SubmissionInv
    OBVIOUS
  <2>1. TypeOK
    BY ScoreSubmissionAssumption DEF Init, TypeOK, Stats, Zero
  <2>2. \A s \in Submissions : at[s] = "new" /\ Checksum[s] \in Checksums
    BY DEF Init, Checksums
  <2>3. Section
    BY <2>2, ScoreSubmissionAssumption DEF Init, Section, InSection, Open
  <2>4. Fresh /\ Exclusive /\ Demoted /\ Waiting
    BY <2>2 DEF Fresh, Exclusive, Demoted, Waiting, Locking, Open
  <2>5. NoDuplicateScore /\ OneBest /\ ReplaySurvives
    BY DEF Init, NoDuplicateScore, OneBest, ReplaySurvives
  <2>6. QED
    BY <2>1, <2>3, <2>4, <2>5 DEF SubmissionInv
<1>2. SubmissionInv /\ [Next]_vars => SubmissionInv'
  <2> SUFFICES ASSUME SubmissionInv, [Next]_vars PROVE SubmissionInv'
    OBVIOUS
  <2>1. CASE Crash
    BY <2>1, CrashKeeps
  <2>2. ASSUME NEW s \in Submissions, Step(s) PROVE SubmissionInv'
    <3>1. CASE Deadlock(s)
      <4>1. faults' \in 0..MaxFaults /\ at[s] \in Open
        BY <3>1 DEF Deadlock, Open, SubmissionInv, TypeOK
      <4>2. QED
        BY <3>1, <4>1, RollBackKeeps DEF Deadlock
    <3>2. QED
      BY <2>2, <3>1, AcquireKeeps, CheckDuplicateKeeps, RateKeeps, StageKeeps,
         MarkPreviousKeeps, InsertKeeps, WriteStatsKeeps, CommitTransactionKeeps,
         StoreReplayKeeps DEF Step
  <2>3. ASSUME NEW s \in Submissions, Fails(s) PROVE SubmissionInv'
    <3>1. faults' \in 0..MaxFaults
      BY <2>3, ScoreSubmissionAssumption DEF Fails, SubmissionInv, TypeOK
    <3>2. QED
      BY <2>3, <3>1, RollBackKeeps DEF Fails
  <2>4. CASE UNCHANGED vars
    BY <2>4 DEF vars, requests, tables, disk, SubmissionInv, TypeOK, Section, Fresh,
       Exclusive, Demoted, Waiting, Locking, NoDuplicateScore, OneBest, ReplaySurvives
  <2>5. QED
    BY <2>1, <2>2, <2>3, <2>4 DEF Next
<1>3. QED
  BY <1>1, <1>2, PTL DEF Spec

\* However often a play is sent and whatever crashes, it is recorded once
\* (score_submission_is_duplicate under the checksum's lock), and the player
\* has at most one best score (mark_previous_best_scores_submitted).
THEOREM ScoresSafe == Spec => []ScoresInv
<1>1. SubmissionInv => ScoresInv
  BY DEF SubmissionInv, ScoresInv
<1>2. QED
  BY <1>1, SubmissionInvariance, PTL

\* No committed score has lost its replay: the file under the staged name is
\* taken away by the request that staged it alone (commit_replay_file,
\* discard_staged_replay).
THEOREM ReplaysSafe == Spec => []ReplaySurvives
<1>1. SubmissionInv => ReplaySurvives
  BY DEF SubmissionInv
<1>2. QED
  BY <1>1, SubmissionInvariance, PTL

-----------------------------------------------------------------------------
(* LEADERBOARD: the invariant.                                             *)

\* What rows, objects and requests look like.
UserRow == [priv : SUBSET Ranks!Privileges, country : Countries, pp : Nat]
PlayerObj == [priv : SUBSET Ranks!Privileges, country : Countries \cup {"global"}, pp : Nat,
              token : BOOLEAN, stats : BOOLEAN]
Requests == [op : {"idle", "login", "submit", "restrict", "unrestrict", "profile"},
             u : Ranks!Users \cup {0}, o : Ranks!ObjIds \cup {0},
             pc : {"", "stats", "verify", "row", "rank", "global", "country", "remove", "add"},
             val : SUBSET Ranks!Privileges, c : Countries \cup {"global"},
             old : Countries \cup {"global"}, pp : Nat]
Proper(k) ==
  /\ k \in Requests /\ (k.op = "idle" => k = Ranks!NoTask)
  /\ \/ k.op = "idle" /\ k.u = 0 /\ k.o = 0
     \/ k.u # 0 /\ k.o # 0 /\ \/ k.op = "login" /\ k.pc \in {"stats", "verify"}
                              \/ k.op = "submit" /\ k.pc \in {"row", "rank"}
                              \/ k.op = "submit" /\ k.pc = "country" /\ k.c # "global"
                              \/ k.op = "restrict" /\ k.pc \in {"row", "global", "country"}
                              \/ k.op = "unrestrict" /\ k.pc \in {"row", "stats", "global", "country"}
     \/ k.u # 0 /\ k.o = 0 /\ k.op = "profile" /\ k.pc \in {"row", "remove", "add"}
        /\ k.c # "global" /\ k.old # "global"

\* An object is of one user, and is kept as long as somebody refers to it.
Owned(owner) ==
  /\ owner \in [Ranks!ObjIds -> Nat]
  /\ \A u \in Ranks!Users : r_online[u] # 0 => owner[r_online[u]] = u
  /\ \A t \in Tasks : r_tasks[t].o # 0 => owner[r_tasks[t].o] = r_tasks[t].u
Referred(o) == \/ \E u \in Ranks!Users : r_online[u] = o
               \/ \E t \in Tasks : r_tasks[t].o = o
Collected == \A o \in Ranks!ObjIds : IF Referred(o) THEN r_objs[o].country \in Countries
                                     ELSE r_objs[o] = Ranks!NoObj

ServerRight ==
  /\ r_rows \in [Ranks!Users -> UserRow]
  /\ r_objs \in [Ranks!ObjIds -> PlayerObj]
  /\ r_online \in [Ranks!Users -> Ranks!ObjIds \cup {0}]
  /\ r_tasks \in [Tasks -> Requests]
  /\ r_board \in [Ranks!Boards -> [Ranks!Users -> Int]]
  /\ \A t \in Tasks : Proper(r_tasks[t])
  /\ \E owner : Owned(owner)
  /\ Collected

\* What the one request for a user has in hand.
Free(priv) == "unrestricted" \in priv
Listed(u, k) == r_online[u] = 0 \/ r_online[u] = k.o
InHand(u, k) ==
  \/ /\ k.op = "login" /\ r_online[u] = 0
     /\ \/ k.pc = "stats" /\ r_objs[k.o].priv = r_rows[u].priv
        \/ k.pc = "verify" /\ Free(r_rows[u].priv) /\ r_objs[k.o].priv = k.val /\ Free(k.val)
  \/ k.op = "submit" /\ Listed(u, k) /\ r_objs[k.o].priv = r_rows[u].priv
  \/ /\ k.op \in {"restrict", "unrestrict"} /\ Listed(u, k)
     /\ Free(r_objs[k.o].priv) <=> k.op = "unrestrict"
     /\ IF k.pc = "row" THEN r_objs[k.o].priv = k.val ELSE r_objs[k.o].priv = r_rows[u].priv
  \/ k.op = "profile" /\ (r_online[u] # 0 => r_objs[r_online[u]].priv = r_rows[u].priv)

\* A user of whom no two operations overlapped.
Hides(u) ==
  \/ r_killed \/ Free(r_rows[u].priv) \/ r_board["global"][u] = -1
  \/ \E t \in Tasks : r_tasks[t].u = u /\ r_tasks[t].op = "restrict" /\ r_tasks[t].pc = "global"
Alone(u) ==
  /\ \A s, t \in Tasks : r_tasks[s].u = u /\ r_tasks[t].u = u => s = t
  /\ r_rebuild.pc # "idle" => ~Ranks!Busy(u)
  /\ \A t \in Tasks : r_tasks[t].u = u => InHand(u, r_tasks[t])
  /\ ~Ranks!Busy(u) /\ r_online[u] # 0 => r_objs[r_online[u]].priv = r_rows[u].priv
  /\ Hides(u)

\* A rebuild under way.
Rebuilding ==
  /\ r_rebuild \in [pc : {"idle", "fetch", "stage", "commit"}, touched : SUBSET Ranks!Boards,
                    after : Nat, batch : [Ranks!Users -> Int],
                    where : [Ranks!Users -> Countries \cup {"global"}], boot : BOOLEAN]
  /\ r_staged \in [Ranks!Boards -> [Ranks!Users -> Int]]
  /\ r_rebuild.pc # "idle" => "global" \in r_rebuild.touched
  /\ r_rebuild.pc = "stage" => Ranks!Batch # {}
\* It adds nobody who was never ranked while it ran, and has added or is about to
\* add everybody who was ranked all the time.
Adds(u) ==
  /\ ~r_killed /\ r_staged["global"][u] # -1 =>
        /\ r_rebuild.pc # "idle" /\ u \in r_seen
        /\ u \notin r_mixed => Ranks!IsRanked(r_rows[u])
  /\ r_rebuild.batch[u] # -1 =>
        /\ r_rebuild.pc = "stage" /\ u \in r_seen
        /\ u \notin r_mixed => Ranks!IsRanked(r_rows[u])
  /\ r_rebuild.pc # "idle" /\ Ranks!IsRanked(r_rows[u]) => u \in r_seen
  /\ u \in r_steady =>
        /\ r_rebuild.pc # "idle" /\ Ranks!IsRanked(r_rows[u])
        /\ r_rebuild.pc = "commit" \/ u <= r_rebuild.after => r_staged["global"][u] # -1
        /\ r_rebuild.pc = "stage" /\ u > r_rebuild.after /\ r_rebuild.batch[u] = -1 =>
             /\ ~(Ranks!Cardinality(Ranks!Batch) < BatchSize)
             /\ \A v \in Ranks!Batch : v < u
RanksInv ==
  /\ ServerRight /\ Rebuilding
  /\ \A u \in Ranks!Users \ r_mixed : Alone(u)
  /\ \A u \in Ranks!Users : Adds(u)
  /\ r_steady \subseteq Ranks!Users

-----------------------------------------------------------------------------
\* The object o of the user u is what a step is about; new is what objects are
\* before those are dropped that nobody refers to.
Acts(u, o, new) ==
  /\ u \in Ranks!Users /\ o \in Ranks!ObjIds \cup {0}
  /\ \/ o = 0 \/ ~Referred(o) \/ o = r_online[u]
     \/ \E s \in Tasks : r_tasks[s].u = u /\ r_tasks[s].o = o
  /\ new \in [Ranks!ObjIds -> PlayerObj]
  /\ \A x \in Ranks!ObjIds : x # o => new[x] = r_objs[x]
  /\ o # 0 => new[o].country \in Countries
  /\ r_objs' = [x \in Ranks!ObjIds |-> r_objs'[x]]
  /\ \A x \in Ranks!ObjIds : IF Referred(x)' THEN r_objs'[x] = new[x]
                             ELSE r_objs'[x] = Ranks!NoObj
  /\ r_tasks' = [s \in Tasks |-> r_tasks'[s]]
  /\ \A s \in Tasks :
       \/ r_tasks'[s] = r_tasks[s]
       \/ /\ Proper(r_tasks'[s])
          /\ r_tasks[s].u \in {0, u} /\ r_tasks'[s].u \in {0, u} /\ r_tasks'[s].o \in {0, o}
  /\ r_online' = [v \in Ranks!Users |-> r_online'[v]]
  /\ r_online'[u] \in {0, r_online[u], o}
  /\ r_rows' \in [Ranks!Users -> UserRow]
  /\ r_board' \in [Ranks!Boards -> [Ranks!Users -> Int]]
  /\ \A v \in Ranks!Users \ {u} : /\ r_online'[v] = r_online[v] /\ r_rows'[v] = r_rows[v]
                                  /\ r_board'["global"][v] = r_board["global"][v]
  /\ UNCHANGED <<r_rebuild, r_killed>> /\ r_mixed \subseteq r_mixed'

UserIds == \A u \in Ranks!Users : u \in Nat /\ u # 0
ObjectIds == \A o \in Ranks!ObjIds : o \in Nat /\ o # 0
LEMMA IdsAreNumbers == UserIds /\ ObjectIds /\ "global" \in Ranks!Boards
BY DEF Ranks!Users, Ranks!ObjIds, UserIds, ObjectIds, Ranks!Boards, Ranks!Global

\* Objects stay with their users.
LEMMA ServerStays ==
  ASSUME ServerRight, NEW u, NEW o, NEW new, Acts(u, o, new)
  PROVE  ServerRight'
<1>1. PICK owner : Owned(owner)
  BY DEF ServerRight
<1>2. PICK next : next = IF o = 0 THEN owner ELSE [owner EXCEPT ![o] = u]
  OBVIOUS
<1>3. /\ u \in Ranks!Users /\ o \in Ranks!ObjIds \cup {0} /\ u \in Nat
      /\ owner \in [Ranks!ObjIds -> Nat]
  BY <1>1, IdsAreNumbers DEF Acts, Owned, UserIds
<1>4. /\ next \in [Ranks!ObjIds -> Nat] /\ (o # 0 => next[o] = u)
      /\ \A x \in Ranks!ObjIds : x # o => next[x] = owner[x]
  BY <1>2, <1>3, IdsAreNumbers DEF ObjectIds
<1>5. ASSUME NEW v \in Ranks!Users, r_online'[v] # 0 PROVE next[r_online'[v]] = v
  <2>1. CASE v = u /\ r_online'[u] = o
    BY <1>4, <1>5, <2>1
  <2>2. CASE r_online'[v] = r_online[v]
    <3>1. r_online[v] \in Ranks!ObjIds /\ owner[r_online[v]] = v
      BY <1>1, <1>5, <2>2 DEF Owned, ServerRight
    <3>2. CASE r_online[v] # o
      BY <1>4, <2>2, <3>1, <3>2
    <3>3. CASE r_online[v] = o
      <4>1. Referred(o)
        BY <3>3 DEF Referred
      <4>2. owner[o] = u
        BY <1>1, <1>5, <2>2, <3>3, <4>1 DEF Acts, Owned
      <4>3. QED
        BY <1>4, <1>5, <2>2, <3>1, <3>3, <4>2
    <3>4. QED
      BY <3>2, <3>3
  <2>3. QED
    BY <1>5, <2>1, <2>2 DEF Acts
<1>6. ASSUME NEW s \in Tasks, r_tasks'[s].o # 0 PROVE next[r_tasks'[s].o] = r_tasks'[s].u
  <2>1. CASE r_tasks'[s] = r_tasks[s]
    <3>1. r_tasks[s].o \in Ranks!ObjIds /\ owner[r_tasks[s].o] = r_tasks[s].u
      BY <1>1, <1>6, <2>1 DEF Owned, ServerRight, Proper, Requests
    <3>2. CASE r_tasks[s].o # o
      BY <1>4, <2>1, <3>1, <3>2
    <3>3. CASE r_tasks[s].o = o
      <4>1. Referred(o)
        BY <3>3 DEF Referred
      <4>2. owner[o] = u
        BY <1>1, <1>6, <2>1, <3>3, <4>1 DEF Acts, Owned
      <4>3. QED
        BY <1>4, <1>6, <2>1, <3>1, <3>3, <4>2
    <3>4. QED
      BY <3>2, <3>3
  <2>2. CASE Proper(r_tasks'[s]) /\ r_tasks'[s].u \in {0, u} /\ r_tasks'[s].o \in {0, o}
    <3>1. r_tasks'[s].o = o /\ r_tasks'[s].u = u
      BY <1>6, <2>2 DEF Proper
    <3>2. QED
      BY <1>4, <1>6, <3>1
  <2>3. QED
    BY <2>1, <2>2 DEF Acts
<1>7. Owned(next)'
  BY <1>4, <1>5, <1>6 DEF Owned
<1>8. \A s \in Tasks : Proper(r_tasks'[s])
  BY DEF Acts, ServerRight
<1>9. r_tasks' \in [Tasks -> Requests]
  BY <1>8 DEF Acts, Proper
<1>10. r_online' \in [Ranks!Users -> Ranks!ObjIds \cup {0}]
  <2>1. \A v \in Ranks!Users : r_online'[v] \in Ranks!ObjIds \cup {0}
    BY DEF Acts, ServerRight
  <2>2. QED
    BY <2>1 DEF Acts
<1>11. ASSUME NEW x \in Ranks!ObjIds, Referred(x)' PROVE new[x].country \in Countries
  <2>1. CASE x = o
    BY <2>1, IdsAreNumbers DEF Acts, ObjectIds
  <2>2. CASE x # o
    <3>1. Referred(x)
      <4>1. CASE \E v \in Ranks!Users : r_online'[v] = x
        BY <2>2, <4>1, IdsAreNumbers DEF Acts, Referred, ObjectIds
      <4>2. CASE \E s \in Tasks : r_tasks'[s].o = x
        BY <2>2, <4>2, IdsAreNumbers DEF Acts, Referred, ObjectIds
      <4>3. QED
        BY <1>11, <4>1, <4>2 DEF Referred
    <3>2. QED
      BY <2>2, <3>1 DEF Acts, ServerRight, Collected
  <2>3. QED
    BY <2>1, <2>2
<1>12. Collected'
  BY <1>11 DEF Acts, Collected
<1>13. r_objs' \in [Ranks!ObjIds -> PlayerObj]
  <2>1. Ranks!NoObj \in PlayerObj
    BY DEF Ranks!NoObj, PlayerObj, Ranks!Global
  <2>2. \A x \in Ranks!ObjIds : r_objs'[x] \in PlayerObj
    BY <2>1 DEF Acts
  <2>3. QED
    BY <2>2 DEF Acts
<1>14. QED
  BY <1>7, <1>8, <1>9, <1>10, <1>12, <1>13 DEF Acts, ServerRight

\* An object of somebody else is as it was.
LEMMA OthersObjects ==
  ASSUME ServerRight, NEW u, NEW o, NEW new, Acts(u, o, new), NEW v \in Ranks!Users, v # u
  PROVE  /\ r_online[v] # 0 => r_objs'[r_online[v]] = r_objs[r_online[v]]
         /\ \A s \in Tasks : r_tasks[s].u = v =>
              /\ r_tasks'[s] = r_tasks[s]
              /\ r_tasks[s].o # 0 => r_objs'[r_tasks[s].o] = r_objs[r_tasks[s].o]
         /\ \A s \in Tasks : r_tasks'[s].u = v => r_tasks'[s] = r_tasks[s]
<1>1. PICK owner : Owned(owner)
  BY DEF ServerRight
<1>2. u \in Ranks!Users /\ v # 0 /\ r_online'[v] = r_online[v]
  BY IdsAreNumbers DEF Acts, UserIds
<1>3. Referred(o) /\ o # 0 => owner[o] = u
  BY <1>1 DEF Acts, Owned
<1>4. ASSUME NEW x \in Ranks!ObjIds, x # o, Referred(x)' PROVE r_objs'[x] = r_objs[x]
  BY <1>4 DEF Acts
<1>5. ASSUME r_online[v] # 0 PROVE r_objs'[r_online[v]] = r_objs[r_online[v]]
  <2>1. r_online[v] \in Ranks!ObjIds /\ owner[r_online[v]] = v
    BY <1>1, <1>5 DEF Owned, ServerRight
  <2>2. Referred(r_online[v]) /\ r_online[v] # o
    BY <1>2, <1>3, <1>5, <2>1 DEF Referred
  <2>3. PICK x : x = r_online[v]
    OBVIOUS
  <2>4. Referred(x)'
    BY <1>2, <2>3 DEF Referred
  <2>5. QED
    BY <1>4, <2>1, <2>2, <2>3, <2>4
<1>6. ASSUME NEW s \in Tasks, r_tasks[s].u = v
      PROVE  /\ r_tasks'[s] = r_tasks[s]
             /\ r_tasks[s].o # 0 => r_objs'[r_tasks[s].o] = r_objs[r_tasks[s].o]
  <2>1. r_tasks'[s] = r_tasks[s]
    BY <1>2, <1>6 DEF Acts
  <2>2. PICK x : x = r_tasks[s].o
    OBVIOUS
  <2>3. Referred(x)' /\ Referred(x)
    BY <2>1, <2>2 DEF Referred
  <2>4. ASSUME x # 0 PROVE r_objs'[x] = r_objs[x]
    <3>1. x \in Ranks!ObjIds /\ owner[x] = v
      BY <1>1, <1>6, <2>2, <2>4 DEF Owned, ServerRight, Requests
    <3>2. x # o
      BY <1>2, <1>3, <2>3, <2>4, <3>1
    <3>3. QED
      BY <1>4, <2>3, <3>1, <3>2
  <2>5. QED
    BY <2>1, <2>2, <2>4
<1>7. \A s \in Tasks : r_tasks'[s].u = v => r_tasks'[s] = r_tasks[s]
  BY <1>2 DEF Acts
<1>8. QED
  BY <1>5, <1>6, <1>7

\* Nothing changes for somebody else.
LEMMA OthersStay ==
  ASSUME ServerRight, NEW u, NEW o, NEW new, Acts(u, o, new), NEW v \in Ranks!Users, v # u,
         Alone(v)
  PROVE  Alone(v)'
<1>1. PICK obj : obj = r_online[v]
  OBVIOUS
<1>2. /\ r_online'[v] = r_online[v] /\ r_rows'[v] = r_rows[v]
      /\ r_board'["global"][v] = r_board["global"][v]
      /\ r_rebuild' = r_rebuild /\ r_killed' = r_killed
  BY DEF Acts
<1>3. /\ obj # 0 => r_objs'[obj] = r_objs[obj]
      /\ \A s \in Tasks : r_tasks[s].u = v =>
           /\ r_tasks'[s] = r_tasks[s]
           /\ r_tasks[s].o # 0 => r_objs'[r_tasks[s].o] = r_objs[r_tasks[s].o]
      /\ \A s \in Tasks : r_tasks'[s].u = v => r_tasks'[s] = r_tasks[s]
  BY <1>1, OthersObjects
<1>4. Ranks!Busy(v) <=> Ranks!Busy(v)'
  BY <1>3 DEF Ranks!Busy
<1>5. \A s, t \in Tasks : r_tasks'[s].u = v /\ r_tasks'[t].u = v => s = t
  BY <1>3 DEF Alone
<1>6. ASSUME NEW s \in Tasks, r_tasks'[s].u = v PROVE InHand(v, r_tasks[s])'
  <2>1. PICK k : k = r_tasks[s]
    OBVIOUS
  <2>2. InHand(v, k) /\ Proper(k) /\ (k.o # 0 => r_objs'[k.o] = r_objs[k.o])
        /\ r_tasks'[s] = k
    BY <1>3, <1>6, <2>1 DEF Alone, ServerRight
  <2>3. InHand(v, k)'
    BY <1>1, <1>2, <1>3, <2>2 DEF InHand, Listed, Proper
  <2>4. QED
    BY <2>2, <2>3
<1>7. Hides(v)'
  BY <1>2, <1>3 DEF Alone, Hides
<1>8. ~Ranks!Busy(v) /\ r_online[v] # 0 => r_objs'[r_online[v]].priv = r_rows[v].priv
  BY <1>1, <1>3 DEF Alone
<1>9. r_rebuild.pc # "idle" => ~Ranks!Busy(v)
  BY DEF Alone
<1>10. QED
  BY <1>2, <1>4, <1>5, <1>6, <1>7, <1>8, <1>9 DEF Alone

\* For the user the step is about, what the one request has in hand is to be seen.
Turn(u, t) ==
  /\ \A s \in Tasks : s # t => r_tasks'[s] = r_tasks[s]
  /\ \/ r_tasks[t].u = u /\ Alone(u)
     \/ ~Ranks!Busy(u) /\ r_rebuild.pc = "idle"
Turned(u, t) ==
  /\ r_tasks'[t].u = u => InHand(u, r_tasks[t])'
  /\ r_tasks'[t].u # u => r_online'[u] = 0 \/ r_objs'[r_online'[u]].priv = r_rows'[u].priv
  /\ Hides(u)'
LEMMA UserStays ==
  ASSUME NEW u \in Ranks!Users, NEW t \in Tasks, Turn(u, t), Turned(u, t),
         r_rebuild' = r_rebuild
  PROVE  Alone(u)'
<1>1. \A s \in Tasks : s # t => r_tasks[s].u # u /\ r_tasks'[s].u # u
  BY DEF Turn, Alone, Ranks!Busy
<1>2. r_rebuild.pc = "idle"
  BY DEF Turn, Alone, Ranks!Busy
<1>3. Ranks!Busy(u)' <=> r_tasks'[t].u = u
  BY <1>1 DEF Ranks!Busy
<1>4. \A s \in Tasks : r_tasks'[s].u = u => s = t
  BY <1>1
<1>5. \A s \in Tasks : r_tasks'[s].u = u => InHand(u, r_tasks[s])'
  BY <1>4 DEF Turned
<1>6. QED
  BY <1>2, <1>3, <1>4, <1>5 DEF Alone, Turned

-----------------------------------------------------------------------------
\* The rebuild goes on unimpaired when nothing is written to the tables, ...
Restful == UNCHANGED <<r_rebuild, r_staged, r_killed, r_steady, r_seen>> /\ r_mixed \subseteq r_mixed'
AddsAll == Rebuilding /\ r_steady \subseteq Ranks!Users /\ \A v \in Ranks!Users : Adds(v)
LEMMA RebuildGoesOn ==
  ASSUME AddsAll, Restful, r_rows' = r_rows
  PROVE  AddsAll'
<1>1. Rebuilding' /\ r_steady' \subseteq Ranks!Users
  BY DEF AddsAll, Restful, Rebuilding, Ranks!Batch
<1>2. ASSUME NEW v \in Ranks!Users PROVE Adds(v)'
  <2>1. Ranks!Batch' = Ranks!Batch
    BY DEF Ranks!Batch, Restful
  <2>2. Adds(v)
    BY DEF AddsAll
  <2>3. QED
    BY <2>1, <2>2 DEF Adds, Restful
<1>3. QED
  BY <1>1, <1>2 DEF AddsAll

\* and when a request under way for somebody writes its rows: if a rebuild
\* is under way as well, two operations overlap.
LEMMA RebuildObserves ==
  ASSUME AddsAll, NEW u \in Ranks!Users, r_rebuild.pc # "idle" => u \in r_mixed,
         \A v \in Ranks!Users \ {u} : r_rows'[v] = r_rows[v],
         Ranks!Observe, UNCHANGED <<r_rebuild, r_staged, r_killed, r_mixed>>
  PROVE  AddsAll'
<1>1. Rebuilding'
  BY DEF AddsAll, Rebuilding, Ranks!Batch
<1>2. CASE r_rebuild.pc = "idle"
  <2>1. r_steady' = r_steady /\ r_seen' = r_seen
    BY <1>2 DEF Ranks!Observe
  <2>2. ASSUME NEW v \in Ranks!Users PROVE Adds(v)'
    BY <1>2, <2>1 DEF AddsAll, Adds
  <2>3. QED
    BY <1>1, <2>1, <2>2 DEF AddsAll
<1>3. CASE r_rebuild.pc # "idle"
  <2>1. PICK now : now = {v \in Ranks!Users : Ranks!IsRanked(r_rows'[v])}
    OBVIOUS
  <2>2. r_steady' = r_steady \cap now /\ r_seen' = r_seen \cup now
    BY <1>3, <2>1 DEF Ranks!Observe
  <2>3. ASSUME NEW v \in Ranks!Users PROVE Adds(v)'
    <3>1. Ranks!Batch' = Ranks!Batch
      BY DEF Ranks!Batch
    <3>2. Adds(v)
      BY DEF AddsAll
    <3>3. v \notin r_mixed => r_rows'[v] = r_rows[v]
      BY <1>3
    <3>4. Ranks!IsRanked(r_rows'[v]) => v \in r_seen'
      BY <2>1, <2>2
    <3>5. v \in r_steady' => v \in r_steady /\ Ranks!IsRanked(r_rows'[v])
      BY <2>1, <2>2
    <3>6. v \in r_seen => v \in r_seen'
      BY <2>2
    <3>7. QED
      BY <3>1, <3>2, <3>3, <3>4, <3>5, <3>6 DEF Adds
  <2>4. QED
    BY <1>1, <2>2, <2>3 DEF AddsAll
<1>4. QED
  BY <1>2, <1>3

\* A step of a request.
LEMMA RequestActs ==
  ASSUME RanksInv, NEW u, NEW o, NEW new, Acts(u, o, new), AddsAll',
         u \notin r_mixed' => Alone(u)'
  PROVE  RanksInv'
<1>1. ServerRight'
  BY ServerStays DEF RanksInv
<1>2. ASSUME NEW v \in Ranks!Users, v \notin r_mixed' PROVE Alone(v)'
  <2>1. v \notin r_mixed /\ Alone(v) /\ ServerRight
    BY <1>2 DEF Acts, RanksInv
  <2>2. QED
    BY <1>2, <2>1, OthersStay
<1>3. QED
  BY <1>1, <1>2 DEF RanksInv, AddsAll
LEMMA AddsAllHolds == RanksInv => AddsAll
BY DEF RanksInv, AddsAll

-----------------------------------------------------------------------------
\* There is an object for every user online and every request, and one more.
LEMMA ImageBound ==
  ASSUME NEW S, IsFiniteSet(S), NEW of, NEW A, \A x \in A : \E s \in S : of[s] = x
  PROVE  IsFiniteSet(A) /\ Cardinality(A) <= Cardinality(S)
<1> DEFINE g == [x \in A |-> CHOOSE s \in S : of[s] = x]
<1>1. \A x \in A : g[x] \in S /\ of[g[x]] = x
  OBVIOUS
<1>2. g \in [A -> S]
  BY <1>1
<1>3. g \in Injection(A, S)
  BY <1>1, <1>2 DEF Injection, IsInjective
<1>4. QED
  BY <1>3, FS_Injection

LEMMA FreshIsThere ==
  ASSUME ServerRight, NEW u \in Ranks!Users, r_online[u] = 0,
         NEW t \in Tasks, r_tasks[t].o = 0
  PROVE  Ranks!FreshObj \in Ranks!ObjIds /\ ~Referred(Ranks!FreshObj)
<1> DEFINE A == {o \in Ranks!ObjIds : \E v \in Ranks!Users \ {u} : r_online[v] = o}
           B == {o \in Ranks!ObjIds : \E s \in Tasks \ {t} : r_tasks[s].o = o}
<1>1. /\ IsFiniteSet(Ranks!Users) /\ Cardinality(Ranks!Users) = NRanked /\ NRanked \in Nat
      /\ IsFiniteSet(Tasks) /\ Cardinality(Tasks) \in Nat
  <2>1. NRanked \in Nat /\ IsFiniteSet(Tasks) /\ Cardinality(Tasks) \in Nat
    BY RanksAssumption, FS_CardinalityType
  <2>2. Ranks!Users = 1 .. NRanked
    BY DEF Ranks!Users
  <2>3. IsFiniteSet(1 .. NRanked) /\ Cardinality(1 .. NRanked) = NRanked
    BY <2>1, FS_Interval
  <2>4. QED
    BY <2>1, <2>2, <2>3
<1>2. /\ IsFiniteSet(Ranks!ObjIds)
      /\ Cardinality(Ranks!ObjIds) = NRanked + Cardinality(Tasks)
  <2>1. Ranks!ObjIds = 1 .. (NRanked + Cardinality(Tasks))
    BY DEF Ranks!ObjIds, Ranks!Cardinality, Cardinality
  <2>2. NRanked + Cardinality(Tasks) \in Nat
    BY <1>1
  <2>3. QED
    BY <2>1, <2>2, FS_Interval
<1>3. IsFiniteSet(A) /\ Cardinality(A) <= Cardinality(Ranks!Users \ {u})
  <2>1. PICK of : of = r_online
    OBVIOUS
  <2>2. \A x \in A : \E v \in Ranks!Users \ {u} : of[v] = x
    BY <2>1
  <2>3. IsFiniteSet(Ranks!Users \ {u})
    BY <1>1, FS_RemoveElement
  <2>4. QED
    BY <2>2, <2>3, ImageBound
<1>4. IsFiniteSet(B) /\ Cardinality(B) <= Cardinality(Tasks \ {t})
  <2>1. PICK of : of = [s \in Tasks |-> r_tasks[s].o]
    OBVIOUS
  <2>2. \A x \in B : \E s \in Tasks \ {t} : of[s] = x
    BY <2>1
  <2>3. IsFiniteSet(Tasks \ {t})
    BY <1>1, FS_RemoveElement
  <2>4. QED
    BY <2>2, <2>3, ImageBound
<1>5. /\ Cardinality(Ranks!Users \ {u}) = NRanked - 1
      /\ Cardinality(Tasks \ {t}) = Cardinality(Tasks) - 1
  BY <1>1, FS_RemoveElement
<1>6. PICK o \in Ranks!ObjIds : o \notin A \cup B
  <2>1. SUFFICES ASSUME Ranks!ObjIds \subseteq A \cup B PROVE FALSE
    OBVIOUS
  <2>2. IsFiniteSet(A \cup B)
        /\ Cardinality(A \cup B) = Cardinality(A) + Cardinality(B) - Cardinality(A \cap B)
    BY <1>3, <1>4, FS_Union
  <2>3. /\ Cardinality(A) \in Nat /\ Cardinality(B) \in Nat /\ Cardinality(A \cap B) \in Nat
    BY <1>3, <1>4, FS_CardinalityType, FS_Intersection
  <2>4. Cardinality(Ranks!ObjIds) <= Cardinality(A \cup B)
    BY <2>1, <2>2, FS_Subset
  <2>5. QED
    BY <1>1, <1>2, <1>3, <1>4, <1>5, <2>2, <2>3, <2>4
<1>7. ~Referred(o)
  BY <1>6, IdsAreNumbers DEF Referred, ObjectIds
<1>8. r_objs[o] = Ranks!NoObj
  BY <1>7 DEF ServerRight, Collected
<1>9. Ranks!FreshObj \in Ranks!ObjIds /\ r_objs[Ranks!FreshObj] = Ranks!NoObj
  BY <1>8 DEF Ranks!FreshObj
<1>10. Ranks!NoObj.country \notin Countries
  BY RanksAssumption DEF Ranks!NoObj, Ranks!Global
<1>11. QED
  BY <1>9, <1>10 DEF ServerRight, Collected

-----------------------------------------------------------------------------
\* What is left of the objects a step made.
Kept(new) ==
  /\ r_objs' = [x \in Ranks!ObjIds |-> r_objs'[x]]
  /\ \A x \in Ranks!ObjIds : IF Referred(x)' THEN r_objs'[x] = new[x]
                             ELSE r_objs'[x] = Ranks!NoObj
LEMMA CollectKeeps == ASSUME NEW new, Ranks!Collect(new) PROVE Kept(new)
BY DEF Ranks!Collect, Kept, Referred
\* A request, t, of u goes on as k.
Proceeds(t, u, o, k) ==
  /\ r_tasks' = [r_tasks EXCEPT ![t] = k] /\ Proper(k)
  /\ r_tasks[t].u \in {0, u} /\ k.u \in {0, u} /\ k.o \in {0, o}
Moves(u, o, new) ==
  /\ u \in Ranks!Users /\ o \in Ranks!ObjIds \cup {0}
  /\ new \in [Ranks!ObjIds -> PlayerObj] /\ Kept(new)
  /\ \A x \in Ranks!ObjIds : x # o => new[x] = r_objs[x]
  /\ o # 0 => new[o].country \in Countries
  /\ r_online' = [v \in Ranks!Users |-> r_online'[v]]
  /\ r_online'[u] \in {0, r_online[u], o}
  /\ \A v \in Ranks!Users \ {u} : r_online'[v] = r_online[v]
Writes(u) ==
  /\ r_rows' = r_rows \/ \E row \in UserRow : r_rows' = [r_rows EXCEPT ![u] = row]
  /\ r_board' = r_board \/ \E c \in Ranks!Boards, pp \in Int :
                               r_board' = [r_board EXCEPT ![c][u] = pp]
  /\ UNCHANGED <<r_rebuild, r_killed>> /\ r_mixed \subseteq r_mixed'
LEMMA MovesActs ==
  ASSUME ServerRight, NEW t \in Tasks, NEW u, NEW o, NEW k, NEW new,
         Proceeds(t, u, o, k), Moves(u, o, new), Writes(u),
         o = 0 \/ ~Referred(o) \/ o = r_online[u] \/ (r_tasks[t].u = u /\ r_tasks[t].o = o)
  PROVE  /\ Acts(u, o, new) /\ r_tasks'[t] = k
         /\ \A s \in Tasks : s # t => r_tasks'[s] = r_tasks[s]
<1>1. /\ r_tasks' = [s \in Tasks |-> r_tasks'[s]] /\ r_tasks'[t] = k
      /\ \A s \in Tasks : s # t => r_tasks'[s] = r_tasks[s]
  BY DEF Proceeds, ServerRight
<1>2. \A s \in Tasks :
       \/ r_tasks'[s] = r_tasks[s]
       \/ /\ Proper(r_tasks'[s])
          /\ r_tasks[s].u \in {0, u} /\ r_tasks'[s].u \in {0, u} /\ r_tasks'[s].o \in {0, o}
  BY <1>1 DEF Proceeds
<1>3. /\ r_rows' \in [Ranks!Users -> UserRow]
      /\ \A v \in Ranks!Users \ {u} : r_rows'[v] = r_rows[v]
  BY DEF Writes, ServerRight
<1>4. /\ r_board' \in [Ranks!Boards -> [Ranks!Users -> Int]]
      /\ \A v \in Ranks!Users \ {u} : r_board'["global"][v] = r_board["global"][v]
  <2>1. CASE r_board' = r_board
    BY <2>1 DEF ServerRight
  <2>2. ASSUME NEW c \in Ranks!Boards, NEW pp \in Int, r_board' = [r_board EXCEPT ![c][u] = pp]
        PROVE  /\ r_board' \in [Ranks!Boards -> [Ranks!Users -> Int]]
               /\ \A v \in Ranks!Users \ {u} : r_board'["global"][v] = r_board["global"][v]
    <3>1. PICK set : set = [r_board[c] EXCEPT ![u] = pp]
      OBVIOUS
    <3>2. r_board[c] \in [Ranks!Users -> Int]
      BY DEF ServerRight
    <3>3. set \in [Ranks!Users -> Int] /\ \A v \in Ranks!Users \ {u} : set[v] = r_board[c][v]
      BY <3>1, <3>2
    <3>4. r_board' = [r_board EXCEPT ![c] = set]
      BY <2>2, <3>1
    <3>5. QED
      BY <3>3, <3>4, IdsAreNumbers DEF ServerRight
  <2>3. QED
    BY <2>1, <2>2 DEF Writes
<1>5. \/ o = 0 \/ ~Referred(o) \/ o = r_online[u]
      \/ \E s \in Tasks : r_tasks[s].u = u /\ r_tasks[s].o = o
  OBVIOUS
<1>6. QED
  BY <1>1, <1>2, <1>3, <1>4, <1>5 DEF Acts, Moves, Writes, Kept

\* The request under way as t.
LEMMA UnderWay ==
  ASSUME RanksInv, NEW t \in Tasks, NEW k, k = r_tasks[t], k.u # 0
  PROVE  /\ k \in Requests /\ Proper(k) /\ k.u \in Ranks!Users /\ ServerRight
         /\ k.o \in Ranks!ObjIds \cup {0} /\ r_rows[k.u] \in UserRow
         /\ k.o # 0 => r_objs[k.o] \in PlayerObj /\ r_objs[k.o].country \in Countries
         /\ k.u \notin r_mixed => Alone(k.u) /\ InHand(k.u, k) /\ r_rebuild.pc = "idle"
<1>1. ServerRight
  BY DEF RanksInv
<1>2. k \in Requests /\ Proper(k)
  BY <1>1 DEF ServerRight
<1>3. k.u \in Ranks!Users /\ k.o \in Ranks!ObjIds \cup {0}
  BY <1>2 DEF Requests
<1>4. r_rows[k.u] \in UserRow
  BY <1>1, <1>3 DEF ServerRight
<1>5. ASSUME k.o # 0 PROVE r_objs[k.o] \in PlayerObj /\ r_objs[k.o].country \in Countries
  <2>1. Referred(k.o) /\ k.o \in Ranks!ObjIds
    BY <1>3, <1>5 DEF Referred
  <2>2. QED
    BY <1>1, <2>1 DEF ServerRight, Collected
<1>6. ASSUME k.u \notin r_mixed PROVE Alone(k.u) /\ InHand(k.u, k) /\ r_rebuild.pc = "idle"
  BY <1>3, <1>6 DEF RanksInv, Alone, Ranks!Busy
<1>7. QED
  BY <1>1, <1>2, <1>3, <1>4, <1>5, <1>6

\* The end of a step: what the request, now k, has in hand is to be seen.
Leaves(u, k) ==
  /\ k.u = u => InHand(u, k)'
  /\ k.u # u => r_online'[u] = 0 \/ r_objs'[r_online'[u]].priv = r_rows'[u].priv
  /\ Hides(u)'
Owns(t, u, o) == o = 0 \/ ~Referred(o) \/ o = r_online[u] \/ (r_tasks[t].u = u /\ r_tasks[t].o = o)
Settles(t, u, k) ==
  \/ u \in r_mixed'
  \/ /\ \/ r_tasks[t].u = u /\ Alone(u)
        \/ ~Ranks!Busy(u) /\ r_rebuild.pc = "idle"
     /\ Leaves(u, k)
LEMMA StepKeeps ==
  ASSUME RanksInv, NEW t \in Tasks, NEW u, NEW o, NEW k, NEW new,
         Proceeds(t, u, o, k), Moves(u, o, new), Writes(u), AddsAll',
         Owns(t, u, o), Settles(t, u, k)
  PROVE  RanksInv'
<1>1. ServerRight
  BY DEF RanksInv
<1>2. /\ Acts(u, o, new) /\ r_tasks'[t] = k
      /\ \A s \in Tasks : s # t => r_tasks'[s] = r_tasks[s]
  BY <1>1, MovesActs DEF Owns
<1>3. ASSUME u \notin r_mixed' PROVE Alone(u)'
  <2>1. Turn(u, t)
    BY <1>2, <1>3 DEF Turn, Settles
  <2>2. k.u = u => InHand(u, r_tasks[t])'
    BY <1>2, <1>3 DEF Leaves, InHand, Listed, Settles
  <2>3. Turned(u, t)
    BY <1>2, <1>3, <2>2 DEF Turned, Leaves, Settles
  <2>4. u \in Ranks!Users /\ r_rebuild' = r_rebuild
    BY DEF Moves, Writes
  <2>5. QED
    BY <2>1, <2>3, <2>4, UserStays
<1>4. QED
  BY <1>2, <1>3, RequestActs

-----------------------------------------------------------------------------
(* The steps of requests.                                                  *)

\* Nobody but the request under way hides its user.
LEMMA HidesStill ==
  ASSUME NEW t \in Tasks, NEW k, k = r_tasks[t], Alone(k.u), r_rows'[k.u].priv = r_rows[k.u].priv,
         r_board'["global"][k.u] = r_board["global"][k.u], r_killed' = r_killed,
         k.op # "restrict" \/ k.pc # "global"
  PROVE  Hides(k.u)'
BY DEF Alone, Hides

LEMMA NoTaskIsProper == Proper(Ranks!NoTask) /\ Ranks!NoTask.u = 0 /\ Ranks!NoTask.o = 0
BY DEF Ranks!NoTask, Proper, Requests, Ranks!Nothing, Ranks!Global, Ranks!Privileges

LEMMA LoginStatsKeeps ==
  ASSUME RanksInv, NEW t \in Tasks, Ranks!LoginStats(t) PROVE RanksInv'
<1>1. PICK k : k = r_tasks[t]
  OBVIOUS
<1>2. /\ k.op = "login" /\ k.pc = "stats"
      /\ UNCHANGED <<r_rows, r_board, r_staged, r_rebuild, r_steady, r_seen, r_mixed, r_killed>>
  BY <1>1 DEF Ranks!LoginStats, Ranks!ghosts
<1>3. RanksInv /\ k.u # 0 /\ k.o # 0
  BY <1>1, <1>2 DEF RanksInv, ServerRight, Proper
<1>4. /\ k \in Requests /\ Proper(k) /\ k.u \in Ranks!Users /\ ServerRight
      /\ k.o \in Ranks!ObjIds /\ r_rows[k.u] \in UserRow
      /\ r_objs[k.o] \in PlayerObj /\ r_objs[k.o].country \in Countries
      /\ k.u \notin r_mixed => Alone(k.u) /\ InHand(k.u, k) /\ r_rebuild.pc = "idle"
  BY <1>1, <1>3, UnderWay
<1>5. PICK u, o, bits : u = k.u /\ o = k.o /\ bits = r_objs[o].priv
  OBVIOUS
<1>6. PICK first : first = (Free(bits) /\ "verified" \notin bits)
  OBVIOUS
<1>7. PICK obj : obj = [r_objs[o] EXCEPT !.pp = r_rows[u].pp, !.stats = TRUE,
                                         !.priv = IF first THEN bits \cup {"verified"} ELSE bits]
  OBVIOUS
<1>8. /\ obj \in PlayerObj /\ obj.country \in Countries
      /\ obj.priv = IF first THEN bits \cup {"verified"} ELSE bits
  BY <1>4, <1>5, <1>7 DEF PlayerObj, UserRow, Ranks!Privileges, Ranks!Verified, Ranks!Unrestricted
<1>9. PICK new : new = [r_objs EXCEPT ![o] = obj]
  OBVIOUS
<1>10. /\ new \in [Ranks!ObjIds -> PlayerObj] /\ new[o] = obj
       /\ \A x \in Ranks!ObjIds : x # o => new[x] = r_objs[x]
  BY <1>4, <1>5, <1>8, <1>9 DEF ServerRight
<1>11. PICK next : next = IF first THEN [k EXCEPT !.pc = "verify", !.val = bits \cup {"verified"}]
                          ELSE Ranks!NoTask
  OBVIOUS
<1>12. /\ next.u \in {0, u} /\ next.o \in {0, o} /\ Proper(next)
       /\ first => next.u = u /\ next.o = o /\ next.op = "login" /\ next.pc = "verify"
                   /\ next.val = bits \cup {"verified"}
       /\ ~first => next.u = 0
  <2>1. CASE ~first
    BY <1>11, <2>1, NoTaskIsProper
  <2>2. CASE first
    <3>1. next = [k EXCEPT !.pc = "verify", !.val = bits \cup {"verified"}]
      BY <1>11, <2>2
    <3>2. bits \cup {"verified"} \in SUBSET Ranks!Privileges
      BY <1>4, <1>5 DEF PlayerObj, Ranks!Privileges, Ranks!Verified, Ranks!Unrestricted
    <3>3. /\ next \in Requests /\ next.u = u /\ next.o = o /\ next.op = "login"
          /\ next.pc = "verify" /\ next.val = bits \cup {"verified"}
      BY <1>2, <1>4, <1>5, <3>1, <3>2 DEF Requests
    <3>4. QED
      BY <1>3, <1>5, <2>2, <3>3 DEF Proper
  <2>3. QED
    BY <1>6, <2>1, <2>2
<1>13. /\ r_tasks' = [r_tasks EXCEPT ![t] = next]
       /\ r_online' = IF first THEN r_online ELSE [r_online EXCEPT ![u] = o]
       /\ Ranks!Collect(new)
  <2>1. first = (Ranks!Unrestricted \in r_objs[k.o].priv /\ Ranks!Verified \notin r_objs[k.o].priv)
    BY <1>5, <1>6 DEF Free, Ranks!Unrestricted, Ranks!Verified
  <2>2. PICK read : read = Ranks!StatsFromSql(k.o, k.u)
    OBVIOUS
  <2>3. CASE first
    <3>1. /\ r_tasks' = [r_tasks EXCEPT ![t].pc = "verify", ![t].val = bits \cup {"verified"}]
          /\ r_online' = r_online
          /\ Ranks!Collect([read EXCEPT ![k.o].priv = bits \cup {"verified"}])
      BY <1>1, <1>5, <2>1, <2>2, <2>3 DEF Ranks!LoginStats, Ranks!Verified
    <3>2. [read EXCEPT ![k.o].priv = bits \cup {"verified"}] = new
      BY <1>4, <1>5, <1>7, <1>9, <2>2, <2>3 DEF Ranks!StatsFromSql, ServerRight, PlayerObj
    <3>3. r_tasks' = [r_tasks EXCEPT ![t] = next]
      BY <1>1, <1>11, <2>3, <3>1
    <3>4. QED
      BY <2>3, <3>1, <3>2, <3>3
  <2>4. CASE ~first
    <3>1. /\ Ranks!Finish(t) /\ r_online' = [r_online EXCEPT ![k.u] = k.o]
          /\ Ranks!Collect(read)
      BY <1>1, <2>1, <2>2, <2>4 DEF Ranks!LoginStats
    <3>2. read = new
      BY <1>4, <1>5, <1>7, <1>9, <2>2, <2>4 DEF Ranks!StatsFromSql, ServerRight, PlayerObj
    <3>3. QED
      BY <1>5, <1>11, <2>4, <3>1, <3>2 DEF Ranks!Finish
  <2>5. QED
    BY <1>6, <2>3, <2>4
<1>14. Kept(new)
  BY <1>13, CollectKeeps
<1>15. Proceeds(t, u, o, next)
  BY <1>1, <1>5, <1>12, <1>13 DEF Proceeds
<1>16. Moves(u, o, new)
  BY <1>4, <1>5, <1>8, <1>10, <1>13, <1>14 DEF Moves, ServerRight
<1>17. Writes(u)
  BY <1>2 DEF Writes
<1>18. AddsAll'
  BY <1>2, RebuildGoesOn, AddsAllHolds DEF Restful
<1>19. ASSUME u \notin r_mixed PROVE Alone(u) /\ Leaves(u, next)
  <2>1. Alone(u) /\ InHand(u, k)
    BY <1>4, <1>5, <1>19
  <2>2. r_online[u] = 0 /\ bits = r_rows[u].priv
    BY <1>2, <1>5, <2>1 DEF InHand
  <2>3. Hides(u)'
    BY <1>1, <1>2, <1>5, <2>1, HidesStill
  <2>4. Referred(o)' => r_objs'[o].priv = obj.priv
    BY <1>4, <1>5, <1>10, <1>14 DEF Kept
  <2>5. Referred(o)'
    BY <1>4, <1>5, <1>12, <1>13 DEF Referred, ServerRight
  <2>6. /\ r_rows' = r_rows /\ u \in Ranks!Users /\ u # 0
        /\ r_online \in [Ranks!Users -> Ranks!ObjIds \cup {0}]
    BY <1>2, <1>3, <1>4, <1>5 DEF ServerRight
  <2>7. CASE first
    BY <1>6, <1>8, <1>12, <1>13, <2>1, <2>2, <2>3, <2>4, <2>5, <2>6, <2>7 DEF Leaves, InHand, Free
  <2>8. CASE ~first
    BY <1>8, <1>12, <1>13, <2>1, <2>2, <2>3, <2>4, <2>5, <2>6, <2>8 DEF Leaves
  <2>9. QED
    BY <1>6, <2>1, <2>7, <2>8
<1>20. Owns(t, u, o) /\ Settles(t, u, next)
  BY <1>1, <1>2, <1>5, <1>19 DEF Owns, Settles
<1>21. QED
  BY <1>15, <1>16, <1>17, <1>18, <1>20, StepKeeps

\* A step that leaves the objects alone.
Quietly(t, k, next) ==
  /\ r_tasks' = [r_tasks EXCEPT ![t] = next] /\ Proper(next)
  /\ next.u \in {0, k.u} /\ next.o \in {0, k.o}
  /\ r_online' = r_online /\ Kept(r_objs)
LEMMA SameReferences ==
  ASSUME RanksInv, NEW t \in Tasks, NEW k, k = r_tasks[t], NEW next,
         r_tasks' = [r_tasks EXCEPT ![t] = next], next.o = k.o,
         r_online' = r_online, r_objs' = r_objs
  PROVE  Kept(r_objs)
<1>1. ServerRight
  BY DEF RanksInv
<1>2. \A s \in Tasks : r_tasks'[s].o = r_tasks[s].o
  BY <1>1 DEF ServerRight
<1>3. \A x \in Ranks!ObjIds : Referred(x)' <=> Referred(x)
  BY <1>2 DEF Referred
<1>4. QED
  BY <1>1, <1>3 DEF ServerRight, Collected, Kept

LEMMA QuietObjects ==
  ASSUME RanksInv, NEW t \in Tasks, NEW k, k = r_tasks[t], NEW next, Quietly(t, k, next), k.u # 0
  PROVE  /\ r_online'[k.u] = r_online[k.u]
         /\ r_online[k.u] # 0 => r_objs'[r_online[k.u]] = r_objs[r_online[k.u]]
         /\ next.o # 0 => r_objs'[next.o] = r_objs[next.o]
<1>1. ServerRight /\ k.u \in Ranks!Users /\ k.o \in Ranks!ObjIds \cup {0}
  BY UnderWay
<1>2. ASSUME NEW x \in Ranks!ObjIds, x = r_online[k.u] PROVE r_objs'[x] = r_objs[x]
  <2>1. Referred(x)'
    BY <1>1, <1>2 DEF Referred, Quietly
  <2>2. QED
    BY <2>1 DEF Quietly, Kept
<1>3. ASSUME next.o # 0 PROVE r_objs'[next.o] = r_objs[next.o]
  <2>1. next.o \in Ranks!ObjIds /\ r_tasks'[t].o = next.o
    BY <1>1, <1>3 DEF Quietly, ServerRight
  <2>2. Referred(next.o)'
    BY <2>1 DEF Referred
  <2>3. QED
    BY <2>1, <2>2 DEF Quietly, Kept
<1>4. QED
  BY <1>1, <1>2, <1>3 DEF Quietly, ServerRight

LEMMA QuietStep ==
  ASSUME RanksInv, NEW t \in Tasks, NEW k, k = r_tasks[t], k.u # 0, NEW next, Quietly(t, k, next),
         Writes(k.u), AddsAll', k.u \in r_mixed' \/ Leaves(k.u, next)
  PROVE  RanksInv'
<1>1. PICK new : new = r_objs
  OBVIOUS
<1>2. PICK u, o : u = k.u /\ o = k.o
  OBVIOUS
<1>3. /\ k \in Requests /\ k.u \in Ranks!Users /\ ServerRight
      /\ k.o \in Ranks!ObjIds \cup {0}
      /\ k.o # 0 => r_objs[k.o].country \in Countries
      /\ k.u \notin r_mixed => Alone(k.u)
  BY UnderWay
<1>4. Moves(u, o, new)
  BY <1>1, <1>2, <1>3 DEF Moves, Quietly, ServerRight
<1>5. Proceeds(t, u, o, next)
  BY <1>2 DEF Proceeds, Quietly
<1>6. Writes(u) /\ Owns(t, u, o)
  BY <1>2 DEF Owns
<1>7. u \notin r_mixed' => u \notin r_mixed
  BY <1>6 DEF Writes
<1>8. Settles(t, u, next)
  BY <1>2, <1>3, <1>7 DEF Settles
<1>9. QED
  BY <1>4, <1>5, <1>6, <1>8, StepKeeps

LEMMA UpdateRankKeeps ==
  ASSUME RanksInv, NEW t \in Tasks, Ranks!update_rank(t) PROVE RanksInv'
<1>1. PICK k : k = r_tasks[t]
  OBVIOUS
<1>2. /\ k.op = "submit" /\ k.pc = "rank" /\ r_online' = r_online
      /\ UNCHANGED <<r_rows, r_staged, r_rebuild, r_steady, r_seen, r_mixed, r_killed>>
      /\ Ranks!Collect(r_objs)
  BY <1>1 DEF Ranks!update_rank, Ranks!ghosts
<1>3. k.u # 0 /\ k.o # 0
  BY <1>1, <1>2 DEF RanksInv, ServerRight, Proper
<1>4. /\ k \in Requests /\ Proper(k) /\ k.u \in Ranks!Users /\ ServerRight
      /\ k.o \in Ranks!ObjIds /\ r_rows[k.u] \in UserRow
      /\ r_objs[k.o] \in PlayerObj /\ r_objs[k.o].country \in Countries
      /\ k.u \notin r_mixed => Alone(k.u) /\ InHand(k.u, k) /\ r_rebuild.pc = "idle"
  BY <1>1, <1>3, UnderWay
<1>5. PICK next : next = IF Free(r_objs[k.o].priv)
                         THEN [k EXCEPT !.pc = "country", !.c = r_objs[k.o].country]
                         ELSE Ranks!NoTask
  OBVIOUS
<1>6. /\ r_tasks' = [r_tasks EXCEPT ![t] = next]
      /\ r_board' = IF Free(r_objs[k.o].priv)
                    THEN [r_board EXCEPT !["global"][k.u] = r_objs[k.o].pp] ELSE r_board
  BY <1>1, <1>5 DEF Ranks!update_rank, Ranks!ZAdd, Ranks!Finish, Free, Ranks!Unrestricted, Ranks!Global
<1>7. Kept(r_objs)
  BY <1>2, CollectKeeps
<1>8. /\ Proper(next) /\ next.u \in {0, k.u} /\ next.o \in {0, k.o}
      /\ next.u = k.u => next.o = k.o /\ next.op = "submit"
  <2>1. CASE ~Free(r_objs[k.o].priv)
    BY <1>3, <1>5, <2>1, NoTaskIsProper
  <2>2. CASE Free(r_objs[k.o].priv)
    <3>1. /\ next = [k EXCEPT !.pc = "country", !.c = r_objs[k.o].country]
          /\ r_objs[k.o].country \in Countries
      BY <1>4, <1>5, <2>2
    <3>2. /\ next \in Requests /\ next.u = k.u /\ next.o = k.o /\ next.op = "submit"
          /\ next.pc = "country" /\ next.c \in Countries
      BY <1>2, <1>4, <3>1 DEF Requests
    <3>3. QED
      BY <1>3, <3>2, RanksAssumption DEF Proper
  <2>3. QED
    BY <2>1, <2>2
<1>9. Quietly(t, k, next)
  BY <1>2, <1>6, <1>7, <1>8 DEF Quietly
<1>10. Writes(k.u)
  BY <1>2, <1>4, <1>6, IdsAreNumbers DEF Writes, PlayerObj
<1>11. AddsAll'
  BY <1>2, RebuildGoesOn, AddsAllHolds DEF Restful
<1>12. ASSUME k.u \notin r_mixed PROVE Leaves(k.u, next)
  <2>1. Alone(k.u) /\ Listed(k.u, k) /\ r_objs[k.o].priv = r_rows[k.u].priv
    BY <1>2, <1>4, <1>12 DEF InHand
  <2>2. /\ r_online'[k.u] = r_online[k.u]
        /\ r_online[k.u] # 0 => r_objs'[r_online[k.u]] = r_objs[r_online[k.u]]
        /\ next.o # 0 => r_objs'[next.o] = r_objs[next.o]
    BY <1>1, <1>3, <1>9, QuietObjects
  <2>3. Hides(k.u)'
    <3>1. CASE ~Free(r_objs[k.o].priv)
      <4>1. r_board' = r_board
        BY <1>6, <3>1
      <4>2. QED
        BY <1>1, <1>2, <2>1, <4>1, HidesStill
    <3>2. CASE Free(r_objs[k.o].priv)
      BY <1>2, <2>1, <3>2 DEF Hides
    <3>3. QED
      BY <3>1, <3>2
  <2>4. QED
    BY <1>2, <1>3, <1>8, <2>1, <2>2, <2>3 DEF Leaves, InHand, Listed
<1>13. QED
  BY <1>1, <1>2, <1>3, <1>9, <1>10, <1>11, <1>12, QuietStep

\* A request that holds an object.
LEMMA AtHand ==
  ASSUME RanksInv, NEW t \in Tasks, NEW k, k = r_tasks[t],
         k.op \in {"login", "submit", "restrict", "unrestrict"}
  PROVE  /\ k.u # 0 /\ k.o # 0
         /\ k \in Requests /\ Proper(k) /\ k.u \in Ranks!Users /\ ServerRight
         /\ k.o \in Ranks!ObjIds /\ r_rows[k.u] \in UserRow
         /\ r_objs[k.o] \in PlayerObj /\ r_objs[k.o].country \in Countries
         /\ k.u \notin r_mixed => Alone(k.u) /\ InHand(k.u, k) /\ r_rebuild.pc = "idle"
<1>1. k.u # 0 /\ k.o # 0
  BY DEF RanksInv, ServerRight, Proper
<1>2. QED
  BY <1>1, UnderWay

\* It writes a row.
LEMMA RowWritten ==
  ASSUME RanksInv, NEW t \in Tasks, NEW k, k = r_tasks[t], k.u # 0, NEW row,
         Ranks!WriteRow([r_rows EXCEPT ![k.u] = row]), UNCHANGED <<r_rebuild, r_staged>>
  PROVE  /\ AddsAll' /\ r_rows' = [r_rows EXCEPT ![k.u] = row] /\ r_rows'[k.u] = row
         /\ UNCHANGED <<r_killed, r_mixed>>
<1>1. PICK u : u = k.u
  OBVIOUS
<1>2. /\ u \in Ranks!Users /\ (u \notin r_mixed => r_rebuild.pc = "idle")
      /\ r_rows \in [Ranks!Users -> UserRow]
  BY <1>1, UnderWay DEF ServerRight
<1>3. r_rows' = [r_rows EXCEPT ![u] = row] /\ Ranks!Observe /\ UNCHANGED <<r_killed, r_mixed>>
  BY <1>1 DEF Ranks!WriteRow
<1>4. \A v \in Ranks!Users \ {u} : r_rows'[v] = r_rows[v]
  BY <1>2, <1>3
<1>5. AddsAll'
  BY <1>2, <1>3, <1>4, RebuildObserves, AddsAllHolds
<1>6. QED
  BY <1>1, <1>2, <1>3, <1>5

LEMMA UpdateCountryRankKeeps ==
  ASSUME RanksInv, NEW t \in Tasks, Ranks!update_country_rank(t) PROVE RanksInv'
<1>1. PICK k : k = r_tasks[t]
  OBVIOUS
<1>2. /\ k.op = "submit" /\ k.pc = "country" /\ r_online' = r_online
      /\ UNCHANGED <<r_rows, r_staged, r_rebuild, r_steady, r_seen, r_mixed, r_killed>>
      /\ Ranks!Collect(r_objs)
      /\ r_tasks' = [r_tasks EXCEPT ![t] = Ranks!NoTask]
      /\ r_board' = [r_board EXCEPT ![k.c][k.u] = r_objs[k.o].pp]
  BY <1>1 DEF Ranks!update_country_rank, Ranks!ghosts, Ranks!ZAdd, Ranks!Finish
<1>3. /\ k.u # 0 /\ k.o # 0
      /\ k \in Requests /\ Proper(k) /\ k.u \in Ranks!Users /\ ServerRight
      /\ k.o \in Ranks!ObjIds /\ r_rows[k.u] \in UserRow
      /\ r_objs[k.o] \in PlayerObj /\ r_objs[k.o].country \in Countries
      /\ k.u \notin r_mixed => Alone(k.u) /\ InHand(k.u, k) /\ r_rebuild.pc = "idle"
  BY <1>1, <1>2, AtHand
<1>4. k.c \in Countries /\ k.c # "global" /\ k.c \in Ranks!Boards
  BY <1>2, <1>3 DEF Proper, Requests, Ranks!Boards
<1>5. Kept(r_objs)
  BY <1>2, CollectKeeps
<1>6. Quietly(t, k, Ranks!NoTask)
  BY <1>2, <1>5, NoTaskIsProper DEF Quietly
<1>7. Writes(k.u)
  <2>1. r_objs[k.o].pp \in Int
    BY <1>3 DEF PlayerObj
  <2>2. QED
    BY <1>2, <1>4, <2>1 DEF Writes
<1>8. AddsAll'
  BY <1>2, RebuildGoesOn, AddsAllHolds DEF Restful
<1>9. ASSUME k.u \notin r_mixed PROVE Leaves(k.u, Ranks!NoTask)
  <2>1. Alone(k.u) /\ Listed(k.u, k) /\ r_objs[k.o].priv = r_rows[k.u].priv
    BY <1>2, <1>3, <1>9 DEF InHand
  <2>2. /\ r_online'[k.u] = r_online[k.u]
        /\ r_online[k.u] # 0 => r_objs'[r_online[k.u]] = r_objs[r_online[k.u]]
    BY <1>1, <1>3, <1>6, QuietObjects
  <2>3. r_board'["global"][k.u] = r_board["global"][k.u]
    BY <1>2, <1>3, <1>4 DEF ServerRight
  <2>4. Hides(k.u)'
    BY <1>1, <1>2, <2>1, <2>3, HidesStill
  <2>5. QED
    BY <1>2, <1>3, <2>1, <2>2, <2>4, NoTaskIsProper DEF Leaves, Listed
<1>10. QED
  BY <1>1, <1>2, <1>3, <1>6, <1>7, <1>8, <1>9, QuietStep

LEMMA SubmitRowKeeps ==
  ASSUME RanksInv, NEW t \in Tasks, Ranks!SubmitRow(t) PROVE RanksInv'
<1>1. PICK k : k = r_tasks[t]
  OBVIOUS
<1>2. k.op = "submit" /\ k.pc = "row"
  BY <1>1 DEF Ranks!SubmitRow
<1>3. /\ k.u # 0 /\ k.o # 0
      /\ k \in Requests /\ Proper(k) /\ k.u \in Ranks!Users /\ ServerRight
      /\ k.o \in Ranks!ObjIds /\ r_rows[k.u] \in UserRow
      /\ r_objs[k.o] \in PlayerObj /\ r_objs[k.o].country \in Countries
      /\ k.u \notin r_mixed => Alone(k.u) /\ InHand(k.u, k) /\ r_rebuild.pc = "idle"
  BY <1>1, <1>2, AtHand
<1>4. PICK row, next : /\ row = [r_rows[k.u] EXCEPT !.pp = r_objs[k.o].pp]
                       /\ next = [k EXCEPT !.pc = "rank"]
  OBVIOUS
<1>5. row \in UserRow /\ row.priv = r_rows[k.u].priv
  BY <1>3, <1>4 DEF UserRow, PlayerObj
<1>6. /\ next \in Requests /\ next.u = k.u /\ next.o = k.o /\ next.op = "submit"
      /\ next.pc = "rank"
  BY <1>2, <1>3, <1>4 DEF Requests
<1>7. /\ Ranks!WriteRow([r_rows EXCEPT ![k.u] = row])
      /\ r_tasks' = [r_tasks EXCEPT ![t] = next]
      /\ UNCHANGED <<r_objs, r_online, r_board, r_rebuild, r_staged>>
  BY <1>1, <1>4 DEF Ranks!SubmitRow, Ranks!Advance
<1>8. /\ AddsAll' /\ r_rows' = [r_rows EXCEPT ![k.u] = row] /\ r_rows'[k.u] = row
      /\ UNCHANGED <<r_killed, r_mixed>>
  BY <1>1, <1>3, <1>7, RowWritten
<1>9. Kept(r_objs)
  BY <1>1, <1>6, <1>7, SameReferences
<1>10. Quietly(t, k, next)
  BY <1>3, <1>6, <1>7, <1>9 DEF Quietly, Proper
<1>11. Writes(k.u)
  BY <1>5, <1>7, <1>8 DEF Writes
<1>12. ASSUME k.u \notin r_mixed PROVE Leaves(k.u, next)
  <2>1. Alone(k.u) /\ Listed(k.u, k) /\ r_objs[k.o].priv = r_rows[k.u].priv
    BY <1>2, <1>3, <1>12 DEF InHand
  <2>2. Hides(k.u)'
    BY <1>1, <1>2, <1>5, <1>7, <1>8, <2>1, HidesStill
  <2>3. QED
    BY <1>5, <1>6, <1>7, <1>8, <2>1, <2>2 DEF Leaves, InHand, Listed
<1>13. QED
  BY <1>1, <1>3, <1>8, <1>10, <1>11, <1>12, QuietStep

LEMMA PrivRowKeeps ==
  ASSUME RanksInv, NEW t \in Tasks, Ranks!PrivRow(t) PROVE RanksInv'
<1>1. PICK k : k = r_tasks[t]
  OBVIOUS
<1>2. k.op \in {"restrict", "unrestrict"} /\ k.pc = "row"
  BY <1>1 DEF Ranks!PrivRow
<1>3. /\ k.u # 0 /\ k.o # 0
      /\ k \in Requests /\ Proper(k) /\ k.u \in Ranks!Users /\ ServerRight
      /\ k.o \in Ranks!ObjIds /\ r_rows[k.u] \in UserRow
      /\ r_objs[k.o] \in PlayerObj /\ r_objs[k.o].country \in Countries
      /\ k.u \notin r_mixed => Alone(k.u) /\ InHand(k.u, k) /\ r_rebuild.pc = "idle"
  BY <1>1, <1>2, AtHand
<1>4. PICK pc : pc = IF k.op = "restrict" THEN "global"
                     ELSE IF Ranks!is_online(k.o) THEN "global" ELSE "stats"
  OBVIOUS
<1>5. PICK row, next : row = [r_rows[k.u] EXCEPT !.priv = k.val] /\ next = [k EXCEPT !.pc = pc]
  OBVIOUS
<1>6. row \in UserRow /\ row.priv = k.val
  BY <1>3, <1>5 DEF UserRow, Requests
<1>7. /\ next \in Requests /\ next.u = k.u /\ next.o = k.o /\ next.op = k.op
      /\ next.pc \in {"global", "stats"} /\ (k.op = "restrict" => next.pc = "global")
  BY <1>2, <1>3, <1>4, <1>5 DEF Requests
<1>8. /\ Ranks!WriteRow([r_rows EXCEPT ![k.u] = row])
      /\ r_tasks' = [r_tasks EXCEPT ![t] = next]
      /\ UNCHANGED <<r_objs, r_online, r_board, r_rebuild, r_staged>>
  BY <1>1, <1>4, <1>5 DEF Ranks!PrivRow, Ranks!Advance
<1>9. /\ AddsAll' /\ r_rows' = [r_rows EXCEPT ![k.u] = row] /\ r_rows'[k.u] = row
      /\ UNCHANGED <<r_killed, r_mixed>>
  BY <1>1, <1>3, <1>8, RowWritten
<1>10. Kept(r_objs)
  BY <1>1, <1>7, <1>8, SameReferences
<1>11. Quietly(t, k, next)
  BY <1>2, <1>3, <1>7, <1>8, <1>10 DEF Quietly, Proper
<1>12. Writes(k.u)
  BY <1>6, <1>8, <1>9 DEF Writes
<1>13. ASSUME k.u \notin r_mixed PROVE Leaves(k.u, next)
  <2>1. /\ Alone(k.u) /\ Listed(k.u, k) /\ r_objs[k.o].priv = k.val
        /\ Free(r_objs[k.o].priv) <=> k.op = "unrestrict"
    BY <1>2, <1>3, <1>13 DEF InHand
  <2>2. r_tasks'[t] = next
    BY <1>3, <1>8 DEF ServerRight
  <2>3. Hides(k.u)'
    <3>1. CASE k.op = "restrict"
      BY <1>7, <2>2, <3>1 DEF Hides
    <3>2. CASE k.op = "unrestrict"
      BY <1>6, <1>9, <2>1, <3>2 DEF Hides
    <3>3. QED
      BY <1>2, <3>1, <3>2
  <2>4. QED
    BY <1>2, <1>6, <1>7, <1>8, <1>9, <2>1, <2>3 DEF Leaves, InHand, Listed
<1>14. QED
  BY <1>1, <1>3, <1>9, <1>11, <1>12, <1>13, QuietStep

LEMMA PrivGlobalKeeps ==
  ASSUME RanksInv, NEW t \in Tasks, Ranks!PrivGlobal(t) PROVE RanksInv'
<1>1. PICK k : k = r_tasks[t]
  OBVIOUS
<1>2. /\ k.op \in {"restrict", "unrestrict"} /\ k.pc = "global"
      /\ UNCHANGED <<r_rows, r_objs, r_online, r_staged, r_rebuild, r_steady, r_seen, r_mixed,
                     r_killed>>
  BY <1>1 DEF Ranks!PrivGlobal, Ranks!ghosts
<1>3. /\ k.u # 0 /\ k.o # 0
      /\ k \in Requests /\ Proper(k) /\ k.u \in Ranks!Users /\ ServerRight
      /\ k.o \in Ranks!ObjIds /\ r_rows[k.u] \in UserRow
      /\ r_objs[k.o] \in PlayerObj /\ r_objs[k.o].country \in Countries
      /\ k.u \notin r_mixed => Alone(k.u) /\ InHand(k.u, k) /\ r_rebuild.pc = "idle"
  BY <1>1, <1>2, AtHand
<1>4. PICK next : next = [k EXCEPT !.pc = "country"]
  OBVIOUS
<1>5. /\ next \in Requests /\ next.u = k.u /\ next.o = k.o /\ next.op = k.op
      /\ next.pc = "country"
  BY <1>3, <1>4 DEF Requests
<1>6. /\ r_tasks' = [r_tasks EXCEPT ![t] = next]
      /\ r_board' = IF k.op = "restrict" THEN [r_board EXCEPT !["global"][k.u] = -1]
                    ELSE IF r_objs[k.o].stats THEN [r_board EXCEPT !["global"][k.u] = r_objs[k.o].pp]
                    ELSE r_board
  BY <1>1, <1>4 DEF Ranks!PrivGlobal, Ranks!Advance, Ranks!ZRem, Ranks!ZAdd, Ranks!Global,
     Ranks!Absent
<1>7. Kept(r_objs)
  BY <1>1, <1>2, <1>5, <1>6, SameReferences
<1>8. Quietly(t, k, next)
  BY <1>2, <1>3, <1>5, <1>6, <1>7 DEF Quietly, Proper
<1>9. Writes(k.u)
  <2>1. r_objs[k.o].pp \in Int /\ -1 \in Int
    BY <1>3 DEF PlayerObj
  <2>2. r_board' = r_board \/ \E pp \in Int : r_board' = [r_board EXCEPT !["global"][k.u] = pp]
    BY <1>6, <2>1
  <2>3. QED
    BY <1>2, <2>2, IdsAreNumbers DEF Writes
<1>10. AddsAll'
  BY <1>2, RebuildGoesOn, AddsAllHolds DEF Restful
<1>11. ASSUME k.u \notin r_mixed PROVE Leaves(k.u, next)
  <2>1. /\ Alone(k.u) /\ Listed(k.u, k) /\ r_objs[k.o].priv = r_rows[k.u].priv
        /\ Free(r_objs[k.o].priv) <=> k.op = "unrestrict"
    BY <1>2, <1>3, <1>11 DEF InHand
  <2>2. Hides(k.u)'
    <3>1. CASE k.op = "restrict"
      <4>1. r_board' = [r_board EXCEPT !["global"][k.u] = -1]
        BY <1>6, <3>1
      <4>2. r_board'["global"][k.u] = -1
        BY <1>3, <4>1, IdsAreNumbers DEF ServerRight
      <4>3. QED
        BY <4>2 DEF Hides
    <3>2. CASE k.op = "unrestrict"
      BY <1>2, <2>1, <3>2 DEF Hides
    <3>3. QED
      BY <1>2, <3>1, <3>2
  <2>3. QED
    BY <1>2, <1>5, <2>1, <2>2 DEF Leaves, InHand, Listed
<1>12. QED
  BY <1>1, <1>2, <1>3, <1>8, <1>9, <1>10, <1>11, QuietStep

\* A change of profile.
LEMMA ProfileAtHand ==
  ASSUME RanksInv, NEW t \in Tasks, NEW k, k = r_tasks[t], k.op = "profile"
  PROVE  /\ k.u # 0 /\ k.o = 0
         /\ k \in Requests /\ Proper(k) /\ k.u \in Ranks!Users /\ ServerRight
         /\ k.c \in Countries /\ k.old \in Countries /\ k.c # "global" /\ k.old # "global"
         /\ k.c \in Ranks!Boards /\ k.old \in Ranks!Boards
         /\ r_rows[k.u] \in UserRow
         /\ k.u \notin r_mixed => Alone(k.u) /\ InHand(k.u, k) /\ r_rebuild.pc = "idle"
<1>1. ServerRight /\ Proper(k)
  BY DEF RanksInv, ServerRight
<1>2. k.u # 0 /\ k.o = 0 /\ k.c # "global" /\ k.old # "global"
  BY <1>1 DEF Proper
<1>3. k \in Requests /\ k.c \in Countries /\ k.old \in Countries
  BY <1>1, <1>2 DEF Proper, Requests
<1>4. k.c \in Ranks!Boards /\ k.old \in Ranks!Boards
  BY <1>3 DEF Ranks!Boards
<1>5. QED
  BY <1>1, <1>2, <1>3, <1>4, UnderWay

LEMMA RemoveKeeps ==
  ASSUME RanksInv, NEW t \in Tasks, Ranks!remove_from_country_leaderboard(t) PROVE RanksInv'
<1>1. PICK k : k = r_tasks[t]
  OBVIOUS
<1>2. /\ k.op = "profile" /\ k.pc = "remove"
      /\ UNCHANGED <<r_rows, r_objs, r_online, r_staged, r_rebuild, r_steady, r_seen, r_mixed,
                     r_killed>>
      /\ r_board' = [r_board EXCEPT ![k.old][k.u] = -1]
  BY <1>1 DEF Ranks!remove_from_country_leaderboard, Ranks!ghosts, Ranks!ZRem, Ranks!Absent
<1>3. /\ k.u # 0 /\ k.o = 0
      /\ k \in Requests /\ Proper(k) /\ k.u \in Ranks!Users /\ ServerRight
      /\ k.c \in Countries /\ k.old \in Countries /\ k.c # "global" /\ k.old # "global"
      /\ k.c \in Ranks!Boards /\ k.old \in Ranks!Boards
      /\ r_rows[k.u] \in UserRow
      /\ k.u \notin r_mixed => Alone(k.u) /\ InHand(k.u, k) /\ r_rebuild.pc = "idle"
  BY <1>1, <1>2, ProfileAtHand
<1>4. PICK next : next = IF Free(k.val) THEN [k EXCEPT !.pc = "add", !.pp = r_rows[k.u].pp]
                         ELSE Ranks!NoTask
  OBVIOUS
<1>5. r_tasks' = [r_tasks EXCEPT ![t] = next]
  BY <1>1, <1>4 DEF Ranks!remove_from_country_leaderboard, Ranks!Finish, Free, Ranks!Unrestricted
<1>6. /\ Proper(next) /\ next.u \in {0, k.u} /\ next.o = 0
      /\ next.u = k.u => next.op = "profile"
  <2>1. CASE ~Free(k.val)
    BY <1>3, <1>4, <2>1, NoTaskIsProper
  <2>2. CASE Free(k.val)
    <3>1. next = [k EXCEPT !.pc = "add", !.pp = r_rows[k.u].pp] /\ r_rows[k.u].pp \in Nat
      BY <1>3, <1>4, <2>2 DEF UserRow
    <3>2. /\ next \in Requests /\ next.u = k.u /\ next.o = k.o /\ next.op = "profile"
          /\ next.pc = "add" /\ next.c = k.c /\ next.old = k.old
      BY <1>2, <1>3, <3>1 DEF Requests
    <3>3. QED
      BY <1>3, <3>2 DEF Proper
  <2>3. QED
    BY <2>1, <2>2
<1>7. Kept(r_objs)
  BY <1>1, <1>2, <1>3, <1>5, <1>6, SameReferences
<1>8. Quietly(t, k, next)
  BY <1>2, <1>3, <1>5, <1>6, <1>7 DEF Quietly
<1>9. Writes(k.u)
  <2>1. -1 \in Int
    OBVIOUS
  <2>2. QED
    BY <1>2, <1>3, <2>1 DEF Writes
<1>10. AddsAll'
  BY <1>2, RebuildGoesOn, AddsAllHolds DEF Restful
<1>11. ASSUME k.u \notin r_mixed PROVE Leaves(k.u, next)
  <2>1. /\ Alone(k.u)
        /\ r_online[k.u] # 0 => r_objs[r_online[k.u]].priv = r_rows[k.u].priv
    BY <1>2, <1>3, <1>11 DEF InHand
  <2>2. r_board'["global"][k.u] = r_board["global"][k.u]
    BY <1>2, <1>3 DEF ServerRight
  <2>3. Hides(k.u)'
    BY <1>1, <1>2, <2>1, <2>2, HidesStill
  <2>4. QED
    BY <1>2, <1>6, <2>1, <2>3 DEF Leaves, InHand
<1>12. QED
  BY <1>1, <1>2, <1>3, <1>8, <1>9, <1>10, <1>11, QuietStep

LEMMA AddKeeps ==
  ASSUME RanksInv, NEW t \in Tasks, Ranks!add_to_country_leaderboard(t) PROVE RanksInv'
<1>1. PICK k : k = r_tasks[t]
  OBVIOUS
<1>2. /\ k.op = "profile" /\ k.pc = "add"
      /\ UNCHANGED <<r_rows, r_objs, r_online, r_staged, r_rebuild, r_steady, r_seen, r_mixed,
                     r_killed>>
      /\ r_board' = [r_board EXCEPT ![k.c][k.u] = k.pp]
      /\ r_tasks' = [r_tasks EXCEPT ![t] = Ranks!NoTask]
  BY <1>1 DEF Ranks!add_to_country_leaderboard, Ranks!ghosts, Ranks!ZAdd, Ranks!Finish
<1>3. /\ k.u # 0 /\ k.o = 0
      /\ k \in Requests /\ Proper(k) /\ k.u \in Ranks!Users /\ ServerRight
      /\ k.c \in Countries /\ k.old \in Countries /\ k.c # "global" /\ k.old # "global"
      /\ k.c \in Ranks!Boards /\ k.old \in Ranks!Boards
      /\ r_rows[k.u] \in UserRow
      /\ k.u \notin r_mixed => Alone(k.u) /\ InHand(k.u, k) /\ r_rebuild.pc = "idle"
  BY <1>1, <1>2, ProfileAtHand
<1>4. Kept(r_objs)
  BY <1>1, <1>2, <1>3, NoTaskIsProper, SameReferences
<1>5. Quietly(t, k, Ranks!NoTask)
  BY <1>2, <1>3, <1>4, NoTaskIsProper DEF Quietly
<1>6. Writes(k.u)
  <2>1. k \in Requests
    BY <1>3
  <2>2. k.pp \in Nat
    BY <2>1 DEF Requests
  <2>3. PICK pp \in Int : pp = k.pp
    BY <2>2
  <2>4. r_board' = [r_board EXCEPT ![k.c][k.u] = pp] /\ k.c \in Ranks!Boards
    BY <1>2, <1>3, <2>3
  <2>5. QED
    BY <1>2, <2>4 DEF Writes
<1>7. AddsAll'
  BY <1>2, RebuildGoesOn, AddsAllHolds DEF Restful
<1>8. ASSUME k.u \notin r_mixed PROVE Leaves(k.u, Ranks!NoTask)
  <2>1. /\ Alone(k.u)
        /\ r_online[k.u] # 0 => r_objs[r_online[k.u]].priv = r_rows[k.u].priv
    BY <1>2, <1>3, <1>8 DEF InHand
  <2>2. r_board'["global"][k.u] = r_board["global"][k.u]
    BY <1>2, <1>3 DEF ServerRight
  <2>3. Hides(k.u)'
    BY <1>1, <1>2, <2>1, <2>2, HidesStill
  <2>4. QED
    BY <1>2, <1>3, <2>1, <2>3, NoTaskIsProper DEF Leaves
<1>9. QED
  BY <1>1, <1>2, <1>3, <1>5, <1>6, <1>7, <1>8, QuietStep

\* A step that sets the object of its request.
Sets(t, k, next, obj) ==
  /\ obj \in PlayerObj /\ obj.country \in Countries
  /\ r_tasks' = [r_tasks EXCEPT ![t] = next] /\ Proper(next)
  /\ next.u \in {0, k.u} /\ next.o \in {0, k.o}
  /\ Ranks!Collect([r_objs EXCEPT ![k.o] = obj])
  /\ r_online' = [v \in Ranks!Users |-> r_online'[v]]
  /\ r_online'[k.u] \in {0, r_online[k.u], k.o}
  /\ \A v \in Ranks!Users \ {k.u} : r_online'[v] = r_online[v]
LEMMA SetsObject ==
  ASSUME RanksInv, NEW t \in Tasks, NEW k, k = r_tasks[t], k.u # 0, k.o # 0, NEW next, NEW obj,
         Sets(t, k, next, obj)
  PROVE  /\ next.o # 0 => r_objs'[k.o] = obj
         /\ r_online'[k.u] = k.o => r_objs'[k.o] = obj
<1>1. ServerRight /\ k.u \in Ranks!Users /\ k.o \in Ranks!ObjIds
  BY UnderWay
<1>2. r_tasks'[t] = next
  BY <1>1 DEF Sets, ServerRight
<1>3. next.o # 0 \/ r_online'[k.u] = k.o => Referred(k.o)'
  BY <1>1, <1>2 DEF Referred, Sets
<1>4. PICK new : new = [r_objs EXCEPT ![k.o] = obj]
  OBVIOUS
<1>5. new[k.o] = obj
  BY <1>1, <1>4 DEF ServerRight
<1>6. Kept(new)
  BY <1>4, CollectKeeps DEF Sets
<1>7. QED
  BY <1>1, <1>3, <1>5, <1>6 DEF Kept

LEMMA SettingStep ==
  ASSUME RanksInv, NEW t \in Tasks, NEW k, k = r_tasks[t], k.u # 0, k.o # 0, NEW next, NEW obj,
         Sets(t, k, next, obj), Writes(k.u), AddsAll', k.u \in r_mixed' \/ Leaves(k.u, next)
  PROVE  RanksInv'
<1>1. PICK new : new = [r_objs EXCEPT ![k.o] = obj]
  OBVIOUS
<1>2. PICK u, o : u = k.u /\ o = k.o
  OBVIOUS
<1>3. /\ k \in Requests /\ k.u \in Ranks!Users /\ ServerRight
      /\ k.o \in Ranks!ObjIds
      /\ k.u \notin r_mixed => Alone(k.u)
  BY UnderWay
<1>4. Kept(new)
  BY <1>1, CollectKeeps DEF Sets
<1>5. /\ new \in [Ranks!ObjIds -> PlayerObj] /\ new[o] = obj
      /\ \A x \in Ranks!ObjIds : x # o => new[x] = r_objs[x]
  BY <1>1, <1>2, <1>3 DEF Sets, ServerRight
<1>6. Moves(u, o, new)
  BY <1>2, <1>3, <1>4, <1>5 DEF Moves, Sets
<1>7. Proceeds(t, u, o, next)
  BY <1>2 DEF Proceeds, Sets
<1>8. Writes(u) /\ Owns(t, u, o)
  BY <1>2 DEF Owns
<1>9. u \notin r_mixed' => u \notin r_mixed
  BY <1>8 DEF Writes
<1>10. Settles(t, u, next)
  BY <1>2, <1>3, <1>9 DEF Settles
<1>11. QED
  BY <1>6, <1>7, <1>8, <1>10, StepKeeps

LEMMA LoginVerifyKeeps ==
  ASSUME RanksInv, NEW t \in Tasks, Ranks!LoginVerify(t) PROVE RanksInv'
<1>1. PICK k : k = r_tasks[t]
  OBVIOUS
<1>2. k.op = "login" /\ k.pc = "verify"
  BY <1>1 DEF Ranks!LoginVerify
<1>3. /\ k.u # 0 /\ k.o # 0
      /\ k \in Requests /\ Proper(k) /\ k.u \in Ranks!Users /\ ServerRight
      /\ k.o \in Ranks!ObjIds /\ r_rows[k.u] \in UserRow
      /\ r_objs[k.o] \in PlayerObj /\ r_objs[k.o].country \in Countries
      /\ k.u \notin r_mixed => Alone(k.u) /\ InHand(k.u, k) /\ r_rebuild.pc = "idle"
  BY <1>1, <1>2, AtHand
<1>4. PICK row, obj : row = [r_rows[k.u] EXCEPT !.priv = k.val] /\ obj = r_objs[k.o]
  OBVIOUS
<1>5. row \in UserRow /\ row.priv = k.val
  BY <1>3, <1>4 DEF UserRow, Requests
<1>6. r_objs = [r_objs EXCEPT ![k.o] = obj]
  BY <1>3, <1>4 DEF ServerRight
<1>7. /\ Ranks!WriteRow([r_rows EXCEPT ![k.u] = row])
      /\ r_tasks' = [r_tasks EXCEPT ![t] = Ranks!NoTask]
      /\ r_online' = [r_online EXCEPT ![k.u] = k.o]
      /\ Ranks!Collect(r_objs)
      /\ UNCHANGED <<r_board, r_rebuild, r_staged>>
  BY <1>1, <1>4 DEF Ranks!LoginVerify, Ranks!Finish
<1>8. /\ AddsAll' /\ r_rows' = [r_rows EXCEPT ![k.u] = row] /\ r_rows'[k.u] = row
      /\ UNCHANGED <<r_killed, r_mixed>>
  BY <1>1, <1>3, <1>7, RowWritten
<1>9. /\ r_online' = [v \in Ranks!Users |-> r_online'[v]] /\ r_online'[k.u] = k.o
      /\ \A v \in Ranks!Users \ {k.u} : r_online'[v] = r_online[v]
  BY <1>3, <1>7 DEF ServerRight
<1>10. Sets(t, k, Ranks!NoTask, obj)
  BY <1>3, <1>4, <1>6, <1>7, <1>9, NoTaskIsProper DEF Sets
<1>11. Writes(k.u)
  BY <1>5, <1>7, <1>8 DEF Writes
<1>12. ASSUME k.u \notin r_mixed PROVE Leaves(k.u, Ranks!NoTask)
  <2>1. Alone(k.u) /\ Free(k.val) /\ r_objs[k.o].priv = k.val
    BY <1>2, <1>3, <1>12 DEF InHand
  <2>2. Hides(k.u)'
    BY <1>5, <1>8, <2>1 DEF Hides
  <2>3. r_objs'[k.o] = obj
    <3>1. k.u # 0 /\ k.o # 0 /\ r_online'[k.u] = k.o
      BY <1>3, <1>9
    <3>2. PICK next : next = Ranks!NoTask
      OBVIOUS
    <3>3. Sets(t, k, next, obj)
      BY <1>10, <3>2
    <3>4. QED
      BY <1>1, <3>1, <3>3, SetsObject
  <2>4. QED
    BY <1>3, <1>4, <1>5, <1>8, <1>9, <2>1, <2>2, <2>3, NoTaskIsProper DEF Leaves
<1>13. QED
  BY <1>1, <1>3, <1>8, <1>10, <1>11, <1>12, SettingStep

LEMMA UnrestrictStatsKeeps ==
  ASSUME RanksInv, NEW t \in Tasks, Ranks!UnrestrictStats(t) PROVE RanksInv'
<1>1. PICK k : k = r_tasks[t]
  OBVIOUS
<1>2. /\ k.op = "unrestrict" /\ k.pc = "stats" /\ r_online' = r_online
      /\ UNCHANGED <<r_rows, r_board, r_staged, r_rebuild, r_steady, r_seen, r_mixed, r_killed>>
  BY <1>1 DEF Ranks!UnrestrictStats, Ranks!ghosts
<1>3. /\ k.u # 0 /\ k.o # 0
      /\ k \in Requests /\ Proper(k) /\ k.u \in Ranks!Users /\ ServerRight
      /\ k.o \in Ranks!ObjIds /\ r_rows[k.u] \in UserRow
      /\ r_objs[k.o] \in PlayerObj /\ r_objs[k.o].country \in Countries
      /\ k.u \notin r_mixed => Alone(k.u) /\ InHand(k.u, k) /\ r_rebuild.pc = "idle"
  BY <1>1, <1>2, AtHand
<1>4. PICK obj, next : /\ obj = [r_objs[k.o] EXCEPT !.pp = r_rows[k.u].pp, !.stats = TRUE]
                       /\ next = [k EXCEPT !.pc = "global"]
  OBVIOUS
<1>5. obj \in PlayerObj /\ obj.country \in Countries /\ obj.priv = r_objs[k.o].priv
  BY <1>3, <1>4 DEF PlayerObj, UserRow
<1>6. /\ next \in Requests /\ next.u = k.u /\ next.o = k.o /\ next.op = "unrestrict"
      /\ next.pc = "global"
  BY <1>2, <1>3, <1>4 DEF Requests
<1>7. /\ r_tasks' = [r_tasks EXCEPT ![t] = next]
      /\ Ranks!Collect([r_objs EXCEPT ![k.o] = obj])
  BY <1>1, <1>4 DEF Ranks!UnrestrictStats, Ranks!Advance, Ranks!StatsFromSql
<1>8. /\ r_online' = [v \in Ranks!Users |-> r_online'[v]] /\ Proper(next)
  BY <1>2, <1>3, <1>6 DEF ServerRight, Proper
<1>9. Sets(t, k, next, obj)
  BY <1>2, <1>5, <1>6, <1>7, <1>8 DEF Sets
<1>10. Writes(k.u)
  BY <1>2 DEF Writes
<1>11. AddsAll'
  BY <1>2, RebuildGoesOn, AddsAllHolds DEF Restful
<1>12. ASSUME k.u \notin r_mixed PROVE Leaves(k.u, next)
  <2>1. /\ Alone(k.u) /\ Listed(k.u, k) /\ r_objs[k.o].priv = r_rows[k.u].priv
        /\ Free(r_objs[k.o].priv)
    BY <1>2, <1>3, <1>12 DEF InHand
  <2>2. Hides(k.u)'
    BY <1>1, <1>2, <2>1, HidesStill
  <2>3. r_objs'[k.o] = obj
    <3>1. next.o # 0 /\ k.u # 0 /\ k.o # 0 /\ k = r_tasks[t]
      BY <1>1, <1>3, <1>6
    <3>2. QED
      BY <1>9, <3>1, SetsObject
  <2>4. QED
    BY <1>2, <1>5, <1>6, <2>1, <2>2, <2>3 DEF Leaves, InHand, Listed
<1>13. QED
  BY <1>1, <1>2, <1>3, <1>9, <1>10, <1>11, <1>12, SettingStep

LEMMA PrivCountryKeeps ==
  ASSUME RanksInv, NEW t \in Tasks, Ranks!PrivCountry(t) PROVE RanksInv'
<1>1. PICK k : k = r_tasks[t]
  OBVIOUS
<1>2. /\ k.op \in {"restrict", "unrestrict"} /\ k.pc = "country"
      /\ UNCHANGED <<r_rows, r_staged, r_rebuild, r_steady, r_seen, r_mixed, r_killed>>
  BY <1>1 DEF Ranks!PrivCountry, Ranks!ghosts
<1>3. /\ k.u # 0 /\ k.o # 0
      /\ k \in Requests /\ Proper(k) /\ k.u \in Ranks!Users /\ ServerRight
      /\ k.o \in Ranks!ObjIds /\ r_rows[k.u] \in UserRow
      /\ r_objs[k.o] \in PlayerObj /\ r_objs[k.o].country \in Countries
      /\ k.u \notin r_mixed => Alone(k.u) /\ InHand(k.u, k) /\ r_rebuild.pc = "idle"
  BY <1>1, <1>2, AtHand
<1>4. PICK obj, next, c : /\ obj = [r_objs[k.o] EXCEPT !.token = FALSE] /\ next = Ranks!NoTask
                          /\ c = r_objs[k.o].country
  OBVIOUS
<1>5. obj \in PlayerObj /\ obj.country \in Countries
  BY <1>3, <1>4 DEF PlayerObj
<1>6. /\ r_tasks' = [r_tasks EXCEPT ![t] = next]
      /\ Ranks!Collect([r_objs EXCEPT ![k.o] = obj])
      /\ r_online' = [v \in Ranks!Users |-> IF r_online[v] = k.o THEN 0 ELSE r_online[v]]
      /\ r_board' = IF k.op = "restrict" THEN [r_board EXCEPT ![c][k.u] = -1]
                    ELSE IF r_objs[k.o].stats THEN [r_board EXCEPT ![c][k.u] = r_objs[k.o].pp]
                    ELSE r_board
  BY <1>1, <1>4 DEF Ranks!PrivCountry, Ranks!Finish, Ranks!logout, Ranks!Nothing, Ranks!ZRem,
     Ranks!ZAdd, Ranks!Absent
<1>7. \A v \in Ranks!Users \ {k.u} : r_online'[v] = r_online[v]
  <2>1. PICK owner : Owned(owner)
    BY <1>3 DEF ServerRight
  <2>2. owner[k.o] = k.u
    BY <1>1, <1>3, <2>1 DEF Owned
  <2>3. ASSUME NEW v \in Ranks!Users, r_online[v] = k.o PROVE v = k.u
    BY <1>3, <2>1, <2>2, <2>3 DEF Owned
  <2>4. QED
    BY <1>6, <2>3
<1>8. /\ r_online' = [v \in Ranks!Users |-> r_online'[v]]
      /\ r_online'[k.u] \in {0, r_online[k.u]}
      /\ r_online[k.u] = k.o => r_online'[k.u] = 0
  BY <1>3, <1>6
<1>9. /\ Proper(next) /\ next.u = 0 /\ next.o = 0
  BY <1>4, NoTaskIsProper
<1>10. Sets(t, k, next, obj)
  BY <1>5, <1>6, <1>7, <1>8, <1>9 DEF Sets
<1>11. c \in Ranks!Boards /\ c # "global"
  BY <1>3, <1>4, RanksAssumption DEF Ranks!Boards
<1>12. Writes(k.u)
  <2>1. r_objs[k.o].pp \in Int /\ -1 \in Int
    BY <1>3 DEF PlayerObj
  <2>2. r_board' = r_board \/ \E pp \in Int : r_board' = [r_board EXCEPT ![c][k.u] = pp]
    BY <1>6, <2>1
  <2>3. QED
    BY <1>2, <1>11, <2>2 DEF Writes
<1>13. AddsAll'
  BY <1>2, RebuildGoesOn, AddsAllHolds DEF Restful
<1>14. ASSUME k.u \notin r_mixed PROVE Leaves(k.u, next)
  <2>1. Alone(k.u) /\ Listed(k.u, k)
    BY <1>2, <1>3, <1>14 DEF InHand
  <2>2. r_board'["global"][k.u] = r_board["global"][k.u]
    BY <1>3, <1>6, <1>11 DEF ServerRight
  <2>3. Hides(k.u)'
    BY <1>1, <1>2, <2>1, <2>2, HidesStill
  <2>4. r_online'[k.u] = 0
    BY <1>8, <2>1 DEF Listed
  <2>5. QED
    BY <1>3, <1>9, <2>3, <2>4 DEF Leaves
<1>15. QED
  BY <1>1, <1>2, <1>3, <1>10, <1>12, <1>13, <1>14, SettingStep

LEMMA ProfileRowKeeps ==
  ASSUME RanksInv, NEW t \in Tasks, Ranks!ProfileRow(t) PROVE RanksInv'
<1>1. PICK k : k = r_tasks[t]
  OBVIOUS
<1>2. k.op = "profile" /\ k.pc = "row"
  BY <1>1 DEF Ranks!ProfileRow
<1>3. /\ k.u # 0 /\ k.o = 0
      /\ k \in Requests /\ Proper(k) /\ k.u \in Ranks!Users /\ ServerRight
      /\ k.c \in Countries /\ k.old \in Countries /\ k.c # "global" /\ k.old # "global"
      /\ k.c \in Ranks!Boards /\ k.old \in Ranks!Boards
      /\ r_rows[k.u] \in UserRow
      /\ k.u \notin r_mixed => Alone(k.u) /\ InHand(k.u, k) /\ r_rebuild.pc = "idle"
  BY <1>1, <1>2, ProfileAtHand
<1>4. PICK u, o : u = k.u /\ o = r_online[k.u]
  OBVIOUS
<1>5. o \in Ranks!ObjIds \cup {0}
  BY <1>3, <1>4 DEF ServerRight
<1>6. PICK row, obj, next : /\ row = [r_rows[k.u] EXCEPT !.country = k.c]
                            /\ obj = [r_objs[o] EXCEPT !.country = k.c]
                            /\ next = [k EXCEPT !.pc = "remove"]
  OBVIOUS
<1>7. row \in UserRow /\ row.priv = r_rows[k.u].priv
  BY <1>3, <1>6 DEF UserRow
<1>8. /\ next \in Requests /\ next.u = u /\ next.o = 0 /\ next.op = "profile"
      /\ next.pc = "remove" /\ next.c = k.c /\ next.old = k.old
  BY <1>2, <1>3, <1>4, <1>6 DEF Requests
<1>9. PICK new : new = IF o = 0 THEN r_objs ELSE [r_objs EXCEPT ![o] = obj]
  OBVIOUS
<1>10. /\ Ranks!WriteRow([r_rows EXCEPT ![k.u] = row])
       /\ r_tasks' = [r_tasks EXCEPT ![t] = next]
       /\ r_online' = r_online
       /\ Ranks!Collect(new)
       /\ UNCHANGED <<r_board, r_rebuild, r_staged>>
  <2>1. new = IF r_online[k.u] = 0 THEN r_objs ELSE [r_objs EXCEPT ![r_online[k.u]].country = k.c]
    BY <1>4, <1>6, <1>9
  <2>2. QED
    BY <1>1, <1>6, <2>1 DEF Ranks!ProfileRow, Ranks!Advance, Ranks!Nothing
<1>11. /\ AddsAll' /\ r_rows' = [r_rows EXCEPT ![k.u] = row] /\ r_rows'[k.u] = row
       /\ UNCHANGED <<r_killed, r_mixed>>
  BY <1>1, <1>3, <1>10, RowWritten
<1>12. Kept(new)
  BY <1>10, CollectKeeps
<1>13. o # 0 => obj \in PlayerObj /\ obj.country \in Countries /\ obj.priv = r_objs[o].priv
  <2>1. o # 0 => r_objs[o] \in PlayerObj
    BY <1>3, <1>5 DEF ServerRight
  <2>2. QED
    BY <1>3, <1>6, <2>1 DEF PlayerObj
<1>14. /\ new \in [Ranks!ObjIds -> PlayerObj] /\ (o # 0 => new[o] = obj)
       /\ \A x \in Ranks!ObjIds : x # o => new[x] = r_objs[x]
  BY <1>3, <1>5, <1>9, <1>13 DEF ServerRight
<1>15. Moves(u, o, new)
  BY <1>3, <1>4, <1>5, <1>10, <1>12, <1>13, <1>14 DEF Moves, ServerRight
<1>16. Proceeds(t, u, o, next)
  BY <1>1, <1>3, <1>4, <1>8, <1>10 DEF Proceeds, Proper
<1>17. Writes(u)
  BY <1>4, <1>7, <1>10, <1>11 DEF Writes
<1>18. ASSUME k.u \notin r_mixed PROVE Alone(u) /\ Leaves(u, next)
  <2>1. /\ Alone(k.u)
        /\ r_online[k.u] # 0 => r_objs[r_online[k.u]].priv = r_rows[k.u].priv
    BY <1>2, <1>3, <1>18 DEF InHand
  <2>2. Hides(k.u)'
    BY <1>1, <1>2, <1>7, <1>10, <1>11, <2>1, HidesStill
  <2>3. o # 0 => r_objs'[o] = obj
    <3>1. Referred(o)'
      BY <1>3, <1>4, <1>10 DEF Referred
    <3>2. QED
      BY <1>5, <1>12, <1>14, <3>1 DEF Kept
  <2>4. QED
    BY <1>4, <1>7, <1>8, <1>10, <1>11, <1>13, <2>1, <2>2, <2>3 DEF Leaves, InHand
<1>19. Owns(t, u, o) /\ Settles(t, u, next)
  BY <1>1, <1>4, <1>11, <1>18 DEF Owns, Settles
<1>20. QED
  BY <1>11, <1>15, <1>16, <1>17, <1>19, StepKeeps

LEMMA TaskFailsKeeps ==
  ASSUME RanksInv, NEW t \in Tasks, Ranks!TaskFails(t) PROVE RanksInv'
<1>1. PICK k : k = r_tasks[t]
  OBVIOUS
<1>2. /\ k # Ranks!NoTask /\ r_online' = r_online
      /\ UNCHANGED <<r_rows, r_board, r_staged, r_rebuild, r_steady, r_seen, r_killed>>
      /\ r_mixed' = r_mixed \cup {k.u}
      /\ r_tasks' = [r_tasks EXCEPT ![t] = Ranks!NoTask]
      /\ Ranks!Collect(IF k.op = "submit" /\ k.pc = "row" THEN [r_objs EXCEPT ![k.o].pp = k.pp]
                       ELSE r_objs)
  BY <1>1 DEF Ranks!TaskFails, Ranks!Finish
<1>3. k.u # 0
  BY <1>1, <1>2 DEF RanksInv, ServerRight, Proper
<1>4. /\ k \in Requests /\ Proper(k) /\ k.u \in Ranks!Users /\ ServerRight
      /\ k.o \in Ranks!ObjIds \cup {0}
      /\ k.o # 0 => r_objs[k.o] \in PlayerObj /\ r_objs[k.o].country \in Countries
  BY <1>1, <1>3, UnderWay
<1>5. Writes(k.u)
  BY <1>2 DEF Writes
<1>6. AddsAll'
  BY <1>2, RebuildGoesOn, AddsAllHolds DEF Restful
<1>7. PICK next : next = Ranks!NoTask
  OBVIOUS
<1>8. Proper(next) /\ next.u = 0 /\ next.o = 0 /\ k.u \in r_mixed'
  BY <1>2, <1>7, NoTaskIsProper
<1>9. CASE k.op = "submit" /\ k.pc = "row"
  <2>1. PICK obj : obj = [r_objs[k.o] EXCEPT !.pp = k.pp]
    OBVIOUS
  <2>2. k.o # 0 /\ k.pp \in Nat
    BY <1>4, <1>9 DEF Proper, Requests
  <2>3. obj \in PlayerObj /\ obj.country \in Countries
    BY <1>4, <2>1, <2>2 DEF PlayerObj
  <2>4. Ranks!Collect([r_objs EXCEPT ![k.o] = obj])
    BY <1>2, <1>9, <2>1
  <2>5. Sets(t, k, next, obj)
    BY <1>2, <1>4, <1>7, <1>8, <2>3, <2>4 DEF Sets, ServerRight
  <2>6. QED
    BY <1>1, <1>3, <1>5, <1>6, <1>8, <2>2, <2>5, SettingStep
<1>10. CASE ~(k.op = "submit" /\ k.pc = "row")
  <2>1. Ranks!Collect(r_objs)
    BY <1>2, <1>10
  <2>2. Kept(r_objs)
    BY <2>1, CollectKeeps
  <2>3. Quietly(t, k, next)
    BY <1>2, <1>7, <1>8, <2>2 DEF Quietly
  <2>4. QED
    BY <1>1, <1>3, <1>5, <1>6, <1>8, <2>3, QuietStep
<1>11. QED
  BY <1>9, <1>10

-----------------------------------------------------------------------------
(* Requests that begin.                                                    *)

\* A request, t, begins for u with the object o.
Begins(t, u, o, k, new) ==
  /\ r_tasks[t] = Ranks!NoTask /\ r_tasks' = [r_tasks EXCEPT ![t] = k]
  /\ Proper(k) /\ k.u = u /\ k.o \in {0, o} /\ Moves(u, o, new)
  /\ o = 0 \/ ~Referred(o) \/ o = r_online[u]
  /\ r_mixed' = IF Ranks!Busy(u) \/ r_rebuild.pc # "idle" THEN r_mixed \cup {u} ELSE r_mixed
  /\ UNCHANGED <<r_rows, r_board, r_staged, r_rebuild, r_steady, r_seen, r_killed>>
LEMMA BeginsKeeps ==
  ASSUME RanksInv, NEW t \in Tasks, NEW u, NEW o, NEW k, NEW new, Begins(t, u, o, k, new),
         Alone(u) /\ ~Ranks!Busy(u) => InHand(u, k)'
  PROVE  RanksInv'
<1>1. Proceeds(t, u, o, k) /\ Owns(t, u, o) /\ Writes(u) /\ Moves(u, o, new)
  BY NoTaskIsProper DEF Begins, Proceeds, Owns, Writes
<1>2. AddsAll'
  BY RebuildGoesOn, AddsAllHolds DEF Restful, Begins
<1>3. ASSUME u \notin r_mixed'
      PROVE  /\ ~Ranks!Busy(u) /\ r_rebuild.pc = "idle"
             /\ Leaves(u, k)
  <2>1. ~Ranks!Busy(u) /\ r_rebuild.pc = "idle" /\ u \notin r_mixed
    BY <1>3 DEF Begins
  <2>2. Alone(u)
    BY <1>1, <2>1 DEF RanksInv, Moves
  <2>3. Hides(u)'
    <3>1. r_killed \/ Free(r_rows[u].priv) \/ r_board["global"][u] = -1
      BY <2>1, <2>2 DEF Alone, Hides, Ranks!Busy
    <3>2. QED
      BY <3>1 DEF Hides, Begins
  <2>4. k.u = u /\ InHand(u, k)'
    BY <2>1, <2>2 DEF Begins
  <2>5. QED
    BY <2>1, <2>3, <2>4 DEF Leaves
<1>4. Settles(t, u, k)
  BY <1>3 DEF Settles
<1>5. QED
  BY <1>1, <1>2, <1>4, StepKeeps

\* What it does to the object it gets.
Gets(t, u, o, k, obj) ==
  /\ r_tasks[t] = Ranks!NoTask /\ r_tasks' = [r_tasks EXCEPT ![t] = k]
  /\ Proper(k) /\ k.u = u /\ k.o = o
  /\ obj \in PlayerObj /\ obj.country \in Countries
  /\ r_online' = r_online /\ Ranks!Collect([r_objs EXCEPT ![o] = obj])
  /\ ~Referred(o) \/ o = r_online[u]
  /\ r_mixed' = IF Ranks!Busy(u) \/ r_rebuild.pc # "idle" THEN r_mixed \cup {u} ELSE r_mixed
  /\ UNCHANGED <<r_rows, r_board, r_staged, r_rebuild, r_steady, r_seen, r_killed>>
LEMMA GetsKeeps ==
  ASSUME RanksInv, NEW t \in Tasks, NEW u \in Ranks!Users, NEW o \in Ranks!ObjIds, NEW k, NEW obj,
         Gets(t, u, o, k, obj),
         Alone(u) /\ ~Ranks!Busy(u) /\ r_objs'[o] = obj => InHand(u, k)'
  PROVE  RanksInv'
<1>1. PICK new : new = [r_objs EXCEPT ![o] = obj]
  OBVIOUS
<1>2. ServerRight
  BY DEF RanksInv
<1>3. /\ new \in [Ranks!ObjIds -> PlayerObj] /\ new[o] = obj
      /\ \A x \in Ranks!ObjIds : x # o => new[x] = r_objs[x]
  BY <1>1, <1>2 DEF Gets, ServerRight
<1>4. Kept(new)
  BY <1>1, CollectKeeps DEF Gets
<1>5. Moves(u, o, new)
  BY <1>2, <1>3, <1>4 DEF Moves, Gets, ServerRight
<1>6. Begins(t, u, o, k, new)
  BY <1>5 DEF Gets, Begins
<1>7. r_objs'[o] = obj
  <2>1. r_tasks'[t].o = o
    BY <1>2 DEF Gets, ServerRight
  <2>2. Referred(o)'
    BY <2>1 DEF Referred
  <2>3. QED
    BY <1>3, <1>4, <2>2 DEF Kept
<1>8. QED
  BY <1>6, <1>7, BeginsKeeps

LEMMA SubmitKeeps ==
  ASSUME RanksInv, NEW t \in Tasks, NEW u \in Ranks!Users, NEW pp \in 1 .. TopPP,
         Ranks!Submit(t, u, pp)
  PROVE  RanksInv'
<1>1. ServerRight
  BY DEF RanksInv
<1>2. PICK o : o = r_online[u]
  OBVIOUS
<1>3. o # 0 /\ o \in Ranks!ObjIds
  BY <1>1, <1>2 DEF Ranks!Submit, Ranks!Nothing, ServerRight
<1>4. r_objs[o] \in PlayerObj /\ r_objs[o].country \in Countries
  BY <1>1, <1>2, <1>3 DEF ServerRight, Collected, Referred
<1>5. PICK k, obj : /\ obj = [r_objs[o] EXCEPT !.pp = pp]
                    /\ k = [Ranks!NoTask EXCEPT !.op = "submit", !.u = u, !.o = o, !.pc = "row",
                                                !.pp = r_objs[o].pp]
  OBVIOUS
<1>6. obj \in PlayerObj /\ obj.country \in Countries /\ obj.priv = r_objs[o].priv
  <2>1. pp \in Nat
    BY RanksAssumption
  <2>2. QED
    BY <1>4, <1>5, <2>1 DEF PlayerObj
<1>7. /\ k \in Requests /\ k.op = "submit" /\ k.u = u /\ k.o = o /\ k.pc = "row"
  <2>1. Ranks!NoTask \in Requests
    BY NoTaskIsProper DEF Proper
  <2>2. r_objs[o].pp \in Nat
    BY <1>4 DEF PlayerObj
  <2>3. QED
    BY <1>3, <1>5, <2>1, <2>2 DEF Requests
<1>8. Proper(k)
  BY <1>3, <1>7, IdsAreNumbers DEF Proper, UserIds
<1>9. Gets(t, u, o, k, obj)
  BY <1>2, <1>5, <1>6, <1>7, <1>8 DEF Ranks!Submit, Ranks!Begin, Gets
<1>10. ASSUME Alone(u), ~Ranks!Busy(u), r_objs'[o] = obj PROVE InHand(u, k)'
  <2>1. r_objs[o].priv = r_rows[u].priv
    BY <1>2, <1>3, <1>10 DEF Alone
  <2>2. r_rows' = r_rows /\ r_online' = r_online
    BY <1>9 DEF Gets
  <2>3. QED
    BY <1>2, <1>6, <1>7, <1>10, <2>1, <2>2 DEF InHand, Listed
<1>11. QED
  BY <1>3, <1>9, <1>10, GetsKeeps

LEMMA LoginReadKeeps ==
  ASSUME RanksInv, NEW t \in Tasks, NEW u \in Ranks!Users, NEW c \in Countries,
         Ranks!LoginRead(t, u, c)
  PROVE  RanksInv'
<1>1. ServerRight /\ r_rows[u] \in UserRow
  BY DEF RanksInv, ServerRight
<1>2. PICK o : o = Ranks!FreshObj
  OBVIOUS
<1>3. r_online[u] = 0 /\ r_tasks[t] = Ranks!NoTask
  BY DEF Ranks!LoginRead, Ranks!Begin, Ranks!Nothing
<1>4. o \in Ranks!ObjIds /\ ~Referred(o)
  BY <1>1, <1>2, <1>3, NoTaskIsProper, FreshIsThere
<1>5. PICK k, obj : /\ obj = [[priv |-> r_rows[u].priv, country |-> r_rows[u].country, pp |-> 0,
                               token |-> TRUE, stats |-> FALSE] EXCEPT !.country = c]
                    /\ k = [Ranks!NoTask EXCEPT !.op = "login", !.u = u, !.o = o, !.pc = "stats"]
  OBVIOUS
<1>6. obj \in PlayerObj /\ obj.country \in Countries /\ obj.priv = r_rows[u].priv
  BY <1>1, <1>5 DEF PlayerObj, UserRow
<1>7. /\ k \in Requests /\ k.op = "login" /\ k.u = u /\ k.o = o /\ k.pc = "stats"
  <2>1. Ranks!NoTask \in Requests
    BY NoTaskIsProper DEF Proper
  <2>2. QED
    BY <1>4, <1>5, <2>1 DEF Requests
<1>8. Proper(k)
  BY <1>4, <1>7, IdsAreNumbers DEF Proper, UserIds, ObjectIds
<1>9. Gets(t, u, o, k, obj)
  BY <1>2, <1>4, <1>5, <1>6, <1>7, <1>8 DEF Ranks!LoginRead, Ranks!Begin, Ranks!get_sql, Gets
<1>10. ASSUME Alone(u), ~Ranks!Busy(u), r_objs'[o] = obj PROVE InHand(u, k)'
  <2>1. r_rows' = r_rows /\ r_online' = r_online
    BY <1>9 DEF Gets
  <2>2. QED
    BY <1>3, <1>6, <1>7, <1>10, <2>1 DEF InHand
<1>11. QED
  BY <1>4, <1>9, <1>10, GetsKeeps

LEMMA SetPrivKeeps ==
  ASSUME RanksInv, NEW t \in Tasks, NEW u \in Ranks!Users,
         Ranks!restrict(t, u) \/ Ranks!unrestrict(t, u)
  PROVE  RanksInv'
<1>1. ServerRight /\ r_rows[u] \in UserRow
  BY DEF RanksInv, ServerRight
<1>2. PICK o, from, op : /\ o = Ranks!TargetId(u) /\ from = Ranks!Target(u)
                         /\ op = IF Free(from.priv) THEN "restrict" ELSE "unrestrict"
  OBVIOUS
<1>3. PICK bits : bits = IF Free(from.priv) THEN from.priv \ {"unrestricted"}
                         ELSE from.priv \cup {"unrestricted"}
  OBVIOUS
<1>4. Ranks!SetPriv(t, op, u, o, from, bits)
  BY <1>2, <1>3 DEF Ranks!restrict, Ranks!unrestrict, Free, Ranks!Unrestricted
<1>5. r_tasks[t] = Ranks!NoTask
  BY <1>4 DEF Ranks!SetPriv, Ranks!Begin
<1>6. /\ o \in Ranks!ObjIds /\ ((~Referred(o) /\ r_online[u] = 0) \/ o = r_online[u])
      /\ from \in PlayerObj /\ from.country \in Countries
  <2>1. CASE r_online[u] = 0
    <3>1. o = Ranks!FreshObj /\ from = Ranks!get_sql(u)
      BY <1>2, <2>1 DEF Ranks!TargetId, Ranks!Target, Ranks!Nothing
    <3>2. o \in Ranks!ObjIds /\ ~Referred(o)
      BY <1>1, <1>5, <2>1, <3>1, NoTaskIsProper, FreshIsThere
    <3>3. from \in PlayerObj /\ from.country \in Countries
      BY <1>1, <3>1 DEF Ranks!get_sql, PlayerObj, UserRow
    <3>4. QED
      BY <2>1, <3>2, <3>3
  <2>2. CASE r_online[u] # 0
    <3>1. o = r_online[u] /\ from = r_objs[o]
      BY <1>2, <2>2 DEF Ranks!TargetId, Ranks!Target, Ranks!Nothing
    <3>2. o \in Ranks!ObjIds /\ Referred(o)
      BY <1>1, <2>2, <3>1 DEF ServerRight, Referred
    <3>3. QED
      BY <1>1, <3>1, <3>2 DEF ServerRight, Collected
  <2>3. QED
    BY <2>1, <2>2
<1>7. bits \in SUBSET Ranks!Privileges /\ (Free(bits) <=> op = "unrestrict")
  BY <1>2, <1>3, <1>6 DEF PlayerObj, Ranks!Privileges, Ranks!Unrestricted, Free
<1>8. PICK k, obj : /\ obj = [from EXCEPT !.priv = bits]
                    /\ k = [Ranks!NoTask EXCEPT !.op = op, !.u = u, !.o = o, !.pc = "row",
                                                !.val = bits]
  OBVIOUS
<1>9. obj \in PlayerObj /\ obj.country \in Countries /\ obj.priv = bits
  BY <1>6, <1>7, <1>8 DEF PlayerObj
<1>10. /\ k \in Requests /\ k.op = op /\ k.u = u /\ k.o = o /\ k.pc = "row" /\ k.val = bits
       /\ op \in {"restrict", "unrestrict"}
  <2>1. Ranks!NoTask \in Requests
    BY NoTaskIsProper DEF Proper
  <2>2. op \in {"restrict", "unrestrict"}
    BY <1>2
  <2>3. QED
    BY <1>6, <1>7, <1>8, <2>1, <2>2 DEF Requests
<1>11. Proper(k)
  BY <1>6, <1>10, IdsAreNumbers DEF Proper, UserIds, ObjectIds
<1>12. Gets(t, u, o, k, obj)
  BY <1>4, <1>6, <1>8, <1>9, <1>10, <1>11 DEF Ranks!SetPriv, Ranks!Begin, Gets
<1>13. ASSUME Alone(u), ~Ranks!Busy(u), r_objs'[o] = obj PROVE InHand(u, k)'
  <2>1. r_online' = r_online
    BY <1>12 DEF Gets
  <2>2. QED
    BY <1>6, <1>7, <1>9, <1>10, <1>13, <2>1 DEF InHand, Listed
<1>14. QED
  BY <1>6, <1>12, <1>13, GetsKeeps

LEMMA ProfileReadKeeps ==
  ASSUME RanksInv, NEW t \in Tasks, NEW u \in Ranks!Users, NEW c \in Countries,
         Ranks!ProfileRead(t, u, c)
  PROVE  RanksInv'
<1>1. ServerRight /\ r_rows[u] \in UserRow
  BY DEF RanksInv, ServerRight
<1>2. PICK k, new : /\ k = [Ranks!NoTask EXCEPT !.op = "profile", !.u = u, !.pc = "row", !.c = c,
                                                !.old = r_rows[u].country, !.val = r_rows[u].priv]
                    /\ new = r_objs
  OBVIOUS
<1>3. /\ k \in Requests /\ k.op = "profile" /\ k.u = u /\ k.o = 0 /\ k.pc = "row"
      /\ k.c = c /\ k.old = r_rows[u].country /\ k.old \in Countries
  <2>1. Ranks!NoTask \in Requests /\ Ranks!NoTask.o = 0
    BY NoTaskIsProper DEF Proper
  <2>2. r_rows[u].country \in Countries /\ r_rows[u].priv \in SUBSET Ranks!Privileges
    BY <1>1 DEF UserRow
  <2>3. QED
    BY <1>2, <2>1, <2>2 DEF Requests
<1>4. Proper(k)
  BY <1>3, IdsAreNumbers, RanksAssumption DEF Proper, UserIds
<1>5. /\ r_tasks[t] = Ranks!NoTask /\ r_tasks' = [r_tasks EXCEPT ![t] = k]
      /\ r_mixed' = IF Ranks!Busy(u) \/ r_rebuild.pc # "idle" THEN r_mixed \cup {u} ELSE r_mixed
      /\ UNCHANGED <<r_rows, r_objs, r_online, r_board, r_staged, r_rebuild, r_steady, r_seen,
                     r_killed>>
  BY <1>2, <1>3 DEF Ranks!ProfileRead, Ranks!Begin
<1>6. Kept(new)
  BY <1>2, <1>3, <1>5, NoTaskIsProper, SameReferences
<1>7. Moves(u, 0, new)
  BY <1>1, <1>2, <1>5, <1>6 DEF Moves, ServerRight
<1>8. PICK o : o = 0
  OBVIOUS
<1>9. Begins(t, u, o, k, new)
  BY <1>3, <1>4, <1>5, <1>7, <1>8 DEF Begins
<1>10. ASSUME Alone(u), ~Ranks!Busy(u) PROVE InHand(u, k)'
  BY <1>3, <1>5, <1>10 DEF Alone, InHand
<1>11. QED
  BY <1>9, <1>10, BeginsKeeps

LEMMA LogoutKeeps ==
  ASSUME RanksInv, NEW u \in Ranks!Users, Ranks!Logout(u) PROVE RanksInv'
<1>1. ServerRight
  BY DEF RanksInv
<1>2. PICK o : o = r_online[u]
  OBVIOUS
<1>3. o # 0 /\ o \in Ranks!ObjIds
  BY <1>1, <1>2 DEF Ranks!Logout, Ranks!Nothing, ServerRight
<1>4. Referred(o) /\ r_objs[o] \in PlayerObj /\ r_objs[o].country \in Countries
  BY <1>1, <1>2, <1>3 DEF ServerRight, Collected, Referred
<1>5. PICK obj : obj = [r_objs[o] EXCEPT !.token = FALSE]
  OBVIOUS
<1>6. PICK new : new = [r_objs EXCEPT ![o] = obj]
  OBVIOUS
<1>7. obj \in PlayerObj /\ obj.country \in Countries /\ obj.priv = r_objs[o].priv
  BY <1>4, <1>5 DEF PlayerObj
<1>8. /\ new \in [Ranks!ObjIds -> PlayerObj] /\ new[o] = obj
      /\ \A x \in Ranks!ObjIds : x # o => new[x] = r_objs[x]
  BY <1>1, <1>3, <1>6, <1>7 DEF ServerRight
<1>9. /\ r_tasks' = r_tasks /\ Ranks!Collect(new)
      /\ r_online' = [v \in Ranks!Users |-> IF r_online[v] = o THEN 0 ELSE r_online[v]]
      /\ UNCHANGED <<r_rows, r_board, r_staged, r_rebuild, r_steady, r_seen, r_mixed, r_killed>>
  BY <1>2, <1>5, <1>6 DEF Ranks!Logout, Ranks!logout, Ranks!ghosts, Ranks!Nothing
<1>10. Kept(new)
  BY <1>9, CollectKeeps
<1>11. \A v \in Ranks!Users \ {u} : r_online'[v] = r_online[v]
  <2>1. PICK owner : Owned(owner)
    BY <1>1 DEF ServerRight
  <2>2. \A v \in Ranks!Users : r_online[v] = o => v = u
    BY <1>2, <1>3, <2>1 DEF Owned
  <2>3. QED
    BY <1>9, <2>2
<1>12. r_online' = [v \in Ranks!Users |-> r_online'[v]] /\ r_online'[u] = 0
  BY <1>2, <1>9
<1>13. Acts(u, o, new)
  <2>1. /\ r_objs' = [x \in Ranks!ObjIds |-> r_objs'[x]]
        /\ \A x \in Ranks!ObjIds : IF Referred(x)' THEN r_objs'[x] = new[x]
                                   ELSE r_objs'[x] = Ranks!NoObj
    BY <1>10 DEF Kept
  <2>2. QED
    BY <1>1, <1>2, <1>3, <1>7, <1>8, <1>9, <1>11, <1>12, <2>1 DEF Acts, ServerRight
<1>14. AddsAll'
  BY <1>9, RebuildGoesOn, AddsAllHolds DEF Restful
<1>15. ASSUME u \notin r_mixed' PROVE Alone(u)'
  <2>1. Alone(u)
    BY <1>9, <1>15 DEF RanksInv
  <2>2. ASSUME NEW s \in Tasks, r_tasks[s].u = u PROVE InHand(u, r_tasks[s])'
    <3>1. PICK k : k = r_tasks[s]
      OBVIOUS
    <3>2. InHand(u, k) /\ Proper(k) /\ k \in Requests
      BY <1>1, <2>1, <2>2, <3>1 DEF Alone, ServerRight
    <3>3. ASSUME k.o # 0 PROVE r_objs'[k.o].priv = r_objs[k.o].priv
      <4>1. k.o \in Ranks!ObjIds /\ r_tasks'[s].o = k.o
        BY <1>9, <3>1, <3>2, <3>3 DEF Requests
      <4>2. Referred(k.o)'
        BY <4>1 DEF Referred
      <4>3. r_objs'[k.o] = new[k.o]
        BY <1>10, <4>1, <4>2 DEF Kept
      <4>4. QED
        BY <1>7, <1>8, <4>1, <4>3
    <3>4. InHand(u, k)'
      <4>1. k.op \in {"login", "submit", "restrict", "unrestrict"} => k.o # 0
        BY <3>2 DEF Proper
      <4>2. r_rows' = r_rows /\ k.op # "login"
        BY <1>2, <1>3, <1>9, <3>2 DEF InHand
      <4>3. QED
        BY <1>12, <3>2, <3>3, <4>1, <4>2 DEF InHand, Listed
    <3>5. QED
      BY <1>9, <3>1, <3>4
  <2>3. \A s \in Tasks : r_tasks'[s].u = u => InHand(u, r_tasks[s])'
    BY <1>9, <2>2
  <2>4. Hides(u)'
    BY <1>9, <2>1 DEF Alone, Hides
  <2>5. (r_rebuild.pc # "idle" => ~Ranks!Busy(u))'
    BY <1>9, <2>1 DEF Alone, Ranks!Busy
  <2>6. QED
    BY <1>9, <1>12, <2>1, <2>3, <2>4, <2>5 DEF Alone
<1>16. QED
  BY <1>13, <1>14, <1>15, RequestActs

-----------------------------------------------------------------------------
(* The steps of the rebuild.                                               *)

\* A set of numbers has a least one, and a greatest when it has a bound.
LEMMA Least ==
  ASSUME NEW T, T \subseteq Nat, T # {} PROVE \E x \in T : \A y \in T : x <= y
<1>1. PICK R : R = OpToRel(<, Nat)
  OBVIOUS
<1>2. IsWellFoundedOn(R, Nat)
  BY <1>1, NatLessThanWellFounded
<1>3. PICK x \in T : \A y \in T : <<y, x>> \notin R
  BY <1>2, WFMin
<1>4. \A k, l \in Nat : <<l, k>> \in R <=> l < k
  BY <1>1 DEF OpToRel
<1>5. x \in Nat /\ \A y \in T : y \in Nat /\ ~(y < x)
  BY <1>3, <1>4
<1>6. \A y \in T : x <= y
  BY <1>5
<1>7. QED
  BY <1>6

LEMMA Greatest ==
  ASSUME NEW T, T \subseteq 1 .. NRanked, T # {} PROVE \E x \in T : \A y \in T : y <= x
<1>1. NRanked \in Nat /\ T \subseteq Nat /\ \A y \in T : y # 0
  BY RanksAssumption
<1>2. PICK Bounds : Bounds = {n \in Nat : \A y \in T : y <= n}
  OBVIOUS
<1>3. NRanked \in Bounds /\ Bounds \subseteq Nat
  BY <1>1, <1>2
<1>4. PICK n \in Bounds : \A m \in Bounds : n <= m
  BY <1>3, Least
<1>5. PICK some \in T : TRUE
  OBVIOUS
<1>6. n \in Nat /\ n # 0 /\ \A y \in T : y <= n
  BY <1>1, <1>2, <1>4, <1>5
<1>7. CASE n \in T
  BY <1>6, <1>7
<1>8. CASE n \notin T
  <2>1. n - 1 \in Nat /\ ~(n <= n - 1)
    BY <1>6
  <2>2. \A y \in T : y <= n - 1
    BY <1>1, <1>6, <1>8
  <2>3. n - 1 \in Bounds
    BY <1>2, <2>1, <2>2
  <2>4. QED
    BY <1>4, <2>1, <2>3
<1>9. QED
  BY <1>7, <1>8

\* A page holds the first rows of the rest: whoever is left out comes after
\* everybody in it, and only when it is full.
Rest(after) == {v \in Ranks!Users : Ranks!IsRanked(r_rows[v]) /\ v > after}
Page(after) == Ranks!fetch_ranked_pp_for_mode(BatchSize, after)
LEMMA PageIsFirst ==
  ASSUME NEW after \in Nat, NEW u \in Rest(after), u \notin Page(after)
  PROVE  /\ ~(Cardinality(Page(after)) < BatchSize)
         /\ \A v \in Page(after) : v < u
<1>1. PICK rest, page : rest = Rest(after) /\ page = Page(after)
  OBVIOUS
<1> DEFINE Before(x) == {v \in rest : v < x}
<1>2. page = {x \in rest : Cardinality(Before(x)) < BatchSize}
  BY <1>1 DEF Page, Rest, Ranks!fetch_ranked_pp_for_mode, Ranks!Cardinality, Cardinality
<1>3. \A x \in rest : x \in page <=> Cardinality(Before(x)) < BatchSize
  BY <1>2
<1>4. IsFiniteSet(rest) /\ rest \subseteq Nat /\ BatchSize \in Nat /\ page \subseteq rest
  <2>1. NRanked \in Nat /\ BatchSize \in Nat
    BY RanksAssumption
  <2>2. rest \subseteq 1 .. NRanked
    BY <1>1 DEF Rest, Ranks!Users
  <2>3. IsFiniteSet(1 .. NRanked)
    BY <2>1, FS_Interval
  <2>4. IsFiniteSet(rest)
    BY <2>2, <2>3, FS_Subset
  <2>5. QED
    BY <1>2, <2>1, <2>2, <2>4
<1>5. ASSUME NEW x \in rest
      PROVE  IsFiniteSet(Before(x)) /\ Cardinality(Before(x)) \in Nat
  BY <1>4, FS_Subset, FS_CardinalityType
<1>6. \A x, v : v \in Before(x) <=> v \in rest /\ v < x
  OBVIOUS
<1> HIDE DEF Before
<1>7. ASSUME NEW x \in rest, NEW y \in rest, x < y, y \in page
      PROVE  x \in page
  <2>1. x \in Nat /\ y \in Nat
    BY <1>4
  <2>2. Before(x) \subseteq Before(y)
    <3>1. ASSUME NEW v \in Before(x) PROVE v \in Before(y)
      <4>1. v \in rest /\ v \in Nat /\ v < x
        BY <1>4, <1>6
      <4>2. v < y
        BY <1>7, <2>1, <4>1
      <4>3. QED
        BY <1>6, <4>1, <4>2
    <3>2. QED
      BY <3>1
  <2>3. Cardinality(Before(x)) <= Cardinality(Before(y))
    BY <1>5, <2>2, FS_Subset
  <2>4. Cardinality(Before(y)) < BatchSize
    BY <1>3, <1>7
  <2>5. Cardinality(Before(x)) \in Nat /\ Cardinality(Before(y)) \in Nat
    BY <1>5
  <2>6. Cardinality(Before(x)) < BatchSize
    BY <1>4, <2>3, <2>4, <2>5
  <2>7. QED
    BY <1>3, <2>6
<1>8. ASSUME NEW v \in page, NEW x \in rest, x \notin page PROVE v < x
  <2>1. v \in rest /\ v \in Nat /\ x \in Nat /\ v # x
    BY <1>4, <1>8
  <2>2. ~(x < v)
    BY <1>7, <1>8, <2>1
  <2>3. QED
    BY <2>1, <2>2
<1>9. u \in rest \ page
  BY <1>1
<1>10. PICK first \in rest \ page : \A x \in rest \ page : first <= x
  <2>1. rest \ page \subseteq Nat /\ rest \ page # {}
    BY <1>4, <1>9
  <2>2. QED
    BY <2>1, Least
<1>11. \A v \in rest : v \in page <=> v < first
  <2>1. ASSUME NEW v \in rest, v < first PROVE v \in page
    <3>1. v \in Nat /\ first \in Nat
      BY <1>4
    <3>2. ~(first <= v)
      BY <2>1, <3>1
    <3>3. QED
      BY <1>10, <3>2
  <2>2. QED
    BY <1>8, <2>1
<1>12. page = Before(first)
  BY <1>4, <1>6, <1>11
<1>13. ~(Cardinality(page) < BatchSize)
  BY <1>3, <1>12
<1>14. QED
  BY <1>1, <1>8, <1>9, <1>13

\* There is no page only when there is no row.
LEMMA PageIsThere ==
  ASSUME NEW after \in Nat, Page(after) = {} PROVE Rest(after) = {}
<1>1. SUFFICES ASSUME NEW u \in Rest(after) PROVE FALSE
  OBVIOUS
<1>2. ~(Cardinality(Page(after)) < BatchSize)
  BY PageIsFirst
<1>3. QED
  BY <1>2, FS_EmptySet, RanksAssumption

\* Steps that leave the server's tables and objects alone.
LEMMA ServerUntouched ==
  ASSUME ServerRight, UNCHANGED <<r_rows, r_objs, r_online, r_tasks>>,
         r_board' \in [Ranks!Boards -> [Ranks!Users -> Int]]
  PROVE  ServerRight'
BY DEF ServerRight, Owned, Collected, Referred
LEMMA AloneUntouched ==
  ASSUME NEW u \in Ranks!Users, Alone(u), UNCHANGED <<r_rows, r_objs, r_online, r_tasks>>,
         r_rebuild'.pc # "idle" => ~Ranks!Busy(u), Hides(u)'
  PROVE  Alone(u)'
<1>1. Ranks!Busy(u)' <=> Ranks!Busy(u)
  BY DEF Ranks!Busy
<1>2. \A t \in Tasks : r_tasks[t].u = u => InHand(u, r_tasks[t])'
  BY DEF Alone, InHand, Listed
<1>3. QED
  BY <1>1, <1>2 DEF Alone

\* What there is when there is no rebuild.
LEMMA NothingStaged ==
  /\ Ranks!EmptySet \in [Ranks!Users -> Int] /\ \A u \in Ranks!Users : Ranks!EmptySet[u] = -1
  /\ Ranks!NoRebuild \in [pc : {"idle", "fetch", "stage", "commit"}, touched : SUBSET Ranks!Boards,
                          after : Nat, batch : [Ranks!Users -> Int],
                          where : [Ranks!Users -> Countries \cup {"global"}], boot : BOOLEAN]
  /\ Ranks!NoRebuild.pc = "idle" /\ Ranks!NoRebuild.batch = Ranks!EmptySet
  /\ Ranks!NoRebuild.after = 0
<1>1. /\ Ranks!EmptySet \in [Ranks!Users -> Int] /\ \A u \in Ranks!Users : Ranks!EmptySet[u] = -1
  BY DEF Ranks!EmptySet, Ranks!Absent
<1>2. [u \in Ranks!Users |-> Ranks!Global] \in [Ranks!Users -> Countries \cup {"global"}]
  BY DEF Ranks!Global
<1>3. QED
  BY <1>1, <1>2 DEF Ranks!NoRebuild

LEMMA StartKeeps ==
  ASSUME RanksInv, NEW boot \in BOOLEAN, r_rebuild.pc = "idle", Ranks!StartRebuild(boot)
  PROVE  RanksInv'
<1>1. ServerRight /\ Rebuilding
  BY DEF RanksInv
<1>2. PICK ranked : ranked = {u \in Ranks!Users : Ranks!IsRanked(r_rows[u])}
  OBVIOUS
<1>3. PICK next : next = [Ranks!NoRebuild EXCEPT !.pc = "fetch",
                            !.touched = Ranks!fetch_existing_keys, !.boot = boot]
  OBVIOUS
<1>4. /\ r_rebuild' = next /\ r_steady' = ranked /\ r_seen' = ranked
      /\ r_mixed' = r_mixed \cup {u \in Ranks!Users : Ranks!Busy(u)}
      /\ UNCHANGED <<r_rows, r_objs, r_online, r_tasks, r_board, r_staged, r_killed>>
  BY <1>2, <1>3 DEF Ranks!StartRebuild
<1>5. /\ next \in [pc : {"idle", "fetch", "stage", "commit"}, touched : SUBSET Ranks!Boards,
                   after : Nat, batch : [Ranks!Users -> Int],
                   where : [Ranks!Users -> Countries \cup {"global"}], boot : BOOLEAN]
      /\ next.pc = "fetch" /\ next.touched = Ranks!fetch_existing_keys /\ next.after = 0
      /\ next.batch = Ranks!EmptySet
  <2>1. Ranks!fetch_existing_keys \in SUBSET Ranks!Boards
    BY DEF Ranks!fetch_existing_keys, Ranks!Boards
  <2>2. QED
    BY <1>3, <2>1, NothingStaged
<1>6. "global" \in next.touched
  BY <1>5 DEF Ranks!fetch_existing_keys, Ranks!Global
<1>7. ServerRight'
  BY <1>1, <1>4, ServerUntouched DEF ServerRight
<1>8. Rebuilding'
  BY <1>1, <1>4, <1>5, <1>6 DEF Rebuilding
<1>9. ASSUME NEW u \in Ranks!Users PROVE Adds(u)'
  <2>1. r_killed \/ r_staged["global"][u] = -1
    BY DEF RanksInv, Adds
  <2>2. next.batch[u] = -1 /\ ~(u <= 0) /\ (Ranks!IsRanked(r_rows[u]) <=> u \in ranked)
    BY <1>2, <1>5, NothingStaged, IdsAreNumbers DEF UserIds
  <2>3. QED
    BY <1>4, <1>5, <2>1, <2>2 DEF Adds
<1>10. ASSUME NEW u \in Ranks!Users \ r_mixed' PROVE Alone(u)'
  <2>1. Alone(u) /\ ~Ranks!Busy(u)
    BY <1>4 DEF RanksInv
  <2>2. Hides(u)'
    BY <1>4, <2>1 DEF Alone, Hides
  <2>3. QED
    BY <1>4, <2>1, <2>2, AloneUntouched
<1>11. QED
  BY <1>2, <1>4, <1>7, <1>8, <1>9, <1>10 DEF RanksInv

LEMMA FetchKeeps ==
  ASSUME RanksInv, Ranks!RebuildFetch PROVE RanksInv'
<1>1. ServerRight /\ Rebuilding
  BY DEF RanksInv
<1>2. PICK after, page : after = r_rebuild.after /\ page = Page(after)
  OBVIOUS
<1>3. PICK batch, where :
        /\ batch = [u \in Ranks!Users |-> IF u \in page THEN r_rows[u].pp ELSE -1]
        /\ where = [u \in Ranks!Users |-> IF u \in page THEN r_rows[u].country ELSE "global"]
  OBVIOUS
<1>4. /\ r_rebuild.pc = "fetch"
      /\ r_rebuild' = IF page = {} THEN [r_rebuild EXCEPT !.pc = "commit"]
                      ELSE [r_rebuild EXCEPT !.pc = "stage", !.batch = batch, !.where = where]
      /\ UNCHANGED <<r_rows, r_objs, r_online, r_tasks, r_board, r_staged, r_steady, r_seen,
                     r_mixed, r_killed>>
  BY <1>2, <1>3 DEF Ranks!RebuildFetch, Ranks!ghosts, Page, Ranks!Absent, Ranks!Global
<1>5. page \subseteq Rest(after) /\ after \in Nat /\ Rest(after) \subseteq Ranks!Users
  BY <1>1, <1>2 DEF Page, Rest, Ranks!fetch_ranked_pp_for_mode, Rebuilding
<1>6. \A u \in Ranks!Users : r_rows[u].pp \in Nat /\ r_rows[u].country \in Countries
  BY <1>1 DEF ServerRight, UserRow
<1>7. batch \in [Ranks!Users -> Int] /\ where \in [Ranks!Users -> Countries \cup {"global"}]
  BY <1>3, <1>6
<1>8. \A u \in Ranks!Users : u \in page <=> batch[u] # -1
  BY <1>3, <1>6
<1>9. ServerRight'
  BY <1>1, <1>4, ServerUntouched DEF ServerRight
<1>10. ASSUME NEW u \in Ranks!Users \ r_mixed' PROVE Alone(u)'
  <2>1. Alone(u)
    BY <1>4 DEF RanksInv
  <2>2. Hides(u)' /\ ~Ranks!Busy(u)
    BY <1>4, <2>1 DEF Alone, Hides
  <2>3. QED
    BY <1>4, <2>1, <2>2, AloneUntouched
<1>11. CASE page = {}
  <2>1. /\ r_rebuild' = [r_rebuild EXCEPT !.pc = "commit"]
    BY <1>4, <1>11
  <2>2. /\ r_rebuild'.pc = "commit" /\ r_rebuild'.after = after
        /\ r_rebuild'.batch = r_rebuild.batch /\ r_rebuild'.touched = r_rebuild.touched
    BY <1>1, <1>2, <2>1 DEF Rebuilding
  <2>3. Rebuilding'
    BY <1>1, <1>4, <2>1, <2>2 DEF Rebuilding
  <2>4. Rest(after) = {}
    BY <1>2, <1>5, <1>11, PageIsThere
  <2>5. ASSUME NEW u \in Ranks!Users PROVE Adds(u)'
    <3>1. Adds(u)
      BY DEF RanksInv
    <3>2. Ranks!IsRanked(r_rows[u]) => u <= after
      BY <1>5, <2>4, IdsAreNumbers DEF Rest, UserIds
    <3>3. r_rebuild.batch[u] = -1
      BY <1>4, <3>1 DEF Adds
    <3>4. QED
      BY <1>2, <1>4, <2>2, <3>1, <3>2, <3>3 DEF Adds
  <2>6. QED
    BY <1>4, <1>9, <1>10, <2>3, <2>5 DEF RanksInv
<1>12. CASE page # {}
  <2>1. r_rebuild' = [r_rebuild EXCEPT !.pc = "stage", !.batch = batch, !.where = where]
    BY <1>4, <1>12
  <2>2. /\ r_rebuild'.pc = "stage" /\ r_rebuild'.after = after /\ r_rebuild'.batch = batch
        /\ r_rebuild'.touched = r_rebuild.touched
    BY <1>1, <1>2, <2>1 DEF Rebuilding
  <2>3. Ranks!Batch' = page
    BY <1>5, <1>8, <2>2 DEF Ranks!Batch, Ranks!Absent
  <2>4. Rebuilding'
    <3>1. r_rebuild' \in [pc : {"idle", "fetch", "stage", "commit"}, touched : SUBSET Ranks!Boards,
                          after : Nat, batch : [Ranks!Users -> Int],
                          where : [Ranks!Users -> Countries \cup {"global"}], boot : BOOLEAN]
      BY <1>1, <1>7, <2>1 DEF Rebuilding
    <3>2. QED
      BY <1>1, <1>4, <1>12, <2>2, <2>3, <3>1 DEF Rebuilding
  <2>5. ASSUME NEW u \in Ranks!Users PROVE Adds(u)'
    <3>1. Adds(u)
      BY DEF RanksInv
    <3>2. u \in page => Ranks!IsRanked(r_rows[u])
      BY <1>5 DEF Rest
    <3>3. Ranks!IsRanked(r_rows[u]) /\ u > after /\ u \notin page =>
            ~(Cardinality(page) < BatchSize) /\ \A v \in page : v < u
      BY <1>2, <1>5, PageIsFirst DEF Rest
    <3>4. Ranks!Cardinality(page) = Cardinality(page)
      BY DEF Ranks!Cardinality, Cardinality
    <3>5. QED
      BY <1>2, <1>4, <1>8, <2>2, <2>3, <3>1, <3>2, <3>3, <3>4 DEF Adds
  <2>6. QED
    BY <1>4, <1>9, <1>10, <2>4, <2>5 DEF RanksInv
<1>13. QED
  BY <1>11, <1>12

LEMMA RebuildStageKeeps ==
  ASSUME RanksInv, Ranks!RebuildStage PROVE RanksInv'
<1>1. ServerRight /\ Rebuilding
  BY DEF RanksInv
<1>2. PICK Batch, last : Batch = Ranks!Batch
                         /\ last = CHOOSE u \in Batch : \A v \in Batch : v <= u
  OBVIOUS
<1>3. r_rebuild.pc = "stage" /\ Batch # {} /\ Batch \subseteq Ranks!Users
  BY <1>1, <1>2 DEF Ranks!RebuildStage, Rebuilding, Ranks!Batch
<1>4. last \in Batch /\ (\A v \in Batch : v <= last) /\ last \in Nat
  <2>1. \E u \in Batch : \A v \in Batch : v <= u
    BY <1>3, Greatest DEF Ranks!Users
  <2>2. last \in Batch /\ \A v \in Batch : v <= last
    BY <1>2, <2>1
  <2>3. QED
    BY <1>3, <2>2, IdsAreNumbers DEF UserIds
<1>5. PICK next : next = [r_rebuild EXCEPT
                            !.pc = IF Cardinality(Batch) < BatchSize THEN "commit" ELSE "fetch",
                            !.touched = r_rebuild.touched \cup {r_rebuild.where[u] : u \in Batch},
                            !.after = last, !.batch = Ranks!EmptySet,
                            !.where = Ranks!NoRebuild.where]
  OBVIOUS
<1>6. /\ r_rebuild' = next
      /\ UNCHANGED <<r_rows, r_objs, r_online, r_tasks, r_board, r_steady, r_seen, r_mixed, r_killed>>
      /\ r_staged' = [c \in Ranks!Boards |-> [u \in Ranks!Users |->
                        IF u \in Batch /\ c \in {"global", r_rebuild.where[u]}
                        THEN r_rebuild.batch[u] ELSE r_staged[c][u]]]
  BY <1>2, <1>5 DEF Ranks!RebuildStage, Ranks!ghosts, Ranks!Cardinality, Cardinality, Ranks!Global
<1>7. r_staged' \in [Ranks!Boards -> [Ranks!Users -> Int]]
  BY <1>1, <1>6 DEF Rebuilding
<1>8. \A u \in Ranks!Users : r_staged'["global"][u] = IF u \in Batch THEN r_rebuild.batch[u]
                                                      ELSE r_staged["global"][u]
  BY <1>6, IdsAreNumbers
<1>9. \A u \in Ranks!Users : u \in Batch <=> r_rebuild.batch[u] # -1
  BY <1>2 DEF Ranks!Batch, Ranks!Absent
<1>10. /\ next \in [pc : {"idle", "fetch", "stage", "commit"}, touched : SUBSET Ranks!Boards,
                    after : Nat, batch : [Ranks!Users -> Int],
                    where : [Ranks!Users -> Countries \cup {"global"}], boot : BOOLEAN]
       /\ next.pc = (IF Cardinality(Batch) < BatchSize THEN "commit" ELSE "fetch")
       /\ next.after = last /\ next.batch = Ranks!EmptySet
       /\ r_rebuild.touched \subseteq next.touched
  <2>1. Ranks!NoRebuild.where \in [Ranks!Users -> Countries \cup {"global"}]
    BY NothingStaged
  <2>2. {r_rebuild.where[u] : u \in Batch} \in SUBSET Ranks!Boards
    BY <1>1, <1>3 DEF Rebuilding, Ranks!Boards, Ranks!Global
  <2>3. QED
    BY <1>1, <1>4, <1>5, <2>1, <2>2, NothingStaged DEF Rebuilding
<1>11. ServerRight'
  BY <1>1, <1>6, ServerUntouched DEF ServerRight
<1>12. Rebuilding'
  BY <1>1, <1>3, <1>6, <1>7, <1>10 DEF Rebuilding
<1>13. ASSUME NEW u \in Ranks!Users \ r_mixed' PROVE Alone(u)'
  <2>1. Alone(u)
    BY <1>6 DEF RanksInv
  <2>2. Hides(u)' /\ ~Ranks!Busy(u)
    BY <1>3, <1>6, <2>1 DEF Alone, Hides
  <2>3. QED
    BY <1>6, <2>1, <2>2, AloneUntouched
<1>14. ASSUME NEW u \in Ranks!Users PROVE Adds(u)'
  <2>1. Adds(u) /\ u \in Nat
    BY IdsAreNumbers DEF RanksInv, UserIds
  <2>2. r_rebuild'.batch[u] = -1 /\ r_rebuild'.pc \in {"commit", "fetch"} /\ r_rebuild'.after = last
    BY <1>6, <1>10, NothingStaged
  <2>3. ASSUME ~r_killed, r_staged'["global"][u] # -1
        PROVE  u \in r_seen /\ (u \notin r_mixed => Ranks!IsRanked(r_rows[u]))
    BY <1>8, <1>9, <2>1, <2>3 DEF Adds
  <2>4. ASSUME u \in r_steady, r_rebuild'.pc = "commit" \/ u <= last
        PROVE  r_staged'["global"][u] # -1
    <3>1. CASE u \in Batch
      BY <1>8, <1>9, <3>1
    <3>2. CASE u \notin Batch /\ u <= r_rebuild.after
      BY <1>8, <2>1, <2>4, <3>2 DEF Adds
    <3>3. CASE u \notin Batch /\ ~(u <= r_rebuild.after)
      <4>1. r_rebuild.after \in Nat
        BY <1>1 DEF Rebuilding
      <4>2. ~(Cardinality(Batch) < BatchSize) /\ \A v \in Batch : v < u
        BY <1>2, <1>3, <1>9, <2>1, <2>4, <3>3, <4>1 DEF Adds, Ranks!Cardinality, Cardinality
      <4>3. last < u /\ r_rebuild'.pc = "fetch"
        BY <1>4, <1>6, <1>10, <4>2
      <4>4. QED
        BY <1>4, <2>1, <2>4, <4>3
    <3>4. QED
      BY <3>1, <3>2, <3>3
  <2>5. /\ Ranks!IsRanked(r_rows[u]) => u \in r_seen
        /\ u \in r_steady => Ranks!IsRanked(r_rows[u])
    BY <1>3, <2>1 DEF Adds
  <2>6. QED
    BY <1>6, <2>2, <2>3, <2>4, <2>5 DEF Adds
<1>15. QED
  BY <1>6, <1>11, <1>12, <1>13, <1>14 DEF RanksInv

\* A rebuild that ends: what it touched is not staged any more.
Ends ==
  /\ r_rebuild.pc # "idle" /\ r_rebuild' = Ranks!NoRebuild
  /\ r_staged' = Ranks!discard_staging(r_rebuild.touched)
  /\ r_steady' = {} /\ r_seen' = {}
  /\ UNCHANGED <<r_rows, r_objs, r_online, r_tasks, r_mixed, r_killed>>
LEMMA EndsKeeps ==
  ASSUME RanksInv, Ends, r_board' \in [Ranks!Boards -> [Ranks!Users -> Int]],
         r_board'["global"] = r_board["global"] \/ r_board'["global"] = r_staged["global"]
  PROVE  RanksInv'
<1>1. ServerRight /\ Rebuilding
  BY DEF RanksInv
<1>2. ServerRight'
  BY <1>1, ServerUntouched DEF Ends
<1>3. /\ r_staged' \in [Ranks!Boards -> [Ranks!Users -> Int]]
      /\ \A u \in Ranks!Users : r_staged'["global"][u] = -1
  <2>1. "global" \in r_rebuild.touched /\ "global" \in Ranks!Boards
    BY <1>1, IdsAreNumbers DEF Rebuilding, Ends
  <2>2. r_staged' = [c \in Ranks!Boards |-> IF c \in r_rebuild.touched THEN Ranks!EmptySet
                                           ELSE r_staged[c]]
    BY DEF Ends, Ranks!discard_staging
  <2>3. QED
    BY <1>1, <2>1, <2>2, NothingStaged DEF Rebuilding
<1>4. Rebuilding'
  BY <1>3, NothingStaged DEF Rebuilding, Ends
<1>5. ASSUME NEW u \in Ranks!Users PROVE Adds(u)'
  BY <1>3, NothingStaged DEF Adds, Ends
<1>6. ASSUME NEW u \in Ranks!Users \ r_mixed' PROVE Alone(u)'
  <2>1. Alone(u) /\ Adds(u) /\ ~Ranks!Busy(u)
    BY DEF RanksInv, Ends, Alone
  <2>2. Hides(u)'
    <3>1. CASE r_board'["global"] = r_board["global"]
      BY <2>1, <3>1 DEF Alone, Hides, Ends
    <3>2. CASE r_board'["global"] = r_staged["global"]
      <4>1. r_killed \/ r_board'["global"][u] = -1 \/ Ranks!IsRanked(r_rows[u])
        BY <1>6, <2>1, <3>2 DEF Adds, Ends
      <4>2. Ranks!IsRanked(r_rows[u]) => Free(r_rows[u].priv)
        BY DEF Ranks!IsRanked, Ranks!Privileges, Ranks!Unrestricted, Free
      <4>3. QED
        BY <4>1, <4>2 DEF Hides, Ends
    <3>3. QED
      BY <3>1, <3>2
  <2>3. QED
    BY <2>1, <2>2, AloneUntouched, NothingStaged DEF Ends
<1>7. QED
  BY <1>2, <1>4, <1>5, <1>6 DEF RanksInv, Ends

LEMMA CommitKeeps ==
  ASSUME RanksInv, Ranks!RebuildCommit PROVE RanksInv' /\ Ranks!CommitIsExact
<1>1. ServerRight /\ Rebuilding /\ r_rebuild.pc = "commit"
  BY DEF RanksInv, Ranks!RebuildCommit
<1>2. "global" \in r_rebuild.touched /\ "global" \in Ranks!Boards
  BY <1>1, IdsAreNumbers DEF Rebuilding
<1>3. r_board' = [c \in Ranks!Boards |-> IF c \in r_rebuild.touched THEN r_staged[c] ELSE r_board[c]]
  BY DEF Ranks!RebuildCommit
<1>4. /\ r_board' \in [Ranks!Boards -> [Ranks!Users -> Int]]
      /\ r_board'["global"] = r_staged["global"]
  BY <1>1, <1>2, <1>3 DEF ServerRight, Rebuilding
<1>5. Ends
  BY <1>1 DEF Ranks!RebuildCommit, Ranks!Forget, Ends
<1>6. RanksInv'
  BY <1>4, <1>5, EndsKeeps
<1>7. ASSUME NEW u \in Ranks!Users
      PROVE  /\ u \in r_steady => r_board'["global"][u] # -1
             /\ ~r_killed /\ r_board'["global"][u] # -1 => u \in r_seen
  BY <1>1, <1>4 DEF RanksInv, Adds
<1>8. Ranks!CommitIsExact
  BY <1>7 DEF Ranks!CommitIsExact, RanksInv, Ranks!Global, Ranks!Absent
<1>9. QED
  BY <1>6, <1>8

LEMMA FailsKeeps ==
  ASSUME RanksInv, Ranks!RebuildFails PROVE RanksInv'
<1>1. Ends /\ r_board' = r_board
  BY DEF Ranks!RebuildFails, Ranks!Forget, Ends
<1>2. r_board' \in [Ranks!Boards -> [Ranks!Users -> Int]]
  BY <1>1 DEF RanksInv, ServerRight
<1>3. QED
  BY <1>1, <1>2, EndsKeeps

LEMMA KilledKeeps ==
  ASSUME RanksInv, Ranks!RebuildKilled PROVE RanksInv'
<1>1. ServerRight /\ Rebuilding
  BY DEF RanksInv
<1>2. /\ r_rebuild.pc # "idle" /\ r_rebuild' = Ranks!NoRebuild
      /\ r_steady' = {} /\ r_seen' = {} /\ r_killed' = TRUE
      /\ UNCHANGED <<r_rows, r_objs, r_online, r_tasks, r_board, r_staged, r_mixed>>
  BY DEF Ranks!RebuildKilled
<1>3. ServerRight'
  BY <1>1, <1>2, ServerUntouched DEF ServerRight
<1>4. Rebuilding'
  BY <1>1, <1>2, NothingStaged DEF Rebuilding
<1>5. ASSUME NEW u \in Ranks!Users PROVE Adds(u)'
  BY <1>2, NothingStaged DEF Adds
<1>6. ASSUME NEW u \in Ranks!Users \ r_mixed' PROVE Alone(u)'
  <2>1. Alone(u) /\ ~Ranks!Busy(u)
    BY <1>2 DEF RanksInv, Alone
  <2>2. Hides(u)'
    BY <1>2 DEF Hides
  <2>3. QED
    BY <1>2, <2>1, <2>2, AloneUntouched
<1>7. QED
  BY <1>2, <1>3, <1>4, <1>5, <1>6 DEF RanksInv

LEMMA RedisLossKeeps ==
  ASSUME RanksInv, Ranks!RedisLoss PROVE RanksInv'
<1>1. ServerRight /\ Rebuilding
  BY DEF RanksInv
<1>2. /\ r_board' = [c \in Ranks!Boards |-> Ranks!EmptySet] /\ r_staged' = r_board'
      /\ r_steady' = {}
      /\ UNCHANGED <<r_rows, r_objs, r_online, r_tasks, r_rebuild, r_seen, r_mixed, r_killed>>
  BY DEF Ranks!RedisLoss
<1>3. /\ r_board' \in [Ranks!Boards -> [Ranks!Users -> Int]]
      /\ \A u \in Ranks!Users : r_board'["global"][u] = -1 /\ r_staged'["global"][u] = -1
  BY <1>2, NothingStaged, IdsAreNumbers
<1>4. ServerRight'
  BY <1>1, <1>2, <1>3, ServerUntouched
<1>5. Rebuilding'
  BY <1>1, <1>2, <1>3 DEF Rebuilding, Ranks!Batch
<1>6. ASSUME NEW u \in Ranks!Users PROVE Adds(u)'
  <2>1. Adds(u)
    BY DEF RanksInv
  <2>2. QED
    BY <1>2, <1>3, <2>1 DEF Adds
<1>7. ASSUME NEW u \in Ranks!Users \ r_mixed' PROVE Alone(u)'
  <2>1. Alone(u) /\ (r_rebuild'.pc # "idle" => ~Ranks!Busy(u))
    BY <1>2 DEF RanksInv, Alone
  <2>2. Hides(u)'
    BY <1>3 DEF Hides
  <2>3. QED
    BY <1>2, <2>1, <2>2, AloneUntouched
<1>8. QED
  BY <1>2, <1>4, <1>5, <1>6, <1>7 DEF RanksInv

LEMMA RestartKeeps ==
  ASSUME RanksInv, Ranks!Restart PROVE RanksInv'
<1>1. ServerRight /\ Rebuilding
  BY DEF RanksInv
<1>2. /\ r_rebuild.pc = "idle"
      /\ r_online' = [u \in Ranks!Users |-> 0] /\ r_tasks' = [t \in Tasks |-> Ranks!NoTask]
      /\ r_objs' = [o \in Ranks!ObjIds |-> Ranks!NoObj]
      /\ r_mixed' = r_mixed \cup {u \in Ranks!Users : Ranks!Busy(u)}
      /\ UNCHANGED <<r_rows, r_board, r_staged, r_rebuild, r_steady, r_seen, r_killed>>
  BY DEF Ranks!Restart, Ranks!Nothing
<1>3. \A o \in Ranks!ObjIds : ~Referred(o)'
  BY <1>2, NoTaskIsProper, IdsAreNumbers DEF Referred, ObjectIds
<1>4. Ranks!NoObj \in PlayerObj
  BY DEF Ranks!NoObj, PlayerObj, Ranks!Global
<1>5. Collected'
  BY <1>2, <1>3 DEF Collected
<1>6. \E owner : Owned(owner)'
  <2>1. PICK owner : Owned(owner)
    BY <1>1 DEF ServerRight
  <2>2. Owned(owner)'
    BY <1>2, <2>1, NoTaskIsProper DEF Owned
  <2>3. QED
    BY <2>2
<1>7. ServerRight'
  <2>1. \A t \in Tasks : r_tasks'[t] = Ranks!NoTask /\ Proper(r_tasks'[t])
    BY <1>2, NoTaskIsProper
  <2>2. r_tasks' \in [Tasks -> Requests]
    BY <1>2, NoTaskIsProper DEF Proper
  <2>3. QED
    BY <1>1, <1>2, <1>4, <1>5, <1>6, <2>1, <2>2 DEF ServerRight
<1>8. AddsAll'
  BY <1>2, RebuildGoesOn, AddsAllHolds DEF Restful
<1>9. ASSUME NEW u \in Ranks!Users \ r_mixed' PROVE Alone(u)'
  <2>1. Alone(u) /\ ~Ranks!Busy(u)
    BY <1>2 DEF RanksInv
  <2>2. \A t \in Tasks : r_tasks'[t].u # u
    BY <1>2, NoTaskIsProper, IdsAreNumbers DEF UserIds
  <2>3. Hides(u)'
    BY <1>2, <2>1 DEF Alone, Hides, Ranks!Busy
  <2>4. QED
    BY <1>2, <2>2, <2>3 DEF Alone, Ranks!Busy
<1>10. QED
  BY <1>7, <1>8, <1>9 DEF RanksInv, AddsAll

\* A step that leaves all this alone.
Untouched == UNCHANGED <<r_rows, r_objs, r_online, r_tasks, r_board, r_staged, r_rebuild,
                         r_steady, r_seen, r_mixed, r_killed>>
LEMMA UntouchedKeeps ==
  ASSUME RanksInv, Untouched PROVE RanksInv'
<1>1. ServerRight'
  BY ServerUntouched DEF RanksInv, ServerRight, Untouched
<1>2. AddsAll'
  BY RebuildGoesOn, AddsAllHolds DEF Restful, Untouched
<1>3. ASSUME NEW u \in Ranks!Users \ r_mixed' PROVE Alone(u)'
  <2>1. Alone(u)
    BY DEF RanksInv, Untouched
  <2>2. Hides(u)' /\ (r_rebuild'.pc # "idle" => ~Ranks!Busy(u))
    BY <2>1 DEF Alone, Hides, Untouched
  <2>3. QED
    BY <2>1, <2>2, AloneUntouched DEF Untouched
<1>4. QED
  BY <1>1, <1>2, <1>3 DEF RanksInv, AddsAll

LEMMA BootKeeps ==
  ASSUME RanksInv, Ranks!Boot PROVE RanksInv'
<1>1. CASE Ranks!StartRebuild(TRUE)
  BY <1>1, StartKeeps DEF Ranks!Boot
<1>2. CASE Untouched
  BY <1>2, UntouchedKeeps
<1>3. QED
  BY <1>1, <1>2 DEF Ranks!Boot, Ranks!ghosts, Untouched

-----------------------------------------------------------------------------
LEMMA RanksStart ==
  ASSUME Ranks!Init PROVE RanksInv
<1>1. /\ r_rows \in [Ranks!Users -> [priv : {{"unrestricted"}, {"unrestricted", "verified"}},
                                    country : {HomeCountry}, pp : 0 .. 1]]
      /\ r_objs = [o \in Ranks!ObjIds |-> Ranks!NoObj]
      /\ r_online = [u \in Ranks!Users |-> 0]
      /\ r_tasks = [t \in Tasks |-> Ranks!NoTask]
      /\ r_staged = [c \in Ranks!Boards |-> Ranks!EmptySet]
      /\ r_rebuild = Ranks!NoRebuild /\ r_steady = {} /\ r_seen = {}
  BY DEF Ranks!Init, Ranks!Privileges, Ranks!Unrestricted, Ranks!Verified, Ranks!Nothing
<1>2. r_rows \in [Ranks!Users -> UserRow] /\ \A u \in Ranks!Users : Free(r_rows[u].priv)
  BY <1>1, RanksAssumption DEF UserRow, Free, Ranks!Privileges, Ranks!Unrestricted, Ranks!Verified
<1>3. r_board \in [Ranks!Boards -> [Ranks!Users -> Int]]
  <2>1. PICK on : on = [c \in Ranks!Boards |-> Ranks!fetch_leaderboard_stats_rows(c)]
    OBVIOUS
  <2>2. r_board = [c \in Ranks!Boards |-> [u \in Ranks!Users |->
                     IF u \in on[c] THEN r_rows[u].pp ELSE -1]]
    BY <2>1 DEF Ranks!Init, Ranks!Absent
  <2>3. \A u \in Ranks!Users : r_rows[u].pp \in Int
    BY <1>2 DEF UserRow
  <2>4. QED
    BY <2>2, <2>3
<1>4. Collected
  BY <1>1, NoTaskIsProper, IdsAreNumbers DEF Collected, Referred, ObjectIds
<1>5. \E owner : Owned(owner)
  <2>1. PICK owner : owner = [o \in Ranks!ObjIds |-> 0]
    OBVIOUS
  <2>2. Owned(owner)
    BY <1>1, <2>1, NoTaskIsProper DEF Owned
  <2>3. QED
    BY <2>2
<1>6. ServerRight
  <2>1. \A t \in Tasks : r_tasks[t] = Ranks!NoTask /\ Proper(r_tasks[t])
    BY <1>1, NoTaskIsProper
  <2>2. r_tasks \in [Tasks -> Requests]
    BY <1>1, NoTaskIsProper DEF Proper
  <2>3. Ranks!NoObj \in PlayerObj
    BY DEF Ranks!NoObj, PlayerObj, Ranks!Global
  <2>4. QED
    BY <1>1, <1>2, <1>3, <1>4, <1>5, <2>1, <2>2, <2>3 DEF ServerRight
<1>7. Rebuilding
  BY <1>1, NothingStaged DEF Rebuilding
<1>8. ASSUME NEW u \in Ranks!Users PROVE Adds(u) /\ Alone(u)
  <2>1. Adds(u)
    BY <1>1, NothingStaged, IdsAreNumbers DEF Adds
  <2>2. \A t \in Tasks : r_tasks[t].u # u
    BY <1>1, NoTaskIsProper, IdsAreNumbers DEF UserIds
  <2>3. Hides(u)
    BY <1>2 DEF Hides
  <2>4. QED
    BY <1>1, <2>1, <2>2, <2>3 DEF Alone, Ranks!Busy
<1>9. QED
  BY <1>1, <1>6, <1>7, <1>8 DEF RanksInv

LEMMA RequestKeeps ==
  ASSUME RanksInv, NEW t \in Tasks, Ranks!Request(t) PROVE RanksInv'
<1>1. ASSUME NEW u \in Ranks!Users, NEW c \in Countries,
             Ranks!LoginRead(t, u, c) \/ Ranks!ProfileRead(t, u, c)
      PROVE  RanksInv'
  BY <1>1, LoginReadKeeps, ProfileReadKeeps
<1>2. ASSUME NEW u \in Ranks!Users, NEW pp \in 1 .. TopPP, Ranks!Submit(t, u, pp) PROVE RanksInv'
  BY <1>2, SubmitKeeps
<1>3. ASSUME NEW u \in Ranks!Users, Ranks!restrict(t, u) \/ Ranks!unrestrict(t, u) PROVE RanksInv'
  BY <1>3, SetPrivKeeps
<1>4. CASE Ranks!LoginStats(t)
  BY <1>4, LoginStatsKeeps
<1>5. CASE Ranks!LoginVerify(t)
  BY <1>5, LoginVerifyKeeps
<1>6. CASE Ranks!SubmitRow(t)
  BY <1>6, SubmitRowKeeps
<1>7. CASE Ranks!update_rank(t)
  BY <1>7, UpdateRankKeeps
<1>8. CASE Ranks!update_country_rank(t)
  BY <1>8, UpdateCountryRankKeeps
<1>9. CASE Ranks!PrivRow(t)
  BY <1>9, PrivRowKeeps
<1>10. CASE Ranks!UnrestrictStats(t)
  BY <1>10, UnrestrictStatsKeeps
<1>11. CASE Ranks!PrivGlobal(t)
  BY <1>11, PrivGlobalKeeps
<1>12. CASE Ranks!PrivCountry(t)
  BY <1>12, PrivCountryKeeps
<1>13. CASE Ranks!ProfileRow(t)
  BY <1>13, ProfileRowKeeps
<1>14. CASE Ranks!remove_from_country_leaderboard(t)
  BY <1>14, RemoveKeeps
<1>15. CASE Ranks!add_to_country_leaderboard(t)
  BY <1>15, AddKeeps
<1>16. CASE Ranks!TaskFails(t)
  BY <1>16, TaskFailsKeeps
<1>17. QED
  BY <1>1, <1>2, <1>3, <1>4, <1>5, <1>6, <1>7, <1>8, <1>9, <1>10, <1>11, <1>12, <1>13, <1>14, <1>15,
     <1>16 DEF Ranks!Request

LEMMA RanksStep ==
  ASSUME RanksInv, Ranks!Next PROVE RanksInv' /\ Ranks!CommitIsExact
<1>1. ASSUME ~Ranks!RebuildCommit PROVE Ranks!CommitIsExact
  BY <1>1 DEF Ranks!CommitIsExact
<1>2. CASE Ranks!RebuildCommit
  BY <1>2, CommitKeeps
<1>3. ASSUME NEW t \in Tasks, Ranks!Request(t) PROVE RanksInv'
  BY <1>3, RequestKeeps
<1>4. ASSUME NEW u \in Ranks!Users, Ranks!Logout(u) PROVE RanksInv'
  BY <1>4, LogoutKeeps
<1>5. ASSUME Ranks!RebuildTool PROVE RanksInv'
  BY <1>5, StartKeeps DEF Ranks!RebuildTool
<1>6. ASSUME Ranks!RebuildFetch PROVE RanksInv'
  BY <1>6, FetchKeeps
<1>7. ASSUME Ranks!RebuildStage PROVE RanksInv'
  BY <1>7, RebuildStageKeeps
<1>8. ASSUME Ranks!RebuildFails PROVE RanksInv'
  BY <1>8, FailsKeeps
<1>9. ASSUME Ranks!RebuildKilled PROVE RanksInv'
  BY <1>9, KilledKeeps
<1>10. ASSUME Ranks!RedisLoss PROVE RanksInv'
  BY <1>10, RedisLossKeeps
<1>11. ASSUME Ranks!Restart PROVE RanksInv'
  BY <1>11, RestartKeeps
<1>12. ASSUME Ranks!Boot PROVE RanksInv'
  BY <1>12, BootKeeps
<1>13. QED
  BY <1>1, <1>2, <1>3, <1>4, <1>5, <1>6, <1>7, <1>8, <1>9, <1>10, <1>11, <1>12 DEF Ranks!Next

\* What holds of the ranks in every state, and of every step.
RanksRight == service = "ranks" => RanksInv
LEMMA AllStep ==
  ASSUME RanksRight, [AllNext]_allvars
  PROVE  RanksRight' /\ ((service = "ranks" => Ranks!CommitIsExact) \/ UNCHANGED allvars)
<1>1. CASE service = "ranks" /\ Ranks!Next /\ service' = service
  BY <1>1, RanksStep DEF RanksRight
<1>2. CASE UNCHANGED allvars
  BY <1>2, UntouchedKeeps DEF RanksRight, allvars, r_vars, Untouched
<1>3. CASE service = "submission" /\ service' = service
  BY <1>3 DEF RanksRight
<1>4. ASSUME AllNext PROVE (service = "ranks" /\ Ranks!Next /\ service' = service)
                           \/ (service = "submission" /\ service' = service)
  BY <1>4 DEF AllNext, vars
<1>5. QED
  BY <1>1, <1>2, <1>3, <1>4

LEMMA RanksAlways == AllSpec => []RanksRight
<1>1. AllInit => RanksRight
  BY RanksStart DEF AllInit, RanksRight
<1>2. RanksRight /\ [AllNext]_allvars => RanksRight'
  BY AllStep
<1>3. QED
  BY <1>1, <1>2, PTL DEF AllSpec

\* A player who is restricted in MySQL is not on the global leaderboard of redis,
\* when the operations on the player came one at a time and none failed, in
\* whatever order logins, scores, restrictions, country changes, rebuilds and
\* restarts came (restrict, update_rank, rebuild_mode).
THEOREM RestrictedUnranked == AllSpec => []RestrictedAreUnranked
<1>1. RanksRight => RestrictedAreUnranked
  <2>1. SUFFICES ASSUME RanksInv, NEW u \in Ranks!Users \ r_mixed, ~Ranks!Busy(u), ~r_killed,
                        ~Free(r_rows[u].priv)
                 PROVE  Ranks!Rank("global", u) = 0
    BY DEF RanksRight, RestrictedAreUnranked, Ranks!RestrictedAreUnranked,
       Ranks!fetch_player_mode_ranks, Ranks!Unrestricted, Free, Ranks!Global, Ranks!Nothing
  <2>2. r_board["global"][u] = -1
    BY <2>1 DEF RanksInv, Alone, Hides, Ranks!Busy
  <2>3. QED
    BY <2>2 DEF Ranks!Rank, Ranks!Absent, Ranks!Nothing
<1>2. QED
  BY <1>1, RanksAlways, PTL

\* A rebuild that is swapped in holds everybody who was ranked in MySQL all the
\* time it ran and, no earlier one having been killed, nobody who never was, for
\* any size of its batches: paging neither skips nor repeats a row while scores
\* and restrictions go on (rebuild_mode, fetch_ranked_pp_for_mode,
\* commit_staged).
THEOREM RebuildExact == AllSpec => RebuildIsExact
<1>1. RanksRight /\ [AllNext]_allvars => [service = "ranks" => Ranks!CommitIsExact]_allvars
  BY AllStep
<1>2. QED
  BY <1>1, RanksAlways, PTL DEF AllSpec, RebuildIsExact

-----------------------------------------------------------------------------
(* THE CACHE OF BEATMAPS: nothing that is listed is deleted, and a decision
   of a nominator stays. *)

MapEntry == [v : Cache!Versions \cup {-1}, status : Cache!RankedStatus, frozen : BOOLEAN]
MapObject == [id : Cache!Maps \cup {0}, server : {"osu!", "private"}, map : MapEntry,
              expired : BOOLEAN]
Removing == {"delete", "deletescores", "deleteset"}
Resources == {"api", "answer", "saveset", "save", "cache"} \cup Removing
Errand ==
  [op : {"idle", "look-up", "refresh", "map", "owner"}, id : Cache!Maps \cup {0},
   pc : {"", "row", "set", "new", "set scope", "map scope", "commit", "evict"} \cup Resources,
   key : (Cache!Maps \cup {0}) \X (Cache!Versions \cup {-1}), o : Objects \cup {0},
   new : MapEntry, code : Nat, status : {"undecided", "Loved"},
   wipe : Cache!Versions \cup {-1}]

CacheTyped ==
  /\ b_upstream \in [Cache!Maps -> MapEntry] /\ b_rows \in [Cache!Maps -> MapEntry]
  /\ b_mapsets \subseteq Cache!Maps /\ b_lost \subseteq Cache!Maps
  /\ b_objs \in [Objects -> MapObject] /\ b_last_np \in Objects \cup {0}
  /\ b_beatmapset \in [Cache!Maps -> Objects \cup {0}]
  /\ b_beatmap \in [Cache!Keys -> Objects \cup {0}]
  /\ b_tasks \in [Calls -> Errand]
  /\ b_decided \in [Cache!Maps -> {"undecided", "Loved"}]
  /\ \A i \in Cache!Maps : b_rows[i].v = -1 => b_rows[i] = Cache!Absent

\* The osu!api lists no hosted map, and what it ceased to list is lost.
ListedOrLost ==
  \A i \in Cache!Maps :
    /\ b_upstream[i].v = -1 => b_upstream[i] = Cache!Absent /\ i \in b_lost \cup Private
    /\ i \in Private => b_upstream[i] = Cache!Absent

\* An object is of one set, wherever it is held.
OfOneSet ==
  /\ \A o \in Objects : \/ b_objs[o] = Cache!NoObj
                        \/ /\ b_objs[o].id \in Cache!Maps
                           /\ b_objs[o].server = Cache!Server(b_objs[o].id)
  /\ \A i \in Cache!Maps : b_beatmapset[i] # 0 => b_objs[b_beatmapset[i]].id = i
  /\ \A x \in Cache!Keys : b_beatmap[x] # 0 => b_objs[b_beatmap[x]].id = x[1]
  /\ b_last_np # 0 => b_objs[b_last_np].id \in Cache!Maps
  /\ \A t \in Calls : b_tasks[t].o # 0 => /\ b_tasks[t].id \in Cache!Maps
                                            /\ b_objs[b_tasks[t].o].id = b_tasks[t].id

\* What a request knows: nothing is deleted but what is lost, and nothing saved
\* but what the osu!api has listed.
ErrandRight(k) ==
  /\ k.op = "idle" => k = Cache!NoTask
  /\ k.pc = "" => k.op = "idle"
  /\ k.pc \in {"row", "set", "new"} => k.op = "look-up" /\ k.o = 0
  /\ k.pc \in Resources => k.op \in {"look-up", "refresh"} /\ k.o # 0
  /\ k.pc \in {"set scope", "map scope", "commit"} =>
       k.op = "map" /\ k.o # 0 /\ k.status = "Loved"
  /\ k.pc = "evict" => k.op = "owner" /\ k.o = 0
  /\ k.op # "idle" => k.id \in Cache!Maps
  /\ k.pc \in Resources \ {"api", "cache"} => k.id \in Mirrored
  /\ k.pc \in Removing => k.id \in b_lost
  /\ k.pc \in {"saveset", "save"} => b_objs[k.o].map.v # -1
  /\ k.pc = "answer" =>
       /\ k.new = Cache!Absent /\ k.code \in {404, 200} => k.id \in b_lost
       /\ k.new # Cache!Absent => /\ k.new.v # -1
                                  /\ k.id \in b_lost \/ k.new.v <= b_upstream[k.id].v

\* No request overlapped another for the map, and its file is the first.
QuietMap(i) == i \in Cache!Maps \ (b_mixed \cup b_lost) /\ b_upstream[i].v <= 0

\* Of a quiet map: there is one request at most, a set that is listed has its
\* row, but for a moment, and no object goes before the row; the cache holds one
\* object, under the id and the first md5; and the decision is in the row, in
\* the cached object, and in the object a look-up has in hand.
Of(t, i) == b_tasks[t].id = i
OneRequest(i) == \A s, t \in Calls : Of(s, i) /\ Of(t, i) => s = t
Saved(i) ==
  i \in b_mapsets => \/ b_rows[i] # Cache!Absent
                     \/ \E t \in Calls : Of(t, i) /\ b_tasks[t].pc = "save"
FirstFile(i) ==
  /\ \A o \in Objects : b_objs[o].id = i => b_objs[o].map.v = 0
  /\ b_rows[i] = Cache!Absent \/ b_rows[i].v = 0
  /\ \A t \in Calls : Of(t, i) /\ b_tasks[t].pc = "evict" => b_tasks[t].wipe = 0
HasRow(i) ==
  \/ b_rows[i] # Cache!Absent
  \/ /\ b_beatmapset[i] = 0
     /\ b_last_np = 0 \/ b_objs[b_last_np].id # i
     /\ \A t \in Calls : Of(t, i) => b_tasks[t].o = 0 \/ b_tasks[t].pc \in {"saveset", "save"}
OneCached(i) ==
  /\ b_beatmap[<<i, -1>>] = b_beatmapset[i] /\ b_beatmap[<<i, 0>>] = b_beatmapset[i]
  /\ \A v \in 1 .. MaxVersion : b_beatmap[<<i, v>>] = 0
Loved(m) == m.status = "Loved" /\ m.frozen
Decided(i) ==
  b_decided[i] # "undecided" =>
    /\ Loved(b_rows[i])
    /\ b_beatmapset[i] # 0 => Loved(b_objs[b_beatmapset[i]].map)
    /\ \A t \in Calls : Of(t, i) /\ b_tasks[t].op # "map" /\ b_tasks[t].o # 0 =>
         Loved(b_objs[b_tasks[t].o].map)
Deciding(i) ==
  \A t \in Calls : Of(t, i) /\ b_tasks[t].pc = "commit" /\ b_beatmapset[i] # 0 =>
    Loved(b_objs[b_beatmapset[i]].map)

Undisturbed(i) ==
  /\ OneRequest(i) /\ Saved(i) /\ FirstFile(i) /\ HasRow(i) /\ OneCached(i)
  /\ Decided(i) /\ Deciding(i)
Settled(i) == QuietMap(i) => Undisturbed(i)

CacheInv ==
  /\ CacheTyped /\ ListedOrLost /\ OfOneSet
  /\ \A t \in Calls : ErrandRight(b_tasks[t])
  /\ \A i \in Cache!Maps : Settled(i)

\* A step of request t, for map i: the request goes on with next, and the
\* objects are new, as far as they are held.
Sends(t, i, next) ==
  /\ t \in Calls /\ i \in Cache!Maps /\ next \in Errand
  /\ b_tasks' = [b_tasks EXCEPT ![t] = next]
  /\ b_tasks[t].id \in {0, i} /\ next.id \in {0, i}
Files(i) ==
  /\ b_rows' \in [Cache!Maps -> MapEntry] /\ b_decided' \in [Cache!Maps -> {"undecided", "Loved"}]
  /\ b_mapsets' \subseteq Cache!Maps /\ b_lost' \subseteq Cache!Maps
  /\ b_upstream' = b_upstream /\ b_lost \subseteq b_lost' /\ b_mixed \subseteq b_mixed'
  /\ \A j \in Cache!Maps \ {i} : /\ b_rows'[j] = b_rows[j] /\ b_decided'[j] = b_decided[j]
                                 /\ j \in b_mapsets' <=> j \in b_mapsets
  /\ b_rows'[i].v = -1 => b_rows'[i] = Cache!Absent
Builds(i, new) ==
  /\ new \in [Objects -> MapObject]
  /\ \A o \in Objects :
       \/ new[o] = b_objs[o]
       \/ /\ new[o].id = i /\ new[o].server = Cache!Server(i)
          /\ \/ b_objs[o] = Cache!NoObj
             \/ b_objs[o].id = i /\ (b_objs[o].map.v # -1 => new[o].map.v # -1)
References(i, new) ==
  /\ b_beatmapset' \in [Cache!Maps -> Objects \cup {0}]
  /\ b_beatmap' \in [Cache!Keys -> Objects \cup {0}]
  /\ b_last_np' \in Objects \cup {0}
  /\ \A j \in Cache!Maps \ {i} : b_beatmapset'[j] = b_beatmapset[j]
  /\ \A x \in Cache!Keys : x[1] # i => b_beatmap'[x] = b_beatmap[x]
  /\ b_beatmapset'[i] = 0 \/ new[b_beatmapset'[i]].id = i
  /\ \A x \in Cache!Keys : x[1] = i => b_beatmap'[x] = 0 \/ new[b_beatmap'[x]].id = i
  /\ b_last_np' \in {b_last_np, 0} \/ new[b_last_np'].id = i
Holds(i, next, new) == next.o # 0 => next.id = i /\ new[next.o].id = i
HeldStay(new) ==
  /\ b_objs' \in [Objects -> MapObject]
  /\ \A o \in Objects : b_objs'[o] \in {new[o], Cache!NoObj}
  /\ \A i \in Cache!Maps : b_beatmapset'[i] # 0 => b_objs'[b_beatmapset'[i]] = new[b_beatmapset'[i]]
  /\ \A x \in Cache!Keys : b_beatmap'[x] # 0 => b_objs'[b_beatmap'[x]] = new[b_beatmap'[x]]
  /\ b_last_np' # 0 => b_objs'[b_last_np'] = new[b_last_np']
  /\ \A t \in Calls : b_tasks'[t].o # 0 => b_objs'[b_tasks'[t].o] = new[b_tasks'[t].o]
Handled(t, i, next, new) ==
  /\ Sends(t, i, next) /\ Files(i) /\ Builds(i, new) /\ References(i, new)
  /\ Holds(i, next, new) /\ HeldStay(new)

LEMMA ErrandFields ==
  ASSUME NEW k \in Errand
  PROVE  /\ k.op \in {"idle", "look-up", "refresh", "map", "owner"}
         /\ k.id \in Cache!Maps \cup {0} /\ k.o \in Objects \cup {0} /\ k.new \in MapEntry
         /\ k.pc \in {"", "row", "set", "new", "set scope", "map scope", "commit", "evict"}
                       \cup Resources
         /\ k.key \in (Cache!Maps \cup {0}) \X (Cache!Versions \cup {-1})
         /\ k.code \in Nat /\ k.status \in {"undecided", "Loved"}
         /\ k.wipe \in Cache!Versions \cup {-1}
BY DEF Errand

LEMMA ObjectFields ==
  ASSUME NEW o \in MapObject
  PROVE  /\ o.id \in Cache!Maps \cup {0} /\ o.server \in {"osu!", "private"}
         /\ o.map \in MapEntry /\ o.expired \in BOOLEAN
BY DEF MapObject

LEMMA EntryFields ==
  ASSUME NEW m \in MapEntry
  PROVE  m.v \in Cache!Versions \cup {-1} /\ m.status \in Cache!RankedStatus /\ m.frozen \in BOOLEAN
BY DEF MapEntry

LEMMA Nothings ==
  /\ 0 \notin Cache!Maps /\ 0 \notin Objects
  /\ Cache!Absent \in MapEntry /\ Cache!Absent.v = -1 /\ ~Cache!Absent.frozen
  /\ Cache!NoObj \in MapObject /\ Cache!NoObj.id = 0
  /\ Cache!NoTask \in Errand /\ Cache!NoTask.id = 0 /\ Cache!NoTask.o = 0
  /\ Cache!NoTask.pc = "" /\ Cache!NoTask.op = "idle"
  /\ Cache!None = 0 /\ Cache!ById = -1 /\ Cache!Undecided = "undecided"
<1>1. 0 \notin Cache!Maps /\ 0 \notin Objects
  BY MapsAssumption DEF Cache!Maps
<1>2. Cache!Absent \in MapEntry /\ Cache!Absent.v = -1 /\ ~Cache!Absent.frozen
  BY DEF Cache!Absent, MapEntry, Cache!RankedStatus
<1>3. Cache!None = 0 /\ Cache!ById = -1 /\ Cache!Undecided = "undecided"
  BY DEF Cache!None, Cache!ById, Cache!Undecided
<1>4. Cache!NoObj \in MapObject /\ Cache!NoObj.id = 0
  BY <1>2, <1>3 DEF Cache!NoObj, MapObject
<1>5. /\ Cache!NoTask \in Errand /\ Cache!NoTask.id = 0 /\ Cache!NoTask.o = 0
      /\ Cache!NoTask.pc = "" /\ Cache!NoTask.op = "idle"
  BY <1>2, <1>3 DEF Cache!NoTask, Errand
<1>6. QED
  BY <1>1, <1>2, <1>3, <1>4, <1>5

\* The objects that are held stay, and the others are gone.
LEMMA KeptWhileHeld ==
  ASSUME CacheTyped, NEW t, NEW i, NEW next, NEW new, Sends(t, i, next), Builds(i, new),
         References(i, new), Cache!Collect(new)
  PROVE  HeldStay(new)
<1>1. b_tasks' \in [Calls -> Errand]
  BY DEF Sends, CacheTyped
<1>8. PICK held : held = {b_beatmapset'[j] : j \in DOMAIN b_beatmapset}
                  \cup {b_beatmap'[x] : x \in DOMAIN b_beatmap}
                  \cup {b_last_np'} \cup {b_tasks'[s].o : s \in Calls}
  OBVIOUS
<1>2. /\ b_objs' = [o \in Objects |-> IF o \in held THEN new[o] ELSE Cache!NoObj]
      /\ \A j \in DOMAIN b_beatmapset : b_beatmapset'[j] \in held
      /\ \A x \in DOMAIN b_beatmap : b_beatmap'[x] \in held
      /\ b_last_np' \in held /\ \A s \in Calls : b_tasks'[s].o \in held
  <2>1. b_objs' = [o \in Objects |-> IF o \in held THEN new[o] ELSE Cache!NoObj]
    BY <1>8, Zenon DEF Cache!Collect
  <2>2. QED
    BY <1>8, <2>1
<1>3. DOMAIN b_beatmapset = Cache!Maps /\ DOMAIN b_beatmap = Cache!Keys
  BY DEF CacheTyped
<1>4. b_objs' \in [Objects -> MapObject]
  BY <1>2, Nothings DEF Builds
<1>5. \A o \in Objects : b_objs'[o] \in {new[o], Cache!NoObj} /\ (o \in held => b_objs'[o] = new[o])
  BY <1>2
<1>6. \A s \in Calls : b_tasks'[s].o \in Objects \cup {0}
  BY <1>1, ErrandFields
<1>7. QED
  BY <1>2, <1>3, <1>4, <1>5, <1>6 DEF HeldStay, References
LEMMA Unheld ==
  ASSUME CacheTyped, NEW t, NEW i, NEW next, NEW new, Sends(t, i, next), References(i, new),
         b_objs' = new, Builds(i, new)
  PROVE  HeldStay(new)
BY DEF HeldStay, Builds

\* What a step does to the other maps and the other requests: nothing.
LEMMA HandledTyped ==
  ASSUME CacheInv, NEW t, NEW i, NEW next, NEW new, Handled(t, i, next, new)
  PROVE  CacheTyped' /\ ListedOrLost'
<1>1. CacheTyped /\ ListedOrLost /\ Sends(t, i, next) /\ Files(i) /\ References(i, new) /\ HeldStay(new)
  BY DEF CacheInv, Handled
<1>2. b_tasks' \in [Calls -> Errand]
  BY <1>1 DEF Sends, CacheTyped
<1>3. \A j \in Cache!Maps : b_rows'[j].v = -1 => b_rows'[j] = Cache!Absent
  BY <1>1 DEF Files, CacheTyped
<1>4. b_upstream' \in [Cache!Maps -> MapEntry]
  BY <1>1 DEF Files, CacheTyped
<1>5. CacheTyped'
  BY <1>1, <1>2, <1>3, <1>4 DEF CacheTyped, Files, References, HeldStay
<1>6. ListedOrLost'
  BY <1>1 DEF ListedOrLost, Files
<1>7. QED
  BY <1>5, <1>6

\* The request of the step is next, the others are what they were.
LEMMA Others ==
  ASSUME CacheTyped, NEW t, NEW i, NEW next, Sends(t, i, next)
  PROVE  /\ t \in Calls /\ b_tasks'[t] = next
         /\ \A s \in Calls : s # t => b_tasks'[s] = b_tasks[s]
BY DEF Sends, CacheTyped

LEMMA HeldOf ==
  ASSUME CacheTyped, OfOneSet, NEW i \in Cache!Maps, NEW new, Builds(i, new)
  PROVE  \A o \in Objects :
           /\ b_objs[o].id # 0 => new[o].id = b_objs[o].id
           /\ b_objs[o].id \notin {0, i} => new[o] = b_objs[o]
           /\ new[o].id # i => new[o] = b_objs[o]
           /\ b_objs[o].id # 0 /\ b_objs[o].map.v # -1 => new[o].map.v # -1
           /\ new[o] = Cache!NoObj \/ /\ new[o].id \in Cache!Maps
                                      /\ new[o].server = Cache!Server(new[o].id)
<1> SUFFICES ASSUME NEW o \in Objects
    PROVE  /\ b_objs[o].id # 0 => new[o].id = b_objs[o].id
           /\ b_objs[o].id \notin {0, i} => new[o] = b_objs[o]
           /\ new[o].id # i => new[o] = b_objs[o]
           /\ b_objs[o].id # 0 /\ b_objs[o].map.v # -1 => new[o].map.v # -1
           /\ new[o] = Cache!NoObj \/ /\ new[o].id \in Cache!Maps
                                      /\ new[o].server = Cache!Server(new[o].id)
  OBVIOUS
<1>1. CASE new[o] = b_objs[o]
  BY <1>1 DEF OfOneSet
<1>2. CASE new[o] # b_objs[o]
  <2>1. /\ new[o].id = i /\ new[o].server = Cache!Server(i)
        /\ \/ b_objs[o] = Cache!NoObj
           \/ b_objs[o].id = i /\ (b_objs[o].map.v # -1 => new[o].map.v # -1)
    BY <1>2 DEF Builds
  <2>2. QED
    BY <2>1, Nothings
<1>3. QED
  BY <1>1, <1>2
LEMMA HandledSets ==
  ASSUME CacheInv, NEW t, NEW i, NEW next, NEW new, Handled(t, i, next, new)
  PROVE  OfOneSet'
<1> USE Nothings
<1>1. /\ CacheTyped /\ OfOneSet /\ Sends(t, i, next) /\ References(i, new) /\ HeldStay(new)
      /\ Builds(i, new) /\ Holds(i, next, new) /\ i \in Cache!Maps
  BY DEF CacheInv, Handled, Sends
<1>9. t \in Calls /\ b_tasks'[t] = next /\ \A s \in Calls : s # t => b_tasks'[s] = b_tasks[s]
  BY <1>1, Others
<1>2. \A o \in Objects :
           /\ b_objs[o].id # 0 => new[o].id = b_objs[o].id
           /\ new[o] = Cache!NoObj \/ /\ new[o].id \in Cache!Maps
                                      /\ new[o].server = Cache!Server(new[o].id)
  BY <1>1, HeldOf
<1>3. \A o \in Objects : \/ b_objs'[o] = Cache!NoObj
                         \/ /\ b_objs'[o].id \in Cache!Maps
                            /\ b_objs'[o].server = Cache!Server(b_objs'[o].id)
  BY <1>1, <1>2 DEF HeldStay
<1>4. \A j \in Cache!Maps : b_beatmapset'[j] # 0 => b_objs'[b_beatmapset'[j]].id = j
  <2> SUFFICES ASSUME NEW j \in Cache!Maps, b_beatmapset'[j] # 0
      PROVE  new[b_beatmapset'[j]].id = j
    BY <1>1 DEF HeldStay
  <2>1. CASE j = i
    BY <2>1, <1>1 DEF References
  <2>2. CASE j # i
    <3>1. b_beatmapset[j] \in Objects /\ b_beatmapset'[j] = b_beatmapset[j]
      BY <2>2, <1>1 DEF References, CacheTyped
    <3>2. b_objs[b_beatmapset[j]].id = j
      BY <3>1, <1>1 DEF OfOneSet
    <3>3. QED
      BY <3>1, <3>2, <1>2
  <2>3. QED
    BY <2>1, <2>2
<1>5. \A x \in Cache!Keys : b_beatmap'[x] # 0 => b_objs'[b_beatmap'[x]].id = x[1]
  <2> SUFFICES ASSUME NEW x \in Cache!Keys, b_beatmap'[x] # 0
      PROVE  new[b_beatmap'[x]].id = x[1]
    BY <1>1 DEF HeldStay
  <2>1. CASE x[1] = i
    BY <2>1, <1>1 DEF References
  <2>2. CASE x[1] # i
    <3>1. b_beatmap[x] \in Objects /\ b_beatmap'[x] = b_beatmap[x] /\ x[1] \in Cache!Maps
      BY ZenonT(60), <2>2, <1>1 DEF References, CacheTyped, Cache!Keys
    <3>2. b_objs[b_beatmap[x]].id = x[1]
      BY <3>1, <1>1 DEF OfOneSet
    <3>3. QED
      BY <3>1, <3>2, <1>2
  <2>3. QED
    BY <2>1, <2>2
<1>6. b_last_np' # 0 => b_objs'[b_last_np'].id \in Cache!Maps
  <2> SUFFICES ASSUME b_last_np' # 0 PROVE new[b_last_np'].id \in Cache!Maps
    BY <1>1 DEF HeldStay
  <2>1. CASE b_last_np' = b_last_np
    <3>1. b_last_np \in Objects /\ b_objs[b_last_np].id \in Cache!Maps
      BY <2>1, <1>1 DEF CacheTyped, OfOneSet
    <3>2. QED
      BY <3>1, <2>1, <1>2
  <2>2. QED
    BY <2>1, <1>1 DEF References
<1>7. \A s \in Calls : b_tasks'[s].o # 0 => /\ b_tasks'[s].id \in Cache!Maps
                                              /\ b_objs'[b_tasks'[s].o].id = b_tasks'[s].id
  <2> SUFFICES ASSUME NEW s \in Calls, b_tasks'[s].o # 0
      PROVE  /\ b_tasks'[s].id \in Cache!Maps
             /\ new[b_tasks'[s].o].id = b_tasks'[s].id
    BY <1>1 DEF HeldStay
  <2>1. CASE s = t
    BY <2>1, <1>1, <1>9 DEF Holds
  <2>2. CASE s # t
    <3>1. b_tasks'[s] = b_tasks[s] /\ b_tasks[s] \in Errand
      BY <2>2, <1>1, <1>9 DEF CacheTyped
    <3>2. b_tasks[s].o \in Objects
      BY <3>1, ErrandFields
    <3>3. b_tasks[s].id \in Cache!Maps /\ b_objs[b_tasks[s].o].id = b_tasks[s].id
      BY <3>1, <1>1 DEF OfOneSet
    <3>4. QED
      BY <3>1, <3>2, <3>3, <1>2
  <2>3. QED
    BY <2>1, <2>2
<1>8. QED
  BY <1>3, <1>4, <1>5, <1>6, <1>7 DEF OfOneSet

LEMMA HandledErrands ==
  ASSUME CacheInv, NEW t, NEW i, NEW next, NEW new, Handled(t, i, next, new),
         NEW s \in Calls, s # t
  PROVE  ErrandRight(b_tasks[s])'
<1>1. /\ CacheTyped /\ OfOneSet /\ Sends(t, i, next) /\ HeldStay(new) /\ Files(i)
      /\ Builds(i, new) /\ i \in Cache!Maps /\ ErrandRight(b_tasks[s])
  BY DEF CacheInv, Handled, Sends
<1>2. PICK k \in Errand : k = b_tasks[s] /\ k = b_tasks'[s]
  BY <1>1, Others DEF CacheTyped
<1>3. k.pc \in {"saveset", "save"} => b_objs'[k.o].map.v # -1
  <2> SUFFICES ASSUME k.pc \in {"saveset", "save"} PROVE b_objs'[k.o].map.v # -1
    OBVIOUS
  <2>1. k.o # 0 /\ b_objs[k.o].map.v # -1
    BY <1>1, <1>2 DEF ErrandRight, Resources
  <2>2. k.o \in Objects /\ b_objs'[k.o] = new[k.o]
    BY <2>1, <1>1, <1>2, ErrandFields DEF HeldStay
  <2>3. b_objs[k.o].id # 0
    BY <2>1, <1>1, <1>2, Nothings DEF OfOneSet
  <2>4. QED
    BY <2>1, <2>2, <2>3, <1>1, HeldOf
<1>4. b_lost \subseteq b_lost' /\ b_upstream' = b_upstream
  BY <1>1 DEF Files
<1>5. ErrandRight(k)
  BY <1>1, <1>2
<1>6. ErrandRight(k)'
  BY <1>3, <1>4, <1>5 DEF ErrandRight
<1>7. QED
  BY <1>2, <1>6
\* What Undisturbed says of map i when k is the only request for it, and the
\* objects are new.
Calm(i, k, new) ==
  /\ i \in b_mapsets => b_rows[i] # Cache!Absent \/ (k.id = i /\ k.pc = "save")
  /\ \A o \in Objects : new[o].id = i => new[o].map.v = 0
  /\ b_rows[i] = Cache!Absent \/ b_rows[i].v = 0
  /\ k.id = i /\ k.pc = "evict" => k.wipe = 0
  /\ \/ b_rows[i] # Cache!Absent
     \/ /\ b_beatmapset[i] = 0
        /\ b_last_np = 0 \/ new[b_last_np].id # i
        /\ k.id = i => k.o = 0 \/ k.pc \in {"saveset", "save"}
  /\ OneCached(i)
  /\ b_decided[i] # "undecided" =>
       /\ Loved(b_rows[i])
       /\ b_beatmapset[i] # 0 => Loved(new[b_beatmapset[i]].map)
       /\ k.id = i /\ k.op # "map" /\ k.o # 0 => Loved(new[k.o].map)
  /\ k.id = i /\ k.pc = "commit" /\ b_beatmapset[i] # 0 => Loved(new[b_beatmapset[i]].map)
Sole(t, i) == \A s \in Calls : s # t => b_tasks[s].id # i

LEMMA CalmBefore ==
  ASSUME CacheTyped, NEW t \in Calls, NEW i \in Cache!Maps, Undisturbed(i), Sole(t, i)
  PROVE  Calm(i, b_tasks[t], b_objs)
<1>1. \A s \in Calls : Of(s, i) => s = t
  BY DEF Sole, Of
<1>2. i \in b_mapsets => b_rows[i] # Cache!Absent \/ (b_tasks[t].id = i /\ b_tasks[t].pc = "save")
  BY <1>1 DEF Undisturbed, Saved, Of
<1>3. /\ \A o \in Objects : b_objs[o].id = i => b_objs[o].map.v = 0
      /\ b_rows[i] = Cache!Absent \/ b_rows[i].v = 0
      /\ b_tasks[t].id = i /\ b_tasks[t].pc = "evict" => b_tasks[t].wipe = 0
  BY DEF Undisturbed, FirstFile, Of
<1>4. \/ b_rows[i] # Cache!Absent
      \/ /\ b_beatmapset[i] = 0
         /\ b_last_np = 0 \/ b_objs[b_last_np].id # i
         /\ b_tasks[t].id = i => b_tasks[t].o = 0 \/ b_tasks[t].pc \in {"saveset", "save"}
  BY DEF Undisturbed, HasRow, Of
<1>5. /\ b_decided[i] # "undecided" =>
           /\ Loved(b_rows[i])
           /\ b_beatmapset[i] # 0 => Loved(b_objs[b_beatmapset[i]].map)
           /\ b_tasks[t].id = i /\ b_tasks[t].op # "map" /\ b_tasks[t].o # 0 =>
                Loved(b_objs[b_tasks[t].o].map)
      /\ b_tasks[t].id = i /\ b_tasks[t].pc = "commit" /\ b_beatmapset[i] # 0 =>
           Loved(b_objs[b_beatmapset[i]].map)
  BY DEF Undisturbed, Decided, Deciding, Of
<1>6. OneCached(i)
  BY DEF Undisturbed
<1>7. QED
  BY <1>2, <1>3, <1>4, <1>5, <1>6 DEF Calm

LEMMA CalmAfter ==
  ASSUME CacheInv, NEW t, NEW i, NEW next, NEW new, Handled(t, i, next, new),
         Sole(t, i), Calm(i, next, new)'
  PROVE  Undisturbed(i)'
<1>1. /\ CacheTyped /\ Sends(t, i, next) /\ HeldStay(new) /\ References(i, new) /\ i \in Cache!Maps
      /\ Builds(i, new)
  BY DEF CacheInv, Handled, Sends
<1>2. t \in Calls /\ b_tasks'[t] = next /\ \A s \in Calls : s # t => b_tasks'[s] = b_tasks[s]
  BY <1>1, Others
<1>3. \A s \in Calls : b_tasks'[s].id = i => s = t
  BY <1>2 DEF Sole
<1>4. OneRequest(i)'
  BY <1>3 DEF OneRequest, Of
<1>5. Saved(i)'
  <2>1. i \in b_mapsets' => b_rows'[i] # Cache!Absent \/ (next.id = i /\ next.pc = "save")
    BY DEF Calm
  <2>2. QED
    BY <2>1, <1>2 DEF Saved, Of
<1>6. FirstFile(i)'
  <2>1. /\ \A o \in Objects : new[o].id = i => new[o].map.v = 0
        /\ b_rows'[i] = Cache!Absent \/ b_rows'[i].v = 0
        /\ next.id = i /\ next.pc = "evict" => next.wipe = 0
    BY DEF Calm
  <2>2. \A o \in Objects : b_objs'[o].id = i => b_objs'[o] = new[o]
    BY <1>1, Nothings DEF HeldStay
  <2>3. \A s \in Calls : b_tasks'[s].id = i /\ b_tasks'[s].pc = "evict" => b_tasks'[s].wipe = 0
    BY <2>1, <1>2, <1>3
  <2>4. QED
    BY <2>1, <2>2, <2>3 DEF FirstFile, Of
<1>7. HasRow(i)'
  <2>1. \/ b_rows'[i] # Cache!Absent
        \/ /\ b_beatmapset'[i] = 0
           /\ b_last_np' = 0 \/ new[b_last_np'].id # i
           /\ next.id = i => next.o = 0 \/ next.pc \in {"saveset", "save"}
    BY DEF Calm
  <2>2. b_last_np' = 0 \/ b_objs'[b_last_np'] = new[b_last_np']
    BY <1>1 DEF HeldStay
  <2>3. QED
    BY <2>1, <2>2, <1>2, <1>3 DEF HasRow, Of
<1>8. OneCached(i)'
  BY DEF Calm
<1>9. b_beatmapset'[i] # 0 => b_objs'[b_beatmapset'[i]] = new[b_beatmapset'[i]]
  BY <1>1 DEF HeldStay
<1>10. next.o # 0 => b_objs'[next.o] = new[next.o]
  BY <1>1, <1>2 DEF HeldStay
<1>11. Decided(i)'
  <2>1. b_decided'[i] # "undecided" =>
           /\ Loved(b_rows'[i])
           /\ b_beatmapset'[i] # 0 => Loved(new[b_beatmapset'[i]].map)
           /\ next.id = i /\ next.op # "map" /\ next.o # 0 => Loved(new[next.o].map)
    BY DEF Calm, Loved
  <2>2. QED
    BY <2>1, <1>2, <1>3, <1>9, <1>10 DEF Decided, Of, Loved
<1>12. Deciding(i)'
  <2>1. next.id = i /\ next.pc = "commit" /\ b_beatmapset'[i] # 0 => Loved(new[b_beatmapset'[i]].map)
    BY DEF Calm, Loved
  <2>2. QED
    BY <2>1, <1>2, <1>3, <1>9 DEF Deciding, Of, Loved
<1>13. QED
  BY <1>4, <1>5, <1>6, <1>7, <1>8, <1>11, <1>12 DEF Undisturbed

LEMMA QuietBefore ==
  ASSUME NEW i, Files(i), NEW j, QuietMap(j)'
  PROVE  QuietMap(j)
BY DEF Files, QuietMap

LEMMA HandledMaps ==
  ASSUME CacheInv, NEW t, NEW i, NEW next, NEW new, Handled(t, i, next, new),
         NEW j \in Cache!Maps, j # i
  PROVE  Settled(j)'
<1> SUFFICES ASSUME QuietMap(j)' PROVE Undisturbed(j)'
  BY DEF Settled
<1>1. /\ CacheTyped /\ OfOneSet /\ Sends(t, i, next) /\ HeldStay(new) /\ References(i, new)
      /\ i \in Cache!Maps /\ Files(i) /\ Builds(i, new) /\ Settled(j)
  BY DEF CacheInv, Handled, Sends
<1>2. Undisturbed(j)
  BY <1>1, QuietBefore DEF Settled
<1>3. t \in Calls /\ b_tasks'[t] = next /\ \A s \in Calls : s # t => b_tasks'[s] = b_tasks[s]
  BY <1>1, Others
<1>4. b_tasks[t].id # j /\ next.id # j
  BY <1>1, Nothings DEF Sends
<1>5. \A s \in Calls : b_tasks'[s].id = j => b_tasks[s].id = j /\ b_tasks'[s] = b_tasks[s]
  BY <1>3, <1>4
<1>6. b_rows'[j] = b_rows[j] /\ b_decided'[j] = b_decided[j] /\ (j \in b_mapsets' <=> j \in b_mapsets)
  BY <1>1 DEF Files
<1>7. /\ b_beatmapset'[j] = b_beatmapset[j]
      /\ \A x \in Cache!Keys : x[1] # i => b_beatmap'[x] = b_beatmap[x]
  BY <1>1 DEF References
<1>8. \A o \in Objects : /\ b_objs[o].id = j => new[o] = b_objs[o]
                         /\ new[o].id # i => new[o] = b_objs[o]
  BY <1>1, HeldOf, Nothings
<1>9. b_beatmapset[j] # 0 => b_objs'[b_beatmapset[j]] = b_objs[b_beatmapset[j]]
  <2>1. b_beatmapset[j] # 0 => /\ b_beatmapset[j] \in Objects
                               /\ b_objs[b_beatmapset[j]].id = j
    BY <1>1 DEF CacheTyped, OfOneSet
  <2>2. QED
    BY <2>1, <1>7, <1>8, <1>1 DEF HeldStay
<1>10. \A s \in Calls : b_tasks'[s].id = j /\ b_tasks[s].o # 0 =>
                            b_objs'[b_tasks[s].o] = b_objs[b_tasks[s].o]
  <2> SUFFICES ASSUME NEW s \in Calls, b_tasks'[s].id = j, b_tasks[s].o # 0
      PROVE  b_objs'[b_tasks[s].o] = b_objs[b_tasks[s].o]
    OBVIOUS
  <2>1. b_tasks[s].o \in Objects
    BY <1>1, ErrandFields DEF CacheTyped
  <2>2. b_objs[b_tasks[s].o].id = j /\ b_tasks'[s].o = b_tasks[s].o
    BY <1>1, <1>5 DEF OfOneSet
  <2>3. QED
    BY <2>1, <2>2, <1>8, <1>1 DEF HeldStay
<1>11. OneRequest(j)'
  BY <1>2, <1>5 DEF Undisturbed, OneRequest, Of
<1>12. Saved(j)'
  <2>1. \A s \in Calls : b_tasks[s].id = j => b_tasks'[s] = b_tasks[s]
    BY <1>3, <1>4
  <2>2. QED
    BY <2>1, <1>2, <1>6 DEF Undisturbed, Saved, Of
<1>13. FirstFile(j)'
  <2>1. \A o \in Objects : b_objs'[o].id = j => b_objs[o] = b_objs'[o]
    <3> SUFFICES ASSUME NEW o \in Objects, b_objs'[o].id = j PROVE b_objs[o] = b_objs'[o]
      OBVIOUS
    <3>1. b_objs'[o] \in {new[o], Cache!NoObj}
      BY <1>1 DEF HeldStay
    <3>2. b_objs'[o] = new[o]
      BY <3>1, Nothings
    <3>3. QED
      BY <3>2, <1>8
  <2>2. QED
    BY <2>1, <1>2, <1>5, <1>6 DEF Undisturbed, FirstFile, Of
<1>14. HasRow(j)'
  <2>1. b_last_np' = 0 \/ b_objs'[b_last_np'].id # j
        \/ (b_last_np # 0 /\ b_objs[b_last_np].id = j)
    <3> SUFFICES ASSUME b_last_np' # 0, b_objs'[b_last_np'].id = j
        PROVE  b_last_np # 0 /\ b_objs[b_last_np].id = j
      OBVIOUS
    <3>1. b_last_np' \in Objects /\ new[b_last_np'].id = j
      BY <1>1 DEF HeldStay, References
    <3>2. b_last_np' = b_last_np /\ new[b_last_np'] = b_objs[b_last_np']
      BY <3>1, <1>1, <1>8 DEF References
    <3>3. QED
      BY <3>1, <3>2, <1>1
  <2>2. QED
    BY <2>1, <1>2, <1>5, <1>6, <1>7 DEF Undisturbed, HasRow, Of
<1>15. OneCached(j)'
  <2>1. \A v \in Cache!Versions \cup {-1} : b_beatmap'[<<j, v>>] = b_beatmap[<<j, v>>]
    BY <1>7, Nothings DEF Cache!Keys
  <2>2. 0 \in Cache!Versions /\ \A v \in 1 .. MaxVersion : v \in Cache!Versions
    BY MapsAssumption DEF Cache!Versions
  <2>3. QED
    BY <2>1, <2>2, <1>2, <1>7 DEF Undisturbed, OneCached
<1>16. Decided(j)'
  BY <1>2, <1>5, <1>6, <1>7, <1>9, <1>10 DEF Undisturbed, Decided, Of
<1>17. Deciding(j)'
  BY <1>2, <1>5, <1>7, <1>9 DEF Undisturbed, Deciding, Of
<1>18. QED
  BY <1>11, <1>12, <1>13, <1>14, <1>15, <1>16, <1>17 DEF Undisturbed

\* A step keeps the invariant if its request stays right and its map settled.
LEMMA HandledKeeps ==
  ASSUME CacheInv, NEW t, NEW i, NEW next, NEW new, Handled(t, i, next, new),
         ErrandRight(next)', Settled(i)'
  PROVE  CacheInv'
<1>1. CacheTyped' /\ ListedOrLost' /\ OfOneSet'
  BY HandledTyped, HandledSets
<1>2. b_tasks'[t] = next
  BY Others DEF CacheInv, Handled
<1>3. ErrandRight(b_tasks[t])'
  BY ZenonT(60), <1>2 DEF ErrandRight
<1>4. \A s \in Calls : ErrandRight(b_tasks[s])'
  BY <1>3, HandledErrands
<1>5. \A j \in Cache!Maps : Settled(j)'
  BY HandledMaps
<1>6. QED
  BY <1>1, <1>4, <1>5 DEF CacheInv
-----------------------------------------------------------------------------
(* The handlers of the cache, one by one *)

LEMMA SameFiles ==
  ASSUME CacheTyped, NEW i \in Cache!Maps, b_mixed \subseteq b_mixed',
         UNCHANGED <<b_upstream, b_rows, b_mapsets, b_lost, b_decided>>
  PROVE  Files(i)
BY DEF Files, CacheTyped

LEMMA SameObjects ==
  ASSUME CacheTyped, NEW i PROVE Builds(i, b_objs)
BY DEF Builds, CacheTyped

LEMMA ReferencesStay ==
  ASSUME CacheTyped, OfOneSet, NEW i \in Cache!Maps, NEW new, Builds(i, new),
         UNCHANGED <<b_beatmapset, b_beatmap>>, b_last_np' \in Objects \cup {0},
         b_last_np' \in {b_last_np, 0} \/ new[b_last_np'].id = i
  PROVE  References(i, new)
<1>1. \A o \in Objects : b_objs[o].id = i => new[o].id = i
  BY HeldOf, Nothings
<1>2. b_beatmapset[i] = 0 \/ new[b_beatmapset[i]].id = i
  BY <1>1 DEF CacheTyped, OfOneSet
<1>3. \A x \in Cache!Keys : x[1] = i => b_beatmap[x] = 0 \/ new[b_beatmap[x]].id = i
  BY <1>1 DEF CacheTyped, OfOneSet
<1>4. QED
  BY <1>2, <1>3 DEF References, CacheTyped

LEMMA OfTask ==
  ASSUME CacheInv, NEW t \in Calls
  PROVE  /\ b_tasks[t] \in Errand /\ ErrandRight(b_tasks[t])
         /\ b_tasks[t].o # 0 => /\ b_tasks[t].o \in Objects /\ b_tasks[t].id \in Cache!Maps
                                /\ b_objs[b_tasks[t].o].id = b_tasks[t].id
                                /\ b_objs[b_tasks[t].o] \in MapObject
                                /\ b_objs[b_tasks[t].o].server = Cache!Server(b_tasks[t].id)
<1>1. b_tasks[t] \in Errand /\ ErrandRight(b_tasks[t])
  BY DEF CacheInv, CacheTyped
<1>2. ASSUME b_tasks[t].o # 0
      PROVE  /\ b_tasks[t].o \in Objects /\ b_tasks[t].id \in Cache!Maps
             /\ b_objs[b_tasks[t].o].id = b_tasks[t].id
             /\ b_objs[b_tasks[t].o] \in MapObject
  BY <1>1, <1>2, ErrandFields DEF CacheInv, OfOneSet, CacheTyped
<1>3. ASSUME b_tasks[t].o # 0
      PROVE  b_objs[b_tasks[t].o].server = Cache!Server(b_tasks[t].id)
  BY <1>2, <1>3, Nothings DEF CacheInv, OfOneSet
<1>4. QED
  BY <1>1, <1>2, <1>3

\* A request that is under way is the only one of a quiet map.
LEMMA SoleOne ==
  ASSUME NEW t \in Calls, Undisturbed(b_tasks[t].id)
  PROVE  Sole(t, b_tasks[t].id)
BY DEF Undisturbed, OneRequest, Sole, Of

\* Of a request under way: the step keeps the invariant if it is handled and its
\* map calm.
CalmStep(t, i, next, new) ==
  Calm(i, b_tasks[t], b_objs) /\ QuietMap(i) /\ QuietMap(i)' => Calm(i, next, new)'
LEMMA RequestUnderWay ==
  ASSUME CacheInv, NEW t \in Calls, NEW i, i = b_tasks[t].id, NEW next, NEW new,
         Handled(t, i, next, new), ErrandRight(next)', CalmStep(t, i, next, new)
  PROVE  CacheInv'
<1>1. i \in Cache!Maps /\ Files(i)
  BY DEF Handled, Sends
<1>2. ASSUME QuietMap(i)' PROVE Undisturbed(i)'
  <2>1. QuietMap(i)
    BY <1>1, <1>2, QuietBefore
  <2>2. Undisturbed(i)
    BY <1>1, <2>1 DEF CacheInv, Settled
  <2>3. Sole(t, i)
    BY <2>2, SoleOne
  <2>4. Calm(i, b_tasks[t], b_objs)
    BY <1>1, <2>2, <2>3, CalmBefore DEF CacheInv
  <2>5. Calm(i, next, new)'
    BY <1>2, <2>1, <2>4 DEF CalmStep
  <2>6. QED
    BY <2>3, <2>5, CalmAfter
<1>3. Settled(i)'
  BY <1>2 DEF Settled
<1>4. QED
  BY <1>3, HandledKeeps

\* What is handled by a step that leaves the caches alone.
LastNp(i, new) ==
  b_last_np' \in Objects \cup {0} /\ (b_last_np' \in {b_last_np, 0} \/ new[b_last_np'].id = i)
Gathers(new) == Cache!Collect(new) \/ b_objs' = new
LEMMA HandledBy ==
  ASSUME CacheInv, NEW t, NEW i, NEW next, NEW new, Sends(t, i, next), Files(i),
         Builds(i, new), UNCHANGED <<b_beatmapset, b_beatmap>>, LastNp(i, new),
         Holds(i, next, new), Gathers(new)
  PROVE  Handled(t, i, next, new)
<1>1. CacheTyped /\ OfOneSet /\ i \in Cache!Maps
  BY DEF CacheInv, Sends
<1>2. References(i, new)
  BY <1>1, ReferencesStay DEF LastNp
<1>3. HeldStay(new)
  BY <1>1, <1>2, KeptWhileHeld, Unheld DEF Gathers
<1>4. QED
  BY <1>2, <1>3 DEF Handled

LEMMA LookUpRowKeeps ==
  ASSUME CacheInv, NEW t \in Calls, Cache!LookUpRow(t)
  PROVE  CacheInv'
<1>1. PICK k \in Errand : k = b_tasks[t]
  BY OfTask
<1>2. ErrandRight(k) /\ k.pc = "row" /\ k.op = "look-up" /\ k.o = 0
  BY <1>1, OfTask DEF Cache!LookUpRow, Cache!At, ErrandRight
<1>3. k.id \in Cache!Maps
  BY <1>2 DEF ErrandRight
<1>4. PICK i, new : i = k.id /\ new = b_objs
  OBVIOUS
<1>5. PICK next : /\ next = [k EXCEPT !.pc = "set"] \/ next = Cache!NoTask
                  /\ b_tasks' = [b_tasks EXCEPT ![t] = next] /\ b_last_np' \in {b_last_np, 0}
  BY <1>1, Nothings DEF Cache!LookUpRow, Cache!Goto, Cache!Found
<1>6. /\ next \in Errand /\ next.o = 0 /\ next.id \in {0, i} /\ next.pc \in {"set", ""}
      /\ (next.pc = "set" /\ next.op = "look-up" /\ next.id = i) \/ next = Cache!NoTask
  BY <1>2, <1>4, <1>5, Nothings DEF Errand
<1>7. Sends(t, i, next)
  BY <1>1, <1>3, <1>4, <1>5, <1>6 DEF Sends
<1>8. Files(i) /\ UNCHANGED <<b_rows, b_mapsets, b_decided, b_beatmapset, b_beatmap>>
  BY <1>3, <1>4, SameFiles DEF Cache!LookUpRow, CacheInv, Cache!SameCaches
<1>9. Builds(i, new) /\ LastNp(i, new) /\ Holds(i, next, new)
  BY <1>4, <1>5, <1>6, SameObjects DEF CacheInv, CacheTyped, LastNp, Holds
<1>10. Gathers(new)
  BY <1>4 DEF Cache!LookUpRow, Gathers
<1>11. Handled(t, i, next, new)
  BY <1>7, <1>8, <1>9, <1>10, HandledBy
<1>12. ErrandRight(next)'
  BY <1>3, <1>4, <1>6, Nothings DEF ErrandRight, Resources, Removing
<1>13. CalmStep(t, i, next, new)
  BY <1>1, <1>2, <1>4, <1>5, <1>6, <1>8 DEF CalmStep, Calm, OneCached, Loved
<1>14. QED
  BY <1>1, <1>4, <1>11, <1>12, <1>13, RequestUnderWay

Pcs == {"", "row", "set", "new", "set scope", "map scope", "commit", "evict"} \cup Resources
LEMMA PcFields ==
  ASSUME NEW k \in Errand, NEW pc \in Pcs, NEW next, next = [k EXCEPT !.pc = pc]
  PROVE  /\ next \in Errand /\ next.pc = pc
         /\ next.op = k.op /\ next.id = k.id /\ next.o = k.o /\ next.key = k.key
         /\ next.new = k.new /\ next.code = k.code /\ next.status = k.status /\ next.wipe = k.wipe
BY DEF Errand, Pcs

\* The osu!api lists m, and answers it, or that there is nothing, or not at all.
Answers(k, m, next) ==
  \E n \in {m, Cache!Absent}, c \in {404, 200, 503} :
    /\ next = [k EXCEPT !.pc = "answer", !.new = n, !.code = c]
    /\ c = 503 \/ n = m
LEMMA AnswerFields ==
  ASSUME NEW k \in Errand, NEW m \in MapEntry, NEW next, Answers(k, m, next)
  PROVE  /\ next \in Errand /\ next.pc = "answer"
         /\ next.op = k.op /\ next.id = k.id /\ next.o = k.o
         /\ \/ next.new = m /\ next.code \in {404, 200}
            \/ next.new \in {m, Cache!Absent} /\ next.code = 503
<1>1. PICK n \in {m, Cache!Absent}, c \in {404, 200, 503} :
        /\ next = [k EXCEPT !.pc = "answer", !.new = n, !.code = c]
        /\ c = 503 \/ n = m
  BY DEF Answers
<1>6. Cache!Absent \in MapEntry
  BY Nothings
<1>7. n = m \/ n = Cache!Absent
  OBVIOUS
<1>8. c = 404 \/ c = 200 \/ c = 503
  OBVIOUS
<1>4. n \in MapEntry /\ c \in Nat
  BY <1>6, <1>7, <1>8
<1>2. next \in Errand
  BY <1>1, <1>4 DEF Errand, Resources
<1>3. /\ next.pc = "answer" /\ next.new = n /\ next.code = c
      /\ next.op = k.op /\ next.id = k.id /\ next.o = k.o
  BY <1>1 DEF Errand
<1>5. QED
  BY <1>1, <1>2, <1>3

LEMMA CacheRight ==
  ASSUME NEW k, k.pc = "cache", k.op \in {"look-up", "refresh"}, k.o # 0, k.id \in Cache!Maps
  PROVE  ErrandRight(k)'
BY DEF ErrandRight, Resources, Removing

\* What the osu!api answers is what it lists, and what it does not list is lost.
LEMMA api_get_beatmapsKeeps ==
  ASSUME CacheInv, NEW t \in Calls, Cache!api_get_beatmaps(t)
  PROVE  CacheInv'
<1>1. PICK k \in Errand : k = b_tasks[t]
  BY OfTask
<1>2. ErrandRight(k) /\ k.pc = "api" /\ k.op \in {"look-up", "refresh"} /\ k.o # 0
  BY <1>1, OfTask DEF Cache!api_get_beatmaps, Cache!At, ErrandRight, Resources
<1>3. k.id \in Cache!Maps /\ b_objs[k.o].id = k.id /\ b_objs[k.o].server = Cache!Server(k.id)
  BY <1>1, <1>2, OfTask
<1>4. PICK i, new : i = k.id /\ new = b_objs
  OBVIOUS
<1>5. PICK m \in MapEntry : m = b_upstream[i]
  BY <1>3, <1>4 DEF CacheInv, CacheTyped
<1>6. PICK next : /\ \/ next = [k EXCEPT !.pc = "cache"]
                     \/ b_objs[k.o].server = "osu!" /\ Answers(k, m, next)
                  /\ b_tasks' = [b_tasks EXCEPT ![t] = next]
  <2>1. \/ b_tasks' = [b_tasks EXCEPT ![t] = [k EXCEPT !.pc = "cache"]]
        \/ /\ b_objs[k.o].server = "osu!"
           /\ \/ b_tasks' = [b_tasks EXCEPT ![t] = [k EXCEPT !.pc = "answer", !.new = m,
                                !.code = IF m = Cache!Absent THEN 404 ELSE 200]]
              \/ b_tasks' = [b_tasks EXCEPT ![t] = [k EXCEPT !.pc = "answer",
                                !.new = Cache!Absent, !.code = 503]]
    BY <1>1, <1>4, <1>5 DEF Cache!api_get_beatmaps, Cache!Goto, Cache!Set
  <2>2. Answers(k, m, [k EXCEPT !.pc = "answer", !.new = m,
                                !.code = IF m = Cache!Absent THEN 404 ELSE 200])
    BY ZenonT(60) DEF Answers
  <2>3. Answers(k, m, [k EXCEPT !.pc = "answer", !.new = Cache!Absent, !.code = 503])
    BY DEF Answers
  <2>4. QED
    BY ZenonT(60), <2>1, <2>2, <2>3
<1>7. /\ next \in Errand
      /\ next.o = k.o /\ next.id = i /\ next.pc \in {"cache", "answer"} /\ next.op = k.op
  <2>1. CASE next = [k EXCEPT !.pc = "cache"]
    <3>1. PICK pc \in Pcs : pc = "cache"
      BY DEF Pcs, Resources
    <3>2. QED
      BY <2>1, <1>4, <3>1, PcFields
  <2>2. CASE Answers(k, m, next)
    BY <2>2, <1>4, AnswerFields
  <2>3. QED
    BY <1>6, <2>1, <2>2
<1>8. next.pc = "answer" =>
        /\ b_objs[k.o].server = "osu!"
        /\ \/ next.new = m /\ next.code \in {404, 200}
           \/ next.new \in {m, Cache!Absent} /\ next.code = 503
  <2>1. CASE next = [k EXCEPT !.pc = "cache"]
    <3>1. PICK pc \in Pcs : pc = "cache"
      BY DEF Pcs, Resources
    <3>2. next.pc = pc
      BY <2>1, <3>1, PcFields
    <3>3. QED
      BY <3>1, <3>2
  <2>2. CASE Answers(k, m, next)
    BY <2>2, <1>6, <2>1, AnswerFields
  <2>3. QED
    BY <1>6, <2>1, <2>2
<1>9. Sends(t, i, next)
  BY <1>1, <1>3, <1>4, <1>6, <1>7 DEF Sends
<1>10. Files(i) /\ UNCHANGED <<b_upstream, b_lost, b_rows, b_mapsets, b_decided, b_beatmapset,
                               b_beatmap, b_last_np, b_objs>>
  BY <1>3, <1>4, SameFiles DEF Cache!api_get_beatmaps, CacheInv, Cache!SameCaches
<1>11. Builds(i, new) /\ LastNp(i, new) /\ Holds(i, next, new)
  BY <1>3, <1>4, <1>7, <1>10, SameObjects DEF CacheInv, CacheTyped, LastNp, Holds
<1>12. Gathers(new)
  BY <1>4, <1>10 DEF Gathers
<1>13. Handled(t, i, next, new)
  BY <1>9, <1>10, <1>11, <1>12, HandledBy
<1>14. next.pc = "answer" => i \in Mirrored
  BY <1>3, <1>4, <1>8 DEF Cache!Server, Cache!Maps
<1>15. next.pc = "answer" =>
         /\ next.new = Cache!Absent /\ next.code \in {404, 200} => i \in b_lost
         /\ next.new # Cache!Absent => next.new.v # -1 /\ next.new.v <= b_upstream[i].v
  <2> SUFFICES ASSUME next.pc = "answer"
      PROVE  /\ next.new = Cache!Absent /\ next.code \in {404, 200} => i \in b_lost
             /\ next.new # Cache!Absent => next.new.v # -1 /\ next.new.v <= b_upstream[i].v
    OBVIOUS
  <2>1. m = Cache!Absent => i \in b_lost
    BY <1>3, <1>4, <1>5, <1>14, Nothings, MapsAssumption DEF CacheInv, ListedOrLost
  <2>2. m # Cache!Absent => m.v # -1
    BY <1>3, <1>4, <1>5 DEF CacheInv, ListedOrLost
  <2>3. m.v <= m.v
    BY EntryFields, MapsAssumption DEF Cache!Versions
  <2>4. QED
    BY <1>5, <1>8, <2>1, <2>2, <2>3
<1>16. ErrandRight(next)'
  <2>1. CASE next.pc = "cache"
    BY <2>1, <1>2, <1>3, <1>4, <1>7, CacheRight
  <2>2. CASE next.pc = "answer"
    BY <2>2, <1>2, <1>3, <1>4, <1>7, <1>10, <1>14, <1>15 DEF ErrandRight, Resources, Removing
  <2>3. QED
    BY <1>7, <2>1, <2>2
<1>17. CalmStep(t, i, next, new)
  BY <1>1, <1>2, <1>4, <1>7, <1>10 DEF CalmStep, Calm, OneCached, Loved
<1>18. QED
  BY <1>1, <1>4, <1>13, <1>16, <1>17, RequestUnderWay

LEMMA ResourceTask ==
  ASSUME CacheInv, NEW t \in Calls, NEW k, k = b_tasks[t], k.pc \in Resources
  PROVE  /\ k \in Errand /\ ErrandRight(k) /\ k.op \in {"look-up", "refresh"}
         /\ k.o # 0 /\ k.o \in Objects /\ k.id \in Cache!Maps
         /\ b_objs[k.o].id = k.id /\ b_objs[k.o] \in MapObject
         /\ b_objs[k.o].server = Cache!Server(k.id)
<1>1. k \in Errand /\ ErrandRight(k)
  BY OfTask
<1>2. k.op \in {"look-up", "refresh"} /\ k.o # 0
  BY <1>1 DEF ErrandRight
<1>3. QED
  BY <1>1, <1>2, OfTask

\* A request goes from one step to the next.
LEMMA Steps ==
  ASSUME CacheInv, NEW t \in Calls, NEW k \in Errand, k = b_tasks[t], k.id \in Cache!Maps,
         NEW pc \in Pcs, b_tasks' = [b_tasks EXCEPT ![t].pc = pc],
         NEW next, next = [k EXCEPT !.pc = pc]
  PROVE  Sends(t, k.id, next)
<1>1. b_tasks' = [b_tasks EXCEPT ![t] = next]
  OBVIOUS
<1>2. QED
  BY <1>1, PcFields DEF Sends

\* A map that is to be deleted is lost.
LEMMA RemovingRight ==
  ASSUME NEW k, k.pc \in Removing, k.op \in {"look-up", "refresh"}, k.o # 0, k.id \in Mirrored,
         k.id \in b_lost'
  PROVE  ErrandRight(k)'
BY DEF ErrandRight, Resources, Removing, Cache!Maps

LEMMA LostIsNotQuiet ==
  ASSUME NEW t, NEW i, NEW next, NEW new, i \in b_lost PROVE CalmStep(t, i, next, new)
BY DEF CalmStep, QuietMap

LEMMA SavingRight ==
  ASSUME NEW k, k.pc \in {"saveset", "save"}, k.op \in {"look-up", "refresh"}, k.o # 0,
         k.id \in Mirrored, b_objs'[k.o].map.v # -1
  PROVE  ErrandRight(k)'
BY DEF ErrandRight, Resources, Removing, Cache!Maps

\* The set is written first, then the map.
LEMMA SaveSetKeeps ==
  ASSUME CacheInv, NEW t \in Calls, Cache!SaveSet(t)
  PROVE  CacheInv'
<1>0. PICK pc \in Pcs : pc = "save"
  BY DEF Pcs, Resources
<1>1. PICK k, new : k = b_tasks[t] /\ new = b_objs
  OBVIOUS
<1>2. k.pc = "saveset"
  BY <1>1 DEF Cache!SaveSet, Cache!At
<1>3. /\ k \in Errand /\ ErrandRight(k) /\ k.op \in {"look-up", "refresh"}
      /\ k.o # 0 /\ k.o \in Objects /\ k.id \in Cache!Maps /\ b_objs[k.o].id = k.id
  BY <1>1, <1>2, ResourceTask DEF Resources
<1>4. k.id \in Mirrored /\ b_objs[k.o].map.v # -1
  BY <1>2, <1>3 DEF ErrandRight, Resources, Removing
<1>5. PICK i : i = k.id
  OBVIOUS
<1>6. PICK next : next = [k EXCEPT !.pc = pc]
  OBVIOUS
<1>7. /\ next \in Errand /\ next.pc = "save"
      /\ next.op = k.op /\ next.id = i /\ next.o = k.o
  BY <1>0, <1>3, <1>5, <1>6, PcFields
<1>8. Sends(t, i, next)
  BY <1>0, <1>1, <1>3, <1>5, <1>6, Steps DEF Cache!SaveSet, Cache!Goto
<1>9. /\ b_mapsets' = b_mapsets \cup {i}
      /\ UNCHANGED <<b_upstream, b_rows, b_lost, b_mixed, b_decided, b_beatmapset, b_beatmap,
                     b_last_np, b_objs>>
  BY <1>1, <1>5 DEF Cache!SaveSet
<1>10. Files(i)
  BY <1>3, <1>5, <1>9 DEF Files, CacheInv, CacheTyped
<1>11. Builds(i, new) /\ LastNp(i, new) /\ Holds(i, next, new) /\ Gathers(new)
  BY <1>1, <1>3, <1>5, <1>7, <1>9, SameObjects DEF CacheInv, CacheTyped, LastNp, Holds, Gathers
<1>12. Handled(t, i, next, new)
  BY <1>8, <1>9, <1>10, <1>11, HandledBy
<1>13. ErrandRight(next)'
  BY <1>3, <1>4, <1>5, <1>7, <1>9, SavingRight
<1>14. CalmStep(t, i, next, new)
  BY <1>1, <1>2, <1>3, <1>5, <1>7, <1>9 DEF CalmStep, Calm, OneCached, Loved
<1>15. QED
  BY <1>1, <1>5, <1>12, <1>13, <1>14, RequestUnderWay

\* The row is what the object is: of a quiet map, with the decision.
LEMMA _save_to_sqlKeeps ==
  ASSUME CacheInv, NEW t \in Calls, Cache!_save_to_sql(t)
  PROVE  CacheInv'
<1>0. PICK pc \in Pcs : pc = "cache"
  BY DEF Pcs, Resources
<1>1. PICK k, new : k = b_tasks[t] /\ new = b_objs
  OBVIOUS
<1>2. k.pc = "save"
  BY <1>1 DEF Cache!_save_to_sql, Cache!At
<1>3. /\ k \in Errand /\ ErrandRight(k) /\ k.op \in {"look-up", "refresh"}
      /\ k.o # 0 /\ k.o \in Objects /\ k.id \in Cache!Maps /\ b_objs[k.o].id = k.id
      /\ b_objs[k.o] \in MapObject
  BY <1>1, <1>2, ResourceTask DEF Resources
<1>4. b_objs[k.o].map.v # -1
  BY <1>2, <1>3 DEF ErrandRight
<1>5. PICK i : i = k.id
  OBVIOUS
<1>6. PICK next : next = [k EXCEPT !.pc = pc]
  OBVIOUS
<1>7. /\ next \in Errand /\ next.pc = "cache"
      /\ next.op = k.op /\ next.id = i /\ next.o = k.o
  BY <1>0, <1>3, <1>5, <1>6, PcFields
<1>8. Sends(t, i, next)
  BY <1>0, <1>1, <1>3, <1>5, <1>6, Steps DEF Cache!_save_to_sql, Cache!Goto
<1>16. PICK m \in MapEntry : m = b_objs[k.o].map
  BY <1>3, ObjectFields
<1>9. /\ b_rows' = [b_rows EXCEPT ![i] = m]
      /\ UNCHANGED <<b_upstream, b_mapsets, b_lost, b_mixed, b_decided, b_beatmapset, b_beatmap,
                     b_last_np, b_objs>>
  BY <1>1, <1>5, <1>16 DEF Cache!_save_to_sql
<1>10. Files(i) /\ b_rows'[i] = m
  BY <1>3, <1>4, <1>5, <1>9, <1>16 DEF Files, CacheInv, CacheTyped
<1>11. Builds(i, new) /\ LastNp(i, new) /\ Holds(i, next, new) /\ Gathers(new)
  BY <1>1, <1>3, <1>5, <1>7, <1>9, SameObjects DEF CacheInv, CacheTyped, LastNp, Holds, Gathers
<1>12. Handled(t, i, next, new)
  BY <1>8, <1>9, <1>10, <1>11, HandledBy
<1>13. ErrandRight(next)'
  BY <1>3, <1>5, <1>7, CacheRight
<1>14. CalmStep(t, i, next, new)
  <2>1. m # Cache!Absent
    BY <1>4, <1>16, Nothings
  <2>2. SUFFICES ASSUME Calm(i, k, new) PROVE Calm(i, next, new)'
    BY <1>1 DEF CalmStep
  <2>3. /\ m.v = 0 /\ \A o \in Objects : new[o].id = i => new[o].map.v = 0
    BY <1>1, <1>3, <1>5, <1>16, <2>2 DEF Calm
  <2>4. OneCached(i)'
    BY <1>9, <2>2 DEF Calm, OneCached
  <2>5. b_decided[i] # "undecided" =>
          Loved(m) /\ (b_beatmapset[i] # 0 => Loved(new[b_beatmapset[i]].map))
    BY <1>1, <1>3, <1>5, <1>16, <2>2 DEF Calm
  <2>6. QED
    BY <1>1, <1>7, <1>9, <1>10, <1>16, <2>1, <2>3, <2>4, <2>5 DEF Calm, Loved
<1>15. QED
  BY <1>1, <1>5, <1>12, <1>13, <1>14, RequestUnderWay

\* Nothing is deleted but what is lost.
LEMMA DeleteMapsKeeps ==
  ASSUME CacheInv, NEW t \in Calls, Cache!DeleteMaps(t)
  PROVE  /\ CacheInv'
         /\ b_tasks[t].id \in Mirrored \cap b_lost
<1>0. PICK pc \in Pcs : pc = "deletescores"
  BY DEF Pcs, Resources, Removing
<1>1. PICK k, new : k = b_tasks[t] /\ new = b_objs
  OBVIOUS
<1>2. k.pc = "delete"
  BY <1>1 DEF Cache!DeleteMaps, Cache!At
<1>3. /\ k \in Errand /\ ErrandRight(k) /\ k.op \in {"look-up", "refresh"}
      /\ k.o # 0 /\ k.o \in Objects /\ k.id \in Cache!Maps /\ b_objs[k.o].id = k.id
  BY <1>1, <1>2, ResourceTask DEF Resources, Removing
<1>4. k.id \in Mirrored /\ k.id \in b_lost
  BY <1>2, <1>3 DEF ErrandRight, Resources, Removing
<1>5. PICK i : i = k.id
  OBVIOUS
<1>6. PICK next : next = [k EXCEPT !.pc = pc]
  OBVIOUS
<1>7. /\ next \in Errand /\ next.pc = "deletescores"
      /\ next.op = k.op /\ next.id = i /\ next.o = k.o
  BY <1>0, <1>3, <1>5, <1>6, PcFields
<1>8. Sends(t, i, next)
  BY <1>0, <1>1, <1>3, <1>5, <1>6, Steps DEF Cache!DeleteMaps, Cache!Goto
<1>9. /\ b_rows' = [b_rows EXCEPT ![i] = Cache!Absent] \/ b_rows' = b_rows
      /\ UNCHANGED <<b_upstream, b_mapsets, b_lost, b_mixed, b_decided, b_beatmapset, b_beatmap,
                     b_last_np, b_objs>>
  BY <1>1, <1>5 DEF Cache!DeleteMaps, Cache!delete_mirrored
<1>10. Files(i)
  BY ZenonT(60), <1>3, <1>5, <1>9, Nothings DEF Files, CacheInv, CacheTyped
<1>11. Builds(i, new) /\ LastNp(i, new) /\ Holds(i, next, new) /\ Gathers(new)
  BY <1>1, <1>3, <1>5, <1>7, <1>9, SameObjects DEF CacheInv, CacheTyped, LastNp, Holds, Gathers
<1>12. Handled(t, i, next, new)
  BY <1>8, <1>9, <1>10, <1>11, HandledBy
<1>13. ErrandRight(next)'
  BY <1>3, <1>4, <1>5, <1>7, <1>9, RemovingRight DEF Removing
<1>14. CalmStep(t, i, next, new)
  BY <1>4, <1>5, LostIsNotQuiet
<1>15. CacheInv'
  BY <1>1, <1>5, <1>12, <1>13, <1>14, RequestUnderWay
<1>16. QED
  BY <1>1, <1>4, <1>15

LEMMA DeleteScoresKeeps ==
  ASSUME CacheInv, NEW t \in Calls, Cache!DeleteScores(t)
  PROVE  /\ CacheInv'
         /\ b_tasks[t].id \in Mirrored \cap b_lost
<1>0. PICK pc \in Pcs : pc = "deleteset"
  BY DEF Pcs, Resources, Removing
<1>1. PICK k, new : k = b_tasks[t] /\ new = b_objs
  OBVIOUS
<1>2. k.pc = "deletescores"
  BY <1>1 DEF Cache!DeleteScores, Cache!At
<1>3. /\ k \in Errand /\ ErrandRight(k) /\ k.op \in {"look-up", "refresh"}
      /\ k.o # 0 /\ k.o \in Objects /\ k.id \in Cache!Maps /\ b_objs[k.o].id = k.id
  BY <1>1, <1>2, ResourceTask DEF Resources, Removing
<1>4. k.id \in Mirrored /\ k.id \in b_lost
  BY <1>2, <1>3 DEF ErrandRight, Resources, Removing
<1>5. PICK i : i = k.id
  OBVIOUS
<1>6. PICK next : next = [k EXCEPT !.pc = pc]
  OBVIOUS
<1>7. /\ next \in Errand /\ next.pc = "deleteset"
      /\ next.op = k.op /\ next.id = i /\ next.o = k.o
  BY <1>0, <1>3, <1>5, <1>6, PcFields
<1>8. Sends(t, i, next)
  BY <1>0, <1>1, <1>3, <1>5, <1>6, Steps DEF Cache!DeleteScores, Cache!Goto
<1>9. UNCHANGED <<b_upstream, b_rows, b_mapsets, b_lost, b_mixed, b_decided, b_beatmapset,
                  b_beatmap, b_last_np, b_objs>>
  BY DEF Cache!DeleteScores
<1>10. Files(i)
  BY <1>3, <1>5, <1>9, SameFiles DEF CacheInv
<1>11. Builds(i, new) /\ LastNp(i, new) /\ Holds(i, next, new) /\ Gathers(new)
  BY <1>1, <1>3, <1>5, <1>7, <1>9, SameObjects DEF CacheInv, CacheTyped, LastNp, Holds, Gathers
<1>12. Handled(t, i, next, new)
  BY <1>8, <1>9, <1>10, <1>11, HandledBy
<1>13. ErrandRight(next)'
  BY <1>3, <1>4, <1>5, <1>7, <1>9, RemovingRight DEF Removing
<1>14. CalmStep(t, i, next, new)
  BY <1>4, <1>5, LostIsNotQuiet
<1>15. CacheInv'
  BY <1>1, <1>5, <1>12, <1>13, <1>14, RequestUnderWay
<1>16. QED
  BY <1>1, <1>4, <1>15

LEMMA DeleteSetKeeps ==
  ASSUME CacheInv, NEW t \in Calls, Cache!DeleteSet(t)
  PROVE  CacheInv'
<1>0. PICK pc \in Pcs : pc = "cache"
  BY DEF Pcs, Resources, Removing
<1>1. PICK k, new : k = b_tasks[t] /\ new = b_objs
  OBVIOUS
<1>2. k.pc = "deleteset"
  BY <1>1 DEF Cache!DeleteSet, Cache!At
<1>3. /\ k \in Errand /\ ErrandRight(k) /\ k.op \in {"look-up", "refresh"}
      /\ k.o # 0 /\ k.o \in Objects /\ k.id \in Cache!Maps /\ b_objs[k.o].id = k.id
  BY <1>1, <1>2, ResourceTask DEF Resources, Removing
<1>4. k.id \in Mirrored /\ k.id \in b_lost
  BY <1>2, <1>3 DEF ErrandRight, Resources, Removing
<1>5. PICK i : i = k.id
  OBVIOUS
<1>6. PICK next : next = [k EXCEPT !.pc = pc]
  OBVIOUS
<1>7. /\ next \in Errand /\ next.pc = "cache"
      /\ next.op = k.op /\ next.id = i /\ next.o = k.o
  BY <1>0, <1>3, <1>5, <1>6, PcFields
<1>8. Sends(t, i, next)
  BY <1>0, <1>1, <1>3, <1>5, <1>6, Steps DEF Cache!DeleteSet, Cache!Goto
<1>9. /\ b_mapsets' \in {b_mapsets, b_mapsets \ {i}}
      /\ UNCHANGED <<b_upstream, b_rows, b_lost, b_mixed, b_decided, b_beatmapset,
                     b_beatmap, b_last_np, b_objs>>
  BY <1>1, <1>5 DEF Cache!DeleteSet
<1>10. Files(i)
  BY <1>3, <1>5, <1>9 DEF Files, CacheInv, CacheTyped
<1>11. Builds(i, new) /\ LastNp(i, new) /\ Holds(i, next, new) /\ Gathers(new)
  BY <1>1, <1>3, <1>5, <1>7, <1>9, SameObjects DEF CacheInv, CacheTyped, LastNp, Holds, Gathers
<1>12. Handled(t, i, next, new)
  BY <1>8, <1>9, <1>10, <1>11, HandledBy
<1>13. ErrandRight(next)'
  BY <1>3, <1>5, <1>7, CacheRight
<1>14. CalmStep(t, i, next, new)
  BY <1>4, <1>5, LostIsNotQuiet
<1>15. QED
  BY <1>1, <1>5, <1>12, <1>13, <1>14, RequestUnderWay

\* The osu!api's data is parsed: the version is the osu!api's, and the status
\* too unless it is frozen.
Parsed(old, answer) ==
  IF answer.v = old.v /\ answer.status = old.status THEN old
  ELSE [v |-> answer.v, frozen |-> old.frozen, status |-> IF old.frozen THEN old.status ELSE answer.status]
LEMMA ParsedFields ==
  ASSUME NEW old \in MapEntry, NEW answer \in MapEntry
  PROVE  /\ Parsed(old, answer) \in MapEntry /\ Parsed(old, answer).v = answer.v
         /\ Loved(old) => Loved(Parsed(old, answer))
BY DEF Parsed, MapEntry, Loved

LEMMA RefreshedObject ==
  ASSUME CacheTyped, NEW o \in Objects, NEW m \in MapEntry, NEW new,
         new = [b_objs EXCEPT ![o].map = m, ![o].expired = FALSE]
  PROVE  /\ new \in [Objects -> MapObject]
         /\ new[o].map = m /\ new[o].id = b_objs[o].id /\ new[o].server = b_objs[o].server
         /\ \A p \in Objects : p # o => new[p] = b_objs[p]
<1>1. PICK q \in MapObject : q = [b_objs[o] EXCEPT !.map = m, !.expired = FALSE]
  <2>1. b_objs[o] \in MapObject
    BY DEF CacheTyped
  <2>2. [b_objs[o] EXCEPT !.map = m, !.expired = FALSE] \in MapObject
    BY <2>1 DEF MapObject
  <2>3. QED
    BY <2>2
<1>2. new = [b_objs EXCEPT ![o] = q]
  BY <1>1 DEF CacheTyped
<1>3. q.map = m /\ q.id = b_objs[o].id /\ q.server = b_objs[o].server
  BY <1>1 DEF CacheTyped, MapObject
<1>4. QED
  BY <1>2, <1>3 DEF CacheTyped

LEMMA _update_if_availableKeeps ==
  ASSUME CacheInv, NEW t \in Calls, Cache!_update_if_available(t)
  PROVE  CacheInv'
<1>1. PICK k : k = b_tasks[t]
  OBVIOUS
<1>2. k.pc = "answer"
  BY <1>1 DEF Cache!_update_if_available, Cache!At
<1>3. /\ k \in Errand /\ ErrandRight(k) /\ k.op \in {"look-up", "refresh"}
      /\ k.o # 0 /\ k.o \in Objects /\ k.id \in Cache!Maps /\ b_objs[k.o].id = k.id
      /\ b_objs[k.o] \in MapObject /\ b_objs[k.o].server = Cache!Server(k.id)
  BY <1>1, <1>2, ResourceTask DEF Resources
<1>4. /\ k.id \in Mirrored
      /\ k.new = Cache!Absent /\ k.code \in {404, 200} => k.id \in b_lost
      /\ k.new # Cache!Absent => /\ k.new.v # -1
                                 /\ k.id \in b_lost \/ k.new.v <= b_upstream[k.id].v
  BY <1>2, <1>3 DEF ErrandRight, Resources, Removing
<1>5. PICK i : i = k.id
  OBVIOUS
<1>6. PICK old \in MapEntry : old = b_objs[k.o].map
  BY <1>3, ObjectFields
<1>7. PICK m \in MapEntry : m = Parsed(old, k.new) /\ m.v = k.new.v /\ (Loved(old) => Loved(m))
  BY <1>3, ErrandFields, ParsedFields
<1>8. /\ UNCHANGED <<b_upstream, b_rows, b_mapsets, b_lost, b_mixed, b_decided, b_beatmapset,
                     b_beatmap, b_last_np>>
      /\ \/ /\ k.new # Cache!Absent
            /\ b_tasks' = [b_tasks EXCEPT ![t].pc = "saveset"]
            /\ Cache!Collect([b_objs EXCEPT ![k.o].map = m, ![k.o].expired = FALSE])
         \/ /\ k.new = Cache!Absent /\ k.code \in {404, 200}
            /\ b_tasks' = [b_tasks EXCEPT ![t] = [k EXCEPT !.pc = "delete", !.wipe = old.v]]
            /\ Cache!Collect(b_objs)
         \/ /\ k.new = Cache!Absent
            /\ b_tasks' = [b_tasks EXCEPT ![t].pc = "cache"]
            /\ Cache!Collect(b_objs)
  BY SMTT(60), <1>1, <1>6, <1>7 DEF Cache!_update_if_available, Parsed, Cache!_parse_from_osuapi_resp,
       Cache!SameCaches, Cache!Goto, Cache!Set
<1>9. Files(i)
  BY <1>3, <1>5, <1>8, SameFiles DEF CacheInv
<1>10. CASE /\ k.new # Cache!Absent
            /\ b_tasks' = [b_tasks EXCEPT ![t].pc = "saveset"]
            /\ Cache!Collect([b_objs EXCEPT ![k.o].map = m, ![k.o].expired = FALSE])
  <2>1. PICK new : new = [b_objs EXCEPT ![k.o].map = m, ![k.o].expired = FALSE]
    OBVIOUS
  <2>2. /\ new \in [Objects -> MapObject]
        /\ new[k.o].map = m /\ new[k.o].id = i /\ new[k.o].server = Cache!Server(i)
        /\ \A p \in Objects : p # k.o => new[p] = b_objs[p]
    BY <1>3, <1>5, <2>1, RefreshedObject DEF CacheInv
  <2>3. PICK pc \in Pcs : pc = "saveset"
    BY DEF Pcs, Resources
  <2>4. PICK next : next = [k EXCEPT !.pc = pc]
    OBVIOUS
  <2>5. /\ next \in Errand /\ next.pc = "saveset"
        /\ next.op = k.op /\ next.id = i /\ next.o = k.o
    BY <1>3, <1>5, <2>3, <2>4, PcFields
  <2>6. Sends(t, i, next)
    BY <1>1, <1>3, <1>5, <1>10, <2>3, <2>4, Steps
  <2>7. m.v # -1
    BY <1>4, <1>7, <1>10
  <2>8. Builds(i, new)
    BY <1>3, <1>5, <2>2, <2>7 DEF Builds
  <2>9. Gathers(new)
    BY <1>10, <2>1 DEF Gathers
  <2>10. LastNp(i, new) /\ Holds(i, next, new)
    BY <1>8, <2>2, <2>5 DEF CacheInv, CacheTyped, LastNp, Holds
  <2>11. Handled(t, i, next, new)
    BY <1>8, <1>9, <2>6, <2>8, <2>9, <2>10, HandledBy
  <2>12. new[k.o] = b_objs'[k.o]
    BY <1>3, <2>5, <2>11, Others DEF Handled, HeldStay, CacheInv
  <2>13. ErrandRight(next)'
    BY <1>3, <1>4, <1>5, <2>2, <2>5, <2>7, <2>12, SavingRight
  <2>14. CalmStep(t, i, next, new)
    <3>1. SUFFICES ASSUME Calm(i, k, b_objs), QuietMap(i) PROVE Calm(i, next, new)'
      BY <1>1 DEF CalmStep
    <3>2. m.v = 0
      <4>1. b_upstream[i].v <= 0 /\ i \notin b_lost
        BY <3>1 DEF QuietMap
      <4>2. b_upstream[i] \in MapEntry
        BY <1>3, <1>5 DEF CacheInv, CacheTyped
      <4>3. b_upstream[i].v \in Int /\ m.v \in Int /\ m.v >= -1
        BY <4>2, EntryFields, MapsAssumption DEF Cache!Versions
      <4>4. QED
        BY <1>4, <1>5, <1>7, <1>10, <2>7, <4>1, <4>3
    <3>3. \A o \in Objects : new[o].id = i => new[o].map.v = 0
      BY <2>2, <3>1, <3>2 DEF Calm
    <3>4. OneCached(i)'
      BY <1>8, <3>1 DEF Calm, OneCached
    <3>5. b_decided[i] # "undecided" => Loved(b_rows[i]) /\ Loved(old)
      BY <1>3, <1>5, <1>6, <3>1 DEF Calm
    <3>6. b_decided[i] # "undecided" => Loved(b_rows[i]) /\ Loved(m)
      BY <1>7, <3>5
    <3>7. b_beatmapset[i] # 0 => b_beatmapset[i] \in Objects
      BY <1>3, <1>5 DEF CacheInv, CacheTyped
    <3>8. b_decided[i] # "undecided" /\ b_beatmapset[i] # 0 => Loved(new[b_beatmapset[i]].map)
      BY <2>2, <3>1, <3>6, <3>7 DEF Calm
    <3>9. /\ i \in b_mapsets => b_rows[i] # Cache!Absent
          /\ b_rows[i] # Cache!Absent
          /\ b_rows[i] = Cache!Absent \/ b_rows[i].v = 0
      BY <1>2, <1>3, <1>5, <3>1 DEF Calm
    <3>10. QED
      BY <1>3, <1>8, <2>2, <2>5, <3>3, <3>4, <3>6, <3>8, <3>9 DEF Calm, Loved
  <2>15. QED
    BY <1>1, <1>5, <2>11, <2>13, <2>14, RequestUnderWay
<1>11. PICK new : new = b_objs
  OBVIOUS
<1>12. Builds(i, new) /\ LastNp(i, new)
  BY <1>8, <1>11, SameObjects DEF CacheInv, CacheTyped, LastNp
<1>13. CASE /\ k.new = Cache!Absent /\ k.code \in {404, 200}
            /\ b_tasks' = [b_tasks EXCEPT ![t] = [k EXCEPT !.pc = "delete", !.wipe = old.v]]
            /\ Cache!Collect(b_objs)
  <2>1. PICK next : next = [k EXCEPT !.pc = "delete", !.wipe = old.v]
    OBVIOUS
  <2>2. next \in Errand
    BY <1>3, <1>6, <2>1, EntryFields DEF Errand, Resources, Removing
  <2>3. next.pc = "delete" /\ next.op = k.op /\ next.id = i /\ next.o = k.o
    BY <1>3, <1>5, <2>1 DEF Errand
  <2>4. Sends(t, i, next)
    BY <1>1, <1>3, <1>5, <1>13, <2>1, <2>2, <2>3 DEF Sends
  <2>5. Holds(i, next, new) /\ Gathers(new)
    BY <1>3, <1>5, <1>11, <1>13, <2>3 DEF Holds, Gathers
  <2>6. Handled(t, i, next, new)
    BY <1>8, <1>9, <1>12, <2>4, <2>5, HandledBy
  <2>7. i \in b_lost /\ i \in b_lost'
    BY <1>4, <1>5, <1>8, <1>13
  <2>8. ErrandRight(next)'
    BY <1>3, <1>4, <1>5, <2>3, <2>7, RemovingRight DEF Removing
  <2>9. CalmStep(t, i, next, new)
    BY <2>7, LostIsNotQuiet
  <2>10. QED
    BY <1>1, <1>5, <2>6, <2>8, <2>9, RequestUnderWay
<1>14. CASE /\ b_tasks' = [b_tasks EXCEPT ![t].pc = "cache"]
            /\ Cache!Collect(b_objs)
  <2>1. PICK pc \in Pcs : pc = "cache"
    BY DEF Pcs, Resources
  <2>2. PICK next : next = [k EXCEPT !.pc = pc]
    OBVIOUS
  <2>3. /\ next \in Errand /\ next.pc = "cache"
        /\ next.op = k.op /\ next.id = i /\ next.o = k.o
    BY <1>3, <1>5, <2>1, <2>2, PcFields
  <2>4. Sends(t, i, next)
    BY <1>1, <1>3, <1>5, <1>14, <2>1, <2>2, Steps
  <2>5. Holds(i, next, new) /\ Gathers(new)
    BY <1>3, <1>5, <1>11, <1>14, <2>3 DEF Holds, Gathers
  <2>6. Handled(t, i, next, new)
    BY <1>8, <1>9, <1>12, <2>4, <2>5, HandledBy
  <2>7. ErrandRight(next)'
    BY <1>3, <1>5, <2>3, CacheRight
  <2>8. CalmStep(t, i, next, new)
    BY <1>1, <1>2, <1>3, <1>5, <1>8, <1>11, <2>3 DEF CalmStep, Calm, OneCached, Loved
  <2>9. QED
    BY <1>1, <1>5, <2>6, <2>7, <2>8, RequestUnderWay
<1>15. QED
  BY <1>8, <1>10, <1>13, <1>14

\* A request that begins is the only one of a map that stays quiet.
StartStep(i, next, new) ==
  Calm(i, Cache!NoTask, b_objs) /\ QuietMap(i) => Calm(i, next, new)'
LEMMA Started ==
  ASSUME CacheInv, NEW t \in Calls, NEW i, b_tasks[t] = Cache!NoTask, NEW next, NEW new,
         Handled(t, i, next, new), ErrandRight(next)', StartStep(i, next, new),
         b_mixed' = b_mixed \cup (IF \E s \in Calls : b_tasks[s].id = i THEN {i} ELSE {})
  PROVE  CacheInv'
<1>1. i \in Cache!Maps /\ Files(i)
  BY DEF Handled, Sends
<1>2. ASSUME QuietMap(i)' PROVE Undisturbed(i)'
  <2>1. QuietMap(i)
    BY <1>1, <1>2, QuietBefore
  <2>2. Undisturbed(i)
    BY <1>1, <2>1 DEF CacheInv, Settled
  <2>3. Sole(t, i)
    BY <1>2 DEF QuietMap, Sole
  <2>4. Calm(i, b_tasks[t], b_objs)
    BY <1>1, <2>2, <2>3, CalmBefore DEF CacheInv
  <2>5. Calm(i, next, new)'
    BY <2>1, <2>4 DEF StartStep
  <2>6. QED
    BY <2>3, <2>5, CalmAfter
<1>3. Settled(i)'
  BY <1>2 DEF Settled
<1>4. QED
  BY <1>3, HandledKeeps

LEMMA IdleIsNone ==
  ASSUME CacheInv, NEW t \in Calls, b_tasks[t].op = "idle"
  PROVE  b_tasks[t] = Cache!NoTask
BY OfTask DEF ErrandRight

LEMMA IdleSends ==
  ASSUME NEW t \in Calls, NEW i \in Cache!Maps, NEW next \in Errand, next.id \in {0, i},
         b_tasks[t] = Cache!NoTask, b_tasks' = [b_tasks EXCEPT ![t] = next]
  PROVE  Sends(t, i, next)
BY Nothings DEF Sends

\* A map of a quiet set that is cached is the cached set's.
LEMMA CachedHit ==
  ASSUME CacheTyped, NEW i \in Cache!Maps, OneCached(i), NEW v \in Cache!Versions \cup {-1},
         b_beatmap[<<i, v>>] # 0
  PROVE  b_beatmapset[i] = b_beatmap[<<i, v>>]
<1>1. v = -1 \/ v = 0 \/ v \in 1 .. MaxVersion
  BY MapsAssumption DEF Cache!Versions
<1>2. QED
  BY <1>1 DEF OneCached

LEMMA CachedOf ==
  ASSUME CacheInv, NEW i \in Cache!Maps, NEW v \in Cache!Versions \cup {-1},
         b_beatmap[<<i, v>>] # 0
  PROVE  /\ b_beatmap[<<i, v>>] \in Objects /\ b_objs[b_beatmap[<<i, v>>]].id = i
<1>1. <<i, v>> \in Cache!Keys
  BY Nothings DEF Cache!Keys
<1>2. QED
  BY <1>1 DEF CacheInv, CacheTyped, OfOneSet

\* From the cache, unless the set has expired.
LEMMA from_cacheKeeps ==
  ASSUME CacheInv, NEW t \in Calls, NEW i \in Cache!Maps, NEW v \in Cache!Versions \cup {-1},
         Cache!from_cache(t, i, <<i, v>>)
  PROVE  CacheInv'
<1>1. b_tasks[t] = Cache!NoTask
  BY IdleIsNone DEF Cache!from_cache, Cache!Begin
<1>2. PICK key, new, hit : key = <<i, v>> /\ new = b_objs /\ hit = b_beatmap[key]
  OBVIOUS
<1>3. /\ UNCHANGED <<b_upstream, b_rows, b_mapsets, b_lost, b_decided, b_beatmapset, b_beatmap>>
      /\ Cache!Collect(b_objs) /\ b_mixed \subseteq b_mixed'
  BY DEF Cache!from_cache, Cache!SameCaches, Cache!Begin
<1>4. Files(i) /\ Builds(i, new) /\ Gathers(new)
  BY <1>2, <1>3, SameFiles, SameObjects DEF CacheInv, Gathers
<1>5. hit # 0 => hit \in Objects /\ b_objs[hit].id = i
  BY <1>2, CachedOf
<1>6. b_last_np \in Objects \cup {0}
  BY DEF CacheInv, CacheTyped
<1>7. CASE hit = 0
  <2>1. PICK next : next = [Cache!NoTask EXCEPT !.op = "look-up", !.id = i, !.pc = "row", !.key = key]
    OBVIOUS
  <2>2. /\ b_tasks' = [b_tasks EXCEPT ![t] = next] /\ b_last_np' = b_last_np
        /\ next.id = i
        /\ b_mixed' = b_mixed \cup (IF \E s \in Calls : b_tasks[s].id = i THEN {i} ELSE {})
    <3>1. /\ Cache!Begin(t, [Cache!NoTask EXCEPT !.op = "look-up", !.id = i, !.pc = "row", !.key = key])
          /\ b_last_np' = b_last_np
      BY <1>2, <1>7, Nothings DEF Cache!from_cache
    <3>2. next.id = i
      BY <2>1 DEF Cache!NoTask
    <3>3. Cache!Begin(t, next)
      BY <3>1, <2>1
    <3>4. QED
      BY <3>1, <3>2, <3>3 DEF Cache!Begin, Cache!Set
  <2>3. next \in Errand
    <3>1. key \in (Cache!Maps \cup {0}) \X (Cache!Versions \cup {-1})
      BY <1>2
    <3>2. QED
      BY <2>1, <3>1, Nothings DEF Errand
  <2>4. next.o = 0 /\ next.pc = "row" /\ next.op = "look-up"
    BY <2>1 DEF Cache!NoTask, Cache!None
  <2>5. Sends(t, i, next)
    BY <1>1, <2>2, <2>3, IdleSends
  <2>6. LastNp(i, new) /\ Holds(i, next, new)
    BY <1>6, <2>2, <2>4 DEF LastNp, Holds
  <2>7. Handled(t, i, next, new)
    BY <1>3, <1>4, <2>5, <2>6, HandledBy
  <2>8. ErrandRight(next)'
    BY <2>2, <2>4, Nothings DEF ErrandRight, Resources, Removing
  <2>9. StartStep(i, next, new)
    BY <1>2, <1>3, <2>2, <2>4, Nothings DEF StartStep, Calm, OneCached, Loved
  <2>10. QED
    BY <1>1, <2>2, <2>7, <2>8, <2>9, Started
<1>8. CASE hit # 0 /\ b_objs[hit].expired
  <2>1. PICK next : next = [Cache!NoTask EXCEPT !.op = "refresh", !.id = i, !.pc = "api", !.o = hit]
    OBVIOUS
  <2>2. /\ b_tasks' = [b_tasks EXCEPT ![t] = next] /\ b_last_np' = b_last_np
        /\ next.id = i
        /\ b_mixed' = b_mixed \cup (IF \E s \in Calls : b_tasks[s].id = i THEN {i} ELSE {})
    <3>1. /\ Cache!Begin(t, [Cache!NoTask EXCEPT !.op = "refresh", !.id = i, !.pc = "api", !.o = hit])
          /\ b_last_np' = b_last_np
      BY <1>2, <1>8, Nothings DEF Cache!from_cache
    <3>2. next.id = i
      BY <2>1 DEF Cache!NoTask
    <3>3. Cache!Begin(t, next)
      BY <3>1, <2>1
    <3>4. QED
      BY <3>1, <3>2, <3>3 DEF Cache!Begin, Cache!Set
  <2>3. next \in Errand
    BY <1>5, <1>8, <2>1, Nothings DEF Errand, Resources
  <2>4. next.o = hit /\ next.pc = "api" /\ next.op = "refresh"
    BY <2>1 DEF Cache!NoTask
  <2>5. Sends(t, i, next)
    BY <1>1, <2>2, <2>3, IdleSends
  <2>6. LastNp(i, new) /\ Holds(i, next, new)
    BY <1>2, <1>5, <1>6, <1>8, <2>2, <2>4 DEF LastNp, Holds
  <2>7. Handled(t, i, next, new)
    BY <1>3, <1>4, <2>5, <2>6, HandledBy
  <2>8. ErrandRight(next)'
    BY <1>8, <2>2, <2>4, Nothings DEF ErrandRight, Resources, Removing
  <2>9. StartStep(i, next, new)
    <3>1. SUFFICES ASSUME Calm(i, Cache!NoTask, b_objs) PROVE Calm(i, next, new)'
      BY DEF StartStep
    <3>2. b_beatmapset[i] = hit
      BY <1>2, <1>8, <3>1, CachedHit DEF Calm, CacheInv
    <3>3. QED
      BY ZenonT(60), <1>2, <1>3, <1>8, <2>2, <2>4, <3>1, <3>2, Nothings DEF Calm, OneCached, Loved
  <2>10. QED
    BY <1>1, <2>2, <2>7, <2>8, <2>9, Started
<1>9. CASE hit # 0 /\ ~b_objs[hit].expired
  <2>1. PICK next : next = Cache!NoTask
    OBVIOUS
  <2>2. b_tasks' = [b_tasks EXCEPT ![t] = next] /\ b_last_np' = hit
    BY <1>2, <1>9, <2>1, Nothings DEF Cache!from_cache, Cache!Begin, Cache!Set
  <2>3. next \in Errand /\ next.id = 0 /\ next.o = 0
    BY <2>1, Nothings
  <2>4. Sends(t, i, next)
    BY <1>1, <2>2, <2>3, IdleSends
  <2>5. LastNp(i, new) /\ Holds(i, next, new)
    BY <1>2, <1>5, <1>9, <2>2, <2>3 DEF LastNp, Holds
  <2>6. Handled(t, i, next, new)
    BY <1>3, <1>4, <2>4, <2>5, HandledBy
  <2>7. ErrandRight(next)'
    BY <2>1, Nothings DEF ErrandRight, Resources, Removing
  <2>8. ASSUME QuietMap(i)' PROVE Undisturbed(i)'
    <3>1. Undisturbed(i)
      BY <1>4, <2>8, QuietBefore DEF CacheInv, Settled
    <3>2. b_rows[i] # Cache!Absent
      <4>1. b_beatmapset[i] = hit
        BY <1>2, <1>9, <3>1, CachedHit DEF Undisturbed, CacheInv
      <4>2. QED
        BY <1>9, <3>1, <4>1 DEF Undisturbed, HasRow
    <3>3. b_tasks' = b_tasks
      BY <1>1, <2>1, <2>2 DEF CacheInv, CacheTyped
    <3>4. \A o \in Objects : b_objs'[o] \in {b_objs[o], Cache!NoObj}
      BY <1>2, <2>6 DEF Handled, HeldStay
    <3>5. b_beatmapset[i] # 0 => b_objs'[b_beatmapset[i]] = b_objs[b_beatmapset[i]]
      BY <1>2, <1>3, <2>6 DEF Handled, HeldStay
    <3>6. \A s \in Calls : b_tasks[s].o # 0 => b_objs'[b_tasks[s].o] = b_objs[b_tasks[s].o]
      BY <1>2, <3>3, <2>6 DEF Handled, HeldStay
    <3>7. OneRequest(i)' /\ Saved(i)' /\ HasRow(i)' /\ OneCached(i)'
      BY <1>3, <3>1, <3>2, <3>3 DEF Undisturbed, OneRequest, Saved, HasRow, OneCached, Of
    <3>8. FirstFile(i)'
      BY <1>3, <3>1, <3>3, <3>4, Nothings DEF Undisturbed, FirstFile, Of
    <3>9. Decided(i)' /\ Deciding(i)'
      BY <1>3, <3>1, <3>3, <3>5, <3>6 DEF Undisturbed, Decided, Deciding, Of
    <3>10. QED
      BY <3>7, <3>8, <3>9 DEF Undisturbed
  <2>9. Settled(i)'
    BY <2>8 DEF Settled
  <2>10. QED
    BY <2>6, <2>7, <2>9, HandledKeeps
<1>10. QED
  BY <1>7, <1>8, <1>9

\* A nominator decides on the map shown last, whose set has its row.
LEMMA _mapKeeps ==
  ASSUME CacheInv, NEW t \in Calls, NEW scope \in {"set scope", "map scope"},
         Cache!_map(t, "Loved", scope)
  PROVE  CacheInv'
<1>1. b_tasks[t] = Cache!NoTask
  BY IdleIsNone DEF Cache!_map, Cache!Begin
<1>2. b_last_np # 0 /\ b_last_np \in Objects
  BY Nothings DEF Cache!_map, CacheInv, CacheTyped
<1>3. PICK i \in Cache!Maps, np \in Objects : i = b_objs[b_last_np].id /\ np = b_last_np
  BY <1>2 DEF CacheInv, OfOneSet
<1>4. PICK new : new = b_objs
  OBVIOUS
<1>5. PICK next : next = [Cache!NoTask EXCEPT !.op = "map", !.id = i, !.pc = scope,
                                             !.o = np, !.status = "Loved"]
  OBVIOUS
<1>6. next \in Errand
  BY <1>5, Nothings DEF Errand
<1>7. next.id = i /\ next.o = np /\ next.pc = scope /\ next.op = "map" /\ next.status = "Loved"
  BY <1>5 DEF Cache!NoTask
<1>8. /\ b_tasks' = [b_tasks EXCEPT ![t] = next] /\ b_last_np' = b_last_np
      /\ b_mixed' = b_mixed \cup (IF \E s \in Calls : b_tasks[s].id = i THEN {i} ELSE {})
  <2>1. Cache!Begin(t, next) /\ b_last_np' = b_last_np
    BY <1>3, <1>5 DEF Cache!_map
  <2>2. QED
    BY <2>1, <1>7 DEF Cache!Begin, Cache!Set
<1>9. UNCHANGED <<b_upstream, b_rows, b_mapsets, b_lost, b_decided, b_beatmapset, b_beatmap>>
  BY DEF Cache!_map, Cache!SameCaches
<1>10. Files(i) /\ Builds(i, new) /\ Gathers(new)
  BY <1>4, <1>8, <1>9, SameFiles, SameObjects DEF CacheInv, Gathers, Cache!_map
<1>11. LastNp(i, new) /\ Holds(i, next, new)
  BY <1>2, <1>3, <1>4, <1>7, <1>8 DEF LastNp, Holds
<1>12. Sends(t, i, next)
  BY <1>1, <1>6, <1>7, <1>8, IdleSends
<1>13. Handled(t, i, next, new)
  BY <1>9, <1>10, <1>11, <1>12, HandledBy
<1>14. np # 0
  BY <1>2, <1>3
<1>15. ErrandRight(next)'
  BY <1>7, <1>14, Nothings DEF ErrandRight, Resources, Removing
<1>16. StartStep(i, next, new)
  BY <1>2, <1>3, <1>4, <1>7, <1>8, <1>9, Nothings DEF StartStep, Calm, OneCached, Loved
<1>17. QED
  BY <1>1, <1>8, <1>13, <1>15, <1>16, Started

\* The owner's change: a deleted map is lost, and a change of the status ends
\* what was decided.
LEMMA OwnerChangeKeeps ==
  ASSUME CacheInv, NEW t \in Calls, NEW i \in Cache!Maps, NEW s \in {"Loved", "undecided"},
         Cache!OwnerChange(t, i, s)
  PROVE  /\ CacheInv'
         /\ \A j \in Cache!Maps : b_rows'[j] # b_rows[j] =>
              j = i /\ b_rows[j] # Cache!Absent /\ (b_rows'[j] # Cache!Absent \/ i \in b_lost')
         /\ \/ b_scores' = b_scores
            \/ i \in b_lost' /\ b_scores' = b_scores \ {<<i, b_rows[i].v>>}
<1>1. b_tasks[t] = Cache!NoTask
  BY IdleIsNone DEF Cache!OwnerChange, Cache!Begin
<1>2. PICK r \in MapEntry : r = b_rows[i]
  BY DEF CacheInv, CacheTyped
<1>3. PICK w \in Cache!Versions \cup {-1} : w = r.v
  BY <1>2, EntryFields
<1>4. PICK new : new = b_objs
  OBVIOUS
<1>5. PICK next : next = [Cache!NoTask EXCEPT !.op = "owner", !.id = i, !.pc = "evict", !.wipe = w]
  OBVIOUS
<1>6. next \in Errand
  BY <1>5, Nothings DEF Errand
<1>7. next.id = i /\ next.o = 0 /\ next.pc = "evict" /\ next.op = "owner" /\ next.wipe = w
  BY <1>5 DEF Cache!NoTask, Cache!None
<1>8. /\ b_tasks' = [b_tasks EXCEPT ![t] = next] /\ b_last_np' = b_last_np
      /\ b_mixed' = b_mixed \cup (IF \E x \in Calls : b_tasks[x].id = i THEN {i} ELSE {})
  <2>1. Cache!Begin(t, next) /\ b_last_np' = b_last_np
    BY <1>2, <1>3, <1>5 DEF Cache!OwnerChange
  <2>2. QED
    BY <2>1, <1>7 DEF Cache!Begin, Cache!Set
<1>9. UNCHANGED <<b_upstream, b_beatmapset, b_beatmap, b_objs>>
  BY DEF Cache!OwnerChange, Cache!SameCaches
<1>18. b_decided' = [b_decided EXCEPT ![i] = "undecided"]
  BY Nothings DEF Cache!OwnerChange
<1>19. PICK q \in MapEntry : q = [r EXCEPT !.status = "Loved", !.frozen = TRUE]
  BY <1>2 DEF MapEntry, Cache!RankedStatus
<1>20. q.v = r.v /\ Loved(q)
  BY <1>19 DEF MapEntry, Loved
<1>21. r # Cache!Absent
  BY <1>2 DEF Cache!OwnerChange
<1>22. \/ /\ s = "undecided" /\ b_rows' = [b_rows EXCEPT ![i] = Cache!Absent]
          /\ b_lost' = b_lost \cup {i} /\ b_mapsets' = b_mapsets \ {i}
          /\ b_scores' = b_scores \ {<<i, b_rows[i].v>>}
       \/ /\ s = "Loved" /\ b_rows' = [b_rows EXCEPT ![i] = q]
          /\ UNCHANGED <<b_lost, b_mapsets, b_scores>>
  <2>1. CASE s = "undecided"
    BY <2>1, Nothings DEF Cache!OwnerChange, Cache!delete_scores
  <2>2. CASE s = "Loved"
    <3>1. Cache!partial_update(i, "Loved", TRUE) = [b_rows EXCEPT ![i] = q]
      BY <1>2, <1>19, <1>21 DEF Cache!partial_update, CacheInv, CacheTyped
    <3>2. QED
      BY <2>2, <3>1, Nothings DEF Cache!OwnerChange
  <2>3. QED
    BY <2>1, <2>2
<1>23. r.v # -1 /\ q # Cache!Absent
  BY <1>2, <1>20, <1>21, Nothings DEF CacheInv, CacheTyped
<1>24. /\ b_rows' \in [Cache!Maps -> MapEntry]
       /\ \A j \in Cache!Maps \ {i} : b_rows'[j] = b_rows[j]
       /\ \/ b_rows'[i] = Cache!Absent /\ i \in b_lost'
          \/ b_rows'[i] = q
  <2>1. PICK n \in MapEntry : /\ b_rows' = [b_rows EXCEPT ![i] = n]
                              /\ (n = Cache!Absent /\ i \in b_lost') \/ n = q
    <3>1. CASE s = "undecided"
      <4>1. b_rows' = [b_rows EXCEPT ![i] = Cache!Absent] /\ i \in b_lost'
        BY <1>22, <3>1
      <4>2. Cache!Absent \in MapEntry
        BY Nothings
      <4>3. QED
        BY <4>1, <4>2
    <3>2. CASE s = "Loved"
      <4>1. b_rows' = [b_rows EXCEPT ![i] = q]
        BY <1>22, <3>2
      <4>2. QED
        BY <4>1
    <3>3. QED
      BY <3>1, <3>2
  <2>2. b_rows \in [Cache!Maps -> MapEntry]
    BY DEF CacheInv, CacheTyped
  <2>3. QED
    BY <2>1, <2>2
<1>10. Files(i)
  <2>1. b_rows'[i].v = -1 => b_rows'[i] = Cache!Absent
    BY <1>20, <1>23, <1>24
  <2>2. b_mapsets' \subseteq Cache!Maps /\ b_lost' \subseteq Cache!Maps /\ b_lost \subseteq b_lost'
    BY <1>22 DEF CacheInv, CacheTyped
  <2>3. \A j \in Cache!Maps \ {i} : j \in b_mapsets' <=> j \in b_mapsets
    BY <1>22
  <2>4. /\ b_decided' \in [Cache!Maps -> {"undecided", "Loved"}]
        /\ \A j \in Cache!Maps \ {i} : b_decided'[j] = b_decided[j]
    BY <1>18 DEF CacheInv, CacheTyped
  <2>5. QED
    BY <1>8, <1>9, <1>24, <2>1, <2>2, <2>3, <2>4 DEF Files
<1>11. Builds(i, new) /\ Gathers(new)
  BY <1>4, <1>9, SameObjects DEF CacheInv, Gathers
<1>12. LastNp(i, new) /\ Holds(i, next, new)
  BY <1>7, <1>8 DEF LastNp, Holds, CacheInv, CacheTyped
<1>13. Sends(t, i, next)
  BY <1>1, <1>6, <1>7, <1>8, IdleSends
<1>14. Handled(t, i, next, new)
  BY <1>9, <1>10, <1>11, <1>12, <1>13, HandledBy
<1>15. ErrandRight(next)'
  BY <1>7, Nothings DEF ErrandRight, Resources, Removing
<1>25. ASSUME b_rows'[i] = Cache!Absent PROVE CacheInv'
  <2>1. i \in b_lost'
    BY <1>23, <1>24, <1>25
  <2>2. Settled(i)'
    BY <2>1 DEF Settled, QuietMap
  <2>3. QED
    BY <1>14, <1>15, <2>2, HandledKeeps
<1>26. ASSUME b_rows'[i] = q PROVE CacheInv'
  <2>1. StartStep(i, next, new)
    <3>1. SUFFICES ASSUME Calm(i, Cache!NoTask, b_objs) PROVE Calm(i, next, new)'
      BY DEF StartStep
    <3>2. r.v = 0 /\ b_decided'[i] = "undecided"
      BY <1>2, <1>18, <1>21, <3>1 DEF Calm, CacheInv, CacheTyped
    <3>3. OneCached(i)'
      BY <1>9, <3>1 DEF Calm, OneCached
    <3>4. QED
      BY <1>3, <1>4, <1>7, <1>20, <1>23, <1>26, <3>1, <3>2, <3>3 DEF Calm
  <2>2. QED
    BY <1>1, <1>8, <1>14, <1>15, <2>1, Started
<1>27. CacheInv'
  BY <1>24, <1>25, <1>26
<1>28. \A j \in Cache!Maps : b_rows'[j] # b_rows[j] =>
         j = i /\ b_rows[j] # Cache!Absent /\ (b_rows'[j] # Cache!Absent \/ i \in b_lost')
  BY <1>2, <1>21, <1>23, <1>24
<1>29. \/ b_scores' = b_scores
       \/ i \in b_lost' /\ b_scores' = b_scores \ {<<i, b_rows[i].v>>}
  <2>1. CASE s = "undecided"
    BY <2>1, <1>22
  <2>2. CASE s = "Loved"
    BY <2>2, <1>22
  <2>3. QED
    BY <2>1, <2>2
<1>30. QED
  BY <1>27, <1>28, <1>29

\* An object that is new is nobody's before, and of the set afterwards.
LEMMA FreshObject ==
  ASSUME Cache!Room
  PROVE  Cache!FreshObj \in Objects /\ b_objs[Cache!FreshObj] = Cache!NoObj
BY DEF Cache!FreshObj, Cache!Room

Filled(free, obj, new) == new = [b_objs EXCEPT ![free] = obj]
LEMMA NewObject ==
  ASSUME CacheTyped, NEW i \in Cache!Maps, NEW obj \in MapObject, obj.id = i,
         obj.server = Cache!Server(i), NEW free \in Objects, b_objs[free] = Cache!NoObj,
         NEW new, Filled(free, obj, new)
  PROVE  /\ Builds(i, new) /\ new[free] = obj
         /\ \A o \in Objects : o # free => new[o] = b_objs[o]
<1>1. /\ new \in [Objects -> MapObject] /\ new[free] = obj
      /\ \A o \in Objects : o # free => new[o] = b_objs[o]
  BY DEF CacheTyped, Filled
<1>2. Builds(i, new)
  BY <1>1 DEF Builds
<1>3. QED
  BY <1>1, <1>2

LEMMA LookUpTask ==
  ASSUME CacheInv, NEW t \in Calls, NEW k, k = b_tasks[t], k.pc \in {"set", "new"}
  PROVE  k \in Errand /\ k.op = "look-up" /\ k.o = 0 /\ k.id \in Cache!Maps
<1>1. k \in Errand /\ ErrandRight(k)
  BY OfTask
<1>2. k.op = "look-up" /\ k.o = 0
  BY <1>1 DEF ErrandRight
<1>3. QED
  BY <1>1, <1>2 DEF ErrandRight

Taking(k, o, pc, next) == next = [k EXCEPT !.o = o, !.pc = pc]
LEMMA TakesFields ==
  ASSUME NEW k \in Errand, NEW o \in Objects, NEW pc \in Pcs, NEW next,
         Taking(k, o, pc, next)
  PROVE  next \in Errand /\ next.o = o /\ next.pc = pc /\ next.op = k.op /\ next.id = k.id
BY DEF Errand, Pcs, Taking

LEMMA ObjectFromRows ==
  ASSUME CacheTyped, NEW i \in Cache!Maps, NEW obj, obj = Cache!_from_bsid_sql(i)
  PROVE  /\ obj \in MapObject /\ obj.id = i /\ obj.server = Cache!Server(i)
         /\ b_rows[i] # Cache!Absent => obj.map = b_rows[i] /\ ~obj.expired
<1>1. Cache!fetch_many(i) = {} <=> b_rows[i] = Cache!Absent
  BY DEF Cache!fetch_many
<1>2. PICK m \in MapEntry : m = IF Cache!fetch_many(i) = {} THEN Cache!Absent ELSE b_rows[i]
  BY Nothings DEF CacheTyped
<1>3. PICK e \in BOOLEAN : e = (Cache!fetch_many(i) = {})
  OBVIOUS
<1>4. PICK v \in {"osu!", "private"} : v = Cache!Server(i)
  BY DEF Cache!Server
<1>5. obj = [id |-> i, server |-> v, expired |-> e, map |-> m]
  BY <1>2, <1>3, <1>4 DEF Cache!_from_bsid_sql
<1>6. obj \in MapObject /\ obj.id = i /\ obj.server = v /\ obj.map = m /\ obj.expired = e
  BY <1>5 DEF MapObject
<1>7. QED
  BY <1>1, <1>2, <1>3, <1>4, <1>6

\* The cached set, or the rows, or the osu!api.
LEMMA from_bsidKeeps ==
  ASSUME CacheInv, NEW t \in Calls, Cache!from_bsid(t)
  PROVE  CacheInv'
<1>1. PICK k : k = b_tasks[t]
  OBVIOUS
<1>2. k.pc = "set" /\ Cache!Room
  BY <1>1 DEF Cache!from_bsid, Cache!At
<1>3. k \in Errand /\ k.op = "look-up" /\ k.o = 0 /\ k.id \in Cache!Maps
  BY <1>1, <1>2, LookUpTask
<1>4. PICK i, cached : i = k.id /\ cached = b_beatmapset[i]
  OBVIOUS
<1>5. cached # 0 => cached \in Objects /\ b_objs[cached].id = i
  BY <1>3, <1>4 DEF CacheInv, CacheTyped, OfOneSet
<1>6. /\ UNCHANGED <<b_upstream, b_rows, b_mapsets, b_lost, b_mixed, b_decided, b_beatmapset,
                     b_beatmap, b_last_np>>
      /\ b_last_np' \in Objects \cup {0}
  BY DEF Cache!from_bsid, Cache!SameCaches, CacheInv, CacheTyped
<1>7. Files(i)
  BY <1>3, <1>4, <1>6, SameFiles DEF CacheInv
<1>8. CASE cached = 0 /\ i \notin b_mapsets
  <2>1. PICK pc \in Pcs : pc = "new"
    BY DEF Pcs
  <2>2. PICK next, new : next = [k EXCEPT !.pc = pc] /\ new = b_objs
    OBVIOUS
  <2>3. b_tasks' = [b_tasks EXCEPT ![t].pc = pc] /\ Cache!Collect(b_objs)
    BY <1>1, <1>4, <1>8, <2>1, Nothings DEF Cache!from_bsid, Cache!Goto, Cache!mapset_exists
  <2>4. /\ next \in Errand /\ next.pc = "new"
        /\ next.op = k.op /\ next.id = i /\ next.o = k.o
    BY <1>3, <1>4, <2>1, <2>2, PcFields
  <2>5. Sends(t, i, next)
    BY <1>1, <1>3, <1>4, <2>1, <2>2, <2>3, Steps
  <2>6. Builds(i, new) /\ LastNp(i, new) /\ Holds(i, next, new) /\ Gathers(new)
    BY <1>3, <1>6, <2>2, <2>3, <2>4, SameObjects DEF CacheInv, LastNp, Holds, Gathers
  <2>7. Handled(t, i, next, new)
    BY <1>6, <1>7, <2>5, <2>6, HandledBy
  <2>8. ErrandRight(next)'
    BY <1>3, <1>4, <2>4 DEF ErrandRight, Resources, Removing
  <2>9. CalmStep(t, i, next, new)
    BY <1>1, <1>2, <1>3, <1>6, <1>8, <2>2, <2>4 DEF CalmStep, Calm, OneCached, Loved
  <2>10. QED
    BY <1>1, <1>4, <2>7, <2>8, <2>9, RequestUnderWay
<1>9. ASSUME NEW o \in Objects, NEW obj \in MapObject, NEW new, Builds(i, new), new[o] = obj,
             obj.id = i,
             b_tasks' = [b_tasks EXCEPT ![t] =
                          [k EXCEPT !.o = o, !.pc = IF obj.expired THEN "api" ELSE "cache"]],
             Cache!Collect(new),
             Calm(i, k, b_objs) => /\ b_rows[i] # Cache!Absent
                                   /\ \A p \in Objects : new[p].id = i => new[p].map.v = 0
                                   /\ b_beatmapset[i] # 0 =>
                                        new[b_beatmapset[i]] = b_objs[b_beatmapset[i]]
                                   /\ b_decided[i] # "undecided" => Loved(obj.map)
      PROVE  CacheInv'
  <2>11. PICK pc \in {"api", "cache"} : pc = IF obj.expired THEN "api" ELSE "cache"
    OBVIOUS
  <2>1. PICK next : /\ next = [k EXCEPT !.o = o, !.pc = pc]
                    /\ b_tasks' = [b_tasks EXCEPT ![t] = next]
    BY <1>9, <2>11
  <2>12. pc \in Pcs
    BY DEF Pcs, Resources
  <2>2. next \in Errand /\ next.o = o /\ next.pc = pc /\ next.op = k.op /\ next.id = k.id
    <3>1. Taking(k, o, pc, next)
      BY <2>1 DEF Taking
    <3>2. k \in Errand
      BY <1>3
    <3>3. QED
      BY <2>12, <3>1, <3>2, TakesFields
  <2>3. next.o = o /\ next.id = i /\ next.pc \in {"api", "cache"} /\ next.op = "look-up"
    BY <1>3, <1>4, <2>2
  <2>4. Sends(t, i, next)
    BY <1>1, <1>3, <1>4, <1>9, <2>1, <2>2, <2>3 DEF Sends
  <2>5. LastNp(i, new) /\ Holds(i, next, new) /\ Gathers(new)
    BY <1>6, <1>9, <2>3 DEF LastNp, Holds, Gathers
  <2>6. Handled(t, i, next, new)
    BY <1>6, <1>7, <1>9, <2>4, <2>5, HandledBy
  <2>7. o # 0
    BY Nothings
  <2>8. ErrandRight(next)'
    BY <1>3, <1>4, <2>3, <2>7 DEF ErrandRight, Resources, Removing
  <2>9. CalmStep(t, i, next, new)
    <3>1. SUFFICES ASSUME Calm(i, k, b_objs) PROVE Calm(i, next, new)'
      BY <1>1 DEF CalmStep
    <3>2. /\ b_rows[i] # Cache!Absent
          /\ \A p \in Objects : new[p].id = i => new[p].map.v = 0
          /\ b_beatmapset[i] # 0 => new[b_beatmapset[i]] = b_objs[b_beatmapset[i]]
          /\ b_decided[i] # "undecided" => Loved(obj.map)
      BY <1>9, <3>1
    <3>3. OneCached(i)'
      BY <1>6, <3>1 DEF Calm, OneCached
    <3>4. QED
      BY <1>6, <1>9, <2>3, <3>1, <3>2, <3>3 DEF Calm, Loved
  <2>10. QED
    BY <1>1, <1>4, <2>6, <2>8, <2>9, RequestUnderWay
<1>10. CASE cached # 0
  <2>1. PICK obj \in MapObject : obj = b_objs[cached]
    BY <1>5, <1>10 DEF CacheInv, CacheTyped
  <2>2. PICK new : new = b_objs
    OBVIOUS
  <2>3. [b_objs EXCEPT ![cached] = obj] = new
    BY <1>5, <1>10, <2>1, <2>2 DEF CacheInv, CacheTyped
  <2>4. /\ b_tasks' = [b_tasks EXCEPT ![t] =
                        [k EXCEPT !.o = cached, !.pc = IF obj.expired THEN "api" ELSE "cache"]]
        /\ Cache!Collect([b_objs EXCEPT ![cached] = obj])
    BY <1>1, <1>4, <1>10, <2>1, Nothings DEF Cache!from_bsid, Cache!Set
  <2>5. Cache!Collect(new)
    BY <2>3, <2>4
  <2>6. Builds(i, new) /\ new[cached] = obj /\ obj.id = i
    BY <1>5, <1>10, <2>1, <2>2, SameObjects DEF CacheInv
  <2>7. Calm(i, k, b_objs) => /\ b_rows[i] # Cache!Absent
                              /\ \A p \in Objects : new[p].id = i => new[p].map.v = 0
                              /\ b_beatmapset[i] # 0 =>
                                   new[b_beatmapset[i]] = b_objs[b_beatmapset[i]]
                              /\ b_decided[i] # "undecided" => Loved(obj.map)
    BY <1>4, <1>10, <2>1, <2>2 DEF Calm
  <2>8. QED
    BY <1>5, <1>9, <1>10, <2>4, <2>5, <2>6, <2>7
<1>11. CASE cached = 0 /\ i \in b_mapsets
  <2>1. PICK obj : obj = Cache!_from_bsid_sql(i)
    OBVIOUS
  <2>2. /\ obj \in MapObject /\ obj.id = i /\ obj.server = Cache!Server(i)
        /\ b_rows[i] # Cache!Absent => obj.map = b_rows[i] /\ ~obj.expired
    BY <1>3, <1>4, <2>1, ObjectFromRows DEF CacheInv
  <2>8. PICK o \in Objects : o = Cache!FreshObj /\ b_objs[o] = Cache!NoObj
    BY <1>2, FreshObject
  <2>3. PICK new : new = [b_objs EXCEPT ![o] = obj]
    OBVIOUS
  <2>4. /\ Builds(i, new) /\ new[o] = obj
        /\ \A p \in Objects : p # o => new[p] = b_objs[p]
    <3>1. CacheTyped /\ i \in Cache!Maps
      BY <1>3, <1>4 DEF CacheInv
    <3>2. b_objs[o] = Cache!NoObj /\ Filled(o, obj, new)
      BY <2>3, <2>8 DEF Filled
    <3>3. obj \in MapObject /\ obj.id = i /\ obj.server = Cache!Server(i)
      BY <2>2
    <3>4. QED
      BY <3>1, <3>2, <3>3, NewObject
  <2>5. /\ b_tasks' = [b_tasks EXCEPT ![t] =
                        [k EXCEPT !.o = o, !.pc = IF obj.expired THEN "api" ELSE "cache"]]
        /\ Cache!Collect(new)
    BY <1>1, <1>4, <1>11, <2>1, <2>3, <2>8, Nothings DEF Cache!from_bsid, Cache!Set, Cache!mapset_exists
  <2>6. ASSUME Calm(i, k, b_objs)
        PROVE  /\ b_rows[i] # Cache!Absent
               /\ \A p \in Objects : new[p].id = i => new[p].map.v = 0
               /\ b_beatmapset[i] # 0 => new[b_beatmapset[i]] = b_objs[b_beatmapset[i]]
               /\ b_decided[i] # "undecided" => Loved(obj.map)
    <3>1. b_rows[i] # Cache!Absent
      BY <1>2, <1>11, <2>6 DEF Calm
    <3>2. obj.map = b_rows[i] /\ b_rows[i].v = 0
      BY <2>2, <2>6, <3>1 DEF Calm
    <3>3. \A p \in Objects : new[p].id = i => new[p].map.v = 0
      BY <2>4, <2>6, <3>2 DEF Calm
    <3>4. b_decided[i] # "undecided" => Loved(obj.map)
      BY <2>6, <3>2 DEF Calm
    <3>5. QED
      BY <1>4, <1>11, <3>1, <3>3, <3>4
  <2>9. QED
    BY <1>9, <2>2, <2>4, <2>5, <2>6
<1>12. QED
  BY <1>8, <1>10, <1>11

\* An object of what the osu!api lists: the frozen row keeps its status.
LEMMA NewSetKeeps ==
  ASSUME CacheInv, NEW t \in Calls, Cache!NewSet(t)
  PROVE  CacheInv'
<1>1. PICK k : k = b_tasks[t]
  OBVIOUS
<1>2. k.pc = "new" /\ Cache!Room
  BY <1>1 DEF Cache!NewSet, Cache!At
<1>3. k \in Errand /\ k.op = "look-up" /\ k.o = 0 /\ k.id \in Cache!Maps
  BY <1>1, <1>2, LookUpTask
<1>4. PICK i : i = k.id
  OBVIOUS
<1>5. UNCHANGED <<b_upstream, b_rows, b_mapsets, b_lost, b_mixed, b_decided, b_beatmapset, b_beatmap>>
  BY DEF Cache!NewSet, Cache!SameCaches
<1>6. Files(i)
  BY <1>3, <1>4, <1>5, SameFiles DEF CacheInv
<1>7. CASE b_upstream[i] = Cache!Absent
  <2>1. PICK next, new : next = Cache!NoTask /\ new = b_objs
    OBVIOUS
  <2>2. /\ b_tasks' = [b_tasks EXCEPT ![t] = next] /\ b_last_np' = 0 /\ Cache!Collect(b_objs)
    BY <1>1, <1>4, <1>7, <2>1, Nothings DEF Cache!NewSet, Cache!Found
  <2>3. next \in Errand /\ next.id = 0 /\ next.o = 0 /\ next.pc = ""
    BY <2>1, Nothings
  <2>4. Sends(t, i, next)
    BY <1>1, <1>3, <1>4, <2>2, <2>3 DEF Sends
  <2>5. Builds(i, new) /\ LastNp(i, new) /\ Holds(i, next, new) /\ Gathers(new)
    BY <2>1, <2>2, <2>3, SameObjects DEF CacheInv, LastNp, Holds, Gathers
  <2>6. Handled(t, i, next, new)
    BY <1>5, <1>6, <2>4, <2>5, HandledBy
  <2>7. ErrandRight(next)'
    BY <2>1, Nothings DEF ErrandRight, Resources, Removing
  <2>8. CalmStep(t, i, next, new)
    BY <1>1, <1>2, <1>3, <1>5, <2>1, <2>2, <2>3 DEF CalmStep, Calm, OneCached, Loved
  <2>9. QED
    BY <1>1, <1>4, <2>6, <2>7, <2>8, RequestUnderWay
<1>8. CASE b_upstream[i] # Cache!Absent
  <2>1. PICK u \in MapEntry, r \in MapEntry : u = b_upstream[i] /\ r = b_rows[i]
    BY <1>3, <1>4 DEF CacheInv, CacheTyped
  <2>2. u.v # -1 /\ i \in Mirrored
    BY <1>3, <1>4, <1>8, <2>1 DEF CacheInv, ListedOrLost, Cache!Maps
  <2>3. PICK frozen \in BOOLEAN : frozen = (r # Cache!Absent /\ r.frozen)
    OBVIOUS
  <2>4. PICK s \in Cache!RankedStatus : s = IF frozen THEN r.status ELSE u.status
    BY EntryFields
  <2>5. PICK m \in MapEntry : m = [v |-> u.v, frozen |-> frozen, status |-> s]
    BY <2>4, EntryFields DEF MapEntry
  <2>6. Cache!_from_bsid_osuapi(u, r) = m
    BY <2>3, <2>4, <2>5 DEF Cache!_from_bsid_osuapi, Cache!_parse_from_osuapi_resp, MapEntry
  <2>7. m.v = u.v /\ (Loved(r) => Loved(m))
    BY <2>3, <2>4, <2>5, Nothings DEF Loved
  <2>8. PICK obj \in MapObject : obj = [id |-> i, server |-> "osu!", expired |-> FALSE, map |-> m]
    BY <1>3, <1>4 DEF MapObject
  <2>9. obj.id = i /\ obj.map = m /\ obj.server = "osu!"
    BY <2>8
  <2>10. obj.server = Cache!Server(i)
    BY <2>2, <2>9, MapsAssumption DEF Cache!Server
  <2>11. PICK o \in Objects : o = Cache!FreshObj /\ b_objs[o] = Cache!NoObj
    BY <1>2, FreshObject
  <2>12. PICK new : new = [b_objs EXCEPT ![o] = obj]
    OBVIOUS
  <2>13. /\ Builds(i, new) /\ new[o] = obj
         /\ \A p \in Objects : p # o => new[p] = b_objs[p]
    <3>1. CacheTyped /\ i \in Cache!Maps
      BY <1>3, <1>4 DEF CacheInv
    <3>2. b_objs[o] = Cache!NoObj /\ Filled(o, obj, new)
      BY <2>11, <2>12 DEF Filled
    <3>3. QED
      BY <2>9, <2>10, <3>1, <3>2, NewObject
  <2>14. PICK pc \in Pcs : pc = "saveset"
    BY DEF Pcs, Resources
  <2>15. PICK next : next = [k EXCEPT !.o = o, !.pc = pc]
    OBVIOUS
  <2>16. /\ b_tasks' = [b_tasks EXCEPT ![t] = [k EXCEPT !.o = o, !.pc = "saveset"]]
         /\ Cache!Collect([b_objs EXCEPT ![o] = [id |-> i, server |-> "osu!", expired |-> FALSE,
                                                map |-> m]])
         /\ b_last_np' = b_last_np
    BY <1>1, <1>4, <1>8, <2>1, <2>6, <2>11 DEF Cache!NewSet, Cache!Set
  <2>17. b_tasks' = [b_tasks EXCEPT ![t] = next] /\ Cache!Collect(new)
    BY <2>8, <2>12, <2>14, <2>15, <2>16
  <2>18. next \in Errand /\ next.o = o /\ next.pc = "saveset" /\ next.op = "look-up" /\ next.id = i
    <3>1. Taking(k, o, pc, next)
      BY <2>15 DEF Taking
    <3>2. QED
      BY <1>3, <1>4, <2>14, <3>1, TakesFields
  <2>19. Sends(t, i, next)
    BY <1>1, <1>3, <1>4, <2>17, <2>18 DEF Sends
  <2>20. LastNp(i, new) /\ Holds(i, next, new) /\ Gathers(new)
    BY <2>9, <2>13, <2>16, <2>17, <2>18 DEF CacheInv, CacheTyped, LastNp, Holds, Gathers
  <2>21. Handled(t, i, next, new)
    BY <1>5, <1>6, <2>13, <2>19, <2>20, HandledBy
  <2>22. b_objs'[o] = obj /\ o # 0
    <3>1. t \in Calls /\ b_tasks'[t] = next
      BY <2>19, Others DEF CacheInv
    <3>2. o # 0
      BY Nothings
    <3>3. b_objs'[o] = new[o]
      BY <2>18, <2>21, <3>1, <3>2 DEF Handled, HeldStay
    <3>4. QED
      BY <2>13, <3>2, <3>3
  <2>23. ErrandRight(next)'
    BY <2>2, <2>7, <2>9, <2>18, <2>22, SavingRight
  <2>24. CalmStep(t, i, next, new)
    <3>1. SUFFICES ASSUME Calm(i, k, b_objs), QuietMap(i) PROVE Calm(i, next, new)'
      BY <1>1 DEF CalmStep
    <3>2. m.v = 0
      <4>1. u.v <= 0
        BY <2>1, <3>1 DEF QuietMap
      <4>2. u.v \in Cache!Versions \cup {-1}
        BY EntryFields
      <4>3. QED
        BY <2>2, <2>7, <4>1, <4>2, MapsAssumption DEF Cache!Versions
    <3>3. \A p \in Objects : new[p].id = i => new[p].map.v = 0
      BY <2>9, <2>13, <3>1, <3>2 DEF Calm
    <3>4. OneCached(i)'
      BY <1>5, <3>1 DEF Calm, OneCached
    <3>5. b_decided[i] # "undecided" => Loved(r) /\ Loved(m)
      BY <2>1, <2>7, <3>1 DEF Calm
    <3>6. b_beatmapset[i] # 0 => new[b_beatmapset[i]] = b_objs[b_beatmapset[i]]
      <4>1. b_beatmapset[i] # 0 => b_beatmapset[i] \in Objects /\ b_objs[b_beatmapset[i]].id = i
        BY <1>3, <1>4 DEF CacheInv, CacheTyped, OfOneSet
      <4>2. QED
        BY <1>3, <1>4, <2>11, <2>13, <4>1, Nothings
    <3>7. b_last_np = 0 \/ new[b_last_np] = b_objs[b_last_np]
      <4>1. b_last_np # 0 => b_last_np \in Objects /\ b_objs[b_last_np].id \in Cache!Maps
        BY DEF CacheInv, CacheTyped, OfOneSet
      <4>2. QED
        BY <2>11, <2>13, <4>1, Nothings
    <3>8. /\ i \in b_mapsets => b_rows[i] # Cache!Absent
          /\ b_rows[i] = Cache!Absent \/ b_rows[i].v = 0
          /\ \/ b_rows[i] # Cache!Absent
             \/ b_beatmapset[i] = 0 /\ (b_last_np = 0 \/ b_objs[b_last_np].id # i)
          /\ b_decided[i] # "undecided" /\ b_beatmapset[i] # 0 => Loved(b_objs[b_beatmapset[i]].map)
      <4>1. i \in b_mapsets => b_rows[i] # Cache!Absent
        BY <1>2, <3>1 DEF Calm
      <4>2. b_rows[i] = Cache!Absent \/ b_rows[i].v = 0
        BY <3>1 DEF Calm
      <4>3. \/ b_rows[i] # Cache!Absent
            \/ b_beatmapset[i] = 0 /\ (b_last_np = 0 \/ b_objs[b_last_np].id # i)
        BY <3>1 DEF Calm
      <4>4. b_decided[i] # "undecided" /\ b_beatmapset[i] # 0 => Loved(b_objs[b_beatmapset[i]].map)
        BY <3>1 DEF Calm
      <4>5. QED
        BY <4>1, <4>2, <4>3, <4>4
    <3>9. b_decided[i] # "undecided" => Loved(b_rows[i]) /\ Loved(new[o].map)
      BY <2>1, <2>9, <2>13, <3>5
    <3>10. QED
      BY <1>5, <2>16, <2>18, <3>3, <3>4, <3>6, <3>7, <3>8, <3>9 DEF Calm, Loved
  <2>25. QED
    BY <1>1, <1>4, <2>21, <2>23, <2>24, RequestUnderWay
<1>9. QED
  BY <1>7, <1>8

LEMMA KeysOf ==
  ASSUME NEW i \in Cache!Maps
  PROVE  /\ <<i, -1>> \in Cache!Keys /\ <<i, 0>> \in Cache!Keys /\ 0 \in Cache!Versions
         /\ \A v \in Cache!Versions : <<i, v>> \in Cache!Keys
         /\ \A v \in 1 .. MaxVersion : v \in Cache!Versions /\ v # 0 /\ v # -1
<1>1. \A v \in 1 .. MaxVersion : v \in 0 .. MaxVersion /\ v # 0 /\ v # -1
  BY MapsAssumption
<1>2. 0 \in 0 .. MaxVersion
  BY MapsAssumption
<1>3. <<i, -1>> \in Cache!Keys /\ \A v \in Cache!Versions : <<i, v>> \in Cache!Keys
  BY Nothings DEF Cache!Keys
<1>4. QED
  BY <1>1, <1>2, <1>3 DEF Cache!Versions

\* The set is cached by its id, and its map by id and md5.
LEMMA CacheSetKeeps ==
  ASSUME CacheInv, NEW t \in Calls, Cache!CacheSet(t)
  PROVE  CacheInv'
<1>1. PICK k : k = b_tasks[t]
  OBVIOUS
<1>2. k.pc = "cache"
  BY <1>1 DEF Cache!CacheSet, Cache!At
<1>3. /\ k \in Errand /\ ErrandRight(k) /\ k.op \in {"look-up", "refresh"}
      /\ k.o # 0 /\ k.o \in Objects /\ k.id \in Cache!Maps /\ b_objs[k.o].id = k.id
      /\ b_objs[k.o] \in MapObject
  BY <1>1, <1>2, ResourceTask DEF Resources
<1>4. PICK i, o : i = k.id /\ o = k.o
  OBVIOUS
<1>5. PICK m \in MapEntry : m = b_objs[o].map
  BY <1>3, <1>4, ObjectFields
<1>6. PICK next, new : next = Cache!NoTask /\ new = b_objs
  OBVIOUS
<1>7. /\ UNCHANGED <<b_upstream, b_rows, b_mapsets, b_lost, b_mixed, b_decided>>
      /\ b_tasks' = [b_tasks EXCEPT ![t] = next] /\ b_last_np' \in {0, o}
      /\ Cache!Collect(new)
      /\ \/ UNCHANGED <<b_beatmapset, b_beatmap>>
         \/ /\ b_beatmapset' = [b_beatmapset EXCEPT ![i] = o]
            /\ \/ m = Cache!Absent /\ b_beatmap' = b_beatmap
               \/ b_beatmap' = [b_beatmap EXCEPT ![<<i, -1>>] = o, ![<<i, m.v>>] = o]
  BY <1>1, <1>3, <1>4, <1>5, <1>6, Nothings DEF Cache!CacheSet, Cache!SameCaches,
     Cache!cache_beatmap_set, Cache!Found
<1>8. next \in Errand /\ next.id = 0 /\ next.o = 0 /\ next.pc = ""
  BY <1>6, Nothings
<1>9. Sends(t, i, next)
  BY <1>1, <1>3, <1>4, <1>7, <1>8 DEF Sends
<1>10. Files(i) /\ Builds(i, new) /\ Holds(i, next, new)
  BY <1>3, <1>4, <1>6, <1>7, <1>8, SameFiles, SameObjects DEF CacheInv, Holds
<1>11. /\ i \in Cache!Maps /\ o \in Objects /\ o # 0 /\ b_objs[o].id = i
       /\ CacheTyped /\ OfOneSet /\ <<i, -1>> \in Cache!Keys
  BY <1>3, <1>4, KeysOf DEF CacheInv
<1>12. <<i, m.v>> \in Cache!Keys
  BY <1>11, EntryFields, Nothings DEF Cache!Keys
<1>13. References(i, new)
  <2>1. /\ b_beatmapset' \in [Cache!Maps -> Objects \cup {0}]
        /\ \A j \in Cache!Maps \ {i} : b_beatmapset'[j] = b_beatmapset[j]
        /\ b_beatmapset'[i] \in {b_beatmapset[i], o}
    BY <1>7, <1>11 DEF CacheTyped
  <2>2. /\ b_beatmap' \in [Cache!Keys -> Objects \cup {0}]
        /\ \A x \in Cache!Keys : x[1] # i => b_beatmap'[x] = b_beatmap[x]
        /\ \A x \in Cache!Keys : b_beatmap'[x] \in {b_beatmap[x], o}
    BY <1>7, <1>11, <1>12 DEF CacheTyped
  <2>3. b_last_np' \in Objects \cup {0} /\ (b_last_np' = 0 \/ b_objs[b_last_np'].id = i)
    BY <1>7, <1>11
  <2>4. b_beatmapset'[i] = 0 \/ new[b_beatmapset'[i]].id = i
    BY <1>6, <1>11, <2>1 DEF OfOneSet
  <2>5. \A x \in Cache!Keys : x[1] = i => b_beatmap'[x] = 0 \/ new[b_beatmap'[x]].id = i
    BY <1>6, <1>11, <2>2 DEF OfOneSet
  <2>6. QED
    BY <1>6, <2>1, <2>2, <2>3, <2>4, <2>5 DEF References
<1>14. HeldStay(new)
  BY <1>7, <1>9, <1>10, <1>11, <1>13, KeptWhileHeld
<1>15. Handled(t, i, next, new)
  BY <1>9, <1>10, <1>13, <1>14 DEF Handled
<1>16. ErrandRight(next)'
  BY <1>6, Nothings DEF ErrandRight, Resources, Removing
<1>17. CalmStep(t, i, next, new)
  <2>1. SUFFICES ASSUME Calm(i, k, b_objs) PROVE Calm(i, next, new)'
    BY <1>1 DEF CalmStep
  <2>2. b_rows[i] # Cache!Absent /\ m.v = 0 /\ m # Cache!Absent
    <3>1. b_rows[i] # Cache!Absent
      <4>1. k.id = i /\ k.o # 0 /\ k.pc \notin {"saveset", "save"}
        BY <1>2, <1>3, <1>4
      <4>2. QED
        BY <2>1, <4>1 DEF Calm
    <3>2. m.v = 0
      BY <1>5, <1>11, <2>1 DEF Calm
    <3>3. Cache!Absent.v = -1
      BY Nothings
    <3>4. QED
      BY <3>1, <3>2, <3>3
  <2>3. b_beatmapset'[i] \in {b_beatmapset[i], o} /\ OneCached(i)'
    <3>1. CASE UNCHANGED <<b_beatmapset, b_beatmap>>
      BY <2>1, <3>1 DEF Calm, OneCached
    <3>2. CASE /\ b_beatmapset' = [b_beatmapset EXCEPT ![i] = o]
               /\ b_beatmap' = [b_beatmap EXCEPT ![<<i, -1>>] = o, ![<<i, 0>>] = o]
      <4>1. b_beatmapset'[i] = o
        BY <1>11, <3>2 DEF CacheTyped
      <4>2. b_beatmap'[<<i, -1>>] = o /\ b_beatmap'[<<i, 0>>] = o
        BY <1>11, <3>2, KeysOf DEF CacheTyped
      <4>3. \A v \in 1 .. MaxVersion : b_beatmap'[<<i, v>>] = b_beatmap[<<i, v>>]
        BY <1>11, <3>2, KeysOf DEF CacheTyped
      <4>4. QED
        BY <2>1, <4>1, <4>2, <4>3 DEF Calm, OneCached
    <3>3. QED
      BY <1>7, <2>2, <3>1, <3>2
  <2>4. b_decided[i] # "undecided" => /\ Loved(b_rows[i]) /\ Loved(b_objs[o].map)
                                      /\ b_beatmapset[i] # 0 => Loved(b_objs[b_beatmapset[i]].map)
    BY <1>3, <1>4, <1>11, <2>1 DEF Calm
  <2>5. /\ \A p \in Objects : new[p].id = i => new[p].map.v = 0
        /\ b_rows[i] = Cache!Absent \/ b_rows[i].v = 0
    BY <1>6, <2>1 DEF Calm
  <2>6. QED
    BY <1>6, <1>7, <1>8, <2>2, <2>3, <2>4, <2>5 DEF Calm, Loved
<1>18. QED
  BY <1>1, <1>4, <1>15, <1>16, <1>17, RequestUnderWay

\* The mark of the object in the cache.
Marked(hit, new) ==
  new = [b_objs EXCEPT ![hit].map.status = "Loved", ![hit].map.frozen = TRUE]
LEMMA MarkedObject ==
  ASSUME CacheTyped, NEW hit \in Objects, NEW new, Marked(hit, new)
  PROVE  /\ new \in [Objects -> MapObject]
         /\ Loved(new[hit].map) /\ new[hit].map.v = b_objs[hit].map.v
         /\ new[hit].id = b_objs[hit].id /\ new[hit].server = b_objs[hit].server
         /\ \A p \in Objects : p # hit => new[p] = b_objs[p]
<1>1. b_objs[hit] \in MapObject
  BY DEF CacheTyped
<1>2. PICK m \in MapEntry : m = b_objs[hit].map
  BY <1>1, ObjectFields
<1>3. PICK n \in MapEntry : n = [m EXCEPT !.status = "Loved", !.frozen = TRUE]
  BY DEF MapEntry, Cache!RankedStatus
<1>4. n.v = m.v /\ Loved(n)
  BY <1>3 DEF MapEntry, Loved
<1>5. PICK q \in MapObject : q = [b_objs[hit] EXCEPT !.map = n]
  BY <1>1 DEF MapObject
<1>6. q.map = n /\ q.id = b_objs[hit].id /\ q.server = b_objs[hit].server
  BY <1>1, <1>5 DEF MapObject
<1>7. new = [b_objs EXCEPT ![hit] = q]
  BY ZenonT(60), <1>1, <1>2, <1>3, <1>5 DEF CacheTyped, MapObject, MapEntry, Marked
<1>8. QED
  BY <1>2, <1>4, <1>6, <1>7 DEF CacheTyped

LEMMA DecidingTask ==
  ASSUME CacheInv, NEW t \in Calls, NEW k, k = b_tasks[t],
         k.pc \in {"set scope", "map scope", "commit"}
  PROVE  /\ k \in Errand /\ k.op = "map" /\ k.o # 0 /\ k.o \in Objects /\ k.status = "Loved"
         /\ k.id \in Cache!Maps /\ b_objs[k.o].id = k.id /\ b_objs[k.o] \in MapObject
<1>1. k \in Errand /\ ErrandRight(k)
  BY OfTask
<1>2. k.op = "map" /\ k.o # 0 /\ k.status = "Loved"
  BY <1>1 DEF ErrandRight
<1>3. QED
  BY <1>1, <1>2, OfTask

\* Of a quiet map the object under the md5 is the cached set's.
LEMMA MapCachesKeeps ==
  ASSUME CacheInv, NEW t \in Calls, Cache!MapCaches(t)
  PROVE  CacheInv'
<1>1. PICK k : k = b_tasks[t]
  OBVIOUS
<1>2. k.pc \in {"set scope", "map scope"}
  BY <1>1 DEF Cache!MapCaches
<1>3. /\ k \in Errand /\ k.op = "map" /\ k.o # 0 /\ k.o \in Objects /\ k.status = "Loved"
      /\ k.id \in Cache!Maps /\ b_objs[k.o].id = k.id /\ b_objs[k.o] \in MapObject
  BY <1>1, <1>2, DecidingTask
<1>4. PICK i : i = k.id
  OBVIOUS
<1>5. PICK v \in Cache!Versions \cup {-1} : v = b_objs[k.o].map.v
  BY <1>3, ObjectFields, EntryFields
<1>6. PICK hit : hit = IF k.pc = "set scope" THEN b_beatmapset[i] ELSE b_beatmap[<<i, v>>]
  OBVIOUS
<1>7. i \in Cache!Maps /\ (hit # 0 => hit \in Objects /\ b_objs[hit].id = i)
  BY ZenonT(60), <1>3, <1>4, <1>6, CachedOf DEF CacheInv, CacheTyped, OfOneSet
<1>8. UNCHANGED <<b_upstream, b_rows, b_mapsets, b_lost, b_mixed, b_decided, b_beatmapset, b_beatmap,
                  b_last_np>>
  BY DEF Cache!MapCaches, Cache!SameCaches
<1>9. Files(i)
  BY <1>7, <1>8, SameFiles DEF CacheInv
<1>10. \/ /\ b_tasks' = [b_tasks EXCEPT ![t] = Cache!NoTask] /\ Cache!Collect(b_objs)
       \/ /\ b_tasks' = [b_tasks EXCEPT ![t].pc = "commit"]
          /\ \/ hit = 0 /\ Cache!Collect(b_objs)
             \/ /\ hit # 0
                /\ Cache!Collect([b_objs EXCEPT ![hit].map.status = "Loved",
                                                ![hit].map.frozen = TRUE])
  BY <1>1, <1>3, <1>4, <1>5, <1>6, Nothings DEF Cache!MapCaches, Cache!At, Cache!Goto
<1>11. ASSUME Calm(i, k, b_objs) PROVE hit = b_beatmapset[i]
  <2>1. v = 0 /\ OneCached(i)
    BY <1>3, <1>4, <1>5, <1>11 DEF Calm
  <2>2. QED
    BY <1>6, <2>1 DEF OneCached
<1>12. CASE b_tasks' = [b_tasks EXCEPT ![t] = Cache!NoTask] /\ Cache!Collect(b_objs)
  <2>1. PICK next, new : next = Cache!NoTask /\ new = b_objs
    OBVIOUS
  <2>2. next \in Errand /\ next.id = 0 /\ next.o = 0 /\ next.pc = ""
    BY <2>1, Nothings
  <2>3. Sends(t, i, next)
    BY <1>1, <1>4, <1>7, <1>12, <2>1, <2>2 DEF Sends
  <2>4. Builds(i, new) /\ LastNp(i, new) /\ Holds(i, next, new) /\ Gathers(new)
    BY <1>8, <1>12, <2>1, <2>2, SameObjects DEF CacheInv, CacheTyped, LastNp, Holds, Gathers
  <2>5. Handled(t, i, next, new)
    BY <1>8, <1>9, <2>3, <2>4, HandledBy
  <2>6. ErrandRight(next)'
    BY <2>1, Nothings DEF ErrandRight, Resources, Removing
  <2>7. CalmStep(t, i, next, new)
    BY <1>1, <1>2, <1>8, <2>1, <2>2 DEF CalmStep, Calm, OneCached, Loved
  <2>8. QED
    BY <1>1, <1>4, <2>5, <2>6, <2>7, RequestUnderWay
<1>13. ASSUME NEW new, Builds(i, new), Cache!Collect(new),
              b_tasks' = [b_tasks EXCEPT ![t].pc = "commit"],
              \A p \in Objects : /\ new[p].id = b_objs[p].id /\ new[p].map.v = b_objs[p].map.v
                                 /\ Loved(b_objs[p].map) => Loved(new[p].map),
              hit # 0 => Loved(new[hit].map)
       PROVE  CacheInv'
  <2>1. PICK pc \in Pcs : pc = "commit"
    BY DEF Pcs
  <2>2. PICK next : next = [k EXCEPT !.pc = pc]
    OBVIOUS
  <2>3. /\ next \in Errand /\ next.pc = "commit" /\ next.status = k.status
        /\ next.op = k.op /\ next.id = i /\ next.o = k.o
    BY <1>3, <1>4, <2>1, <2>2, PcFields
  <2>4. b_tasks' = [b_tasks EXCEPT ![t].pc = pc]
    BY <1>13, <2>1
  <2>5. Sends(t, i, next)
    BY <1>1, <1>3, <1>4, <2>1, <2>2, <2>4, Steps
  <2>6. LastNp(i, new) /\ Holds(i, next, new) /\ Gathers(new)
    BY <1>3, <1>4, <1>8, <1>13, <2>3 DEF CacheInv, CacheTyped, LastNp, Holds, Gathers
  <2>7. Handled(t, i, next, new)
    BY <1>8, <1>9, <1>13, <2>5, <2>6, HandledBy
  <2>8. ErrandRight(next)'
    BY <1>3, <1>4, <2>3 DEF ErrandRight, Resources, Removing
  <2>9. CalmStep(t, i, next, new)
    <3>1. SUFFICES ASSUME Calm(i, k, b_objs) PROVE Calm(i, next, new)'
      BY <1>1 DEF CalmStep
    <3>2. OneCached(i)'
      BY <1>8, <3>1 DEF Calm, OneCached
    <3>3. b_beatmapset[i] # 0 => Loved(new[b_beatmapset[i]].map)
      BY <1>11, <1>13, <3>1
    <3>4. \A p \in Objects : new[p].id = i => new[p].map.v = 0
      BY <1>13, <3>1 DEF Calm
    <3>5. b_rows[i] # Cache!Absent /\ (b_rows[i] = Cache!Absent \/ b_rows[i].v = 0)
      BY <1>2, <1>3, <1>4, <3>1 DEF Calm
    <3>6. b_decided[i] # "undecided" => Loved(b_rows[i])
      BY <3>1 DEF Calm
    <3>7. QED
      BY <1>3, <1>8, <2>3, <3>2, <3>3, <3>4, <3>5, <3>6 DEF Calm, Loved
  <2>10. QED
    BY <1>1, <1>4, <2>7, <2>8, <2>9, RequestUnderWay
<1>14. CASE /\ b_tasks' = [b_tasks EXCEPT ![t].pc = "commit"] /\ hit = 0 /\ Cache!Collect(b_objs)
  <2>1. PICK new : new = b_objs
    OBVIOUS
  <2>2. Builds(i, new)
    BY <2>1, SameObjects DEF CacheInv
  <2>3. QED
    BY <1>13, <1>14, <2>1, <2>2
<1>15. CASE /\ b_tasks' = [b_tasks EXCEPT ![t].pc = "commit"] /\ hit # 0
            /\ Cache!Collect([b_objs EXCEPT ![hit].map.status = "Loved",
                                            ![hit].map.frozen = TRUE])
  <2>1. PICK new : new = [b_objs EXCEPT ![hit].map.status = "Loved", ![hit].map.frozen = TRUE]
    OBVIOUS
  <2>2. /\ new \in [Objects -> MapObject] /\ hit \in Objects
        /\ Loved(new[hit].map) /\ new[hit].map.v = b_objs[hit].map.v
        /\ new[hit].id = b_objs[hit].id /\ new[hit].server = b_objs[hit].server
        /\ \A p \in Objects : p # hit => new[p] = b_objs[p]
    <3>1. Marked(hit, new)
      BY <2>1 DEF Marked
    <3>2. hit \in Objects /\ CacheTyped
      BY <1>7, <1>15 DEF CacheInv
    <3>3. QED
      BY <3>1, <3>2, MarkedObject
  <2>3. b_objs[hit].server = Cache!Server(i)
    BY <1>7, <2>2, Nothings DEF CacheInv, OfOneSet
  <2>4. Builds(i, new)
    BY <1>7, <1>15, <2>2, <2>3 DEF Builds
  <2>5. \A p \in Objects : /\ new[p].id = b_objs[p].id /\ new[p].map.v = b_objs[p].map.v
                           /\ Loved(b_objs[p].map) => Loved(new[p].map)
    BY <2>2
  <2>6. Cache!Collect(new)
    BY <1>15, <2>1
  <2>7. QED
    BY <1>13, <1>15, <2>2, <2>4, <2>5, <2>6
<1>16. QED
  BY <1>10, <1>12, <1>14, <1>15

\* The decision is in the row, and was in the cached object.
LEMMA MapCommitsKeeps ==
  ASSUME CacheInv, NEW t \in Calls, Cache!MapCommits(t)
  PROVE  /\ CacheInv'
         /\ \A j \in Cache!Maps : b_rows'[j] = Cache!Absent <=> b_rows[j] = Cache!Absent
<1>1. PICK k : k = b_tasks[t]
  OBVIOUS
<1>2. k.pc = "commit"
  BY <1>1 DEF Cache!MapCommits, Cache!At
<1>3. /\ k \in Errand /\ k.op = "map" /\ k.o # 0 /\ k.o \in Objects /\ k.status = "Loved"
      /\ k.id \in Cache!Maps /\ b_objs[k.o].id = k.id /\ b_objs[k.o] \in MapObject
  BY <1>1, <1>2, DecidingTask
<1>4. PICK i \in Cache!Maps : i = k.id
  BY <1>3
<1>5. PICK next, new : next = Cache!NoTask /\ new = b_objs
  OBVIOUS
<1>6. next \in Errand /\ next.id = 0 /\ next.o = 0 /\ next.pc = ""
  BY <1>5, Nothings
<1>7. /\ UNCHANGED <<b_upstream, b_mapsets, b_lost, b_mixed, b_beatmapset, b_beatmap, b_last_np>>
      /\ b_tasks' = [b_tasks EXCEPT ![t] = next] /\ Cache!Collect(b_objs)
      /\ b_decided' = [b_decided EXCEPT ![i] = "Loved"]
      /\ b_rows' = Cache!partial_update(i, "Loved", TRUE)
  BY <1>1, <1>3, <1>4, <1>5 DEF Cache!MapCommits, Cache!SameCaches
<1>8. PICK r \in MapEntry : r = b_rows[i]
  BY DEF CacheInv, CacheTyped
<1>9. PICK q \in MapEntry : q = [r EXCEPT !.status = "Loved", !.frozen = TRUE]
  BY DEF MapEntry, Cache!RankedStatus
<1>10. q.v = r.v /\ Loved(q)
  BY <1>9 DEF MapEntry, Loved
<1>11. PICK n \in MapEntry : n = IF r = Cache!Absent THEN r ELSE q
  OBVIOUS
<1>12. b_rows' = [b_rows EXCEPT ![i] = n]
  BY <1>7, <1>8, <1>9, <1>11 DEF Cache!partial_update, CacheInv, CacheTyped
<1>13. r # Cache!Absent => r.v # -1
  BY <1>8 DEF CacheInv, CacheTyped
<1>14. (n = Cache!Absent <=> r = Cache!Absent) /\ (n.v = -1 => n = Cache!Absent)
  BY <1>10, <1>11, <1>13, Nothings
<1>15. b_rows'[i] = n /\ \A j \in Cache!Maps \ {i} : b_rows'[j] = b_rows[j]
  BY <1>12 DEF CacheInv, CacheTyped
<1>16. Files(i)
  BY <1>7, <1>12, <1>14, <1>15 DEF Files, CacheInv, CacheTyped
<1>17. Sends(t, i, next)
  BY <1>1, <1>4, <1>6, <1>7 DEF Sends
<1>18. Builds(i, new) /\ LastNp(i, new) /\ Holds(i, next, new) /\ Gathers(new)
  BY <1>5, <1>6, <1>7, SameObjects DEF CacheInv, CacheTyped, LastNp, Holds, Gathers
<1>19. Handled(t, i, next, new)
  BY <1>7, <1>16, <1>17, <1>18, HandledBy
<1>20. ErrandRight(next)'
  BY <1>5, Nothings DEF ErrandRight, Resources, Removing
<1>21. CalmStep(t, i, next, new)
  <2>1. SUFFICES ASSUME Calm(i, k, b_objs) PROVE Calm(i, next, new)'
    BY <1>1 DEF CalmStep
  <2>2. r # Cache!Absent /\ r.v = 0
    BY <1>2, <1>3, <1>4, <1>8, <2>1 DEF Calm
  <2>3. OneCached(i)'
    BY <1>7, <2>1 DEF Calm, OneCached
  <2>4. b_beatmapset[i] # 0 => Loved(new[b_beatmapset[i]].map)
    BY <1>2, <1>4, <1>5, <2>1 DEF Calm
  <2>5. \A o \in Objects : new[o].id = i => new[o].map.v = 0
    BY <1>5, <2>1 DEF Calm
  <2>6. b_rows'[i] = q /\ q # Cache!Absent
    BY <1>11, <1>14, <1>15, <2>2
  <2>7. QED
    BY <1>6, <1>7, <1>10, <2>2, <2>3, <2>4, <2>5, <2>6 DEF Calm, Loved
<1>22. CacheInv'
  BY <1>1, <1>4, <1>19, <1>20, <1>21, RequestUnderWay
<1>23. QED
  BY <1>8, <1>14, <1>15, <1>22

LEMMA MapRollsBackKeeps ==
  ASSUME CacheInv, NEW t \in Calls, Cache!MapRollsBack(t)
  PROVE  CacheInv'
<1>1. PICK k : k = b_tasks[t]
  OBVIOUS
<1>2. k.pc = "commit"
  BY <1>1 DEF Cache!MapRollsBack, Cache!At
<1>3. k.id \in Cache!Maps
  BY <1>1, <1>2, DecidingTask
<1>4. PICK i \in Cache!Maps : i = k.id
  BY <1>3
<1>5. PICK next, new : next = Cache!NoTask /\ new = b_objs
  OBVIOUS
<1>6. next \in Errand /\ next.id = 0 /\ next.o = 0 /\ next.pc = ""
  BY <1>5, Nothings
<1>7. /\ UNCHANGED <<b_upstream, b_rows, b_mapsets, b_lost, b_decided, b_beatmapset, b_beatmap,
                     b_last_np>>
      /\ b_tasks' = [b_tasks EXCEPT ![t] = next] /\ Cache!Collect(b_objs)
      /\ b_mixed' = b_mixed \cup {i}
  BY <1>1, <1>4, <1>5 DEF Cache!MapRollsBack, Cache!SameCaches
<1>8. Files(i)
  BY <1>7, SameFiles DEF CacheInv
<1>9. Sends(t, i, next)
  BY <1>1, <1>4, <1>6, <1>7 DEF Sends
<1>10. Builds(i, new) /\ LastNp(i, new) /\ Holds(i, next, new) /\ Gathers(new)
  BY <1>5, <1>6, <1>7, SameObjects DEF CacheInv, CacheTyped, LastNp, Holds, Gathers
<1>11. Handled(t, i, next, new)
  BY <1>7, <1>8, <1>9, <1>10, HandledBy
<1>12. ErrandRight(next)'
  BY <1>5, Nothings DEF ErrandRight, Resources, Removing
<1>13. Settled(i)'
  BY <1>7 DEF Settled, QuietMap
<1>14. QED
  BY <1>11, <1>12, <1>13, HandledKeeps

\* Of a quiet map all that is cached is evicted.
LEMMA EvictKeeps ==
  ASSUME CacheInv, NEW t \in Calls, Cache!Evict(t)
  PROVE  CacheInv'
<1>1. PICK k \in Errand : k = b_tasks[t]
  BY OfTask
<1>2. ErrandRight(k) /\ k.pc = "evict" /\ k.op = "owner" /\ k.o = 0
  BY <1>1, OfTask DEF Cache!Evict, Cache!At, ErrandRight
<1>3. k.id \in Cache!Maps
  BY <1>2 DEF ErrandRight
<1>4. PICK i \in Cache!Maps : i = k.id
  BY <1>3
<1>5. PICK w \in Cache!Versions \cup {-1} : w = k.wipe
  BY ErrandFields
<1>6. PICK next, new : next = Cache!NoTask /\ new = b_objs
  OBVIOUS
<1>7. next \in Errand /\ next.id = 0 /\ next.o = 0 /\ next.pc = ""
  BY <1>6, Nothings
<1>8. /\ UNCHANGED <<b_upstream, b_rows, b_mapsets, b_lost, b_mixed, b_decided, b_last_np>>
      /\ b_tasks' = [b_tasks EXCEPT ![t] = next] /\ Cache!Collect(new)
      /\ b_beatmapset' = [b_beatmapset EXCEPT ![i] = 0]
      /\ b_beatmap' = [b_beatmap EXCEPT ![<<i, -1>>] = 0, ![<<i, w>>] = 0]
  BY <1>1, <1>4, <1>5, <1>6, Nothings DEF Cache!Evict, Cache!_evict_beatmap_cache
<1>9. Files(i) /\ Builds(i, new) /\ Holds(i, next, new)
  BY <1>6, <1>7, <1>8, SameFiles, SameObjects DEF CacheInv, Holds
<1>10. Sends(t, i, next)
  BY <1>1, <1>4, <1>7, <1>8 DEF Sends
<1>11. CacheTyped /\ OfOneSet
  BY DEF CacheInv
<1>12. <<i, w>> \in Cache!Keys /\ <<i, -1>> \in Cache!Keys
  BY Nothings DEF Cache!Keys
<1>13. /\ b_beatmapset' \in [Cache!Maps -> Objects \cup {0}] /\ b_beatmapset'[i] = 0
       /\ \A j \in Cache!Maps \ {i} : b_beatmapset'[j] = b_beatmapset[j]
  BY <1>8, <1>11 DEF CacheTyped
<1>14. /\ b_beatmap' \in [Cache!Keys -> Objects \cup {0}]
       /\ \A x \in Cache!Keys : x[1] # i => b_beatmap'[x] = b_beatmap[x]
       /\ \A x \in Cache!Keys : b_beatmap'[x] \in {b_beatmap[x], 0}
       /\ b_beatmap'[<<i, -1>>] = 0 /\ b_beatmap'[<<i, w>>] = 0
  BY <1>8, <1>11, <1>12 DEF CacheTyped
<1>15. References(i, new)
  <2>1. \A x \in Cache!Keys : x[1] = i => b_beatmap'[x] = 0 \/ new[b_beatmap'[x]].id = i
    BY <1>6, <1>11, <1>14 DEF OfOneSet
  <2>2. b_last_np' \in Objects \cup {0} /\ b_last_np' = b_last_np
    BY <1>8, <1>11 DEF CacheTyped
  <2>3. QED
    BY <1>13, <1>14, <2>1, <2>2 DEF References
<1>16. HeldStay(new)
  BY <1>8, <1>9, <1>10, <1>11, <1>15, KeptWhileHeld
<1>17. Handled(t, i, next, new)
  BY <1>9, <1>10, <1>15, <1>16 DEF Handled
<1>18. ErrandRight(next)'
  BY <1>6, Nothings DEF ErrandRight, Resources, Removing
<1>19. CalmStep(t, i, next, new)
  <2>1. SUFFICES ASSUME Calm(i, k, b_objs) PROVE Calm(i, next, new)'
    BY <1>1 DEF CalmStep
  <2>2. w = 0
    BY <1>2, <1>4, <1>5, <2>1 DEF Calm
  <2>3. OneCached(i)'
    <3>1. \A v \in 1 .. MaxVersion : b_beatmap[<<i, v>>] = 0 /\ <<i, v>> \in Cache!Keys
      BY <2>1, KeysOf DEF Calm, OneCached
    <3>2. \A v \in 1 .. MaxVersion : b_beatmap'[<<i, v>>] = 0
      BY <1>14, <3>1
    <3>3. QED
      BY <1>13, <1>14, <2>2, <3>2 DEF OneCached
  <2>4. /\ i \in b_mapsets => b_rows[i] # Cache!Absent
        /\ \A o \in Objects : new[o].id = i => new[o].map.v = 0
        /\ b_rows[i] = Cache!Absent \/ b_rows[i].v = 0
        /\ b_decided[i] # "undecided" => Loved(b_rows[i])
    BY <1>2, <1>6, <2>1 DEF Calm
  <2>5. b_rows[i] # Cache!Absent \/ b_last_np = 0 \/ new[b_last_np].id # i
    BY <1>6, <2>1 DEF Calm
  <2>6. QED
    BY <1>7, <1>8, <1>13, <2>3, <2>4, <2>5 DEF Calm, Loved
<1>20. QED
  BY <1>1, <1>4, <1>17, <1>18, <1>19, RequestUnderWay

\* A score changes nothing but the scores.
LEMMA ScoreKeeps ==
  ASSUME CacheInv, NEW i \in Cache!Maps, Cache!Score(i)
  PROVE  CacheInv'
<1>1. UNCHANGED <<b_rows, b_mapsets, b_objs, b_beatmapset, b_beatmap, b_last_np, b_tasks,
                  b_decided, b_mixed, b_upstream, b_lost>>
  BY DEF Cache!Score
<1>2. CacheTyped' /\ ListedOrLost' /\ OfOneSet'
  BY <1>1 DEF CacheInv, CacheTyped, ListedOrLost, OfOneSet
<1>3. ASSUME NEW t \in Calls PROVE ErrandRight(b_tasks[t])'
  <2>1. PICK k \in Errand : k = b_tasks[t] /\ ErrandRight(k)
    BY OfTask
  <2>2. ErrandRight(k)'
    BY <1>1, <2>1 DEF ErrandRight
  <2>3. QED
    BY <1>1, <2>1, <2>2
<1>4. ASSUME NEW j \in Cache!Maps PROVE Settled(j)'
  <2>1. SUFFICES ASSUME QuietMap(j)' PROVE Undisturbed(j)'
    BY DEF Settled
  <2>2. Undisturbed(j)
    BY <1>1, <2>1 DEF QuietMap, CacheInv, Settled
  <2>3. QED
    BY <1>1, <2>2 DEF Undisturbed, OneRequest, Saved, FirstFile, HasRow, OneCached, Decided,
                      Deciding, Of, Loved
<1>5. QED
  BY <1>2, <1>3, <1>4 DEF CacheInv

\* What changes at the osu!api: a later file, a rank, or the map is gone.
LEMMA UpstreamKeeps ==
  ASSUME CacheInv, NEW i \in Cache!Maps, Cache!Upstream(i)
  PROVE  CacheInv'
<1>1. /\ i \in Mirrored /\ i \notin Private /\ b_upstream[i] # Cache!Absent
      /\ UNCHANGED <<b_rows, b_mapsets, b_objs, b_beatmapset, b_beatmap, b_last_np, b_tasks,
                     b_decided, b_mixed>>
  BY MapsAssumption DEF Cache!Upstream
<1>2. PICK u \in MapEntry : u = b_upstream[i]
  BY DEF CacheInv, CacheTyped
<1>3. u.v # -1 /\ u.v \in Nat
  BY <1>1, <1>2, EntryFields, MapsAssumption DEF CacheInv, ListedOrLost, Cache!Versions
<1>4. PICK n : /\ b_upstream' = [b_upstream EXCEPT ![i] = n]
               /\ n \in {Cache!Absent, [u EXCEPT !.status = "Ranked"]} \cup
                        {[u EXCEPT !.v = v] : v \in u.v + 1 .. MaxVersion}
  BY <1>1, <1>2 DEF Cache!Upstream
<1>5. n \in MapEntry /\ (n = Cache!Absent \/ (n.v # -1 /\ u.v <= n.v))
  <2>1. CASE n = Cache!Absent
    BY <2>1, Nothings
  <2>2. CASE n = [u EXCEPT !.status = "Ranked"]
    <3>1. n \in MapEntry /\ n.v = u.v
      BY <2>2 DEF MapEntry, Cache!RankedStatus
    <3>2. QED
      BY <1>3, <3>1
  <2>3. CASE \E v \in u.v + 1 .. MaxVersion : n = [u EXCEPT !.v = v]
    <3>1. PICK v \in u.v + 1 .. MaxVersion : n = [u EXCEPT !.v = v]
      BY <2>3
    <3>2. v \in Cache!Versions /\ v # -1 /\ u.v <= v
      BY <1>3, MapsAssumption DEF Cache!Versions
    <3>3. n \in MapEntry /\ n.v = v
      BY <3>1, <3>2 DEF MapEntry
    <3>4. QED
      BY <3>2, <3>3
  <2>4. QED
    BY <1>4, <2>1, <2>2, <2>3
<1>6. /\ b_upstream' \in [Cache!Maps -> MapEntry] /\ b_upstream'[i] = n
      /\ \A j \in Cache!Maps \ {i} : b_upstream'[j] = b_upstream[j]
  BY <1>4, <1>5 DEF CacheInv, CacheTyped
<1>7. /\ b_lost' \subseteq Cache!Maps /\ b_lost \subseteq b_lost'
      /\ n = Cache!Absent => i \in b_lost'
  BY <1>6 DEF Cache!Upstream, CacheInv, CacheTyped
<1>8. CacheTyped' /\ OfOneSet'
  BY <1>1, <1>6, <1>7 DEF CacheInv, CacheTyped, OfOneSet
<1>9. ListedOrLost'
  <2> SUFFICES ASSUME NEW j \in Cache!Maps
      PROVE  /\ b_upstream'[j].v = -1 =>
                  b_upstream'[j] = Cache!Absent /\ j \in b_lost' \cup Private
             /\ j \in Private => b_upstream'[j] = Cache!Absent
    BY DEF ListedOrLost
  <2>1. CASE j = i
    BY <1>1, <1>5, <1>6, <1>7, <2>1
  <2>2. CASE j # i
    BY <1>6, <1>7, <2>2 DEF CacheInv, ListedOrLost
  <2>3. QED
    BY <2>1, <2>2
<1>10. \A j \in Cache!Maps : j \notin b_lost' => b_upstream[j].v <= b_upstream'[j].v
  <2> SUFFICES ASSUME NEW j \in Cache!Maps, j \notin b_lost'
      PROVE  b_upstream[j].v <= b_upstream'[j].v
    OBVIOUS
  <2>1. CASE j = i
    BY <1>2, <1>5, <1>6, <1>7, <2>1
  <2>2. CASE j # i
    <3>1. b_upstream[j].v \in Int
      BY EntryFields, MapsAssumption DEF CacheInv, CacheTyped, Cache!Versions
    <3>2. QED
      BY <1>6, <2>2, <3>1
  <2>3. QED
    BY <2>1, <2>2
<1>11. \A j \in Cache!Maps : b_upstream[j].v \in Int /\ b_upstream'[j].v \in Int
  BY <1>6, EntryFields, MapsAssumption DEF CacheInv, CacheTyped, Cache!Versions
<1>12. ASSUME NEW t \in Calls PROVE ErrandRight(b_tasks[t])'
  <2>1. PICK k \in Errand : k = b_tasks[t] /\ ErrandRight(k)
    BY OfTask
  <2>2. k.pc = "answer" =>
          /\ k.new = Cache!Absent /\ k.code \in {404, 200} => k.id \in b_lost'
          /\ k.new # Cache!Absent => /\ k.new.v # -1
                                     /\ k.id \in b_lost' \/ k.new.v <= b_upstream'[k.id].v
    <3> SUFFICES ASSUME k.pc = "answer"
        PROVE  /\ k.new = Cache!Absent /\ k.code \in {404, 200} => k.id \in b_lost'
               /\ k.new # Cache!Absent => /\ k.new.v # -1
                                          /\ k.id \in b_lost' \/ k.new.v <= b_upstream'[k.id].v
      OBVIOUS
    <3>1. /\ k.new = Cache!Absent /\ k.code \in {404, 200} => k.id \in b_lost
          /\ k.new # Cache!Absent => /\ k.new.v # -1
                                     /\ k.id \in b_lost \/ k.new.v <= b_upstream[k.id].v
      BY <2>1 DEF ErrandRight
    <3>2. k.id \in Cache!Maps
      BY <2>1 DEF ErrandRight, Resources, Cache!Maps
    <3>3. k.new.v \in Int
      <4>1. PICK m \in MapEntry : m = k.new
        BY ErrandFields
      <4>2. m.v \in Int
        BY EntryFields, MapsAssumption DEF Cache!Versions
      <4>3. QED
        BY <4>1, <4>2
    <3>4. k.id \notin b_lost' => b_upstream[k.id].v <= b_upstream'[k.id].v
      BY <1>10, <3>2
    <3>5. b_upstream[k.id].v \in Int /\ b_upstream'[k.id].v \in Int
      BY <1>11, <3>2
    <3>6. QED
      BY <1>7, <3>1, <3>3, <3>4, <3>5
  <2>3. ErrandRight(k)'
    BY <1>1, <1>7, <2>1, <2>2 DEF ErrandRight
  <2>4. QED
    BY <1>1, <2>1, <2>3
<1>13. ASSUME NEW j \in Cache!Maps PROVE Settled(j)'
  <2>1. SUFFICES ASSUME QuietMap(j)' PROVE Undisturbed(j)'
    BY DEF Settled
  <2>2. QuietMap(j)
    <3>1. j \notin b_lost' /\ j \notin b_mixed /\ b_upstream'[j].v <= 0
      BY <1>1, <2>1 DEF QuietMap
    <3>2. b_upstream[j].v <= 0
      BY <1>10, <1>11, <3>1
    <3>3. QED
      BY <1>7, <3>1, <3>2 DEF QuietMap
  <2>3. Undisturbed(j)
    BY <2>2 DEF CacheInv, Settled
  <2>4. QED
    BY <1>1, <2>3 DEF Undisturbed, OneRequest, Saved, FirstFile, HasRow, OneCached, Decided,
                      Deciding, Of, Loved
<1>14. QED
  BY <1>8, <1>9, <1>12, <1>13 DEF CacheInv

LEMMA _cache_expiredKeeps ==
  ASSUME CacheInv, NEW o \in Objects, Cache!_cache_expired(o)
  PROVE  CacheInv'
<1>1. /\ UNCHANGED <<b_upstream, b_rows, b_mapsets, b_lost, b_beatmapset, b_beatmap, b_last_np,
                     b_tasks, b_decided, b_mixed>>
      /\ b_objs' = [b_objs EXCEPT ![o].expired = TRUE] /\ b_objs[o] # Cache!NoObj
  BY DEF Cache!_cache_expired
<1>2. PICK p \in MapObject : p = b_objs[o]
  BY DEF CacheInv, CacheTyped
<1>3. PICK q \in MapObject : q = [p EXCEPT !.expired = TRUE]
  BY DEF MapObject
<1>4. q.id = p.id /\ q.map = p.map /\ q.server = p.server
  BY <1>3 DEF MapObject
<1>5. b_objs' = [b_objs EXCEPT ![o] = q]
  BY <1>1, <1>2, <1>3 DEF CacheInv, CacheTyped
<1>6. /\ b_objs' \in [Objects -> MapObject]
      /\ \A x \in Objects : /\ b_objs'[x].id = b_objs[x].id /\ b_objs'[x].map = b_objs[x].map
                            /\ b_objs'[x].server = b_objs[x].server
                            /\ b_objs[x] = Cache!NoObj => b_objs'[x] = b_objs[x]
  BY <1>1, <1>2, <1>4, <1>5 DEF CacheInv, CacheTyped
<1>7. CacheTyped' /\ ListedOrLost'
  BY <1>1, <1>6 DEF CacheInv, CacheTyped, ListedOrLost
<1>8. /\ \A x \in Cache!Keys : b_beatmap[x] # 0 => b_beatmap[x] \in Objects
      /\ \A i \in Cache!Maps : b_beatmapset[i] # 0 => b_beatmapset[i] \in Objects
      /\ b_last_np # 0 => b_last_np \in Objects
      /\ \A t \in Calls : b_tasks[t].o # 0 => b_tasks[t].o \in Objects
  BY OfTask DEF CacheInv, CacheTyped
<1>9. OfOneSet'
  BY <1>1, <1>6, <1>8 DEF CacheInv, OfOneSet
<1>10. ASSUME NEW t \in Calls PROVE ErrandRight(b_tasks[t])'
  <2>1. PICK k \in Errand : k = b_tasks[t] /\ ErrandRight(k)
    BY OfTask
  <2>2. k.pc \in {"saveset", "save"} => b_objs'[k.o].map.v # -1
    BY <1>6, <1>8, <2>1 DEF ErrandRight, Resources
  <2>3. ErrandRight(k)'
    BY <1>1, <2>1, <2>2 DEF ErrandRight
  <2>4. QED
    BY <1>1, <2>1, <2>3
<1>11. ASSUME NEW j \in Cache!Maps, QuietMap(j)' PROVE Undisturbed(j)'
  <2>1. Undisturbed(j)
    BY <1>1, <1>11 DEF CacheInv, Settled, QuietMap
  <2>2. OneRequest(j)' /\ Saved(j)' /\ FirstFile(j)' /\ OneCached(j)'
    BY <1>1, <1>6, <2>1 DEF Undisturbed, OneRequest, Saved, FirstFile, OneCached, Of
  <2>3. HasRow(j)'
    BY <1>1, <1>6, <1>8, <2>1 DEF Undisturbed, HasRow, Of
  <2>4. Decided(j)'
    BY <1>1, <1>6, <1>8, <2>1 DEF Undisturbed, Decided, Of
  <2>5. Deciding(j)'
    BY <1>1, <1>6, <1>8, <2>1 DEF Undisturbed, Deciding, Of
  <2>6. QED
    BY <2>1, <2>2, <2>3, <2>4, <2>5 DEF Undisturbed
<1>12. QED
  BY <1>7, <1>9, <1>10, <1>11 DEF CacheInv, Settled

LEMMA CacheStart ==
  ASSUME Cache!Init PROVE CacheInv
<1>1. \A i \in Cache!Maps : Cache!Fresh(i) \in MapEntry /\ Cache!Fresh(i).v = 0
  BY MapsAssumption DEF Cache!Fresh, MapEntry, Cache!Versions, Cache!RankedStatus
<1>2. /\ b_upstream = [i \in Cache!Maps |-> IF i \in Mirrored THEN Cache!Fresh(i) ELSE Cache!Absent]
      /\ b_rows \in [Cache!Maps -> {Cache!Absent} \cup {Cache!Fresh(i) : i \in Cache!Maps}]
      /\ b_mapsets = {i \in Cache!Maps : b_rows[i] # Cache!Absent}
      /\ b_objs = [o \in Objects |-> Cache!NoObj]
      /\ b_beatmapset = [i \in Cache!Maps |-> 0] /\ b_beatmap = [x \in Cache!Keys |-> 0]
      /\ b_last_np = 0 /\ b_tasks = [t \in Calls |-> Cache!NoTask]
      /\ b_lost = {} /\ b_decided = [i \in Cache!Maps |-> "undecided"] /\ b_mixed = {}
  BY Nothings DEF Cache!Init
<1>3. \A i \in Cache!Maps : /\ b_upstream[i] \in MapEntry
                            /\ b_rows[i] \in MapEntry
                            /\ b_rows[i] = Cache!Absent \/ b_rows[i].v = 0
                            /\ b_upstream[i].v = -1 => b_upstream[i] = Cache!Absent /\ i \in Private
                            /\ i \in Private => b_upstream[i] = Cache!Absent
  <2> SUFFICES ASSUME NEW i \in Cache!Maps
      PROVE  /\ b_upstream[i] \in MapEntry
             /\ b_rows[i] \in MapEntry
             /\ b_rows[i] = Cache!Absent \/ b_rows[i].v = 0
             /\ b_upstream[i].v = -1 => b_upstream[i] = Cache!Absent /\ i \in Private
             /\ i \in Private => b_upstream[i] = Cache!Absent
    OBVIOUS
  <2>1. b_rows[i] \in MapEntry /\ (b_rows[i] = Cache!Absent \/ b_rows[i].v = 0)
    <3>1. b_rows[i] = Cache!Absent \/ \E j \in Cache!Maps : b_rows[i] = Cache!Fresh(j)
      BY <1>2
    <3>2. CASE b_rows[i] = Cache!Absent
      BY <3>2, Nothings
    <3>3. CASE \E j \in Cache!Maps : b_rows[i] = Cache!Fresh(j)
      BY <1>1, <3>3
    <3>4. QED
      BY <3>1, <3>2, <3>3
  <2>2. b_upstream[i] = IF i \in Mirrored THEN Cache!Fresh(i) ELSE Cache!Absent
    BY <1>2
  <2>3. i \in Private <=> i \notin Mirrored
    BY MapsAssumption DEF Cache!Maps
  <2>4. CASE i \in Mirrored
    <3>1. b_upstream[i] = Cache!Fresh(i)
      BY <2>2, <2>4
    <3>2. b_upstream[i] \in MapEntry /\ b_upstream[i].v = 0
      BY <1>1, <3>1
    <3>3. QED
      BY <2>1, <2>3, <2>4, <3>2
  <2>5. CASE i \notin Mirrored
    <3>1. b_upstream[i] = Cache!Absent /\ i \in Private
      BY <2>2, <2>3, <2>5
    <3>2. Cache!Absent \in MapEntry
      BY Nothings
    <3>3. QED
      BY <2>1, <3>1, <3>2
  <2>6. QED
    BY <2>4, <2>5
<1>4. CacheTyped
  <2>1. b_upstream \in [Cache!Maps -> MapEntry] /\ b_rows \in [Cache!Maps -> MapEntry]
    BY <1>2, <1>3
  <2>2. PICK p \in MapObject : p = Cache!NoObj
    BY Nothings
  <2>3. PICK k \in Errand : k = Cache!NoTask
    BY Nothings
  <2>4. b_objs \in [Objects -> MapObject] /\ b_tasks \in [Calls -> Errand]
    BY <1>2, <2>2, <2>3
  <2>5. \A i \in Cache!Maps : b_rows[i].v = -1 => b_rows[i] = Cache!Absent
    BY <1>3
  <2>6. /\ b_mapsets \subseteq Cache!Maps /\ b_lost \subseteq Cache!Maps
        /\ b_last_np \in Objects \cup {0}
        /\ b_beatmapset \in [Cache!Maps -> Objects \cup {0}]
        /\ b_beatmap \in [Cache!Keys -> Objects \cup {0}]
        /\ b_decided \in [Cache!Maps -> {"undecided", "Loved"}]
    BY <1>2
  <2>7. QED
    BY <2>1, <2>4, <2>5, <2>6 DEF CacheTyped
<1>5. ListedOrLost /\ OfOneSet
  BY <1>2, <1>3, Nothings DEF ListedOrLost, OfOneSet
<1>6. \A t \in Calls : ErrandRight(b_tasks[t])
  BY <1>2, Nothings DEF ErrandRight, Resources, Removing
<1>7. ASSUME NEW i \in Cache!Maps PROVE Undisturbed(i)
  <2>1. \A t \in Calls : ~Of(t, i)
    BY <1>2, Nothings DEF Of
  <2>2. OneRequest(i) /\ Saved(i) /\ HasRow(i) /\ Decided(i) /\ Deciding(i)
    BY <1>2, <2>1 DEF OneRequest, Saved, HasRow, Decided, Deciding
  <2>3. FirstFile(i)
    BY <1>2, <1>3, <2>1, Nothings DEF FirstFile
  <2>4. OneCached(i)
    BY <1>2, KeysOf DEF OneCached
  <2>5. QED
    BY <2>2, <2>3, <2>4 DEF Undisturbed
<1>8. QED
  BY <1>4, <1>5, <1>6, <1>7 DEF CacheInv, Settled

\* Who deletes: rows that stay or come for what is listed, and scores that stay.
LEMMA NothingGoes ==
  ASSUME b_rows' = b_rows, b_scores \subseteq b_scores'
  PROVE  Cache!DeletesOnlyTheGone
BY DEF Cache!DeletesOnlyTheGone

\* A refresh deletes the maps, and then the scores, of what is lost.
LEMMA DeleteMapsSpares ==
  ASSUME CacheInv, NEW t \in Calls, Cache!DeleteMaps(t)
  PROVE  Cache!DeletesOnlyTheGone
<1>1. PICK i : i = b_tasks[t].id
  OBVIOUS
<1>2. i \in Mirrored \cap b_lost
  BY <1>1, DeleteMapsKeeps
<1>3. /\ b_rows' = [b_rows EXCEPT ![i] = Cache!Absent] \/ b_rows' = b_rows
      /\ b_scores' = b_scores /\ b_lost' = b_lost
  BY <1>1 DEF Cache!DeleteMaps, Cache!delete_mirrored
<1>4. \A j \in Cache!Maps : j # i => b_rows'[j] = b_rows[j]
  BY <1>3 DEF CacheInv, CacheTyped
<1>5. \A j \in Private : j \in Cache!Maps /\ j # i
  BY <1>2, MapsAssumption DEF Cache!Maps
<1>6. QED
  BY <1>2, <1>3, <1>4, <1>5 DEF Cache!DeletesOnlyTheGone

LEMMA DeleteScoresSpares ==
  ASSUME CacheInv, NEW t \in Calls, Cache!DeleteScores(t)
  PROVE  Cache!DeletesOnlyTheGone
<1>1. PICK i : i = b_tasks[t].id
  OBVIOUS
<1>2. PICK w : w = b_tasks[t].wipe
  OBVIOUS
<1>3. i \in b_lost
  BY <1>1, DeleteScoresKeeps
<1>4. /\ b_scores' = b_scores \ {<<i, w>>} \/ b_scores' = b_scores
      /\ b_rows' = b_rows /\ b_lost' = b_lost
  BY <1>1, <1>2 DEF Cache!DeleteScores, Cache!delete_scores
<1>5. \A s \in b_scores \ b_scores' : s[1] = i
  BY <1>4
<1>6. QED
  BY <1>3, <1>4, <1>5 DEF Cache!DeletesOnlyTheGone

\* What is saved is listed, and nothing of this server's own is saved.
LEMMA _save_to_sqlSpares ==
  ASSUME CacheInv, NEW t \in Calls, Cache!_save_to_sql(t)
  PROVE  Cache!DeletesOnlyTheGone
<1>1. PICK k \in Errand : k = b_tasks[t] /\ ErrandRight(k)
  BY OfTask
<1>2. k.pc = "save"
  BY <1>1 DEF Cache!_save_to_sql, Cache!At
<1>3. k.id \in Mirrored /\ b_objs[k.o].map.v # -1
  BY <1>1, <1>2 DEF ErrandRight, Resources, Removing
<1>4. PICK i, m : i = k.id /\ m = b_objs[k.o].map
  OBVIOUS
<1>5. b_rows' = [b_rows EXCEPT ![i] = m] /\ b_scores' = b_scores
  BY <1>1, <1>4 DEF Cache!_save_to_sql
<1>6. m # Cache!Absent
  BY <1>3, <1>4, Nothings
<1>7. \A j \in Cache!Maps : b_rows'[j] = b_rows[j] \/ (j = i /\ b_rows'[j] = m)
  BY <1>5 DEF CacheInv, CacheTyped
<1>8. \A j \in Private : j \in Cache!Maps /\ j # i
  BY <1>3, <1>4, MapsAssumption DEF Cache!Maps
<1>9. QED
  BY <1>5, <1>6, <1>7, <1>8 DEF Cache!DeletesOnlyTheGone

\* The owner deletes what is lost from then on.
LEMMA OwnerChangeSpares ==
  ASSUME CacheInv, NEW t \in Calls, NEW i \in Cache!Maps, NEW s \in {"Loved", "undecided"},
         Cache!OwnerChange(t, i, s)
  PROVE  Cache!DeletesOnlyTheGone
<1>1. /\ \A j \in Cache!Maps : b_rows'[j] # b_rows[j] =>
           j = i /\ b_rows[j] # Cache!Absent /\ (b_rows'[j] # Cache!Absent \/ i \in b_lost')
      /\ \/ b_scores' = b_scores
         \/ i \in b_lost' /\ b_scores' = b_scores \ {<<i, b_rows[i].v>>}
  BY OwnerChangeKeeps
<1>2. \A x \in b_scores \ b_scores' : x[1] = i /\ i \in b_lost'
  BY <1>1
<1>3. \A j \in Private : j \in Cache!Maps
  BY DEF Cache!Maps
<1>4. QED
  BY <1>1, <1>2, <1>3 DEF Cache!DeletesOnlyTheGone

LEMMA MapCommitsSpares ==
  ASSUME CacheInv, NEW t \in Calls, Cache!MapCommits(t)
  PROVE  Cache!DeletesOnlyTheGone
<1>1. \A j \in Cache!Maps : b_rows'[j] = Cache!Absent <=> b_rows[j] = Cache!Absent
  BY MapCommitsKeeps
<1>2. b_scores' = b_scores
  BY DEF Cache!MapCommits
<1>3. QED
  BY <1>1, <1>2 DEF Cache!DeletesOnlyTheGone, Cache!Maps

\* Every step keeps the invariant and deletes only what is gone.
LEMMA RequestStep ==
  ASSUME CacheInv, NEW t \in Calls, Cache!Request(t)
  PROVE  CacheInv' /\ Cache!DeletesOnlyTheGone
<1>1. ASSUME NEW i \in Cache!Maps, NEW key \in {<<i, v>> : v \in Cache!Versions \cup {-1}},
             Cache!from_cache(t, i, key)
      PROVE  CacheInv' /\ Cache!DeletesOnlyTheGone
  <2>1. CacheInv'
    BY <1>1, from_cacheKeeps
  <2>2. b_rows' = b_rows /\ b_scores' = b_scores
    BY <1>1 DEF Cache!from_cache
  <2>3. QED
    BY <2>1, <2>2, NothingGoes
<1>2. ASSUME NEW i \in Cache!Maps, Cache!from_bid(t, i)
      PROVE  CacheInv' /\ Cache!DeletesOnlyTheGone
  BY <1>1, <1>2, Nothings DEF Cache!from_bid
<1>3. ASSUME NEW i \in Cache!Maps, NEW v \in Cache!Versions, Cache!from_md5(t, i, v)
      PROVE  CacheInv' /\ Cache!DeletesOnlyTheGone
  BY <1>1, <1>3 DEF Cache!from_md5
<1>4. ASSUME NEW i \in Cache!Maps, NEW s \in {"Loved", Cache!Undecided},
             Cache!OwnerChange(t, i, s)
      PROVE  CacheInv' /\ Cache!DeletesOnlyTheGone
  BY <1>4, OwnerChangeKeeps, OwnerChangeSpares DEF Cache!Undecided
<1>5. ASSUME NEW scope \in {"set scope", "map scope"}, Cache!_map(t, "Loved", scope)
      PROVE  CacheInv' /\ Cache!DeletesOnlyTheGone
  <2>1. b_rows' = b_rows /\ b_scores' = b_scores
    BY <1>5 DEF Cache!_map
  <2>2. QED
    BY <1>5, <2>1, _mapKeeps, NothingGoes
<1>6. ASSUME Cache!LookUpRow(t) PROVE CacheInv' /\ Cache!DeletesOnlyTheGone
  <2>1. b_rows' = b_rows /\ b_scores' = b_scores
    BY <1>6 DEF Cache!LookUpRow
  <2>2. QED
    BY <1>6, <2>1, LookUpRowKeeps, NothingGoes
<1>7. ASSUME Cache!from_bsid(t) PROVE CacheInv' /\ Cache!DeletesOnlyTheGone
  <2>1. b_rows' = b_rows /\ b_scores' = b_scores
    BY <1>7 DEF Cache!from_bsid
  <2>2. QED
    BY <1>7, <2>1, from_bsidKeeps, NothingGoes
<1>8. ASSUME Cache!NewSet(t) PROVE CacheInv' /\ Cache!DeletesOnlyTheGone
  <2>1. b_rows' = b_rows /\ b_scores' = b_scores
    BY <1>8 DEF Cache!NewSet
  <2>2. QED
    BY <1>8, <2>1, NewSetKeeps, NothingGoes
<1>9. ASSUME Cache!api_get_beatmaps(t) PROVE CacheInv' /\ Cache!DeletesOnlyTheGone
  <2>1. b_rows' = b_rows /\ b_scores' = b_scores
    BY <1>9 DEF Cache!api_get_beatmaps
  <2>2. QED
    BY <1>9, <2>1, api_get_beatmapsKeeps, NothingGoes
<1>10. ASSUME Cache!_update_if_available(t) PROVE CacheInv' /\ Cache!DeletesOnlyTheGone
  <2>1. b_rows' = b_rows /\ b_scores' = b_scores
    BY <1>10 DEF Cache!_update_if_available
  <2>2. QED
    BY <1>10, <2>1, _update_if_availableKeeps, NothingGoes
<1>11. ASSUME Cache!SaveSet(t) PROVE CacheInv' /\ Cache!DeletesOnlyTheGone
  <2>1. b_rows' = b_rows /\ b_scores' = b_scores
    BY <1>11 DEF Cache!SaveSet
  <2>2. QED
    BY <1>11, <2>1, SaveSetKeeps, NothingGoes
<1>12. ASSUME Cache!_save_to_sql(t) PROVE CacheInv' /\ Cache!DeletesOnlyTheGone
  BY <1>12, _save_to_sqlKeeps, _save_to_sqlSpares
<1>13. ASSUME Cache!DeleteMaps(t) PROVE CacheInv' /\ Cache!DeletesOnlyTheGone
  BY <1>13, DeleteMapsKeeps, DeleteMapsSpares
<1>14. ASSUME Cache!DeleteScores(t) PROVE CacheInv' /\ Cache!DeletesOnlyTheGone
  BY <1>14, DeleteScoresKeeps, DeleteScoresSpares
<1>15. ASSUME Cache!DeleteSet(t) PROVE CacheInv' /\ Cache!DeletesOnlyTheGone
  <2>1. b_rows' = b_rows /\ b_scores' = b_scores
    BY <1>15 DEF Cache!DeleteSet
  <2>2. QED
    BY <1>15, <2>1, DeleteSetKeeps, NothingGoes
<1>16. ASSUME Cache!CacheSet(t) PROVE CacheInv' /\ Cache!DeletesOnlyTheGone
  <2>1. b_rows' = b_rows /\ b_scores' = b_scores
    BY <1>16 DEF Cache!CacheSet
  <2>2. QED
    BY <1>16, <2>1, CacheSetKeeps, NothingGoes
<1>17. ASSUME Cache!MapCaches(t) PROVE CacheInv' /\ Cache!DeletesOnlyTheGone
  <2>1. b_rows' = b_rows /\ b_scores' = b_scores
    BY <1>17 DEF Cache!MapCaches
  <2>2. QED
    BY <1>17, <2>1, MapCachesKeeps, NothingGoes
<1>18. ASSUME Cache!MapCommits(t) PROVE CacheInv' /\ Cache!DeletesOnlyTheGone
  BY <1>18, MapCommitsKeeps, MapCommitsSpares
<1>19. ASSUME Cache!MapRollsBack(t) PROVE CacheInv' /\ Cache!DeletesOnlyTheGone
  <2>1. b_rows' = b_rows /\ b_scores' = b_scores
    BY <1>19 DEF Cache!MapRollsBack
  <2>2. QED
    BY <1>19, <2>1, MapRollsBackKeeps, NothingGoes
<1>20. ASSUME Cache!Evict(t) PROVE CacheInv' /\ Cache!DeletesOnlyTheGone
  <2>1. b_rows' = b_rows /\ b_scores' = b_scores
    BY <1>20 DEF Cache!Evict
  <2>2. QED
    BY <1>20, <2>1, EvictKeeps, NothingGoes
<1>21. QED
  BY <1>2, <1>3, <1>4, <1>5, <1>6, <1>7, <1>8, <1>9, <1>10, <1>11, <1>12, <1>13, <1>14, <1>15,
     <1>16, <1>17, <1>18, <1>19, <1>20 DEF Cache!Request

LEMMA CacheStep ==
  ASSUME CacheInv, Cache!Next
  PROVE  CacheInv' /\ Cache!DeletesOnlyTheGone
<1>1. ASSUME NEW i \in Cache!Maps, Cache!Score(i)
      PROVE  CacheInv' /\ Cache!DeletesOnlyTheGone
  <2>1. b_rows' = b_rows /\ b_scores \subseteq b_scores'
    BY <1>1 DEF Cache!Score
  <2>2. QED
    BY <1>1, <2>1, ScoreKeeps, NothingGoes
<1>2. ASSUME NEW i \in Cache!Maps, Cache!Upstream(i)
      PROVE  CacheInv' /\ Cache!DeletesOnlyTheGone
  <2>1. b_rows' = b_rows /\ b_scores' = b_scores
    BY <1>2 DEF Cache!Upstream
  <2>2. QED
    BY <1>2, <2>1, UpstreamKeeps, NothingGoes
<1>3. ASSUME NEW o \in Objects, Cache!_cache_expired(o)
      PROVE  CacheInv' /\ Cache!DeletesOnlyTheGone
  <2>1. b_rows' = b_rows /\ b_scores' = b_scores
    BY <1>3 DEF Cache!_cache_expired
  <2>2. QED
    BY <1>3, <2>1, _cache_expiredKeeps, NothingGoes
<1>4. QED
  BY <1>1, <1>2, <1>3, RequestStep DEF Cache!Next

LEMMA CacheStutters ==
  ASSUME CacheInv, UNCHANGED b_vars
  PROVE  CacheInv'
<1>1. UNCHANGED <<b_upstream, b_rows, b_mapsets, b_objs, b_beatmapset, b_beatmap, b_last_np,
                  b_tasks, b_lost, b_decided, b_mixed>>
  BY DEF b_vars
<1>2. CacheTyped' /\ ListedOrLost' /\ OfOneSet'
  BY <1>1 DEF CacheInv, CacheTyped, ListedOrLost, OfOneSet
<1>3. ASSUME NEW t \in Calls PROVE ErrandRight(b_tasks[t])'
  BY <1>1 DEF CacheInv, ErrandRight
<1>4. ASSUME NEW j \in Cache!Maps PROVE Settled(j)'
  <2>1. Settled(j)
    BY DEF CacheInv
  <2>2. QED
    BY <1>1, <2>1 DEF Settled, QuietMap, Undisturbed, OneRequest, Saved, FirstFile, HasRow,
                      OneCached, Decided, Deciding, Of, Loved
<1>5. QED
  BY <1>2, <1>3, <1>4 DEF CacheInv

LEMMA CacheAlways == MapsSpec => [](half = "cache" => CacheInv)
<1> DEFINE I == half = "cache" => CacheInv
<1>1. MapsInit => I
  BY CacheStart DEF MapsInit
<1>2. I /\ [MapsNext]_mapsvars => I'
  <2> SUFFICES ASSUME I, [MapsNext]_mapsvars, half' = "cache" PROVE CacheInv'
    OBVIOUS
  <2>1. CASE half = "cache" /\ Cache!Next
    BY <2>1, CacheStep
  <2>2. CASE half = "cache" /\ UNCHANGED b_vars
    BY <2>2, CacheStutters
  <2>3. QED
    BY <2>1, <2>2 DEF MapsNext, mapsvars
<1>3. QED
  BY <1>1, <1>2, PTL DEF MapsSpec

\* A refresh deletes a map and its scores only if the osu!api has ceased to list
\* it, and the owner's deletion is the only other one; a hosted map that its owner
\* deleted does not come back: with any number of maps, look-ups, refreshes,
\* decisions and failures of the osu!api (_update_if_available, _save_to_sql,
\* api_get_beatmaps).
THEOREM CacheDeletions == MapsSpec => OnlyTheGoneAreDeleted
<1> DEFINE I == half = "cache" => CacheInv
<1>1. I /\ [MapsNext]_mapsvars => [half = "cache" => Cache!DeletesOnlyTheGone]_mapsvars
  BY CacheStep DEF MapsNext
<1>2. MapsSpec => []I
  BY CacheAlways
<1> HIDE DEF I
<1>3. QED
  BY <1>1, <1>2, PTL DEF MapsSpec, OnlyTheGoneAreDeleted

\* The status a nominator decided on with !map, no other request for the map
\* being under way at the time, stays through any number of refreshes and
\* look-ups while the file stays the same (_map, _parse_from_osuapi_resp,
\* _from_bsid_osuapi, _save_to_sql).
THEOREM CacheDecisions == MapsSpec => []DecisionIsKept
<1> DEFINE I == half = "cache" => CacheInv
<1>1. CacheInv => Cache!DecisionIsKept
  <2> SUFFICES ASSUME CacheInv, NEW i \in Cache!Maps \ (b_mixed \cup b_lost),
                      b_upstream[i].v <= 0, b_decided[i] # "undecided"
      PROVE  b_rows[i].status = b_decided[i] /\ b_rows[i].frozen
    BY Nothings DEF Cache!DecisionIsKept
  <2>1. Decided(i)
    BY DEF QuietMap, CacheInv, Settled, Undisturbed
  <2>2. b_decided[i] = "Loved"
    BY DEF CacheInv, CacheTyped
  <2>3. QED
    BY <2>1, <2>2 DEF Decided, Loved
<1>2. I => DecisionIsKept
  BY <1>1 DEF DecisionIsKept
<1>3. MapsSpec => []I
  BY CacheAlways
<1> HIDE DEF I
<1>4. QED
  BY <1>2, <1>3, PTL
=============================================================================
