------------------------- MODULE ReplayAnalysisProofs -------------------------
(***************************************************************************)
(* Proofs about ReplayAnalysis, for any number of scores, any kinds of     *)
(* replays, any batches, any backlog and any faults.                       *)
(*                                                                         *)
(* That a flagged score has a stored replay that a detector fired on, and  *)
(* that the moderation log holds no verdict that was not given, hold with  *)
(* any number of workers.  That its row says `analyzed` for good needs one *)
(* worker: of two, one may find the replay missing before it is renamed    *)
(* and say so after the other has flagged it.                              *)
(***************************************************************************)
EXTENDS ReplayAnalysis, FiniteSetTheorems, TLAPS

\* One consume loop, as compose.yaml runs.
OneWorker == \A v, w \in Workers : v = w

Passes == [at : {"idle", "fetching", "pushing", "last"}, cursor : 0..NScores,
           batches : 0..MaxBatches, todo : SUBSET Scores]

\* The server's state, the verdicts and the queue have their types; a replay
\* is stored only of a score that is committed.
ServerOK ==
  /\ phase \in [Scores -> {"new", "committed", "enqueueing", "done"}]
  /\ replay \in [Scores -> Contents]
  /\ rows \subseteq Scores /\ file \subseteq Scores
  /\ decided \cup auditing \cup logs \subseteq Scores \X Verdicts
  /\ faults \in 0..MaxFaults
  /\ \A n \in Scores : phase[n] = "new" => n \notin file
  /\ NoPhantomVerdict

\* A backfill pass: at rest it is as at the start, and it fetches a page only
\* below its number of batches.
PassOK ==
  /\ pass \in [Workers -> Passes]
  /\ \A w \in Workers :
       /\ Cardinality(pass[w].todo) <= BatchSize
       /\ pass[w].at = "idle" => pass[w] = NoPass
       /\ pass[w].at = "fetching" => pass[w].batches < MaxBatches

\* The consume loops: what was decoded is stored, and flags are of what was
\* decoded.
JobOK ==
  /\ queue \in Seq(Scores)
  /\ stats \in [Scores -> StatsStatus] /\ flags \in [Scores -> FlagStatus]
  /\ job \in [Workers -> {Idle} \cup [at : Steps, score : Scores]]
  /\ \A w \in Workers : job[w].at \in {"decoded", "marked"} => job[w].score \in file
  /\ \A w \in Workers : job[w].at = "undecodable" => replay[job[w].score] = "corrupt"
                                                     /\ job[w].score \in file
  /\ \A n \in Scores : flags[n] # "no_row" => n \in file /\ replay[n] = "cheated"

\* With one worker: between the row that says `analyzed` and the flag nothing
\* else writes the row, and a score that is about to be recorded as missing or
\* undecodable has no flag.
RowsOK ==
  /\ \A w \in Workers :
       /\ job[w].at = "marked" => stats[job[w].score] = "analyzed"
       /\ job[w].at \in {"missing", "undecodable"} => flags[job[w].score] = "no_row"
  /\ \A n \in Scores : flags[n] # "no_row" => stats[n] = "analyzed"

Inv == ServerOK /\ PassOK /\ JobOK

\* What the theorem about any number of workers says of flags and verdicts.
ReviewHasGrounds ==
  /\ TypeOK /\ NoPhantomVerdict
  /\ \A n \in Scores : flags[n] # "no_row" => n \in file /\ replay[n] = "cheated"

-----------------------------------------------------------------------------
LEMMA InvGivesGrounds == Inv => ReviewHasGrounds
BY DEF Inv, ServerOK, PassOK, JobOK, ReviewHasGrounds, TypeOK, Passes

LEMMA InvGivesReview == Inv /\ RowsOK => ReviewInv
BY InvGivesGrounds DEF Inv, JobOK, RowsOK, ReviewHasGrounds, ReviewInv, FlagsHaveEvidence

LEMMA InitInv == Init => Inv /\ RowsOK
<1> USE ReplayAnalysisAssumption
<1> SUFFICES ASSUME Init PROVE Inv /\ RowsOK
  OBVIOUS
<1>1. ServerOK
  BY DEF Init, ServerOK, NoPhantomVerdict, Contents, Scores
<1>2. PassOK
  <2>1. NoPass \in Passes /\ NoPass.at = "idle"
    BY DEF NoPass, Passes
  <2>2. Cardinality(NoPass.todo) <= BatchSize
    BY FS_EmptySet DEF NoPass
  <2>3. pass = [w \in Workers |-> NoPass]
    BY DEF Init
  <2>4. QED
    BY <2>1, <2>2, <2>3 DEF PassOK
<1>3. JobOK /\ RowsOK
  BY DEF Init, JobOK, RowsOK, StatsStatus, FlagStatus, Idle
<1>4. QED
  BY <1>1, <1>2, <1>3 DEF Inv

LEMMA ScoresAreFinite == ASSUME NEW S \in SUBSET Scores PROVE IsFiniteSet(S)
<1>1. NScores \in Int
  BY ReplayAnalysisAssumption
<1>2. IsFiniteSet(1..NScores)
  BY <1>1, FS_Interval
<1>3. QED
  BY <1>2, FS_Subset DEF Scores

\* A page holds no more than the batch size: below its last score there are
\* fewer than that.
LEMMA PageIsBounded ==
  ASSUME NEW ids \in SUBSET Scores, NEW last \in Page(ids),
         \A n \in Page(ids) : n <= last
  PROVE  IsFiniteSet(Page(ids)) /\ Cardinality(Page(ids)) <= BatchSize
<1> USE ReplayAnalysisAssumption
<1> DEFINE below == {m \in ids : m < last}
<1>1. below \in SUBSET Scores
  OBVIOUS
<1>2. IsFiniteSet(below) /\ Cardinality(below) \in Nat /\ Cardinality(below) < BatchSize
  <2>1. Cardinality(below) < BatchSize
    BY DEF Page
  <2>2. QED
    BY <1>1, <2>1, ScoresAreFinite, FS_CardinalityType
<1>3. Page(ids) \subseteq below \cup {last}
  <2>1. last \in ids /\ last \in Int
    BY DEF Page, Scores
  <2>2. ASSUME NEW n \in Page(ids), n # last PROVE n \in below
    <3>1. n \in ids /\ n \in Int /\ n <= last
      BY DEF Page, Scores
    <3>2. QED
      BY <2>1, <2>2, <3>1
  <2>3. QED
    BY <2>2
<1>4. IsFiniteSet(below \cup {last}) /\ Cardinality(below \cup {last}) <= Cardinality(below) + 1
  <2>1. last \notin below
    BY DEF Page, Scores
  <2>2. QED
    BY <1>2, <2>1, FS_AddElement
<1>5. QED
  BY <1>2, <1>3, <1>4, FS_Subset, FS_CardinalityType

-----------------------------------------------------------------------------
(* The server.                                                             *)

\* What no step of the server touches but staff.
LEMMA ServerKeeps ==
  ASSUME Inv, Server
  PROVE  ServerOK' /\ PassOK' /\ JobOK'
<1> USE ReplayAnalysisAssumption
<1> SUFFICES ServerOK' /\ (JobOK /\ PassOK)'
  OBVIOUS
<1>1. ASSUME NEW n \in Scores, Commit(n) PROVE ServerOK' /\ (JobOK /\ PassOK)'
  <2>1. n \notin file /\ replay' \in [Scores -> Contents]
        /\ \A m \in Scores \ {n} : replay'[m] = replay[m]
    BY <1>1 DEF Commit, Inv, ServerOK
  <2>2. ServerOK'
    BY <1>1, <2>1 DEF Commit, Inv, ServerOK, NoPhantomVerdict, review
  <2>3. JobOK'
    BY <1>1, <2>1 DEF Commit, Inv, JobOK, Steps
  <2>4. PassOK'
    BY <1>1 DEF Commit, Inv, PassOK
  <2>5. QED
    BY <2>2, <2>3, <2>4
<1>2. ASSUME NEW n \in Scores, StoreReplay(n) PROVE ServerOK' /\ (JobOK /\ PassOK)'
  <2>1. /\ file \subseteq file' /\ file' \subseteq file \cup {n}
        /\ faults' \in 0..MaxFaults /\ phase[n] = "committed"
        /\ \E p \in {"enqueueing", "done"} : phase' = [phase EXCEPT ![n] = p]
    BY <1>2 DEF StoreReplay, Fault, Inv, ServerOK
  <2>2. ServerOK'
    BY <1>2, <2>1 DEF StoreReplay, Inv, ServerOK, NoPhantomVerdict, review
  <2>3. JobOK'
    BY <1>2, <2>1 DEF StoreReplay, Inv, JobOK, review
  <2>4. PassOK'
    BY <1>2 DEF StoreReplay, Inv, PassOK
  <2>5. QED
    BY <2>2, <2>3, <2>4
<1>3. ASSUME NEW n \in Scores, Enqueue(n) PROVE ServerOK' /\ (JobOK /\ PassOK)'
  <2>1. ServerOK'
    BY <1>3 DEF Enqueue, Fault, Inv, ServerOK, NoPhantomVerdict, review
  <2>2. JobOK'
    BY <1>3 DEF Enqueue, Inv, JobOK
  <2>3. PassOK'
    BY <1>3 DEF Enqueue, Inv, PassOK
  <2>4. QED
    BY <2>1, <2>2, <2>3
<1>4. ASSUME NEW n \in Scores, Wipe(n) PROVE ServerOK' /\ (JobOK /\ PassOK)'
  BY <1>4 DEF Wipe, Inv, ServerOK, PassOK, JobOK, NoPhantomVerdict, review
<1>5. ASSUME NEW n \in Scores, NEW s \in Choices, ResolveFlag(n, s)
      PROVE ServerOK' /\ (JobOK /\ PassOK)'
  <2>1. s \in FlagStatus /\ s # "no_row"
    BY DEF FlagStatus, Verdicts
  <2>2. ServerOK'
    BY <1>5 DEF ResolveFlag, Inv, ServerOK, NoPhantomVerdict, server
  <2>3. JobOK'
    BY <1>5, <2>1 DEF ResolveFlag, Inv, JobOK, server
  <2>4. PassOK'
    BY <1>5 DEF ResolveFlag, Inv, PassOK
  <2>5. QED
    BY <2>2, <2>3, <2>4
<1>6. ASSUME NEW v \in auditing, LogVerdict(v) PROVE ServerOK' /\ (JobOK /\ PassOK)'
  BY <1>6 DEF LogVerdict, Fault, Inv, ServerOK, PassOK, JobOK, NoPhantomVerdict, server
<1>7. CASE ServerCrash
  BY <1>7 DEF ServerCrash, Fault, Inv, ServerOK, PassOK, JobOK, NoPhantomVerdict
<1>8. CASE Flush
  BY <1>8 DEF Flush, Fault, Inv, ServerOK, PassOK, JobOK, NoPhantomVerdict, server, review
<1>9. QED
  BY <1>1, <1>2, <1>3, <1>4, <1>5, <1>6, <1>7, <1>8 DEF Server

-----------------------------------------------------------------------------
(* The consume loop.                                                       *)

Consume(w) == Dequeue(w) \/ ReadReplay(w) \/ Mark(w) \/ RecordFlag(w) \/ ConsumeFails(w)
Backfill(w) ==
  BackfillStarts(w) \/ BackfillFetch(w) \/ BackfillPush(w) \/ BackfillFails(w)

LEMMA ConsumeKeeps ==
  ASSUME Inv, NEW w \in Workers, Consume(w)
  PROVE  Inv'
<1> USE ReplayAnalysisAssumption
<1>1. ServerOK'
  BY DEF Consume, Dequeue, ReadReplay, Mark, RecordFlag, ConsumeFails, Fault, Inv, ServerOK,
         NoPhantomVerdict, server, review
<1>2. PassOK'
  BY DEF Consume, Dequeue, ReadReplay, Mark, RecordFlag, ConsumeFails, Inv, PassOK
<1>3. JobOK'
  <2>1. CASE Dequeue(w)
    <3>1. Head(queue) \in Scores /\ Tail(queue) \in Seq(Scores)
      BY <2>1 DEF Dequeue, Inv, JobOK
    <3>2. [at |-> "popped", score |-> Head(queue)] \in [at : Steps, score : Scores]
      BY <3>1 DEF Steps
    <3>3. QED
      BY <2>1, <3>1, <3>2 DEF Dequeue, Inv, JobOK, server
  <2>2. CASE ReadReplay(w)
    <3>1. /\ job[w].at = "popped" /\ job[w] \in [at : Steps, score : Scores]
          /\ job[w].score \in Scores
      BY <2>2 DEF ReadReplay, At, Inv, JobOK, Idle
    <3>2. PICK j \in {Idle} \cup [at : Steps, score : Scores] :
            /\ job' = [job EXCEPT ![w] = j]
            /\ j.at \in {"decoded", "marked"} => j.score \in file
            /\ j.at = "undecodable" => replay[j.score] = "corrupt" /\ j.score \in file
      <4>1. \A st \in {"missing", "undecodable", "decoded"} :
              /\ [job[w] EXCEPT !.at = st] \in [at : Steps, score : Scores]
              /\ [job[w] EXCEPT !.at = st].at = st
              /\ [job[w] EXCEPT !.at = st].score = job[w].score
        BY <3>1 DEF Steps, Outcome
      <4>2. job[w].score \notin file => job' = [job EXCEPT ![w] = [job[w] EXCEPT !.at = "missing"]]
        BY <2>2 DEF ReadReplay, Goes, Inv, JobOK
      <4>3. job[w].score \in file /\ replay[job[w].score] = "corrupt"
              => job' = [job EXCEPT ![w] = [job[w] EXCEPT !.at = "undecodable"]]
        BY <2>2 DEF ReadReplay, Goes, Inv, JobOK
      <4>4. job[w].score \in file /\ replay[job[w].score] = "unreadable"
              => job' = [job EXCEPT ![w] = Idle]
        BY <2>2 DEF ReadReplay, Ends
      <4>5. job[w].score \in file /\ replay[job[w].score] \notin {"corrupt", "unreadable"}
              => job' = [job EXCEPT ![w] = [job[w] EXCEPT !.at = "decoded"]]
        BY <2>2 DEF ReadReplay, Goes, Inv, JobOK
      <4>6. Idle.at = "idle"
        BY DEF Idle
      <4>7. QED
        BY <4>1, <4>2, <4>3, <4>4, <4>5, <4>6
    <3>3. QED
      BY <2>2, <3>2 DEF ReadReplay, Inv, JobOK, server
  <2>3. CASE Mark(w)
    <3>1. /\ job[w].at \in {"missing", "undecodable", "decoded"}
          /\ job[w] \in [at : Steps, score : Scores]
          /\ Outcome[job[w].at] \in StatsStatus
      BY <2>3 DEF Mark, Inv, JobOK, Idle, Outcome, StatsStatus
    <3>2. stats' \in [Scores -> StatsStatus]
      BY <2>3, <3>1 DEF Mark, Inv, JobOK
    <3>3. \/ job' = [job EXCEPT ![w] = Idle]
          \/ /\ job[w].at = "decoded"
             /\ job' = [job EXCEPT ![w] = [job[w] EXCEPT !.at = "marked"]]
      BY <2>3 DEF Mark, Ends, Goes, At, Inv, JobOK
    <3>4. /\ [job[w] EXCEPT !.at = "marked"] \in [at : Steps, score : Scores]
          /\ [job[w] EXCEPT !.at = "marked"].score = job[w].score
          /\ [job[w] EXCEPT !.at = "marked"].at = "marked" /\ Idle.at = "idle"
      BY <3>1 DEF Steps, Idle
    <3>5. QED
      BY <2>3, <3>2, <3>3, <3>4 DEF Mark, Inv, JobOK, server
  <2>4. CASE RecordFlag(w)
    <3>1. /\ job[w].score \in Scores /\ job[w].score \in file
          /\ job' = [job EXCEPT ![w] = Idle] /\ Idle.at = "idle"
      BY <2>4 DEF RecordFlag, At, Ends, Inv, JobOK, Idle
    <3>2. \/ flags' = flags
          \/ /\ replay[job[w].score] = "cheated"
             /\ \E s \in FlagStatus \ {"no_row"} : flags' = [flags EXCEPT ![job[w].score] = s]
      BY <2>4, <3>1 DEF RecordFlag, Inv, JobOK, FlagStatus
    <3>3. /\ flags' \in [Scores -> FlagStatus]
          /\ \A n \in Scores : flags'[n] # "no_row" => n \in file /\ replay[n] = "cheated"
      BY <3>1, <3>2 DEF Inv, JobOK
    <3>4. QED
      BY <2>4, <3>1, <3>3 DEF RecordFlag, Inv, JobOK, server
  <2>5. CASE ConsumeFails(w)
    BY <2>5 DEF ConsumeFails, Ends, Inv, JobOK, server, Idle
  <2>6. QED
    BY <2>1, <2>2, <2>3, <2>4, <2>5 DEF Consume
<1>4. QED
  BY <1>1, <1>2, <1>3 DEF Inv

-----------------------------------------------------------------------------
(* The backfill loop.                                                      *)

\* A step that puts a good pass in the place of one keeps all good.
LEMMA OnePassChanges ==
  ASSUME PassOK, NEW w \in Workers, NEW p \in Passes, pass' = [pass EXCEPT ![w] = p],
         Cardinality(p.todo) <= BatchSize, p.at = "idle" => p = NoPass,
         p.at = "fetching" => p.batches < MaxBatches
  PROVE  PassOK'
BY DEF PassOK

LEMMA NoPassIsGood == NoPass \in Passes /\ Cardinality(NoPass.todo) <= BatchSize
                      /\ NoPass.at = "idle"
BY ReplayAnalysisAssumption, FS_EmptySet DEF NoPass, Passes

LEMMA BackfillKeeps ==
  ASSUME Inv, NEW w \in Workers, Backfill(w)
  PROVE  Inv'
<1> USE ReplayAnalysisAssumption
<1>1. ServerOK'
  BY DEF Backfill, BackfillStarts, BackfillFetch, BackfillPush, BackfillFails, Fault, Inv,
         ServerOK, NoPhantomVerdict, server, review
<1>2. queue' \in Seq(Scores)
  <2>1. pass[w].todo \subseteq Scores
    BY DEF Inv, PassOK, Passes
  <2>2. QED
    BY <2>1 DEF Backfill, BackfillStarts, BackfillFetch, BackfillPush, BackfillFails, Inv, JobOK
<1>3. JobOK'
  BY <1>2 DEF Backfill, BackfillStarts, BackfillFetch, BackfillPush, BackfillFails, Inv, JobOK,
              server
<1>4. PassOK'
  <2>1. /\ pass[w] \in Passes /\ Cardinality(pass[w].todo) <= BatchSize
        /\ pass[w].at = "idle" => pass[w] = NoPass
        /\ pass[w].at = "fetching" => pass[w].batches < MaxBatches
        /\ PassOK
    BY DEF Inv, PassOK
  <2>2. CASE BackfillStarts(w)
    <3>1. pass' = [pass EXCEPT ![w] = [pass[w] EXCEPT !.at = "fetching"]] /\ pass[w] = NoPass
      BY <2>1, <2>2 DEF BackfillStarts, PassOK
    <3>2. /\ [NoPass EXCEPT !.at = "fetching"] \in Passes
          /\ [NoPass EXCEPT !.at = "fetching"].batches = 0
          /\ [NoPass EXCEPT !.at = "fetching"].at = "fetching"
          /\ [NoPass EXCEPT !.at = "fetching"].todo = NoPass.todo
      BY DEF NoPass, Passes
    <3> DEFINE p == [NoPass EXCEPT !.at = "fetching"]
    <3>3. /\ p \in Passes /\ p.at = "fetching" /\ p.batches < MaxBatches
          /\ Cardinality(p.todo) <= BatchSize /\ pass' = [pass EXCEPT ![w] = p]
      BY <3>1, <3>2, NoPassIsGood
    <3> HIDE DEF p
    <3>4. QED
      BY <2>1, <3>3, OnePassChanges
  <2>3. CASE BackfillFetch(w)
    <3> DEFINE page == Unanalyzed(pass[w].cursor)
    <3>1. CASE page = {}
      <4>1. pass' = [pass EXCEPT ![w] = NoPass]
        BY <2>3, <3>1 DEF BackfillFetch
      <4>2. QED
        BY <2>1, <4>1, NoPassIsGood, OnePassChanges
    <3>2. CASE page # {}
      <4>1. PICK last \in page :
              /\ \A n \in page : n <= last
              /\ pass' = [pass EXCEPT ![w] =
                     [at |-> IF Cardinality(page) < BatchSize THEN "last" ELSE "pushing",
                      cursor |-> last, batches |-> pass[w].batches + 1, todo |-> page]]
        BY <2>1, <2>3, <3>2 DEF BackfillFetch, PassOK
      <4>2. page \subseteq Scores /\ Cardinality(page) <= BatchSize
        <5> DEFINE ids == {n \in rows : n > pass[w].cursor /\ stats[n] = "no_row"}
        <5>1. ids \in SUBSET Scores /\ page = Page(ids)
          BY DEF Unanalyzed, Inv, ServerOK
        <5> HIDE DEF ids, page
        <5>2. QED
          BY <4>1, <5>1, PageIsBounded DEF Page
      <4> DEFINE p == [at |-> IF Cardinality(page) < BatchSize THEN "last" ELSE "pushing",
                       cursor |-> last, batches |-> pass[w].batches + 1, todo |-> page]
      <4>3. pass[w].batches < MaxBatches
        BY <2>1, <2>3 DEF BackfillFetch
      <4>4. pass[w].batches + 1 \in 0..MaxBatches /\ last \in 0..NScores
        BY <2>1, <4>1, <4>2, <4>3 DEF Passes, Scores
      <4>5. p.at \in {"last", "pushing"}
        OBVIOUS
      <4>6. p \in Passes /\ p.todo = page
        BY <4>2, <4>4 DEF Passes
      <4>7. QED
        BY <2>1, <4>1, <4>2, <4>5, <4>6, OnePassChanges
    <3>3. QED
      BY <3>1, <3>2
  <2>4. CASE BackfillPush(w)
    <3>1. PICK n \in pass[w].todo :
            pass' = [pass EXCEPT ![w] = IF pass[w].todo \ {n} = {} THEN AfterPage(pass[w])
                                        ELSE [pass[w] EXCEPT !.todo = pass[w].todo \ {n}]]
      BY <2>1, <2>4 DEF BackfillPush, PassOK
    <3>2. pass[w].at # "idle"
      BY <2>1, <3>1 DEF NoPass
    <3>3. CASE pass[w].todo \ {n} = {}
      <4>1. CASE pass[w].at = "last" \/ pass[w].batches = MaxBatches
        BY <2>1, <3>1, <3>3, <4>1, NoPassIsGood, OnePassChanges DEF AfterPage
      <4>2. CASE ~(pass[w].at = "last" \/ pass[w].batches = MaxBatches)
        <5> DEFINE p == [pass[w] EXCEPT !.at = "fetching", !.todo = {}]
        <5>1. pass' = [pass EXCEPT ![w] = p]
          BY <3>1, <3>3, <4>2 DEF AfterPage
        <5>2. pass[w].batches < MaxBatches
          BY <2>1, <4>2 DEF Passes
        <5>3. p \in Passes /\ p.at = "fetching" /\ p.batches < MaxBatches /\ p.todo = {}
          BY <2>1, <5>2 DEF Passes
        <5>4. Cardinality(p.todo) <= BatchSize
          BY <5>3, FS_EmptySet
        <5>5. QED
          BY <2>1, <5>1, <5>3, <5>4, OnePassChanges
      <4>3. QED
        BY <4>1, <4>2
    <3>4. CASE pass[w].todo \ {n} # {}
      <4> DEFINE p == [pass[w] EXCEPT !.todo = pass[w].todo \ {n}]
      <4>1. p \in Passes /\ p.at = pass[w].at /\ p.batches = pass[w].batches
            /\ p.todo = pass[w].todo \ {n}
        BY <2>1 DEF Passes
      <4>2. Cardinality(pass[w].todo \ {n}) <= BatchSize
        <5>1. IsFiniteSet(pass[w].todo)
          BY <2>1, ScoresAreFinite DEF Passes
        <5>2. Cardinality(pass[w].todo \ {n}) = Cardinality(pass[w].todo) - 1
          BY <5>1, FS_RemoveElement
        <5>3. Cardinality(pass[w].todo) \in Nat
          BY <5>1, FS_CardinalityType
        <5>4. QED
          BY <2>1, <5>2, <5>3
      <4>3. QED
        BY <2>1, <3>1, <3>2, <3>4, <4>1, <4>2, OnePassChanges
    <3>5. QED
      BY <3>3, <3>4
  <2>5. CASE BackfillFails(w)
    BY <2>1, <2>5, NoPassIsGood, OnePassChanges DEF BackfillFails
  <2>6. QED
    BY <2>2, <2>3, <2>4, <2>5 DEF Backfill
<1>5. QED
  BY <1>1, <1>3, <1>4 DEF Inv
-----------------------------------------------------------------------------
\* The worker is killed and started again.
LEMMA CrashKeeps ==
  ASSUME Inv, NEW w \in Workers, WorkerCrash(w)
  PROVE  Inv'
<1> USE ReplayAnalysisAssumption
<1>1. ServerOK'
  BY DEF WorkerCrash, Fault, Inv, ServerOK, NoPhantomVerdict, server, review
<1>2. PassOK'
  BY NoPassIsGood, OnePassChanges DEF WorkerCrash, Inv
<1>3. JobOK'
  BY DEF WorkerCrash, Ends, Inv, JobOK, server, Idle
<1>4. QED
  BY <1>1, <1>2, <1>3 DEF Inv

LEMMA StutterKeeps == Inv /\ UNCHANGED vars => Inv'
BY DEF vars, server, review, Inv, ServerOK, PassOK, JobOK, NoPhantomVerdict

LEMMA NextKeeps == Inv /\ [Next]_vars => Inv'
<1> SUFFICES ASSUME Inv, [Next]_vars PROVE Inv'
  OBVIOUS
<1>1. CASE Server
  BY <1>1, ServerKeeps DEF Inv
<1>2. ASSUME NEW w \in Workers, Worker(w) PROVE Inv'
  BY <1>2, ConsumeKeeps, BackfillKeeps, CrashKeeps DEF Worker, Consume, Backfill
<1>3. QED
  BY <1>1, <1>2, StutterKeeps DEF Next

\* The review rests on grounds with any number of workers: a flagged score has
\* a stored replay that a detector fired on, and no verdict is logged that was
\* not given (record_flag, resolve_flag).
THEOREM GroundsForReview == Spec => []ReviewHasGrounds
<1>1. Spec => []Inv
  BY InitInv, NextKeeps, PTL DEF Spec
<1>2. QED
  BY <1>1, InvGivesGrounds, PTL

-----------------------------------------------------------------------------
(* One worker.                                                             *)

\* With one worker a row is only written for the score the worker is at.
LEMMA RowsKept ==
  ASSUME OneWorker, Inv, Inv', RowsOK, [Next]_vars
  PROVE  RowsOK'
<1> USE ReplayAnalysisAssumption
<1>0. /\ stats \in [Scores -> StatsStatus] /\ flags \in [Scores -> FlagStatus]
      /\ job \in [Workers -> {Idle} \cup [at : Steps, score : Scores]]
  BY DEF Inv, JobOK
<1>1. CASE UNCHANGED <<stats, flags, job>>
  BY <1>1 DEF RowsOK
<1>2. ASSUME NEW n \in Scores, NEW s \in Choices, ResolveFlag(n, s) PROVE RowsOK'
  <2>1. flags[n] # "no_row" /\ flags' = [flags EXCEPT ![n] = s] /\ UNCHANGED <<stats, job>>
    BY <1>2 DEF ResolveFlag
  <2>2. QED
    BY <1>0, <2>1 DEF RowsOK
<1>3. ASSUME NEW w \in Workers, Consume(w) \/ WorkerCrash(w) PROVE RowsOK'
  <2>0. Workers = {w} /\ (job[w] # Idle => job[w] \in [at : Steps, score : Scores])
    BY <1>0 DEF OneWorker
  <2>1. CASE Dequeue(w) \/ ConsumeFails(w) \/ WorkerCrash(w)
    <3>1. job'[w].at \in {"idle", "popped"} /\ UNCHANGED <<stats, flags>>
      BY <1>0, <2>1 DEF Dequeue, ConsumeFails, WorkerCrash, Ends, Idle
    <3>2. QED
      BY <2>0, <3>1 DEF RowsOK
  <2>2. CASE ReadReplay(w)
    <3>1. /\ job[w] \in [at : Steps, score : Scores] /\ UNCHANGED <<stats, flags>>
          /\ job' \in {[job EXCEPT ![w] = Idle]} \cup
               {[job EXCEPT ![w] = [job[w] EXCEPT !.at = st]] :
                  st \in {"missing", "undecodable", "decoded"}}
      BY <1>0, <2>2 DEF ReadReplay, At, Ends, Goes, Idle
    <3>2. job'[w].at = "missing" => job[w].score \notin file /\ job'[w].score = job[w].score
      BY <1>0, <2>2, <3>1 DEF ReadReplay, Ends, Goes, Idle
    <3>3. job'[w].at = "undecodable"
            => replay[job[w].score] = "corrupt" /\ job'[w].score = job[w].score
      BY <1>0, <2>2, <3>1 DEF ReadReplay, Ends, Goes, Idle
    <3>4. job'[w].at # "marked"
      BY <1>0, <3>1 DEF Idle
    <3>5. job[w].score \in Scores
      BY <3>1
    <3>6. QED
      BY <2>0, <3>1, <3>2, <3>3, <3>4, <3>5 DEF Inv, JobOK, RowsOK
  <2>3. CASE Mark(w)
    <3>1. /\ job[w].at \in {"missing", "undecodable", "decoded"} /\ job[w].score \in Scores
          /\ stats' = [stats EXCEPT ![job[w].score] = Outcome[job[w].at]] /\ flags' = flags
      BY <1>0, <2>3 DEF Mark, Outcome, Idle
    <3>2. \/ job[w].at # "decoded" /\ job'[w].at = "idle"
          \/ /\ job[w].at = "decoded" /\ job'[w].at = "marked"
             /\ job'[w].score = job[w].score
      BY <1>0, <2>0, <2>3, <3>1 DEF Mark, Ends, Goes, At, Idle
    <3>3. job[w].at = "decoded" => Outcome[job[w].at] = "analyzed"
      BY DEF Outcome
    <3>4. job[w].at # "decoded" => flags[job[w].score] = "no_row"
      BY <3>1 DEF RowsOK
    <3>5. QED
      BY <1>0, <2>0, <3>1, <3>2, <3>3, <3>4 DEF RowsOK
  <2>4. CASE RecordFlag(w)
    <3>1. /\ job[w].at = "marked" /\ job'[w].at = "idle" /\ stats' = stats
          /\ \A n \in Scores : flags'[n] = flags[n] \/ n = job[w].score
      BY <1>0, <2>4 DEF RecordFlag, At, Ends, Idle
    <3>2. QED
      BY <1>0, <2>0, <3>1 DEF RowsOK
  <2>5. QED
    BY <1>3, <2>1, <2>2, <2>3, <2>4 DEF Consume
<1>4. QED
  <2>1. CASE Server
    <3>1. CASE \E n \in Scores, s \in Choices : ResolveFlag(n, s)
      BY <1>2, <3>1
    <3>2. CASE \E n \in Scores : Commit(n) \/ StoreReplay(n) \/ Enqueue(n) \/ Wipe(n)
      BY <1>1, <3>2 DEF Commit, StoreReplay, Enqueue, Wipe
    <3>3. CASE (\E v \in auditing : LogVerdict(v)) \/ ServerCrash \/ Flush
      BY <1>1, <3>3 DEF LogVerdict, ServerCrash, Flush
    <3>4. QED
      BY <2>1, <3>1, <3>2, <3>3 DEF Server
  <2>2. ASSUME NEW w \in Workers, Backfill(w) PROVE RowsOK'
    BY <1>1, <2>2 DEF Backfill, BackfillStarts, BackfillFetch, BackfillPush, BackfillFails
  <2>3. CASE UNCHANGED vars
    BY <1>1, <2>3 DEF vars
  <2>4. QED
    BY <1>3, <2>1, <2>2, <2>3 DEF Next, Worker, Consume, Backfill

\* With one worker, as deployed, a flagged score's row says `analyzed` for good,
\* whatever was retried, lost or analysed twice (mark_analyzed, record_flag).
THEOREM ReviewSafe == ASSUME OneWorker PROVE Spec => []ReviewInv
<1>1. Inv /\ RowsOK /\ [Next]_vars => (Inv /\ RowsOK)'
  BY OneWorker, NextKeeps, RowsKept
<1>2. Spec => [](Inv /\ RowsOK)
  BY <1>1, InitInv, PTL DEF Spec
<1>3. QED
  BY <1>2, InvGivesReview, PTL

\* A verdict is changed by staff only: re-analysis of a duplicate or
\* backfilled entry opens no decided flag again (record_flag, resolve_flag).
THEOREM DecisionsKept == Spec => DecisionsAreKept
<1>1. Inv /\ [Next]_vars => [OnlyStaffDecide]_vars
  <2> SUFFICES ASSUME Inv, Next PROVE OnlyStaffDecide
    BY DEF OnlyStaffDecide, vars
  <2> SUFFICES ASSUME NEW n \in Scores, flags[n] \in Verdicts, flags'[n] # flags[n]
               PROVE  \E s \in FlagStatus : ResolveFlag(n, s)
    BY DEF OnlyStaffDecide
  <2>1. flags \in [Scores -> FlagStatus]
    BY DEF Inv, JobOK
  <2>2. ASSUME NEW m \in Scores, NEW s \in Choices, ResolveFlag(m, s)
        PROVE  \E t \in FlagStatus : ResolveFlag(n, t)
    <3>1. m = n
      BY <2>1, <2>2 DEF ResolveFlag
    <3>2. s \in FlagStatus
      BY ReplayAnalysisAssumption DEF FlagStatus, Verdicts
    <3>3. QED
      BY <2>2, <3>1, <3>2
  <2>3. ASSUME NEW w \in Workers, RecordFlag(w) PROVE FALSE
    BY <2>1, <2>3 DEF RecordFlag, Verdicts
  <2>4. flags' = flags \/ (\E m \in Scores, s \in Choices : ResolveFlag(m, s))
        \/ \E w \in Workers : RecordFlag(w)
    <3>1. CASE Server
      BY <3>1 DEF Server, Commit, StoreReplay, Enqueue, Wipe, LogVerdict, ServerCrash, Flush
    <3>2. ASSUME NEW w \in Workers, Worker(w) PROVE flags' = flags \/ RecordFlag(w)
      BY <3>2 DEF Worker, Dequeue, ReadReplay, Mark, ConsumeFails, BackfillStarts,
                  BackfillFetch, BackfillPush, BackfillFails, WorkerCrash
    <3>3. QED
      BY <3>1, <3>2 DEF Next
  <2>5. QED
    BY <2>2, <2>3, <2>4
<1>2. Spec => []Inv
  BY InitInv, NextKeeps, PTL DEF Spec
<1>3. QED
  BY <1>1, <1>2, PTL DEF Spec, DecisionsAreKept
=============================================================================
