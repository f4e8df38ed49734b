---------------------------- MODULE ActivityFeed ----------------------------
(***************************************************************************)
(* The daily snapshots of players' stats, and the feed events they imply.  *)
(*                                                                         *)
(* A supervised loop captures each mode with one INSERT IGNORE ... SELECT  *)
(* under the date it read at its start, then spawns a task that compares   *)
(* the rows of that date with all earlier ones and appends a pp_record or  *)
(* rank_up event for each new peak.  The loop backs off and tries again    *)
(* when a capture fails; a restart ends loop and task wherever they are,   *)
(* and captures at once when it is back.  Meanwhile players gain pp, are   *)
(* restricted, and midnight passes.                                        *)
(*                                                                         *)
(* Days, modes and players are numbers; a player's number breaks ties in   *)
(* rank, as the account id does.  Countries and the other columns of a     *)
(* snapshot are left out.                                                  *)
(***************************************************************************)
EXTENDS Naturals, FiniteSets, Sequences, TLAPS

CONSTANTS Users,        \* players, a set of numbers
          NModes,       \* modes, captured one after the other
          MaxDay,
          MaxGains,     \* bound: how often pp is gained
          MaxRestrictions, MaxFaults

VARIABLES day, pp, restricted,
          snaps,        \* rows of stat_snapshots
          events,       \* rows of activity_events; times counts those that say the same
          loop,         \* the supervised loop of the capture
          due,          \* history: no capture has ended since the last boot or midnight
          publisher,    \* the task spawned by the last capture
          restrictions, gains, faults

vars == <<day, pp, restricted, snaps, events, loop, due, publisher, restrictions, gains, faults>>
world == <<day, pp, restricted, restrictions, gains>>

Modes == 1..NModes
Asleep == [pc |-> "sleep", date |-> 0, mode |-> 0, written |-> FALSE]
NoTask == [pc |-> "none", date |-> 0, mode |-> 0, peaks |-> {}]

Init ==
  /\ day = 1
  /\ pp = [u \in Users |-> [m \in Modes |-> 0]]
  /\ restricted = {}
  /\ snaps = {} /\ events = {}
  /\ loop = Asleep /\ due = TRUE
  /\ publisher = NoTask
  /\ restrictions = 0 /\ gains = 0 /\ faults = 0

-----------------------------------------------------------------------------
(* What happens meanwhile *)
GainPP(u, m) ==
  /\ gains < MaxGains
  /\ gains' = gains + 1
  /\ pp' = [pp EXCEPT ![u][m] = @ + 1]
  /\ UNCHANGED <<day, restricted, restrictions, snaps, events, loop, due, publisher, faults>>

SetRestricted(u) ==
  /\ restrictions < MaxRestrictions
  /\ restrictions' = restrictions + 1
  /\ restricted' = IF u \in restricted THEN restricted \ {u} ELSE restricted \cup {u}
  /\ UNCHANGED <<day, pp, gains, snaps, events, loop, due, publisher, faults>>

(* 24 hours hold one midnight; the loop's own run time delays it a little more
   each day, so a second one may pass before it is back. *)
Midnight ==
  /\ day < MaxDay
  /\ day' = day + 1 /\ due' = TRUE
  /\ UNCHANGED <<pp, restricted, restrictions, gains, snaps, events, loop, publisher, faults>>

-----------------------------------------------------------------------------
(* The capture *)

(* The ranked players of a mode, and the position of each by pp, then id *)
ranked_players(m) == {u \in Users \ restricted : pp[u][m] > 0}
global_rank(u, m) ==
  Cardinality({v \in ranked_players(m) : pp[v][m] > pp[u][m] \/ (pp[v][m] = pp[u][m] /\ v <= u)})

Row(u, m, date) == [user |-> u, mode |-> m, date |-> date, pp |-> pp[u][m],
                    rank |-> global_rank(u, m)]
Captured(u, m, date) == \E s \in snaps : s.user = u /\ s.mode = m /\ s.date = date

(* A slip: the upsert of record() in place of INSERT IGNORE. *)
capture_mode_Upserts(m, date) ==
  {s \in snaps : s.mode # m \/ s.date # date \/ s.user \notin ranked_players(m)}
    \cup {Row(u, m, date) : u \in ranked_players(m)}

(* INSERT IGNORE: who has a row of that mode and date keeps it. *)
capture_mode(m, date) ==
  snaps \cup {Row(u, m, date) : u \in {v \in ranked_players(m) : ~Captured(v, m, date)}}

(* The loop wakes up, or tries again after a failure: today's date is read. *)
capture_today ==
  /\ loop.pc \in {"sleep", "backoff"} /\ due
  /\ loop' = [pc |-> "capture", date |-> day, mode |-> 1, written |-> FALSE]
  /\ UNCHANGED <<world, snaps, events, due, publisher, faults>>

(* One mode is captured.  After the last one the publisher is spawned, and the
   loop sleeps for a day, by which time the publisher before has long ended.
   rows_written is kept as whether it is positive. *)
CaptureMode ==
  /\ loop.pc = "capture"
  /\ snaps' = capture_mode(loop.mode, loop.date)
  /\ LET written == loop.written \/ snaps' # snaps IN
       IF loop.mode < NModes
       THEN /\ loop' = [loop EXCEPT !.mode = @ + 1, !.written = written]
            /\ UNCHANGED <<publisher, due>>
       ELSE /\ publisher.pc = "none"
            /\ loop' = Asleep /\ due' = FALSE
            /\ publisher' = IF written THEN [pc |-> "fetch", date |-> loop.date, mode |-> 1,
                                             peaks |-> {}]
                            ELSE NoTask
  /\ UNCHANGED <<world, events, faults>>

(* A slip: the exception ends the loop. *)
CaptureFails_Ends ==
  /\ loop.pc = "capture" /\ faults < MaxFaults
  /\ faults' = faults + 1
  /\ loop' = [Asleep EXCEPT !.pc = "ended"]
  /\ UNCHANGED <<world, snaps, events, due, publisher>>

(* run_supervised_loop: a capture that fails is tried again after a delay. *)
CaptureFails ==
  /\ loop.pc = "capture" /\ faults < MaxFaults
  /\ faults' = faults + 1
  /\ loop' = [Asleep EXCEPT !.pc = "backoff"]
  /\ UNCHANGED <<world, snaps, events, due, publisher>>

(* The server stops and starts again; the loop runs at once. *)
Restart ==
  /\ faults < MaxFaults
  /\ faults' = faults + 1
  /\ loop' = Asleep /\ due' = TRUE /\ publisher' = NoTask
  /\ UNCHANGED <<world, snaps, events>>

-----------------------------------------------------------------------------
(* Publishing *)

Prior(s) == {o \in snaps : o.user = s.user /\ o.mode = s.mode /\ o.date < s.date}

(* A slip: only the day before counts as what was reached. *)
fetch_new_peaks_Yesterday(m, date) ==
  LET prior(s) == {o \in Prior(s) : o.date = date - 1} IN
  {e \in [user : Users, mode : {m}, type : {"pp_record", "rank_up"}] :
     \E s \in snaps :
       /\ s.user = e.user /\ s.mode = m /\ s.date = date /\ prior(s) # {}
       /\ \A o \in prior(s) : IF e.type = "pp_record" THEN s.pp > o.pp ELSE s.rank < o.rank}

(* Of those with a row of that date and an earlier one: whose pp is above all
   earlier, and whose rank is below all earlier. *)
fetch_new_peaks(m, date) ==
  {e \in [user : Users, mode : {m}, type : {"pp_record", "rank_up"}] :
     \E s \in snaps :
       /\ s.user = e.user /\ s.mode = m /\ s.date = date /\ Prior(s) # {}
       /\ \A o \in Prior(s) : IF e.type = "pp_record" THEN s.pp > o.pp ELSE s.rank < o.rank}

FetchPeaks ==
  /\ publisher.pc = "fetch"
  /\ publisher' = [publisher EXCEPT !.pc = "publish",
                                    !.peaks = fetch_new_peaks(publisher.mode, publisher.date)]
  /\ UNCHANGED <<world, snaps, events, loop, due, faults>>

(* publish_pp_record and publish_rank_up: one row is appended. *)
Same(e, date) == {r \in events : r.user = e.user /\ r.mode = e.mode /\ r.type = e.type
                                 /\ r.date = date}
_publish_one(e) ==
  /\ publisher.pc = "publish" /\ e \in publisher.peaks
  /\ events' = events \cup {[user |-> e.user, mode |-> e.mode, type |-> e.type,
                             date |-> publisher.date,
                             times |-> Cardinality(Same(e, publisher.date)) + 1]}
  /\ publisher' = [publisher EXCEPT !.peaks = @ \ {e}]
  /\ UNCHANGED <<world, snaps, loop, due, faults>>

PublishNextMode ==
  /\ publisher.pc = "publish" /\ publisher.peaks = {}
  /\ publisher' = IF publisher.mode < NModes
                  THEN [publisher EXCEPT !.pc = "fetch", !.mode = @ + 1] ELSE NoTask
  /\ UNCHANGED <<world, snaps, events, loop, due, faults>>

(* A feed write fails: it is logged, and the rest is dropped. *)
PublishFails ==
  /\ publisher.pc # "none" /\ faults < MaxFaults
  /\ faults' = faults + 1
  /\ publisher' = NoTask
  /\ UNCHANGED <<world, snaps, events, loop, due>>

-----------------------------------------------------------------------------
Next ==
  \/ \E u \in Users : SetRestricted(u) \/ \E m \in Modes : GainPP(u, m)
  \/ Midnight \/ Restart
  \/ capture_today \/ CaptureMode \/ CaptureFails
  \/ FetchPeaks \/ PublishNextMode \/ PublishFails
  \/ \E e \in publisher.peaks : _publish_one(e)

(* The loop runs on by its timers, and its queries return or raise. *)
Fairness == WF_vars(capture_today) /\ WF_vars(CaptureMode)
            /\ WF_vars(FetchPeaks \/ PublishNextMode \/ PublishFails
                       \/ \E e \in publisher.peaks : _publish_one(e))

Spec == Init /\ [][Next]_vars /\ Fairness

-----------------------------------------------------------------------------
(* A snapshot is a fact about a day: once captured it is never changed or
   removed, whatever captures of the same day follow (capture_mode,
   repositories/stat_snapshots.py; "one immutable row per (user, mode, day)"). *)
SnapshotsAreKept == [][snaps \subseteq snaps']_vars

(* The snapshots hold a peak of the event's player on that date. *)
IsPeak(e, date) ==
  \E s \in snaps :
    /\ s.user = e.user /\ s.mode = e.mode /\ s.date = date /\ Prior(s) # {}
    /\ \A o \in Prior(s) : IF e.type = "pp_record" THEN s.pp > o.pp ELSE s.rank < o.rank

(* Every record that the feed announces was one: on the day it is about the
   player stood higher than in every snapshot before (fetch_new_peaks and
   _publish_one, read while captures, restarts and midnights go on). *)
PeaksArePeaks == \A e \in events : IsPeak(e, e.date)

(* A capture that is due happens, though captures fail and the server restarts
   (run_supervised_loop, bg_task_supervision.py). *)
DueIsCaptured == due ~> ~due

(* snapshot_producers.py: gating on rows_written "keeps a restart from
   re-announcing peaks already announced today". *)
PeaksAreAnnouncedOnce == \A e \in events : e.times = 1
-----------------------------------------------------------------------------
(* Proofs, for any players, modes, days and bounds.

   A row of a date that is over is never inserted: what was a peak stays one.
   The invariant therefore orders the dates. All rows, and all the feed says,
   are of today or earlier, and while a capture is running, which midnight may
   have left behind, all the feed says is of its date or earlier. *)

DatesInOrder ==
  /\ day \in Nat
  /\ \A s \in snaps : s.date \in Nat
  /\ loop.pc = "capture" => loop.date \in Nat /\ loop.date <= day
  /\ \A e \in events :
       e.date \in Nat /\ e.date <= day /\ (loop.pc = "capture" => e.date <= loop.date)
  /\ publisher.pc # "none" =>
       /\ publisher.date \in Nat /\ publisher.date <= day
       /\ loop.pc = "capture" => publisher.date <= loop.date

Loops == [pc : {"sleep", "backoff", "capture"}, date : Nat, mode : Nat, written : BOOLEAN]
Tasks == [pc : {"none", "fetch", "publish"}, date : Nat, mode : Nat,
          peaks : SUBSET [user : Users, mode : Nat, type : {"pp_record", "rank_up"}]]

Shapes == loop \in Loops /\ publisher \in Tasks

PeaksInv ==
  /\ Shapes /\ DatesInOrder
  /\ \A e \in events : IsPeak(e, e.date)
  /\ publisher.pc = "publish" => \A e \in publisher.peaks : IsPeak(e, publisher.date)

(* Rows of a date are added by a capture of that date only. *)
LEMMA PeaksStay ==
  ASSUME PeaksInv, NEW e, NEW date \in Nat, IsPeak(e, date),
         \/ snaps' = snaps
         \/ loop.pc = "capture" /\ date <= loop.date /\ snaps' = capture_mode(loop.mode, loop.date)
  PROVE  IsPeak(e, date)'
<1>1. CASE snaps' = snaps
  BY <1>1 DEF IsPeak, Prior
<1>2. CASE /\ loop.pc = "capture" /\ date <= loop.date
           /\ snaps' = capture_mode(loop.mode, loop.date)
  <2>1. /\ snaps \subseteq snaps' /\ loop.date \in Nat
        /\ \A o \in snaps' : o \in snaps \/ o.date = loop.date
    BY <1>2 DEF capture_mode, Row, PeaksInv, DatesInOrder
  <2>2. PICK s \in snaps :
          /\ s.user = e.user /\ s.mode = e.mode /\ s.date = date /\ Prior(s) # {}
          /\ \A o \in Prior(s) : IF e.type = "pp_record" THEN s.pp > o.pp ELSE s.rank < o.rank
    BY DEF IsPeak
  <2>3. Prior(s)' = Prior(s)
    <3>1. \A o \in snaps' : o.date < s.date => o \in snaps
      BY <1>2, <2>1, <2>2
    <3>2. QED
      BY <2>1, <3>1 DEF Prior
  <2>4. QED
    BY <2>1, <2>2, <2>3 DEF IsPeak
<1>3. QED
  BY <1>1, <1>2

LEMMA PeaksInit == Init => PeaksInv
BY DEF Init, PeaksInv, DatesInOrder, Shapes, Loops, Tasks, Asleep, NoTask

(* The task goes on to the next mode under its date, or is over. *)
LEMMA NextTask ==
  ASSUME Shapes, PublishNextMode \/ PublishFails
  PROVE  /\ publisher' \in Tasks /\ publisher'.pc # "publish"
         /\ publisher'.pc # "none" => publisher'.date = publisher.date
<1>1. NoTask \in Tasks /\ NoTask.pc = "none"
  BY DEF NoTask, Tasks
<1>2. ASSUME NEW t \in Tasks
      PROVE  /\ [t EXCEPT !.pc = "fetch", !.mode = t.mode + 1] \in Tasks
             /\ [t EXCEPT !.pc = "fetch", !.mode = t.mode + 1].pc = "fetch"
             /\ [t EXCEPT !.pc = "fetch", !.mode = t.mode + 1].date = t.date
  <2>1. t.mode + 1 \in Nat
    BY DEF Tasks
  <2>2. QED
    BY <2>1 DEF Tasks
<1>3. publisher' \in {NoTask, [publisher EXCEPT !.pc = "fetch", !.mode = publisher.mode + 1]}
  BY DEF PublishNextMode, PublishFails
<1>4. publisher \in Tasks
  BY DEF Shapes
<1>5. QED
  BY <1>1, <1>2, <1>3, <1>4

(* What the steps make of the loop and the task. *)
LEMMA ShapesStay == PeaksInv /\ [Next]_vars => Shapes'
<1> SUFFICES ASSUME Shapes, day \in Nat, Next PROVE Shapes'
  BY DEF vars, Shapes, Loops, Tasks, PeaksInv, DatesInOrder
<1>1. CASE capture_today
  BY <1>1 DEF capture_today, Shapes, Loops, Tasks
<1>2. CASE CaptureMode
  <2>1. (loop.written \/ snaps' # snaps) \in BOOLEAN /\ loop.date \in Nat /\ loop.mode + 1 \in Nat
    BY DEF Shapes, Loops, Tasks
  <2>2. loop' \in Loops
    <3>1. Asleep \in Loops
      BY DEF Asleep, Loops
    <3>2. ASSUME NEW b \in BOOLEAN
          PROVE  [loop EXCEPT !.mode = loop.mode + 1, !.written = b] \in Loops
      BY <2>1 DEF Shapes, Loops, Tasks
    <3>3. loop' = Asleep \/ \E b \in BOOLEAN :
            loop' = [loop EXCEPT !.mode = loop.mode + 1, !.written = b]
      BY <1>2, <2>1 DEF CaptureMode
    <3>4. QED
      BY <3>1, <3>2, <3>3
  <2>3. publisher' \in {publisher, NoTask,
                        [pc |-> "fetch", date |-> loop.date, mode |-> 1, peaks |-> {}]}
    BY <1>2 DEF CaptureMode
  <2>4. QED
    BY <2>1, <2>2, <2>3 DEF Shapes, Loops, Tasks, NoTask
<1>3. CASE Restart \/ CaptureFails
  <2>1. /\ Asleep.pc = "sleep" /\ Asleep.date \in Nat
        /\ Asleep \in Loops
        /\ NoTask \in Tasks
    BY DEF Asleep, NoTask, Loops, Tasks
  <2>2. [Asleep EXCEPT !.pc = "backoff"] \in Loops
    BY <2>1 DEF Loops
  <2>3. QED
    BY <1>3, <2>1, <2>2 DEF Restart, CaptureFails, Shapes, Loops, Tasks
<1>4. CASE FetchPeaks
  <2>1. fetch_new_peaks(publisher.mode, publisher.date)
          \in SUBSET [user : Users, mode : Nat, type : {"pp_record", "rank_up"}]
    BY DEF fetch_new_peaks, Shapes, Loops, Tasks
  <2>2. QED
    BY <1>4, <2>1 DEF FetchPeaks, Shapes, Loops, Tasks
<1>5. CASE PublishNextMode \/ PublishFails
  BY <1>5, NextTask DEF PublishNextMode, PublishFails, Shapes
<1>6. ASSUME NEW e \in publisher.peaks, _publish_one(e) PROVE Shapes'
  BY <1>6 DEF _publish_one, Shapes, Loops, Tasks
<1>7. CASE \/ \E u \in Users : SetRestricted(u) \/ \E m \in Modes : GainPP(u, m)
           \/ Midnight
  BY <1>7 DEF SetRestricted, GainPP, Midnight, Shapes, Loops, Tasks
<1>8. QED
  BY <1>1, <1>2, <1>3, <1>4, <1>5, <1>6, <1>7 DEF Next

LEMMA PeaksNext == PeaksInv /\ [Next]_vars => PeaksInv'
<1> SUFFICES ASSUME PeaksInv, [Next]_vars PROVE PeaksInv'
  OBVIOUS
<1>0. /\ Shapes' /\ Shapes
      /\ \A e \in events : e.date \in Nat /\ IsPeak(e, e.date)
      /\ publisher.pc = "publish" =>
           publisher.date \in Nat /\ \A e \in publisher.peaks : IsPeak(e, publisher.date)
  BY ShapesStay DEF PeaksInv, DatesInOrder
<1>1. CASE UNCHANGED <<snaps, events, publisher>> /\ day \in Nat /\ day' \in Nat /\ day <= day'
           /\ loop' = loop
  <2>1. DatesInOrder'
    BY <1>1 DEF PeaksInv, DatesInOrder
  <2>2. QED
    BY <1>0, <1>1, <2>1, PeaksStay DEF PeaksInv
<1>2. CASE \E u \in Users : SetRestricted(u) \/ \E m \in Modes : GainPP(u, m)
  BY <1>1, <1>2 DEF SetRestricted, GainPP, PeaksInv, DatesInOrder
<1>3. CASE Midnight
  BY <1>1, <1>3 DEF Midnight, PeaksInv, DatesInOrder
<1>4. CASE Restart \/ CaptureFails
  <2>1. /\ loop'.pc # "capture" /\ UNCHANGED <<snaps, events, day>>
        /\ publisher' = publisher \/ publisher'.pc = "none"
    BY <1>4 DEF Restart, CaptureFails, Asleep, NoTask, world
  <2>2. DatesInOrder'
    BY <2>1 DEF PeaksInv, DatesInOrder
  <2>3. QED
    BY <1>0, <2>1, <2>2, PeaksStay DEF PeaksInv
<1>5. CASE capture_today
  <2>1. /\ loop'.pc = "capture" /\ loop'.date = day
        /\ UNCHANGED <<snaps, events, day, publisher>>
    BY <1>5 DEF capture_today, world
  <2>2. DatesInOrder'
    BY <2>1 DEF PeaksInv, DatesInOrder
  <2>3. QED
    BY <1>0, <2>1, <2>2, PeaksStay DEF PeaksInv
<1>6. CASE CaptureMode
  <2>1. /\ loop.pc = "capture" /\ snaps' = capture_mode(loop.mode, loop.date)
        /\ UNCHANGED <<events, day>>
        /\ loop'.pc # "capture" \/ (loop'.date = loop.date /\ publisher' = publisher)
        /\ \/ publisher' = publisher \/ publisher'.pc = "none"
           \/ publisher'.pc = "fetch" /\ publisher'.date = loop.date
    <3>1. Asleep.pc = "sleep" /\ NoTask.pc = "none"
      BY DEF Asleep, NoTask
    <3>2. \A b : [loop EXCEPT !.mode = loop.mode + 1, !.written = b].date = loop.date
      BY <1>0 DEF Shapes, Loops
    <3>3. CASE loop.mode < NModes
      <4>1. publisher' = publisher /\ loop'.date = loop.date
        BY <1>6, <3>2, <3>3 DEF CaptureMode
      <4>2. QED
        BY <1>6, <4>1 DEF CaptureMode, world
    <3>4. CASE ~(loop.mode < NModes)
      <4>1. loop' = Asleep
            /\ publisher' \in {NoTask, [pc |-> "fetch", date |-> loop.date, mode |-> 1,
                                        peaks |-> {}]}
        BY <1>6, <3>4 DEF CaptureMode
      <4>2. QED
        BY <1>6, <3>1, <4>1 DEF CaptureMode, world
    <3>5. QED
      BY <3>3, <3>4
  <2>2. DatesInOrder'
    <3>1. \A s \in snaps' : s.date \in Nat
      BY <2>1 DEF capture_mode, Row, PeaksInv, DatesInOrder
    <3>2. QED
      BY <2>1, <3>1 DEF PeaksInv, DatesInOrder
  <2>3. \A e \in events : IsPeak(e, e.date)'
    BY <1>0, <2>1, PeaksStay DEF PeaksInv, DatesInOrder
  <2>4. publisher'.pc = "publish" => \A e \in publisher.peaks : IsPeak(e, publisher.date)'
    BY <1>0, <2>1, PeaksStay DEF PeaksInv, DatesInOrder
  <2>5. QED
    BY <1>0, <2>1, <2>2, <2>3, <2>4 DEF PeaksInv
<1>7. CASE FetchPeaks
  <2>1. /\ publisher.pc = "fetch" /\ publisher'.date = publisher.date
        /\ publisher'.peaks = fetch_new_peaks(publisher.mode, publisher.date)
        /\ UNCHANGED <<snaps, events, day, loop>>
    BY <1>0, <1>7 DEF FetchPeaks, Shapes, Loops, Tasks, world
  <2>2. DatesInOrder'
    BY <2>1 DEF PeaksInv, DatesInOrder
  <2>3. \A e \in fetch_new_peaks(publisher.mode, publisher.date) : IsPeak(e, publisher.date)
    BY DEF fetch_new_peaks, IsPeak
  <2>4. QED
    BY <1>0, <2>1, <2>2, <2>3, PeaksStay DEF PeaksInv, DatesInOrder
<1>8. CASE PublishNextMode \/ PublishFails
  <2>1. /\ UNCHANGED <<snaps, events, day, loop>>
        /\ publisher'.pc # "publish"
        /\ publisher.pc # "none"
        /\ publisher'.pc # "none" => publisher'.date = publisher.date
    BY <1>0, <1>8, NextTask DEF PublishNextMode, PublishFails, world
  <2>2. DatesInOrder'
    BY <2>1 DEF PeaksInv, DatesInOrder
  <2>3. QED
    BY <1>0, <2>1, <2>2, PeaksStay DEF PeaksInv
<1>9. ASSUME NEW e \in publisher.peaks, _publish_one(e) PROVE PeaksInv'
  <2>1. PICK r :
          /\ r.user = e.user /\ r.mode = e.mode /\ r.type = e.type /\ r.date = publisher.date
          /\ events' = events \cup {r}
    BY <1>9 DEF _publish_one
  <2>2. /\ publisher.pc = "publish" /\ publisher'.date = publisher.date
        /\ publisher'.peaks \subseteq publisher.peaks
        /\ UNCHANGED <<snaps, day, loop>>
    BY <1>0, <1>9 DEF _publish_one, Shapes, Loops, Tasks, world
  <2>3. DatesInOrder'
    BY <2>1, <2>2 DEF PeaksInv, DatesInOrder
  <2>4. IsPeak(r, r.date)
    BY <1>0, <2>1, <2>2 DEF IsPeak
  <2>5. QED
    BY <1>0, <2>1, <2>2, <2>3, <2>4, PeaksStay DEF PeaksInv, DatesInOrder
<1>10. CASE UNCHANGED vars
  BY <1>1, <1>10 DEF vars, PeaksInv, DatesInOrder
<1>11. QED
  BY <1>2, <1>3, <1>4, <1>5, <1>6, <1>7, <1>8, <1>9, <1>10 DEF Next

(* What the feed announces as a record was one (fetch_new_peaks, _publish_one),
   and stays one: captures that midnight left behind, restarts and captures of
   the same day add no earlier row to compare it with. *)
THEOREM PeaksSafe == Spec => []PeaksArePeaks
<1>1. PeaksInv => PeaksArePeaks
  BY DEF PeaksInv, PeaksArePeaks
<1>2. QED
  BY <1>1, PeaksInit, PeaksNext, PTL DEF Spec

(* No step changes or removes a snapshot (capture_mode's INSERT IGNORE). *)
THEOREM SnapshotsSafe == Spec => SnapshotsAreKept
<1>1. [Next]_vars => [snaps \subseteq snaps']_vars
  <2>1. ASSUME CaptureMode PROVE snaps \subseteq snaps'
    BY <2>1 DEF CaptureMode, capture_mode
  <2>2. ASSUME Next PROVE CaptureMode \/ snaps' = snaps
    BY <2>2 DEF Next, SetRestricted, GainPP, Midnight, Restart, capture_today, CaptureFails,
                FetchPeaks, PublishNextMode, PublishFails, _publish_one
  <2>3. QED
    BY <2>1, <2>2 DEF vars
<1>2. QED
  BY <1>1, PTL DEF Spec, SnapshotsAreKept
=============================================================================
