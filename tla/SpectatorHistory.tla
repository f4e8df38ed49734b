-------------------------- MODULE SpectatorHistory --------------------------
(***************************************************************************)
(* The durable spectator_sessions rows written behind Spectating.          *)
(*                                                                         *)
(* add_spectator and remove_spectator spawn a background task each and do  *)
(* not wait for it.  The task that opens a row hands the row's id back by  *)
(* storing it on the Player object; the task that closes one is given the  *)
(* id found there when the spectating stopped.  The tasks await the        *)
(* database, so each is split at its awaits and any number of handlers and *)
(* other tasks may run in between.                                         *)
(***************************************************************************)
EXTENDS Spectating, Naturals, Sequences

CONSTANTS MaxSpectates,  \* bound: spectates started in one behaviour
          Fallible       \* whether database calls may raise

ASSUME HistoryAssumption == MaxSpectates \in Nat /\ Fallible \in BOOLEAN

VARIABLES
  stash,       \* player.spectating_session_db_id, 0 for None
  watch,       \* ghost: every spectate started so far, in order
  current,     \* ghost: the spectate each session is in, 0 for none
  opening,     \* the persist_spectator_started task of every spectate
  closing,     \* the persist_spectator_ended tasks in flight
  row          \* the spectator_sessions rows, named by their spectate

hvars == <<vars, stash, watch, current, opening, closing, row>>

Watches == 1..MaxSpectates

HInit ==
  /\ Init
  /\ stash = [s \in Sessions |-> 0]
  /\ watch = <<>>
  /\ current = [s \in Sessions |-> 0]
  /\ opening = [n \in Watches |-> "idle"]
  /\ closing = {}
  /\ row = [n \in Watches |-> "none"]

\* remove_spectator captures and clears the stashed id, and spawns the close
\* of that row; with no id the task returns at once.
persist_ended(s) ==
  IF spectating[s] = None THEN UNCHANGED <<stash, closing>>
  ELSE /\ stash' = [stash EXCEPT ![s] = 0]
       /\ closing' = IF stash[s] = 0 THEN closing
                     ELSE closing \cup {[watch |-> current[s], viewer |-> s,
                                         row |-> stash[s]]}

\* add_spectator spawns the insert of a new row.
persist_started(s, h) ==
  /\ Len(watch) < MaxSpectates
  /\ watch' = Append(watch, [host |-> User[h], viewer |-> s])
  /\ current' = [current EXCEPT ![s] = Len(watch')]
  /\ opening' = [opening EXCEPT ![Len(watch')] = "inserting"]

Stop(s) ==
  /\ StopSpectating(s) \/ Logout(s)
  /\ persist_ended(s)
  /\ current' = [current EXCEPT ![s] = 0]
  /\ UNCHANGED <<watch, opening, row>>

\* A player who could not join the host's channel left the former host, and
\* nothing is recorded of the new one.
Start(s, h) ==
  /\ StartSpectating(s, h)
  /\ persist_ended(s)
  /\ IF spectating'[s] = h
     THEN persist_started(s, h)
     ELSE current' = [current EXCEPT ![s] = 0] /\ UNCHANGED <<watch, opening>>
  /\ row' = row

Connect(s) == Login(s) /\ UNCHANGED <<stash, watch, current, opening, closing, row>>

-----------------------------------------------------------------------------
(* The background tasks.                                                   *)

\* start_session: the insert has committed; or it failed and was swallowed.
SessionInserted(n) ==
  /\ opening[n] = "inserting"
  /\ \/ opening' = [opening EXCEPT ![n] = "fetching"] /\ row' = [row EXCEPT ![n] = "open"]
     \/ Fallible /\ opening' = [opening EXCEPT ![n] = "done"] /\ row' = row
  /\ UNCHANGED <<vars, stash, watch, current, closing>>

\* ... the stored row has been read back and on_persisted stashes its id on
\* the Player object, whatever that player is doing by now; or the read failed.
SessionStashed(n) ==
  /\ opening[n] = "fetching"
  /\ opening' = [opening EXCEPT ![n] = "done"]
  /\ \/ stash' = [stash EXCEPT ![watch[n].viewer] = n]
     \/ Fallible /\ stash' = stash
  /\ UNCHANGED <<vars, watch, current, closing, row>>

\* Mutated form of SessionClosed: the id is read when the task runs.
SessionClosedLate(c) ==
  /\ c \in closing
  /\ closing' = closing \ {c}
  /\ row' = [n \in Watches |->
               IF n = stash[c.viewer] /\ row[n] = "open" THEN "ended" ELSE row[n]]
  /\ UNCHANGED <<vars, stash, watch, current, opening>>

\* end_session: ended_at is stamped unless it already is; or the write failed.
SessionClosed(c) ==
  /\ c \in closing
  /\ closing' = closing \ {c}
  /\ \/ row' = [row EXCEPT ![c.row] = IF @ = "open" THEN "ended" ELSE @]
     \/ Fallible /\ row' = row
  /\ UNCHANGED <<vars, stash, watch, current, opening>>

HNext ==
  \/ \E s \in Sessions : \/ Connect(s) \/ Stop(s)
                         \/ \E h \in Sessions : Start(s, h)
  \/ \E n \in Watches : SessionInserted(n) \/ SessionStashed(n)
  \/ \E c \in closing : SessionClosed(c)

HSpec == HInit /\ [][HNext]_hvars

-----------------------------------------------------------------------------
(* Properties.                                                             *)

\* Type correctness of the tasks, the rows and the ids on Player objects; an id
\* on a Player object is that of a row in the table, whichever inserts failed.
HTypeOK ==
  /\ stash \in [Sessions -> 0..MaxSpectates]
  /\ \A s \in Sessions : stash[s] # 0 => row[stash[s]] # "none"
  /\ watch \in Seq([host : Users, viewer : Sessions]) /\ Len(watch) <= MaxSpectates
  /\ current \in [Sessions -> 0..MaxSpectates]
  /\ opening \in [Watches -> {"idle", "inserting", "fetching", "done"}]
  /\ closing \subseteq [watch : Watches, viewer : Sessions, row : Watches]
  /\ row \in [Watches -> {"none", "open", "ended"}]

\* The row of a spectate still going on is never stamped ended, however late
\* the inserts, the read-backs and the closes of earlier spectates land.
OngoingRowStaysOpen ==
  \A s \in Sessions : current[s] # 0 => row[current[s]] # "ended"

\* The rows and the tasks that write them are well formed, and the row of an
\* ongoing spectate is open (persist_spectator_started, persist_spectator_ended).
HistoryInv == HTypeOK /\ OngoingRowStaysOpen
=============================================================================
