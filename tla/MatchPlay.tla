------------------------------ MODULE MatchPlay ------------------------------
(***************************************************************************)
(* Playing games in one multiplayer match: ready, start, load, play,       *)
(* complete, abort, and the record made of a completed game.  Lobby models *)
(* who may sit down, who is host and how a match comes and goes; here      *)
(* every seated player may be the host or a referee.                       *)
(*                                                                         *)
(* The server keeps the state of the game in the slots.  What a client     *)
(* believes lags behind: packets for it wait in its queue until it polls.  *)
(* A client sends the packets of the phase it believes to be in, so        *)
(* packets of a game reach the server after that game was aborted,         *)
(* completed or replaced by another.  The client is external code,         *)
(* modelled from the packets the handlers of cho.py exchange with it.      *)
(***************************************************************************)
EXTENDS Naturals, Sequences

CONSTANTS Players,    \* players who may sit in the match
          SlotIds,    \* indices of the slots (0..15 in the code)
          Steadfast,  \* players who leave only between games, and whose slot nobody locks
          MaxGames,   \* bound: games started in one behaviour
          None

ASSUME MatchPlayAssumption ==
  /\ SlotIds \subseteq Nat
  /\ Steadfast \subseteq Players
  /\ MaxGames \in Nat
  /\ None \notin Players

VARIABLES
  slots,        \* match.slots
  in_progress,  \* match.in_progress
  started_at,   \* match.current_game_started_at: the last game started, 0 for None
  aborted,      \* ghost: games aborted
  recorded,     \* ghost: persist_game_completed calls, by game
  client,       \* phase and game each client believes to be in
  inbox         \* packets each client has not received yet

vars == <<slots, in_progress, started_at, aborted, recorded, client, inbox>>

Games == 1..MaxGames

SlotStatus == {"open", "locked", "not_ready", "ready", "no_map", "playing", "complete"}

Slot == [player : Players \cup {None}, status : SlotStatus, loaded : BOOLEAN,
         passed : BOOLEAN, last_score_frame : 0..MaxGames]

\* Slot.__init__ and Slot.reset.
Reset(status) == [player |-> None, status |-> status, loaded |-> FALSE,
                  passed |-> TRUE, last_score_frame |-> 0]

Phases == {"out", "lobby", "loading", "waiting", "playing", "finished"}
Packets == [kind : {"start"}, game : Games]
           \cup [kind : {"all_loaded", "complete", "abort"}]

Init ==
  /\ \E p \in Players :
       /\ slots = [i \in SlotIds |->
                     IF \A j \in SlotIds : i <= j
                     THEN [Reset("not_ready") EXCEPT !.player = p] ELSE Reset("open")]
       /\ client = [q \in Players |->
                      [phase |-> IF q = p THEN "lobby" ELSE "out", game |-> 0]]
  /\ in_progress = FALSE
  /\ started_at = 0
  /\ aborted = {}
  /\ recorded = [g \in Games |-> 0]
  /\ inbox = [p \in Players |-> <<>>]

-----------------------------------------------------------------------------
(* Reading and writing the match.                                          *)

Sits(p, i) == slots[i].player = p
Seated == {slots[i].player : i \in SlotIds} \ {None}

\* Match.enqueue: a packet for everybody in the match but the immune.
Enqueue(immune, packet) ==
  inbox' = [p \in Players |-> IF p \in Seated \ immune THEN Append(inbox[p], packet)
                                                       ELSE inbox[p]]

\* A change of p's own slot; without a slot the handler's assertion fails.
OwnSlot(p, change(_)) ==
  \E i \in SlotIds : Sits(p, i) /\ slots' = [slots EXCEPT ![i] = change(@)]

Believes(p, phase) == client[p].phase = phase
Enters(p, phase) == client' = [client EXCEPT ![p].phase = phase]

\* Match.unready_players and Match.reset_players_loaded_status.
Unready(s, expected) ==
  [s EXCEPT !.status = IF @ = expected THEN "not_ready" ELSE @, !.loaded = FALSE]

-----------------------------------------------------------------------------
(* Coming, going, and the slots between games.                             *)

\* Player.join_match for a player who takes the first open slot: what the
\* slot's former player left in it stays.
Join(p) ==
  /\ Believes(p, "out") /\ p \notin Seated /\ Seated # {}
  /\ \E i \in SlotIds :
       /\ slots[i].status = "open"
       /\ \A j \in SlotIds : slots[j].status = "open" => i <= j
       /\ slots' = [slots EXCEPT ![i].player = p, ![i].status = "not_ready"]
  /\ client' = [client EXCEPT ![p] = [phase |-> "lobby", game |-> 0]]
  /\ UNCHANGED <<in_progress, started_at, aborted, recorded, inbox>>

\* Player.leave_match (with the last player the match is gone).  Nobody checks
\* whether the game was waiting for the player who left.
Leave(p) ==
  /\ p \in Steadfast => ~in_progress /\ Believes(p, "lobby") /\ inbox[p] = <<>>
  /\ OwnSlot(p, LAMBDA s : Reset(IF s.status = "locked" THEN "locked" ELSE "open"))
  /\ client' = [client EXCEPT ![p] = [phase |-> "out", game |-> 0]]
  /\ inbox' = [inbox EXCEPT ![p] = <<>>]
  /\ UNCHANGED <<in_progress, started_at, aborted, recorded>>

\* MatchReady, MatchNotReady, MatchNoBeatmap and MatchHasBeatmap.
SetStatus(p) ==
  /\ Believes(p, "lobby")
  /\ \E status \in {"ready", "not_ready", "no_map"} :
       OwnSlot(p, LAMBDA s : [s EXCEPT !.status = status])
  /\ UNCHANGED <<in_progress, started_at, aborted, recorded, client, inbox>>

\* MatchChangeSlot: Slot.copy_from takes player and status (and team, mods).
ChangeSlot(p, i) ==
  /\ Believes(p, "lobby")
  /\ slots[i].status = "open"
  /\ \E j \in SlotIds :
       /\ Sits(p, j)
       /\ slots' = [slots EXCEPT ![i].player = p, ![i].status = slots[j].status,
                                 ![j] = Reset("open")]
  /\ UNCHANGED <<in_progress, started_at, aborted, recorded, client, inbox>>

\* MatchLock by the host, on a slot other than the host's own.
Lock(i) ==
  /\ Seated \ {slots[i].player} # {}
  /\ slots[i].player \notin Steadfast
  /\ slots' = [slots EXCEPT ![i].status = IF @ = "locked" THEN "open" ELSE "locked"]
  /\ UNCHANGED <<in_progress, started_at, aborted, recorded, client, inbox>>

-----------------------------------------------------------------------------
(* The game.                                                               *)

\* Match.start: `loaded` is not cleared.  The bound caps the games.  MatchStart,
\* !mp start, !mp start force and the start timer call it whatever is going on.
Start ==
  /\ Seated # {} /\ started_at < MaxGames
  /\ LET missing == {slots[i].player : i \in {j \in SlotIds : slots[j].status = "no_map"}}
     IN  Enqueue(missing, [kind |-> "start", game |-> started_at + 1])
  /\ slots' = [i \in SlotIds |->
                 [slots[i] EXCEPT
                    !.status = IF slots[i].player # None /\ @ # "no_map"
                               THEN "playing" ELSE @,
                    !.passed = TRUE, !.last_score_frame = 0]]
  /\ in_progress' = TRUE
  /\ started_at' = started_at + 1
  /\ UNCHANGED <<aborted, recorded, client>>

\* Mutated form of Abort: the players are left in play.
AbortKeepsPlaying ==
  /\ Seated # {} /\ in_progress
  /\ slots' = [i \in SlotIds |-> [slots[i] EXCEPT !.loaded = FALSE]]
  /\ in_progress' = FALSE
  /\ aborted' = aborted \cup {started_at}
  /\ Enqueue({}, [kind |-> "abort"])
  /\ UNCHANGED <<started_at, recorded, client>>

\* !mp abort.
Abort ==
  /\ Seated # {} /\ in_progress
  /\ slots' = [i \in SlotIds |-> Unready(slots[i], "playing")]
  /\ in_progress' = FALSE
  /\ aborted' = aborted \cup {started_at}
  /\ Enqueue({}, [kind |-> "abort"])
  /\ UNCHANGED <<started_at, recorded, client>>

\* Mutated form of LoadComplete: the others are looked at before the own slot
\* is marked.
LoadCompleteLooksFirst(p) ==
  /\ Believes(p, "loading")
  /\ OwnSlot(p, LAMBDA s : [s EXCEPT !.loaded = TRUE])
  /\ Enters(p, "waiting")
  /\ IF \A i \in SlotIds : slots[i].status = "playing" => slots[i].loaded
     THEN Enqueue({}, [kind |-> "all_loaded"]) ELSE inbox' = inbox
  /\ UNCHANGED <<in_progress, started_at, aborted, recorded>>

\* MatchLoadComplete: once no playing slot is unloaded everybody is told.
LoadComplete(p) ==
  /\ Believes(p, "loading")
  /\ OwnSlot(p, LAMBDA s : [s EXCEPT !.loaded = TRUE])
  /\ Enters(p, "waiting")
  /\ IF \A i \in SlotIds : slots'[i].status = "playing" => slots'[i].loaded
     THEN Enqueue({}, [kind |-> "all_loaded"]) ELSE inbox' = inbox
  /\ UNCHANGED <<in_progress, started_at, aborted, recorded>>

\* MatchScoreUpdate: the frame of the game the client is playing.
ScoreUpdate(p) ==
  /\ Believes(p, "playing")
  /\ OwnSlot(p, LAMBDA s : [s EXCEPT !.last_score_frame = client[p].game])
  /\ UNCHANGED <<in_progress, started_at, aborted, recorded, client, inbox>>

\* MatchFailed.
Failed(p) ==
  /\ Believes(p, "playing")
  /\ OwnSlot(p, LAMBDA s : [s EXCEPT !.passed = FALSE])
  /\ UNCHANGED <<in_progress, started_at, aborted, recorded, client, inbox>>

\* Mutated form of Complete: the game also waits for players who sit it out.
CompleteWaitsForIdle(p) ==
  /\ Believes(p, "playing")
  /\ Enters(p, "finished")
  /\ \E i \in SlotIds :
       /\ Sits(p, i)
       /\ LET now == [slots EXCEPT ![i].status = "complete"]
              wasPlaying == {now[j].player : j \in {k \in SlotIds : now[k].status = "complete"}}
          IN  IF \E j \in SlotIds : now[j].status \in {"playing", "not_ready"}
              THEN slots' = now /\ UNCHANGED <<in_progress, recorded, inbox>>
              ELSE /\ slots' = [j \in SlotIds |-> Unready(now[j], "complete")]
                   /\ in_progress' = FALSE
                   /\ Enqueue(Players \ wasPlaying, [kind |-> "complete"])
                   /\ recorded' = [recorded EXCEPT ![started_at] = @ + 1]
  /\ UNCHANGED <<started_at, aborted>>

\* MatchComplete: the last one to complete ends the game for all who did,
\* and the game is recorded under the start time of the last game started.
Complete(p) ==
  /\ Believes(p, "playing")
  /\ Enters(p, "finished")
  /\ \E i \in SlotIds :
       /\ Sits(p, i)
       /\ LET now == [slots EXCEPT ![i].status = "complete"]
              wasPlaying == {now[j].player : j \in {k \in SlotIds : now[k].status = "complete"}}
          IN  IF \E j \in SlotIds : now[j].status = "playing"
              THEN slots' = now /\ UNCHANGED <<in_progress, recorded, inbox>>
              ELSE /\ slots' = [j \in SlotIds |-> Unready(now[j], "complete")]
                   /\ in_progress' = FALSE
                   /\ Enqueue(Players \ wasPlaying, [kind |-> "complete"])
                   /\ recorded' = [recorded EXCEPT ![started_at] = @ + 1]
  /\ UNCHANGED <<started_at, aborted>>

\* The client polls: what the next packet makes of its phase.
Heard(c, packet) ==
  CASE packet.kind = "start" -> [phase |-> "loading", game |-> packet.game]
    [] packet.kind = "abort" -> [c EXCEPT !.phase = "lobby"]
    [] packet.kind = "all_loaded" ->
         [c EXCEPT !.phase = IF @ = "waiting" THEN "playing" ELSE @]
    [] packet.kind = "complete" ->
         [c EXCEPT !.phase = IF @ = "finished" THEN "lobby" ELSE @]

Poll(p) ==
  /\ inbox[p] # <<>>
  /\ client' = [client EXCEPT ![p] = Heard(client[p], Head(inbox[p]))]
  /\ inbox' = [inbox EXCEPT ![p] = Tail(inbox[p])]
  /\ UNCHANGED <<slots, in_progress, started_at, aborted, recorded>>

Next ==
  \/ Start \/ Abort
  \/ \E i \in SlotIds : Lock(i)
  \/ \E p \in Players :
       \/ Join(p) \/ Leave(p) \/ SetStatus(p) \/ Poll(p)
       \/ LoadComplete(p) \/ ScoreUpdate(p) \/ Failed(p) \/ Complete(p)
       \/ \E i \in SlotIds : ChangeSlot(p, i)

Spec == Init /\ [][Next]_vars

\* Clients keep polling, finish loading and finish playing.
Fairness ==
  \A p \in Players : WF_vars(Poll(p)) /\ WF_vars(LoadComplete(p)) /\ WF_vars(Complete(p))

FairSpec == Spec /\ Fairness

-----------------------------------------------------------------------------
(* Properties.                                                             *)

\* Type correctness of the match, the clients and the packets between them; a
\* slot nobody sits in keeps nothing of its former player.
TypeOK ==
  /\ slots \in [SlotIds -> Slot]
  /\ \A i \in SlotIds : slots[i].player = None =>
       slots[i] \in {Reset("open"), Reset("locked")}
  /\ in_progress \in BOOLEAN
  /\ started_at \in 0..MaxGames
  /\ aborted \subseteq Games
  /\ recorded \in [Games -> Nat]
  /\ client \in [Players -> [phase : Phases, game : 0..MaxGames]]
  /\ \A p \in Players : inbox[p] \in Seq(Packets)

\* Nobody is in play outside a game: every way out of a game takes all its
\* players out of play.
PlayingOnlyInProgress ==
  \A i \in SlotIds : slots[i].status = "playing" => in_progress /\ slots[i].player # None

\* The match, its clients and the packets between them are well formed, and who
\* is in play is in a game (Match.start, MatchComplete, mp_abort, leave_match).
PlayInv == TypeOK /\ PlayingOnlyInProgress

InPlay == \E i \in SlotIds : slots[i].status = "playing"

\* A game that nobody leaves or is kicked from ends: the handshakes of loading
\* and completing do not wait for one another, whatever is restarted, aborted
\* or late.
GamesEnd == InPlay ~> ~InPlay

\* A client that has loaded is told to begin, and one that has finished is
\* told that the game is over.
NobodyIsLeftWaiting ==
  \A p \in Players :
    client[p].phase \in {"waiting", "finished"} ~> client[p].phase \notin {"waiting", "finished"}
=============================================================================
