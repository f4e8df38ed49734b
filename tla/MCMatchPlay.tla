----------------------------- MODULE MCMatchPlay -----------------------------
(***************************************************************************)
(* Small instances of MatchPlay, and what comments and docstrings say of   *)
(* a game where the code does otherwise.                                   *)
(***************************************************************************)
EXTENDS MatchPlay, TLC

Symmetry == Permutations(Players)

\* What no handler reads before it is overwritten: the record of the games and
\* the scoreboard fields of the slots.
View == <<[i \in SlotIds |-> <<slots[i].player, slots[i].status, slots[i].loaded>>],
          in_progress, started_at, client, inbox>>

-----------------------------------------------------------------------------
\* app/repositories/mp_matches.py: "one row per *completed* game".
OneRowPerCompletedGame ==
  \A g \in Games : recorded[g] <= (IF g \in aborted THEN 0 ELSE 1)

\* app/objects/match.py:97: last_score_frame is "the most recent
\* MATCH_SCORE_UPDATE frame this slot's player sent during the current game".
FrameIsOfCurrentGame ==
  \A i \in SlotIds : slots[i].last_score_frame \in {0, started_at}

\* app/api/domains/cho.py:1902: "check if all players are loaded, if so, tell
\* all players to begin".
BeginWhenAllLoaded ==
  [][\A p \in Players :
       LoadComplete(p) /\ inbox' # inbox =>
         \A q \in Players, i \in SlotIds :
           Sits(q, i) /\ slots[i].status = "playing" =>
             client'[q].phase \in {"waiting", "playing", "finished"}
             /\ client'[q].game = started_at]_vars

\* The same comment, for a game one player leaves while the others wait.
LoadedAreToldToBegin ==
  \A p \in Steadfast : Believes(p, "waiting") ~> ~Believes(p, "waiting")

\* app/objects/match.py:184: current_game_started_at is "None between games".
NoStartTimeBetweenGames == ~in_progress => started_at = 0
=============================================================================
