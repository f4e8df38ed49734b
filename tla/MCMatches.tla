------------------------------ MODULE MCMatches -----------------------------
(***************************************************************************)
(* Small instances of what happens in and around a match once people sit   *)
(* in it: the games, the record made of them, and what is played for how   *)
(* many points. The models share no state, so that interleaving them would *)
(* show nothing: which of them runs is chosen at the start, and the states *)
(* to look at add up instead of multiplying. The configurations give small *)
(* instances.                                                              *)
(***************************************************************************)
EXTENDS MCMatchPlay, Integers, TLC

CONSTANTS
  \* of MatchHistory
  Hosts, Staff, Anonymous, NPlaces, MaxLobbies, MaxRecorded, Lineups, Limit,
  MaxReads, MaxFaults,
  \* of MatchSettings
  Members, Judges, Rooms, NSeats, Mods, Maps, TeamTypes, BestOf, Pools,
  MaxScore, MaxOps, Handlers,
  Opener     \* who opened the match that the runs look at

\* What players and picks are, and how many points a game is worth: a player is
\* no team and neither an empty slot nor a tie.
ASSUME SettingsAssumption ==
  /\ Members \cap {"nobody", "tie", "neutral", "red", "blue"} = {}
  /\ NSeats \in Nat \ {0}
  /\ TeamTypes \subseteq {"head_to_head", "tag_coop", "team_vs", "tag_team_vs"}
  /\ \A q \in DOMAIN Pools : \A k \in DOMAIN Pools[q] :
       Pools[q][k] \in [map : Maps, mods : SUBSET Mods]

\* Nobody plays twice in a game, whoever has no session opens no lobby, and a
\* page has room for a row.
ASSUME RecordAssumption ==
  /\ Anonymous \notin Hosts /\ Limit \in Nat \ {0}
  /\ \A fs \in Lineups :
       /\ Len(fs) \in Nat /\ DOMAIN fs = 1 .. Len(fs)
       /\ \A i \in DOMAIN fs :
            /\ fs[i].f \in [decodes : BOOLEAN, passed : BOOLEAN, metric : Int]
            /\ \A j \in DOMAIN fs : fs[i].u = fs[j].u => i = j

VARIABLES
  service,   \* which of them runs
  h_live, h_matches, h_rows, h_games, h_scores, h_tasks, h_nextId, h_scroll,
  h_played, h_reads, h_faults,
  s_match, s_slots, s_task, s_ops

h_vars == <<h_live, h_matches, h_rows, h_games, h_scores, h_tasks, h_nextId,
          h_scroll, h_played, h_reads, h_faults>>
s_vars == <<s_match, s_slots, s_task, s_ops>>
allvars == <<service, vars, h_vars, s_vars>>

\* The value of what belongs to a service that does not run.
Off == "off"

\* One player whose frame does not decode, or that one and another who passed.
Frame(decodes, passed, metric) == [decodes |-> decodes, passed |-> passed, metric |-> metric]
MCLineups ==
  {<<[u |-> "u", f |-> Frame(FALSE, TRUE, 0)]>>,
   <<[u |-> "u", f |-> Frame(TRUE, FALSE, 1)], [u |-> "v", f |-> Frame(TRUE, TRUE, 0)]>>}
MCPools == [a |-> <<[map |-> 1, mods |-> {"HD"}]>>]

History == INSTANCE MatchHistory WITH
    Users <- Hosts, NSlots <- NPlaces, MaxMatches <- MaxLobbies,
    MaxGames <- MaxRecorded, live <- h_live, matches <- h_matches,
    rows <- h_rows, games <- h_games, scores <- h_scores, tasks <- h_tasks,
    nextId <- h_nextId, scroll <- h_scroll, played <- h_played,
    reads <- h_reads, faults <- h_faults
HistoryOff ==
  /\ h_live = Off /\ h_matches = Off /\ h_rows = Off /\ h_games = Off
  /\ h_scores = Off /\ h_tasks = Off /\ h_nextId = Off /\ h_scroll = Off
  /\ h_played = Off /\ h_reads = Off /\ h_faults = Off

Settings == INSTANCE MatchSettings WITH
    Players <- Members, Referees <- Judges, Matches <- Rooms,
    NSlots <- NSeats, Tasks <- Handlers,
    match <- s_match, slots <- s_slots, task <- s_task, ops <- s_ops
SettingsOff ==
  /\ s_match = Off /\ s_slots = Off /\ s_task = Off /\ s_ops = Off

-----------------------------------------------------------------------------
AllInit ==
  \/ service = "play" /\ Init /\ HistoryOff /\ SettingsOff
  \/ /\ service = "history" /\ History!Init
     /\ Init /\ SettingsOff
  \/ /\ service = "settings" /\ Settings!Init
     /\ \A m \in Rooms : /\ s_match[m].host = Opener
                         /\ s_match[m].mods = {} /\ ~s_match[m].freemods
     /\ Init /\ HistoryOff

AllNext ==
  \/ /\ service = "play" /\ Next
     /\ UNCHANGED <<service, h_vars, s_vars>>
  \/ /\ service = "history" /\ History!Next
     /\ UNCHANGED <<service, vars, s_vars>>
  \/ /\ service = "settings" /\ Settings!Next
     /\ UNCHANGED <<service, vars, h_vars>>

AllSpec == AllInit /\ [][AllNext]_allvars

\* Players are interchangeable in the games.
AllSymmetry == Permutations(Players)

\* The games without the record of them: see MCMatchPlay.
AllView == <<service, View, h_vars, s_vars>>

-----------------------------------------------------------------------------
(* What they are checked for.                                              *)

\* What the site shows of a game is decided by its lobby (_stash_db_id,
\* persist_game_completed, fetch_game_scores): see MatchHistory.
GamesAreFiledRight == service = "history" => History!GamesAreFiledRight

\* Scrolls through matches and games miss nothing (fetch_recent_matches,
\* fetch_games_for_match): see MatchHistory.
ScrollsAreComplete == service = "history" => History!ScrollsAreComplete

\* Mods are with the match or with its players as freemods says
\* (MatchChangeSettings, MatchChangeMods): see MatchSettings.
ModsAreWhereTheyBelong == service = "settings" => Settings!ModsAreWhereTheyBelong

\* The points of a scrim are the games won in it (update_matchpoints, mp_rematch):
\* see MatchSettings.
PointsAreWins == service = "settings" => Settings!PointsAreWins

\* What mp_scrim announces, which settings changed meanwhile undo: see
\* MatchSettings.  It does not hold (MCMatches_refuted.cfg).
ScrimIsUndecided == service = "settings" => Settings!ScrimIsUndecided

\* The comment "should always exist" on the host's slot (app/api/domains/cho.py:1619)
\* is what nobody's keeping mods rests on.  It does not hold (MCMatches_refuted.cfg).
NobodyKeepsMods == service = "settings" => Settings!NobodyKeepsMods
=============================================================================
