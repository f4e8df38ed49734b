--------------------------- MODULE MatchHistory ---------------------------
(***************************************************************************)
(* The durable record of multiplayer.  A lobby is created, its games end   *)
(* and it is torn down in memory; each of these spawns a background task   *)
(* that writes rows and may fail.  The id of the row of a lobby comes back *)
(* to the live match only when the task that inserted it goes on, so what  *)
(* a later task files its rows under is what the match knew when that task *)
(* was spawned.  Readers scroll through matches and games by pages.        *)
(*                                                                         *)
(* A live match is known by a number of its own, the slot of the match     *)
(* list it occupies being used again after it.  Of a score frame the model *)
(* keeps whether it decodes, whether its player passed and the metric of   *)
(* the win condition.                                                      *)
(***************************************************************************)
EXTENDS Integers, Sequences, FiniteSets

CONSTANTS
    Users,        \* players who open lobbies
    Staff,        \* viewers with staff privileges
    Anonymous,    \* a viewer without a session
    NSlots,       \* places of the match list
    MaxMatches,   \* lobbies created, all in all
    MaxGames,     \* games completed, all in all
    Lineups,      \* who played, with the frame each sent last, in the order of the slots
    Limit,        \* rows on a page
    MaxReads,     \* scrolls begun
    MaxFaults     \* statements that fail, and restarts

VARIABLES
    live,         \* live matches, by number: open, host, public, db_id
    matches,      \* the match list: the number in each slot, or NoId
    rows,         \* mp_matches
    games,        \* mp_match_games
    scores,       \* mp_match_game_scores, by game
    tasks,        \* background tasks; nth tells those of the games apart
    nextId,       \* the next id of mp_matches
    scroll,       \* the scroll under way
    played, reads, faults

vars == <<live, matches, rows, games, scores, tasks, nextId, scroll, played, reads, faults>>

NoId == 0
NotFound == "not found"
Nums == 1 .. MaxMatches
Slots == 1 .. NSlots
Viewers == Users \cup Staff \cup {Anonymous}

\* MpMatch, MpMatchGame and MpMatchGameScore; origin is the live match a row is
\* about, which no column holds.
MpMatch(n) == [host |-> live[n].host, public |-> live[n].public, disbanded |-> FALSE,
               origin |-> n]
MpMatchGame(t) == [match |-> t.db, origin |-> t.n, participants |-> t.players]
MpMatchGameScore(u, f, place) == [user |-> u, passed |-> f.passed, metric |-> f.metric,
                                  placement |-> place]
NoScroll == [who |-> Anonymous, of |-> NoId, before |-> NoId, shown |-> <<>>, owed |-> {},
             on |-> FALSE, done |-> FALSE]

----------------------------------------------------------------------------
(* The mp_matches repository *)

\* ORDER BY id DESC LIMIT limit of the ids below before.
Newest(ids, before, limit) ==
    LET older == {i \in ids : before = NoId \/ i < before}
        page == {i \in older : Cardinality({j \in older : j > i}) < limit} IN
    [k \in 1 .. Cardinality(page) |->
        CHOOSE i \in page : Cardinality({j \in page : j >= i}) = k]

fetch_recent_matches(before, limit, public_only) ==
    Newest({m \in DOMAIN rows : public_only => rows[m].public}, before, limit)
fetch_games_for_match(m, before, limit) ==
    Newest({g \in DOMAIN games : games[g].match = m}, before, limit)

\* _ranked_scores: who passed first, then by the metric, equal ones in the order
\* they came in.
Above(a, b) == \/ a.passed /\ ~b.passed
               \/ a.passed = b.passed /\ a.metric > b.metric
_ranked_scores(fs) ==
    [i \in DOMAIN fs |->
        1 + Cardinality({j \in DOMAIN fs : Above(fs[j].f, fs[i].f)
                                           \/ (j < i /\ ~Above(fs[i].f, fs[j].f))})]
fetch_scores_for_game(g) ==
    [p \in 1 .. Cardinality(scores[g]) |-> CHOOSE s \in scores[g] : s.placement = p]

----------------------------------------------------------------------------
(* Producers *)

Spawn(t) == tasks' = tasks \cup {t}
Task(op, n, db) == [op |-> op, n |-> n, db |-> db, players |-> <<>>, nth |-> 0, pc |-> "insert"]

\* get_free: the first free slot.
get_free == CHOOSE s \in Slots : matches[s] = NoId /\ \A r \in 1 .. s - 1 : matches[r] # NoId

\* MatchCreate: the live match is in the list at once, its row is written later.
\* host is what the client sent; private matches are those whose password says so.
MatchCreate(n, host, public) ==
    /\ \A k \in Nums : live[k].host = Anonymous <=> k >= n
    /\ \E s \in Slots : matches[s] = NoId
    /\ live' = [live EXCEPT ![n] = [open |-> TRUE, host |-> host, public |-> public, db_id |-> NoId]]
    /\ matches' = [matches EXCEPT ![get_free] = n]
    /\ Spawn(Task("create", n, NoId))
    /\ UNCHANGED <<rows, games, scores, nextId, scroll, played, reads, faults>>

\* persist_match_created: the insert is given its id when it begins and is
\* seen by others when it ends, in whichever order; the id is read back and
\* handed to the live match (on_persisted).
create_match(t) ==
    /\ t.op = "create" /\ t.pc = "insert"
    /\ nextId' = nextId + 1
    /\ tasks' = (tasks \ {t}) \cup {[t EXCEPT !.pc = "commit", !.db = nextId]}
    /\ UNCHANGED <<live, matches, rows, games, scores, scroll, played, reads, faults>>

create_match_commits(t) ==
    /\ t.op = "create" /\ t.pc = "commit"
    /\ rows' = [m \in DOMAIN rows \cup {t.db} |-> IF m = t.db THEN MpMatch(t.n) ELSE rows[m]]
    /\ tasks' = (tasks \ {t}) \cup {[t EXCEPT !.pc = "stash"]}
    /\ UNCHANGED <<live, matches, games, scores, nextId, scroll, played, reads, faults>>

stash_db_id_BySlot(n, db) ==  \* on whatever match has its place now
    [k \in Nums |-> IF \E s \in Slots : matches[s] = k THEN [live[k] EXCEPT !.db_id = db] ELSE live[k]]
\* _stash_db_id sets the id on the match it was made for.
stash_db_id(n, db) == [live EXCEPT ![n].db_id = db]
persist_match_created(t) ==
    /\ t.op = "create" /\ t.pc = "stash"
    /\ live' = stash_db_id(t.n, t.db)
    /\ tasks' = tasks \ {t}
    /\ UNCHANGED <<matches, rows, games, scores, nextId, scroll, played, reads, faults>>

\* MatchComplete takes the frames of those who played and spawns the task with
\* the id the match has now; persist_game_completed returns at once without one.
MatchComplete(n, fs) ==
    /\ live[n].open /\ played < MaxGames /\ played' = played + 1
    /\ IF live[n].db_id = NoId THEN tasks' = tasks
       ELSE Spawn([Task("game", n, live[n].db_id) EXCEPT !.players = fs, !.nth = played])
    /\ UNCHANGED <<live, matches, rows, games, scores, nextId, scroll, reads, faults>>

\* _decode_participant_scores drops frames that do not decode.
_decode_participant_scores(fs) == [i \in {j \in DOMAIN fs : fs[j].f.decodes} |-> fs[i]]

record_game(t) ==
    LET g == Cardinality(DOMAIN games) + 1
        frames == _decode_participant_scores(t.players) IN
    /\ t.op = "game" /\ t.pc = "insert"
    /\ games' = [h \in DOMAIN games \cup {g} |-> IF h = g THEN MpMatchGame(t) ELSE games[h]]
    /\ scores' = [h \in DOMAIN games' |-> IF h = g THEN {} ELSE scores[h]]
    /\ tasks' = (tasks \ {t}) \cup
         (IF DOMAIN frames = {} THEN {}
          ELSE {[t EXCEPT !.pc = "scores", !.db = g, !.players = frames]})
    /\ UNCHANGED <<live, matches, rows, nextId, scroll, played, reads, faults>>

record_game_scores(t) ==
    LET place == _ranked_scores(t.players) IN
    /\ t.op = "game" /\ t.pc = "scores"
    /\ scores' = [scores EXCEPT ![t.db] =
         {MpMatchGameScore(t.players[i].u, t.players[i].f, place[i]) : i \in DOMAIN t.players}]
    /\ tasks' = tasks \ {t}
    /\ UNCHANGED <<live, matches, rows, games, nextId, scroll, played, reads, faults>>

\* leave_match by the last one: the slot is free, the disbanding is written later.
LeaveMatch(n) ==
    /\ live[n].open
    /\ live' = [live EXCEPT ![n].open = FALSE]
    /\ matches' = [s \in Slots |-> IF matches[s] = n THEN NoId ELSE matches[s]]
    /\ IF live[n].db_id = NoId THEN tasks' = tasks
       ELSE Spawn(Task("disband", n, live[n].db_id))
    /\ UNCHANGED <<rows, games, scores, nextId, scroll, played, reads, faults>>

\* persist_match_disbanded; mark_disbanded stamps a row once.
mark_disbanded(t) ==
    /\ t.op = "disband"
    /\ rows' = [rows EXCEPT ![t.db].disbanded = TRUE]
    /\ tasks' = tasks \ {t}
    /\ UNCHANGED <<live, matches, games, scores, nextId, scroll, played, reads, faults>>

\* A statement of a task fails, which is logged; or the server stops, which ends
\* every match and every task.
TaskFails(t) ==
    /\ faults < MaxFaults /\ faults' = faults + 1
    /\ tasks' = tasks \ {t}
    /\ UNCHANGED <<live, matches, rows, games, scores, nextId, scroll, played, reads>>
Restart ==
    /\ faults < MaxFaults /\ faults' = faults + 1
    /\ live' = [n \in Nums |-> [live[n] EXCEPT !.open = FALSE]]
    /\ matches' = [s \in Slots |-> NoId] /\ tasks' = {}
    /\ live # live' /\ UNCHANGED <<rows, games, scores, nextId, scroll, played, reads>>

----------------------------------------------------------------------------
(* The reader service and the endpoints *)

_is_staff(v) == v \in Staff
_is_visible_to(row, v) == row.public \/ _is_staff(v) \/ v = row.host

get_match(v, m) ==
    IF m \notin DOMAIN rows THEN NotFound
    ELSE IF _is_visible_to(rows[m], v) THEN "found" ELSE NotFound

fetch_games(v, m, before) ==
    IF get_match(v, m) = NotFound THEN <<>> ELSE fetch_games_for_match(m, before, Limit)

fetch_game_scores(v, m, g) ==
    IF \/ get_match(v, m) = NotFound
       \/ g \notin DOMAIN games THEN NotFound
    ELSE IF games[g].match # m THEN NotFound ELSE "found"

\* get_matches and get_match_games answer a page; a scroll begins without a
\* cursor.  The rows that are there when it begins are those it owes.
BeginScroll(v, m) ==
    /\ ~scroll.on /\ reads < MaxReads /\ reads' = reads + 1
    /\ IF m = NoId THEN v = Anonymous ELSE get_match(v, m) # NotFound
    /\ scroll' = [NoScroll EXCEPT !.who = v, !.of = m, !.on = TRUE,
                    !.owed = IF m = NoId THEN {i \in DOMAIN rows : rows[i].public}
                             ELSE {g \in DOMAIN games : games[g].match = m}]
    /\ UNCHANGED <<live, matches, rows, games, scores, tasks, nextId, played, faults>>

\* _page_meta: the cursor of the next page, if this one is full.
_page_meta_ShortOfOne(page) == IF Len(page) > Limit THEN page[Len(page)] ELSE NoId
_page_meta(page) == IF Len(page) = Limit THEN page[Len(page)] ELSE NoId

get_page(page) ==
    /\ scroll' = [scroll EXCEPT !.shown = @ \o page, !.before = _page_meta(page),
                                !.on = _page_meta(page) # NoId, !.done = _page_meta(page) = NoId]
    /\ UNCHANGED <<live, matches, rows, games, scores, tasks, nextId, played, reads, faults>>
get_matches == scroll.on /\ scroll.of = NoId
               /\ get_page(fetch_recent_matches(scroll.before, Limit, TRUE))
get_match_games == scroll.on /\ scroll.of # NoId
                   /\ get_page(fetch_games(scroll.who, scroll.of, scroll.before))

----------------------------------------------------------------------------
Init ==
    /\ live = [n \in Nums |-> [open |-> FALSE, host |-> Anonymous, public |-> TRUE, db_id |-> NoId]]
    /\ matches = [s \in Slots |-> NoId]
    /\ rows = <<>> /\ games = <<>> /\ scores = <<>> /\ tasks = {}
    /\ nextId = 1 /\ scroll = NoScroll /\ played = 0 /\ reads = 0 /\ faults = 0

Next ==
    \/ \E n \in Nums : \/ \E h \in Users, public \in BOOLEAN : MatchCreate(n, h, public)
                       \/ \E fs \in Lineups : MatchComplete(n, fs)
                       \/ LeaveMatch(n)
    \/ \E t \in tasks : \/ create_match(t) \/ create_match_commits(t) \/ persist_match_created(t)
                        \/ record_game(t) \/ record_game_scores(t) \/ mark_disbanded(t)
                        \/ TaskFails(t)
    \/ Restart
    \/ \E v \in Viewers, m \in {NoId} \cup DOMAIN rows : BeginScroll(v, m)
    \/ get_matches \/ get_match_games

Spec == Init /\ [][Next]_vars

----------------------------------------------------------------------------
(* Properties *)

\* What the site shows of a game is decided by the lobby it was played in: its
\* row is filed under the row of that lobby and of no other, its scoreboard can
\* be read only by who may see that lobby, and it names its participants, each
\* once, nobody who failed above one who passed; a row is stamped as disbanded
\* only after its lobby closed (_stash_db_id, persist_game_completed,
\* fetch_game_scores, _ranked_scores).
GamesAreFiledRight ==
    /\ \A g \in DOMAIN games :
          LET n == games[g].origin
              board == fetch_scores_for_game(g) IN
          /\ rows[games[g].match].origin = n
          /\ \A v \in Viewers, m \in DOMAIN rows : fetch_game_scores(v, m, g) # NotFound =>
                live[n].public \/ v \in Staff \/ v = live[n].host
          /\ \A i, j \in DOMAIN board : i < j =>
                board[i].user # board[j].user /\ (board[j].passed => board[i].passed)
          /\ \A i \in DOMAIN board : \E p \in DOMAIN games[g].participants :
                games[g].participants[p].u = board[i].user
    /\ \A m \in DOMAIN rows : rows[m].disbanded => ~live[rows[m].origin].open

\* Who scrolls to the end has been shown, newest first and each once, every
\* public match (or every game of the match) that was there at the beginning,
\* while matches and games go on being recorded, also when the insert with the
\* smaller id is the later to be seen; no private match is among them
\* (fetch_recent_matches, fetch_games_for_match, _page_meta).
ScrollsAreComplete ==
    /\ \A i, j \in DOMAIN scroll.shown : i < j => scroll.shown[i] > scroll.shown[j]
    /\ scroll.done => \A m \in scroll.owed : \E i \in DOMAIN scroll.shown : scroll.shown[i] = m
    /\ scroll.of = NoId => \A i \in DOMAIN scroll.shown : rows[scroll.shown[i]].public
============================================================================
