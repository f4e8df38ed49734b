---------------------------- MODULE PublicView ----------------------------
(***************************************************************************)
(* What the server shows of a player to others.  Hidden players, who are   *)
(* restricted or unverified, and all they own are for staff and themselves *)
(* only (app/services/visibility.py).  The rule is written down several    *)
(* times: in can_view_player, in the clauses of the listing queries, in    *)
(* queries of their own; it is applied to rows of the database or to the   *)
(* sessions in memory, which are changed one after the other; and a        *)
(* request checks first and reads what it shows after another await.  Some *)
(* endpoints that show players do not apply it at all: Unruled.            *)
(*                                                                         *)
(* What players own does not change here, their privileges and sessions    *)
(* do.  Of an answer the model keeps whether the thing was found and whose *)
(* profile, scores, stats or status it shows.  Pages, limits, modes, mods  *)
(* and sort orders are left out: they show less of the same rows.          *)
(***************************************************************************)
EXTENDS Integers, FiniteSets

CONSTANTS
    Users,        \* registered players
    Staff,        \* those with staff privileges
    Anonymous,    \* a viewer who is not signed in
    Scores,       \* records: user, best, map (its beatmap exists), replay (its file exists)
    Friends,      \* the FRIEND edges, pairs of users
    ClanOwner,    \* the owner of the one clan, whose members are all users
    Requests,     \* requests under way at the same time
    Tasks,        \* staff commands and logins under way
    MaxGen,       \* logins, all in all
    MaxAsks, MaxOps

ASSUME PublicViewAssumption ==
    /\ Staff \subseteq Users /\ Anonymous \notin Users /\ ClanOwner \in Users
    /\ \A s \in Scores : s.user \in Users

VARIABLES
    priv,         \* users.priv
    session,      \* the sessions in memory: their privileges and which login they are of
    task,         \* staff commands and logins half way through
    req,          \* requests and their answers
    gens, asks, ops

vars == <<priv, session, task, req, gens, asks, ops>>

Unrestricted == "unrestricted"
Verified == "verified"
PUBLIC_PLAYER_MASK == {Unrestricted, Verified}
Offline == [gen |-> 0, priv |-> {}]
Online(p) == session[p].gen # 0
Idle == [op |-> "idle"]
Unasked == [kind |-> "none", pc |-> "none"]

----------------------------------------------------------------------------
(* The rule *)

can_view_player_NotSelf(viewer, target, target_priv) ==
    PUBLIC_PLAYER_MASK \subseteq target_priv \/ viewer \in Staff
can_view_player(viewer, target, target_priv) ==
    \/ PUBLIC_PLAYER_MASK \subseteq target_priv
    \/ viewer # Anonymous /\ (viewer = target \/ viewer \in Staff)

\* UsersRepository._visibility_clause and ScoresRepository._player_visibility_clause.
_visibility_clause(p, always_visible) == PUBLIC_PLAYER_MASK \subseteq priv[p] \/ p = always_visible

\* The queries of UsersRepository.
users_fetch_many(ids, include_hidden, always_visible) ==
    {p \in ids : include_hidden \/ _visibility_clause(p, always_visible)}
search_public(include_hidden, always_visible) == users_fetch_many(Users, include_hidden, always_visible)

\* The queries of ScoresRepository.
scores_fetch_many(include_hidden, always_visible) ==
    {s \in Scores : include_hidden \/ _visibility_clause(s.user, always_visible)}
fetch_player_score_listing_rows(p) == {s \in Scores : s.user = p /\ s.map}
fetch_map_score_listing_rows_All == {s \in Scores : s.best}
fetch_map_score_listing_rows == {s \in Scores : s.best /\ Unrestricted \in priv[s.user]}
fetch_beatmap_leaderboard_scores(viewer) ==
    {s \in Scores : s.best /\ (Unrestricted \in priv[s.user] \/ s.user = viewer)}
fetch_replay_header(s) == [found |-> s.map, user_priv |-> priv[s.user]]
\* StatsRepository.
fetch_leaderboard_stats_rows == {p \in Users : PUBLIC_PLAYER_MASK \subseteq priv[p]}

\* from_cache_or_sql, of what the request needs: the privileges.
from_cache_or_sql(p) == IF Online(p) THEN session[p].priv ELSE priv[p]

----------------------------------------------------------------------------
(* Privileges and sessions change *)

Looks(p) == {priv[p]} \cup (IF Online(p) THEN {session[p].priv} ELSE {})
\* What the requests under way could have found a player to be.
Note == req' = [q \in Requests |->
                  IF req[q].pc \in {"none", "answered"} THEN req[q]
                  ELSE [req[q] EXCEPT !.ever = [p \in Users |-> @[p] \cup Looks(p)']]]

NewPriv(op, old) ==
    CASE op = "restrict" -> old \ {Unrestricted}
      [] op = "unrestrict" -> old \cup {Unrestricted}
      [] op = "rmpriv" -> old \ {Verified}
      [] op = "addpriv" -> old \cup {Verified}

\* restrict, unrestrict, addpriv, rmpriv: the player comes from memory, or as a
\* copy of the row; the object changes and the row is written, later, with all
\* the privileges the object then had.
Command(t, op, p) ==
    LET new == NewPriv(op, from_cache_or_sql(p)) IN
    /\ task[t].op = "idle"
    /\ task' = [task EXCEPT ![t] = [op |-> op, p |-> p, priv |-> new, gen |-> session[p].gen]]
    /\ session' = IF Online(p) THEN [session EXCEPT ![p].priv = new] ELSE session
    /\ UNCHANGED <<priv, gens, asks>> /\ Note

partial_update(t) ==
    /\ task[t].op \in {"restrict", "unrestrict", "rmpriv", "addpriv"}
    /\ priv' = [priv EXCEPT ![task[t].p] = task[t].priv]
    /\ task' = [task EXCEPT ![t] = IF task[t].op = "restrict" THEN [@ EXCEPT !.op = "kick"] ELSE Idle]
    /\ UNCHANGED <<session, gens, asks, ops>> /\ Note

\* The end of restrict: the object is logged out, which does nothing to another
\* session of the same player.
restrict_logout(t) ==
    /\ task[t].op = "kick"
    /\ session' = IF task[t].gen # 0 /\ session[task[t].p].gen = task[t].gen
                  THEN [session EXCEPT ![task[t].p] = Offline] ELSE session
    /\ task' = [task EXCEPT ![t] = Idle]
    /\ UNCHANGED <<priv, gens, asks, ops>> /\ Note

\* A login reads the row, and adds the session after more awaits.
LoginRead(t, p) ==
    /\ task[t].op = "idle" /\ ~Online(p) /\ gens < MaxGen
    /\ task' = [task EXCEPT ![t] = [op |-> "login", p |-> p, priv |-> priv[p], gen |-> 0]]
    /\ UNCHANGED <<priv, session, req, gens, asks>>

LoginAppend(t) ==
    LET p == task[t].p IN
    /\ task[t].op = "login"
    /\ task' = [task EXCEPT ![t] = Idle]
    /\ IF Online(p) THEN UNCHANGED <<session, gens>>
       ELSE /\ gens' = gens + 1
            /\ session' = [session EXCEPT ![p] = [gen |-> gens + 1, priv |-> task[t].priv]]
    /\ UNCHANGED <<priv, asks, ops>> /\ Note

logout(p) ==
    /\ Online(p) /\ session' = [session EXCEPT ![p] = Offline]
    /\ UNCHANGED <<priv, task, gens, asks>> /\ Note

----------------------------------------------------------------------------
(* Requests.  An endpoint of v1 is anonymous, as are the pages of bancho;   *)
(* one of the game is asked by an online player; of v2, by anybody.         *)

ByRow == {"player", "followers", "follow_stats", "favourites", "status", "mode_stats", "stats",
          "scores", "most_played", "v1_info"}
BySession == {"v1_scores", "v1_most_played", "v1_status"}
OfScore == {"score", "v1_score", "replay", "v1_replay", "game_replay"}
Listing == {"players", "search", "all_scores", "friends", "v1_search", "v1_map_scores",
            "v1_leaderboard", "v1_clan", "v1_pool", "game_leaderboard"}
Ruled == ByRow \cup BySession \cup OfScore \cup Listing
\* Those that show players whoever they are: events, who watched whom, who played
\* in a match, who is online, who leads a clan or made a pool, who one's friends are.
Unruled == {"activity", "feed", "spectators", "matches", "clan", "pool", "v1_match", "online",
            "online_matches", "game_friends"}
V1 == {"v1_info", "v1_scores", "v1_most_played", "v1_status", "v1_score", "v1_replay", "v1_search",
       "v1_map_scores", "v1_leaderboard", "v1_clan", "v1_pool", "v1_match", "online",
       "online_matches"}
Game == {"game_replay", "game_leaderboard", "game_friends"}

Ask(q, kind, viewer, target) ==
    /\ req[q].kind = "none" /\ asks < MaxAsks /\ asks' = asks + 1
    /\ kind \in V1 => viewer = Anonymous
    /\ kind \in Game => viewer \in Users /\ Online(viewer)
    /\ kind = "friends" => viewer = target
    /\ kind \in OfScore => \E s \in Scores : s.user = target
    /\ req' = [req EXCEPT ![q] = [kind |-> kind, viewer |-> viewer, target |-> target, pc |-> "asked",
                                  ever |-> [p \in Users |-> Looks(p)], found |-> FALSE, shown |-> {}]]
    /\ UNCHANGED <<priv, session, task, gens, ops>>

At(q, kind, pc) == req[q].kind = kind /\ req[q].pc = pc
Goes(q, pc) == req' = [req EXCEPT ![q].pc = pc]
Answer(q, shown) == req' = [req EXCEPT ![q].pc = "answered", ![q].found = TRUE, ![q].shown = shown]
NotFound(q) == Goes(q, "answered")
Owners(ss) == {s.user : s \in ss}
IsStaff(q) == req[q].viewer \in Staff

\* The target is fetched, from the table or from memory, and checked.
FetchPlayer(q) ==
    /\ req[q].kind \in ByRow /\ req[q].pc = "asked"
    /\ IF can_view_player(req[q].viewer, req[q].target, priv[req[q].target])
       THEN Goes(q, "checked") ELSE NotFound(q)
FetchPlayerSession(q) ==
    /\ req[q].kind \in BySession /\ req[q].pc = "asked"
    /\ IF can_view_player(Anonymous, req[q].target, from_cache_or_sql(req[q].target))
       THEN Goes(q, "checked") ELSE NotFound(q)

\* fetch_friends and fetch_followers make no exception for the viewer.
fetch_friends(q) == users_fetch_many({p \in Users : <<req[q].viewer, p>> \in Friends}, IsStaff(q), Anonymous)
fetch_followers(q) == users_fetch_many({p \in Users : <<p, req[q].target>> \in Friends}, IsStaff(q), Anonymous)

\* PlayersService and ScoresService.
fetch_players(q) == users_fetch_many(Users, IsStaff(q), req[q].viewer)
service_search_players(q) == search_public(IsStaff(q), req[q].viewer)
fetch_player_status(p) == Online(p)
fetch_player_stats_with_ranks(p) == {p}
fetch_scores(q) == scores_fetch_many(IsStaff(q), req[q].viewer)
fetch_player_scores(p) == Owners(fetch_player_score_listing_rows(p))

get_player(q) == At(q, "player", "checked") /\ Answer(q, {req[q].target})
get_player_followers(q) == At(q, "followers", "checked") /\ Answer(q, {req[q].target} \cup fetch_followers(q))
get_player_follow_stats(q) == At(q, "follow_stats", "checked") /\ Answer(q, {req[q].target})
get_player_favourites(q) == At(q, "favourites", "checked") /\ Answer(q, {req[q].target})
get_player_status(q) ==
    At(q, "status", "checked") /\ IF fetch_player_status(req[q].target) THEN Answer(q, {req[q].target}) ELSE NotFound(q)
get_player_mode_stats(q) == At(q, "mode_stats", "checked") /\ Answer(q, fetch_player_stats_with_ranks(req[q].target))
get_player_stats(q) == At(q, "stats", "checked") /\ Answer(q, fetch_player_stats_with_ranks(req[q].target))
get_player_scores(q) ==
    At(q, "scores", "checked") /\ Answer(q, fetch_player_scores(req[q].target))
get_player_most_played(q) ==
    At(q, "most_played", "checked") /\ Answer(q, fetch_player_scores(req[q].target))

get_players(q) == At(q, "players", "asked") /\ Answer(q, fetch_players(q))
search_players(q) == At(q, "search", "asked") /\ Answer(q, service_search_players(q))
get_player_friends(q) == At(q, "friends", "asked") /\ req[q].viewer \in Users /\ Answer(q, fetch_friends(q))
get_all_scores(q) == At(q, "all_scores", "asked") /\ Answer(q, Owners(fetch_scores(q)))

\* A score: its row, its owner, its beatmap.
ScoreOf(q) == CHOOSE s \in Scores : s.user = req[q].target
FetchOwner(q) ==
    /\ req[q].kind \in {"score", "v1_score"} /\ req[q].pc = "asked"
    /\ IF can_view_player(req[q].viewer, req[q].target, priv[req[q].target])
       THEN Goes(q, "checked") ELSE NotFound(q)
get_score(q) ==
    At(q, "score", "checked") /\ IF ScoreOf(q).map THEN Answer(q, {req[q].target}) ELSE NotFound(q)
api_get_score_info(q) == At(q, "v1_score", "checked") /\ Answer(q, {req[q].target})

\* build_full_replay and fetch_raw_replay: the file, and one query for the rest.
ReplayFor(q) ==
    IF /\ ScoreOf(q).replay /\ fetch_replay_header(ScoreOf(q)).found
       /\ can_view_player(req[q].viewer, req[q].target, fetch_replay_header(ScoreOf(q)).user_priv)
    THEN Answer(q, {req[q].target}) ELSE NotFound(q)
download_score_replay(q) == At(q, "replay", "asked") /\ ReplayFor(q)
api_get_replay(q) == At(q, "v1_replay", "asked") /\ ReplayFor(q)
\* fetch_replay_file: Score.from_sql takes the owner from memory if it can.
fetch_replay_file(q) ==
    ScoreOf(q).replay /\ can_view_player(req[q].viewer, req[q].target, from_cache_or_sql(req[q].target))
getReplay(q) ==
    /\ At(q, "game_replay", "asked")
    /\ IF fetch_replay_file(q) THEN Answer(q, {req[q].target}) ELSE NotFound(q)

\* The leaderboard in the game: the map, then the scores, and the player's own.
fetch_leaderboard_scores(q) == fetch_beatmap_leaderboard_scores(req[q].viewer)
getScores(q) == At(q, "game_leaderboard", "asked") /\ Answer(q, Owners(fetch_leaderboard_scores(q)))

api_search_players(q) == At(q, "v1_search", "asked") /\ Answer(q, search_public(FALSE, Anonymous))
api_get_player_info(q) == At(q, "v1_info", "checked") /\ Answer(q, {req[q].target})
api_get_player_status(q) == At(q, "v1_status", "checked") /\ Answer(q, {req[q].target})
api_get_player_scores(q) ==
    At(q, "v1_scores", "checked") /\ Answer(q, {req[q].target} \cup fetch_player_scores(req[q].target))
api_get_player_most_played(q) ==
    At(q, "v1_most_played", "checked") /\ Answer(q, fetch_player_scores(req[q].target))
\* get_map_scores and get_leaderboard of v2 answer from the same queries, for no viewer.
api_get_map_scores(q) == At(q, "v1_map_scores", "asked") /\ Answer(q, Owners(fetch_map_score_listing_rows))
api_get_global_leaderboard(q) == At(q, "v1_leaderboard", "asked") /\ Answer(q, fetch_leaderboard_stats_rows)

\* The members are listed first, then the owner is looked up.
fetch_clan_members(q) ==
    /\ At(q, "v1_clan", "asked")
    /\ req' = [req EXCEPT ![q].pc = "members", ![q].shown = users_fetch_many(Users, FALSE, Anonymous)]
api_get_clan(q) ==
    /\ At(q, "v1_clan", "members")
    /\ Answer(q, req[q].shown \cup
                 {p \in {ClanOwner} : can_view_player(Anonymous, p, from_cache_or_sql(p))})
\* The creator of a pool is shown when online.
api_get_pool(q) ==
    /\ At(q, "v1_pool", "asked")
    /\ IF Online(req[q].target) /\ can_view_player(Anonymous, req[q].target, session[req[q].target].priv)
       THEN Answer(q, {req[q].target}) ELSE NotFound(q)

\* The endpoints without the rule.  What they show was recorded earlier, of any
\* players, or is taken from the sessions in memory.
OnlineUsers == {p \in Users : Online(p)}
get_user_activity(q) == At(q, "activity", "asked") /\ Answer(q, {req[q].target})
get_activity_feed(q) ==
    /\ At(q, "feed", "asked") /\ req[q].viewer \in Users
    /\ Answer(q, {p \in Users : <<req[q].viewer, p>> \in Friends})
get_spectator_sessions(q) ==
    At(q, "spectators", "asked") /\ (NotFound(q) \/ \E ps \in SUBSET Users : Answer(q, ps))
\* A private match is not found but by its host and staff.
get_matches(q) ==
    At(q, "matches", "asked") /\ (NotFound(q) \/ \E ps \in SUBSET Users : Answer(q, ps))
get_clan(q) == At(q, "clan", "asked") /\ Answer(q, {ClanOwner})
get_tourney_pool(q) == At(q, "pool", "asked") /\ Answer(q, {req[q].target})
api_get_match(q) ==
    At(q, "v1_match", "asked") /\ (NotFound(q) \/ \E ps \in SUBSET OnlineUsers : Answer(q, ps))
bancho_view_online_users(q) == At(q, "online", "asked") /\ Answer(q, OnlineUsers)
bancho_view_matches(q) ==
    At(q, "online_matches", "asked") /\ \E hosts \in SUBSET OnlineUsers : Answer(q, hosts)
osuGetFriends(q) ==
    At(q, "game_friends", "asked") /\ Answer(q, {p \in Users : <<req[q].viewer, p>> \in Friends})

----------------------------------------------------------------------------

Init ==
    /\ priv = [p \in Users |-> PUBLIC_PLAYER_MASK]
    /\ session \in [Users -> {Offline, [gen |-> 1, priv |-> PUBLIC_PLAYER_MASK]}]
    /\ task = [t \in Tasks |-> Idle]
    /\ req = [q \in Requests |-> Unasked]
    /\ gens = 1 /\ asks = 0 /\ ops = 0

Change ==
    \/ /\ ops < MaxOps /\ ops' = ops + 1
       /\ \E p \in Users :
            \/ \E t \in Tasks, op \in {"restrict", "unrestrict", "rmpriv", "addpriv"} : Command(t, op, p)
            \/ \E t \in Tasks : LoginRead(t, p)
            \/ logout(p)
    \/ \E t \in Tasks : partial_update(t) \/ restrict_logout(t) \/ LoginAppend(t)

ServeUnruled(q) ==
    \/ get_user_activity(q) \/ get_activity_feed(q) \/ get_spectator_sessions(q) \/ get_matches(q)
    \/ get_clan(q) \/ get_tourney_pool(q) \/ api_get_match(q) \/ bancho_view_online_users(q)
    \/ bancho_view_matches(q) \/ osuGetFriends(q)

Serve(q) ==
    \/ FetchPlayer(q) \/ FetchPlayerSession(q) \/ FetchOwner(q)
    \/ get_player(q) \/ get_player_followers(q) \/ get_player_follow_stats(q)
    \/ get_player_favourites(q) \/ get_player_status(q) \/ get_player_mode_stats(q)
    \/ get_player_stats(q) \/ get_player_scores(q) \/ get_player_most_played(q)
    \/ get_players(q) \/ search_players(q) \/ get_player_friends(q) \/ get_all_scores(q)
    \/ get_score(q) \/ api_get_score_info(q) \/ download_score_replay(q) \/ api_get_replay(q)
    \/ getReplay(q) \/ getScores(q)
    \/ api_search_players(q) \/ api_get_player_info(q) \/ api_get_player_status(q)
    \/ api_get_player_scores(q) \/ api_get_player_most_played(q) \/ api_get_map_scores(q)
    \/ api_get_global_leaderboard(q) \/ fetch_clan_members(q) \/ api_get_clan(q) \/ api_get_pool(q)
    \/ ServeUnruled(q)

Next ==
    \/ Change
    \/ \E q \in Requests, kind \in Ruled \cup Unruled,
          v \in Users \cup {Anonymous}, p \in Users : Ask(q, kind, v, p)
    \/ \E q \in Requests : Serve(q) /\ UNCHANGED <<priv, session, task, gens, asks, ops>>

Spec == Init /\ [][Next]_vars

----------------------------------------------------------------------------

Answered == {q \in Requests : req[q].pc = "answered"}
Entitled(q, p) == req[q].viewer = p \/ req[q].viewer \in Staff
\* p was seen with the privileges mask, in the database or in memory, at some
\* moment of the request.
WasOnce(q, p, mask) == \E look \in req[q].ever[p] : mask \subseteq look

\* No answer of an endpoint that applies the rule, by a check, a clause or a query
\* of its own, shows a restricted player to somebody who is neither staff nor that
\* player: whoever is shown was unrestricted at some moment since the request came
\* in, however restrictions, logins and the awaits of the request interleave.
RestrictedStayHidden ==
    \A q \in Answered : req[q].kind \in Ruled =>
        \A p \in req[q].shown : Entitled(q, p) \/ WasOnce(q, p, {Unrestricted})

\* The other half of the rule: staff, and players themselves, are never told that
\* what exists is missing.  (A status exists while the player is online; a score
\* with its beatmap; a replay with its file.)
EntitledAreServed ==
    \A q \in Answered :
        /\ Entitled(q, req[q].target)
        /\ req[q].kind \in (ByRow \cup {"score", "replay", "game_replay"}) \ {"status"}
        /\ req[q].kind \in OfScore => ScoreOf(q).map /\ ScoreOf(q).replay
        => req[q].found

\* The rule as it is documented, of everything the server shows: "Hidden (restricted
\* or unverified) players -- and everything they own ... are visible only to staff
\* and to the players themselves" (visibility.py:3-6).
HiddenStayHidden ==
    \A q \in Answered : \A p \in req[q].shown :
        Entitled(q, p) \/ WasOnce(q, p, PUBLIC_PLAYER_MASK)

=============================================================================
