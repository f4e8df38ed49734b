---------------------------- MODULE PeopleProofs -----------------------------
(***************************************************************************)
(* Proofs about what the server keeps about people: PublicView, Clans,     *)
(* Accounts, DiscordLinks, Messaging and BeatmapSubmissions, for any       *)
(* players, staff, clans, accounts, tokens and archives and any number of  *)
(* requests and commands under way.                                        *)
(*                                                                         *)
(* Visibility.  That a check was right when it was made says nothing of    *)
(* the moment the answer is built, and the table and the sessions disagree *)
(* for a while.  What an answer is held to is what a player was since the  *)
(* request came in: Noted says that this record is up to date whenever the *)
(* request goes on, so that a check made at any moment stays justified     *)
(* (Cleared).                                                              *)
(*                                                                         *)
(* Clans.  A command reads who is in a clan and takes them out steps       *)
(* later: Complete says that nobody has joined in between.                 *)
(*                                                                         *)
(* Accounts and links.  What is under way carries what it has read; the    *)
(* invariants say how that relates to the tables now.                      *)
(*                                                                         *)
(* Messages.  Handlers go by what memory says: InStep says that it agrees  *)
(* with the tables, but for what one request of the player is about to     *)
(* write, as long as no two requests of that player overlapped.            *)
(*                                                                         *)
(* Submissions.  An id that is handed out is known to one upload only      *)
(* until its rows are committed, and no id comes back: what an upload that *)
(* fails or a deletion removes from the disk is of no row.                 *)
(***************************************************************************)
EXTENDS MCPeople, MCMaps, Sequences, FiniteSetTheorems, WellFoundedInduction, TLAPS

Looking == SUBSET PUBLIC_PLAYER_MASK
Kinds == Ruled \cup Unruled
UnderWay == {"asked", "checked", "members"}

AskedRequests ==
  [kind : Kinds, viewer : Users \cup {Anonymous}, target : Users,
   pc : UnderWay \cup {"answered"}, ever : [Users -> SUBSET Looking],
   found : BOOLEAN, shown : SUBSET Users]

Commands ==
  [op : {"restrict", "unrestrict", "rmpriv", "addpriv", "kick", "login"},
   p : Users, priv : Looking, gen : Nat]

ViewTyped ==
  /\ priv \in [Users -> Looking]
  /\ session \in [Users -> [gen : Nat, priv : Looking]]
  /\ task \in [Tasks -> {Idle} \cup Commands]
  /\ req \in [Requests -> {Unasked} \cup AskedRequests]
  /\ gens \in Nat

Seen(q, p, mask) == Entitled(q, p) \/ WasOnce(q, p, mask)

\* While a request is under way, what a player is now has been noted.
Noted == \A q \in Requests : req[q].pc \in UnderWay =>
           \A p \in Users : Looks(p) \subseteq req[q].ever[p]

\* Whoever was let through a check was once visible to the viewer, and with them
\* whoever an endpoint with a rule shows.
Cleared ==
  \A q \in Requests :
    /\ req[q].pc = "checked" => Seen(q, req[q].target, PUBLIC_PLAYER_MASK)
    /\ req[q].pc # "none" /\ req[q].kind \notin Unruled => \A p \in req[q].shown : Seen(q, p, {Unrestricted})

\* The viewer asks for what exists, and is entitled to it.
Owed(q) ==
  /\ Entitled(q, req[q].target)
  /\ req[q].kind \in (ByRow \cup {"score", "replay", "game_replay"}) \ {"status"}
  /\ req[q].kind \in OfScore => ScoreOf(q).map /\ ScoreOf(q).replay

Served == \A q \in Requests : req[q].pc = "answered" /\ Owed(q) => req[q].found

HasScore ==
  \A q \in Requests : req[q].kind \in OfScore => \E s \in Scores : s.user = req[q].target

ViewInv == ViewTyped /\ Noted /\ Cleared /\ Served /\ HasScore

-----------------------------------------------------------------------------
(* Players change.                                                         *)

\* Whatever changes about players, it is noted, and with it what was known of
\* them stays known; the requests are not touched otherwise.
LEMMA NoteKeeps ==
  ASSUME ViewInv, Note, priv' \in [Users -> Looking],
         session' \in [Users -> [gen : Nat, priv : Looking]],
         task' \in [Tasks -> {Idle} \cup Commands], gens' \in Nat
  PROVE  ViewInv'
<1> DEFINE now == [p \in Users |-> Looks(p)']
<1>1. \A p \in Users : now[p] = Looks(p)' /\ now[p] \in SUBSET Looking
  BY DEF Looks, Online, Looking
<1> HIDE DEF now
<1>2. req' = [q \in Requests |->
                IF req[q].pc \in {"none", "answered"} THEN req[q]
                ELSE [req[q] EXCEPT !.ever = [p \in Users |-> req[q].ever[p] \cup now[p]]]]
  BY <1>1 DEF Note
<1>3. ASSUME NEW q \in Requests
      PROVE  /\ req'[q] \in {Unasked} \cup AskedRequests
             /\ req'[q].kind = req[q].kind /\ req'[q].pc = req[q].pc
             /\ req[q].pc # "none" => /\ req'[q].viewer = req[q].viewer
                                      /\ req'[q].target = req[q].target
                                      /\ req'[q].found = req[q].found
                                      /\ req'[q].shown = req[q].shown
                                      /\ \A p \in Users : req[q].ever[p] \subseteq req'[q].ever[p]
             /\ req[q].pc \in UnderWay => \A p \in Users : Looks(p)' \subseteq req'[q].ever[p]
  <2>1. req[q] \in {Unasked} \cup AskedRequests
    BY DEF ViewInv, ViewTyped
  <2>2. CASE req[q].pc \in {"none", "answered"}
    BY <1>2, <2>1, <2>2 DEF UnderWay
  <2>3. CASE req[q].pc \notin {"none", "answered"}
    <3> DEFINE ever == [p \in Users |-> req[q].ever[p] \cup now[p]]
    <3>1. req[q] \in AskedRequests
      BY <2>1, <2>3 DEF Unasked
    <3>2. ever \in [Users -> SUBSET Looking]
      BY <1>1, <3>1 DEF AskedRequests
    <3>3. \A p \in Users : req[q].ever[p] \subseteq ever[p] /\ Looks(p)' \subseteq ever[p]
      BY <1>1
    <3> HIDE DEF ever
    <3>4. req'[q] = [req[q] EXCEPT !.ever = ever]
      BY <1>2, <2>3 DEF ever
    <3>5. QED
      BY <3>1, <3>2, <3>3, <3>4 DEF AskedRequests, Unasked, UnderWay
  <2>4. QED
    BY <2>2, <2>3
<1>4. \A q \in Requests, p \in Users : \A mask : req[q].pc # "none" /\ Seen(q, p, mask) => Seen(q, p, mask)'
  BY <1>3 DEF Seen, Entitled, WasOnce
<1>5. ViewTyped'
  BY <1>2, <1>3 DEF ViewTyped
<1>6. Noted'
  BY <1>3 DEF Noted
<1>7. Cleared'
  <2>1. ASSUME NEW q \in Requests, req[q].pc # "none"
        PROVE req[q].target \in Users /\ req[q].shown \subseteq Users
    BY <2>1 DEF ViewInv, ViewTyped, Unasked, AskedRequests
  <2>2. QED
    BY <1>3, <1>4, <2>1 DEF ViewInv, Cleared
<1>8. Served'
  <2>1. ASSUME NEW q \in Requests, req'[q].pc = "answered", Owed(q)' PROVE req'[q].found
    <3>1. /\ req[q].pc = "answered" /\ req'[q].found = req[q].found
          /\ req'[q].kind = req[q].kind /\ req'[q].viewer = req[q].viewer
          /\ req'[q].target = req[q].target
      BY <1>3, <2>1
    <3>2. ScoreOf(q)' = ScoreOf(q)
      BY <3>1 DEF ScoreOf
    <3>3. Owed(q)
      BY <2>1, <3>1, <3>2 DEF Owed, Entitled
    <3>4. QED
      BY <3>1, <3>3 DEF ViewInv, Served
  <2>2. QED
    BY <2>1 DEF Served
<1>9. HasScore'
  <2>1. \A q \in Requests : req[q].kind \in OfScore => req[q].pc # "none"
    BY DEF ViewInv, ViewTyped, Unasked, AskedRequests, UnderWay, OfScore
  <2>2. QED
    BY <1>3, <2>1 DEF ViewInv, HasScore
<1>10. QED
  BY <1>5, <1>6, <1>7, <1>8, <1>9 DEF ViewInv

LEMMA ChangeKeeps == ViewInv /\ Change => ViewInv'
<1> SUFFICES ASSUME ViewInv, Change PROVE ViewInv'
  OBVIOUS
<1>1. /\ priv \in [Users -> Looking]
      /\ session \in [Users -> [gen : Nat, priv : Looking]]
      /\ task \in [Tasks -> {Idle} \cup Commands]
      /\ gens \in Nat /\ Idle \notin Commands
  BY DEF ViewInv, ViewTyped, Idle, Commands
<1>2. \A p \in Users : session[p].gen \in Nat /\ session[p].priv \in Looking
  BY <1>1
<1>3. Offline \in [gen : Nat, priv : Looking]
  BY DEF Offline, Looking
<1>4. ASSUME NEW p \in Users, NEW t \in Tasks,
             NEW op \in {"restrict", "unrestrict", "rmpriv", "addpriv"}, Command(t, op, p)
      PROVE  ViewInv'
  <2> DEFINE new == NewPriv(op, from_cache_or_sql(p))
             k == [op |-> op, p |-> p, priv |-> new, gen |-> session[p].gen]
  <2>1. from_cache_or_sql(p) \in Looking
    BY <1>1, <1>2 DEF from_cache_or_sql
  <2>2. new \in Looking
    BY <2>1 DEF NewPriv, Looking, PUBLIC_PLAYER_MASK
  <2> HIDE DEF new
  <2>3. k \in Commands
    BY <1>2, <2>2 DEF Commands
  <2>4. task' = [task EXCEPT ![t] = k] /\ priv' = priv /\ gens' = gens /\ Note
        /\ session' = IF Online(p) THEN [session EXCEPT ![p].priv = new] ELSE session
    BY <1>4 DEF Command, new
  <2>5. [session EXCEPT ![p].priv = new] \in [Users -> [gen : Nat, priv : Looking]]
    BY <1>1, <2>2
  <2>6. task' \in [Tasks -> {Idle} \cup Commands]
    BY <1>1, <2>3, <2>4
  <2>7. QED
    BY <1>1, <2>4, <2>5, <2>6, NoteKeeps
<1>5. ASSUME NEW p \in Users, NEW t \in Tasks, LoginRead(t, p) PROVE ViewInv'
  <2> DEFINE k == [op |-> "login", p |-> p, priv |-> priv[p], gen |-> 0]
  <2>1. k \in Commands
    BY <1>1 DEF Commands
  <2>2. task' = [task EXCEPT ![t] = k] /\ UNCHANGED <<priv, session, req, gens>>
    BY <1>5 DEF LoginRead
  <2>3. task' \in [Tasks -> {Idle} \cup Commands]
    BY <1>1, <2>1, <2>2
  <2>4. QED
    BY <2>2, <2>3 DEF ViewInv, ViewTyped, Noted, Looks, Online, Cleared, Seen, Entitled, WasOnce,
                      Served, Owed, ScoreOf, HasScore
<1>6. ASSUME NEW p \in Users, logout(p) PROVE ViewInv'
  <2>1. session' = [session EXCEPT ![p] = Offline] /\ UNCHANGED <<priv, task, gens>> /\ Note
    BY <1>6 DEF logout
  <2>2. session' \in [Users -> [gen : Nat, priv : Looking]]
    BY <1>1, <1>3, <2>1
  <2>3. QED
    BY <1>1, <2>1, <2>2, NoteKeeps
<1>7. ASSUME NEW t \in Tasks, partial_update(t) PROVE ViewInv'
  <2>1. /\ task[t].op \in {"restrict", "unrestrict", "rmpriv", "addpriv"}
        /\ priv' = [priv EXCEPT ![task[t].p] = task[t].priv]
        /\ task' = [task EXCEPT ![t] = IF task[t].op = "restrict"
                                       THEN [task[t] EXCEPT !.op = "kick"] ELSE Idle]
        /\ UNCHANGED <<session, gens>> /\ Note
    BY <1>7 DEF partial_update
  <2>2. task[t] \in Commands
    BY <1>1, <2>1 DEF Idle
  <2>3. task[t].p \in Users /\ task[t].priv \in Looking /\ [task[t] EXCEPT !.op = "kick"] \in Commands
    BY <2>2 DEF Commands
  <2>4. priv' \in [Users -> Looking] /\ task' \in [Tasks -> {Idle} \cup Commands]
    BY <1>1, <2>1, <2>3
  <2>5. QED
    BY <1>1, <2>1, <2>4, NoteKeeps
<1>8. ASSUME NEW t \in Tasks, restrict_logout(t) PROVE ViewInv'
  <2>1. /\ \/ session' = session
           \/ task[t].p \in Users /\ session' = [session EXCEPT ![task[t].p] = Offline]
        /\ task' = [task EXCEPT ![t] = Idle]
        /\ UNCHANGED <<priv, gens>> /\ Note
    <3>1. task[t] \in Commands
      BY <1>1, <1>8 DEF restrict_logout, Idle
    <3>2. QED
      BY <1>8, <3>1 DEF restrict_logout, Commands
  <2>2. /\ session' \in [Users -> [gen : Nat, priv : Looking]]
        /\ task' \in [Tasks -> {Idle} \cup Commands]
    BY <1>1, <1>3, <2>1
  <2>3. QED
    BY <1>1, <2>1, <2>2, NoteKeeps
<1>9. ASSUME NEW t \in Tasks, LoginAppend(t) PROVE ViewInv'
  <2> DEFINE p == task[t].p
             new == [gen |-> gens + 1, priv |-> task[t].priv]
  <2>1. /\ task[t].op = "login" /\ task' = [task EXCEPT ![t] = Idle] /\ priv' = priv /\ Note
        /\ \/ session' = session /\ gens' = gens
           \/ gens' = gens + 1 /\ session' = [session EXCEPT ![p] = new]
    BY <1>9 DEF LoginAppend
  <2>2. task[t] \in Commands
    BY <1>1, <2>1 DEF Idle
  <2>3. p \in Users /\ new \in [gen : Nat, priv : Looking]
    BY <1>1, <2>2 DEF Commands
  <2> HIDE DEF p, new
  <2>4. /\ session' \in [Users -> [gen : Nat, priv : Looking]] /\ gens' \in Nat
        /\ task' \in [Tasks -> {Idle} \cup Commands]
    BY <1>1, <2>1, <2>3
  <2>5. QED
    BY <1>1, <2>1, <2>4, NoteKeeps
<1>10. QED
  BY <1>4, <1>5, <1>6, <1>7, <1>8, <1>9 DEF Change

-----------------------------------------------------------------------------
(* Requests are served.  Whichever endpoint it is, a step does one of four  *)
(* things to its request, and with good reason; or it has no rule.         *)

LetThrough(q) == Goes(q, "checked") /\ Seen(q, req[q].target, PUBLIC_PLAYER_MASK)
Refused(q) == NotFound(q) /\ ~Owed(q)
Shown(q) ==
  \E shown \in SUBSET Users : Answer(q, shown) /\ \A p \in shown : Seen(q, p, {Unrestricted})
ShownUnruled(q) == req[q].kind \in Unruled /\ \E shown \in SUBSET Users : Answer(q, shown)
ListsMembers(q) ==
  \E shown \in SUBSET Users :
    /\ req' = [req EXCEPT ![q].pc = "members", ![q].shown = shown]
    /\ \A p \in shown : Seen(q, p, {Unrestricted})

\* The rule, applied at any moment of a request: whoever may be viewed then was
\* visible since it came in, and staff and the player themselves may always.
LEMMA RuleIsRight ==
  ASSUME ViewInv, NEW q \in Requests, req[q].pc \in UnderWay, NEW p \in Users,
         NEW look \in Looks(p)
  PROVE  /\ can_view_player(req[q].viewer, p, look) => Seen(q, p, PUBLIC_PLAYER_MASK)
         /\ can_view_player(Anonymous, p, look) => Seen(q, p, PUBLIC_PLAYER_MASK)
         /\ Entitled(q, p) => can_view_player(req[q].viewer, p, look)
         /\ Unrestricted \in look => Seen(q, p, {Unrestricted})
<1>1. look \in req[q].ever[p]
  BY DEF ViewInv, Noted
<1>2. Anonymous \notin Users /\ Anonymous \notin Staff
  BY PublicViewAssumption
<1>3. QED
  BY <1>1, <1>2 DEF can_view_player, Seen, Entitled, WasOnce

\* Visible is more than unrestricted.
LEMMA VisibleIsUnrestricted ==
  \A q \in Requests, p \in Users : Seen(q, p, PUBLIC_PLAYER_MASK) => Seen(q, p, {Unrestricted})
BY DEF Seen, WasOnce, PUBLIC_PLAYER_MASK

\* The clauses of the listing queries let through whom the rule does.
LEMMA ClausesAreRight ==
  ASSUME ViewInv, NEW q \in Requests, req[q].pc \in UnderWay, NEW ids \in SUBSET Users
  PROVE  /\ users_fetch_many(ids, IsStaff(q), req[q].viewer) \subseteq Users
         /\ users_fetch_many(ids, IsStaff(q), Anonymous) \subseteq Users
         /\ users_fetch_many(ids, FALSE, Anonymous) \subseteq Users
         /\ \A p \in users_fetch_many(ids, IsStaff(q), req[q].viewer) : Seen(q, p, {Unrestricted})
         /\ \A p \in users_fetch_many(ids, IsStaff(q), Anonymous) : Seen(q, p, {Unrestricted})
         /\ \A p \in users_fetch_many(ids, FALSE, Anonymous) : Seen(q, p, {Unrestricted})
<1>1. \A p \in Users : priv[p] \in Looks(p)
  BY DEF Looks
<1>2. \A p \in Users : PUBLIC_PLAYER_MASK \subseteq priv[p] => Seen(q, p, {Unrestricted})
  BY <1>1, RuleIsRight DEF PUBLIC_PLAYER_MASK
<1>3. QED
  BY <1>2, PublicViewAssumption DEF users_fetch_many, _visibility_clause, IsStaff, Seen, Entitled

LEMMA ChecksAreRight ==
  ASSUME ViewInv, NEW q \in Requests,
         FetchPlayer(q) \/ FetchPlayerSession(q) \/ FetchOwner(q)
  PROVE  LetThrough(q) \/ Refused(q)
<1>1. req[q].pc = "asked" /\ req[q] \in AskedRequests
  BY DEF FetchPlayer, FetchPlayerSession, FetchOwner, ViewInv, ViewTyped, Unasked
<1>2. req[q].target \in Users /\ req[q].pc \in UnderWay
  BY <1>1 DEF AskedRequests, UnderWay
<1>3. /\ priv[req[q].target] \in Looks(req[q].target)
      /\ from_cache_or_sql(req[q].target) \in Looks(req[q].target)
  BY DEF Looks, from_cache_or_sql
<1>4. CASE FetchPlayer(q) \/ FetchOwner(q)
  BY <1>2, <1>3, <1>4, RuleIsRight DEF FetchPlayer, FetchOwner, LetThrough, Refused, Owed
<1>5. CASE FetchPlayerSession(q)
  BY <1>2, <1>3, <1>5, RuleIsRight
     DEF FetchPlayerSession, LetThrough, Refused, Owed, BySession, ByRow
<1>6. QED
  BY <1>4, <1>5

\* What an endpoint shows after its check; a score there is for whoever was let
\* through, if its beatmap is.
LEMMA CheckedAreShown ==
  ASSUME ViewInv, NEW q \in Requests, req[q].pc = "checked",
         \/ get_player(q) \/ get_player_followers(q) \/ get_player_follow_stats(q)
         \/ get_player_favourites(q) \/ get_player_status(q) \/ get_player_mode_stats(q)
         \/ get_player_stats(q) \/ get_player_scores(q) \/ get_player_most_played(q)
         \/ get_score(q) \/ api_get_score_info(q) \/ api_get_player_info(q)
         \/ api_get_player_status(q) \/ api_get_player_scores(q)
         \/ api_get_player_most_played(q)
  PROVE  Shown(q) \/ Refused(q)
<1> DEFINE p == req[q].target
<1>1. p \in Users
  BY DEF ViewInv, ViewTyped, Unasked, AskedRequests
<1>2. Seen(q, p, {Unrestricted})
  BY <1>1, VisibleIsUnrestricted DEF ViewInv, Cleared
<1>3. fetch_player_scores(p) \subseteq {p}
  BY DEF fetch_player_scores, Owners, fetch_player_score_listing_rows
<1>4. {p} \cup fetch_followers(q) \in SUBSET Users
      /\ \A x \in {p} \cup fetch_followers(q) : Seen(q, x, {Unrestricted})
  BY <1>1, <1>2, ClausesAreRight DEF fetch_followers, UnderWay
<1>5. ASSUME NEW shown, shown \subseteq {p}, Answer(q, shown) PROVE Shown(q)
  BY <1>1, <1>2, <1>5 DEF Shown
<1>6. CASE get_player_followers(q)
  BY <1>4, <1>6 DEF get_player_followers, Shown
<1>7. CASE get_player_scores(q) \/ get_player_most_played(q) \/ api_get_player_most_played(q)
           \/ api_get_player_scores(q)
  BY <1>3, <1>5, <1>7
     DEF get_player_scores, get_player_most_played, api_get_player_most_played, api_get_player_scores
<1>8. CASE get_player_status(q) \/ get_score(q)
  <2>1. CASE NotFound(q)
    BY <1>8, <2>1, <1>5 DEF get_player_status, get_score, Refused, Owed, At, OfScore
  <2>2. CASE Answer(q, {p})
    BY <1>5, <2>2
  <2>3. QED
    BY <1>8, <2>1, <2>2 DEF get_player_status, get_score
<1>9. CASE \/ get_player(q) \/ get_player_follow_stats(q) \/ get_player_favourites(q)
           \/ get_player_mode_stats(q) \/ get_player_stats(q) \/ api_get_score_info(q)
           \/ api_get_player_info(q) \/ api_get_player_status(q)
  BY <1>5, <1>9
     DEF get_player, get_player_follow_stats, get_player_favourites, get_player_mode_stats,
         get_player_stats, api_get_score_info, api_get_player_info, api_get_player_status,
         fetch_player_stats_with_ranks
<1>10. QED
  BY <1>6, <1>7, <1>8, <1>9

\* The listings, built in one query.
LEMMA ListingsAreRight ==
  ASSUME ViewInv, NEW q \in Requests, req[q].pc = "asked",
         \/ get_players(q) \/ search_players(q) \/ get_player_friends(q) \/ get_all_scores(q)
         \/ getScores(q) \/ api_search_players(q) \/ api_get_map_scores(q)
         \/ api_get_global_leaderboard(q) \/ api_get_pool(q)
  PROVE  Shown(q) \/ Refused(q)
<1>1. req[q].pc \in UnderWay /\ req[q].target \in Users
  BY DEF UnderWay, ViewInv, ViewTyped, Unasked, AskedRequests
<1>2. \A p \in Users : priv[p] \in Looks(p) /\ (Online(p) => session[p].priv \in Looks(p))
  BY DEF Looks
<1>3. \A p \in Users : Unrestricted \in priv[p] => Seen(q, p, {Unrestricted})
  BY <1>1, <1>2, RuleIsRight
<1>4. \A s \in Scores : s.user \in Users
  BY PublicViewAssumption
<1>5. CASE get_players(q) \/ search_players(q) \/ api_search_players(q)
  <2>1. Users \in SUBSET Users
    OBVIOUS
  <2>2. QED
    BY <1>1, <1>5, <2>1, ClausesAreRight
       DEF get_players, search_players, api_search_players, fetch_players,
           service_search_players, search_public, Shown
<1>6. CASE get_player_friends(q)
  <2>1. {p \in Users : <<req[q].viewer, p>> \in Friends} \in SUBSET Users
    OBVIOUS
  <2>2. QED
    BY <1>1, <1>6, <2>1, ClausesAreRight DEF get_player_friends, fetch_friends, Shown
<1>7. CASE get_all_scores(q)
  <2>1. \A s \in fetch_scores(q) : s.user \in Users /\ Seen(q, s.user, {Unrestricted})
    BY <1>3, <1>4
       DEF fetch_scores, scores_fetch_many, _visibility_clause, IsStaff, Seen, Entitled,
           PUBLIC_PLAYER_MASK
  <2>2. Owners(fetch_scores(q)) \in SUBSET Users
        /\ \A p \in Owners(fetch_scores(q)) : Seen(q, p, {Unrestricted})
    BY <2>1 DEF Owners
  <2>3. QED
    BY <1>7, <2>2 DEF get_all_scores, Shown
<1>8. CASE getScores(q)
  <2>1. \A s \in fetch_leaderboard_scores(q) : s.user \in Users /\ Seen(q, s.user, {Unrestricted})
    BY <1>3, <1>4 DEF fetch_leaderboard_scores, fetch_beatmap_leaderboard_scores, Seen, Entitled
  <2>2. Owners(fetch_leaderboard_scores(q)) \in SUBSET Users
        /\ \A p \in Owners(fetch_leaderboard_scores(q)) : Seen(q, p, {Unrestricted})
    BY <2>1 DEF Owners
  <2>3. QED
    BY <1>8, <2>2 DEF getScores, Shown
<1>9. CASE api_get_map_scores(q)
  <2>1. Owners(fetch_map_score_listing_rows) \in SUBSET Users
        /\ \A p \in Owners(fetch_map_score_listing_rows) : Seen(q, p, {Unrestricted})
    BY <1>3, <1>4 DEF Owners, fetch_map_score_listing_rows
  <2>2. QED
    BY <1>9, <2>1 DEF api_get_map_scores, Shown
<1>10. CASE api_get_global_leaderboard(q)
  <2>1. fetch_leaderboard_stats_rows \in SUBSET Users
        /\ \A p \in fetch_leaderboard_stats_rows : Seen(q, p, {Unrestricted})
    BY <1>3 DEF fetch_leaderboard_stats_rows, PUBLIC_PLAYER_MASK
  <2>2. QED
    BY <1>10, <2>1 DEF api_get_global_leaderboard, Shown
<1>11. CASE api_get_pool(q)
  <2> DEFINE p == req[q].target
  <2>1. CASE Online(p) /\ can_view_player(Anonymous, p, session[p].priv)
    <3>1. Seen(q, p, {Unrestricted})
      BY <1>1, <1>2, <2>1, RuleIsRight, VisibleIsUnrestricted
    <3>2. Answer(q, {p}) /\ {p} \in SUBSET Users
      BY <1>1, <1>11, <2>1 DEF api_get_pool
    <3>3. QED
      BY <3>1, <3>2 DEF Shown
  <2>2. CASE ~(Online(p) /\ can_view_player(Anonymous, p, session[p].priv))
    BY <1>11, <2>2 DEF api_get_pool, Refused, Owed, At, ByRow
  <2>3. QED
    BY <2>1, <2>2
<1>12. QED
  BY <1>5, <1>6, <1>7, <1>8, <1>9, <1>10, <1>11

\* Replays: the rule is applied to the row of the query, or in the game to the
\* player as memory has it.
LEMMA ReplaysAreRight ==
  ASSUME ViewInv, NEW q \in Requests, req[q].pc = "asked",
         download_score_replay(q) \/ api_get_replay(q) \/ getReplay(q)
  PROVE  Shown(q) \/ Refused(q)
<1> DEFINE p == req[q].target
           s == ScoreOf(q)
<1>1. p \in Users /\ req[q].pc \in UnderWay /\ req[q].kind \in OfScore
  BY DEF UnderWay, ViewInv, ViewTyped, Unasked, AskedRequests, OfScore,
         download_score_replay, api_get_replay, getReplay, At
<1>2. s.user = p
  <2>1. \E x \in Scores : x.user = p
    BY <1>1 DEF ViewInv, HasScore
  <2>2. QED
    BY <2>1 DEF ScoreOf
<1>3. priv[p] \in Looks(p) /\ from_cache_or_sql(p) \in Looks(p)
  BY DEF Looks, from_cache_or_sql
<1>4. ASSUME Answer(q, {p}), Seen(q, p, PUBLIC_PLAYER_MASK) PROVE Shown(q)
  BY <1>1, <1>4, VisibleIsUnrestricted DEF Shown
<1>5. CASE download_score_replay(q) \/ api_get_replay(q)
  <2>1. /\ fetch_replay_header(s).found = s.map
        /\ fetch_replay_header(s).user_priv = priv[p]
    BY <1>2 DEF fetch_replay_header
  <2>2. ReplayFor(q)
    BY <1>5 DEF download_score_replay, api_get_replay
  <2>3. CASE s.replay /\ s.map /\ can_view_player(req[q].viewer, p, priv[p])
    BY <1>1, <1>3, <1>4, <2>1, <2>2, <2>3, RuleIsRight DEF ReplayFor
  <2>4. CASE ~(s.replay /\ s.map /\ can_view_player(req[q].viewer, p, priv[p]))
    <3>1. NotFound(q)
      BY <2>1, <2>2, <2>4 DEF ReplayFor
    <3>2. ~Owed(q)
      BY <1>1, <1>3, <2>4, RuleIsRight DEF Owed
    <3>3. QED
      BY <3>1, <3>2 DEF Refused
  <2>5. QED
    BY <2>3, <2>4
<1>6. CASE getReplay(q)
  <2>1. CASE fetch_replay_file(q)
    BY <1>1, <1>3, <1>4, <1>6, <2>1, RuleIsRight DEF getReplay, fetch_replay_file
  <2>2. CASE ~fetch_replay_file(q)
    <3>1. ~Owed(q)
      BY <1>1, <1>3, <2>2, RuleIsRight DEF fetch_replay_file, Owed
    <3>2. QED
      BY <1>6, <2>2, <3>1 DEF getReplay, Refused
  <2>3. QED
    BY <2>1, <2>2
<1>7. QED
  BY <1>5, <1>6

\* A clan: the members are listed, and the owner is looked up later.
LEMMA ClansAreRight ==
  ASSUME ViewInv, NEW q \in Requests
  PROVE  /\ fetch_clan_members(q) => ListsMembers(q)
         /\ api_get_clan(q) => Shown(q)
<1>1. ASSUME fetch_clan_members(q) PROVE ListsMembers(q)
  <2>1. req[q].pc \in UnderWay /\ Users \in SUBSET Users
    BY <1>1 DEF fetch_clan_members, At, UnderWay
  <2>2. QED
    BY <1>1, <2>1, ClausesAreRight DEF fetch_clan_members, ListsMembers
<1>2. ASSUME api_get_clan(q) PROVE Shown(q)
  <2> DEFINE owner == {p \in {ClanOwner} : can_view_player(Anonymous, p, from_cache_or_sql(p))}
  <2>1. req[q].pc = "members" /\ req[q].pc \in UnderWay
    BY <1>2 DEF api_get_clan, At, UnderWay
  <2>2. req[q].shown \in SUBSET Users /\ \A p \in req[q].shown : Seen(q, p, {Unrestricted})
    <3>1. req[q] \in AskedRequests
      BY <2>1 DEF ViewInv, ViewTyped, Unasked
    <3>2. req[q].kind \notin Unruled
      BY <1>2 DEF api_get_clan, At, Unruled
    <3>3. \A p \in req[q].shown : Seen(q, p, {Unrestricted})
      BY <2>1, <3>2 DEF ViewInv, Cleared
    <3>4. QED
      BY <3>1, <3>3 DEF AskedRequests
  <2>3. ClanOwner \in Users /\ from_cache_or_sql(ClanOwner) \in Looks(ClanOwner)
    BY PublicViewAssumption DEF from_cache_or_sql, Looks
  <2>4. owner \in SUBSET Users /\ \A p \in owner : Seen(q, p, {Unrestricted})
    BY <2>1, <2>3, RuleIsRight, VisibleIsUnrestricted
  <2>5. Answer(q, req[q].shown \cup owner)
    BY <1>2 DEF api_get_clan
  <2> HIDE DEF owner
  <2>6. /\ req[q].shown \cup owner \in SUBSET Users
        /\ \A p \in req[q].shown \cup owner : Seen(q, p, {Unrestricted})
    BY <2>2, <2>4
  <2>7. QED
    BY <2>5, <2>6 DEF Shown
<1>3. QED
  BY <1>1, <1>2

\* The endpoints without the rule show whom they find.
LEMMA UnruledShow ==
  ASSUME ViewInv, NEW q \in Requests, ServeUnruled(q)
  PROVE  /\ req[q].pc \in UnderWay
         /\ Refused(q) \/ ShownUnruled(q)
<1>1. /\ req[q].pc = "asked" /\ req[q].kind \in Unruled
      /\ NotFound(q) \/ \E shown \in SUBSET Users : Answer(q, shown)
  <2>1. req[q].pc = "asked" /\ req[q].kind \in Unruled
    BY DEF ServeUnruled, get_user_activity, get_activity_feed, get_spectator_sessions, get_matches,
           get_clan, get_tourney_pool, api_get_match, bancho_view_online_users,
           bancho_view_matches, osuGetFriends, At, Unruled
  <2>2. req[q].target \in Users /\ ClanOwner \in Users
    BY <2>1, PublicViewAssumption DEF ViewInv, ViewTyped, Unasked, AskedRequests
  <2>3. \A friend : {p \in Users : <<friend, p>> \in Friends} \in SUBSET Users
    OBVIOUS
  <2>4. OnlineUsers \in SUBSET Users /\ SUBSET OnlineUsers \subseteq SUBSET Users
    BY DEF OnlineUsers
  <2>5. CASE get_user_activity(q) \/ get_clan(q) \/ get_tourney_pool(q)
    BY <2>1, <2>2, <2>5 DEF get_user_activity, get_clan, get_tourney_pool
  <2>6. CASE get_activity_feed(q) \/ osuGetFriends(q)
    BY <2>1, <2>3, <2>6 DEF get_activity_feed, osuGetFriends
  <2>7. CASE get_spectator_sessions(q) \/ get_matches(q)
    BY <2>1, <2>7 DEF get_spectator_sessions, get_matches
  <2>8. CASE api_get_match(q) \/ bancho_view_online_users(q) \/ bancho_view_matches(q)
    BY <2>1, <2>4, <2>8 DEF api_get_match, bancho_view_online_users, bancho_view_matches
  <2>9. QED
    BY <2>1, <2>5, <2>6, <2>7, <2>8 DEF ServeUnruled
<1>2. ~Owed(q)
  BY <1>1 DEF Owed, Unruled, ByRow
<1>3. QED
  BY <1>1, <1>2 DEF UnderWay, Refused, ShownUnruled

LEMMA ServeIsRight ==
  ASSUME ViewInv, NEW q \in Requests, Serve(q)
  PROVE  /\ req[q].pc \in UnderWay
         /\ LetThrough(q) \/ Refused(q) \/ Shown(q) \/ ListsMembers(q) \/ ShownUnruled(q)
<1>1. CASE FetchPlayer(q) \/ FetchPlayerSession(q) \/ FetchOwner(q)
  BY <1>1, ChecksAreRight DEF FetchPlayer, FetchPlayerSession, FetchOwner, UnderWay
<1>2. CASE \/ get_player(q) \/ get_player_followers(q) \/ get_player_follow_stats(q)
           \/ get_player_favourites(q) \/ get_player_status(q) \/ get_player_mode_stats(q)
           \/ get_player_stats(q) \/ get_player_scores(q) \/ get_player_most_played(q)
           \/ get_score(q) \/ api_get_score_info(q) \/ api_get_player_info(q)
           \/ api_get_player_status(q) \/ api_get_player_scores(q)
           \/ api_get_player_most_played(q)
  <2>1. req[q].pc = "checked"
    BY <1>2
       DEF At, get_player, get_player_followers, get_player_follow_stats, get_player_favourites,
           get_player_status, get_player_mode_stats, get_player_stats, get_player_scores,
           get_player_most_played, get_score, api_get_score_info, api_get_player_info,
           api_get_player_status, api_get_player_scores, api_get_player_most_played
  <2>2. QED
    BY <1>2, <2>1, CheckedAreShown DEF UnderWay
<1>3. CASE \/ get_players(q) \/ search_players(q) \/ get_player_friends(q) \/ get_all_scores(q)
           \/ getScores(q) \/ api_search_players(q) \/ api_get_map_scores(q)
           \/ api_get_global_leaderboard(q) \/ api_get_pool(q)
  <2>1. req[q].pc = "asked"
    BY <1>3 DEF At, get_players, search_players, get_player_friends, get_all_scores, getScores,
                api_search_players, api_get_map_scores, api_get_global_leaderboard, api_get_pool
  <2>2. QED
    BY <1>3, <2>1, ListingsAreRight DEF UnderWay
<1>4. CASE download_score_replay(q) \/ api_get_replay(q) \/ getReplay(q)
  BY <1>4, ReplaysAreRight DEF At, download_score_replay, api_get_replay, getReplay, UnderWay
<1>5. CASE fetch_clan_members(q) \/ api_get_clan(q)
  BY <1>5, ClansAreRight DEF At, fetch_clan_members, api_get_clan, UnderWay
<1>6. CASE ServeUnruled(q)
  BY <1>6, UnruledShow
<1>7. QED
  BY <1>1, <1>2, <1>3, <1>4, <1>5, <1>6 DEF Serve

-----------------------------------------------------------------------------
(* The invariant.                                                          *)

\* A request changes to new, and everything else stays.
LEMMA RequestKeeps ==
  ASSUME ViewInv, NEW q \in Requests, NEW new \in AskedRequests,
         req' = [req EXCEPT ![q] = new], UNCHANGED <<priv, session, task, gens>>,
         new.kind \in OfScore => \E s \in Scores : s.user = new.target,
         new.pc \in UnderWay => \A p \in Users : Looks(p) \subseteq new.ever[p],
         new.pc = "checked" => Seen(q, new.target, PUBLIC_PLAYER_MASK)',
         new.kind \notin Unruled => \A p \in new.shown : Seen(q, p, {Unrestricted})',
         new.pc = "answered" /\ Owed(q)' => new.found
  PROVE  ViewInv'
<1>1. req \in [Requests -> {Unasked} \cup AskedRequests]
  BY DEF ViewInv, ViewTyped
<1>2. req'[q] = new /\ \A r \in Requests \ {q} : req'[r] = req[r]
  BY <1>1
<1>3. req' \in [Requests -> {Unasked} \cup AskedRequests]
  BY <1>1
<1>4. ASSUME NEW r \in Requests \ {q}
      PROVE  /\ \A p \in Users : \A mask : Seen(r, p, mask)' <=> Seen(r, p, mask)
             /\ Owed(r)' <=> Owed(r)
  BY <1>2 DEF Seen, Entitled, WasOnce, Owed, ScoreOf
<1>5. ViewTyped'
  BY <1>3 DEF ViewInv, ViewTyped
<1>6. Noted'
  BY <1>2 DEF ViewInv, Noted, Looks, Online
<1>7. Cleared'
  <2>1. ASSUME NEW r \in Requests \ {q}, req[r].pc # "none"
        PROVE  /\ (req[r].pc = "checked" => Seen(r, req[r].target, PUBLIC_PLAYER_MASK))'
               /\ (req[r].kind \notin Unruled => \A p \in req[r].shown : Seen(r, p, {Unrestricted}))'
    <3>1. req'[r] = req[r]
      BY <1>2
    <3>2. req[r].target \in Users /\ req[r].shown \subseteq Users
      BY <1>1, <2>1 DEF Unasked, AskedRequests
    <3>3. /\ req[r].pc = "checked" => Seen(r, req[r].target, PUBLIC_PLAYER_MASK)
          /\ req[r].kind \notin Unruled => \A p \in req[r].shown : Seen(r, p, {Unrestricted})
      BY <2>1 DEF ViewInv, Cleared
    <3>4. QED
      BY <1>4, <3>1, <3>2, <3>3
  <2>2. /\ (req[q].pc = "checked" => Seen(q, req[q].target, PUBLIC_PLAYER_MASK))'
        /\ (req[q].kind \notin Unruled => \A p \in req[q].shown : Seen(q, p, {Unrestricted}))'
    BY <1>2
  <2>3. QED
    BY <1>2, <2>1, <2>2 DEF Cleared
<1>8. Served'
  BY <1>2, <1>4 DEF ViewInv, Served
<1>9. HasScore'
  BY <1>2 DEF ViewInv, HasScore
<1>10. QED
  BY <1>5, <1>6, <1>7, <1>8, <1>9 DEF ViewInv

LEMMA ServeKeeps ==
  ASSUME ViewInv, NEW q \in Requests, Serve(q), UNCHANGED <<priv, session, task, gens, asks>>
  PROVE  ViewInv'
<1> DEFINE r == req[q]
<1>1. /\ r.pc \in UnderWay
      /\ LetThrough(q) \/ Refused(q) \/ Shown(q) \/ ListsMembers(q) \/ ShownUnruled(q)
  BY ServeIsRight
<1>2. r \in AskedRequests /\ req \in [Requests -> {Unasked} \cup AskedRequests]
  BY <1>1 DEF ViewInv, ViewTyped, Unasked, UnderWay
<1>3. /\ r.kind \in OfScore => \E s \in Scores : s.user = r.target
      /\ \A p \in Users : Looks(p) \subseteq r.ever[p]
  BY <1>1 DEF ViewInv, HasScore, Noted
<1>4. ASSUME NEW pc \in UnderWay \cup {"answered"}, NEW found \in BOOLEAN,
             NEW shown \in SUBSET Users, NEW new,
             new = [r EXCEPT !.pc = pc, !.found = found, !.shown = shown],
             req' = [req EXCEPT ![q] = new],
             pc = "checked" => Seen(q, r.target, PUBLIC_PLAYER_MASK),
             r.kind \notin Unruled => \A p \in shown : Seen(q, p, {Unrestricted}),
             pc = "answered" /\ Owed(q) => found
      PROVE  ViewInv'
  <2>1. /\ new \in AskedRequests /\ new.kind = r.kind /\ new.target = r.target
        /\ new.viewer = r.viewer /\ new.ever = r.ever /\ new.pc = pc
        /\ new.found = found /\ new.shown = shown
    BY <1>2, <1>4 DEF AskedRequests
  <2>2. req'[q] = new
    BY <1>2, <1>4
  <2>3. /\ \A p \in Users : \A mask : Seen(q, p, mask)' <=> Seen(q, p, mask)
        /\ Owed(q)' <=> Owed(q)
    BY <2>1, <2>2 DEF Seen, Entitled, WasOnce, Owed, ScoreOf
  <2>4. r.target \in Users
    BY <1>2 DEF AskedRequests
  <2> HIDE DEF r
  <2>5. /\ new.pc = "checked" => Seen(q, new.target, PUBLIC_PLAYER_MASK)'
        /\ new.kind \notin Unruled => \A p \in new.shown : Seen(q, p, {Unrestricted})'
        /\ new.pc = "answered" /\ Owed(q)' => new.found
    BY <1>4, <2>1, <2>3, <2>4
  <2>6. QED
    BY <1>3, <1>4, <2>1, <2>5, RequestKeeps
<1>5. /\ r.found \in BOOLEAN /\ r.shown \in SUBSET Users /\ r.pc # "none"
      /\ r.kind \notin Unruled => \A p \in r.shown : Seen(q, p, {Unrestricted})
  BY <1>1, <1>2 DEF AskedRequests, ViewInv, Cleared, UnderWay
<1>6. ASSUME NEW pc \in {"checked", "answered"}, Goes(q, pc),
             pc = "checked" => Seen(q, r.target, PUBLIC_PLAYER_MASK),
             pc = "answered" => ~Owed(q)
      PROVE  ViewInv'
  <2> DEFINE new == [r EXCEPT !.pc = pc, !.found = r.found, !.shown = r.shown]
  <2>1. req' = [req EXCEPT ![q] = new]
    BY <1>2, <1>6 DEF Goes, AskedRequests
  <2> HIDE DEF r
  <2>2. QED
    BY <1>4, <1>5, <1>6, <2>1 DEF UnderWay
<1>7. CASE Shown(q) \/ ShownUnruled(q)
  <2>1. PICK shown \in SUBSET Users :
          /\ Answer(q, shown)
          /\ r.kind \notin Unruled => \A p \in shown : Seen(q, p, {Unrestricted})
    BY <1>7 DEF Shown, ShownUnruled
  <2> DEFINE new == [r EXCEPT !.pc = "answered", !.found = TRUE, !.shown = shown]
  <2>2. req' = [req EXCEPT ![q] = new]
    <3>1. req' = [[[req EXCEPT ![q].pc = "answered"] EXCEPT ![q].found = TRUE] EXCEPT ![q].shown = shown]
      BY <1>2, <2>1 DEF Answer
    <3>2. new = [[[r EXCEPT !.pc = "answered"] EXCEPT !.found = TRUE] EXCEPT !.shown = shown]
      BY <1>2 DEF AskedRequests
    <3> HIDE DEF new
    <3>3. QED
      BY <1>2, <3>1, <3>2
  <2>3. /\ new = [r EXCEPT !.pc = "answered", !.found = TRUE, !.shown = shown]
        /\ TRUE \in BOOLEAN /\ "answered" \in UnderWay \cup {"answered"}
        /\ "answered" # "checked"
    OBVIOUS
  <2> HIDE DEF r, new
  <2>4. QED
    BY <1>4, <2>1, <2>2, <2>3, Zenon
<1>8. CASE ListsMembers(q)
  <2>1. PICK shown \in SUBSET Users :
          /\ req' = [req EXCEPT ![q].pc = "members", ![q].shown = shown]
          /\ \A p \in shown : Seen(q, p, {Unrestricted})
    BY <1>8 DEF ListsMembers
  <2> DEFINE new == [r EXCEPT !.pc = "members", !.found = r.found, !.shown = shown]
  <2>2. req' = [req EXCEPT ![q] = new]
    <3>1. req' = [[req EXCEPT ![q].pc = "members"] EXCEPT ![q].shown = shown]
      BY <1>2, <2>1
    <3>2. new = [[r EXCEPT !.pc = "members"] EXCEPT !.shown = shown]
      BY <1>2 DEF AskedRequests
    <3> HIDE DEF new
    <3>3. QED
      BY <1>2, <3>1, <3>2
  <2>3. /\ new = [r EXCEPT !.pc = "members", !.found = r.found, !.shown = shown]
        /\ "members" \in UnderWay \cup {"answered"}
        /\ r.found \in BOOLEAN /\ \A p \in shown : Seen(q, p, {Unrestricted})
        /\ "members" = "checked" => Seen(q, r.target, PUBLIC_PLAYER_MASK)
        /\ "members" = "answered" /\ Owed(q) => r.found
    BY <1>5, <2>1 DEF UnderWay
  <2> HIDE DEF r, new
  <2>4. QED
    BY <1>4, <2>2, <2>3, Zenon
<1>9. QED
  BY <1>1, <1>6, <1>7, <1>8 DEF LetThrough, Refused, NotFound

LEMMA AskKeeps ==
  ASSUME ViewInv, NEW q \in Requests, NEW kind \in Kinds, NEW v \in Users \cup {Anonymous},
         NEW p \in Users, Ask(q, kind, v, p)
  PROVE  ViewInv'
<1> DEFINE new == [kind |-> kind, viewer |-> v, target |-> p, pc |-> "asked",
                   ever |-> [u \in Users |-> Looks(u)], found |-> FALSE, shown |-> {}]
<1>1. \A u \in Users : Looks(u) \in SUBSET Looking
  BY DEF ViewInv, ViewTyped, Looks, Looking
<1>2. new \in AskedRequests
  BY <1>1 DEF AskedRequests, UnderWay
<1>3. /\ req' = [req EXCEPT ![q] = new] /\ UNCHANGED <<priv, session, task, gens>>
      /\ kind \in OfScore => \E s \in Scores : s.user = p
  BY DEF Ask
<1>4. /\ new.kind = kind /\ new.target = p /\ new.pc = "asked" /\ new.shown = {}
      /\ \A u \in Users : new.ever[u] = Looks(u)
  OBVIOUS
<1> HIDE DEF new
<1>5. QED
  BY <1>2, <1>3, <1>4, RequestKeeps

LEMMA ViewInductive == Spec => []ViewInv
<1>1. Init => ViewInv
  <2>1. PUBLIC_PLAYER_MASK \in Looking /\ {} \in Looking
    BY DEF Looking
  <2>2. \A q \in Requests : Init => req[q].pc = "none" /\ req[q].kind = "none"
    BY DEF Init, Unasked
  <2>3. Init => ViewTyped
    BY <2>1 DEF Init, ViewTyped, Offline
  <2>4. QED
    BY <2>2, <2>3 DEF ViewInv, Noted, Cleared, Served, HasScore, UnderWay, OfScore
<1>2. ViewInv /\ [Next]_vars => ViewInv'
  <2> SUFFICES ASSUME ViewInv, [Next]_vars PROVE ViewInv'
    OBVIOUS
  <2>1. CASE Change
    BY <2>1, ChangeKeeps
  <2>2. CASE \E q \in Requests, kind \in Kinds, v \in Users \cup {Anonymous}, p \in Users :
               Ask(q, kind, v, p)
    BY <2>2, AskKeeps
  <2>3. CASE \E q \in Requests : Serve(q) /\ UNCHANGED <<priv, session, task, gens, asks>>
    BY <2>3, ServeKeeps
  <2>4. CASE UNCHANGED vars
    BY <2>4 DEF vars, ViewInv, ViewTyped, Noted, Looks, Online, Cleared, Seen, Entitled,
                WasOnce, Served, Owed, ScoreOf, HasScore
  <2>5. QED
    BY <2>1, <2>2, <2>3, <2>4 DEF Next, Kinds
<1>3. QED
  BY <1>1, <1>2, PTL DEF Spec

-----------------------------------------------------------------------------
(* What it gives.                                                          *)

\* No endpoint that applies the rule shows a player who has been restricted since
\* before the request came in to anybody but staff and that player, wherever it
\* takes the player from, and whatever commands, logins and logouts happen while it
\* awaits (can_view_player, the clauses of the listing queries, restrict).  Of the
\* endpoints without the rule, which show hidden players, it says nothing.
THEOREM RestrictedAreHidden == Spec => []RestrictedStayHidden
<1>1. ViewInv => RestrictedStayHidden
  <2>1. Ruled \cap Unruled = {}
    BY DEF Ruled, Unruled, ByRow, BySession, OfScore, Listing
  <2>2. QED
    BY <2>1 DEF ViewInv, Cleared, RestrictedStayHidden, Answered, Seen
<1>2. QED
  BY <1>1, ViewInductive, PTL

\* And the rule never turns away staff, nor players who ask for what is theirs
\* (can_view_player in get_player, get_score, build_full_replay and getReplay).
THEOREM EntitledGetAnswers == Spec => []EntitledAreServed
<1>1. ViewInv => EntitledAreServed
  BY DEF ViewInv, Served, Owed, EntitledAreServed, Answered
<1>2. QED
  BY <1>1, ViewInductive, PTL

-----------------------------------------------------------------------------
(* Clans.                                                                  *)

Ranks == {"none", "owner", "officer", "member"}
Issued == 1 .. c_nextId - 1
Within(id) == {u \in ClanUsers : c_users[u].clan = id}

Creates == [op : {"create"}, pc : {"current", "taken", "commit"}, user : ClanUsers,
            tag : Tags, row : [clan : Nat, priv : Ranks]]
Disbands == [op : {"disband"}, pc : {"clan", "members"}, clan : Nat]
DisbandsNow == [op : {"disband"}, pc : {"commit"}, clan : Nat, members : SUBSET ClanUsers]
Leaves == [op : {"leave"}, pc : {"clan", "members"}, user : ClanUsers, clan : Nat]
LeavesNow == [op : {"leave"}, pc : {"commit"}, user : ClanUsers, clan : Nat,
              remaining : SUBSET ClanUsers]
Transfers == [op : {"transfer"}, pc : {"clan", "target", "commit"}, user : ClanUsers,
              clan : Nat, target : ClanUsers]

\* A command that is to take a clan away has found all who are in it by now:
\* nobody joins a clan that there is.
Complete(o) ==
  /\ o.op \in {"idle", "create", "disband", "leave", "transfer", "sync", "login"}
  /\ o.op = "create" => o \in Creates
  /\ o.op = "disband" => o \in Disbands \cup DisbandsNow /\ o.clan \in Issued
  /\ o.op = "leave" => o \in Leaves \cup LeavesNow /\ o.clan \in Issued
  /\ o.op = "transfer" => o \in Transfers
  /\ o.op = "disband" /\ o.pc = "commit" => Within(o.clan) \subseteq o.members
  /\ o.op = "leave" /\ o.pc = "commit" => Within(o.clan) \subseteq o.remaining \cup {o.user}

ClanRows ==
  /\ c_users \in [ClanUsers -> [clan : Nat, priv : Ranks]]
  /\ c_nextId \in Nat \ {0}
  /\ DOMAIN c_clans \subseteq Issued
  /\ \A u \in ClanUsers : c_users[u].clan # 0 =>
       c_users[u].clan \in DOMAIN c_clans /\ c_users[u].priv # "none"

ClansInv ==
  /\ ClanRows
  /\ DOMAIN c_task = Tasks
  /\ \A t \in Tasks : Complete(c_task[t])

LEMMA IntervalGrows ==
  ASSUME NEW m \in Nat, NEW n \in Nat, n >= m
  PROVE  1 .. m - 1 \subseteq 1 .. n - 1
OBVIOUS

\* A step of one command, by which nobody joins a clan that there is.
LEMMA CommandGoesOn ==
  ASSUME ClansInv, ClanRows', NEW t \in Tasks, NEW o,
         c_task' = [c_task EXCEPT ![t] = o], Complete(o)',
         c_nextId' >= c_nextId, \A id \in Issued : Within(id)' \subseteq Within(id)
  PROVE  ClansInv'
<1>1. \A u \in Tasks : u # t => c_task'[u] = c_task[u]
  BY DEF ClansInv
<1>2. Issued \subseteq Issued'
  <2>1. c_nextId \in Nat /\ c_nextId' \in Nat
    BY DEF ClansInv, ClanRows
  <2>2. 1 .. c_nextId - 1 \subseteq 1 .. c_nextId' - 1
    BY <2>1, IntervalGrows
  <2>3. QED
    BY <2>2 DEF Issued
<1>3. ASSUME NEW u \in Tasks, u # t PROVE Complete(c_task[u])'
  <2>1. Complete(c_task[u]) /\ c_task'[u] = c_task[u]
    BY <1>1, <1>3 DEF ClansInv
  <2>2. QED
    BY <1>2, <2>1 DEF Complete
<1>4. DOMAIN c_task' = Tasks /\ c_task'[t] = o
  BY DEF ClansInv
<1>5. QED
  BY <1>3, <1>4 DEF ClansInv

\* ... that changes no row.
LEMMA CommandReads ==
  ASSUME ClansInv, NEW t \in Tasks, NEW o, c_task' = [c_task EXCEPT ![t] = o], Complete(o),
         UNCHANGED <<c_clans, c_users, c_nextId>>
  PROVE  ClansInv'
<1>1. ClanRows' /\ c_nextId' >= c_nextId
  BY DEF ClansInv, ClanRows, Issued
<1>2. \A id \in Issued : Within(id)' \subseteq Within(id)
  BY DEF Within
<1>3. Complete(o)'
  BY DEF Complete, Issued, Within
<1>4. QED
  BY <1>1, <1>2, <1>3, CommandGoesOn

LEMMA IdleIsComplete == Complete(Clubs!Idle) /\ Complete(Clubs!Idle)'
BY DEF Complete, Clubs!Idle

LEMMA CommandEnds ==
  ASSUME ClansInv, NEW t \in Tasks, Clubs!Return(t), UNCHANGED <<c_clans, c_users, c_nextId>>
  PROVE  ClansInv'
BY CommandReads, IdleIsComplete DEF Clubs!Return

\* A command begins.
LEMMA CommandBegins ==
  ASSUME ClansInv, NEW t \in Tasks, NEW u \in ClanUsers,
         \/ Clubs!LoginRead(t, u) \/ Clubs!clan_disband(t, u) \/ Clubs!leave_clan(t, u)
         \/ \E tag \in Tags : Clubs!create_clan(t, u, tag)
         \/ \E target \in ClanUsers : Clubs!transfer_clan_ownership(t, u, target)
  PROVE  ClansInv'
<1>1. c_users[u] \in [clan : Nat, priv : Ranks]
  BY DEF ClansInv, ClanRows
<1>2. ASSUME NEW o, Clubs!Begin(t, o), Complete(o) PROVE ClansInv'
  BY <1>2, CommandReads DEF Clubs!Begin, Clubs!Stored
<1>3. CASE Clubs!LoginRead(t, u)
  <2> DEFINE o == [op |-> "login", pc |-> "list", user |-> u, row |-> c_users[u]]
  <2>1. Complete(o) /\ Clubs!Begin(t, o)
    BY <1>3 DEF Clubs!LoginRead, Complete
  <2> HIDE DEF o
  <2>2. QED
    BY <1>2, <2>1
<1>4. CASE Clubs!clan_disband(t, u)
  <2>1. PICK c \in DOMAIN c_clans : Clubs!Begin(t, [op |-> "disband", pc |-> "clan", clan |-> c])
    BY <1>4 DEF Clubs!clan_disband
  <2> DEFINE o == [op |-> "disband", pc |-> "clan", clan |-> c]
  <2>2. c \in Issued /\ c \in Nat
    BY DEF ClansInv, ClanRows, Issued
  <2>3. Complete(o) /\ Clubs!Begin(t, o)
    BY <2>1, <2>2 DEF Complete, Disbands
  <2> HIDE DEF o
  <2>4. QED
    BY <1>2, <2>3
<1>5. CASE Clubs!leave_clan(t, u)
  <2> DEFINE o == [op |-> "leave", pc |-> "clan", user |-> u, clan |-> c_users[u].clan]
  <2>1. Clubs!Begin(t, o) /\ c_users[u].clan \in Issued /\ c_users[u].clan \in Nat
    BY <1>1, <1>5 DEF Clubs!leave_clan, ClansInv, ClanRows
  <2>2. Complete(o)
    BY <2>1 DEF Complete, Leaves
  <2> HIDE DEF o
  <2>3. QED
    BY <1>2, <2>1, <2>2
<1>6. ASSUME NEW tag \in Tags, Clubs!create_clan(t, u, tag) PROVE ClansInv'
  <2> DEFINE o == [op |-> "create", pc |-> "current", user |-> u, tag |-> tag, row |-> c_users[u]]
  <2>1. Clubs!Begin(t, o) /\ Complete(o)
    BY <1>1, <1>6 DEF Clubs!create_clan, Complete, Creates
  <2> HIDE DEF o
  <2>2. QED
    BY <1>2, <2>1
<1>7. ASSUME NEW target \in ClanUsers, Clubs!transfer_clan_ownership(t, u, target) PROVE ClansInv'
  <2> DEFINE o == [op |-> "transfer", pc |-> "clan", user |-> u, clan |-> c_users[u].clan,
                   target |-> target]
  <2>1. Clubs!Begin(t, o) /\ Complete(o)
    BY <1>1, <1>7 DEF Clubs!transfer_clan_ownership, Complete, Transfers
  <2> HIDE DEF o
  <2>2. QED
    BY <1>2, <2>1
<1>8. QED
  BY <1>3, <1>4, <1>5, <1>6, <1>7

\* A command goes on to its next await, or ends.
LEMMA CommandAsks ==
  ASSUME ClansInv, NEW t \in Tasks,
         \/ Clubs!CreateCurrent(t) \/ Clubs!CreateTaken(t)
         \/ Clubs!DisbandClan(t) \/ Clubs!DisbandMembers(t)
         \/ Clubs!LeaveClan(t) \/ Clubs!LeaveMembers(t)
         \/ Clubs!TransferClan(t) \/ Clubs!TransferTarget(t)
  PROVE  ClansInv'
<1> DEFINE p == c_task[t]
<1>1. Complete(p) /\ UNCHANGED <<c_clans, c_users, c_nextId>>
  BY DEF ClansInv, Clubs!CreateCurrent, Clubs!CreateTaken, Clubs!DisbandClan, Clubs!DisbandMembers,
     Clubs!LeaveClan, Clubs!LeaveMembers, Clubs!TransferClan, Clubs!TransferTarget, Clubs!Stored
<1>2. ASSUME NEW pc, Clubs!Goto(t, pc), Complete([p EXCEPT !.pc = pc]) PROVE ClansInv'
  <2> DEFINE o == [p EXCEPT !.pc = pc]
  <2>1. c_task' = [c_task EXCEPT ![t] = o] /\ Complete(o)
    BY <1>2 DEF Clubs!Goto, ClansInv
  <2> HIDE DEF o
  <2>2. QED
    BY <1>1, <2>1, CommandReads
<1>3. CASE Clubs!CreateCurrent(t) \/ Clubs!CreateTaken(t)
  <2>1. p \in Creates /\ p.op = "create"
    BY <1>1, <1>3 DEF Clubs!CreateCurrent, Clubs!CreateTaken, Clubs!At, Complete
  <2>2. \A pc \in {"taken", "commit"} : Complete([p EXCEPT !.pc = pc])
    BY <2>1 DEF Complete, Creates
  <2>3. QED
    BY <1>1, <1>2, <1>3, <2>2, CommandEnds DEF Clubs!CreateCurrent, Clubs!CreateTaken
<1>4. CASE Clubs!DisbandClan(t) \/ Clubs!LeaveClan(t) \/ Clubs!TransferClan(t) \/ Clubs!TransferTarget(t)
  <2>1. \/ p \in Disbands /\ p.clan \in Issued /\ Clubs!DisbandClan(t)
        \/ p \in Leaves /\ p.clan \in Issued /\ Clubs!LeaveClan(t)
        \/ p \in Transfers /\ (Clubs!TransferClan(t) \/ Clubs!TransferTarget(t))
    BY <1>1, <1>4 DEF Clubs!DisbandClan, Clubs!LeaveClan, Clubs!TransferClan, Clubs!TransferTarget,
       Clubs!At, Complete, DisbandsNow, LeavesNow
  <2>2. /\ p \in Disbands /\ p.clan \in Issued => Complete([p EXCEPT !.pc = "members"])
        /\ p \in Leaves /\ p.clan \in Issued => Complete([p EXCEPT !.pc = "members"])
        /\ p \in Transfers => /\ Complete([p EXCEPT !.pc = "target"])
                              /\ Complete([p EXCEPT !.pc = "commit"])
    BY DEF Complete, Disbands, Leaves, Transfers
  <2>3. QED
    BY <1>1, <1>2, <2>1, <2>2, CommandEnds DEF Clubs!DisbandClan, Clubs!LeaveClan,
       Clubs!TransferClan, Clubs!TransferTarget
<1>5. CASE Clubs!DisbandMembers(t)
  <2> DEFINE o == [op |-> "disband", pc |-> "commit", clan |-> p.clan, members |-> Within(p.clan)]
  <2>1. p \in Disbands /\ p.clan \in Issued /\ p.clan \in Nat
    BY <1>1, <1>5 DEF Clubs!DisbandMembers, Clubs!At, Complete, Disbands, DisbandsNow
  <2>2. Within(p.clan) \in SUBSET ClanUsers /\ Clubs!fetch_many(p.clan) = Within(p.clan)
    BY DEF Within, Clubs!fetch_many
  <2>3. c_task' = [c_task EXCEPT ![t] = o]
    BY <1>5, <2>2 DEF Clubs!DisbandMembers
  <2>4. Complete(o)
    BY <2>1, <2>2 DEF Complete, DisbandsNow
  <2> HIDE DEF o
  <2>5. QED
    BY <1>1, <2>3, <2>4, CommandReads
<1>6. CASE Clubs!LeaveMembers(t)
  <2> DEFINE o == [op |-> "leave", pc |-> "commit", user |-> p.user, clan |-> p.clan,
                   remaining |-> Within(p.clan) \ {p.user}]
  <2>1. p \in Leaves /\ p.clan \in Issued /\ p.clan \in Nat /\ p.user \in ClanUsers
    BY <1>1, <1>6 DEF Clubs!LeaveMembers, Clubs!At, Complete, Leaves, LeavesNow
  <2>2. Within(p.clan) \in SUBSET ClanUsers /\ Clubs!fetch_many(p.clan) = Within(p.clan)
    BY DEF Within, Clubs!fetch_many
  <2>3. c_task' = [c_task EXCEPT ![t] = o]
    BY <1>6, <2>2 DEF Clubs!LeaveMembers
  <2>4. Complete(o)
    BY <2>1, <2>2 DEF Complete, LeavesNow
  <2> HIDE DEF o
  <2>5. QED
    BY <1>1, <2>3, <2>4, CommandReads
<1>7. QED
  BY <1>3, <1>4, <1>5, <1>6

LEMMA SyncIsComplete ==
  ASSUME NEW o, o.op = "sync" PROVE Complete(o) /\ Complete(o)'
BY DEF Complete

\* A command commits.
LEMMA CommandCommits ==
  ASSUME ClansInv, NEW t \in Tasks,
         \/ Clubs!CreateCommit(t) \/ Clubs!DisbandCommit(t)
         \/ Clubs!LeaveCommit(t) \/ Clubs!TransferCommit(t)
  PROVE  ClansInv'
<1> DEFINE p == c_task[t]
<1>1. Complete(p)
  BY DEF ClansInv
<1>2. CASE Clubs!CreateCommit(t)
  <2>1. p.user \in ClanUsers
    BY <1>1, <1>2 DEF Clubs!CreateCommit, Clubs!At, Complete, Creates
  <2>2. CASE Clubs!Return(t) /\ UNCHANGED Clubs!Stored
    BY <2>2, CommandEnds DEF Clubs!Stored
  <2>3. CASE ~(Clubs!Return(t) /\ UNCHANGED Clubs!Stored)
    <3> DEFINE o == [op |-> "sync", pc |-> "sync", who |-> {p.user},
                     as |-> [x \in {p.user} |-> c_users'[x]]]
    <3>1. /\ DOMAIN c_clans' = DOMAIN c_clans \cup {c_nextId}
          /\ c_users' = [c_users EXCEPT ![p.user] = [clan |-> c_nextId, priv |-> "owner"]]
          /\ c_nextId' = c_nextId + 1
          /\ c_task' = [c_task EXCEPT ![t] = o]
      BY <1>2, <2>3 DEF Clubs!CreateCommit
    <3>2. PICK q : q = o
      OBVIOUS
    <3>3. Complete(q)'
      BY <3>2, SyncIsComplete
    <3>4. ClanRows'
      BY <2>1, <3>1 DEF ClansInv, ClanRows, Issued, Ranks
    <3>5. c_nextId' >= c_nextId /\ \A id \in Issued : Within(id)' \subseteq Within(id)
      BY <2>1, <3>1 DEF ClansInv, ClanRows, Issued, Within
    <3> HIDE DEF o
    <3>6. QED
      BY <3>1, <3>2, <3>3, <3>4, <3>5, CommandGoesOn
  <2>4. QED
    BY <2>2, <2>3
<1>3. CASE Clubs!DisbandCommit(t)
  <2> DEFINE o == [op |-> "sync", pc |-> "sync", who |-> p.members,
                   as |-> [u \in p.members |-> Clubs!NoClan]]
  <2>1. Within(p.clan) \subseteq p.members
    BY <1>1, <1>3 DEF Clubs!DisbandCommit, Clubs!At, Complete
  <2>2. /\ DOMAIN c_clans' = DOMAIN c_clans \ {p.clan}
        /\ c_users' = [u \in ClanUsers |-> IF u \in p.members THEN Clubs!NoClan ELSE c_users[u]]
        /\ c_nextId' = c_nextId
        /\ c_task' = [c_task EXCEPT ![t] = o]
    BY <1>3 DEF Clubs!DisbandCommit
  <2>3. PICK q : q = o
    OBVIOUS
  <2>4. Complete(q)'
    BY <2>3, SyncIsComplete
  <2>5. ClanRows'
    BY <2>1, <2>2 DEF ClansInv, ClanRows, Issued, Ranks, Within, Clubs!NoClan
  <2>6. c_nextId' >= c_nextId /\ \A id \in Issued : Within(id)' \subseteq Within(id)
    BY <2>2 DEF ClansInv, ClanRows, Issued, Within, Clubs!NoClan
  <2> HIDE DEF o
  <2>7. QED
    BY <2>2, <2>3, <2>4, <2>5, <2>6, CommandGoesOn
<1>4. CASE Clubs!LeaveCommit(t)
  <2> DEFINE o == [op |-> "sync", pc |-> "sync", who |-> {p.user},
                   as |-> [x \in {p.user} |-> Clubs!NoClan]]
  <2>1. Within(p.clan) \subseteq p.remaining \cup {p.user} /\ p.user \in ClanUsers
    BY <1>1, <1>4 DEF Clubs!LeaveCommit, Clubs!At, Complete, Leaves, LeavesNow
  <2>2. /\ c_users' = [c_users EXCEPT ![p.user] = Clubs!NoClan]
        /\ \/ c_clans' = c_clans
           \/ p.remaining = {} /\ DOMAIN c_clans' = DOMAIN c_clans \ {p.clan}
        /\ c_nextId' = c_nextId
        /\ c_task' = [c_task EXCEPT ![t] = o]
    BY <1>4 DEF Clubs!LeaveCommit
  <2>3. PICK q : q = o
    OBVIOUS
  <2>4. Complete(q)'
    BY <2>3, SyncIsComplete
  <2>5. ClanRows'
    BY <2>1, <2>2 DEF ClansInv, ClanRows, Issued, Ranks, Within, Clubs!NoClan
  <2>6. c_nextId' >= c_nextId /\ \A id \in Issued : Within(id)' \subseteq Within(id)
    BY <2>1, <2>2 DEF ClansInv, ClanRows, Issued, Within, Clubs!NoClan
  <2> HIDE DEF o
  <2>7. QED
    BY <2>2, <2>3, <2>4, <2>5, <2>6, CommandGoesOn
<1>5. CASE Clubs!TransferCommit(t)
  <2>1. p.user \in ClanUsers /\ p.target \in ClanUsers
    BY <1>1, <1>5 DEF Clubs!TransferCommit, Clubs!At, Complete, Transfers
  <2>2. CASE Clubs!Return(t) /\ UNCHANGED Clubs!Stored
    BY <2>2, CommandEnds DEF Clubs!Stored
  <2>3. CASE ~(Clubs!Return(t) /\ UNCHANGED Clubs!Stored)
    <3> DEFINE o == [op |-> "sync", pc |-> "sync", who |-> {p.user, p.target},
                     as |-> [x \in {p.user, p.target} |->
                               [clan |-> p.clan, priv |-> IF x = p.target THEN "owner" ELSE "officer"]]]
    <3>1. /\ c_users' = [c_users EXCEPT ![p.target].priv = "owner", ![p.user].priv = "officer"]
          /\ DOMAIN c_clans' = DOMAIN c_clans /\ c_nextId' = c_nextId
          /\ c_task' = [c_task EXCEPT ![t] = o]
      BY <1>5, <2>3 DEF Clubs!TransferCommit
    <3>2. \A u \in ClanUsers : /\ c_users'[u].clan = c_users[u].clan
                               /\ c_users'[u] \in [clan : Nat, priv : Ranks]
                               /\ c_users[u].priv # "none" => c_users'[u].priv # "none"
      BY <2>1, <3>1 DEF ClansInv, ClanRows, Ranks
    <3>3. c_users' \in [ClanUsers -> [clan : Nat, priv : Ranks]]
      BY <2>1, <3>1, <3>2 DEF ClansInv, ClanRows
    <3>4. PICK q : q = o
      OBVIOUS
    <3>5. Complete(q)'
      BY <3>4, SyncIsComplete
    <3>6. ClanRows'
      BY <3>1, <3>2, <3>3 DEF ClansInv, ClanRows, Issued
    <3>7. c_nextId' >= c_nextId /\ \A id \in Issued : Within(id)' \subseteq Within(id)
      BY <3>1, <3>2 DEF ClansInv, ClanRows, Within
    <3> HIDE DEF o
    <3>8. QED
      BY <3>1, <3>4, <3>5, <3>6, <3>7, CommandGoesOn
  <2>4. QED
    BY <2>2, <2>3
<1>6. QED
  BY <1>2, <1>3, <1>4, <1>5

LEMMA ClansKept ==
  ASSUME ClansInv, Clubs!Next
  PROVE  ClansInv'
<1>1. ASSUME NEW t \in Tasks, Clubs!Sync(t) \/ Clubs!LoginList(t) \/ Clubs!QueryFails(t)
      PROVE  ClansInv'
  BY <1>1, CommandEnds DEF Clubs!Sync, Clubs!LoginList, Clubs!QueryFails, Clubs!Stored
<1>2. ASSUME NEW t \in Tasks, Clubs!Step(t) PROVE ClansInv'
  BY <1>1, <1>2, CommandAsks, CommandCommits DEF Clubs!Step
<1>3. ASSUME NEW u \in ClanUsers, Clubs!Logout(u) PROVE ClansInv'
  BY <1>3 DEF Clubs!Logout, Clubs!Stored, ClansInv, ClanRows, Complete, Issued, Within
<1>4. QED
  BY <1>2, <1>3, CommandBegins DEF Clubs!Next

\* A player's row names a clan there is, and a member of a clan has a rank, so
\* that !clan info shows the stored one (create_clan, disband_clan, leave_clan,
\* transfer_clan_ownership), for any number of commands under way.
THEOREM MembersInClans == AllSpec => []MembersHaveTheirClan
<1> DEFINE I == service = "clans" => ClansInv
<1>1. AllInit => I
  <2>1. Clubs!Init => ClansInv
    <3> SUFFICES ASSUME Clubs!Init PROVE ClansInv
      OBVIOUS
    <3>1. \A t \in Tasks : Complete(c_task[t])
      BY IdleIsComplete DEF Clubs!Init
    <3>2. ClanRows
      BY DEF Clubs!Init, ClanRows, Issued, Ranks, Clubs!NoClan
    <3>3. QED
      BY <3>1, <3>2 DEF Clubs!Init, ClansInv
  <2> HIDE DEF ClansInv
  <2>2. QED
    BY <2>1 DEF AllInit
<1>2. I /\ [AllNext]_allvars => I'
  <2>1. ClansInv /\ UNCHANGED c_vars => ClansInv'
    BY DEF c_vars, ClansInv, ClanRows, Complete, Issued, Within
  <2>2. QED
    BY <2>1, ClansKept DEF AllNext, allvars
<1>3. I => MembersHaveTheirClan
  <2> SUFFICES ASSUME ClansInv PROVE Clubs!MembersHaveTheirClan
    BY DEF MembersHaveTheirClan
  <2>1. \A u \in ClanUsers : c_users[u].clan # 0 => Clubs!fetch_one(c_users[u].clan)
    BY DEF ClansInv, ClanRows, Clubs!fetch_one
  <2>2. ASSUME NEW c \in DOMAIN c_clans, NEW viewer \in ClanUsers,
               NEW shown \in Clubs!clan_info(viewer, c)
        PROVE  c_users[shown[1]].priv = shown[2]
    <3>1. PICK u \in ClanUsers : c_users[u].clan = c /\ shown = <<u, Clubs!priv_str(c_users[u].priv)>>
      BY DEF Clubs!clan_info, Clubs!fetch_many
    <3>2. c # 0
      BY DEF ClansInv, ClanRows, Issued
    <3>3. QED
      BY <3>1, <3>2 DEF ClansInv, ClanRows, Clubs!priv_str
  <2>3. QED
    BY <2>1, <2>2 DEF Clubs!MembersHaveTheirClan
<1>4. QED
  BY <1>1, <1>2, <1>3, PTL DEF AllSpec

-----------------------------------------------------------------------------
(* Accounts.                                                               *)

Registrations ==
  [op : {"register"}, pc : {"name", "email"}, name : Names, email : Emails,
   password : Passwords, create : BOOLEAN, errors : BOOLEAN]
Creations == [op : {"register"}, pc : {"create"}, name : Names, email : Emails, hash : Nat]
Checks ==
  [op : {"web", "game", "change"}, pc : {"hash", "check", "admitted", "refused"},
   name : Names, password : Passwords, new : Passwords, hash : Nat,
   right : BOOLEAN, wrong : BOOLEAN]
Changes == [op : {"change"}, pc : {"old"}, name : Names, hash : Nat]
Updates == [op : {"change"}, pc : {"update", "cache"}, name : Names, hash : Nat, old : Nat]

\* Hashes are numbered in the order they are made.
Hashes == 1..Len(a_secret)

\* What a request relies on, and what has been noted of the password it brought.
Sound(o) ==
  /\ o.pc \in {"create", "check", "old", "update", "cache"} => o.hash \in Hashes
  /\ o.pc \in {"check", "admitted", "old", "update", "cache"} => o.name \in DOMAIN a_users
  /\ o.pc = "hash" => IF Logins!IsPassword(a_users, o.name, o.password) THEN o.right ELSE o.wrong
  /\ o.pc = "check" => IF a_secret[o.hash] = o.password THEN o.right ELSE o.wrong
  /\ o.pc = "admitted" => o.right
  /\ o.pc = "refused" => o.wrong

Requested ==
  {Logins!Idle} \cup Registrations \cup Creations \cup Checks \cup Changes \cup Updates

RowsTyped ==
  /\ a_secret \in Seq(Passwords)
  /\ \A n \in DOMAIN a_users : n \in Names /\ a_users[n] \in [email : Emails, hash : Hashes]
  /\ a_game \in [Names -> Hashes \cup {0}]

\* The cache gives the password a hash was made from.
CacheIsTrue == \A h \in DOMAIN a_cache : h \in Hashes /\ a_cache[h] = a_secret[h]

TasksSound ==
  /\ a_task \in [Tasks -> Requested]
  /\ \A t \in Tasks : Sound(a_task[t])

AccountsInv == RowsTyped /\ CacheIsTrue /\ TasksSound /\ Logins!AccountsAreWhole

\* One request goes on, or a hash is made for it; no account changes.
LEMMA RequestGoesOn ==
  ASSUME AccountsInv, NEW t \in Tasks, NEW o \in Requested,
         a_task' = [a_task EXCEPT ![t] = o], Sound(o)',
         a_secret' = a_secret \/ (\E p \in Passwords : a_secret' = Append(a_secret, p)),
         a_users' = a_users
  PROVE  TasksSound'
<1>0. Hashes \subseteq Hashes' /\ \A h \in Hashes : a_secret'[h] = a_secret[h]
  BY DEF Hashes, AccountsInv, RowsTyped
<1>1. \A u \in Tasks : u # t => a_task'[u] = a_task[u]
  BY DEF AccountsInv, TasksSound
<1>2. ASSUME NEW u \in Tasks, u # t PROVE Sound(a_task[u])'
  <2> DEFINE p == a_task[u]
  <2>1. Sound(p) /\ a_task'[u] = p
    BY <1>1, <1>2 DEF AccountsInv, TasksSound
  <2>2. \A name, password : Logins!IsPassword(a_users, name, password)' <=>
                              Logins!IsPassword(a_users, name, password)
    BY <1>0 DEF AccountsInv, RowsTyped, Logins!IsPassword, Logins!Has
  <2>3. QED
    BY <1>0, <2>1, <2>2 DEF Sound
<1>3. a_task'[t] = o
  BY DEF AccountsInv, TasksSound
<1>4. QED
  BY <1>2, <1>3 DEF AccountsInv, TasksSound

-----------------------------------------------------------------------------
\* A change of accounts that keeps the ones there are: what the checks under
\* way know of passwords is noted for them.
LEMMA RowsChange ==
  ASSUME AccountsInv, NEW t \in Tasks, NEW o \in Requested,
         a_task[t].pc \in {"create", "update"},
         a_task' = Logins!Noted(a_users', [a_task EXCEPT ![t] = o]), Sound(o)',
         a_secret' = a_secret, DOMAIN a_users \subseteq DOMAIN a_users'
  PROVE  TasksSound'
<1>1. a_task'[t] = o
  BY DEF AccountsInv, TasksSound, Logins!Noted, Logins!Checking
<1>2. ASSUME NEW u \in Tasks, u # t PROVE (a_task[u] \in Requested /\ Sound(a_task[u]))'
  <2> DEFINE p == a_task[u]
  <2>1. p \in Requested /\ Sound(p)
    BY DEF AccountsInv, TasksSound
  <2>2. CASE ~Logins!Checking(u)
    <3>0. a_task'[u] = [a_task EXCEPT ![t] = o][u]
      BY <2>2 DEF Logins!Noted
    <3>1. a_task'[u] = p /\ p.pc # "hash" /\ p.pc # "check"
      BY <3>0, <1>2, <2>1, <2>2 DEF AccountsInv, TasksSound, Logins!Checking, Requested,
         Logins!Idle, Registrations, Creations, Checks, Changes, Updates
    <3>2. QED
      BY <2>1, <3>1 DEF Sound, Hashes
  <2>3. CASE Logins!Checking(u)
    <3> DEFINE is == Logins!IsPassword(a_users', p.name, p.password)
    <3>1. p \in Checks /\ p.pc \in {"hash", "check"}
      BY <2>1, <2>3 DEF Logins!Checking, Requested, Logins!Idle, Registrations, Creations,
         Checks, Changes, Updates
    <3>2. a_task'[u] = [p EXCEPT !.right = p.right \/ is, !.wrong = p.wrong \/ ~is]
      BY <1>2, <2>3 DEF AccountsInv, TasksSound, Logins!Noted, Logins!WithNote, Logins!Checking,
         Logins!IsPassword
    <3>3. is \in BOOLEAN
      BY DEF Logins!IsPassword, Logins!Has
    <3> HIDE DEF is
    <3>4. a_task'[u] \in Checks
      BY <3>1, <3>2, <3>3 DEF Checks
    <3>5. /\ a_task'[u].pc = p.pc /\ a_task'[u].hash = p.hash
          /\ a_task'[u].name = p.name /\ a_task'[u].password = p.password
          /\ a_task'[u].right = (p.right \/ is) /\ a_task'[u].wrong = (p.wrong \/ ~is)
      BY <3>1, <3>2 DEF Checks
    <3>6. Logins!IsPassword(a_users, a_task[u].name, a_task[u].password)' <=> is
      BY <3>5 DEF is, Logins!IsPassword, Logins!Has
    <3>7. Sound(a_task[u])'
      BY <2>1, <3>1, <3>5, <3>6 DEF Sound, Hashes
    <3>8. QED
      BY <3>4, <3>7 DEF Requested
  <2>4. QED
    BY <2>2, <2>3
<1>3. \A u \in Tasks : (a_task[u] \in Requested /\ Sound(a_task[u]))'
  BY <1>1, <1>2
<1>4. a_task' \in [Tasks -> Requested]
  <2> DEFINE f(u) == a_task'[u]
  <2>1. a_task' = [u \in Tasks |-> f(u)]
    BY DEF Logins!Noted
  <2>2. \A u \in Tasks : f(u) \in Requested
    BY <1>3
  <2> HIDE DEF f
  <2>3. QED
    BY <2>1, <2>2
<1>5. QED
  BY <1>3, <1>4 DEF TasksSound


\* A request begins: what it brings is looked at against the accounts there are.
LEMMA BeginSound ==
  ASSUME AccountsInv, NEW t \in Tasks, NEW o \in Registrations \cup Checks,
         Logins!Begin(t, o),
         o \in Checks => /\ o.pc = "hash"
                         /\ o.right = Logins!IsPassword(a_users, o.name, o.password)
                         /\ o.wrong = ~Logins!IsPassword(a_users, o.name, o.password)
  PROVE  AccountsInv'
<1>1. /\ a_task' = [a_task EXCEPT ![t] = o]
      /\ UNCHANGED <<a_users, a_stats, a_cache, a_game, a_secret>>
  BY DEF Logins!Begin, Logins!stored, Logins!memory
<1>2. Sound(o)
  BY DEF Sound, Registrations, Checks
<1>3. Sound(o)'
  BY <1>1, <1>2 DEF Sound, Hashes, Logins!IsPassword, Logins!Has
<1>4. TasksSound'
  BY <1>1, <1>3, RequestGoesOn DEF Requested
<1>5. QED
  BY <1>1, <1>4 DEF AccountsInv, RowsTyped, CacheIsTrue, Logins!AccountsAreWhole, Hashes

\* A request goes on and nothing else changes but the cache, rightly.
LEMMA StepSound ==
  ASSUME AccountsInv, NEW t \in Tasks, NEW o \in Requested,
         a_task' = [a_task EXCEPT ![t] = o], Sound(o),
         a_game' \in [Names -> Hashes \cup {0}], CacheIsTrue',
         UNCHANGED <<a_users, a_stats, a_secret>>
  PROVE  AccountsInv'
<1>1. Sound(o)'
  BY DEF Sound, Hashes, Logins!IsPassword, Logins!Has
<1>2. TasksSound'
  BY <1>1, RequestGoesOn
<1>3. QED
  BY <1>2 DEF AccountsInv, RowsTyped, Logins!AccountsAreWhole, Hashes

\* A request makes a hash.
LEMMA HashMade ==
  ASSUME AccountsInv, NEW t \in Tasks, NEW o \in Requested, NEW p \in Passwords,
         a_task' = [a_task EXCEPT ![t] = o], Sound(o)',
         a_secret' = Append(a_secret, p),
         a_cache' = a_cache \/ a_cache' = Logins!With(a_cache, Len(a_secret) + 1, p),
         UNCHANGED <<a_users, a_stats, a_game>>
  PROVE  AccountsInv'
<1>1. TasksSound'
  BY RequestGoesOn
<1>2. /\ a_secret' \in Seq(Passwords) /\ Hashes \subseteq Hashes'
      /\ Len(a_secret) + 1 \in Hashes' /\ a_secret'[Len(a_secret) + 1] = p
      /\ \A h \in Hashes : a_secret'[h] = a_secret[h]
  BY DEF AccountsInv, RowsTyped, Hashes
<1>3. RowsTyped'
  BY <1>2 DEF AccountsInv, RowsTyped
<1>4. CacheIsTrue'
  BY <1>2 DEF AccountsInv, CacheIsTrue, Logins!With
<1>5. QED
  BY <1>1, <1>3, <1>4 DEF AccountsInv, Logins!AccountsAreWhole

\* An answer ends a request without a trace.
LEMMA ReturnSound ==
  ASSUME AccountsInv, NEW t \in Tasks, Logins!Return(t),
         UNCHANGED <<a_users, a_stats, a_cache, a_game, a_secret>>
  PROVE  AccountsInv'
<1>1. Logins!Idle \in Requested /\ Sound(Logins!Idle)
  BY DEF Requested, Sound, Logins!Idle
<1>2. a_game' \in [Names -> Hashes \cup {0}] /\ CacheIsTrue'
  BY DEF AccountsInv, RowsTyped, CacheIsTrue, Hashes
<1>3. QED
  BY <1>1, <1>2, StepSound DEF Logins!Return

LEMMA RegistrationSound ==
  ASSUME AccountsInv, NEW t \in Tasks,
         Logins!ValidateName(t) \/ Logins!ValidateEmail(t) \/ Logins!CreateAccount(t)
  PROVE  AccountsInv'
<1> DEFINE p == a_task[t]
<1>1. p \in Requested /\ Sound(p)
  BY DEF AccountsInv, TasksSound
<1>2. CASE Logins!ValidateName(t)
  <2> DEFINE taken == Logins!Has(a_users, p.name)
             o == [p EXCEPT !.pc = "email", !.errors = taken]
  <2>1. p \in Registrations
    BY <1>1, <1>2 DEF Logins!ValidateName, Logins!At, Requested, Logins!Idle, Creations, Checks,
       Changes, Updates
  <2>2. /\ a_task' = [a_task EXCEPT ![t] = o]
        /\ UNCHANGED <<a_users, a_stats, a_cache, a_game, a_secret>>
    BY <1>2 DEF Logins!ValidateName, Logins!stored, Logins!memory, AccountsInv, TasksSound
  <2>3. taken \in BOOLEAN
    BY DEF Logins!Has
  <2> HIDE DEF taken
  <2>4. o \in Registrations /\ o.pc = "email"
    BY <2>1, <2>3 DEF Registrations
  <2>5. Sound(o) /\ o \in Requested
    BY <2>4 DEF Sound, Requested
  <2>6. a_game' \in [Names -> Hashes \cup {0}] /\ CacheIsTrue'
    BY <2>2 DEF AccountsInv, RowsTyped, CacheIsTrue, Hashes
  <2> HIDE DEF o
  <2>7. QED
    BY <2>2, <2>5, <2>6, StepSound
<1>3. CASE Logins!ValidateEmail(t)
  <2>1. /\ p \in Registrations
        /\ UNCHANGED <<a_users, a_stats, a_game>>
    BY <1>1, <1>3 DEF Logins!ValidateEmail, Logins!At, Logins!stored, Requested, Logins!Idle,
       Creations, Checks, Changes, Updates
  <2> DEFINE h == Len(a_secret) + 1
             o == [op |-> "register", pc |-> "create", name |-> p.name, email |-> p.email, hash |-> h]
  <2>2. \/ Logins!Return(t) /\ UNCHANGED <<a_cache, a_secret>>
        \/ /\ a_task' = [a_task EXCEPT ![t] = o]
           /\ a_secret' = Append(a_secret, p.password)
           /\ a_cache' = Logins!With(a_cache, h, p.password)
    BY <1>3 DEF Logins!ValidateEmail, Logins!NewHash
  <2>3. p.password \in Passwords /\ p.name \in Names /\ p.email \in Emails
    BY <2>1 DEF Registrations
  <2>4. h \in Nat
    BY DEF AccountsInv, RowsTyped
  <2> HIDE DEF h
  <2>5. o \in Creations /\ o \in Requested
    BY <2>3, <2>4 DEF Creations, Requested
  <2>6. PICK q \in Creations : q = o /\ q \in Requested
    BY <2>5
  <2>7. CASE a_secret' = Append(a_secret, p.password)
    <3>1. q.hash \in Hashes' /\ q.pc = "create"
      BY <2>6, <2>7 DEF AccountsInv, RowsTyped, Hashes, h
    <3>2. Sound(q)'
      BY <3>1 DEF Sound
    <3> HIDE DEF o
    <3>3. QED
      BY <2>1, <2>2, <2>3, <2>6, <3>2, HashMade, ReturnSound DEF h
  <2>8. QED
    BY <2>1, <2>2, <2>7, ReturnSound
<1>4. CASE Logins!CreateAccount(t)
  <2>1. p \in Creations /\ p.hash \in Hashes
    BY <1>1, <1>4 DEF Logins!CreateAccount, Logins!At, Requested, Logins!Idle, Registrations,
       Checks, Changes, Updates, Sound
  <2>2. /\ a_task' = Logins!Noted(a_users', [a_task EXCEPT ![t] = Logins!Idle])
        /\ UNCHANGED <<a_cache, a_game, a_secret>>
        /\ a_task[t].pc = "create"
    BY <1>4 DEF Logins!CreateAccount, Logins!At, Logins!memory
  <2>3. Logins!Idle \in Requested /\ Sound(Logins!Idle)'
    BY DEF Requested, Sound, Logins!Idle
  <2>4. \/ UNCHANGED <<a_users, a_stats>>
        \/ /\ p.name \notin DOMAIN a_users
           /\ \A n \in DOMAIN a_users : a_users[n].email # p.email
           /\ DOMAIN a_users' = DOMAIN a_users \cup {p.name}
           /\ a_users'[p.name] = [email |-> p.email, hash |-> p.hash]
           /\ \A n \in DOMAIN a_users : a_users'[n] = a_users[n]
           /\ a_stats' = a_stats \cup {p.name}
    BY <1>4 DEF Logins!CreateAccount, Logins!Has, Logins!With
  <2>5. TasksSound'
    <3>1. DOMAIN a_users \subseteq DOMAIN a_users'
      BY <2>4
    <3>2. QED
      BY <2>2, <2>3, <3>1, RowsChange
  <2>6. RowsTyped' /\ CacheIsTrue'
    BY <2>1, <2>2, <2>4 DEF AccountsInv, RowsTyped, CacheIsTrue, Hashes, Creations
  <2>7. Logins!AccountsAreWhole'
    BY <2>1, <2>4 DEF AccountsInv, Logins!AccountsAreWhole, Creations
  <2>8. QED
    BY <2>5, <2>6, <2>7 DEF AccountsInv
<1>5. QED
  BY <1>2, <1>3, <1>4

\* What a check does: hashes are read, compared and refused or admitted.
LEMMA CheckSound ==
  ASSUME AccountsInv, NEW t \in Tasks,
         \/ Logins!fetch_password_hash(t) \/ Logins!CheckPassword(t) \/ Logins!Refuse(t)
         \/ Logins!LoginWeb(t) \/ Logins!LoginGame(t)
  PROVE  AccountsInv'
<1> DEFINE p == a_task[t]
<1>1. p \in Requested /\ Sound(p)
  BY DEF AccountsInv, TasksSound
<1>2. CASE Logins!fetch_password_hash(t)
  <2>1. /\ p \in Checks /\ p.pc = "hash"
        /\ UNCHANGED <<a_users, a_stats, a_cache, a_game, a_secret>>
    BY <1>1, <1>2 DEF Logins!fetch_password_hash, Logins!At, Logins!stored, Logins!memory,
       Requested, Logins!Idle, Registrations, Creations, Changes, Updates
  <2> DEFINE h == a_users[p.name].hash
  <2>2. CASE Logins!Has(a_users, p.name)
    <3> DEFINE o == [p EXCEPT !.pc = "check", !.hash = h]
    <3>1. a_task' = [a_task EXCEPT ![t] = o]
      BY <1>2, <2>2 DEF Logins!fetch_password_hash, AccountsInv, TasksSound
    <3>2. h \in Hashes /\ h \in Nat /\ p.name \in DOMAIN a_users
      BY <2>2 DEF AccountsInv, RowsTyped, Logins!Has, Hashes
    <3>3. IF a_secret[h] = p.password THEN p.right ELSE p.wrong
      BY <1>1, <2>1, <2>2 DEF Sound, Logins!IsPassword
    <3> HIDE DEF h
    <3>4. /\ o \in Checks /\ o.pc = "check" /\ o.hash = h /\ o.name = p.name
          /\ o.password = p.password /\ o.right = p.right /\ o.wrong = p.wrong
      BY <2>1, <3>2 DEF Checks
    <3> HIDE DEF o
    <3>5. Sound(o) /\ o \in Requested
      BY <3>2, <3>3, <3>4 DEF Sound, Requested
    <3>6. a_game' \in [Names -> Hashes \cup {0}] /\ CacheIsTrue'
      BY <2>1 DEF AccountsInv, RowsTyped, CacheIsTrue, Hashes
    <3>7. QED
      BY <2>1, <3>1, <3>5, <3>6, StepSound
  <2>3. CASE ~Logins!Has(a_users, p.name)
    <3> DEFINE o == [p EXCEPT !.pc = "refused"]
    <3>1. a_task' = [a_task EXCEPT ![t] = o]
      BY <1>2, <2>3 DEF Logins!fetch_password_hash, Logins!Goto, AccountsInv, TasksSound
    <3>2. p.wrong
      BY <1>1, <2>1, <2>3 DEF Sound, Logins!IsPassword
    <3>3. o \in Checks /\ o.pc = "refused" /\ o.wrong = p.wrong
      BY <2>1 DEF Checks
    <3> HIDE DEF o
    <3>4. Sound(o) /\ o \in Requested
      BY <3>2, <3>3 DEF Sound, Requested
    <3>5. a_game' \in [Names -> Hashes \cup {0}] /\ CacheIsTrue'
      BY <2>1 DEF AccountsInv, RowsTyped, CacheIsTrue, Hashes
    <3>6. QED
      BY <2>1, <3>1, <3>4, <3>5, StepSound
  <2>4. QED
    BY <2>2, <2>3
<1>3. CASE Logins!CheckPassword(t)
  <2>1. /\ p \in Checks /\ p.pc = "check"
        /\ UNCHANGED <<a_users, a_stats, a_game, a_secret>>
    BY <1>1, <1>3 DEF Logins!CheckPassword, Logins!At, Logins!stored,
       Requested, Logins!Idle, Registrations, Creations, Changes, Updates
  <2> DEFINE matches == a_secret[p.hash] = p.password
  <2>2. /\ p.hash \in Hashes /\ p.name \in DOMAIN a_users
        /\ IF matches THEN p.right ELSE p.wrong
    BY <1>1, <2>1 DEF Sound
  <2>3. Logins!Has(a_cache, p.hash) => a_cache[p.hash] = a_secret[p.hash]
    BY DEF AccountsInv, CacheIsTrue, Logins!Has
  <2>4. /\ a_cache' = IF matches THEN Logins!With(a_cache, p.hash, p.password) ELSE a_cache
        /\ a_task' = [a_task EXCEPT ![t] = [p EXCEPT !.pc = IF matches THEN "admitted" ELSE "refused"]]
    BY <1>3, <2>3 DEF Logins!CheckPassword, Logins!Goto, AccountsInv, TasksSound
  <2>5. CacheIsTrue'
    BY <2>1, <2>2, <2>4 DEF AccountsInv, CacheIsTrue, Logins!With, Hashes
  <2> DEFINE o == [p EXCEPT !.pc = IF matches THEN "admitted" ELSE "refused"]
  <2>6. /\ o \in Checks /\ o.pc = (IF matches THEN "admitted" ELSE "refused")
        /\ o.name = p.name /\ o.right = p.right /\ o.wrong = p.wrong
    <3> HIDE DEF matches
    <3>1. QED
      BY <2>1 DEF Checks
  <2> HIDE DEF o, matches
  <2>7. Sound(o) /\ o \in Requested
    BY <2>2, <2>6 DEF Sound, Requested
  <2>8. a_game' \in [Names -> Hashes \cup {0}]
    BY <2>1 DEF AccountsInv, RowsTyped
  <2>9. QED
    BY <2>1, <2>4, <2>5, <2>7, <2>8, StepSound DEF o
<1>4. CASE Logins!Refuse(t) \/ Logins!LoginWeb(t)
  BY <1>4, ReturnSound DEF Logins!Refuse, Logins!LoginWeb, Logins!stored, Logins!memory
<1>5. CASE Logins!LoginGame(t)
  <2>1. /\ p \in Checks /\ p.name \in DOMAIN a_users
        /\ a_game' = [a_game EXCEPT ![p.name] = a_users[p.name].hash]
        /\ a_task' = [a_task EXCEPT ![t] = Logins!Idle]
        /\ UNCHANGED <<a_users, a_stats, a_cache, a_secret>>
    BY <1>1, <1>5 DEF Logins!LoginGame, Logins!At, Logins!stored, Logins!Return, Sound,
       Requested, Logins!Idle, Registrations, Creations, Changes, Updates
  <2>2. a_users[p.name].hash \in Hashes
    BY <2>1 DEF AccountsInv, RowsTyped
  <2>3. a_game' \in [Names -> Hashes \cup {0}]
    BY <2>1, <2>2 DEF AccountsInv, RowsTyped
  <2>4. Logins!Idle \in Requested /\ Sound(Logins!Idle)
    BY DEF Requested, Sound, Logins!Idle
  <2>5. CacheIsTrue'
    BY <2>1 DEF AccountsInv, CacheIsTrue, Hashes
  <2>6. QED
    BY <2>1, <2>3, <2>4, <2>5, StepSound
<1>6. QED
  BY <1>2, <1>3, <1>4, <1>5

\* A changed password: the new hash is in the row before the old one is evicted.
LEMMA ChangeSound ==
  ASSUME AccountsInv, NEW t \in Tasks,
         \/ Logins!ValidatePassword(t) \/ Logins!ReadOldHash(t)
         \/ Logins!UpdateHash(t) \/ Logins!EvictHash(t)
  PROVE  AccountsInv'
<1> DEFINE p == a_task[t]
<1>1. p \in Requested /\ Sound(p)
  BY DEF AccountsInv, TasksSound
<1>2. CASE Logins!ValidatePassword(t)
  <2>1. /\ p \in Checks /\ p.name \in DOMAIN a_users
        /\ UNCHANGED <<a_users, a_stats, a_cache, a_game>>
    BY <1>1, <1>2 DEF Logins!ValidatePassword, Logins!At, Logins!stored, Logins!memory, Sound,
       Requested, Logins!Idle, Registrations, Creations, Changes, Updates
  <2> DEFINE h == Len(a_secret) + 1
             o == [op |-> "change", pc |-> "old", name |-> p.name, hash |-> h]
  <2>2. \/ Logins!Return(t) /\ UNCHANGED a_secret
        \/ a_task' = [a_task EXCEPT ![t] = o] /\ a_secret' = Append(a_secret, p.new)
    BY <1>2 DEF Logins!ValidatePassword, Logins!NewHash
  <2>3. p.new \in Passwords /\ p.name \in Names
    BY <2>1 DEF Checks
  <2>4. h \in Nat
    BY DEF AccountsInv, RowsTyped
  <2> HIDE DEF h
  <2>5. o \in Changes /\ o \in Requested /\ o.hash = h /\ o.name = p.name
    BY <2>3, <2>4 DEF Changes, Requested
  <2>6. PICK q \in Changes : q = o /\ q \in Requested /\ q.name \in DOMAIN a_users
    BY <2>1, <2>5
  <2>7. CASE a_secret' = Append(a_secret, p.new)
    <3>1. q.hash \in Hashes' /\ q.pc = "old" /\ q.name \in DOMAIN a_users'
      BY <2>1, <2>6, <2>7 DEF AccountsInv, RowsTyped, Hashes, h
    <3>2. Sound(q)'
      BY <3>1 DEF Sound
    <3> HIDE DEF o
    <3>3. QED
      BY <2>1, <2>2, <2>3, <2>6, <3>2, HashMade, ReturnSound DEF h
  <2>8. QED
    BY <2>1, <2>2, <2>7, ReturnSound
<1>3. CASE Logins!ReadOldHash(t)
  <2>1. /\ p \in Changes /\ p.hash \in Hashes /\ p.name \in DOMAIN a_users
        /\ UNCHANGED <<a_users, a_stats, a_cache, a_game, a_secret>>
    BY <1>1, <1>3 DEF Logins!ReadOldHash, Logins!At, Logins!stored, Logins!memory, Sound,
       Requested, Logins!Idle, Registrations, Creations, Checks, Updates
  <2> DEFINE h == a_users[p.name].hash
             o == [op |-> "change", pc |-> "update", name |-> p.name, hash |-> p.hash, old |-> h]
  <2>2. a_task' = [a_task EXCEPT ![t] = o]
    BY <1>3 DEF Logins!ReadOldHash
  <2>3. h \in Nat /\ p.name \in Names /\ p.hash \in Nat
    BY <2>1 DEF AccountsInv, RowsTyped, Hashes, Changes
  <2> HIDE DEF h
  <2>4. o \in Updates /\ o.pc = "update" /\ o.hash = p.hash /\ o.name = p.name
    BY <2>3 DEF Updates
  <2> HIDE DEF o
  <2>5. Sound(o) /\ o \in Requested
    BY <2>1, <2>4 DEF Sound, Requested
  <2>6. a_game' \in [Names -> Hashes \cup {0}] /\ CacheIsTrue'
    BY <2>1 DEF AccountsInv, RowsTyped, CacheIsTrue, Hashes
  <2>7. QED
    BY <2>1, <2>2, <2>5, <2>6, StepSound
<1>4. CASE Logins!UpdateHash(t)
  <2>1. /\ p \in Updates /\ p.pc = "update" /\ p.hash \in Hashes /\ p.name \in DOMAIN a_users
        /\ UNCHANGED <<a_stats, a_cache, a_game, a_secret>>
        /\ a_users' = [a_users EXCEPT ![p.name].hash = p.hash]
    BY <1>1, <1>4 DEF Logins!UpdateHash, Logins!At, Logins!memory, Sound,
       Requested, Logins!Idle, Registrations, Creations, Checks, Changes
  <2> DEFINE o == [p EXCEPT !.pc = "cache"]
  <2>2. a_task' = Logins!Noted(a_users', [a_task EXCEPT ![t] = o])
    BY <1>4 DEF Logins!UpdateHash, AccountsInv, TasksSound
  <2>3. /\ DOMAIN a_users' = DOMAIN a_users
        /\ \A n \in DOMAIN a_users : /\ a_users'[n] \in [email : Emails, hash : Hashes]
                                     /\ a_users'[n].email = a_users[n].email
    BY <2>1 DEF AccountsInv, RowsTyped
  <2>4. o \in Updates /\ o.pc = "cache" /\ o.hash = p.hash /\ o.name = p.name
    BY <2>1 DEF Updates
  <2>5. PICK q \in Requested : q = o /\ q.hash \in Hashes /\ q.name \in DOMAIN a_users /\ q.pc = "cache"
    BY <2>1, <2>4 DEF Requested
  <2>6. Sound(q)'
    BY <2>1, <2>3, <2>5 DEF Sound, Hashes
  <2>7. TasksSound'
    BY <2>1, <2>2, <2>3, <2>5, <2>6, RowsChange
  <2>8. RowsTyped' /\ CacheIsTrue' /\ Logins!AccountsAreWhole'
    BY <2>1, <2>3 DEF AccountsInv, RowsTyped, CacheIsTrue, Logins!AccountsAreWhole, Hashes
  <2>9. QED
    BY <2>7, <2>8 DEF AccountsInv
<1>5. CASE Logins!EvictHash(t)
  <2>1. /\ p.hash \in Hashes
        /\ a_cache' = Logins!With(Logins!Without(a_cache, p.old), p.hash, a_secret[p.hash])
        /\ a_task' = [a_task EXCEPT ![t] = Logins!Idle]
        /\ UNCHANGED <<a_users, a_stats, a_game, a_secret>>
    BY <1>1, <1>5 DEF Logins!EvictHash, Logins!At, Logins!stored, Logins!Return, Sound
  <2>2. CacheIsTrue'
    BY <2>1 DEF AccountsInv, CacheIsTrue, Logins!With, Logins!Without, Hashes
  <2>3. Logins!Idle \in Requested /\ Sound(Logins!Idle)
    BY DEF Requested, Sound, Logins!Idle
  <2>4. a_game' \in [Names -> Hashes \cup {0}]
    BY <2>1 DEF AccountsInv, RowsTyped
  <2>5. QED
    BY <2>1, <2>2, <2>3, <2>4, StepSound
<1>6. QED
  BY <1>2, <1>3, <1>4, <1>5

LEMMA AccountsKept ==
  ASSUME AccountsInv, Logins!Next
  PROVE  AccountsInv'
<1>1. ASSUME NEW t \in Tasks, Logins!Step(t) PROVE AccountsInv'
  <2>1. CASE Logins!QueryFails(t)
    BY <2>1, ReturnSound DEF Logins!QueryFails, Logins!stored, Logins!memory
  <2>2. QED
    BY <1>1, <2>1, RegistrationSound, CheckSound, ChangeSound DEF Logins!Step
<1>2. ASSUME NEW t \in Tasks, NEW n \in Names, NEW e \in Emails, NEW p \in Passwords,
             NEW create \in BOOLEAN, Logins!check_or_register(t, n, e, p, create)
      PROVE  AccountsInv'
  <2> DEFINE o == [op |-> "register", pc |-> "name", name |-> n, email |-> e,
                   password |-> p, create |-> create, errors |-> FALSE]
  <2>1. o \in Registrations /\ o \notin Checks
    BY DEF Registrations, Checks
  <2>2. Logins!Begin(t, o)
    BY <1>2 DEF Logins!check_or_register
  <2> HIDE DEF o
  <2>3. QED
    BY <2>1, <2>2, BeginSound
<1>3. ASSUME NEW t \in Tasks, NEW n \in Names, NEW p \in Passwords, NEW new \in Passwords,
             NEW op \in {"web", "game", "change"},
             Logins!authenticate_login_credentials(t, op, n, p, new)
      PROVE  AccountsInv'
  <2> DEFINE is == Logins!IsPassword(a_users, n, p)
             o == [op |-> op, pc |-> "hash", name |-> n, password |-> p, new |-> new,
                   hash |-> 0, right |-> is, wrong |-> ~is]
  <2>1. Logins!Begin(t, o)
    BY <1>3 DEF Logins!authenticate_login_credentials
  <2>2. is \in BOOLEAN
    BY DEF Logins!IsPassword, Logins!Has
  <2> HIDE DEF is
  <2>3. /\ o \in Checks /\ o.pc = "hash" /\ o.name = n /\ o.password = p
        /\ o.right = is /\ o.wrong = ~is
    BY <2>2 DEF Checks
  <2> HIDE DEF o
  <2>4. QED
    BY <2>1, <2>3, BeginSound DEF is
<1>4. ASSUME NEW token \in DOMAIN a_web, Logins!DeleteSession(token) PROVE AccountsInv'
  BY <1>4 DEF Logins!DeleteSession, Logins!memory, AccountsInv, RowsTyped, CacheIsTrue, TasksSound,
     Sound, Hashes, Logins!AccountsAreWhole, Logins!IsPassword, Logins!Has
<1>5. ASSUME NEW n \in Names, Logins!LogoutGame(n) PROVE AccountsInv'
  BY <1>5 DEF Logins!LogoutGame, Logins!stored, AccountsInv, RowsTyped, CacheIsTrue, TasksSound,
     Sound, Hashes, Logins!AccountsAreWhole, Logins!IsPassword, Logins!Has
<1>6. CASE Logins!Restart
  <2>1. Logins!Idle \in Requested /\ Sound(Logins!Idle)
    BY DEF Requested, Sound, Logins!Idle
  <2>2. Sound(Logins!Idle)'
    BY DEF Sound, Logins!Idle
  <2>3. TasksSound'
    BY <1>6, <2>1, <2>2 DEF Logins!Restart, TasksSound
  <2>4. QED
    BY <1>6, <2>3 DEF Logins!Restart, Logins!stored, AccountsInv, RowsTyped, CacheIsTrue, Hashes,
       Logins!AccountsAreWhole
<1>7. QED
  <2>1. ASSUME NEW t \in Tasks, NEW n \in Names, NEW e \in Emails, NEW p \in Passwords,
               \/ \E check \in BOOLEAN : Logins!osu_register_account(t, n, e, p, check)
               \/ Logins!register_account(t, n, e, p)
        PROVE  AccountsInv'
    BY <1>2, <2>1 DEF Logins!osu_register_account, Logins!register_account
  <2>2. ASSUME NEW t \in Tasks, NEW n \in Names, NEW p \in Passwords,
               \/ \E op \in {"web", "game"} : Logins!authenticate_login_credentials(t, op, n, p, p)
               \/ \E new \in Passwords : Logins!update_player_password(t, n, p, new)
        PROVE  AccountsInv'
    BY <1>3, <2>2 DEF Logins!update_player_password
  <2>3. QED
    BY <1>1, <1>4, <1>5, <1>6, <2>1, <2>2 DEF Logins!Next

LEMMA AccountsInductive == AllSpec => [](service = "accounts" => AccountsInv)
<1> DEFINE I == service = "accounts" => AccountsInv
<1>1. AllInit => I
  <2>1. Logins!Init => AccountsInv
    <3> SUFFICES ASSUME Logins!Init PROVE AccountsInv
      OBVIOUS
    <3>1. Logins!Idle \in Requested /\ Sound(Logins!Idle)
      BY DEF Requested, Sound, Logins!Idle
    <3>2. TasksSound
      BY <3>1 DEF Logins!Init, TasksSound
    <3>3. QED
      BY <3>2 DEF Logins!Init, AccountsInv, RowsTyped, CacheIsTrue, Hashes, Logins!AccountsAreWhole
  <2> HIDE DEF AccountsInv
  <2>2. QED
    BY <2>1 DEF AllInit
<1>2. I /\ [AllNext]_allvars => I'
  <2>1. AccountsInv /\ UNCHANGED a_vars => AccountsInv'
    BY DEF a_vars, AccountsInv, RowsTyped, CacheIsTrue, TasksSound, Sound, Hashes,
       Logins!AccountsAreWhole, Logins!IsPassword, Logins!Has
  <2>2. QED
    BY <2>1, AccountsKept DEF AllNext, allvars
<1>3. QED
  BY <1>1, <1>2, PTL DEF AllSpec

\* A registration is there as a whole or not at all, for any number of
\* requests under way (create_account, validate_registration).
THEOREM AccountsWhole == AllSpec => []AccountsAreWhole
<1>1. (service = "accounts" => AccountsInv) => AccountsAreWhole
  BY DEF AccountsInv, AccountsAreWhole
<1>2. QED
  BY <1>1, AccountsInductive, PTL

\* Who is admitted gave a password the account had, who is refused one it had
\* not, and the cache admits nobody else to a game session
\* (authenticate_login_credentials, change_password, authenticate_online_player).
THEOREM AnswersRight == AllSpec => []AnswersAreRight
<1>1. (service = "accounts" => AccountsInv) => AnswersAreRight
  <2> SUFFICES ASSUME AccountsInv PROVE Logins!AnswersAreRight
    BY DEF AnswersAreRight
  <2>1. \A t \in Tasks : Sound(a_task[t])
    BY DEF AccountsInv, TasksSound
  <2>2. \A n \in Names, p \in Passwords :
          Logins!authenticate_online_player(n, p) => a_secret[a_game[n]] = p
    BY DEF AccountsInv, CacheIsTrue, Logins!authenticate_online_player, Logins!Has
  <2>3. QED
    BY <2>1, <2>2 DEF Logins!AnswersAreRight, Logins!At, Sound
<1>2. QED
  BY <1>1, AccountsInductive, PTL

-----------------------------------------------------------------------------
(* Linked accounts.                                                        *)


\* Callbacks between the moment they spend their token and their end.
Flows == [pc : {"exchange", "identity", "existing", "upsert", "fetch", "raised"},
          user : LinkUsers, state : States, discord : Discords]

LinksTyped ==
  /\ DOMAIN d_oauth \subseteq States /\ DOMAIN d_issued \subseteq States
  /\ \A s \in DOMAIN d_oauth : s \in DOMAIN d_issued /\ d_issued[s] = d_oauth[s]
  /\ \A s \in DOMAIN d_issued : d_issued[s] \in LinkUsers
  /\ d_task \in [Tasks -> {Links!Idle} \cup Flows]
  /\ d_spent \in [States -> Nat]

\* A token is spent at most once, and not while it is alive in Redis.
SpentOnce ==
  \A s \in States : d_spent[s] <= 1 /\ (s \in DOMAIN d_oauth \/ s \notin DOMAIN d_issued => d_spent[s] = 0)

\* A flow is for the account that its token was issued for.
FlowsAreTheirs ==
  \A t \in Tasks : d_task[t].pc # "idle" =>
    d_task[t].state \in DOMAIN d_issued /\ d_issued[d_task[t].state] = d_task[t].user

LinksInv == LinksTyped /\ SpentOnce /\ FlowsAreTheirs /\ Links!LinksAreTheirs

LEMMA LinksKept ==
  ASSUME LinksInv, Links!Next
  PROVE  LinksInv'
<1> USE DEF LinksInv
<1> USE DEF Links!Idle
<1>1. ASSUME NEW u \in LinkUsers,
             Links!create_session(u) \/ Links!delete_current_session(u)
      PROVE  LinksInv'
  BY <1>1 DEF Links!create_session, Links!delete_current_session, LinksTyped, SpentOnce,
     FlowsAreTheirs, Links!LinksAreTheirs
<1>2. ASSUME NEW u \in LinkUsers, Links!unlink(u) PROVE LinksInv'
  BY <1>2 DEF Links!unlink, Links!Without, LinksTyped, SpentOnce, FlowsAreTheirs,
     Links!LinksAreTheirs
<1>3. ASSUME NEW u \in LinkUsers, NEW s \in States, Links!begin_discord_link(u, s)
      PROVE  LinksInv'
  <2>1. /\ s \notin DOMAIN d_issued
        /\ DOMAIN d_issued' = DOMAIN d_issued \cup {s} /\ DOMAIN d_oauth' = DOMAIN d_oauth \cup {s}
        /\ d_issued'[s] = u /\ d_oauth'[s] = u
        /\ \A r \in DOMAIN d_issued : d_issued'[r] = d_issued[r]
        /\ \A r \in DOMAIN d_oauth : r # s /\ d_oauth'[r] = d_oauth[r]
        /\ UNCHANGED <<d_links, d_task, d_spent>>
    BY <1>3 DEF Links!begin_discord_link, Links!begin_link, Links!With, LinksTyped
  <2>2. QED
    BY <2>1 DEF LinksTyped, SpentOnce, FlowsAreTheirs, Links!LinksAreTheirs
<1>4. ASSUME NEW s \in States, Links!Expire(s) PROVE LinksInv'
  BY <1>4 DEF Links!Expire, Links!Without, LinksTyped, SpentOnce, FlowsAreTheirs,
     Links!LinksAreTheirs
<1>5. ASSUME NEW t \in Tasks, NEW s \in States, NEW d \in Discords, Links!consume(t, s, d)
      PROVE  LinksInv'
  <2>1. CASE s \notin DOMAIN d_oauth
    BY <1>5, <2>1 DEF Links!consume, LinksTyped, SpentOnce, FlowsAreTheirs, Links!LinksAreTheirs
  <2>2. CASE s \in DOMAIN d_oauth
    <3>1. /\ DOMAIN d_oauth' = DOMAIN d_oauth \ {s}
          /\ \A r \in DOMAIN d_oauth' : d_oauth'[r] = d_oauth[r]
          /\ d_spent' = [d_spent EXCEPT ![s] = d_spent[s] + 1]
          /\ d_task' = [d_task EXCEPT ![t] = [pc |-> "exchange", user |-> d_oauth[s],
                                             state |-> s, discord |-> d]]
          /\ UNCHANGED <<d_links, d_issued>>
      BY <1>5, <2>2 DEF Links!consume, Links!Without
    <3>2. d_oauth[s] \in LinkUsers /\ d_issued[s] = d_oauth[s] /\ s \in DOMAIN d_issued
      BY <2>2 DEF LinksTyped
    <3>3. LinksTyped'
      BY <3>1, <3>2 DEF LinksTyped, Flows
    <3>4. SpentOnce' /\ Links!LinksAreTheirs'
      BY <2>2, <3>1, <3>2 DEF LinksTyped, SpentOnce, Links!LinksAreTheirs
    <3>5. FlowsAreTheirs'
      BY <3>1, <3>2 DEF LinksTyped, FlowsAreTheirs
    <3>6. QED
      BY <3>3, <3>4, <3>5
  <2>3. QED
    BY <2>1, <2>2
<1>6. ASSUME NEW t \in Tasks, d_task[t].pc # "idle",
             UNCHANGED <<d_oauth, d_links, d_issued, d_spent>>,
             \/ d_task' = [d_task EXCEPT ![t] = [pc |-> "idle"]]
             \/ \E pc \in {"identity", "existing", "upsert", "fetch", "raised"} :
                  d_task' = [d_task EXCEPT ![t].pc = pc]
      PROVE  LinksInv'
  <2>1. d_task[t] \in Flows
    BY <1>6 DEF LinksTyped
  <2>2. LinksTyped' /\ FlowsAreTheirs'
    BY <1>6, <2>1 DEF LinksTyped, FlowsAreTheirs, Flows
  <2>3. QED
    BY <1>6, <2>2 DEF SpentOnce, Links!LinksAreTheirs
<1>7. ASSUME NEW t \in Tasks, Links!upsert_link(t) PROVE LinksInv'
  <2> DEFINE user == d_task[t].user
             row == [discord |-> d_task[t].discord, state |-> d_task[t].state]
  <2>1. CASE Links!Holder(d_task[t].discord) \ {user} # {}
    BY <1>6, <1>7, <2>1 DEF Links!upsert_link, Links!At
  <2>2. CASE Links!Holder(d_task[t].discord) \ {user} = {}
    <3>1. /\ d_links' = Links!With(d_links, user, row)
          /\ d_task' = [d_task EXCEPT ![t].pc = "fetch"] /\ d_task[t].pc = "upsert"
          /\ UNCHANGED <<d_oauth, d_issued, d_spent>>
      BY <1>7, <2>2 DEF Links!upsert_link, Links!At
    <3>2. d_task[t] \in Flows
      BY <3>1 DEF LinksTyped
    <3>3. LinksTyped' /\ FlowsAreTheirs'
      BY <3>1, <3>2 DEF LinksTyped, FlowsAreTheirs, Flows
    <3>4. /\ DOMAIN d_links' = DOMAIN d_links \cup {user} /\ d_links'[user] = row
          /\ \A u \in DOMAIN d_links : u # user => d_links'[u] = d_links[u]
      BY <3>1 DEF Links!With
    <3>5. \A u \in DOMAIN d_links : u # user => d_links[u].discord # row.discord
      BY <2>2 DEF Links!Holder
    <3>6. row.state \in DOMAIN d_issued /\ d_issued[row.state] = user
      BY <3>1 DEF FlowsAreTheirs
    <3> HIDE DEF row, user
    <3>7. Links!LinksAreTheirs'
      BY <3>1, <3>4, <3>5, <3>6 DEF Links!LinksAreTheirs
    <3>8. QED
      BY <3>1, <3>3, <3>7 DEF SpentOnce
  <2>3. QED
    BY <2>1, <2>2
<1>8. ASSUME NEW t \in Tasks,
             \/ Links!_exchange_code_for_token(t) \/ Links!_fetch_discord_identity(t)
             \/ Links!fetch_by_discord_id(t) \/ Links!_fetch(t) \/ Links!Raised(t)
      PROVE  LinksInv'
  BY <1>6, <1>8 DEF Links!_exchange_code_for_token, Links!_fetch_discord_identity,
     Links!fetch_by_discord_id, Links!_fetch, Links!Raised, Links!At, Links!Return
<1>9. QED
  BY <1>1, <1>2, <1>3, <1>4, <1>5, <1>7, <1>8 DEF Links!Next

\* The account is that of the session.
THEOREM LinksSafe == AllSpec => []LinksAreTheirs
<1> DEFINE I == service = "links" => LinksInv
<1>1. AllInit => I
  <2>1. Links!Init => LinksInv
    BY DEF Links!Init, Links!Idle, LinksInv, LinksTyped, SpentOnce, FlowsAreTheirs,
       Links!LinksAreTheirs
  <2>2. QED
    BY <2>1 DEF AllInit
<1>2. I /\ [AllNext]_allvars => I'
  <2>1. LinksInv /\ UNCHANGED d_vars => LinksInv'
    BY DEF d_vars, LinksInv, LinksTyped, SpentOnce, FlowsAreTheirs, Links!LinksAreTheirs
  <2> HIDE DEF LinksInv
  <2>2. QED
    BY <2>1, LinksKept DEF AllNext, allvars
<1>3. I => LinksAreTheirs
  BY DEF LinksInv, LinksAreTheirs
<1>4. QED
  BY <1>1, <1>2, <1>3, PTL DEF AllSpec

-----------------------------------------------------------------------------
(* Who hears whom.                                                         *)

Rows == {"friend", "block", "none"}
Letters == [id : Nat, from : ChatUsers, to : ChatUsers]
Present ==
  [on : BOOLEAN, friends : SUBSET ChatUsers, blocks : SUBSET ChatUsers,
   silenced : BOOLEAN, pm_private : BOOLEAN, queue : SUBSET Letters]
Errands ==
  [op : {"login", "command", "pm", "markasread", "relation", "web friend",
         "web unfriend", "silence"},
   u : ChatUsers, v : ChatUsers,
   pc : {"relations", "mail", "run", "insert", "fetch", "update", "delete", "on", "off"}
          \cup Rows,
   p : Present, n : Nat]

ChatTyped ==
  /\ m_mem \in [ChatUsers -> Present]
  /\ m_members \subseteq {u \in ChatUsers : m_mem[u].on}
  /\ m_relations \in [ChatUsers -> [ChatUsers -> Rows]]
  /\ m_mail \subseteq [msg : Letters, read : BOOLEAN]
  /\ m_tasks \in [Tasks -> {Chat!NoTask} \cup Errands]
  /\ \A t \in Tasks : /\ m_tasks[t].op = "login" => m_tasks[t].p.on
                      /\ m_tasks[t].op = "relation" => m_tasks[t].pc \in Rows
  /\ m_msgs \in Nat

\* A request of u.
Of(t, u) == m_tasks[t].op # "idle" /\ m_tasks[t].u = u

\* What the table says of u and w is what memory says, or about to be written.
RowsKnown(u) ==
  m_mem[u].on => \A w \in ChatUsers : m_relations[u][w] = "block" =>
    \/ w \in m_mem[u].blocks /\ w \notin m_mem[u].friends
    \/ \E t \in Tasks : m_tasks[t].op = "relation" /\ m_tasks[t].u = u /\ m_tasks[t].v = w
SilenceKnown(u) ==
  m_mem[u].on /\ u \in m_silences =>
    \/ m_mem[u].silenced
    \/ \E t \in Tasks : m_tasks[t].op = "silence" /\ m_tasks[t].pc = "off" /\ m_tasks[t].u = u

\* What a request of u that writes a row has told memory before, and what a login
\* of u has read.
Carries(k, u) ==
  /\ k.op = "login" /\ u \in m_silences => k.p.silenced
  /\ k.op = "login" /\ k.pc = "mail" =>
       \A w \in ChatUsers : m_relations[u][w] = "block" => w \in k.p.blocks /\ w \notin k.p.friends
  /\ k.op = "relation" /\ k.pc = "block" /\ m_mem[u].on =>
       k.v \in m_mem[u].blocks /\ k.v \notin m_mem[u].friends
  /\ k.op = "silence" /\ k.pc = "on" =>
       u \notin m_silences /\ (m_mem[u].on => m_mem[u].silenced)

\* Nothing overlapped for u, or all of this:
InStep(u) ==
  u \notin m_mixed =>
    /\ \A s, t \in Tasks : Of(s, u) /\ Of(t, u) => s = t
    /\ RowsKnown(u) /\ SilenceKnown(u)
    /\ \A t \in Tasks : Of(t, u) => Carries(m_tasks[t], u)

ChatInv == ChatTyped /\ (\A u \in ChatUsers : InStep(u)) /\ m_offence = FALSE

-----------------------------------------------------------------------------
\* What u has, in memory, in the tables and among the requests.
SameMemory(u) ==
  /\ m_mem'[u].on = m_mem[u].on /\ m_mem'[u].silenced = m_mem[u].silenced
  /\ m_mem'[u].blocks = m_mem[u].blocks /\ m_mem'[u].friends = m_mem[u].friends
SameTables(u) == m_relations'[u] = m_relations[u] /\ (u \in m_silences' <=> u \in m_silences)
SameRequests(u) ==
  /\ \A t \in Tasks : (Of(t, u) <=> Of(t, u)') /\ (Of(t, u) => m_tasks'[t] = m_tasks[t])
  /\ m_mixed \subseteq m_mixed'

LEMMA NothingOfTheirs ==
  ASSUME NEW u \in ChatUsers, InStep(u), SameMemory(u), SameTables(u), SameRequests(u)
  PROVE  InStep(u)'
<1> SUFFICES ASSUME u \notin m_mixed'
             PROVE  InStep(u)'
  BY DEF InStep
<1>1. u \notin m_mixed
  BY DEF SameRequests
<1>2. \A s, t \in Tasks : Of(s, u)' /\ Of(t, u)' => s = t
  BY <1>1 DEF InStep, SameRequests
<1>3. RowsKnown(u)'
  BY <1>1 DEF InStep, RowsKnown, SameMemory, SameTables, SameRequests, Of
<1>4. SilenceKnown(u)'
  BY <1>1 DEF InStep, SilenceKnown, SameMemory, SameTables, SameRequests, Of
<1>5. ASSUME NEW t \in Tasks, Of(t, u)' PROVE Carries(m_tasks[t], u)'
  <2>1. Carries(m_tasks[t], u) /\ m_tasks'[t] = m_tasks[t]
    BY <1>1, <1>5 DEF InStep, SameRequests
  <2>2. QED
    BY <2>1 DEF Carries, SameMemory, SameTables
<1>6. QED
  BY <1>2, <1>3, <1>4, <1>5 DEF InStep

\* A step of one user.
Others(a) == \A u \in ChatUsers \ {a} : SameMemory(u) /\ SameTables(u) /\ SameRequests(u)

LEMMA OneActs ==
  ASSUME ChatInv, NEW a \in ChatUsers, Others(a), a \notin m_mixed' => InStep(a)'
  PROVE  \A u \in ChatUsers : InStep(u)'
<1>1. ASSUME NEW u \in ChatUsers, u # a PROVE InStep(u)'
  BY <1>1, NothingOfTheirs DEF ChatInv, Others
<1>2. a \in m_mixed' => InStep(a)'
  BY DEF InStep
<1>3. QED
  BY <1>1, <1>2

\* A request begins: it is the only one of its user, or two have overlapped.
LEMMA Begins ==
  ASSUME ChatTyped, NEW t \in Tasks, NEW k \in Errands, Chat!Start(t, k)
  PROVE  /\ m_tasks' = [m_tasks EXCEPT ![t] = k] /\ m_tasks'[t] = k
         /\ m_tasks' \in [Tasks -> {Chat!NoTask} \cup Errands]
         /\ \A u \in ChatUsers \ {k.u} : SameRequests(u)
         /\ m_mixed \subseteq m_mixed'
         /\ k.u \notin m_mixed' => \A s \in Tasks : ~Of(s, k.u) /\ (Of(s, k.u)' => s = t)
<1>1. m_tasks' = [m_tasks EXCEPT ![t] = k] /\ m_tasks[t].op = "idle"
  BY DEF Chat!Start
<1>2. m_tasks'[t] = k /\ \A s \in Tasks : s # t => m_tasks'[s] = m_tasks[s]
  BY <1>1 DEF ChatTyped
<1>3. m_tasks' \in [Tasks -> {Chat!NoTask} \cup Errands]
  BY <1>1 DEF ChatTyped
<1>4. m_mixed \subseteq m_mixed' /\ (k.u \notin m_mixed' => ~Chat!Busy(k.u))
  BY DEF Chat!Start
<1>5. \A u \in ChatUsers \ {k.u} : SameRequests(u)
  BY <1>1, <1>2, <1>4 DEF SameRequests, Of
<1>6. k.u \notin m_mixed' => \A s \in Tasks : ~Of(s, k.u) /\ (Of(s, k.u)' => s = t)
  BY <1>2, <1>4 DEF Chat!Busy, Of
<1>7. QED
  BY <1>1, <1>2, <1>3, <1>4, <1>5, <1>6

\* A request ends.
LEMMA Ends ==
  ASSUME ChatInv, NEW t \in Tasks, NEW a \in ChatUsers, m_tasks[t].u = a,
         m_tasks[t].op # "idle", Chat!End(t)
  PROVE  /\ m_tasks' = [m_tasks EXCEPT ![t] = Chat!NoTask]
         /\ m_tasks' \in [Tasks -> {Chat!NoTask} \cup Errands]
         /\ m_mixed' = m_mixed
         /\ \A u \in ChatUsers \ {a} : SameRequests(u)
         /\ a \notin m_mixed => \A s \in Tasks : ~Of(s, a)' /\ (Of(s, a) => s = t)
<1>1. m_tasks' = [m_tasks EXCEPT ![t] = Chat!NoTask] /\ m_mixed' = m_mixed
  BY DEF Chat!End
<1>2. m_tasks'[t].op = "idle" /\ \A s \in Tasks : s # t => m_tasks'[s] = m_tasks[s]
  BY <1>1 DEF ChatInv, ChatTyped, Chat!NoTask
<1>3. m_tasks' \in [Tasks -> {Chat!NoTask} \cup Errands]
  BY <1>1 DEF ChatInv, ChatTyped
<1>4. \A u \in ChatUsers \ {a} : SameRequests(u)
  BY <1>1, <1>2 DEF SameRequests, Of
<1>5. a \notin m_mixed => \A s \in Tasks : Of(s, a) => s = t
  BY <1>1 DEF ChatInv, InStep, Of
<1>6. a \notin m_mixed => \A s \in Tasks : ~Of(s, a)'
  BY <1>2, <1>5 DEF Of
<1>7. QED
  BY <1>1, <1>3, <1>4, <1>5, <1>6

\* No request of u is under way: memory says what the tables say.
Calm(u) ==
  m_mem[u].on => /\ \A w \in ChatUsers : m_relations[u][w] = "block" =>
                      w \in m_mem[u].blocks /\ w \notin m_mem[u].friends
                 /\ u \in m_silences => m_mem[u].silenced

LEMMA RequestBegins ==
  ASSUME ChatInv, NEW t \in Tasks, NEW k \in Errands, Chat!Start(t, k),
         NEW a \in ChatUsers, k.u = a,
         \A u \in ChatUsers \ {a} : SameMemory(u) /\ SameTables(u),
         a \notin m_mixed' /\ Calm(a) => RowsKnown(a)' /\ SilenceKnown(a)' /\ Carries(k, a)'
  PROVE  \A u \in ChatUsers : InStep(u)'
<1>1. m_tasks'[t] = k /\ \A u \in ChatUsers \ {a} : SameRequests(u)
  BY Begins DEF ChatInv
<1>2. ASSUME a \notin m_mixed' PROVE InStep(a)'
  <2>1. a \notin m_mixed /\ \A s \in Tasks : ~Of(s, a) /\ (Of(s, a)' => s = t)
    BY <1>2, Begins DEF ChatInv
  <2>2. RowsKnown(a) /\ SilenceKnown(a)
    BY <2>1 DEF ChatInv, InStep
  <2>3. Calm(a)
    BY <2>1, <2>2 DEF Calm, RowsKnown, SilenceKnown, Of
  <2>4. RowsKnown(a)' /\ SilenceKnown(a)' /\ Carries(k, a)'
    BY <1>2, <2>3
  <2>5. \A s \in Tasks : Of(s, a)' => Carries(m_tasks[s], a)'
    BY <1>1, <2>1, <2>4 DEF Carries
  <2>6. QED
    BY <2>1, <2>4, <2>5 DEF InStep
<1>3. QED
  BY <1>1, <1>2, OneActs DEF Others

\* What a request knows that has its user for itself.
LEMMA Alone ==
  ASSUME ChatInv, NEW t \in Tasks, NEW a \in ChatUsers, m_tasks[t].u = a,
         m_tasks[t].op # "idle", a \notin m_mixed
  PROVE  /\ \A s \in Tasks : Of(s, a) => s = t
         /\ Carries(m_tasks[t], a)
         /\ m_mem[a].on => \A w \in ChatUsers : m_relations[a][w] = "block" =>
              \/ w \in m_mem[a].blocks /\ w \notin m_mem[a].friends
              \/ m_tasks[t].op = "relation" /\ m_tasks[t].v = w
         /\ m_mem[a].on /\ a \in m_silences =>
              m_mem[a].silenced \/ (m_tasks[t].op = "silence" /\ m_tasks[t].pc = "off")
<1>1. \A s \in Tasks : Of(s, a) => s = t
  BY DEF ChatInv, InStep, Of
<1>2. RowsKnown(a) /\ SilenceKnown(a) /\ Carries(m_tasks[t], a)
  BY DEF ChatInv, InStep, Of
<1>3. \A s \in Tasks : m_tasks[s].op \in {"relation", "silence"} /\ m_tasks[s].u = a => s = t
  BY <1>1 DEF Of
<1>4. QED
  BY <1>1, <1>2, <1>3 DEF RowsKnown, SilenceKnown

LEMMA RequestEnds ==
  ASSUME ChatInv, NEW t \in Tasks, NEW a \in ChatUsers, m_tasks[t].u = a,
         m_tasks[t].op # "idle", Chat!End(t),
         \A u \in ChatUsers \ {a} : SameMemory(u) /\ SameTables(u),
         a \notin m_mixed => Calm(a)'
  PROVE  \A u \in ChatUsers : InStep(u)'
<1>1. m_mixed' = m_mixed /\ \A u \in ChatUsers \ {a} : SameRequests(u)
  BY Ends
<1>2. ASSUME a \notin m_mixed' PROVE InStep(a)'
  <2>1. \A s \in Tasks : ~Of(s, a)'
    BY <1>1, <1>2, Ends
  <2>2. RowsKnown(a)' /\ SilenceKnown(a)'
    BY <1>1, <1>2 DEF Calm, RowsKnown, SilenceKnown
  <2>3. QED
    BY <2>1, <2>2 DEF InStep
<1>3. QED
  BY <1>1, <1>2, OneActs DEF Others

-----------------------------------------------------------------------------
(* Requests begin.                                                         *)

LEMMA QuietBegin ==
  ASSUME ChatInv, NEW t \in Tasks, NEW k \in Errands, Chat!Start(t, k),
         NEW a \in ChatUsers, k.u = a,
         UNCHANGED <<m_mem, m_members, m_relations, m_silences, m_mail, m_offence>>,
         m_msgs' \in Nat, k.op = "login" => k.p.on, k.op # "relation", Calm(a) => Carries(k, a)
  PROVE  ChatInv'
<1>1. /\ m_tasks' \in [Tasks -> {Chat!NoTask} \cup Errands]
      /\ m_tasks' = [m_tasks EXCEPT ![t] = k]
  BY Begins DEF ChatInv
<1>2. ChatTyped'
  BY <1>1 DEF ChatInv, ChatTyped
<1>3. \A u \in ChatUsers \ {a} : SameMemory(u) /\ SameTables(u)
  BY DEF SameMemory, SameTables
<1>4. ASSUME Calm(a) PROVE RowsKnown(a)' /\ SilenceKnown(a)' /\ Carries(k, a)'
  BY <1>4 DEF Calm, RowsKnown, SilenceKnown, Carries
<1>5. \A u \in ChatUsers : InStep(u)'
  BY <1>3, <1>4, RequestBegins
<1>6. QED
  BY <1>2, <1>5 DEF ChatInv

LEMMA OfflineIsPresent == Chat!Offline \in Present /\ Chat!Offline.on = FALSE
BY DEF Chat!Offline, Present

LEMMA TaskIsErrand ==
  ASSUME NEW op \in {"login", "command", "pm", "markasread", "relation", "web friend",
                     "web unfriend", "silence"},
         NEW u \in ChatUsers, NEW v \in ChatUsers,
         NEW pc \in {"relations", "mail", "run", "insert", "fetch", "update", "delete", "on",
                     "off", "friend", "block", "none"}
  PROVE  Chat!Task(op, u, v, pc) \in Errands
BY OfflineIsPresent DEF Errands, Rows, Chat!Task

LEMMA LoginReads ==
  ASSUME ChatInv, NEW t \in Tasks, NEW a \in ChatUsers, Chat!LoginRead(t, a)
  PROVE  ChatInv'
<1> DEFINE p == [Chat!Offline EXCEPT !.on = TRUE, !.silenced = a \in m_silences]
           k == [Chat!Task("login", a, a, "relations") EXCEPT !.p = p]
<1>0. PICK b \in BOOLEAN : b <=> a \in m_silences
  OBVIOUS
<1>1. p \in Present /\ p.on /\ (a \in m_silences => p.silenced)
  <2>1. p = [Chat!Offline EXCEPT !.on = TRUE, !.silenced = b]
    BY <1>0
  <2>2. QED
    BY <1>0, <2>1 DEF Present, Chat!Offline
<1>2. k = [op |-> "login", u |-> a, v |-> a, pc |-> "relations", p |-> p, n |-> 0]
  BY DEF Chat!Task
<1>3. Chat!Start(t, k)
  BY DEF Chat!LoginRead
<1> HIDE DEF p, k
<1>4. k \in Errands
  BY <1>1, <1>2 DEF Errands
<1>5. k.u = a /\ k.op = "login" /\ k.p.on /\ k.pc = "relations" /\ Carries(k, a)
  BY <1>1, <1>2 DEF Carries
<1>6. /\ UNCHANGED <<m_mem, m_members, m_relations, m_silences, m_mail, m_offence>>
      /\ m_msgs' \in Nat
  BY DEF Chat!LoginRead, Chat!Quiet, Chat!tables, ChatInv, ChatTyped
<1>7. PICK q : q = k
  OBVIOUS
<1>8. QED
  BY <1>3, <1>4, <1>5, <1>6, <1>7, QuietBegin

LEMMA WordsBegin ==
  ASSUME ChatInv, NEW t \in Tasks, NEW a \in ChatUsers, NEW v \in ChatUsers,
         \/ Chat!SendCommand(t, a) \/ Chat!SendToOffline(t, a, v) \/ Chat!osuMarkAsRead(t, a, v)
         \/ Chat!add_friend(t, a, v) \/ Chat!remove_friend(t, a, v)
  PROVE  ChatInv'
<1>0. m_msgs \in Nat
  BY DEF ChatInv, ChatTyped
<1>1. /\ UNCHANGED <<m_mem, m_members, Chat!tables>> /\ Chat!Quiet
      /\ m_msgs' = m_msgs \/ m_msgs' = m_msgs + 1
  <2>1. CASE Chat!SendCommand(t, a)
    BY <2>1 DEF Chat!SendCommand
  <2>2. CASE Chat!SendToOffline(t, a, v)
    BY <2>2 DEF Chat!SendToOffline
  <2>3. CASE Chat!osuMarkAsRead(t, a, v) \/ Chat!add_friend(t, a, v) \/ Chat!remove_friend(t, a, v)
    BY <2>3 DEF Chat!osuMarkAsRead, Chat!add_friend, Chat!remove_friend
  <2>4. QED
    BY <2>1, <2>2, <2>3
<1>2. ASSUME NEW k \in Errands, k.u = a, k.op \notin {"login", "relation", "silence"},
             Chat!Start(t, k)
      PROVE  ChatInv'
  <2>1. /\ UNCHANGED <<m_mem, m_members, m_relations, m_silences, m_mail, m_offence>>
        /\ m_msgs' \in Nat
    BY <1>0, <1>1 DEF Chat!tables, Chat!Quiet
  <2>2. Carries(k, a)
    BY <1>2 DEF Carries
  <2>3. QED
    BY <1>2, <2>1, <2>2, QuietBegin
<1>3. CASE Chat!SendCommand(t, a)
  <2>1. PICK k \in Errands : k = Chat!Task("command", a, a, "run") /\ k.op = "command" /\ k.u = a
    BY TaskIsErrand DEF Chat!Task
  <2>2. QED
    BY <1>2, <1>3, <2>1 DEF Chat!SendCommand
<1>4. CASE Chat!SendToOffline(t, a, v)
  <2> DEFINE k == [Chat!Task("pm", a, v, "fetch") EXCEPT !.n = m_msgs]
  <2>1. k = [op |-> "pm", u |-> a, v |-> v, pc |-> "fetch", p |-> Chat!Offline, n |-> m_msgs]
    BY DEF Chat!Task
  <2>2. k \in Errands /\ k.u = a /\ k.op = "pm" /\ Chat!Start(t, k)
    BY <2>1, <1>4, OfflineIsPresent DEF Errands, Chat!SendToOffline, ChatInv, ChatTyped
  <2> HIDE DEF k
  <2>3. PICK q : q = k
    OBVIOUS
  <2>4. QED
    BY <1>2, <2>2, <2>3
<1>5. CASE Chat!osuMarkAsRead(t, a, v)
  <2>1. PICK k \in Errands :
          k = Chat!Task("markasread", a, v, "update") /\ k.op = "markasread" /\ k.u = a
    BY TaskIsErrand DEF Chat!Task
  <2>2. QED
    BY <1>2, <1>5, <2>1 DEF Chat!osuMarkAsRead
<1>6. CASE Chat!add_friend(t, a, v)
  <2>1. PICK pc \in {"delete", "insert"} : Chat!Start(t, Chat!Task("web friend", a, v, pc))
    BY <1>6 DEF Chat!add_friend
  <2>2. PICK k \in Errands :
          k = Chat!Task("web friend", a, v, pc) /\ k.op = "web friend" /\ k.u = a
    BY TaskIsErrand DEF Chat!Task
  <2>3. QED
    BY <1>2, <2>1, <2>2
<1>7. CASE Chat!remove_friend(t, a, v)
  <2>1. PICK k \in Errands :
          k = Chat!Task("web unfriend", a, v, "delete") /\ k.op = "web unfriend" /\ k.u = a
    BY TaskIsErrand DEF Chat!Task
  <2>2. QED
    BY <1>2, <1>7, <2>1 DEF Chat!remove_friend
<1>8. QED
  BY <1>3, <1>4, <1>5, <1>6, <1>7

\* Of somebody offline the row is read: a silence that is to be written is not there.
LEMMA SilencesOffline ==
  ASSUME ChatInv, NEW t \in Tasks, NEW a \in ChatUsers, NEW on \in BOOLEAN,
         Chat!SilenceOffline(t, a, on)
  PROVE  ChatInv'
<1>1. PICK pc \in {"on", "off"} : /\ Chat!Start(t, Chat!Task("silence", a, a, pc))
                                  /\ pc = "on" => on
  BY DEF Chat!SilenceOffline
<1>2. pc = "on" => a \notin m_silences
  BY <1>1 DEF Chat!SilenceOffline
<1>3. /\ UNCHANGED <<m_mem, m_members, m_relations, m_silences, m_mail, m_offence>>
      /\ m_msgs' \in Nat /\ ~m_mem[a].on
  BY DEF Chat!SilenceOffline, Chat!Quiet, Chat!tables, Chat!Online, ChatInv, ChatTyped
<1>4. PICK k \in Errands : /\ k = Chat!Task("silence", a, a, pc)
                           /\ k.op = "silence" /\ k.pc = pc /\ k.u = a
  BY TaskIsErrand DEF Chat!Task
<1>5. Carries(k, a)
  BY <1>2, <1>3, <1>4 DEF Carries
<1>6. QED
  BY <1>1, <1>3, <1>4, <1>5, QuietBegin

\* A message reaches only whom it may.
LEMMA Delivers ==
  ASSUME ChatInv, NEW s \in ChatUsers, NEW to \in SUBSET ChatUsers, Chat!Deliver(s, to),
         \A u \in to : ~Chat!Unwelcome(s, u)
  PROVE  /\ m_mem' \in [ChatUsers -> Present] /\ m_offence' = FALSE
         /\ \A u \in ChatUsers : SameMemory(u)
<1>1. /\ m_mem' = [u \in ChatUsers |-> IF u \in to
           THEN [m_mem[u] EXCEPT !.queue = @ \cup {Chat!Message(m_msgs, s, u)}] ELSE m_mem[u]]
      /\ m_offence' = FALSE
  BY DEF Chat!Deliver, ChatInv
<1>2. ASSUME NEW u \in ChatUsers PROVE m_mem'[u] \in Present /\ SameMemory(u)
  <2>1. m_mem[u] \in Present /\ Chat!Message(m_msgs, s, u) \in Letters
    BY DEF ChatInv, ChatTyped, Chat!Message, Letters
  <2>2. CASE u \in to
    <3>1. m_mem'[u] = [m_mem[u] EXCEPT !.queue = @ \cup {Chat!Message(m_msgs, s, u)}]
      BY <1>1, <2>2
    <3>2. QED
      BY <2>1, <3>1 DEF Present, SameMemory
  <2>3. CASE u \notin to
    BY <1>1, <2>1, <2>3 DEF SameMemory
  <2>4. QED
    BY <2>2, <2>3
<1>3. m_mem' \in [ChatUsers -> Present]
  BY <1>1, <1>2
<1>4. QED
  BY <1>1, <1>2, <1>3

\* Who is there and has not blocked s, nor is s silenced as far as memory knows.
LEMMA Welcome ==
  ASSUME ChatInv, NEW s \in ChatUsers, NEW u \in ChatUsers, m_mem[u].on, s \notin m_mem[u].blocks,
         s \notin m_mixed /\ ~Chat!Busy(s) => m_mem[s].on /\ ~m_mem[s].silenced
  PROVE  ~Chat!Unwelcome(s, u)
<1>1. ASSUME NEW x \in ChatUsers, x \notin m_mixed, ~Chat!Busy(x) PROVE Calm(x)
  <2>1. RowsKnown(x) /\ SilenceKnown(x) /\ \A t \in Tasks : ~Of(t, x)
    BY <1>1 DEF ChatInv, InStep, Chat!Busy, Of
  <2>2. QED
    BY <2>1 DEF RowsKnown, SilenceKnown, Calm, Of
<1>2. s \notin m_mixed /\ ~Chat!Busy(s) => s \notin m_silences
  BY <1>1 DEF Calm
<1>3. u \notin m_mixed /\ ~Chat!Busy(u) => m_relations[u][s] # "block"
  BY <1>1 DEF Calm
<1>4. QED
  BY <1>2, <1>3 DEF Chat!Unwelcome

\* A request of one step.
LEMMA AtOnce ==
  ASSUME ChatInv, NEW a \in ChatUsers, Chat!Atomic(a),
         \A u \in ChatUsers \ {a} : SameMemory(u) /\ SameTables(u),
         Calm(a) => Calm(a)'
  PROVE  \A u \in ChatUsers : InStep(u)'
<1>1. m_tasks' = m_tasks /\ m_mixed \subseteq m_mixed'
  BY DEF Chat!Atomic
<1>2. \A u \in ChatUsers : SameRequests(u)
  BY <1>1 DEF SameRequests, Of
<1>3. ASSUME a \notin m_mixed' PROVE InStep(a)'
  <2>1. a \notin m_mixed /\ \A t \in Tasks : ~Of(t, a) /\ ~Of(t, a)'
    BY <1>1, <1>3 DEF Chat!Atomic, Chat!Busy, Of
  <2>2. Calm(a)
    BY <2>1 DEF ChatInv, InStep, RowsKnown, SilenceKnown, Calm, Of
  <2>3. Calm(a)'
    BY <2>2
  <2>4. QED
    BY <2>1, <2>3 DEF InStep, RowsKnown, SilenceKnown, Calm
<1>4. QED
  BY <1>2, <1>3, OneActs DEF Others

LEMMA PrivateMessages ==
  ASSUME ChatInv, NEW t \in Tasks, NEW a \in ChatUsers, NEW v \in ChatUsers,
         Chat!SendPrivateMessage(t, a, v)
  PROVE  ChatInv'
<1>1. /\ m_mem[a].on /\ ~m_mem[a].silenced /\ m_mem[v].on /\ m_msgs \in Nat
      /\ m_msgs' = m_msgs + 1 /\ UNCHANGED <<m_members, m_relations, m_silences, m_mail>>
  BY DEF Chat!SendPrivateMessage, Chat!Online, Chat!tables, ChatInv, ChatTyped
<1>2. CASE Chat!Refuses(Chat!from_cache_or_sql(v), a)
  <2>1. Chat!Atomic(a) /\ UNCHANGED <<m_mem, m_offence>>
    BY <1>2 DEF Chat!SendPrivateMessage
  <2>2. \A u \in ChatUsers : InStep(u)'
    <3>1. \A u \in ChatUsers : SameMemory(u) /\ SameTables(u)
      BY <1>1, <2>1 DEF SameMemory, SameTables
    <3>2. Calm(a) => Calm(a)'
      BY <1>1, <2>1 DEF Calm
    <3>3. QED
      BY <2>1, <3>1, <3>2, AtOnce
  <2>3. ChatTyped'
    BY <1>1, <2>1 DEF ChatInv, ChatTyped, Chat!Atomic
  <2>4. QED
    BY <2>1, <2>2, <2>3 DEF ChatInv
<1>3. CASE ~Chat!Refuses(Chat!from_cache_or_sql(v), a)
  <2> DEFINE k == [Chat!Task("pm", a, v, "insert") EXCEPT !.n = m_msgs]
  <2>1. Chat!Start(t, k) /\ Chat!Deliver(a, {v})
    BY <1>3 DEF Chat!SendPrivateMessage
  <2>2. k = [op |-> "pm", u |-> a, v |-> v, pc |-> "insert", p |-> Chat!Offline, n |-> m_msgs]
    BY DEF Chat!Task
  <2>3. k \in Errands /\ k.u = a /\ k.op = "pm"
    BY <1>1, <2>2, OfflineIsPresent DEF Errands
  <2> HIDE DEF k
  <2>4. PICK q \in Errands : q = k
    BY <2>3
  <2>5. a \notin m_mem[v].blocks
    BY <1>1, <1>3 DEF Chat!Refuses, Chat!from_cache_or_sql, Chat!Online
  <2>6. ~Chat!Unwelcome(a, v)
    BY <1>1, <2>5, Welcome
  <2>7. /\ m_mem' \in [ChatUsers -> Present] /\ m_offence' = FALSE
        /\ \A u \in ChatUsers : SameMemory(u)
    <3>1. {v} \in SUBSET ChatUsers /\ \A u \in {v} : ~Chat!Unwelcome(a, u)
      BY <2>6
    <3>2. QED
      BY <2>1, <3>1, Delivers
  <2>8. \A u \in ChatUsers : SameTables(u)
    BY <1>1 DEF SameTables
  <2>9. Calm(a) => RowsKnown(a)' /\ SilenceKnown(a)' /\ Carries(q, a)'
    BY <2>3, <2>4, <2>7, <2>8 DEF Calm, RowsKnown, SilenceKnown, Carries, SameMemory, SameTables
  <2>10. \A u \in ChatUsers : InStep(u)'
    BY <2>1, <2>3, <2>4, <2>7, <2>8, <2>9, RequestBegins
  <2>11. /\ m_tasks' = [m_tasks EXCEPT ![t] = q]
         /\ m_tasks' \in [Tasks -> {Chat!NoTask} \cup Errands]
    BY <2>1, <2>4, Begins DEF ChatInv
  <2>12. ChatTyped'
    BY <1>1, <2>3, <2>4, <2>7, <2>11 DEF ChatInv, ChatTyped, SameMemory
  <2>13. QED
    BY <2>7, <2>10, <2>12 DEF ChatInv
<1>4. QED
  BY <1>2, <1>3

\* A request to change a row has told memory first.
LEMMA RelationBegins ==
  ASSUME ChatInv, NEW t \in Tasks, NEW a \in ChatUsers, NEW v \in ChatUsers, NEW pc \in Rows,
         Chat!Start(t, Chat!Task("relation", a, v, pc)),
         NEW q \in Present, m_mem' = [m_mem EXCEPT ![a] = q],
         q.on = m_mem[a].on, q.silenced = m_mem[a].silenced,
         \A w \in ChatUsers \ {v} : /\ w \in q.blocks <=> w \in m_mem[a].blocks
                                    /\ w \in q.friends <=> w \in m_mem[a].friends,
         pc = "block" => v \in q.blocks /\ v \notin q.friends,
         UNCHANGED <<m_members, m_relations, m_silences, m_mail, m_msgs, m_offence>>
  PROVE  ChatInv'
<1>1. PICK k \in Errands : /\ k = Chat!Task("relation", a, v, pc)
                           /\ k.op = "relation" /\ k.u = a /\ k.v = v /\ k.pc = pc
  BY TaskIsErrand DEF Chat!Task, Rows
<1>2. /\ m_tasks' = [m_tasks EXCEPT ![t] = k] /\ m_tasks'[t] = k
      /\ m_tasks' \in [Tasks -> {Chat!NoTask} \cup Errands]
  BY <1>1, Begins DEF ChatInv
<1>3. m_mem'[a] = q /\ \A u \in ChatUsers \ {a} : SameMemory(u) /\ SameTables(u)
  BY DEF ChatInv, ChatTyped, SameMemory, SameTables
<1>4. ASSUME Calm(a) PROVE RowsKnown(a)' /\ SilenceKnown(a)' /\ Carries(k, a)'
  <2>1. RowsKnown(a)'
    BY <1>1, <1>2, <1>3, <1>4 DEF Calm, RowsKnown
  <2>2. SilenceKnown(a)'
    BY <1>3, <1>4 DEF Calm, SilenceKnown
  <2>3. Carries(k, a)'
    BY <1>1, <1>3 DEF Carries
  <2>4. QED
    BY <2>1, <2>2, <2>3
<1>5. \A u \in ChatUsers : InStep(u)'
  BY <1>1, <1>3, <1>4, RequestBegins
<1>6. ChatTyped'
  BY <1>1, <1>2, <1>3 DEF ChatInv, ChatTyped
<1>7. QED
  BY <1>5, <1>6 DEF ChatInv

LEMMA RelationsInTheGame ==
  ASSUME ChatInv, NEW t \in Tasks, NEW a \in ChatUsers, NEW v \in ChatUsers,
         \/ Chat!FriendAdd(t, a, v) \/ Chat!FriendRemove(t, a, v)
         \/ Chat!block(t, a, v) \/ Chat!unblock(t, a, v)
  PROVE  ChatInv'
<1> DEFINE p == m_mem[a]
<1>1. p \in Present
  BY DEF ChatInv, ChatTyped
<1>2. UNCHANGED <<m_members, m_relations, m_silences, m_mail, m_msgs, m_offence>>
  BY DEF Chat!FriendAdd, Chat!FriendRemove, Chat!block, Chat!unblock, Chat!Quiet, Chat!tables
<1>3. CASE Chat!FriendAdd(t, a, v) /\ v \in p.friends
  <2>1. Chat!Atomic(a) /\ m_mem' = [m_mem EXCEPT ![a] = [p EXCEPT !.blocks = p.blocks \ {v}]]
    BY <1>3 DEF Chat!FriendAdd
  <2>2. /\ m_mem'[a] = [p EXCEPT !.blocks = p.blocks \ {v}]
        /\ \A u \in ChatUsers \ {a} : m_mem'[u] = m_mem[u]
    BY <2>1 DEF ChatInv, ChatTyped
  <2>3. [p EXCEPT !.blocks = p.blocks \ {v}] \in Present
    BY <1>1 DEF Present
  <2>4. m_mem' \in [ChatUsers -> Present] /\ \A u \in ChatUsers : m_mem'[u].on = m_mem[u].on
    BY <1>1, <2>1, <2>2, <2>3 DEF ChatInv, ChatTyped, Present
  <2>5. Calm(a) => Calm(a)'
    BY <1>1, <1>2, <1>3, <2>2 DEF Calm, Present
  <2>6. \A u \in ChatUsers : InStep(u)'
    <3>1. \A u \in ChatUsers \ {a} : SameMemory(u) /\ SameTables(u)
      BY <1>2, <2>2 DEF SameMemory, SameTables
    <3>2. QED
      BY <2>1, <2>5, <3>1, AtOnce
  <2>7. ChatTyped'
    BY <1>2, <2>1, <2>4 DEF ChatInv, ChatTyped, Chat!Atomic
  <2>8. QED
    BY <1>2, <2>6, <2>7 DEF ChatInv
<1>4. CASE Chat!FriendAdd(t, a, v) /\ v \notin p.friends
  <2> DEFINE f == [p EXCEPT !.blocks = p.blocks \ {v}]
             q == [f EXCEPT !.friends = f.friends \cup {v}]
  <2>1. Chat!Start(t, Chat!Task("relation", a, v, "friend")) /\ m_mem' = [m_mem EXCEPT ![a] = q]
    BY <1>1, <1>4 DEF Chat!FriendAdd, Present
  <2>2. /\ q \in Present /\ q.on = p.on /\ q.silenced = p.silenced
        /\ q.blocks = p.blocks \ {v} /\ q.friends = p.friends \cup {v}
    BY <1>1 DEF Present
  <2> HIDE DEF f, q
  <2>3. PICK r : r = q
    OBVIOUS
  <2>4. QED
    BY <1>2, <2>1, <2>2, <2>3, RelationBegins DEF Rows
<1>5. CASE Chat!FriendRemove(t, a, v)
  <2> DEFINE q == [p EXCEPT !.friends = p.friends \ {v}]
  <2>1. Chat!Start(t, Chat!Task("relation", a, v, "none")) /\ m_mem' = [m_mem EXCEPT ![a] = q]
    BY <1>5 DEF Chat!FriendRemove, Chat!NoRow, ChatInv, ChatTyped
  <2>2. /\ q \in Present /\ q.on = p.on /\ q.silenced = p.silenced
        /\ q.blocks = p.blocks /\ q.friends = p.friends \ {v}
    BY <1>1 DEF Present
  <2> HIDE DEF q
  <2>3. PICK r : r = q
    OBVIOUS
  <2>4. QED
    BY <1>2, <2>1, <2>2, <2>3, RelationBegins DEF Rows
<1>6. CASE Chat!block(t, a, v)
  <2> DEFINE f == [p EXCEPT !.friends = p.friends \ {v}]
             q == [f EXCEPT !.blocks = f.blocks \cup {v}]
  <2>1. Chat!Start(t, Chat!Task("relation", a, v, "block"))
    BY <1>6 DEF Chat!block
  <2>2. m_mem' = [m_mem EXCEPT ![a] = q]
    BY <1>6 DEF Chat!block, ChatInv, ChatTyped
  <2>3. /\ q \in Present /\ q.on = p.on /\ q.silenced = p.silenced
        /\ q.blocks = p.blocks \cup {v} /\ q.friends = p.friends \ {v}
    BY <1>1 DEF Present
  <2> HIDE DEF f, q
  <2>4. PICK r : r = q
    OBVIOUS
  <2>5. QED
    BY <1>2, <2>1, <2>2, <2>3, <2>4, RelationBegins DEF Rows
<1>7. CASE Chat!unblock(t, a, v)
  <2> DEFINE q == [p EXCEPT !.blocks = p.blocks \ {v}]
  <2>1. Chat!Start(t, Chat!Task("relation", a, v, "none")) /\ m_mem' = [m_mem EXCEPT ![a] = q]
    BY <1>7 DEF Chat!unblock, Chat!NoRow, ChatInv, ChatTyped
  <2>2. /\ q \in Present /\ q.on = p.on /\ q.silenced = p.silenced
        /\ q.blocks = p.blocks \ {v} /\ q.friends = p.friends
    BY <1>1 DEF Present
  <2> HIDE DEF q
  <2>3. PICK r : r = q
    OBVIOUS
  <2>4. QED
    BY ZenonT(60), <1>2, <2>1, <2>2, <2>3, RelationBegins DEF Rows
<1>8. QED
  BY <1>3, <1>4, <1>5, <1>6, <1>7

LEMMA SilencesOnline ==
  ASSUME ChatInv, NEW t \in Tasks, NEW a \in ChatUsers, NEW on \in BOOLEAN,
         Chat!SilenceOnline(t, a, on)
  PROVE  ChatInv'
<1>1. PICK pc \in {"on", "off"} : /\ Chat!Start(t, Chat!Task("silence", a, a, pc))
                                  /\ pc = "on" <=> on
  BY DEF Chat!SilenceOnline
<1>2. PICK k \in Errands : /\ k = Chat!Task("silence", a, a, pc)
                           /\ k.op = "silence" /\ k.pc = pc /\ k.u = a
  BY TaskIsErrand DEF Chat!Task
<1>3. /\ m_tasks' = [m_tasks EXCEPT ![t] = k] /\ m_tasks'[t] = k
      /\ m_tasks' \in [Tasks -> {Chat!NoTask} \cup Errands]
  BY <1>1, <1>2, Begins DEF ChatInv
<1>4. /\ m_mem' = [m_mem EXCEPT ![a].silenced = on] /\ m_mem[a].on /\ m_mem[a].silenced # on
      /\ UNCHANGED <<m_members, m_relations, m_silences, m_mail, m_msgs, m_offence>>
  BY DEF Chat!SilenceOnline, Chat!Online, Chat!Quiet, Chat!tables
<1>5. /\ m_mem' \in [ChatUsers -> Present] /\ m_mem'[a].silenced = on
      /\ m_mem'[a].on = m_mem[a].on /\ m_mem'[a].blocks = m_mem[a].blocks
      /\ m_mem'[a].friends = m_mem[a].friends
      /\ \A u \in ChatUsers \ {a} : m_mem'[u] = m_mem[u]
  BY <1>4 DEF ChatInv, ChatTyped, Present
<1>6. \A u \in ChatUsers \ {a} : SameMemory(u) /\ SameTables(u)
  BY <1>4, <1>5 DEF SameMemory, SameTables
<1>7. ASSUME Calm(a) PROVE RowsKnown(a)' /\ SilenceKnown(a)' /\ Carries(k, a)'
  <2>1. RowsKnown(a)'
    BY <1>4, <1>5, <1>7 DEF Calm, RowsKnown
  <2>2. SilenceKnown(a)'
    BY <1>1, <1>2, <1>3, <1>5 DEF SilenceKnown
  <2>3. on => a \notin m_silences
    BY <1>4, <1>7 DEF Calm
  <2>4. Carries(k, a)'
    BY <1>1, <1>2, <1>4, <1>5, <2>3 DEF Carries
  <2>5. QED
    BY <2>1, <2>2, <2>4
<1>8. \A u \in ChatUsers : InStep(u)'
  BY <1>1, <1>2, <1>6, <1>7, RequestBegins
<1>9. ChatTyped'
  BY <1>2, <1>3, <1>4, <1>5 DEF ChatInv, ChatTyped
<1>10. QED
  BY <1>4, <1>8, <1>9 DEF ChatInv

-----------------------------------------------------------------------------
(* Steps of no request, and steps that only touch queues.                  *)

LEMMA NothingMoves ==
  ASSUME ChatInv, m_mem' \in [ChatUsers -> Present], \A u \in ChatUsers : SameMemory(u),
         \A u \in m_members' : u \in ChatUsers /\ m_mem[u].on,
         UNCHANGED <<m_relations, m_silences, m_mail, m_tasks, m_mixed>>,
         m_msgs' \in Nat, m_offence' = FALSE
  PROVE  ChatInv'
<1>1. ChatTyped'
  BY DEF ChatInv, ChatTyped, SameMemory
<1>2. \A u \in ChatUsers : SameTables(u) /\ SameRequests(u)
  BY DEF SameTables, SameRequests, Of
<1>3. \A u \in ChatUsers : InStep(u)'
  BY <1>2, NothingOfTheirs DEF ChatInv
<1>4. QED
  BY <1>1, <1>3 DEF ChatInv

LEMMA ChannelTraffic ==
  ASSUME ChatInv, NEW a \in ChatUsers,
         Chat!dequeue(a) \/ Chat!join_channel(a) \/ Chat!leave_channel(a) \/ Chat!SendMessage(a)
  PROVE  ChatInv'
<1>0. m_mem \in [ChatUsers -> Present] /\ m_msgs \in Nat /\ m_offence = FALSE
      /\ \A u \in m_members : u \in ChatUsers /\ m_mem[u].on
  BY DEF ChatInv, ChatTyped
<1>1. CASE Chat!dequeue(a)
  <2>1. /\ m_mem' = [m_mem EXCEPT ![a].queue = {}]
        /\ UNCHANGED <<m_members, m_relations, m_silences, m_mail, m_tasks, m_msgs, m_mixed, m_offence>>
    BY <1>1 DEF Chat!dequeue, Chat!Quiet, Chat!tables
  <2>2. m_mem' \in [ChatUsers -> Present] /\ \A u \in ChatUsers : SameMemory(u)
    BY <1>0, <2>1 DEF Present, SameMemory
  <2>3. QED
    BY <1>0, <2>1, <2>2, NothingMoves
<1>2. CASE Chat!join_channel(a) \/ Chat!leave_channel(a)
  <2>1. /\ (m_members' = m_members \cup {a} /\ m_mem[a].on) \/ m_members' = m_members \ {a}
        /\ UNCHANGED <<m_mem, m_relations, m_silences, m_mail, m_tasks, m_msgs, m_mixed, m_offence>>
    BY <1>2 DEF Chat!join_channel, Chat!leave_channel, Chat!Online, Chat!Quiet, Chat!tables
  <2>2. \A u \in ChatUsers : SameMemory(u)
    BY <2>1 DEF SameMemory
  <2>3. QED
    BY <1>0, <2>1, <2>2, NothingMoves
<1>3. CASE Chat!SendMessage(a)
  <2> DEFINE to == Chat!channel_send(a)
  <2>1. /\ m_mem[a].on /\ ~m_mem[a].silenced /\ m_msgs' = m_msgs + 1 /\ Chat!Deliver(a, to)
        /\ UNCHANGED <<m_members, m_relations, m_silences, m_mail, m_tasks, m_mixed>>
    BY <1>3 DEF Chat!SendMessage, Chat!Online, Chat!tables
  <2>2. to \in SUBSET ChatUsers /\ \A u \in to : m_mem[u].on /\ a \notin m_mem[u].blocks
    BY <1>0 DEF Chat!channel_send
  <2>3. \A u \in to : ~Chat!Unwelcome(a, u)
    BY <2>1, <2>2, Welcome
  <2> HIDE DEF to
  <2>4. PICK q \in SUBSET ChatUsers : Chat!Deliver(a, q) /\ \A u \in q : ~Chat!Unwelcome(a, u)
    BY <2>1, <2>2, <2>3
  <2>5. /\ m_mem' \in [ChatUsers -> Present] /\ m_offence' = FALSE
        /\ \A u \in ChatUsers : SameMemory(u)
    BY <2>4, Delivers
  <2>6. m_msgs' \in Nat /\ \A u \in m_members' : u \in ChatUsers /\ m_mem[u].on
    BY <1>0, <2>1
  <2>7. QED
    BY <2>1, <2>5, <2>6, NothingMoves
<1>4. QED
  BY <1>1, <1>2, <1>3

LEMMA TogglesBlocking ==
  ASSUME ChatInv, NEW a \in ChatUsers, Chat!ToggleBlockingDMs(a)
  PROVE  ChatInv'
<1>1. /\ Chat!Atomic(a) /\ m_mem' = [m_mem EXCEPT ![a].pm_private = ~@]
      /\ UNCHANGED <<m_members, m_relations, m_silences, m_mail, m_msgs, m_offence>>
  BY DEF Chat!ToggleBlockingDMs, Chat!Quiet, Chat!tables
<1>2. m_mem' \in [ChatUsers -> Present] /\ \A u \in ChatUsers : SameMemory(u)
  BY ZenonT(60), <1>1 DEF ChatInv, ChatTyped, Present, SameMemory
<1>3. \A u \in ChatUsers : SameTables(u)
  BY <1>1 DEF SameTables
<1>4. Calm(a) => Calm(a)'
  BY <1>1, <1>2 DEF Calm, SameMemory
<1>5. \A u \in ChatUsers : InStep(u)'
  BY <1>1, <1>2, <1>3, <1>4, AtOnce
<1>6. ChatTyped'
  BY <1>1, <1>2 DEF ChatInv, ChatTyped, Chat!Atomic, SameMemory
<1>7. QED
  BY <1>1, <1>5, <1>6 DEF ChatInv

\* What a request of who logs out has told memory no longer matters.
LEMMA LogsOut ==
  ASSUME ChatInv, NEW a \in ChatUsers, Chat!logout(a)
  PROVE  ChatInv'
<1>1. /\ m_mem' = [m_mem EXCEPT ![a] = Chat!Offline] /\ m_members' = m_members \ {a}
      /\ UNCHANGED <<m_relations, m_silences, m_mail, m_tasks, m_msgs, m_mixed, m_offence>>
  BY DEF Chat!logout, Chat!Quiet, Chat!tables
<1>2. /\ m_mem' \in [ChatUsers -> Present] /\ ~m_mem'[a].on
      /\ \A u \in ChatUsers \ {a} : m_mem'[u] = m_mem[u]
  BY <1>1, OfflineIsPresent DEF ChatInv, ChatTyped
<1>3. ChatTyped'
  BY <1>1, <1>2 DEF ChatInv, ChatTyped
<1>4. Others(a)
  BY <1>1, <1>2 DEF Others, SameMemory, SameTables, SameRequests, Of
<1>5. ASSUME a \notin m_mixed' PROVE InStep(a)'
  <2>1. /\ \A s, t \in Tasks : Of(s, a) /\ Of(t, a) => s = t
        /\ \A t \in Tasks : Of(t, a) => Carries(m_tasks[t], a)
    BY <1>1, <1>5 DEF ChatInv, InStep
  <2>2. \A t \in Tasks : Of(t, a) => Carries(m_tasks[t], a)'
    BY <1>1, <1>2, <2>1 DEF Carries
  <2>3. \A t \in Tasks : Of(t, a)' <=> Of(t, a)
    BY <1>1 DEF Of
  <2>4. RowsKnown(a)' /\ SilenceKnown(a)'
    BY <1>2 DEF RowsKnown, SilenceKnown
  <2>5. QED
    BY <2>1, <2>2, <2>3, <2>4 DEF InStep
<1>6. QED
  BY <1>1, <1>3, <1>4, <1>5, OneActs DEF ChatInv

-----------------------------------------------------------------------------
(* Requests go on and end.                                                 *)

\* A request ends that has written no row of its user's, nor told memory anything.
LEMMA QuietEnd ==
  ASSUME ChatInv, NEW t \in Tasks, NEW a \in ChatUsers, m_tasks[t].u = a,
         m_tasks[t].op \notin {"idle", "relation", "silence"}, Chat!End(t),
         m_mem' \in [ChatUsers -> Present], \A u \in ChatUsers : SameMemory(u),
         UNCHANGED <<m_members, m_relations, m_silences>>,
         m_mail' \subseteq [msg : Letters, read : BOOLEAN], m_msgs' \in Nat, m_offence' = FALSE
  PROVE  ChatInv'
<1>1. ChatTyped'
  <2>1. /\ m_tasks' = [m_tasks EXCEPT ![t] = Chat!NoTask]
        /\ m_tasks' \in [Tasks -> {Chat!NoTask} \cup Errands]
    BY Ends
  <2>2. Chat!NoTask.op = "idle"
    BY DEF Chat!NoTask
  <2>3. QED
    BY <2>1, <2>2 DEF ChatInv, ChatTyped, SameMemory
<1>2. a \notin m_mixed => Calm(a)'
  <2> SUFFICES ASSUME a \notin m_mixed PROVE Calm(a)'
    OBVIOUS
  <2>1. Calm(a)
    BY Alone DEF Calm
  <2>2. QED
    BY <2>1 DEF Calm, SameMemory
<1>3. \A u \in ChatUsers : SameTables(u)
  BY DEF SameTables
<1>4. \A u \in ChatUsers : InStep(u)'
  BY <1>2, <1>3, RequestEnds
<1>5. QED
  BY <1>1, <1>4 DEF ChatInv

LEMMA WhoseTask ==
  ASSUME ChatInv, NEW t \in Tasks, m_tasks[t].op # "idle"
  PROVE  m_tasks[t] \in Errands /\ m_tasks[t].u \in ChatUsers /\ m_tasks[t].v \in ChatUsers
<1>1. m_tasks[t] \in {Chat!NoTask} \cup Errands
  BY DEF ChatInv, ChatTyped
<1>2. Chat!NoTask.op = "idle"
  BY DEF Chat!NoTask
<1>3. m_tasks[t] \in Errands
  BY <1>1, <1>2
<1>4. QED
  BY <1>3 DEF Errands

LEMMA MailEnds ==
  ASSUME ChatInv, NEW t \in Tasks, Chat!mail_create(t) \/ Chat!mark_channel_as_read(t)
  PROVE  ChatInv'
<1> DEFINE k == m_tasks[t]
<1>1. /\ k.op \in {"pm", "markasread"} /\ Chat!End(t)
      /\ UNCHANGED <<m_mem, m_members, m_relations, m_silences, m_msgs, m_offence>>
  BY DEF Chat!mail_create, Chat!mark_channel_as_read, Chat!At, Chat!Quiet
<1>2. k \in Errands
  BY <1>1, WhoseTask
<1>3. PICK a \in ChatUsers : m_tasks[t].u = a
  BY <1>2 DEF Errands
<1>4. m_mail' \subseteq [msg : Letters, read : BOOLEAN]
  <2>1. CASE Chat!mail_create(t)
    <3>1. Chat!Mail(Chat!Message(k.n, k.u, k.v)) \in [msg : Letters, read : BOOLEAN]
      BY <1>2 DEF Errands, Chat!Mail, Chat!Message, Letters
    <3>2. QED
      BY <2>1, <3>1 DEF Chat!mail_create, ChatInv, ChatTyped
  <2>2. CASE Chat!mark_channel_as_read(t)
    <3>1. \A x \in m_mail : /\ x \in [msg : Letters, read : BOOLEAN]
                            /\ [x EXCEPT !.read = TRUE] \in [msg : Letters, read : BOOLEAN]
      BY DEF ChatInv, ChatTyped
    <3>2. m_mail' = Chat!mark_conversation_as_read(k.u, k.v)
      BY <2>2 DEF Chat!mark_channel_as_read
    <3>3. QED
      BY <3>1, <3>2 DEF Chat!mark_conversation_as_read
  <2>3. QED
    BY <2>1, <2>2
<1>5. /\ m_mem' \in [ChatUsers -> Present] /\ m_msgs' \in Nat /\ m_offence' = FALSE
      /\ \A u \in ChatUsers : SameMemory(u)
  BY <1>1 DEF ChatInv, ChatTyped, SameMemory
<1>6. QED
  BY <1>1, <1>3, <1>4, <1>5, QuietEnd

LEMMA CommandEndsInChannel ==
  ASSUME ChatInv, NEW t \in Tasks, NEW hidden \in BOOLEAN, Chat!process_commands(t, hidden)
  PROVE  ChatInv'
<1>1. /\ m_tasks[t].op = "command" /\ Chat!End(t)
      /\ UNCHANGED <<m_members, m_relations, m_silences, m_mail, m_msgs>>
  BY DEF Chat!process_commands, Chat!At, Chat!tables
<1>2. PICK a \in ChatUsers : m_tasks[t].u = a
  BY <1>1, WhoseTask
<1>3. /\ m_msgs' \in Nat /\ m_mail' \subseteq [msg : Letters, read : BOOLEAN]
      /\ m_mem \in [ChatUsers -> Present] /\ m_msgs \in Nat /\ m_offence = FALSE
      /\ \A u \in m_members : u \in ChatUsers /\ m_mem[u].on
  BY <1>1 DEF ChatInv, ChatTyped
<1>4. /\ m_mem' \in [ChatUsers -> Present] /\ m_offence' = FALSE
      /\ \A u \in ChatUsers : SameMemory(u)
  <2>1. CASE hidden
    <3> DEFINE to == Chat!send_selective(Moderators \ {a})
    <3>1. /\ m_mem' = [u \in ChatUsers |-> IF u \in to
               THEN [m_mem[u] EXCEPT !.queue = @ \cup {Chat!Message(m_msgs, a, u)}] ELSE m_mem[u]]
          /\ m_offence' = m_offence
      BY <1>2, <2>1 DEF Chat!process_commands
    <3> HIDE DEF to
    <3>2. ASSUME NEW u \in ChatUsers PROVE m_mem'[u] \in Present /\ SameMemory(u)
      <4>1. m_mem[u] \in Present /\ Chat!Message(m_msgs, a, u) \in Letters
        BY <1>3 DEF Chat!Message, Letters
      <4>2. \/ m_mem'[u] = [m_mem[u] EXCEPT !.queue = @ \cup {Chat!Message(m_msgs, a, u)}]
            \/ m_mem'[u] = m_mem[u]
        BY <3>1
      <4>3. QED
        BY <4>1, <4>2 DEF Present, SameMemory
    <3>3. QED
      BY <1>3, <3>1, <3>2
  <2>2. CASE ~hidden
    <3>1. Chat!Deliver(a, Chat!channel_send(a))
      BY <1>2, <2>2 DEF Chat!process_commands
    <3>2. /\ Chat!channel_send(a) \in SUBSET ChatUsers
          /\ \A u \in Chat!channel_send(a) : m_mem[u].on /\ a \notin m_mem[u].blocks
      BY <1>3 DEF Chat!channel_send
    <3>3. Chat!Busy(a)
      BY <1>1, <1>2 DEF Chat!Busy
    <3>4. \A u \in Chat!channel_send(a) : ~Chat!Unwelcome(a, u)
      BY <3>2, <3>3, Welcome
    <3>5. PICK q \in SUBSET ChatUsers : Chat!Deliver(a, q) /\ \A u \in q : ~Chat!Unwelcome(a, u)
      BY <3>1, <3>2, <3>4
    <3>6. QED
      BY <3>5, Delivers
  <2>3. QED
    BY <2>1, <2>2
<1>5. QED
  BY <1>1, <1>2, <1>3, <1>4, QuietEnd

\* A request that stays the request of its user.
LEMMA RequestGoesOnFor ==
  ASSUME ChatInv, NEW t \in Tasks, NEW k \in Errands, m_tasks[t].op = k.op,
         NEW a \in ChatUsers, m_tasks[t].u = a, k.u = a, k.op \notin {"idle", "relation", "silence"},
         m_tasks' = [m_tasks EXCEPT ![t] = k], m_mixed' = m_mixed,
         \A u \in ChatUsers : SameMemory(u), \A u \in ChatUsers \ {a} : SameTables(u),
         \A w \in ChatUsers : m_relations'[a][w] = "block" => m_relations[a][w] = "block",
         a \in m_silences' <=> a \in m_silences,
         Carries(m_tasks[t], a) => Carries(k, a)'
  PROVE  \A u \in ChatUsers : InStep(u)'
<1>1. m_tasks'[t] = k /\ \A s \in Tasks : s # t => m_tasks'[s] = m_tasks[s]
  BY DEF ChatInv, ChatTyped
<1>2. Others(a)
  BY <1>1 DEF Others, SameRequests, Of
<1>3. ASSUME a \notin m_mixed' PROVE InStep(a)'
  <2>1. /\ \A s \in Tasks : Of(s, a) => s = t
        /\ Carries(m_tasks[t], a)
        /\ Calm(a)
    BY <1>3, Alone DEF Calm
  <2>2. \A s \in Tasks : Of(s, a)' => s = t
    BY <1>1, <2>1 DEF Of
  <2>3. \A s \in Tasks : Of(s, a)' => Carries(m_tasks[s], a)'
    BY <1>1, <2>1, <2>2
  <2>4. RowsKnown(a)' /\ SilenceKnown(a)'
    BY <2>1 DEF Calm, RowsKnown, SilenceKnown, SameMemory
  <2>5. QED
    BY <2>2, <2>3, <2>4 DEF InStep
<1>4. QED
  BY <1>2, <1>3, OneActs

LEMMA ErrandOnItsWay ==
  ASSUME NEW k \in Errands, NEW c, NEW f
  PROVE  /\ [k EXCEPT !.pc = c, !.p = f] =
             [op |-> k.op, u |-> k.u, v |-> k.v, pc |-> c, p |-> f, n |-> k.n]
         /\ [k EXCEPT !.pc = c] =
             [op |-> k.op, u |-> k.u, v |-> k.v, pc |-> c, p |-> k.p, n |-> k.n]
         /\ [k EXCEPT !.p = f] =
             [op |-> k.op, u |-> k.u, v |-> k.v, pc |-> k.pc, p |-> f, n |-> k.n]
<1>1. k = [op |-> k.op, u |-> k.u, v |-> k.v, pc |-> k.pc, p |-> k.p, n |-> k.n]
  BY DEF Errands
<1>2. [k EXCEPT !.pc = c] =
        [op |-> k.op, u |-> k.u, v |-> k.v, pc |-> c, p |-> k.p, n |-> k.n]
  BY <1>1
<1>3. PICK m : m = [k EXCEPT !.pc = c]
  OBVIOUS
<1>4. m = [op |-> k.op, u |-> k.u, v |-> k.v, pc |-> c, p |-> k.p, n |-> k.n]
  BY <1>2, <1>3
<1>5. [m EXCEPT !.p = f] =
        [op |-> k.op, u |-> k.u, v |-> k.v, pc |-> c, p |-> f, n |-> k.n]
  BY <1>4
<1>6. [k EXCEPT !.p = f] =
        [op |-> k.op, u |-> k.u, v |-> k.v, pc |-> k.pc, p |-> f, n |-> k.n]
  BY <1>1
<1>7. QED
  BY <1>2, <1>3, <1>5, <1>6

LEMMA LoginGoesOn ==
  ASSUME ChatInv, NEW t \in Tasks, Chat!relationships_from_sql(t)
  PROVE  ChatInv'
<1> DEFINE k == m_tasks[t]
           p == k.p
           b == [p EXCEPT !.friends = Chat!fetch_all(k.u, "friend"),
                          !.blocks = Chat!fetch_all(k.u, "block")]
           j == [op |-> "login", u |-> k.u, v |-> k.v, pc |-> "mail", p |-> b, n |-> k.n]
<1>1. /\ k.op = "login" /\ k.pc = "relations" /\ m_mixed' = m_mixed
      /\ UNCHANGED <<m_mem, m_members, m_relations, m_silences, m_mail, m_msgs, m_offence>>
  BY DEF Chat!relationships_from_sql, Chat!At, Chat!Quiet, Chat!tables
<1>2. k \in Errands /\ p \in Present /\ p.on
  BY <1>1, WhoseTask DEF ChatInv, ChatTyped, Errands
<1>3. PICK a \in ChatUsers : k.u = a
  BY <1>2 DEF Errands
<1>4. m_tasks' = [m_tasks EXCEPT ![t] = j]
  <2>1. m_tasks' = [m_tasks EXCEPT ![t] = [k EXCEPT !.pc = "mail", !.p = b]]
    BY DEF Chat!relationships_from_sql
  <2> HIDE DEF b
  <2>2. PICK c : c = b
    OBVIOUS
  <2>3. [k EXCEPT !.pc = "mail", !.p = c] =
          [op |-> k.op, u |-> k.u, v |-> k.v, pc |-> "mail", p |-> c, n |-> k.n]
    BY <1>2, ErrandOnItsWay
  <2>4. QED
    BY <1>1, <2>1, <2>2, <2>3
<1>5. /\ b \in Present /\ b.on /\ b.silenced = p.silenced
      /\ b.friends = {w \in ChatUsers : m_relations[a][w] = "friend"}
      /\ b.blocks = {w \in ChatUsers : m_relations[a][w] = "block"}
  BY <1>2, <1>3 DEF Present, Chat!fetch_all
<1> HIDE DEF p, b
<1>6. /\ j \in Errands /\ j.op = "login" /\ j.u = a /\ j.p = b /\ j.pc = "mail"
  BY <1>2, <1>3, <1>5 DEF Errands
<1>7. Carries(k, a) => Carries(j, a)
  BY <1>1, <1>5, <1>6 DEF Carries, p
<1> HIDE DEF j
<1>8. PICK q \in Errands : q = j
  BY <1>6
<1>9. Carries(k, a) => Carries(q, a)'
  BY <1>1, <1>7, <1>8 DEF Carries
<1>10. \A u \in ChatUsers : SameMemory(u) /\ SameTables(u)
  BY <1>1 DEF SameMemory, SameTables
<1>11. \A u \in ChatUsers : InStep(u)'
  BY <1>1, <1>3, <1>4, <1>6, <1>8, <1>9, <1>10, RequestGoesOnFor
<1>12. ChatTyped'
  BY <1>1, <1>4, <1>5, <1>6, <1>8 DEF ChatInv, ChatTyped
<1>13. QED
  BY <1>1, <1>11, <1>12 DEF ChatInv

\* The login ends: memory has what it read.
LEMMA LoginEnds ==
  ASSUME ChatInv, NEW t \in Tasks, Chat!fetch_unread_mail(t)
  PROVE  ChatInv'
<1>1. /\ m_tasks[t].op = "login" /\ m_tasks[t].pc = "mail" /\ Chat!End(t)
      /\ UNCHANGED <<m_members, m_relations, m_silences, m_mail, m_msgs, m_offence>>
  BY DEF Chat!fetch_unread_mail, Chat!At, Chat!Quiet, Chat!tables
<1>2. PICK p \in Present : p = m_tasks[t].p
  BY <1>1, WhoseTask DEF Errands
<1>3. PICK a \in ChatUsers : m_tasks[t].u = a
  BY <1>1, WhoseTask
<1>4. PICK q \in SUBSET Letters : m_mem' = [m_mem EXCEPT ![a] = [p EXCEPT !.queue = q]]
  <2>1. {x.msg : x \in Chat!fetch_all_mail_to_user(a)} \in SUBSET Letters
    BY DEF Chat!fetch_all_mail_to_user, ChatInv, ChatTyped
  <2>2. QED
    BY <1>2, <1>3, <2>1 DEF Chat!fetch_unread_mail
<1>5. /\ m_mem' \in [ChatUsers -> Present]
      /\ m_mem'[a].on /\ m_mem'[a].blocks = p.blocks /\ m_mem'[a].friends = p.friends
      /\ m_mem'[a].silenced = p.silenced
      /\ \A u \in ChatUsers \ {a} : m_mem'[u] = m_mem[u]
  <2>1. p.on /\ [p EXCEPT !.queue = q] \in Present
    BY <1>1, <1>2 DEF ChatInv, ChatTyped, Present
  <2>2. QED
    BY <1>4, <2>1 DEF ChatInv, ChatTyped, Present
<1>6. \A u \in ChatUsers \ {a} : SameMemory(u) /\ SameTables(u)
  BY <1>1, <1>5 DEF SameMemory, SameTables
<1>7. a \notin m_mixed => Calm(a)'
  <2> SUFFICES ASSUME a \notin m_mixed PROVE Calm(a)'
    OBVIOUS
  <2>1. Carries(m_tasks[t], a)
    BY <1>1, <1>3, Alone
  <2>2. QED
    BY <1>1, <1>2, <1>5, <2>1 DEF Carries, Calm
<1>8. \A u \in ChatUsers : InStep(u)'
  BY <1>1, <1>3, <1>6, <1>7, RequestEnds
<1>9. ChatTyped'
  <2>1. /\ m_tasks' = [m_tasks EXCEPT ![t] = Chat!NoTask]
        /\ m_tasks' \in [Tasks -> {Chat!NoTask} \cup Errands]
    BY <1>1, <1>3, Ends
  <2>2. Chat!NoTask.op = "idle"
    BY DEF Chat!NoTask
  <2>3. QED
    BY <1>1, <1>5, <2>1, <2>2 DEF ChatInv, ChatTyped
<1>10. QED
  BY <1>1, <1>8, <1>9 DEF ChatInv

\* A request goes on to its next statement.
LEMMA GoesOnTo ==
  ASSUME ChatInv, NEW t \in Tasks, NEW c \in {"insert"}, Chat!Goto(t, c),
         m_tasks[t].op \in {"pm", "web friend"},
         UNCHANGED <<m_mem, m_members, m_silences, m_mail, m_msgs, m_offence>>,
         NEW a \in ChatUsers, m_tasks[t].u = a,
         m_relations' \in [ChatUsers -> [ChatUsers -> Rows]],
         \A u \in ChatUsers \ {a} : m_relations'[u] = m_relations[u],
         \A w \in ChatUsers : m_relations'[a][w] = "block" => m_relations[a][w] = "block"
  PROVE  ChatInv'
<1>1. m_tasks[t] \in Errands
  BY WhoseTask
<1>2. PICK k \in Errands : k = [m_tasks[t] EXCEPT !.pc = c] /\ k.op = m_tasks[t].op /\ k.u = a
  <2>1. PICK j \in Errands : j = m_tasks[t]
    BY <1>1
  <2>2. [j EXCEPT !.pc = c] =
          [op |-> j.op, u |-> j.u, v |-> j.v, pc |-> c, p |-> j.p, n |-> j.n]
    BY ErrandOnItsWay
  <2>3. [j EXCEPT !.pc = c] \in Errands
    BY <2>2 DEF Errands
  <2>4. QED
    BY <2>1, <2>2, <2>3
<1>3. m_tasks' = [m_tasks EXCEPT ![t] = k] /\ m_mixed' = m_mixed
  BY <1>2 DEF Chat!Goto
<1>4. Carries(k, a)'
  BY <1>2 DEF Carries
<1>5. (\A u \in ChatUsers : SameMemory(u)) /\ \A u \in ChatUsers \ {a} : SameTables(u)
  BY DEF SameMemory, SameTables
<1>6. \A u \in ChatUsers : InStep(u)'
  BY <1>2, <1>3, <1>4, <1>5, RequestGoesOnFor
<1>7. ChatTyped'
  BY <1>2, <1>3 DEF ChatInv, ChatTyped
<1>8. QED
  BY <1>6, <1>7 DEF ChatInv

LEMMA TargetsFetched ==
  ASSUME ChatInv, NEW t \in Tasks, Chat!FetchTarget(t)
  PROVE  ChatInv'
<1>1. /\ m_tasks[t].op = "pm" /\ (Chat!End(t) \/ Chat!Goto(t, "insert"))
      /\ UNCHANGED <<m_mem, m_members, m_relations, m_silences, m_mail, m_msgs, m_offence>>
  BY DEF Chat!FetchTarget, Chat!At, Chat!Quiet, Chat!tables
<1>2. PICK a \in ChatUsers : m_tasks[t].u = a
  BY <1>1, WhoseTask
<1>3. /\ m_mem' \in [ChatUsers -> Present] /\ m_msgs' \in Nat /\ m_offence' = FALSE
      /\ m_mail' \subseteq [msg : Letters, read : BOOLEAN]
      /\ m_relations' \in [ChatUsers -> [ChatUsers -> Rows]]
      /\ \A u \in ChatUsers : SameMemory(u)
  BY <1>1 DEF ChatInv, ChatTyped, SameMemory
<1>4. CASE Chat!End(t)
  BY <1>1, <1>2, <1>3, <1>4, QuietEnd
<1>5. CASE Chat!Goto(t, "insert")
  BY <1>1, <1>2, <1>3, <1>5, GoesOnTo
<1>6. QED
  BY <1>1, <1>4, <1>5

\* A request ends with what it writes to the tables, and may tell memory of it.
LEMMA WritingEnds ==
  ASSUME ChatInv, NEW t \in Tasks, NEW a \in ChatUsers, m_tasks[t].u = a,
         m_tasks[t].op # "idle", Chat!End(t), m_mem' \in [ChatUsers -> Present],
         \A u \in ChatUsers \ {a} : SameMemory(u) /\ SameTables(u),
         m_mem'[a].on = m_mem[a].on, m_relations' \in [ChatUsers -> [ChatUsers -> Rows]],
         UNCHANGED <<m_members, m_mail, m_msgs, m_offence>>,
         a \notin m_mixed => Calm(a)'
  PROVE  ChatInv'
<1>1. \A u \in ChatUsers : InStep(u)'
  BY RequestEnds
<1>2. /\ m_tasks' = [m_tasks EXCEPT ![t] = Chat!NoTask]
      /\ m_tasks' \in [Tasks -> {Chat!NoTask} \cup Errands]
  BY Ends
<1>3. Chat!NoTask.op = "idle"
  BY DEF Chat!NoTask
<1>4. ChatTyped'
  BY <1>2, <1>3 DEF ChatInv, ChatTyped, SameMemory
<1>5. QED
  BY <1>1, <1>4 DEF ChatInv

LEMMA RelationsWritten ==
  ASSUME ChatInv, NEW t \in Tasks, Chat!WriteRelation(t)
  PROVE  ChatInv'
<1>1. /\ m_tasks[t].op = "relation" /\ Chat!End(t)
      /\ UNCHANGED <<m_mem, m_members, m_silences, m_mail, m_msgs, m_offence>>
  BY DEF Chat!WriteRelation, Chat!Quiet
<1>2. PICK a \in ChatUsers, v \in ChatUsers, c \in Rows :
        m_tasks[t].u = a /\ m_tasks[t].v = v /\ m_tasks[t].pc = c
  BY <1>1, WhoseTask DEF ChatInv, ChatTyped
<1>3. m_relations' = [m_relations EXCEPT ![a][v] = c]
  BY <1>2 DEF Chat!WriteRelation, Chat!create
<1>4. /\ m_relations' \in [ChatUsers -> [ChatUsers -> Rows]] /\ m_relations'[a][v] = c
      /\ \A u \in ChatUsers \ {a} : m_relations'[u] = m_relations[u]
      /\ \A w \in ChatUsers \ {v} : m_relations'[a][w] = m_relations[a][w]
  BY <1>3 DEF ChatInv, ChatTyped
<1>5. /\ \A u \in ChatUsers \ {a} : SameMemory(u) /\ SameTables(u)
      /\ m_mem' \in [ChatUsers -> Present]
  BY <1>1, <1>4 DEF SameMemory, SameTables, ChatInv, ChatTyped
<1>6. a \notin m_mixed => Calm(a)'
  <2> SUFFICES ASSUME a \notin m_mixed PROVE Calm(a)'
    OBVIOUS
  <2>1. /\ Carries(m_tasks[t], a)
        /\ m_mem[a].on => \A w \in ChatUsers : m_relations[a][w] = "block" =>
             (w \in m_mem[a].blocks /\ w \notin m_mem[a].friends) \/ v = w
        /\ m_mem[a].on /\ a \in m_silences => m_mem[a].silenced
    BY <1>1, <1>2, Alone
  <2>2. QED
    BY <1>1, <1>2, <1>4, <2>1 DEF Carries, Calm
<1>7. QED
  BY <1>1, <1>2, <1>4, <1>5, <1>6, WritingEnds

LEMMA RelationsOnTheSite ==
  ASSUME ChatInv, NEW t \in Tasks,
         Chat!DeleteBlock(t) \/ Chat!InsertFriend(t) \/ Chat!DeleteFriend(t)
  PROVE  ChatInv'
<1>1. /\ m_tasks[t].op \in {"web friend", "web unfriend"}
      /\ UNCHANGED <<m_members, m_silences, m_mail, m_msgs, m_offence>>
  BY DEF Chat!DeleteBlock, Chat!InsertFriend, Chat!DeleteFriend, Chat!At, Chat!Quiet
<1>2. PICK a \in ChatUsers, v \in ChatUsers : m_tasks[t].u = a /\ m_tasks[t].v = v
  BY <1>1, WhoseTask
<1>3. m_mem[a] \in Present
  BY DEF ChatInv, ChatTyped
<1>4. ASSUME NEW c \in {"friend", "none"}, m_relations' = [m_relations EXCEPT ![a][v] = c]
      PROVE  /\ m_relations' \in [ChatUsers -> [ChatUsers -> Rows]] /\ m_relations'[a][v] = c
             /\ \A u \in ChatUsers \ {a} : m_relations'[u] = m_relations[u]
             /\ \A w \in ChatUsers \ {v} : m_relations'[a][w] = m_relations[a][w]
  BY <1>4 DEF ChatInv, ChatTyped, Rows
<1>5. a \notin m_mixed => Calm(a)
  BY <1>1, <1>2, Alone DEF Calm
<1>6. CASE Chat!DeleteBlock(t)
  <2>1. /\ Chat!Goto(t, "insert") /\ m_mem' = m_mem /\ m_tasks[t].op = "web friend"
        /\ m_relations' = [m_relations EXCEPT ![a][v] = "none"]
    BY <1>2, <1>6 DEF Chat!DeleteBlock, Chat!delete, Chat!NoRow, Chat!At
  <2>2. QED
    BY <1>1, <1>2, <1>4, <2>1, GoesOnTo
<1>7. CASE Chat!InsertFriend(t) \/ Chat!DeleteFriend(t)
  <2>1. /\ Chat!End(t)
        /\ \/ /\ UNCHANGED <<m_relations, m_mem>>
           \/ /\ m_relations' = [m_relations EXCEPT ![a][v] = "friend"]
              /\ \/ m_mem' = [m_mem EXCEPT ![a].friends = @ \cup {v}]
                 \/ m_mem' = m_mem /\ ~m_mem[a].on
           \/ /\ m_relations' = [m_relations EXCEPT ![a][v] = "none"]
              /\ \/ m_mem' = [m_mem EXCEPT ![a].friends = @ \ {v}]
                 \/ m_mem' = m_mem /\ ~m_mem[a].on
    BY <1>2, <1>7 DEF Chat!InsertFriend, Chat!DeleteFriend, Chat!create, Chat!delete, Chat!NoRow,
       Chat!Online
  <2>2. /\ m_mem' \in [ChatUsers -> Present] /\ m_mem'[a].on = m_mem[a].on
        /\ m_mem'[a].silenced = m_mem[a].silenced /\ m_mem'[a].blocks = m_mem[a].blocks
        /\ m_mem'[a].friends \subseteq m_mem[a].friends \cup {v}
        /\ \A u \in ChatUsers \ {a} : m_mem'[u] = m_mem[u]
    <3>1. CASE m_mem' = m_mem
      BY <3>1 DEF ChatInv, ChatTyped
    <3>2. CASE m_mem' = [m_mem EXCEPT ![a].friends = @ \cup {v}]
      BY <1>3, <3>2 DEF ChatInv, ChatTyped, Present
    <3>3. CASE m_mem' = [m_mem EXCEPT ![a].friends = @ \ {v}]
      BY <1>3, <3>3 DEF ChatInv, ChatTyped, Present
    <3>4. QED
      BY <2>1, <3>1, <3>2, <3>3
  <2>4. CASE UNCHANGED <<m_relations, m_mem>>
    <3>1. /\ m_relations' \in [ChatUsers -> [ChatUsers -> Rows]]
          /\ \A u \in ChatUsers \ {a} : SameMemory(u) /\ SameTables(u)
      BY <1>1, <2>4 DEF ChatInv, ChatTyped, SameMemory, SameTables
    <3>2. a \notin m_mixed => Calm(a)'
      BY <1>1, <1>5, <2>4 DEF Calm
    <3>3. QED
      BY <1>1, <1>2, <2>1, <2>2, <3>1, <3>2, WritingEnds
  <2>5. ASSUME NEW c \in {"friend", "none"}, m_relations' = [m_relations EXCEPT ![a][v] = c]
        PROVE  ChatInv'
    <3>1. /\ m_relations' \in [ChatUsers -> [ChatUsers -> Rows]]
          /\ \A u \in ChatUsers \ {a} : SameMemory(u) /\ SameTables(u)
      BY <1>1, <1>4, <2>2, <2>5 DEF SameMemory, SameTables
    <3>2. a \notin m_mixed => Calm(a)'
      BY <1>1, <1>4, <1>5, <2>2, <2>5 DEF Calm
    <3>3. QED
      BY <1>1, <1>2, <2>1, <2>2, <3>1, <3>2, WritingEnds
  <2>6. QED
    BY <2>1, <2>4, <2>5
<1>8. QED
  BY <1>6, <1>7

LEMMA SilencesWritten ==
  ASSUME ChatInv, NEW t \in Tasks, Chat!silence(t) \/ Chat!unsilence(t)
  PROVE  ChatInv'
<1>1. /\ m_tasks[t].op = "silence" /\ Chat!End(t)
      /\ UNCHANGED <<m_mem, m_members, m_relations, m_mail, m_msgs, m_offence>>
  BY DEF Chat!silence, Chat!unsilence, Chat!At, Chat!Quiet
<1>2. PICK a \in ChatUsers : m_tasks[t].u = a
  BY <1>1, WhoseTask
<1>3. \/ m_tasks[t].pc = "on" /\ m_silences' = m_silences \cup {a}
      \/ m_tasks[t].pc = "off" /\ m_silences' = m_silences \ {a}
  BY <1>2 DEF Chat!silence, Chat!unsilence, Chat!At
<1>4. /\ \A u \in ChatUsers \ {a} : SameMemory(u) /\ SameTables(u)
      /\ m_mem' \in [ChatUsers -> Present] /\ m_relations' \in [ChatUsers -> [ChatUsers -> Rows]]
  BY <1>1, <1>3 DEF SameMemory, SameTables, ChatInv, ChatTyped
<1>5. a \notin m_mixed => Calm(a)'
  <2> SUFFICES ASSUME a \notin m_mixed PROVE Calm(a)'
    OBVIOUS
  <2>1. /\ Carries(m_tasks[t], a)
        /\ m_mem[a].on => \A w \in ChatUsers : m_relations[a][w] = "block" =>
             w \in m_mem[a].blocks /\ w \notin m_mem[a].friends
    BY <1>1, <1>2, Alone
  <2>2. QED
    BY <1>1, <1>3, <2>1 DEF Carries, Calm
<1>6. QED
  BY <1>1, <1>2, <1>4, <1>5, WritingEnds

LEMMA RequestsFail ==
  ASSUME ChatInv, NEW t \in Tasks, Chat!TaskFails(t)
  PROVE  ChatInv'
<1>1. /\ m_tasks[t].op # "idle" /\ m_tasks' = [m_tasks EXCEPT ![t] = Chat!NoTask]
      /\ UNCHANGED <<m_mem, m_members, m_relations, m_silences, m_mail, m_msgs, m_offence>>
  BY DEF Chat!TaskFails, Chat!tables
<1>2. PICK a \in ChatUsers : m_tasks[t].u = a
  BY <1>1, WhoseTask
<1>3. m_mixed' = m_mixed \cup {a}
  BY <1>2 DEF Chat!TaskFails
<1>4. /\ m_tasks'[t].op = "idle" /\ \A s \in Tasks : s # t => m_tasks'[s] = m_tasks[s]
      /\ m_tasks' \in [Tasks -> {Chat!NoTask} \cup Errands]
  BY <1>1 DEF ChatInv, ChatTyped, Chat!NoTask
<1>5. Others(a)
  BY <1>1, <1>2, <1>3, <1>4 DEF Others, SameMemory, SameTables, SameRequests, Of
<1>6. \A u \in ChatUsers : InStep(u)'
  BY <1>3, <1>5, OneActs
<1>7. ChatTyped'
  BY <1>1, <1>4 DEF ChatInv, ChatTyped
<1>8. QED
  BY <1>1, <1>6, <1>7 DEF ChatInv

LEMMA ErrandMade ==
  ASSUME NEW k \in Errands, NEW f \in Present, NEW g,
         g = [op |-> k.op, u |-> k.u, v |-> k.v, pc |-> k.pc, p |-> f, n |-> k.n]
  PROVE  /\ g \in Errands
         /\ g.op = k.op /\ g.u = k.u /\ g.v = k.v /\ g.pc = k.pc /\ g.p = f
BY DEF Errands

LEMMA NoLongerSilenced ==
  ASSUME NEW p \in Present
  PROVE  \E q \in Present : /\ q = [p EXCEPT !.silenced = FALSE]
                            /\ q.on = p.on /\ q.blocks = p.blocks /\ q.friends = p.friends
<1>1. PICK off \in BOOLEAN : off = FALSE
  OBVIOUS
<1>2. PICK q : q = [p EXCEPT !.silenced = off]
  OBVIOUS
<1>3. q \in Present /\ q.on = p.on /\ q.blocks = p.blocks /\ q.friends = p.friends
  BY <1>2 DEF Present
<1>4. QED
  BY <1>1, <1>2, <1>3

\* The end of a silence: no request of its user was about to begin one.
LEMMA SilencesEnd ==
  ASSUME ChatInv, NEW a \in ChatUsers, Chat!SilenceEnds(a)
  PROVE  ChatInv'
<1>1. /\ a \in m_silences /\ m_silences' = m_silences \ {a}
      /\ m_mem' = [m_mem EXCEPT ![a].silenced = FALSE]
      /\ m_tasks' = [t \in Tasks |-> IF m_tasks[t].u = a
                       THEN [m_tasks[t] EXCEPT !.p.silenced = FALSE] ELSE m_tasks[t]]
      /\ UNCHANGED <<m_members, m_relations, m_mail, m_msgs, m_mixed, m_offence>>
  BY DEF Chat!SilenceEnds, Chat!Quiet
<1>2. /\ m_mem' \in [ChatUsers -> Present] /\ m_mem'[a].on = m_mem[a].on
      /\ m_mem'[a].blocks = m_mem[a].blocks /\ m_mem'[a].friends = m_mem[a].friends
      /\ \A u \in ChatUsers \ {a} : m_mem'[u] = m_mem[u]
  <2>1. PICK p \in Present : p = m_mem[a]
    BY DEF ChatInv, ChatTyped
  <2>2. PICK q \in Present : /\ q = [p EXCEPT !.silenced = FALSE]
                             /\ q.on = p.on /\ q.blocks = p.blocks /\ q.friends = p.friends
    BY NoLongerSilenced
  <2>3. m_mem' = [m_mem EXCEPT ![a] = q]
    BY <1>1, <2>1, <2>2
  <2>4. QED
    BY <2>1, <2>2, <2>3 DEF ChatInv, ChatTyped
<1>3. ASSUME NEW t \in Tasks
      PROVE  /\ m_tasks'[t] \in {Chat!NoTask} \cup Errands
             /\ m_tasks[t].u # a => m_tasks'[t] = m_tasks[t]
             /\ m_tasks'[t].op = m_tasks[t].op /\ m_tasks'[t].u = m_tasks[t].u
             /\ m_tasks'[t].v = m_tasks[t].v /\ m_tasks'[t].pc = m_tasks[t].pc
             /\ m_tasks[t].op # "idle" =>
                  /\ m_tasks'[t].p.on = m_tasks[t].p.on
                  /\ m_tasks'[t].p.blocks = m_tasks[t].p.blocks
                  /\ m_tasks'[t].p.friends = m_tasks[t].p.friends
  <2>1. CASE m_tasks[t].u # a
    <3>1. m_tasks'[t] = m_tasks[t]
      BY <1>1, <2>1
    <3>2. QED
      BY <2>1, <3>1 DEF ChatInv, ChatTyped
  <2>2. CASE m_tasks[t].u = a /\ m_tasks[t] \in Errands
    <3>1. m_tasks'[t] = [m_tasks[t] EXCEPT !.p.silenced = FALSE]
      BY <1>1, <2>2
    <3>2. PICK j \in Errands : j = m_tasks[t]
      BY <2>2
    <3>3. PICK read \in Present : read = j.p
      BY DEF Errands
    <3>4. PICK f \in Present :
            /\ f = [read EXCEPT !.silenced = FALSE]
            /\ f.on = read.on /\ f.blocks = read.blocks /\ f.friends = read.friends
      BY NoLongerSilenced
    <3>5. m_tasks'[t] = [j EXCEPT !.p = f]
      BY <3>1, <3>2, <3>3, <3>4
    <3>6. m_tasks'[t] = [op |-> j.op, u |-> j.u, v |-> j.v, pc |-> j.pc, p |-> f, n |-> j.n]
      BY <3>5, ErrandOnItsWay
    <3>7. PICK g \in Errands :
            /\ g = m_tasks'[t]
            /\ g.op = j.op /\ g.u = j.u /\ g.v = j.v /\ g.pc = j.pc /\ g.p = f
      BY <3>6, ErrandMade
    <3>8. QED
      BY <2>2, <3>2, <3>3, <3>4, <3>7
  <2>3. CASE m_tasks[t].u = a /\ m_tasks[t] = Chat!NoTask
    <3>1. m_tasks'[t] = [Chat!NoTask EXCEPT !.p.silenced = FALSE]
      BY <1>1, <2>3
    <3>2. m_tasks'[t] = Chat!NoTask
      BY <3>1 DEF Chat!NoTask, Chat!Offline
    <3>3. QED
      BY <2>3, <3>2 DEF Chat!NoTask
  <2>4. QED
    BY <2>1, <2>2, <2>3 DEF ChatInv, ChatTyped
<1>4. ChatTyped'
  <2>1. m_tasks' \in [Tasks -> {Chat!NoTask} \cup Errands]
    BY <1>1, <1>3
  <2>2. \A t \in Tasks : /\ m_tasks'[t].op = "login" => m_tasks'[t].p.on
                         /\ m_tasks'[t].op = "relation" => m_tasks'[t].pc \in Rows
    BY <1>3 DEF ChatInv, ChatTyped
  <2>3. m_members' \subseteq {u \in ChatUsers : m_mem'[u].on}
    BY <1>1, <1>2 DEF ChatInv, ChatTyped
  <2>4. QED
    BY <1>1, <1>2, <2>1, <2>2, <2>3 DEF ChatInv, ChatTyped
<1>5. \A t \in Tasks, u \in ChatUsers : Of(t, u)' <=> Of(t, u)
  BY <1>3 DEF Of
<1>6. Others(a)
  BY <1>1, <1>2, <1>3, <1>5 DEF Others, SameMemory, SameTables, SameRequests, Of
<1>7. ASSUME a \notin m_mixed' PROVE InStep(a)'
  <2>1. /\ \A s, t \in Tasks : Of(s, a) /\ Of(t, a) => s = t
        /\ RowsKnown(a)
        /\ \A t \in Tasks : Of(t, a) => Carries(m_tasks[t], a)
    BY <1>1, <1>7 DEF ChatInv, InStep
  <2>2. RowsKnown(a)'
    BY <1>1, <1>2, <1>3, <2>1 DEF RowsKnown
  <2>3. SilenceKnown(a)'
    BY <1>1 DEF SilenceKnown
  <2>4. ASSUME NEW t \in Tasks, Of(t, a) PROVE Carries(m_tasks[t], a)'
    <3>1. Carries(m_tasks[t], a)
      BY <2>1, <2>4
    <3>2. a \notin m_silences' /\ m_tasks[t].op # "idle"
      BY <1>1, <2>4 DEF Of
    <3>3. ~(m_tasks[t].op = "silence" /\ m_tasks[t].pc = "on")
      BY <1>1, <3>1 DEF Carries
    <3>4. QED
      BY <1>1, <1>2, <1>3, <3>1, <3>2, <3>3 DEF Carries
  <2>5. QED
    BY <1>5, <2>1, <2>2, <2>3, <2>4 DEF InStep
<1>8. QED
  BY <1>1, <1>4, <1>6, <1>7, OneActs DEF ChatInv

-----------------------------------------------------------------------------
LEMMA ChatBegins == Chat!Init => ChatInv
<1> SUFFICES ASSUME Chat!Init PROVE ChatInv
  OBVIOUS
<1>1. PICK on \in SUBSET ChatUsers :
        m_mem = [u \in ChatUsers |-> IF u \in on
                  THEN [Chat!Offline EXCEPT !.on = TRUE, !.friends = Chat!fetch_all(u, "friend"),
                                            !.blocks = Chat!fetch_all(u, "block")]
                  ELSE Chat!Offline]
  BY DEF Chat!Init
<1>2. /\ m_relations \in [ChatUsers -> [ChatUsers -> Rows]]
      /\ m_members = {} /\ m_silences = {} /\ m_mail = {} /\ m_offence = FALSE
      /\ m_tasks = [t \in Tasks |-> Chat!NoTask] /\ m_msgs = 0
  <2>1. m_relations \in [ChatUsers -> [ChatUsers -> {"block", "none"}]]
    BY DEF Chat!Init, Chat!NoRow
  <2>2. /\ m_members = {} /\ m_silences = {} /\ m_mail = {} /\ m_offence = FALSE
        /\ m_tasks = [t \in Tasks |-> Chat!NoTask] /\ m_msgs = 0
    BY DEF Chat!Init
  <2>3. QED
    BY <2>1, <2>2 DEF Rows
<1>3. ASSUME NEW u \in ChatUsers
      PROVE  m_mem[u] \in Present /\ Calm(u)
  <2>1. /\ Chat!fetch_all(u, "friend") \in SUBSET ChatUsers
        /\ Chat!fetch_all(u, "block") \in SUBSET ChatUsers
        /\ \A w \in ChatUsers : m_relations[u][w] = "block" =>
             w \in Chat!fetch_all(u, "block") /\ w \notin Chat!fetch_all(u, "friend")
    BY DEF Chat!fetch_all
  <2>2. CASE u \in on
    <3> DEFINE p == [Chat!Offline EXCEPT !.on = TRUE, !.friends = Chat!fetch_all(u, "friend"),
                                         !.blocks = Chat!fetch_all(u, "block")]
    <3>1. /\ p \in Present /\ p.friends = Chat!fetch_all(u, "friend")
          /\ p.blocks = Chat!fetch_all(u, "block")
      BY <2>1 DEF Present, Chat!Offline
    <3>2. m_mem[u] = p
      BY <1>1, <2>2
    <3> HIDE DEF p
    <3>3. QED
      BY <1>2, <2>1, <3>1, <3>2 DEF Calm
  <2>3. CASE u \notin on
    BY <1>1, <2>3, OfflineIsPresent DEF Calm
  <2>4. QED
    BY <2>2, <2>3
<1>4. \A t \in Tasks : m_tasks[t].op = "idle"
  BY <1>2 DEF Chat!NoTask
<1>5. \A u \in ChatUsers : InStep(u)
  BY <1>3, <1>4 DEF InStep, Calm, RowsKnown, SilenceKnown, Of
<1>6. ChatTyped
  <2>1. m_mem \in [ChatUsers -> Present]
    BY <1>1, <1>3
  <2>2. QED
    BY <1>2, <1>4, <2>1 DEF ChatTyped
<1>7. QED
  BY <1>2, <1>5, <1>6 DEF ChatInv

LEMMA ChatGoesOn == ASSUME ChatInv, Chat!Next PROVE ChatInv'
<1>1. ASSUME NEW t \in Tasks, Chat!Request(t) PROVE ChatInv'
  <2>1. CASE \E u \in ChatUsers : \/ Chat!LoginRead(t, u) \/ Chat!SendCommand(t, u)
                                  \/ \E on \in BOOLEAN : \/ Chat!SilenceOnline(t, u, on)
                                                         \/ Chat!SilenceOffline(t, u, on)
    BY <2>1, LoginReads, WordsBegin, SilencesOnline, SilencesOffline
  <2>2. CASE \E u, v \in ChatUsers :
               \/ Chat!SendPrivateMessage(t, u, v) \/ Chat!SendToOffline(t, u, v)
               \/ Chat!osuMarkAsRead(t, u, v) \/ Chat!FriendAdd(t, u, v)
               \/ Chat!FriendRemove(t, u, v) \/ Chat!block(t, u, v) \/ Chat!unblock(t, u, v)
               \/ Chat!add_friend(t, u, v) \/ Chat!remove_friend(t, u, v)
    BY <2>2, PrivateMessages, WordsBegin, RelationsInTheGame
  <2>3. CASE Chat!relationships_from_sql(t) \/ Chat!fetch_unread_mail(t)
    BY <2>3, LoginGoesOn, LoginEnds
  <2>4. CASE \E hidden \in BOOLEAN : Chat!process_commands(t, hidden)
    BY <2>4, CommandEndsInChannel
  <2>5. CASE Chat!FetchTarget(t) \/ Chat!mail_create(t) \/ Chat!mark_channel_as_read(t)
    BY <2>5, TargetsFetched, MailEnds
  <2>6. CASE \/ Chat!WriteRelation(t) \/ Chat!DeleteBlock(t) \/ Chat!InsertFriend(t)
             \/ Chat!DeleteFriend(t)
    BY <2>6, RelationsWritten, RelationsOnTheSite
  <2>7. CASE Chat!silence(t) \/ Chat!unsilence(t) \/ Chat!TaskFails(t)
    BY <2>7, SilencesWritten, RequestsFail
  <2>8. QED
    BY <1>1, <2>1, <2>2, <2>3, <2>4, <2>5, <2>6, <2>7 DEF Chat!Request
<1>2. ASSUME NEW u \in ChatUsers,
             \/ Chat!logout(u) \/ Chat!dequeue(u) \/ Chat!join_channel(u) \/ Chat!leave_channel(u)
             \/ Chat!SendMessage(u) \/ Chat!ToggleBlockingDMs(u) \/ Chat!SilenceEnds(u)
      PROVE  ChatInv'
  BY <1>2, LogsOut, ChannelTraffic, TogglesBlocking, SilencesEnd
<1>3. QED
  BY <1>1, <1>2 DEF Chat!Next

\* Whom a player has blocked, by the table, and who is silenced, is not heard by
\* that player, or by anybody, as long as requests of one user do not overlap: what
\* memory says, which handlers go by, is what the tables say or what a request is
\* about to write (relationships_from_sql, add_block, add_friend, Channel.send,
\* SendPrivateMessage).
THEOREM UnwelcomeUnheard == AllSpec => []UnwelcomeAreUnheard
<1> DEFINE I == service = "chat" => ChatInv
<1>1. AllInit => I
  BY ChatBegins DEF AllInit
<1>2. I /\ [AllNext]_allvars => I'
  <2> SUFFICES ASSUME I, [AllNext]_allvars, service' = "chat" PROVE ChatInv'
    OBVIOUS
  <2>1. CASE service = "chat" /\ Chat!Next
    BY <2>1, ChatGoesOn
  <2>2. CASE service = "chat" /\ UNCHANGED m_vars
    BY <2>2 DEF m_vars, ChatInv, ChatTyped, InStep, RowsKnown, SilenceKnown, Carries, Of
  <2>3. QED
    BY <2>1, <2>2 DEF AllNext, allvars
<1>3. I => UnwelcomeAreUnheard
  BY DEF ChatInv, UnwelcomeAreUnheard, Chat!UnwelcomeAreUnheard
<1>4. QED
  BY <1>1, <1>2, <1>3, PTL DEF AllSpec

-----------------------------------------------------------------------------
(* SUBMISSIONS: what the API shows can be had, and leaderboards are        *)
(* reviewed.                                                               *)

\* Ids the sequence has handed out, of which no second one is the same.
Taken == 1 .. (s_nextId - 1)

\* The ids of an upload under way, and all that a request knows.
NewIds(k) == {k.ids[i] : i \in 1 .. Len(k.ids)}
Known(k) == NewIds(k) \cup {k.id} \cup k.sub

Jobs == [op : {"idle", "submit", "update", "delete"},
         u : Uploaders \cup {Hosted!None},
         pc : {"", "allocate", "collisions", "write", "commit", "review", "maps", "status",
               "total", "owned", "rows", "files"},
         id : Nat, up : Uploads \cup {<<>>}, ids : Seq(Nat), n : Nat,
         status : {Hosted!Unset, "Ranked", "Loved", "Pending"},
         state : {Hosted!Unset} \cup Hosted!ReviewState,
         sub : SUBSET Nat, left : SUBSET Nat]
SetRow == [owner : Uploaders \cup {Hosted!None}, state : Hosted!ReviewState]
MapRow(m) == m = [set |-> m.set, status |-> m.status, name |-> m.name]

\* A row has its files, and a leaderboard its review.
RowsServed ==
  /\ s_sets \in [DOMAIN s_sets -> SetRow]
  /\ s_maps = [m \in DOMAIN s_maps |-> s_maps[m]]
  /\ DOMAIN s_sets \subseteq Taken /\ DOMAIN s_maps \subseteq Taken
  /\ \A s \in DOMAIN s_sets : /\ s \in s_osz
                              /\ s_sets[s].state = "approved" => s \in s_approved
  /\ \A m \in DOMAIN s_maps :
       /\ m \in s_osu /\ MapRow(s_maps[m]) /\ s_maps[m].set \in DOMAIN s_sets
       /\ s_maps[m].status # "Pending" => s_maps[m].set \in s_approved

\* An upload has written its files when its rows are inserted.
SubmitRight(k) ==
  /\ k.pc \in {"allocate", "collisions", "write", "commit"}
  /\ k.pc # "allocate" => Len(k.ids) >= 1
  /\ k.pc = "write" => /\ k.n \in 1 .. Len(k.ids)
                       /\ \A i \in 2 .. k.n : k.ids[i] \in s_osu
  /\ k.pc = "commit" => /\ k.ids[1] \in s_osz
                        /\ \A i \in 2 .. Len(k.ids) : k.ids[i] \in s_osu

\* The maps that an update or a deletion read are of its set as long as there
\* are rows of them.
Reads(k) == \A m \in k.sub \cap DOMAIN s_maps : s_maps[m].set = k.id
UpdateRight(k) ==
  /\ k.pc \in {"review", "maps", "status"} /\ k.ids = <<>>
  /\ Reads(k)
  /\ k.pc = "status" => k.sub # {} /\ k.status # Hosted!Unset
  /\ \/ k.u \in UploadStaff \cup Nominators
     \/ k.status \in {Hosted!Unset, "Pending"}
     \/ k.id \in s_approved

DeleteRight(k) ==
  /\ k.pc \in {"maps", "total", "owned", "rows", "files"} /\ k.ids = <<>>
  /\ k.pc # "files" => Reads(k)
  /\ k.pc = "files" => k.sub \cap DOMAIN s_maps = {} /\ k.id \notin DOMAIN s_sets

JobRight(k) ==
  /\ k \in Jobs
  /\ Known(k) \subseteq Taken \cup {0} /\ NewIds(k) \subseteq Taken
  /\ NewIds(k) \cap (DOMAIN s_sets \cup DOMAIN s_maps) = {}
  /\ k.op = "idle" => k = Hosted!NoTask
  /\ k.op = "submit" => SubmitRight(k)
  /\ k.op = "update" => UpdateRight(k)
  /\ k.op = "delete" => DeleteRight(k)

SubmissionsInv ==
  /\ s_nextId \in Nat \ {0} /\ IsFiniteSet(s_scores)
  /\ s_tasks \in [Calls -> Jobs]
  /\ RowsServed
  /\ \A t \in Calls : JobRight(s_tasks[t])
  /\ \A s, t \in Calls : s # t => NewIds(s_tasks[s]) \cap Known(s_tasks[t]) = {}

-----------------------------------------------------------------------------
(* What a step of one request leaves as it is for the others.              *)

LEMMA JobFields ==
  ASSUME NEW k, k \in Jobs
  PROVE  /\ k.ids \in Seq(Nat) /\ Len(k.ids) \in Nat /\ k.n \in Nat /\ k.id \in Nat
         /\ k.sub \in SUBSET Nat /\ k.left \in SUBSET Nat
<1>1. /\ k.ids \in Seq(Nat) /\ k.n \in Nat /\ k.id \in Nat
      /\ k.sub \in SUBSET Nat /\ k.left \in SUBSET Nat
  BY DEF Jobs
<1>2. QED
  BY <1>1

\* The files that go are the request's own, or of what it deletes; the rows that
\* come are of the upload.
Gentle(k) ==
  /\ s_nextId' \in {s_nextId, s_nextId + 1}
  /\ DOMAIN s_sets' \subseteq DOMAIN s_sets \cup NewIds(k)
  /\ DOMAIN s_maps' \subseteq DOMAIN s_maps \cup NewIds(k)
  /\ \A m \in DOMAIN s_maps \cap DOMAIN s_maps' : s_maps'[m].set = s_maps[m].set
  /\ s_osu \subseteq s_osu' \cup Known(k) /\ s_osz \subseteq s_osz' \cup Known(k)
  /\ s_approved \subseteq s_approved'

LEMMA OthersStayRight ==
  ASSUME SubmissionsInv, NEW t \in Calls, NEW s \in Calls, s # t,
         Gentle(s_tasks[t])
  PROVE  JobRight(s_tasks[s])'  \/ s_tasks'[s] # s_tasks[s]
<1> DEFINE j == s_tasks[s]
           k == s_tasks[t]
<1>1. SUFFICES ASSUME s_tasks'[s] = j PROVE JobRight(s_tasks[s])'
  OBVIOUS
<1>2. /\ JobRight(j) /\ j \in Jobs /\ s_nextId \in Nat \ {0}
      /\ NewIds(j) \cap Known(k) = {} /\ NewIds(k) \cap Known(j) = {}
  BY DEF SubmissionsInv
<1>3. Known(j) \subseteq (Taken \cup {0})' /\ NewIds(j) \subseteq Taken'
  BY <1>2 DEF JobRight, Taken, Gentle
<1>4. NewIds(k) \subseteq Known(k) /\ NewIds(j) \subseteq Known(j) /\ j.sub \subseteq Known(j)
      /\ j.id \in Known(j)
  BY DEF Known
<1>5. NewIds(j) \cap (DOMAIN s_sets \cup DOMAIN s_maps)' = {}
  BY <1>2, <1>4 DEF JobRight, Gentle
<1>6. ASSUME j.op = "submit" PROVE SubmitRight(s_tasks[s])'
  <2>1. \A i \in 1 .. Len(j.ids) : j.ids[i] \in NewIds(j)
    BY DEF NewIds
  <2>2. \A x \in NewIds(j) : (x \in s_osu => x \in s_osu') /\ (x \in s_osz => x \in s_osz')
    BY <1>2 DEF Gentle
  <2>3. Len(j.ids) \in Nat /\ j.n \in Nat
    BY <1>2, JobFields
  <2>4. SubmitRight(j)
    BY <1>2, <1>6 DEF JobRight
  <2>5. ASSUME j.pc = "write" PROVE /\ j.n \in 1 .. Len(j.ids)
                                    /\ \A i \in 2 .. j.n : j.ids[i] \in s_osu'
    BY <2>1, <2>2, <2>3, <2>4, <2>5 DEF SubmitRight
  <2>6. ASSUME j.pc = "commit" PROVE /\ j.ids[1] \in s_osz'
                                     /\ \A i \in 2 .. Len(j.ids) : j.ids[i] \in s_osu'
    BY <2>1, <2>2, <2>3, <2>4, <2>6 DEF SubmitRight
  <2>7. QED
    BY <1>1, <2>4, <2>5, <2>6 DEF SubmitRight
<1>7. Reads(j) => \A m \in j.sub \cap DOMAIN s_maps' : s_maps'[m].set = j.id
  BY <1>2, <1>4 DEF Reads, Gentle
<1>8. ASSUME j.op = "update" PROVE UpdateRight(s_tasks[s])'
  BY <1>1, <1>2, <1>7, <1>8 DEF UpdateRight, JobRight, Gentle, Reads
<1>9. ASSUME j.op = "delete" PROVE DeleteRight(s_tasks[s])'
  <2>1. DeleteRight(j)
    BY <1>2, <1>9 DEF JobRight
  <2>2. j.pc = "files" => j.sub \cap DOMAIN s_maps' = {} /\ j.id \notin DOMAIN s_sets'
    BY <1>2, <1>4, <2>1 DEF DeleteRight, Gentle
  <2>3. QED
    BY <1>1, <1>7, <2>1, <2>2 DEF DeleteRight, Reads
<1>10. s_tasks'[s] \in Jobs /\ (j.op = "idle" => j = Hosted!NoTask)
  BY <1>1, <1>2 DEF JobRight
<1>11. Known(s_tasks[s])' = Known(j) /\ NewIds(s_tasks[s])' = NewIds(j)
  BY <1>1 DEF Known, NewIds
<1>12. QED
  BY <1>1, <1>3, <1>5, <1>6, <1>8, <1>9, <1>10, <1>11 DEF JobRight

\* A request goes on as next: the others stay apart from it.
LEMMA RequestStep ==
  ASSUME SubmissionsInv, NEW t \in Calls, NEW next,
         s_tasks' = [s_tasks EXCEPT ![t] = next],
         Gentle(s_tasks[t]), JobRight(s_tasks[t])', RowsServed',
         s_scores' \subseteq s_scores \/ IsFiniteSet(s_scores)',
         NewIds(next) \subseteq NewIds(s_tasks[t]) \cup {s_nextId},
         Known(next) \subseteq Known(s_tasks[t]) \cup {s_nextId, 0} \cup DOMAIN s_sets \cup DOMAIN s_maps
  PROVE  SubmissionsInv'
<1>1. s_tasks \in [Calls -> Jobs] /\ s_nextId \in Nat \ {0} /\ IsFiniteSet(s_scores)
  BY DEF SubmissionsInv
<1>2. s_tasks'[t] = next /\ \A s \in Calls \ {t} : s_tasks'[s] = s_tasks[s]
  BY <1>1
<1>3. \A s \in Calls : JobRight(s_tasks[s])'
  BY <1>2, OthersStayRight
<1>4. next \in Jobs
  BY <1>2 DEF JobRight
<1>5. s_tasks' \in [Calls -> Jobs]
  BY <1>1, <1>4
<1>6. s_nextId' \in Nat \ {0} /\ IsFiniteSet(s_scores)'
  BY <1>1, FS_Subset DEF Gentle
<1>7. \A s \in Calls \ {t} : /\ NewIds(next) \cap Known(s_tasks[s]) = {}
                             /\ NewIds(s_tasks[s]) \cap Known(next) = {}
  <2> SUFFICES ASSUME NEW s \in Calls \ {t}
               PROVE  /\ NewIds(next) \cap Known(s_tasks[s]) = {}
                      /\ NewIds(s_tasks[s]) \cap Known(next) = {}
    OBVIOUS
  <2>1. JobRight(s_tasks[s]) /\ NewIds(s_tasks[t]) \cap Known(s_tasks[s]) = {}
        /\ NewIds(s_tasks[s]) \cap Known(s_tasks[t]) = {}
    BY DEF SubmissionsInv
  <2>2. s_nextId \notin Taken \cup {0} /\ 0 \notin Taken
    BY <1>1 DEF Taken
  <2>3. QED
    BY <2>1, <2>2 DEF JobRight
<1>8. ASSUME NEW r \in Calls, NEW s \in Calls, r # s
      PROVE  NewIds(s_tasks'[r]) \cap Known(s_tasks'[s]) = {}
  BY <1>2, <1>7, <1>8 DEF SubmissionsInv
<1>9. QED
  <2>1. \A r, s \in Calls : r # s => (NewIds(s_tasks[r]) \cap Known(s_tasks[s]) = {})'
    BY <1>8 DEF NewIds, Known
  <2>2. QED
    BY <1>3, <1>5, <1>6, <2>1 DEF SubmissionsInv

LEMMA NoTaskRight ==
  /\ Hosted!NoTask \in Jobs /\ Hosted!NoTask.op = "idle"
  /\ Hosted!NoTask.id = 0 /\ Hosted!NoTask.ids = <<>> /\ Hosted!NoTask.sub = {}
  /\ NewIds(Hosted!NoTask) = {} /\ Known(Hosted!NoTask) = {0}
BY DEF Hosted!NoTask, Hosted!None, Hosted!Unset, Jobs, NewIds, Known

\* Whoever is idle is right, whatever the tables say.
LEMMA IdleRight ==
  ASSUME NEW t, s_tasks[t]' = Hosted!NoTask
  PROVE  JobRight(s_tasks[t])'
<1>1. PICK k : k = Hosted!NoTask
  OBVIOUS
<1>2. k \in Jobs /\ k.op = "idle" /\ NewIds(k) = {} /\ Known(k) = {0}
  BY <1>1, NoTaskRight
<1>3. NewIds(s_tasks[t])' = {} /\ Known(s_tasks[t])' = {0} /\ s_tasks[t]' = k
  BY <1>1, <1>2 DEF NewIds, Known
<1>4. QED
  BY <1>1, <1>2, <1>3 DEF JobRight

Stores == <<s_sets, s_maps, s_osu, s_osz, s_nextId, s_approved>>

\* A step that changes the request alone.
LEMMA QuietStep ==
  ASSUME SubmissionsInv, NEW t \in Calls, NEW next,
         s_tasks' = [s_tasks EXCEPT ![t] = next],
         UNCHANGED Stores, s_scores' = s_scores, JobRight(next),
         NewIds(next) \subseteq NewIds(s_tasks[t]),
         Known(next) \subseteq Known(s_tasks[t]) \cup {0} \cup DOMAIN s_sets \cup DOMAIN s_maps
  PROVE  SubmissionsInv'
<1>1. s_tasks'[t] = next
  BY DEF SubmissionsInv
<1>2. Gentle(s_tasks[t])
  BY DEF Gentle, Stores
<1>3. NewIds(s_tasks[t])' = NewIds(next) /\ Known(s_tasks[t])' = Known(next)
      /\ Taken' = Taken
  BY <1>1 DEF NewIds, Known, Taken, Stores
<1>4. JobRight(s_tasks[t])'
  BY <1>1, <1>3 DEF JobRight, Stores, SubmitRight, UpdateRight, DeleteRight, Reads
<1>5. RowsServed'
  BY DEF SubmissionsInv, RowsServed, Stores, Taken
<1>6. QED
  BY <1>2, <1>4, <1>5, RequestStep

LEMMA EndsQuietly ==
  ASSUME SubmissionsInv, NEW t \in Calls,
         s_tasks' = [s_tasks EXCEPT ![t] = Hosted!NoTask],
         UNCHANGED Stores, s_scores' = s_scores
  PROVE  SubmissionsInv'
<1>1. s_tasks'[t] = Hosted!NoTask
  BY DEF SubmissionsInv
<1>2. PICK next : next = Hosted!NoTask
  OBVIOUS
<1>3. NewIds(next) = {} /\ Known(next) = {0} /\ next \in Jobs /\ next.op = "idle"
  BY <1>2, NoTaskRight
<1>4. JobRight(next)
  BY <1>2, <1>3 DEF JobRight
<1>5. QED
  BY <1>2, <1>3, <1>4, QuietStep

\* A request that begins knows the set it is about.
LEMMA BeginStep ==
  ASSUME SubmissionsInv, NEW t \in Calls, NEW next, next \in Jobs,
         s_tasks' = [s_tasks EXCEPT ![t] = next],
         UNCHANGED Stores, s_scores' = s_scores,
         next.ids = <<>>, next.sub = {}, next.op # "idle",
         next.id \in DOMAIN s_sets \cup {0},
         next.op = "submit" => next.pc = "allocate",
         next.op = "update" => UpdateRight(next),
         next.op = "delete" => DeleteRight(next)
  PROVE  SubmissionsInv'
<1>1. NewIds(next) = {} /\ Known(next) = {next.id}
  BY DEF NewIds, Known
<1>2. DOMAIN s_sets \subseteq Taken
  BY DEF SubmissionsInv, RowsServed
<1>3. next.op = "submit" => SubmitRight(next)
  BY DEF SubmitRight
<1>4. JobRight(next)
  BY <1>1, <1>2, <1>3 DEF JobRight
<1>5. QED
  BY <1>1, <1>4, QuietStep

LEMMA SubmitBegins ==
  ASSUME SubmissionsInv, NEW t \in Calls, NEW u \in Uploaders \cup {Hosted!None},
         NEW a \in Uploads, Hosted!submit_beatmap(t, u, a)
  PROVE  SubmissionsInv'
<1>1. PICK none, next : /\ none = Hosted!NoTask
                        /\ next = [none EXCEPT !.op = "submit", !.u = u, !.pc = "allocate", !.up = a]
  OBVIOUS
<1>2. none \in Jobs /\ none.ids = <<>> /\ none.sub = {} /\ none.id = 0
  BY <1>1, NoTaskRight
<1>3. /\ next \in Jobs /\ next.ids = <<>> /\ next.sub = {} /\ next.id = 0
      /\ next.op = "submit" /\ next.pc = "allocate"
  BY ZenonT(60), <1>1, <1>2 DEF Jobs
<1>4. /\ \/ s_tasks' = [s_tasks EXCEPT ![t] = none]
         \/ s_tasks' = [s_tasks EXCEPT ![t] = next]
      /\ UNCHANGED Stores /\ s_scores' = s_scores
  BY <1>1 DEF Hosted!submit_beatmap, Hosted!submit_beatmap_archive, Hosted!Begin,
     Hosted!Set, Stores
<1>5. QED
  BY <1>1, <1>3, <1>4, BeginStep, EndsQuietly

LEMMA UpdateBegins ==
  ASSUME SubmissionsInv, NEW t \in Calls, NEW u \in Uploaders \cup {Hosted!None},
         NEW s, NEW status \in {Hosted!Unset, "Ranked", "Loved", "Pending"},
         NEW state \in {Hosted!Unset} \cup Hosted!ReviewState, NEW note \in BOOLEAN,
         Hosted!update_beatmap_submission(t, u, s, status, state, note)
  PROVE  SubmissionsInv'
<1>1. PICK none, given, pc, next :
        /\ none = Hosted!NoTask
        /\ given = IF state = "rejected" THEN "Pending" ELSE status
        /\ pc = IF state # Hosted!Unset \/ note THEN "review" ELSE "maps"
        /\ next = [none EXCEPT !.op = "update", !.u = u, !.id = s, !.state = state,
                               !.status = given, !.pc = pc]
  OBVIOUS
<1>2. none \in Jobs /\ none.ids = <<>> /\ none.sub = {}
  BY <1>1, NoTaskRight
<1>3. s \in DOMAIN s_sets /\ s \in Nat /\ s_sets[s] \in SetRow
      /\ (s_sets[s].state = "approved" => s \in s_approved)
  <2>1. s \in DOMAIN s_sets
    BY DEF Hosted!update_beatmap_submission, Hosted!update_submission,
       Hosted!fetch_one
  <2>2. QED
    BY <2>1 DEF SubmissionsInv, RowsServed, Taken
<1>4. given \in {Hosted!Unset, "Ranked", "Loved", "Pending"} /\ pc \in {"review", "maps"}
  BY <1>1
<1>5. /\ next \in Jobs /\ next.ids = <<>> /\ next.sub = {} /\ next.id = s /\ next.u = u
      /\ next.op = "update" /\ next.pc = pc /\ next.status = given
  <2>1. next = [none EXCEPT !.op = "update", !.u = u, !.id = s, !.state = state,
                            !.status = given, !.pc = pc]
    BY <1>1
  <2>2. next \in Jobs
    BY <1>2, <1>3, <1>4, <2>1 DEF Jobs
  <2>3. QED
    BY ZenonT(60), <1>2, <2>1, <2>2 DEF Jobs
<1>6. /\ UNCHANGED Stores /\ s_scores' = s_scores
      /\ \/ s_tasks' = [s_tasks EXCEPT ![t] = none]
         \/ /\ s_tasks' = [s_tasks EXCEPT ![t] = next]
            /\ \/ u \in UploadStaff \cup Nominators
               \/ /\ state = Hosted!Unset
                  /\ status # Hosted!Unset =>
                       status # "Ranked" /\ (status = "Loved" => s_sets[s].state = "approved")
  BY <1>1 DEF Hosted!update_beatmap_submission, Hosted!update_submission,
     Hosted!Begin, Hosted!Set, Stores, Hosted!_check_status_permitted,
     Hosted!_is_staff, Hosted!_is_nominator, Hosted!Pending, Hosted!Ranked,
     Hosted!Loved
<1>7. ASSUME s_tasks' = [s_tasks EXCEPT ![t] = next]
      PROVE  UpdateRight(next) \/ s_tasks' = [s_tasks EXCEPT ![t] = none]
  <2>1. CASE s_tasks' = [s_tasks EXCEPT ![t] = none]
    BY <2>1
  <2>2. CASE u \in UploadStaff \cup Nominators
    BY <1>4, <1>5, <2>2 DEF UpdateRight, Reads
  <2>3. CASE /\ state = Hosted!Unset
             /\ status # Hosted!Unset =>
                  status # "Ranked" /\ (status = "Loved" => s_sets[s].state = "approved")
    <3>1. given = status
      BY <1>1, <2>3 DEF Hosted!Unset
    <3>2. given \in {Hosted!Unset, "Pending"} \/ s \in s_approved
      BY <1>3, <2>3, <3>1
    <3>3. QED
      BY <1>4, <1>5, <3>2 DEF UpdateRight, Reads
  <2>4. QED
    BY <1>6, <2>1, <2>2, <2>3
<1>8. CASE s_tasks' = [s_tasks EXCEPT ![t] = none]
  BY <1>1, <1>6, <1>8, EndsQuietly
<1>9. CASE s_tasks' = [s_tasks EXCEPT ![t] = next] /\ UpdateRight(next)
  BY <1>3, <1>5, <1>6, <1>9, BeginStep
<1>10. QED
  BY <1>6, <1>7, <1>8, <1>9

LEMMA DeleteBegins ==
  ASSUME SubmissionsInv, NEW t \in Calls, NEW u \in Uploaders \cup {Hosted!None},
         NEW s, Hosted!delete_beatmap_submission(t, u, s)
  PROVE  SubmissionsInv'
<1>1. PICK none, next : /\ none = Hosted!NoTask
                        /\ next = [none EXCEPT !.op = "delete", !.u = u, !.id = s, !.pc = "maps"]
  OBVIOUS
<1>2. none \in Jobs /\ none.ids = <<>> /\ none.sub = {}
  BY <1>1, NoTaskRight
<1>3. s \in DOMAIN s_sets /\ s \in Nat
  <2>1. s \in DOMAIN s_sets
    BY DEF Hosted!delete_beatmap_submission, Hosted!delete_submission,
       Hosted!fetch_one
  <2>2. QED
    BY <2>1 DEF SubmissionsInv, RowsServed, Taken
<1>4. /\ next \in Jobs /\ next.ids = <<>> /\ next.sub = {} /\ next.id = s
      /\ next.op = "delete" /\ next.pc = "maps"
  BY ZenonT(60), <1>1, <1>2, <1>3 DEF Jobs
<1>5. DeleteRight(next)
  BY <1>4 DEF DeleteRight, Reads
<1>6. /\ \/ s_tasks' = [s_tasks EXCEPT ![t] = none]
         \/ s_tasks' = [s_tasks EXCEPT ![t] = next]
      /\ UNCHANGED Stores /\ s_scores' = s_scores
  BY <1>1 DEF Hosted!delete_beatmap_submission, Hosted!delete_submission,
     Hosted!Begin, Hosted!Set, Stores
<1>7. QED
  BY <1>1, <1>3, <1>4, <1>5, <1>6, BeginStep, EndsQuietly

\* What has its files keeps them.
LEMMA RowsStay ==
  ASSUME SubmissionsInv, s_sets' = s_sets, s_maps' = s_maps, s_nextId' \in {s_nextId, s_nextId + 1},
         s_approved \subseteq s_approved',
         \A m \in DOMAIN s_maps : m \in s_osu', \A s \in DOMAIN s_sets : s \in s_osz'
  PROVE  RowsServed'
<1>1. RowsServed /\ s_nextId \in Nat \ {0}
  BY DEF SubmissionsInv
<1>2. Taken \subseteq Taken'
  <2>1. PICK a, b : a = s_nextId /\ b = s_nextId'
    OBVIOUS
  <2>2. a \in Nat /\ b \in Nat /\ b >= a
    BY <1>1, <2>1
  <2>3. 1 .. (a - 1) \subseteq 1 .. (b - 1)
    BY <2>2, IntervalGrows
  <2>4. QED
    BY <2>1, <2>3 DEF Taken
<1>3. QED
  BY <1>1, <1>2 DEF RowsServed

\* allocate gives each upload ids of its own.
LEMMA AllocateKeeps ==
  ASSUME SubmissionsInv, NEW t \in Calls, Hosted!allocate(t)
  PROVE  SubmissionsInv'
<1>1. PICK k, d, ids : /\ k = s_tasks[t] /\ d = Hosted!Difficulties(k.up)
                       /\ ids = Append(k.ids, s_nextId)
  OBVIOUS
<1>2. /\ JobRight(k) /\ k \in Jobs /\ k.ids \in Seq(Nat) /\ s_nextId \in Nat \ {0} /\ t \in DOMAIN s_tasks
  BY <1>1, JobFields DEF SubmissionsInv
<1>3. /\ k.op = "submit" /\ s_nextId' = s_nextId + 1
      /\ UNCHANGED <<s_sets, s_maps, s_osu, s_osz, s_approved, s_scores>>
  BY <1>1 DEF Hosted!allocate, Hosted!At
<1>4. PICK next : /\ s_tasks' = [s_tasks EXCEPT ![t] = next]
                  /\ \/ next = [k EXCEPT !.ids = ids]
                     \/ next = Hosted!NoTask
                     \/ next = [k EXCEPT !.ids = ids, !.pc = "collisions", !.n = 1]
  BY <1>1 DEF Hosted!allocate, Hosted!Set, Hosted!Finish
<1>5. Gentle(k)
  BY <1>3 DEF Gentle
<1>6. RowsServed'
  BY <1>3, RowsStay DEF SubmissionsInv, RowsServed
<1>7. s_tasks'[t] = next
  BY <1>2, <1>4
<1>8. CASE next = Hosted!NoTask
  <2>1. JobRight(s_tasks[t])'
    BY <1>7, <1>8, IdleRight
  <2>2. NewIds(next) = {} /\ Known(next) = {0}
    BY <1>8, NoTaskRight
  <2>3. QED
    BY <1>1, <1>3, <1>4, <1>5, <1>6, <2>1, <2>2, RequestStep
<1>9. CASE \/ next = [k EXCEPT !.ids = ids]
           \/ next = [k EXCEPT !.ids = ids, !.pc = "collisions", !.n = 1]
  <2>1. k.pc = "allocate"
    BY <1>1 DEF Hosted!allocate, Hosted!At
  <2>2. ids \in Seq(Nat)
    BY <1>1, <1>2
  <2>3. /\ next \in Jobs /\ next.ids = ids /\ next.id = k.id /\ next.sub = k.sub
        /\ next.op = "submit" /\ next.pc \in {"allocate", "collisions"}
    <3>1. CASE next = [k EXCEPT !.ids = ids]
      BY <1>2, <1>3, <2>1, <2>2, <3>1 DEF Jobs
    <3>2. CASE next = [k EXCEPT !.ids = ids, !.pc = "collisions", !.n = 1]
      BY <1>2, <1>3, <2>2, <3>2 DEF Jobs
    <3>3. QED
      BY <1>9, <3>1, <3>2
  <2>4. \A i \in 1 .. Len(ids) : ids[i] = s_nextId \/ (i \in 1 .. Len(k.ids) /\ ids[i] = k.ids[i])
    BY <1>1, <1>2
  <2>5. NewIds(next) \subseteq NewIds(k) \cup {s_nextId}
    BY <2>3, <2>4 DEF NewIds
  <2>6. Known(next) \subseteq Known(k) \cup {s_nextId}
    BY <2>3, <2>5 DEF Known
  <2>7. NewIds(k) \subseteq Taken /\ Known(k) \subseteq Taken \cup {0}
        /\ NewIds(k) \cap (DOMAIN s_sets \cup DOMAIN s_maps) = {}
        /\ DOMAIN s_sets \subseteq Taken /\ DOMAIN s_maps \subseteq Taken
    BY <1>2 DEF JobRight, SubmissionsInv, RowsServed
  <2>8. s_nextId \notin Taken /\ s_nextId \in Taken' /\ Taken \subseteq Taken'
    BY <1>2, <1>3 DEF Taken
  <2>9. NewIds(s_tasks[t])' = NewIds(next) /\ Known(s_tasks[t])' = Known(next)
    BY <1>7 DEF NewIds, Known
  <2>10. SubmitRight(s_tasks[t])'
    <3>1. Len(ids) >= 1
      BY <1>1, <1>2
    <3>2. QED
      BY <1>7, <2>3, <3>1 DEF SubmitRight
  <2>11. JobRight(s_tasks[t])'
    BY <1>3, <1>7, <2>3, <2>5, <2>6, <2>7, <2>8, <2>9, <2>10 DEF JobRight
  <2>12. QED
    BY <1>1, <1>3, <1>4, <1>5, <1>6, <2>5, <2>6, <2>11, RequestStep
<1>10. QED
  BY <1>4, <1>8, <1>9

LEMMA CheckCollisionsKeeps ==
  ASSUME SubmissionsInv, NEW t \in Calls, Hosted!_check_collisions(t)
  PROVE  SubmissionsInv'
<1>1. PICK k : k = s_tasks[t]
  OBVIOUS
<1>2. JobRight(k) /\ k \in Jobs /\ k.n \in Nat /\ k.ids \in Seq(Nat)
  BY <1>1, JobFields DEF SubmissionsInv
<1>3. k.op = "submit" /\ k.pc = "collisions" /\ UNCHANGED Stores /\ s_scores' = s_scores
  BY <1>1 DEF Hosted!_check_collisions, Hosted!At, Stores
<1>4. PICK next : /\ s_tasks' = [s_tasks EXCEPT ![t] = next]
                  /\ \/ next = Hosted!NoTask
                     \/ next = [k EXCEPT !.n = k.n + 1]
                     \/ next = [k EXCEPT !.pc = "write", !.n = 1]
  BY <1>1 DEF Hosted!_check_collisions, Hosted!Set, Hosted!Finish
<1>5. CASE next = Hosted!NoTask
  BY <1>3, <1>4, <1>5, EndsQuietly
<1>6. CASE next = [k EXCEPT !.n = k.n + 1]
  <2>1. /\ next \in Jobs /\ next.ids = k.ids /\ next.id = k.id /\ next.sub = k.sub
        /\ next.op = "submit" /\ next.pc = "collisions"
    <3>1. PICK n \in Nat : n = k.n + 1
      BY <1>2
    <3>2. next = [k EXCEPT !.n = n]
      BY <1>6, <3>1
    <3>3. QED
      BY <1>2, <1>3, <3>2 DEF Jobs
  <2>2. NewIds(next) = NewIds(k) /\ Known(next) = Known(k)
    BY <2>1 DEF NewIds, Known
  <2>3. Len(next.ids) >= 1
    BY <1>2, <1>3, <2>1 DEF JobRight, SubmitRight
  <2>4. SubmitRight(next)
    BY <2>1, <2>3 DEF SubmitRight
  <2>5. JobRight(next)
    BY <1>2, <2>1, <2>2, <2>4 DEF JobRight
  <2>6. QED
    BY <1>1, <1>3, <1>4, <2>2, <2>5, QuietStep
<1>7. CASE next = [k EXCEPT !.pc = "write", !.n = 1]
  <2>1. /\ next \in Jobs /\ next.ids = k.ids /\ next.id = k.id /\ next.sub = k.sub
        /\ next.op = "submit" /\ next.pc = "write" /\ next.n = 1
    BY <1>2, <1>3, <1>7 DEF Jobs
  <2>2. NewIds(next) = NewIds(k) /\ Known(next) = Known(k)
    BY <2>1 DEF NewIds, Known
  <2>3. Len(k.ids) \in Nat /\ Len(k.ids) >= 1
    BY <1>2, <1>3 DEF JobRight, SubmitRight
  <2>4. SubmitRight(next)
    BY <2>1, <2>3 DEF SubmitRight
  <2>5. JobRight(next)
    BY <1>2, <2>1, <2>2, <2>4 DEF JobRight
  <2>6. QED
    BY <1>1, <1>3, <1>4, <2>2, <2>5, QuietStep
<1>8. QED
  BY <1>4, <1>5, <1>6, <1>7

\* A difficulty, or at last the archive, is written; no row is of it yet.
LEMMA WriteFileKeeps ==
  ASSUME SubmissionsInv, NEW t \in Calls, Hosted!write_file(t)
  PROVE  SubmissionsInv'
<1>1. PICK k : k = s_tasks[t]
  OBVIOUS
<1>2. /\ JobRight(k) /\ k \in Jobs /\ k.n \in Nat /\ k.ids \in Seq(Nat) /\ Len(k.ids) \in Nat
      /\ t \in DOMAIN s_tasks /\ RowsServed
  BY <1>1, JobFields DEF SubmissionsInv
<1>3. /\ k.op = "submit" /\ k.pc = "write"
      /\ UNCHANGED <<s_sets, s_maps, s_nextId, s_approved, s_scores>>
  BY <1>1 DEF Hosted!write_file, Hosted!At
<1>4. /\ k.n \in 1 .. Len(k.ids)
      /\ \A i \in 2 .. k.n : k.ids[i] \in s_osu
  BY <1>2, <1>3 DEF JobRight, SubmitRight
<1>5. s_osu \subseteq s_osu' /\ s_osz \subseteq s_osz'
  BY <1>1 DEF Hosted!write_file
<1>6. Gentle(k)
  BY <1>3, <1>5 DEF Gentle
<1>7. RowsServed'
  BY <1>2, <1>3, <1>5, RowsStay DEF RowsServed
<1>8. PICK next : /\ s_tasks' = [s_tasks EXCEPT ![t] = next]
                  /\ \/ /\ k.n < Len(k.ids) /\ k.ids[k.n + 1] \in s_osu'
                        /\ next = [k EXCEPT !.n = k.n + 1]
                     \/ /\ ~ (k.n < Len(k.ids)) /\ k.ids[1] \in s_osz'
                        /\ next = [k EXCEPT !.pc = "commit"]
  BY <1>1 DEF Hosted!write_file, Hosted!Set
<1>9. s_tasks'[t] = next
  BY <1>2, <1>8
<1>10. /\ next \in Jobs /\ next.ids = k.ids /\ next.id = k.id /\ next.sub = k.sub
       /\ next.op = "submit" /\ SubmitRight(s_tasks[t])'
  <2>1. CASE /\ k.n < Len(k.ids) /\ k.ids[k.n + 1] \in s_osu'
             /\ next = [k EXCEPT !.n = k.n + 1]
    <3>1. PICK n \in Nat : n = k.n + 1
      BY <1>2
    <3>2. next = [k EXCEPT !.n = n]
      BY <2>1, <3>1
    <3>3. /\ next \in Jobs /\ next.ids = k.ids /\ next.id = k.id /\ next.sub = k.sub
          /\ next.op = "submit" /\ next.pc = "write" /\ next.n = n
      BY <1>2, <1>3, <3>2 DEF Jobs
    <3>4. n \in 1 .. Len(k.ids)
      BY <1>2, <1>4, <2>1, <3>1
    <3>5. ASSUME NEW i \in 2 .. n PROVE k.ids[i] \in s_osu'
      <4>1. i = k.n + 1 \/ i \in 2 .. k.n
        BY <1>2, <3>1
      <4>2. QED
        BY <1>4, <1>5, <2>1, <4>1
    <3>6. QED
      BY <1>2, <1>4, <1>9, <3>3, <3>4, <3>5 DEF SubmitRight
  <2>2. CASE /\ ~ (k.n < Len(k.ids)) /\ k.ids[1] \in s_osz'
             /\ next = [k EXCEPT !.pc = "commit"]
    <3>1. /\ next \in Jobs /\ next.ids = k.ids /\ next.id = k.id /\ next.sub = k.sub
          /\ next.op = "submit" /\ next.pc = "commit"
      BY <1>2, <1>3, <2>2 DEF Jobs
    <3>2. \A i \in 2 .. Len(k.ids) : k.ids[i] \in s_osu'
      BY <1>2, <1>4, <1>5, <2>2
    <3>3. QED
      BY <1>2, <1>4, <1>9, <2>2, <3>1, <3>2 DEF SubmitRight
  <2>3. QED
    BY <1>8, <2>1, <2>2
<1>11. NewIds(next) = NewIds(k) /\ Known(next) = Known(k)
  BY <1>10 DEF NewIds, Known
<1>12. JobRight(s_tasks[t])'
  <2>1. NewIds(s_tasks[t])' = NewIds(next) /\ Known(s_tasks[t])' = Known(next) /\ Taken' = Taken
    BY <1>3, <1>9 DEF NewIds, Known, Taken
  <2>2. QED
    BY <1>2, <1>3, <1>9, <1>10, <1>11, <2>1 DEF JobRight
<1>13. QED
  BY <1>1, <1>3, <1>6, <1>7, <1>8, <1>11, <1>12, RequestStep

\* The rows of an upload come when all its files are there.
LEMMA CommitKeeps ==
  ASSUME SubmissionsInv, NEW t \in Calls, Hosted!_commit_submission(t)
  PROVE  SubmissionsInv'
<1>1. PICK k : k = s_tasks[t]
  OBVIOUS
<1>2. /\ JobRight(k) /\ k \in Jobs /\ k.ids \in Seq(Nat) /\ Len(k.ids) \in Nat
      /\ k.u \in Uploaders \cup {Hosted!None}
      /\ t \in DOMAIN s_tasks /\ RowsServed
  BY <1>1, JobFields DEF SubmissionsInv, Jobs
<1>3. /\ k.op = "submit" /\ k.pc = "commit"
      /\ UNCHANGED <<s_osu, s_osz, s_nextId, s_approved, s_scores>>
      /\ s_tasks' = [s_tasks EXCEPT ![t] = Hosted!NoTask]
  BY <1>1 DEF Hosted!_commit_submission, Hosted!At, Hosted!Set, Hosted!Finish
<1>4. /\ Len(k.ids) >= 1 /\ k.ids[1] \in s_osz
      /\ \A i \in 2 .. Len(k.ids) : k.ids[i] \in s_osu
  BY <1>2, <1>3 DEF JobRight, SubmitRight
<1>5. PICK first, new : first = k.ids[1] /\ new = {k.ids[i] : i \in 2 .. Len(k.ids)}
  OBVIOUS
<1>6. /\ first \in NewIds(k) /\ new \subseteq NewIds(k) /\ first \in s_osz /\ new \subseteq s_osu
      /\ NewIds(k) \subseteq Taken /\ NewIds(k) \cap (DOMAIN s_sets \cup DOMAIN s_maps) = {}
  BY <1>2, <1>4, <1>5 DEF JobRight, NewIds
<1>7. /\ DOMAIN s_sets' = DOMAIN s_sets \cup {first}
      /\ s_sets' \in [DOMAIN s_sets' -> SetRow] /\ s_sets'[first].state = "pending"
      /\ \A s \in DOMAIN s_sets : s_sets'[s] = s_sets[s]
  <2>1. PICK row : row = [owner |-> k.u, state |-> "pending"]
    OBVIOUS
  <2>2. row \in SetRow /\ row.state = "pending"
    BY <1>2, <2>1 DEF SetRow, Hosted!ReviewState
  <2>3. s_sets' = [y \in DOMAIN s_sets \cup {first} |-> IF y = first THEN row ELSE s_sets[y]]
    BY <1>1, <1>5, <2>1 DEF Hosted!_commit_submission, Hosted!Put
  <2>4. \A s \in DOMAIN s_sets : s_sets[s] \in SetRow /\ s # first
    BY <1>2, <1>6 DEF RowsServed
  <2>5. QED
    BY <2>2, <2>3, <2>4
<1>8. /\ DOMAIN s_maps' = DOMAIN s_maps \cup new /\ s_maps' = [m \in DOMAIN s_maps' |-> s_maps'[m]]
      /\ \A m \in DOMAIN s_maps : s_maps'[m] = s_maps[m]
      /\ \A m \in new : /\ MapRow(s_maps'[m]) /\ s_maps'[m].set = first
                         /\ s_maps'[m].status = "Pending"
  <2>1. PICK name : name = [m \in new |-> Hosted!canonical_osu_filename(k.u,
            Hosted!Difficulties(k.up)[CHOOSE i \in DOMAIN Hosted!Difficulties(k.up) :
                                             k.ids[i + 1] = m])]
    OBVIOUS
  <2>2. s_maps' = [m \in DOMAIN s_maps \cup new |->
                     IF m \in new THEN [set |-> first, status |-> "Pending", name |-> name[m]]
                     ELSE s_maps[m]]
    BY <1>1, <1>5, <2>1 DEF Hosted!_commit_submission, Hosted!Pending
  <2>3. \A m \in DOMAIN s_maps : m \notin new
    BY <1>6
  <2>4. QED
    BY <2>2, <2>3 DEF MapRow
<1>9. Gentle(k)
  BY <1>3, <1>6, <1>7, <1>8 DEF Gentle
<1>10. RowsServed'
  <2>1. Taken' = Taken /\ first \in Taken /\ new \subseteq Taken
    BY <1>3, <1>6 DEF Taken
  <2>2. \A s \in DOMAIN s_sets' : /\ s \in s_osz'
                                  /\ s_sets'[s].state = "approved" => s \in s_approved'
    BY <1>2, <1>3, <1>6, <1>7 DEF RowsServed
  <2>3. \A m \in DOMAIN s_maps' :
          /\ m \in s_osu' /\ MapRow(s_maps'[m]) /\ s_maps'[m].set \in DOMAIN s_sets'
          /\ s_maps'[m].status # "Pending" => s_maps'[m].set \in s_approved'
    BY <1>2, <1>3, <1>6, <1>7, <1>8 DEF RowsServed
  <2>4. DOMAIN s_sets' \subseteq Taken' /\ DOMAIN s_maps' \subseteq Taken'
    BY <1>2, <1>7, <1>8, <2>1 DEF RowsServed
  <2>5. QED
    BY <1>7, <1>8, <2>2, <2>3, <2>4 DEF RowsServed, MapRow
<1>11. s_tasks'[t] = Hosted!NoTask
  BY <1>2, <1>3
<1>12. JobRight(s_tasks[t])'
  BY <1>11, IdleRight
<1>13. PICK next : next = Hosted!NoTask /\ NewIds(next) = {} /\ Known(next) = {0}
  BY NoTaskRight
<1>14. QED
  BY <1>1, <1>3, <1>9, <1>10, <1>12, <1>13, RequestStep

\* What is removed after a failure is of no row.
LEMMA SubmitFailsKeeps ==
  ASSUME SubmissionsInv, NEW t \in Calls, Hosted!SubmitFails(t)
  PROVE  SubmissionsInv'
<1>1. PICK k : k = s_tasks[t]
  OBVIOUS
<1>2. /\ JobRight(k) /\ k \in Jobs /\ k.n \in Nat /\ k.ids \in Seq(Nat) /\ Len(k.ids) \in Nat
      /\ t \in DOMAIN s_tasks /\ RowsServed
  BY <1>1, JobFields DEF SubmissionsInv
<1>3. /\ k.op = "submit" /\ k.pc \in {"write", "commit"}
      /\ UNCHANGED <<s_sets, s_maps, s_nextId, s_approved, s_scores>>
      /\ s_tasks' = [s_tasks EXCEPT ![t] = Hosted!NoTask]
  BY <1>1 DEF Hosted!SubmitFails, Hosted!Set, Hosted!Finish
<1>4. /\ Len(k.ids) >= 1
      /\ k.pc = "write" => k.n \in 1 .. Len(k.ids)
      /\ NewIds(k) \cap (DOMAIN s_sets \cup DOMAIN s_maps) = {}
  BY <1>2, <1>3 DEF JobRight, SubmitRight
<1>5. s_osu \subseteq s_osu' \cup NewIds(k) /\ s_osz \subseteq s_osz' \cup NewIds(k)
  <2>1. PICK last : /\ last = IF k.pc = "commit" THEN Len(k.ids) ELSE k.n
                    /\ s_osu' = s_osu \ {k.ids[i] : i \in 2 .. last}
                    /\ s_osz' = s_osz \/ s_osz' = s_osz \ {k.ids[1]}
    BY ZenonT(60), <1>1 DEF Hosted!SubmitFails
  <2>2. last \in Nat /\ last <= Len(k.ids)
    BY <1>2, <1>3, <1>4, <2>1
  <2>3. \A i \in 2 .. last : k.ids[i] \in NewIds(k)
    BY SMTT(60), <1>2, <2>2 DEF NewIds
  <2>4. k.ids[1] \in NewIds(k)
    BY <1>2, <1>4 DEF NewIds
  <2>5. QED
    BY <2>1, <2>3, <2>4
<1>6. NewIds(k) \subseteq Known(k)
  BY DEF Known
<1>7. Gentle(k)
  BY <1>3, <1>5, <1>6 DEF Gentle
<1>8. RowsServed'
  BY <1>2, <1>3, <1>4, <1>5, RowsStay DEF RowsServed
<1>9. s_tasks'[t] = Hosted!NoTask
  BY <1>2, <1>3
<1>10. JobRight(s_tasks[t])'
  BY <1>9, IdleRight
<1>11. PICK next : next = Hosted!NoTask /\ NewIds(next) = {} /\ Known(next) = {0}
  BY NoTaskRight
<1>12. QED
  BY <1>1, <1>3, <1>7, <1>8, <1>10, <1>11, RequestStep

\* A review is of the set, its approval is remembered.
LEMMA UpdateReviewKeeps ==
  ASSUME SubmissionsInv, NEW t \in Calls, Hosted!UpdateReview(t)
  PROVE  SubmissionsInv'
<1>1. PICK k : k = s_tasks[t]
  OBVIOUS
<1>2. /\ JobRight(k) /\ k \in Jobs /\ k.state \in {Hosted!Unset} \cup Hosted!ReviewState
      /\ t \in DOMAIN s_tasks /\ RowsServed
  BY <1>1 DEF SubmissionsInv, Jobs
<1>3. /\ k.op = "update" /\ k.pc = "review"
      /\ UNCHANGED <<s_maps, s_osu, s_osz, s_nextId, s_scores>>
  BY <1>1 DEF Hosted!UpdateReview, Hosted!At
<1>4. PICK next : /\ s_tasks' = [s_tasks EXCEPT ![t] = next]
                  /\ next = [k EXCEPT !.pc = "maps"]
  BY <1>1 DEF Hosted!UpdateReview, Hosted!Set
<1>5. /\ s_approved \subseteq s_approved'
      /\ k.state = "approved" => k.id \in s_approved'
  BY <1>1 DEF Hosted!UpdateReview
<1>6. s_tasks'[t] = next
  BY <1>2, <1>4
<1>7. /\ DOMAIN s_sets' = DOMAIN s_sets /\ s_sets' \in [DOMAIN s_sets -> SetRow]
      /\ \A s \in DOMAIN s_sets : s_sets'[s].state = "approved" => s \in s_approved'
  <2>1. CASE s_sets' = s_sets
    BY <1>2, <1>5, <2>1 DEF RowsServed
  <2>2. CASE /\ k.id \in DOMAIN s_sets /\ k.state # Hosted!Unset
             /\ s_sets' = [s_sets EXCEPT ![k.id].state = k.state]
    <3>1. PICK row : row = [s_sets[k.id] EXCEPT !.state = k.state]
      OBVIOUS
    <3>2. s_sets[k.id] \in SetRow
      BY <1>2, <2>2 DEF RowsServed
    <3>3. row \in SetRow /\ row.state = k.state
      BY <1>2, <2>2, <3>1, <3>2 DEF SetRow
    <3>4. s_sets' = [s_sets EXCEPT ![k.id] = row]
      BY <2>2, <3>1
    <3>5. QED
      BY <1>2, <1>5, <2>2, <3>3, <3>4 DEF RowsServed
  <2>3. QED
    BY <1>1, <2>1, <2>2 DEF Hosted!UpdateReview, Hosted!partial_update,
       Hosted!fetch_one
<1>8. Gentle(k)
  BY <1>3, <1>5, <1>7 DEF Gentle
<1>9. RowsServed'
  <2>1. Taken' = Taken
    BY <1>3 DEF Taken
  <2>2. QED
    BY <1>2, <1>3, <1>5, <1>7, <2>1 DEF RowsServed, MapRow
<1>10. /\ next \in Jobs /\ next.ids = k.ids /\ next.id = k.id /\ next.sub = k.sub
       /\ next.op = "update" /\ next.pc = "maps" /\ next.u = k.u /\ next.status = k.status
  BY <1>2, <1>3, <1>4 DEF Jobs
<1>11. NewIds(next) = NewIds(k) /\ Known(next) = Known(k)
  BY <1>10 DEF NewIds, Known
<1>12. UpdateRight(s_tasks[t])'
  BY <1>2, <1>3, <1>5, <1>6, <1>10 DEF JobRight, UpdateRight, Reads
<1>13. JobRight(s_tasks[t])'
  <2>1. NewIds(s_tasks[t])' = NewIds(next) /\ Known(s_tasks[t])' = Known(next) /\ Taken' = Taken
    BY <1>3, <1>6 DEF NewIds, Known, Taken
  <2>2. QED
    BY <1>2, <1>3, <1>6, <1>7, <1>10, <1>11, <1>12, <2>1 DEF JobRight
<1>14. QED
  BY <1>1, <1>3, <1>4, <1>8, <1>9, <1>11, <1>13, RequestStep

\* The maps that are read are of the set, and their ids were handed out.
LEMMA MapsRead ==
  ASSUME SubmissionsInv, NEW s
  PROVE  /\ Hosted!maps_of(s) \subseteq DOMAIN s_maps
         /\ Hosted!maps_of(s) \subseteq Taken
         /\ Hosted!maps_of(s) \in SUBSET Nat
         /\ \A m \in Hosted!maps_of(s) : s_maps[m].set = s
BY DEF SubmissionsInv, RowsServed, Taken, Hosted!maps_of

LEMMA UpdateMapsKeeps ==
  ASSUME SubmissionsInv, NEW t \in Calls, Hosted!UpdateMaps(t)
  PROVE  SubmissionsInv'
<1>1. PICK k : k = s_tasks[t]
  OBVIOUS
<1>2. JobRight(k) /\ k \in Jobs
  BY <1>1 DEF SubmissionsInv
<1>3. k.op = "update" /\ k.pc = "maps" /\ UNCHANGED Stores /\ s_scores' = s_scores
  BY <1>1 DEF Hosted!UpdateMaps, Hosted!At, Stores
<1>4. PICK of : of = Hosted!maps_of(k.id)
  OBVIOUS
<1>5. /\ of \subseteq DOMAIN s_maps /\ of \subseteq Taken /\ of \in SUBSET Nat
      /\ \A m \in of : s_maps[m].set = k.id
  BY <1>4, MapsRead
<1>6. PICK next : /\ s_tasks' = [s_tasks EXCEPT ![t] = next]
                  /\ \/ next = Hosted!NoTask
                     \/ /\ next = [k EXCEPT !.pc = "status", !.sub = of]
                        /\ of # {} /\ k.status # Hosted!Unset
  BY <1>1, <1>4 DEF Hosted!UpdateMaps, Hosted!Set, Hosted!Finish
<1>7. CASE next = Hosted!NoTask
  BY <1>3, <1>6, <1>7, EndsQuietly
<1>8. CASE /\ next = [k EXCEPT !.pc = "status", !.sub = of]
           /\ of # {} /\ k.status # Hosted!Unset
  <2>1. next \in Jobs
    BY <1>2, <1>5, <1>8 DEF Jobs
  <2>2. /\ next.ids = k.ids /\ next.id = k.id /\ next.sub = of /\ next.op = "update"
        /\ next.pc = "status" /\ next.u = k.u /\ next.status = k.status
    BY <1>2, <1>3, <1>8 DEF Jobs
  <2>3. NewIds(next) = NewIds(k) /\ Known(next) \subseteq Known(k) \cup of
    BY <2>2 DEF NewIds, Known
  <2>4. UpdateRight(next)
    BY <1>2, <1>3, <1>5, <1>8, <2>2 DEF JobRight, UpdateRight, Reads
  <2>5. JobRight(next)
    BY <1>2, <1>5, <2>1, <2>2, <2>3, <2>4 DEF JobRight
  <2>6. QED
    BY <1>1, <1>3, <1>5, <1>6, <2>3, <2>5, QuietStep
<1>9. QED
  BY <1>6, <1>7, <1>8

LEMMA LeastOf ==
  ASSUME NEW S, S \subseteq Nat, S # {}
  PROVE  (CHOOSE x \in S : \A y \in S : x <= y) \in S
<1>1. PICK R : R = OpToRel(<, Nat)
  OBVIOUS
<1>2. IsWellFoundedOn(R, Nat)
  BY <1>1, NatLessThanWellFounded
<1>3. PICK x \in S : \A y \in S : <<y, x>> \notin R
  BY <1>2, WFMin
<1>4. \A k, l \in Nat : <<l, k>> \in R <=> l < k
  BY <1>1 DEF OpToRel
<1>5. x \in Nat /\ \A y \in S : y \in Nat /\ ~ (y < x)
  BY <1>3, <1>4
<1>6. \A y \in S : x <= y
  BY <1>5
<1>7. QED
  BY <1>6

\* A map gets the status its set may have.
LEMMA UpdateStatusKeeps ==
  ASSUME SubmissionsInv, NEW t \in Calls, Hosted!UpdateStatus(t)
  PROVE  SubmissionsInv'
<1>1. PICK k, m : k = s_tasks[t] /\ m = CHOOSE x \in k.sub : \A y \in k.sub : x <= y
  OBVIOUS
<1>2. /\ JobRight(k) /\ k \in Jobs /\ k.sub \in SUBSET Nat
      /\ t \in DOMAIN s_tasks /\ RowsServed
  BY <1>1, JobFields DEF SubmissionsInv
<1>3. /\ k.op = "update" /\ k.pc = "status"
      /\ UNCHANGED <<s_sets, s_osu, s_osz, s_nextId, s_scores>>
  BY <1>1 DEF Hosted!UpdateStatus, Hosted!At
<1>4. UpdateRight(k) /\ m \in k.sub
  <2>1. UpdateRight(k) /\ k.sub # {}
    BY <1>2, <1>3 DEF JobRight, UpdateRight
  <2>2. QED
    BY <1>1, <1>2, <2>1, LeastOf
<1>5. /\ s_approved \subseteq s_approved'
      /\ k.u \in UploadStaff \cup Nominators => k.id \in s_approved'
  BY <1>1 DEF Hosted!UpdateStatus, Hosted!_is_staff, Hosted!_is_nominator
<1>6. k.status # "Pending" => k.id \in s_approved'
  BY <1>3, <1>4, <1>5 DEF UpdateRight
<1>7. /\ DOMAIN s_maps' = DOMAIN s_maps /\ s_maps' = [x \in DOMAIN s_maps' |-> s_maps'[x]]
      /\ \A x \in DOMAIN s_maps : /\ MapRow(s_maps'[x]) /\ s_maps'[x].set = s_maps[x].set
                                  /\ s_maps'[x].status # "Pending" => s_maps'[x].set \in s_approved'
  <2>1. CASE m \notin DOMAIN s_maps
    <3>1. s_maps' = s_maps
      BY <1>1, <2>1 DEF Hosted!UpdateStatus
    <3>2. QED
      BY <1>2, <1>5, <3>1 DEF RowsServed
  <2>2. CASE m \in DOMAIN s_maps
    <3>1. PICK row : row = [s_maps[m] EXCEPT !.status = k.status]
      OBVIOUS
    <3>2. s_maps' = [s_maps EXCEPT ![m] = row]
      BY <1>1, <2>2, <3>1 DEF Hosted!UpdateStatus
    <3>3. MapRow(s_maps[m]) /\ s_maps[m].set = k.id
      BY <1>2, <1>4, <2>2 DEF RowsServed, UpdateRight, Reads
    <3>4. MapRow(row) /\ row.set = k.id /\ row.status = k.status
      BY <3>1, <3>3 DEF MapRow
    <3>5. s_maps'[m] = row /\ \A x \in DOMAIN s_maps \ {m} : s_maps'[x] = s_maps[x]
      BY <2>2, <3>2
    <3>6. \A x \in DOMAIN s_maps : /\ MapRow(s_maps[x])
                                   /\ s_maps[x].status # "Pending" => s_maps[x].set \in s_approved
      BY <1>2 DEF RowsServed
    <3>7. DOMAIN s_maps' = DOMAIN s_maps /\ s_maps' = [x \in DOMAIN s_maps' |-> s_maps'[x]]
      BY <1>2, <3>2 DEF RowsServed
    <3>8. QED
      BY <1>5, <1>6, <3>3, <3>4, <3>5, <3>6, <3>7
  <2>3. QED
    BY <2>1, <2>2
<1>8. Gentle(k)
  BY <1>3, <1>5, <1>7 DEF Gentle
<1>9. RowsServed'
  <2>1. Taken' = Taken
    BY <1>3 DEF Taken
  <2>2. QED
    BY <1>2, <1>3, <1>5, <1>7, <2>1 DEF RowsServed, MapRow
<1>10. PICK next : /\ s_tasks' = [s_tasks EXCEPT ![t] = next]
                   /\ \/ next = Hosted!NoTask
                      \/ next = [k EXCEPT !.sub = k.sub \ {m}] /\ k.sub # {m}
  BY <1>1 DEF Hosted!UpdateStatus, Hosted!Set, Hosted!Finish
<1>11. s_tasks'[t] = next
  BY <1>2, <1>10
<1>12. CASE next = Hosted!NoTask
  <2>1. JobRight(s_tasks[t])'
    BY <1>11, <1>12, IdleRight
  <2>2. NewIds(next) = {} /\ Known(next) = {0}
    BY <1>12, NoTaskRight
  <2>3. QED
    BY <1>1, <1>3, <1>8, <1>9, <1>10, <2>1, <2>2, RequestStep
<1>13. CASE next = [k EXCEPT !.sub = k.sub \ {m}] /\ k.sub # {m}
  <2>1. PICK sub \in SUBSET Nat : sub = k.sub \ {m}
    BY <1>2
  <2>2. next = [k EXCEPT !.sub = sub] /\ sub \subseteq k.sub /\ sub # {}
    BY <1>4, <1>13, <2>1
  <2>3. next \in Jobs
    BY <1>2, <2>2 DEF Jobs
  <2>4. /\ next.ids = k.ids /\ next.id = k.id /\ next.sub = sub /\ next.op = "update"
        /\ next.pc = "status" /\ next.u = k.u /\ next.status = k.status
    BY <1>2, <1>3, <2>2 DEF Jobs
  <2>5. NewIds(next) = NewIds(k) /\ Known(next) \subseteq Known(k)
    BY <2>2, <2>4 DEF NewIds, Known
  <2>6. UpdateRight(s_tasks[t])'
    <3>1. UpdateRight(k)
      BY <1>4
    <3>2. \A x \in sub \cap DOMAIN s_maps' : s_maps'[x].set = k.id
      BY <1>7, <2>2, <3>1 DEF UpdateRight, Reads
    <3>3. QED
      BY <1>3, <1>5, <1>11, <2>2, <2>4, <3>1, <3>2 DEF UpdateRight, Reads
  <2>7. JobRight(s_tasks[t])'
    <3>1. NewIds(s_tasks[t])' = NewIds(next) /\ Known(s_tasks[t])' = Known(next) /\ Taken' = Taken
      BY <1>3, <1>11 DEF NewIds, Known, Taken
    <3>2. QED
      BY <1>2, <1>3, <1>7, <1>11, <2>3, <2>4, <2>5, <2>6, <3>1 DEF JobRight
  <2>8. QED
    BY <1>1, <1>3, <1>8, <1>9, <1>10, <2>5, <2>7, RequestStep
<1>14. QED
  BY <1>10, <1>12, <1>13

-----------------------------------------------------------------------------
(* A deletion: rows before files.                                          *)

LEMMA DeleteMapsKeeps ==
  ASSUME SubmissionsInv, NEW t \in Calls, Hosted!DeleteMaps(t)
  PROVE  SubmissionsInv'
<1>1. PICK k, of : k = s_tasks[t] /\ of = Hosted!maps_of(k.id)
  OBVIOUS
<1>2. JobRight(k) /\ k \in Jobs
  BY <1>1 DEF SubmissionsInv
<1>3. k.op = "delete" /\ k.pc = "maps" /\ UNCHANGED Stores /\ s_scores' = s_scores
  BY <1>1 DEF Hosted!DeleteMaps, Hosted!At, Stores
<1>4. /\ of \subseteq DOMAIN s_maps /\ of \subseteq Taken /\ of \in SUBSET Nat
      /\ \A m \in of : s_maps[m].set = k.id
  BY <1>1, MapsRead
<1>5. PICK pc \in {"rows", "total"} :
        pc = IF Hosted!_is_staff(k.u) \/ of = {} THEN "rows" ELSE "total"
  OBVIOUS
<1>6. PICK next : /\ s_tasks' = [s_tasks EXCEPT ![t] = next]
                  /\ next = [k EXCEPT !.sub = of, !.left = of, !.pc = pc]
  BY <1>1, <1>5 DEF Hosted!DeleteMaps, Hosted!Set
<1>7. next \in Jobs
  BY <1>2, <1>4, <1>6 DEF Jobs
<1>8. /\ next.ids = k.ids /\ next.id = k.id /\ next.sub = of /\ next.op = "delete" /\ next.pc = pc
  BY <1>2, <1>3, <1>6 DEF Jobs
<1>9. NewIds(next) = NewIds(k) /\ Known(next) \subseteq Known(k) \cup of
  BY <1>8 DEF NewIds, Known
<1>10. DeleteRight(next)
  BY <1>2, <1>3, <1>4, <1>6, <1>8 DEF JobRight, DeleteRight, Reads
<1>11. JobRight(next)
  BY <1>2, <1>4, <1>7, <1>8, <1>9, <1>10 DEF JobRight
<1>12. QED
  BY <1>1, <1>3, <1>4, <1>6, <1>9, <1>11, QuietStep

LEMMA ForeignScoresKeep ==
  ASSUME SubmissionsInv, NEW t \in Calls, Hosted!_has_foreign_scores(t)
  PROVE  SubmissionsInv'
<1>1. PICK k : k = s_tasks[t]
  OBVIOUS
<1>2. /\ JobRight(k) /\ k \in Jobs /\ k.left \in SUBSET Nat /\ IsFiniteSet(s_scores)
  BY <1>1, JobFields DEF SubmissionsInv
<1>3. /\ k.op = "delete" /\ k.pc \in {"total", "owned"} /\ UNCHANGED Stores /\ s_scores' = s_scores
  BY <1>1 DEF Hosted!_has_foreign_scores, Hosted!At, Stores
<1>4. PICK n, left, pc, next :
        /\ n \in Nat /\ left \in SUBSET Nat /\ pc \in {"rows", "total", "owned"}
        /\ s_tasks' = [s_tasks EXCEPT ![t] = next]
        /\ \/ next = Hosted!NoTask
           \/ next = [k EXCEPT !.n = n, !.pc = pc]
           \/ next = [k EXCEPT !.left = left, !.pc = pc]
  <2>1. PICK m, on : /\ m = CHOOSE x \in k.left : \A y \in k.left : x <= y
                     /\ on = {p \in s_scores : p[2] = m /\ p[1] \in Uploaders}
    OBVIOUS
  <2>2. PICK c : c = Hosted!Cardinality(on)
    OBVIOUS
  <2>3. c \in Nat
    <3>1. IsFiniteSet(on)
      BY <1>2, <2>1, FS_Subset
    <3>2. c = Cardinality(on)
      BY <2>2 DEF Hosted!Cardinality, Cardinality
    <3>3. QED
      BY <3>1, <3>2, FS_CardinalityType
  <2>4. k.left \ {m} \in SUBSET Nat
    BY <1>2
  <2>5. CASE Hosted!At(t, "delete", "total")
    <3>1. s_tasks' = [s_tasks EXCEPT ![t] = [k EXCEPT !.n = c, !.pc = "owned"]]
      BY <1>1, <2>1, <2>2, <2>5 DEF Hosted!_has_foreign_scores, Hosted!Set,
         Hosted!At
    <3>2. QED
      BY <2>3, <2>4, <3>1
  <2>6. CASE Hosted!At(t, "delete", "owned")
    <3>1. PICK to : to = IF k.left = {m} THEN "rows" ELSE "total"
      OBVIOUS
    <3>2. \/ s_tasks' = [s_tasks EXCEPT ![t] = Hosted!NoTask]
          \/ s_tasks' = [s_tasks EXCEPT ![t] = [k EXCEPT !.left = k.left \ {m}, !.pc = to]]
      BY <1>1, <2>1, <2>6, <3>1 DEF Hosted!_has_foreign_scores, Hosted!Set,
         Hosted!Finish, Hosted!At
    <3>3. QED
      BY <2>3, <2>4, <3>1, <3>2
  <2>7. QED
    BY <2>5, <2>6 DEF Hosted!_has_foreign_scores
<1>5. CASE next = Hosted!NoTask
  BY <1>3, <1>4, <1>5, EndsQuietly
<1>6. CASE \/ next = [k EXCEPT !.n = n, !.pc = pc]
           \/ next = [k EXCEPT !.left = left, !.pc = pc]
  <2>1. next \in Jobs
    <3>1. CASE next = [k EXCEPT !.n = n, !.pc = pc]
      BY <1>2, <1>4, <3>1 DEF Jobs
    <3>2. CASE next = [k EXCEPT !.left = left, !.pc = pc]
      BY <1>2, <1>4, <3>2 DEF Jobs
    <3>3. QED
      BY <1>6, <3>1, <3>2
  <2>2. /\ next.ids = k.ids /\ next.id = k.id /\ next.sub = k.sub /\ next.op = "delete"
        /\ next.pc = pc
    BY <1>2, <1>3, <1>6 DEF Jobs
  <2>3. NewIds(next) = NewIds(k) /\ Known(next) = Known(k)
    BY <2>2 DEF NewIds, Known
  <2>4. DeleteRight(next)
    BY <1>2, <1>3, <1>4, <2>2 DEF JobRight, DeleteRight, Reads
  <2>5. JobRight(next)
    BY <1>2, <2>1, <2>2, <2>3, <2>4 DEF JobRight
  <2>6. QED
    BY <1>1, <1>3, <1>4, <2>3, <2>5, QuietStep
<1>7. QED
  BY <1>4, <1>5, <1>6

\* The set goes with all maps there are of it, and so with all that were read.
LEMMA DeleteRowsKeeps ==
  ASSUME SubmissionsInv, NEW t \in Calls, Hosted!DeleteRows(t)
  PROVE  SubmissionsInv'
<1>1. PICK k, of : k = s_tasks[t] /\ of = Hosted!maps_of(k.id)
  OBVIOUS
<1>2. /\ JobRight(k) /\ k \in Jobs /\ t \in DOMAIN s_tasks /\ RowsServed
      /\ of = {m \in DOMAIN s_maps : s_maps[m].set = k.id}
  BY <1>1 DEF SubmissionsInv, Hosted!maps_of
<1>3. /\ k.op = "delete" /\ k.pc = "rows"
      /\ UNCHANGED <<s_osu, s_osz, s_nextId, s_approved>> /\ s_scores' \subseteq s_scores
      /\ s_maps' = [m \in DOMAIN s_maps \ of |-> s_maps[m]]
      /\ s_sets' = [s \in DOMAIN s_sets \ {k.id} |-> s_sets[s]]
      /\ s_tasks' = [s_tasks EXCEPT ![t] = [k EXCEPT !.pc = "files"]]
  BY <1>1 DEF Hosted!DeleteRows, Hosted!At, Hosted!Drop, Hosted!Set
<1>4. PICK next : next = [k EXCEPT !.pc = "files"]
  OBVIOUS
<1>5. s_tasks'[t] = next
  BY <1>2, <1>3, <1>4
<1>6. DeleteRight(k)
  BY <1>2, <1>3 DEF JobRight
<1>7. Gentle(k)
  BY <1>3 DEF Gentle
<1>8. RowsServed'
  <2>1. Taken' = Taken
    BY <1>3 DEF Taken
  <2>2. \A s \in DOMAIN s_sets' : s_sets'[s] = s_sets[s] /\ s \in DOMAIN s_sets
    BY <1>3
  <2>3. \A m \in DOMAIN s_maps' : /\ s_maps'[m] = s_maps[m] /\ m \in DOMAIN s_maps
                                  /\ s_maps[m].set # k.id
    BY <1>2, <1>3
  <2>4. s_sets' \in [DOMAIN s_sets' -> SetRow] /\ s_maps' = [m \in DOMAIN s_maps' |-> s_maps'[m]]
    BY <1>2, <1>3 DEF RowsServed
  <2>5. \A m \in DOMAIN s_maps' : s_maps'[m].set \in DOMAIN s_sets'
    BY <1>2, <1>3, <2>3 DEF RowsServed
  <2>6. QED
    BY <1>2, <1>3, <2>1, <2>2, <2>3, <2>4, <2>5 DEF RowsServed, MapRow
<1>9. /\ next \in Jobs /\ next.ids = k.ids /\ next.id = k.id /\ next.sub = k.sub
      /\ next.op = "delete" /\ next.pc = "files"
  BY <1>2, <1>3, <1>4 DEF Jobs
<1>10. NewIds(next) = NewIds(k) /\ Known(next) = Known(k)
  BY <1>9 DEF NewIds, Known
<1>11. DeleteRight(s_tasks[t])'
  <2>1. k.sub \cap DOMAIN s_maps' = {} /\ k.id \notin DOMAIN s_sets'
    BY <1>2, <1>3, <1>6 DEF DeleteRight, Reads
  <2>2. QED
    BY <1>5, <1>6, <1>9, <2>1 DEF DeleteRight
<1>12. JobRight(s_tasks[t])'
  <2>1. NewIds(s_tasks[t])' = NewIds(next) /\ Known(s_tasks[t])' = Known(next) /\ Taken' = Taken
    BY <1>3, <1>5 DEF NewIds, Known, Taken
  <2>2. DOMAIN s_sets' \subseteq DOMAIN s_sets /\ DOMAIN s_maps' \subseteq DOMAIN s_maps
    BY <1>3
  <2>3. QED
    BY <1>2, <1>5, <1>9, <1>10, <1>11, <2>1, <2>2 DEF JobRight
<1>13. QED
  BY <1>1, <1>3, <1>4, <1>7, <1>8, <1>10, <1>12, RequestStep

LEMMA DeleteFilesKeeps ==
  ASSUME SubmissionsInv, NEW t \in Calls, Hosted!DeleteFiles(t)
  PROVE  SubmissionsInv'
<1>1. PICK k : k = s_tasks[t]
  OBVIOUS
<1>2. JobRight(k) /\ k \in Jobs /\ t \in DOMAIN s_tasks /\ RowsServed
  BY <1>1 DEF SubmissionsInv
<1>3. /\ k.op = "delete" /\ k.pc = "files"
      /\ UNCHANGED <<s_sets, s_maps, s_nextId, s_approved, s_scores>>
      /\ s_tasks' = [s_tasks EXCEPT ![t] = Hosted!NoTask]
      /\ s_osu' = s_osu \ k.sub /\ s_osz' = s_osz \ {k.id}
  BY <1>1 DEF Hosted!DeleteFiles, Hosted!At, Hosted!Set, Hosted!Finish
<1>4. k.sub \cap DOMAIN s_maps = {} /\ k.id \notin DOMAIN s_sets
  BY <1>2, <1>3 DEF JobRight, DeleteRight
<1>5. Gentle(k)
  BY <1>3 DEF Gentle, Known
<1>6. RowsServed'
  BY <1>2, <1>3, <1>4, RowsStay DEF RowsServed
<1>7. s_tasks'[t] = Hosted!NoTask
  BY <1>2, <1>3
<1>8. JobRight(s_tasks[t])'
  BY <1>7, IdleRight
<1>9. PICK next : next = Hosted!NoTask /\ NewIds(next) = {} /\ Known(next) = {0}
  BY NoTaskRight
<1>10. QED
  BY <1>1, <1>3, <1>5, <1>6, <1>8, <1>9, RequestStep

-----------------------------------------------------------------------------
(* What happens around the requests, and what follows.                     *)

LEMMA RequestFailsKeeps ==
  ASSUME SubmissionsInv, NEW t \in Calls, Hosted!RequestFails(t)
  PROVE  SubmissionsInv'
<1>1. /\ s_tasks' = [s_tasks EXCEPT ![t] = Hosted!NoTask]
      /\ UNCHANGED Stores /\ s_scores' = s_scores
  BY DEF Hosted!RequestFails, Hosted!Set, Hosted!Finish, Stores
<1>2. QED
  BY <1>1, EndsQuietly

LEMMA CrashKeeps ==
  ASSUME SubmissionsInv, Hosted!Crash PROVE SubmissionsInv'
<1>1. /\ s_tasks' = [t \in Calls |-> Hosted!NoTask]
      /\ UNCHANGED Stores /\ s_scores' = s_scores
  BY DEF Hosted!Crash, Stores
<1>2. \A t \in Calls : s_tasks'[t] = Hosted!NoTask
  BY <1>1
<1>3. \A t \in Calls : JobRight(s_tasks[t])'
  BY <1>2, IdleRight
<1>4. PICK next : next = Hosted!NoTask /\ NewIds(next) = {} /\ next \in Jobs
  BY NoTaskRight
<1>5. s_tasks' \in [Calls -> Jobs]
  BY <1>1, <1>4
<1>6. \A t \in Calls : NewIds(s_tasks[t])' = {}
  BY <1>2, <1>4 DEF NewIds
<1>7. RowsServed' /\ s_nextId' \in Nat \ {0} /\ IsFiniteSet(s_scores)'
  BY <1>1 DEF SubmissionsInv, RowsServed, Stores, Taken
<1>8. QED
  BY <1>3, <1>5, <1>6, <1>7 DEF SubmissionsInv

\* Nothing but the scores changes.
LEMMA ScoresAside ==
  ASSUME SubmissionsInv, UNCHANGED Stores, s_tasks' = s_tasks, IsFiniteSet(s_scores)'
  PROVE  SubmissionsInv'
<1>1. RowsServed' /\ s_nextId' \in Nat \ {0} /\ Taken' = Taken
  BY DEF SubmissionsInv, RowsServed, Stores, Taken
<1>2. \A t \in Calls : JobRight(s_tasks[t])'
  <2> SUFFICES ASSUME NEW t \in Calls PROVE JobRight(s_tasks[t])'
    OBVIOUS
  <2>1. NewIds(s_tasks[t])' = NewIds(s_tasks[t]) /\ Known(s_tasks[t])' = Known(s_tasks[t])
    BY DEF NewIds, Known
  <2>2. JobRight(s_tasks[t])
    BY DEF SubmissionsInv
  <2>3. QED
    BY <1>1, <2>1, <2>2 DEF JobRight, Stores, SubmitRight, UpdateRight, DeleteRight, Reads
<1>3. QED
  <2>1. \A t \in Calls : /\ NewIds(s_tasks[t])' = NewIds(s_tasks[t])
                         /\ Known(s_tasks[t])' = Known(s_tasks[t])
    BY DEF NewIds, Known
  <2>2. s_tasks' \in [Calls -> Jobs] /\ IsFiniteSet(s_scores)'
    BY DEF SubmissionsInv
  <2>3. \A s, t \in Calls : s # t => (NewIds(s_tasks[s]) \cap Known(s_tasks[t]) = {})'
    BY <2>1 DEF SubmissionsInv
  <2>4. QED
    BY <1>1, <1>2, <2>2, <2>3 DEF SubmissionsInv

LEMMA PlayKeeps ==
  ASSUME SubmissionsInv, NEW u, NEW m, Hosted!Play(u, m) PROVE SubmissionsInv'
<1>1. /\ UNCHANGED Stores /\ s_tasks' = s_tasks /\ s_scores' = s_scores \cup {<<u, m>>}
  BY DEF Hosted!Play, Stores
<1>2. IsFiniteSet(s_scores)'
  BY <1>1, FS_AddElement DEF SubmissionsInv
<1>3. QED
  BY <1>1, <1>2, ScoresAside

\* Mirrored maps are none of the rows the invariant is about.
LEMMA MirrorKeeps ==
  ASSUME SubmissionsInv, NEW name, Hosted!MirrorChanges(name) PROVE SubmissionsInv'
<1>1. UNCHANGED Stores /\ s_tasks' = s_tasks /\ s_scores' = s_scores
  BY DEF Hosted!MirrorChanges, Stores
<1>2. IsFiniteSet(s_scores)'
  BY <1>1 DEF SubmissionsInv
<1>3. QED
  BY <1>1, <1>2, ScoresAside

LEMMA SubmissionsKept ==
  ASSUME SubmissionsInv, Hosted!Next PROVE SubmissionsInv'
<1>1. CASE Hosted!Crash
  BY <1>1, CrashKeeps
<1>2. CASE \E u \in Uploaders, m \in Hosted!Ids : Hosted!Play(u, m)
  BY <1>2, PlayKeeps
<1>3. ASSUME NEW t \in Calls, Hosted!Request(t) PROVE SubmissionsInv'
  <2>1. ASSUME NEW u \in Uploaders \cup {Hosted!None},
               NEW a \in Uploads, Hosted!submit_beatmap(t, u, a)
        PROVE  SubmissionsInv'
    BY <2>1, SubmitBegins
  <2>2. ASSUME NEW u \in Uploaders \cup {Hosted!None}, NEW s \in DOMAIN s_sets,
               Hosted!delete_beatmap_submission(t, u, s)
        PROVE  SubmissionsInv'
    BY <2>2, DeleteBegins
  <2>3. ASSUME NEW u \in Uploaders \cup {Hosted!None}, NEW s \in DOMAIN s_sets,
               NEW status \in {Hosted!Unset, "Ranked", "Loved", "Pending"},
               NEW state \in {Hosted!Unset} \cup Hosted!ReviewState, NEW note \in BOOLEAN,
               Hosted!update_beatmap_submission(t, u, s, status, state, note)
        PROVE  SubmissionsInv'
    BY <2>3, UpdateBegins
  <2>4. ASSUME \/ Hosted!allocate(t) \/ Hosted!_check_collisions(t)
               \/ Hosted!write_file(t) \/ Hosted!_commit_submission(t)
               \/ Hosted!SubmitFails(t) \/ Hosted!UpdateReview(t)
               \/ Hosted!UpdateMaps(t) \/ Hosted!UpdateStatus(t)
               \/ Hosted!DeleteMaps(t) \/ Hosted!_has_foreign_scores(t)
               \/ Hosted!DeleteRows(t) \/ Hosted!DeleteFiles(t)
               \/ Hosted!RequestFails(t)
        PROVE  SubmissionsInv'
    BY <2>4, AllocateKeeps, CheckCollisionsKeeps, WriteFileKeeps, CommitKeeps, SubmitFailsKeeps,
       UpdateReviewKeeps, UpdateMapsKeeps, UpdateStatusKeeps, DeleteMapsKeeps, ForeignScoresKeep,
       DeleteRowsKeeps, DeleteFilesKeeps, RequestFailsKeeps
  <2>5. QED
    BY <1>3, <2>1, <2>2, <2>3, <2>4 DEF Hosted!Request, Hosted!Ranked,
       Hosted!Loved, Hosted!Pending
<1>4. CASE \E name \in Hosted!Names : Hosted!MirrorChanges(name)
  BY <1>4, MirrorKeeps
<1>5. QED
  BY <1>1, <1>2, <1>3, <1>4 DEF Hosted!Next

LEMMA SubmissionsBegin == Hosted!Init => SubmissionsInv
<1> SUFFICES ASSUME Hosted!Init PROVE SubmissionsInv
  OBVIOUS
<1>1. PICK next : next = Hosted!NoTask /\ NewIds(next) = {} /\ next \in Jobs
                  /\ Known(next) = {0} /\ next.op = "idle"
  BY NoTaskRight
<1>2. s_tasks \in [Calls -> Jobs] /\ \A t \in Calls : s_tasks[t] = next
  BY <1>1 DEF Hosted!Init
<1>3. RowsServed /\ s_nextId \in Nat \ {0} /\ IsFiniteSet(s_scores)
  BY FS_EmptySet DEF Hosted!Init, RowsServed, Hosted!Empty
<1>4. JobRight(next)
  BY <1>1 DEF JobRight
<1>5. QED
  BY <1>1, <1>2, <1>3, <1>4 DEF SubmissionsInv

\* Rows have their files: whoever is shown a set can have them, and what is
\* listed for somebody is shown to them.
LEMMA ServedRight == SubmissionsInv => Hosted!ShownIsServed
<1> SUFFICES ASSUME SubmissionsInv PROVE Hosted!ShownIsServed
  OBVIOUS
<1>1. RowsServed
  BY DEF SubmissionsInv
<1>2. ASSUME NEW s \in DOMAIN s_sets, NEW u
      PROVE  /\ \A m \in Hosted!maps_of(s) :
                  /\ m \in s_osu
                  /\ Hosted!NotHosted \in Hosted!fetch_osu_file(s_maps[m].name)
                       => s_maps[m].name \in s_mirrored
             /\ s_sets[s].state = "approved" => Hosted!fetch_osz_archive(s)
  <2>1. s_sets[s].state = "approved" => Hosted!fetch_osz_archive(s)
    BY <1>1 DEF RowsServed, Hosted!fetch_osz_archive, Hosted!fetch_one
  <2>2. ASSUME NEW m \in Hosted!maps_of(s)
        PROVE  /\ m \in s_osu
               /\ Hosted!NotHosted \in Hosted!fetch_osu_file(s_maps[m].name)
                    => s_maps[m].name \in s_mirrored
    <3>1. PICK found : found = {x \in DOMAIN s_maps : s_maps[x].name = s_maps[m].name}
      OBVIOUS
    <3>2. m \in found /\ m \in s_osu
      BY <1>1, <3>1 DEF RowsServed, Hosted!maps_of
    <3>3. \A x \in found : x \in s_osu /\ x # 0
      BY <1>1, <3>1 DEF SubmissionsInv, RowsServed, Taken
    <3>4. \A x \in found : (IF x \in s_osu THEN x ELSE 0) # 0
      BY <3>3
    <3>5. Hosted!fetch_osu_file(s_maps[m].name) =
            {IF x \in s_osu THEN x ELSE 0 : x \in found}
            \cup (IF s_maps[m].name \in s_mirrored \/ found = {} THEN {0} ELSE {})
      BY <3>1 DEF Hosted!fetch_osu_file, Hosted!NotHosted
    <3>6. QED
      BY <3>2, <3>4, <3>5 DEF Hosted!NotHosted
  <2>3. QED
    BY <2>1, <2>2
<1>3. ASSUME NEW u \in Uploaders \cup {Hosted!None}, NEW v \in Uploaders \cup {Hosted!None},
             NEW mine \in BOOLEAN, NEW s \in Hosted!get_beatmap_submissions(u, mine, v, Hosted!Unset)
      PROVE  s \in DOMAIN s_sets /\ Hosted!get_beatmap_submission(u, s)
  <2>1. PICK owner, state :
          /\ owner = IF mine THEN u ELSE v
          /\ state = IF Hosted!_is_staff(u) \/ owner = u THEN Hosted!Unset ELSE "approved"
    OBVIOUS
  <2>2. u # Hosted!None /\ s \in Hosted!fetch_many(owner, state)
    BY <2>1 DEF Hosted!get_beatmap_submissions, Hosted!fetch_submissions,
       Hosted!_require_actor
  <2>3. /\ s \in DOMAIN s_sets
        /\ owner # Hosted!None => s_sets[s].owner = owner
    BY <2>2 DEF Hosted!fetch_many
  <2>4. state # Hosted!Unset => s_sets[s].state = state
    BY <2>2 DEF Hosted!fetch_many
  <2>5. Hosted!_may_view(u, s_sets[s])
    <3>1. CASE Hosted!_is_staff(u)
      BY <2>2, <3>1 DEF Hosted!_may_view
    <3>2. CASE owner = u
      BY <2>2, <2>3, <3>2 DEF Hosted!_may_view
    <3>3. CASE ~Hosted!_is_staff(u) /\ owner # u
      BY <2>1, <2>4, <3>3 DEF Hosted!_may_view, Hosted!Unset
    <3>4. QED
      BY <3>1, <3>2, <3>3
  <2>6. QED
    BY <2>2, <2>3, <2>5 DEF Hosted!get_beatmap_submission, Hosted!_require_actor,
       Hosted!fetch_submission, Hosted!fetch_one
<1>4. QED
  BY <1>2, <1>3 DEF Hosted!ShownIsServed

LEMMA SubmissionsKeptAlways ==
  SubmissionsInv /\ (Hosted!Next \/ UNCHANGED s_vars) => SubmissionsInv'
<1>1. ASSUME SubmissionsInv, UNCHANGED s_vars PROVE SubmissionsInv'
  <2>1. UNCHANGED Stores /\ s_tasks' = s_tasks /\ s_scores' = s_scores
    BY <1>1 DEF s_vars, Stores
  <2>2. IsFiniteSet(s_scores)'
    BY <1>1, <2>1 DEF SubmissionsInv
  <2>3. QED
    BY <1>1, <2>1, <2>2, ScoresAside
<1>2. QED
  BY <1>1, SubmissionsKept

\* The files of a submission that is shown are there, and a difficulty's name is
\* answered with one unless a mirrored map has that name too, through crashes,
\* requests that overlap and mirrored maps that come and go
\* (submit_beatmap_archive, delete_submission, fetch_osu_file).
THEOREM SubmissionsServed == MapsSpec => []ShownIsServed
<1> DEFINE I == half = "submissions" => SubmissionsInv
<1>1. MapsInit => I
  BY SubmissionsBegin DEF MapsInit
<1>2. I /\ [MapsNext]_mapsvars => I'
  BY SubmissionsKeptAlways DEF MapsNext, mapsvars
<1>3. I => ShownIsServed
  BY ServedRight DEF ShownIsServed
<1>4. QED
  BY <1>1, <1>2, <1>3, PTL DEF MapsSpec

\* No difficulty has a leaderboard whose set staff did not review before
\* (update_submission, _check_status_permitted).
THEOREM ReviewedFirst == MapsSpec => []LeaderboardsAreReviewed
<1> DEFINE I == half = "submissions" => SubmissionsInv
<1>1. MapsInit => I
  BY SubmissionsBegin DEF MapsInit
<1>2. I /\ [MapsNext]_mapsvars => I'
  BY SubmissionsKeptAlways DEF MapsNext, mapsvars
<1>3. SubmissionsInv => Hosted!LeaderboardsAreReviewed
  BY DEF SubmissionsInv, RowsServed, Hosted!LeaderboardsAreReviewed, Hosted!Pending
<1>4. I => LeaderboardsAreReviewed
  BY <1>3 DEF LeaderboardsAreReviewed
<1>5. QED
  BY <1>1, <1>2, <1>4, PTL DEF MapsSpec
=============================================================================
