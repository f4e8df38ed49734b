---------------------------- MODULE Leaderboard ----------------------------
(***************************************************************************)
(* Ranks are kept twice: the stats table of MySQL holds every player's pp, *)
(* redis holds sorted sets, one for all players and one per country, that  *)
(* scores, restrictions, profile changes and logins keep up to date a      *)
(* command at a time.  A rebuild reads the table in batches into staging   *)
(* keys and swaps them in.                                                 *)
(*                                                                         *)
(* One game mode: the code treats the modes one after the other in the     *)
(* same way.  A Player object is read from the database when its user is   *)
(* offline and shared with the session when it is online, so objects have  *)
(* an identity of their own.  The insert into the audit log that restrict  *)
(* and unrestrict await in their middle touches nothing else and is folded *)
(* into the step before it.                                                *)
(***************************************************************************)
EXTENDS Integers, FiniteSets

CONSTANTS
    NUsers,      \* users are 1..NUsers, in the order of their ids
    Countries,   \* country codes
    HomeCountry, \* the country everybody starts in
    Tasks,       \* requests of the server that may be under way at once
    MaxPP,       \* pp is 0..MaxPP
    BatchSize,   \* rows the rebuild reads at a time
    MaxOps,      \* requests and rebuilds that begin, all in all
    MaxFaults    \* redis losses, restarts and killed rebuilds together

VARIABLES
    rows,        \* users and stats tables: priv, country and pp of each user
    objs,        \* Player objects that somebody still refers to
    online,      \* the object in the player list for each user, or Nothing
    tasks,       \* requests under way
    board,       \* redis: the sorted sets, pp of each member
    staged,      \* redis: the :rebuilding keys
    rebuild,     \* the rebuild under way
    serving,     \* whether start-up is over
    ops,         \* requests and rebuilds so far
    faults,      \* faults so far
    steady,      \* users ranked in MySQL ever since the rebuild began; none after a redis loss
    seen,        \* users ranked in MySQL at some time since it began
    mixed,       \* users of whom two operations overlapped, or one failed
    killed       \* a rebuild was killed between staging and commit

vars == <<rows, objs, online, tasks, board, staged, rebuild, serving, ops, faults,
          steady, seen, mixed, killed>>
ghosts == <<steady, seen, mixed, killed>>

Users == 1 .. NUsers
ObjIds == 1 .. (NUsers + Cardinality(Tasks))
Nothing == 0
Absent == -1
Global == "global"
Boards == {Global} \cup Countries

Unrestricted == "unrestricted"
Verified == "verified"
Privileges == {Unrestricted, Verified}

NoTask == [op |-> "idle", u |-> Nothing, o |-> Nothing, pc |-> "", val |-> {},
           c |-> Global, old |-> Global, pp |-> 0]
NoObj == [priv |-> {}, country |-> Global, pp |-> 0, token |-> FALSE, stats |-> FALSE]
EmptySet == [u \in Users |-> Absent]
NoRebuild == [pc |-> "idle", touched |-> {}, after |-> 0, batch |-> EmptySet,
              where |-> [u \in Users |-> Global], boot |-> FALSE]

----------------------------------------------------------------------------
(* The stats repository *)

\* Mutant: the privileges are not looked at.
IsRanked_Anyone(r) == r.pp > 0

\* The rows the leaderboards of the site and the rebuild select: players that
\* are unrestricted and verified, with some pp.
IsRanked(r) == r.priv = Privileges /\ r.pp > 0

\* fetch_leaderboard_stats_rows: the SQL-backed leaderboard, all or one country.
fetch_leaderboard_stats_rows(country) ==
    {u \in Users : IsRanked(rows[u]) /\ (country = Global \/ rows[u].country = country)}

\* fetch_ranked_pp_for_mode: the next batch_size of them after an id.
fetch_ranked_pp_for_mode(size, after) ==
    LET rest == {u \in Users : IsRanked(rows[u]) /\ u > after} IN
    {u \in rest : Cardinality({v \in rest : v < u}) < size}

(* The leaderboard_ranks repository: a sorted set that lost its last member
   is no longer a key of redis. *)
ZAdd(b, c, u, pp) == [b EXCEPT ![c][u] = pp]
ZRem(b, c, u) == [b EXCEPT ![c][u] = Absent]
count_ranked(c) == Cardinality({u \in Users : board[c][u] # Absent})
fetch_existing_keys == {c \in Countries : board[c] # EmptySet} \cup {Global}
\* Mutant of discard_staging: nothing is deleted.
discard_staging_Leaves(keys) == staged
discard_staging(keys) == [c \in Boards |-> IF c \in keys THEN EmptySet ELSE staged[c]]

\* fetch_global_rank and fetch_country_rank: one more than the members above.
Rank(c, u) == IF board[c][u] = Absent THEN Nothing
              ELSE 1 + Cardinality({v \in Users : board[c][v] > board[c][u]})
fetch_player_mode_ranks(u) == [global |-> Rank(Global, u), country |-> Rank(rows[u].country, u)]

----------------------------------------------------------------------------
(* Player objects *)

\* Objects nobody refers to any more are gone.
Collect(new) ==
    objs' = [o \in ObjIds |-> IF \/ \E u \in Users : online'[u] = o
                                 \/ \E t \in Tasks : tasks'[t].o = o
                              THEN new[o] ELSE NoObj]

FreshObj == CHOOSE o \in ObjIds : objs[o] = NoObj

\* get_sql: an object for a user who is not online.  It gets a token like a
\* session's, and no statistics.
get_sql(u) == [priv |-> rows[u].priv, country |-> rows[u].country, pp |-> 0,
               token |-> TRUE, stats |-> FALSE]

\* is_online is about the token, which an object read from the database has too.
is_online(o) == objs[o].token

Advance(t, pc) == tasks' = [tasks EXCEPT ![t].pc = pc]
Finish(t) == tasks' = [tasks EXCEPT ![t] = NoTask]

\* logout takes the object out of the list if it is the one listed, and takes
\* its token.
logout(o) == /\ online' = [u \in Users |-> IF online[u] = o THEN Nothing ELSE online[u]]
             /\ Collect([objs EXCEPT ![o].token = FALSE])

Busy(u) == \E t \in Tasks : tasks[t].u = u
\* A request for u begins; bookkeeping of overlaps for the properties.
Begin(t, task) ==
    /\ tasks[t] = NoTask /\ serving /\ ops < MaxOps /\ ops' = ops + 1
    /\ tasks' = [tasks EXCEPT ![t] = task]
    /\ mixed' = IF Busy(task.u) \/ rebuild.pc # "idle" THEN mixed \cup {task.u} ELSE mixed
    /\ UNCHANGED <<steady, seen, killed>>

\* What a change of the tables does to the history variables.
Observe == LET now == {u \in Users : IsRanked(rows'[u])} IN
           IF rebuild.pc = "idle" THEN UNCHANGED <<steady, seen>>
           ELSE steady' = steady \cap now /\ seen' = seen \cup now

Forget == steady' = {} /\ seen' = {} /\ UNCHANGED <<mixed, killed>>
WriteRow(r) == rows' = r /\ Observe /\ UNCHANGED <<mixed, killed>>

----------------------------------------------------------------------------
(* Login: authenticate, record the login, look the address up (which gives
   the object its country), load the statistics, verify the account at its
   first login, and join the player list. *)

LoginRead(t, u, c) ==
    /\ online[u] = Nothing
    /\ ~ \E s \in Tasks : tasks[s].u = u /\ tasks[s].op = "login"
    /\ Begin(t, [NoTask EXCEPT !.op = "login", !.u = u, !.o = FreshObj, !.pc = "stats"])
    /\ online' = online
    /\ Collect([objs EXCEPT ![FreshObj] = [get_sql(u) EXCEPT !.country = c]])
    /\ UNCHANGED <<rows, board, staged, rebuild, serving, faults>>

\* stats_from_sql_full
StatsFromSql(o, u) == [objs EXCEPT ![o].pp = rows[u].pp, ![o].stats = TRUE]

LoginStats(t) ==
    LET k == tasks[t]
        new == StatsFromSql(k.o, k.u)
        bits == objs[k.o].priv
        first == Unrestricted \in bits /\ Verified \notin bits IN
    /\ k.op = "login" /\ k.pc = "stats"
    /\ IF first
       THEN /\ tasks' = [tasks EXCEPT ![t].pc = "verify", ![t].val = bits \cup {Verified}]
            /\ online' = online
            /\ Collect([new EXCEPT ![k.o].priv = bits \cup {Verified}])
       ELSE /\ Finish(t)
            /\ online' = [online EXCEPT ![k.u] = k.o]
            /\ Collect(new)
    /\ UNCHANGED <<rows, board, staged, rebuild, serving, faults, ops, ghosts>>

\* add_privs writes the whole value it had when it was called.
LoginVerify(t) ==
    LET k == tasks[t] IN
    /\ k.op = "login" /\ k.pc = "verify"
    /\ WriteRow([rows EXCEPT ![k.u].priv = k.val])
    /\ Finish(t)
    /\ online' = [online EXCEPT ![k.u] = k.o]
    /\ Collect(objs)
    /\ UNCHANGED <<board, staged, rebuild, serving, faults, ops>>

Logout(u) ==
    /\ online[u] # Nothing
    /\ tasks' = tasks
    /\ logout(online[u])
    /\ UNCHANGED <<rows, board, staged, rebuild, serving, faults, ops, ghosts>>

----------------------------------------------------------------------------
(* A submitted score that changes the player's pp: the statistics in memory,
   the row, then update_rank. *)

Submit(t, u, pp) ==
    /\ online[u] # Nothing /\ pp # objs[online[u]].pp
    /\ Begin(t, [NoTask EXCEPT !.op = "submit", !.u = u, !.o = online[u], !.pc = "row",
                               !.pp = objs[online[u]].pp])
    /\ online' = online
    /\ Collect([objs EXCEPT ![online[u]].pp = pp])
    /\ UNCHANGED <<rows, board, staged, rebuild, serving, faults>>

SubmitRow(t) ==
    LET k == tasks[t] IN
    /\ k.op = "submit" /\ k.pc = "row"
    /\ WriteRow([rows EXCEPT ![k.u].pp = objs[k.o].pp])
    /\ Advance(t, "rank")
    /\ UNCHANGED <<objs, online, board, staged, rebuild, serving, faults, ops>>

\* update_rank: a restricted player is left alone; the country is taken down
\* before the first command.
update_rank(t) ==
    LET k == tasks[t] IN
    /\ k.op = "submit" /\ k.pc = "rank"
    /\ online' = online
    /\ IF Unrestricted \in objs[k.o].priv
       THEN /\ board' = ZAdd(board, Global, k.u, objs[k.o].pp)
            /\ tasks' = [tasks EXCEPT ![t].pc = "country", ![t].c = objs[k.o].country]
       ELSE Finish(t) /\ board' = board
    /\ Collect(objs)
    /\ UNCHANGED <<rows, staged, rebuild, serving, faults, ops, ghosts>>

update_country_rank(t) ==
    LET k == tasks[t] IN
    /\ k.op = "submit" /\ k.pc = "country"
    /\ board' = ZAdd(board, k.c, k.u, objs[k.o].pp)
    /\ Finish(t) /\ online' = online /\ Collect(objs)
    /\ UNCHANGED <<rows, staged, rebuild, serving, faults, ops, ghosts>>

----------------------------------------------------------------------------
(* !restrict and !unrestrict: the object in the player list, or a new one from
   the database; the privilege in memory, the row, the sorted sets, logout. *)

\* remove_privs and add_privs before their write.
SetPriv(t, op, u, o, from, bits) ==
    /\ Begin(t, [NoTask EXCEPT !.op = op, !.u = u, !.o = o, !.pc = "row", !.val = bits])
    /\ online' = online
    /\ Collect([objs EXCEPT ![o] = [from EXCEPT !.priv = bits]])
    /\ UNCHANGED <<rows, board, staged, rebuild, serving, faults>>

\* from_cache_or_sql
Target(u) == IF online[u] # Nothing THEN objs[online[u]] ELSE get_sql(u)
TargetId(u) == IF online[u] # Nothing THEN online[u] ELSE FreshObj

restrict(t, u) ==
    /\ Unrestricted \in Target(u).priv
    /\ SetPriv(t, "restrict", u, TargetId(u), Target(u), Target(u).priv \ {Unrestricted})

unrestrict(t, u) ==
    /\ Unrestricted \notin Target(u).priv
    /\ SetPriv(t, "unrestrict", u, TargetId(u), Target(u), Target(u).priv \cup {Unrestricted})

PrivRow(t) ==
    LET k == tasks[t] IN
    /\ k.op \in {"restrict", "unrestrict"} /\ k.pc = "row"
    /\ WriteRow([rows EXCEPT ![k.u].priv = k.val])
    /\ Advance(t, IF k.op = "restrict" THEN "global"
                  ELSE IF is_online(k.o) THEN "global" ELSE "stats")
    /\ UNCHANGED <<objs, online, board, staged, rebuild, serving, faults, ops>>

UnrestrictStats(t) ==
    LET k == tasks[t] IN
    /\ k.op = "unrestrict" /\ k.pc = "stats"
    /\ Advance(t, "global") /\ online' = online
    /\ Collect(StatsFromSql(k.o, k.u))
    /\ UNCHANGED <<rows, board, staged, rebuild, serving, faults, ops, ghosts>>

\* restrict removes; unrestrict adds what statistics the object has.
PrivGlobal(t) ==
    LET k == tasks[t] IN
    /\ k.op \in {"restrict", "unrestrict"} /\ k.pc = "global"
    /\ board' = IF k.op = "restrict" THEN ZRem(board, Global, k.u)
                ELSE IF objs[k.o].stats THEN ZAdd(board, Global, k.u, objs[k.o].pp)
                ELSE board
    /\ Advance(t, "country")
    /\ UNCHANGED <<rows, objs, online, staged, rebuild, serving, faults, ops, ghosts>>

PrivCountry(t) ==
    LET k == tasks[t]
        c == objs[k.o].country IN
    /\ k.op \in {"restrict", "unrestrict"} /\ k.pc = "country"
    /\ board' = IF k.op = "restrict" THEN ZRem(board, c, k.u)
                ELSE IF objs[k.o].stats THEN ZAdd(board, c, k.u, objs[k.o].pp)
                ELSE board
    /\ Finish(t)
    /\ logout(k.o)
    /\ UNCHANGED <<rows, staged, rebuild, serving, faults, ops, ghosts>>

----------------------------------------------------------------------------
(* update_profile with a new country.  The row of the user, and with it the
   privileges, were read when the request was authenticated. *)

ProfileRead(t, u, c) ==
    /\ c # rows[u].country
    /\ Begin(t, [NoTask EXCEPT !.op = "profile", !.u = u, !.pc = "row", !.c = c,
                               !.old = rows[u].country, !.val = rows[u].priv])
    /\ UNCHANGED <<rows, objs, online, board, staged, rebuild, serving, faults>>

ProfileRow(t) ==
    LET k == tasks[t] IN
    /\ k.op = "profile" /\ k.pc = "row"
    /\ WriteRow([rows EXCEPT ![k.u].country = k.c])
    /\ Advance(t, "remove") /\ online' = online
    /\ Collect(IF online[k.u] = Nothing THEN objs
               ELSE [objs EXCEPT ![online[k.u]].country = k.c])
    /\ UNCHANGED <<board, staged, rebuild, serving, faults, ops>>

remove_from_country_leaderboard(t) ==
    LET k == tasks[t] IN
    /\ k.op = "profile" /\ k.pc = "remove"
    /\ board' = ZRem(board, k.old, k.u)
    /\ IF Unrestricted \in k.val
       THEN tasks' = [tasks EXCEPT ![t].pc = "add", ![t].pp = rows[k.u].pp]
       ELSE Finish(t)
    /\ UNCHANGED <<rows, objs, online, staged, rebuild, serving, faults, ops, ghosts>>

add_to_country_leaderboard(t) ==
    LET k == tasks[t] IN
    /\ k.op = "profile" /\ k.pc = "add"
    /\ board' = ZAdd(board, k.c, k.u, k.pp)
    /\ Finish(t)
    /\ UNCHANGED <<rows, objs, online, staged, rebuild, serving, faults, ops, ghosts>>

\* A statement or a redis command of the request raises: the request ends where
\* it is.  Only score submission puts memory back.
TaskFails(t) ==
    LET k == tasks[t] IN
    /\ k # NoTask /\ faults < MaxFaults /\ faults' = faults + 1
    /\ Finish(t) /\ online' = online
    /\ Collect(IF k.op = "submit" /\ k.pc = "row" THEN [objs EXCEPT ![k.o].pp = k.pp] ELSE objs)
    /\ mixed' = mixed \cup {k.u}
    /\ UNCHANGED <<rows, board, staged, rebuild, serving, ops, steady, seen, killed>>

----------------------------------------------------------------------------
(* The rebuild: by the maintenance tool at any time, or at start-up. *)

StartRebuild(boot) ==
    /\ rebuild' = [NoRebuild EXCEPT !.pc = "fetch", !.touched = fetch_existing_keys,
                                    !.boot = boot]
    /\ steady' = {u \in Users : IsRanked(rows[u])} /\ seen' = steady'
    /\ mixed' = mixed \cup {u \in Users : Busy(u)}
    /\ UNCHANGED <<rows, objs, online, tasks, board, staged, faults, killed>>

\* tools/rebuild_leaderboards.py
RebuildTool == /\ rebuild.pc = "idle" /\ serving /\ ops < MaxOps /\ ops' = ops + 1
               /\ StartRebuild(FALSE) /\ UNCHANGED serving

\* rebuild_mode reads the next batch, ...
RebuildFetch ==
    LET page == fetch_ranked_pp_for_mode(BatchSize, rebuild.after) IN
    /\ rebuild.pc = "fetch"
    /\ rebuild' = IF page = {} THEN [rebuild EXCEPT !.pc = "commit"]
                  ELSE [rebuild EXCEPT !.pc = "stage",
                          !.batch = [u \in Users |-> IF u \in page THEN rows[u].pp ELSE Absent],
                          !.where = [u \in Users |-> IF u \in page THEN rows[u].country ELSE Global]]
    /\ UNCHANGED <<rows, objs, online, tasks, board, staged, serving, faults, ops, ghosts>>

Batch == {u \in Users : rebuild.batch[u] # Absent}
\* ... adds it to the staging keys (stage_scores), and goes on after its last id.
RebuildStage ==
    /\ rebuild.pc = "stage"
    /\ staged' = [c \in Boards |-> [u \in Users |->
                     IF u \in Batch /\ c \in {Global, rebuild.where[u]}
                     THEN rebuild.batch[u] ELSE staged[c][u]]]
    /\ rebuild' = [rebuild EXCEPT
                     !.pc = IF Cardinality(Batch) < BatchSize THEN "commit" ELSE "fetch",
                     !.touched = @ \cup {rebuild.where[u] : u \in Batch},
                     !.after = CHOOSE u \in Batch : \A v \in Batch : v <= u,
                     !.batch = EmptySet, !.where = NoRebuild.where]
    /\ UNCHANGED <<rows, objs, online, tasks, board, serving, faults, ops, ghosts>>

\* commit_staged: each touched key is replaced by its staging key, or deleted
\* when there is none.
RebuildCommit ==
    /\ rebuild.pc = "commit"
    /\ board' = [c \in Boards |-> IF c \in rebuild.touched THEN staged[c] ELSE board[c]]
    /\ staged' = discard_staging(rebuild.touched)
    /\ rebuild' = NoRebuild /\ serving' = TRUE /\ Forget
    /\ UNCHANGED <<rows, objs, online, tasks, faults, ops>>

\* An exception: the staging keys are deleted; start-up goes on regardless.
RebuildFails ==
    /\ rebuild.pc # "idle" /\ faults < MaxFaults /\ faults' = faults + 1
    /\ staged' = discard_staging(rebuild.touched)
    /\ rebuild' = NoRebuild /\ serving' = TRUE /\ Forget
    /\ UNCHANGED <<rows, objs, online, tasks, board, ops>>

\* The process of the tool is killed, or its task cancelled, which is no Exception.
RebuildKilled ==
    /\ rebuild.pc # "idle" /\ ~rebuild.boot /\ faults < MaxFaults /\ faults' = faults + 1
    /\ rebuild' = NoRebuild /\ killed' = TRUE /\ steady' = {} /\ seen' = {}
    /\ UNCHANGED <<rows, objs, online, tasks, board, staged, serving, ops, mixed>>

\* Redis loses what it held.
RedisLoss ==
    /\ faults < MaxFaults /\ faults' = faults + 1
    /\ board' = [c \in Boards |-> EmptySet] /\ staged' = board'
    /\ board # board'
    /\ steady' = {}
    /\ UNCHANGED <<rows, objs, online, tasks, rebuild, serving, ops, seen, mixed, killed>>

\* The server stops: its sessions and requests are gone.
Restart ==
    /\ serving /\ rebuild.pc = "idle" /\ faults < MaxFaults /\ faults' = faults + 1
    /\ serving' = FALSE
    /\ online' = [u \in Users |-> Nothing] /\ tasks' = [t \in Tasks |-> NoTask]
    /\ objs' = [o \in ObjIds |-> NoObj]
    /\ mixed' = mixed \cup {u \in Users : Busy(u)}
    /\ UNCHANGED <<rows, board, staged, rebuild, ops, steady, seen, killed>>

\* is_empty: no entry on the leaderboard although MySQL has a ranked player.
is_empty == count_ranked(Global) = 0 /\ fetch_ranked_pp_for_mode(1, 0) # {}

\* _rebuild_leaderboards_if_lost, before any request is served.
Boot ==
    /\ ~serving /\ rebuild.pc = "idle"
    /\ IF is_empty THEN StartRebuild(TRUE) /\ UNCHANGED <<serving, ops>>
       ELSE /\ serving' = TRUE
            /\ UNCHANGED <<rows, objs, online, tasks, board, staged, rebuild, faults, ops, ghosts>>

----------------------------------------------------------------------------
Init ==
    /\ rows \in [Users -> [priv : {{Unrestricted}, Privileges}, country : {HomeCountry}, pp : 0 .. 1]]
    /\ \A u \in Users : rows[u].pp > 0 => Verified \in rows[u].priv
    /\ objs = [o \in ObjIds |-> NoObj]
    /\ online = [u \in Users |-> Nothing]
    /\ tasks = [t \in Tasks |-> NoTask]
    /\ board = [c \in Boards |-> [u \in Users |->
                  IF u \in fetch_leaderboard_stats_rows(c) THEN rows[u].pp ELSE Absent]]
    /\ staged = [c \in Boards |-> EmptySet]
    /\ rebuild = NoRebuild /\ serving = TRUE /\ ops = 0 /\ faults = 0
    /\ steady = {} /\ seen = {} /\ mixed = {} /\ killed = FALSE

Request(t) ==
    \/ \E u \in Users : \/ \E c \in Countries : LoginRead(t, u, c) \/ ProfileRead(t, u, c)
                        \/ \E pp \in 1 .. MaxPP : Submit(t, u, pp)
                        \/ restrict(t, u) \/ unrestrict(t, u)
    \/ LoginStats(t) \/ LoginVerify(t)
    \/ SubmitRow(t) \/ update_rank(t) \/ update_country_rank(t)
    \/ PrivRow(t) \/ UnrestrictStats(t) \/ PrivGlobal(t) \/ PrivCountry(t)
    \/ ProfileRow(t) \/ remove_from_country_leaderboard(t) \/ add_to_country_leaderboard(t)
    \/ TaskFails(t)

Next ==
    \/ \E t \in Tasks : Request(t)
    \/ \E u \in Users : Logout(u)
    \/ RebuildTool \/ RebuildFetch \/ RebuildStage \/ RebuildCommit
    \/ RebuildFails \/ RebuildKilled \/ RedisLoss \/ Restart \/ Boot

Spec == Init /\ [][Next]_vars

----------------------------------------------------------------------------
(* Properties *)

CommitIsExact ==
    RebuildCommit =>
      LET ranked == {u \in Users : board'[Global][u] # Absent} IN
      steady \subseteq ranked /\ (~killed => ranked \subseteq seen)

\* A rebuild that is swapped in, redis having lost nothing meanwhile, holds
\* everybody who was ranked in MySQL all the time it ran, and, unless an earlier
\* rebuild was killed and left its staging keys behind, nobody who was never
\* ranked while it ran: batches neither skip nor repeat rows while scores,
\* restrictions and profile changes go on (rebuild_mode,
\* fetch_ranked_pp_for_mode, commit_staged).
RebuildIsExact == [][CommitIsExact]_vars

\* When the operations on a player came one at a time and none failed, a player
\* who is restricted in MySQL is not on the global leaderboard of redis, in
\* whatever order logins, scores, restrictions, country changes, rebuilds and
\* restarts came (restrict, update_rank, rebuild_mode).
RestrictedAreUnranked ==
    \A u \in Users \ mixed :
        ~Busy(u) /\ rebuild.pc = "idle" /\ ~killed /\ Unrestricted \notin rows[u].priv
            => fetch_player_mode_ranks(u).global = Nothing
============================================================================
