--------------------------- MODULE MatchSettings ---------------------------
(***************************************************************************)
(* What is played in a multiplayer match and who has won: map, mods and    *)
(* freemods, team type and teams, win condition, scrims with their points, *)
(* map pools and bans.  Packets of the host and !mp commands of referees   *)
(* change them; several of these await the database or a beatmap half way, *)
(* and the points of a game are given by a task that waits for the scores  *)
(* of the players for up to ten seconds, while everything else goes on.    *)
(*                                                                         *)
(* Who is seated where is Lobby's subject and when a game runs MatchPlay's:*)
(* here players come, go and move, and a game ends, at any time.  The slot *)
(* statuses, the game mode and the name of the match are left out.  With   *)
(* them goes what makes a seat open: whoever comes or moves takes any seat,*)
(* also one that is taken, for a slot that was locked and unlocked is open *)
(* with its player in it.  Who sat there is displaced: still in the match, *)
(* perhaps as its host, without a seat, so that what looks for it fails.   *)
(***************************************************************************)
EXTENDS Integers, Sequences, FiniteSets

CONSTANTS
    Players,      \* strings
    Referees,     \* players who may use !mp commands in any match they are in
    Matches,      \* matches, each created before the model begins
    NSlots,
    Mods,         \* the mods clients choose from, a set of two-letter names
    Maps,         \* maps, positive numbers
    TeamTypes,    \* a subset of head_to_head, tag_coop, team_vs, tag_team_vs
    BestOf,       \* arguments given to !mp scrim
    Pools,        \* map pools: for each pool, its picks
    Tasks,        \* handlers and background tasks that await
    MaxScore, MaxOps

VARIABLES
    match,        \* Match objects, and who has them as player.match
    slots,        \* their slots
    task,         \* handlers and background tasks half way through
    ops

vars == <<match, slots, task, ops>>

Nobody == "nobody"
NoMap == 0
NoPool == "no pool"
Conditions == {"score", "acc"}
Teams == {"neutral", "red", "blue"}
Tie == "tie"
SPEED_CHANGING_MODS == {"DT", "NC", "HT"}

ffa(team_type) == team_type \in {"head_to_head", "tag_coop"}
default_team(team_type) == IF ffa(team_type) THEN "neutral" ELSE "red"

Slot == [player |-> Nobody, mods |-> {}, team |-> "neutral"]
\* uncleared is no field of the code: freemods have been switched off and the
\* players' mods were not cleared.
Match(host, mods, freemods, team_type) ==
    [host |-> host, members |-> {host}, listed |-> TRUE, uncleared |-> FALSE, map |-> NoMap, prev |-> NoMap, mods |-> mods, freemods |-> freemods,
     team_type |-> team_type, cond |-> "score", pp |-> FALSE, pool |-> NoPool,
     passwd |-> "given",
     scrimming |-> FALSE, winning_pts |-> 0, points |-> [k \in Players \cup Teams |-> 0],
     winners |-> <<>>, bans |-> {}]
Idle == [op |-> "idle"]

Seats == 1 .. NSlots
Seated(m, i) == slots[m][i].player # Nobody
In(p, m) == p \in match[m].members
Sits(p, m) == \E i \in Seats : slots[m][i].player = p
get_slot(p, m) == CHOOSE i \in Seats : slots[m][i].player = p
Occupied(m, f(_)) == [slots EXCEPT ![m] = [i \in Seats |->
                         IF Seated(m, i) THEN f(slots[m][i]) ELSE slots[m][i]]]

----------------------------------------------------------------------------
(* Players come and go *)

join_match(p, m, i) ==
    LET s == slots[m][i] IN
    /\ \A n \in Matches : ~In(p, n)
    /\ match[m].listed
    /\ match' = [match EXCEPT ![m].members = @ \cup {p}]
    /\ slots' = [slots EXCEPT ![m][i] =
                    [s EXCEPT !.player = p,
                              !.team = IF ffa(match[m].team_type) THEN s.team ELSE "red"]]
    /\ UNCHANGED task

\* The slot is reset; the first player left becomes host, the last one takes the
\* match off the list.  Asking for a host who is not online raises, and leaves the
\* player in the match without a seat.
leave_match(p, m) ==
    LET left == {i \in Seats : slots[m][i].player # Nobody} \ {get_slot(p, m)}
        heir == slots[m][CHOOSE i \in left : \A j \in left : i <= j].player IN
    /\ In(p, m) /\ Sits(p, m)
    /\ slots' = [slots EXCEPT ![m][get_slot(p, m)] = Slot]
    /\ \/ match' = [match EXCEPT ![m].members = @ \ {p}, ![m].listed = @ /\ left # {},
                       ![m].host = IF @ = p /\ left # {} THEN heir ELSE @]
       \/ left # {} /\ UNCHANGED match
    /\ UNCHANGED task

MatchChangeSlot(p, m, i) ==
    /\ In(p, m) /\ Sits(p, m)
    /\ slots' = [slots EXCEPT ![m][i] = slots[m][get_slot(p, m)], ![m][get_slot(p, m)] = Slot]
    /\ UNCHANGED <<match, task>>

----------------------------------------------------------------------------
(* Mods.  filter_invalid_combos takes out conflicts, one rule after the     *)
(* other; mode_vn is 0 for osu! and 3 for mania.                            *)

KEY_MODS == {"1K", "4K", "7K"}
OSU_SPECIFIC_MODS == {"AP", "SO", "TP"}
MANIA_SPECIFIC_MODS == {"MI", "RN", "FI"} \cup KEY_MODS
Without(mods, cond, gone) == IF cond THEN mods \ gone ELSE mods

has(mods, some) == mods \cap some # {}

\* "1. mode-inspecific mod conflictions"
DropConflicts(mods0) ==
    LET m1 == IF {"DT", "NC"} \subseteq mods0 THEN mods0 \ {"DT"}
              ELSE Without(mods0, has(mods0, {"DT", "NC"}), {"HT"})
        m2 == Without(m1, "EZ" \in m1, {"HR"})
        m3 == Without(m2, has(m2, {"NF", "RX", "AP"}), {"SD", "PF"})
        m4 == Without(m3, has(m3, {"RX", "AP"}), {"NF"}) IN
    Without(m4, "PF" \in m4, {"SD"})

\* "2. remove mode-unique mods", "3. mode-specific mod conflictions"
DropOtherModes(mods, mode_vn) ==
    LET m1 == Without(mods, mode_vn # 0, OSU_SPECIFIC_MODS)
        m2 == Without(m1, mode_vn # 3, MANIA_SPECIFIC_MODS)
        m3 == Without(m2, mode_vn = 0 /\ has(m2, {"SO", "RX"}), {"AP"})
        m4 == Without(m3, mode_vn = 3, {"RX"}) IN
    Without(m4, mode_vn = 3 /\ "HD" \in m4, {"FI"})

\* "4 remove multiple keymods"
OneKeyMod(mods) ==
    LET keys == mods \cap KEY_MODS IN
    IF Cardinality(keys) > 1 THEN mods \ (keys \ {CHOOSE k \in keys : TRUE}) ELSE mods

filter_invalid_combos(mods, mode_vn) == OneKeyMod(DropOtherModes(DropConflicts(mods), mode_vn))

\* Freemods on: everybody takes the mods of the match that do not change the
\* speed.  Off: the match takes those of the host.
FreemodsOnSlots(m) == Occupied(m, LAMBDA s : [s EXCEPT !.mods = match[m].mods \ SPEED_CHANGING_MODS])
FreemodsOffSlots_Keeps(m) == slots
FreemodsOffSlots(m) == Occupied(m, LAMBDA s : [s EXCEPT !.mods = {}])
FreemodsOn(m) == [match[m] EXCEPT !.freemods = TRUE, !.uncleared = FALSE,
                                  !.mods = @ \cap SPEED_CHANGING_MODS]
FreemodsOff(m) == [match[m] EXCEPT !.freemods = FALSE, !.uncleared = FALSE,
                    !.mods = (@ \cap SPEED_CHANGING_MODS) \cup slots[m][get_slot(match[m].host, m)].mods]

\* The host has no slot: an AssertionError, after freemods are off.
FreemodsOffFails(m) ==
    /\ ~Sits(match[m].host, m)
    /\ match' = [match EXCEPT ![m].freemods = FALSE,
                              ![m].uncleared = @ \/ match[m].freemods]
    /\ UNCHANGED <<slots, task>>

\* Without a slot this is an AssertionError: what was done before stays.
SetSlotMods(p, m, mods) ==
    slots' = IF ~Sits(p, m) THEN slots
             ELSE [slots EXCEPT ![m][get_slot(p, m)].mods = mods \ SPEED_CHANGING_MODS]
SetSpeed(p, m, mods) ==
    match' = IF p = match[m].host THEN [match EXCEPT ![m].mods = mods \cap SPEED_CHANGING_MODS]
             ELSE match

MatchChangeMods(p, m, mods) ==
    /\ In(p, m)
    /\ IF match[m].freemods THEN SetSpeed(p, m, mods) /\ SetSlotMods(p, m, mods)
       ELSE /\ p = match[m].host
            /\ match' = [match EXCEPT ![m].mods = mods]
            /\ UNCHANGED slots
    /\ UNCHANGED task

----------------------------------------------------------------------------
(* Packets of the host *)

IsHost(p, m) == In(p, m) /\ p = match[m].host
\* ensure_match: sent in the channel of the match, by one of its referees.
ensure_match(p, m) == In(p, m) /\ (p = match[m].host \/ p \in Referees)

\* This packet, or !mp host of a referee: whoever sits there is the host.
MatchTransferHost(p, m, i) ==
    /\ ensure_match(p, m) /\ Seated(m, i)
    /\ match' = [match EXCEPT ![m].host = slots[m][i].player]
    /\ UNCHANGED <<slots, task>>

\* The second half of MatchChangeSettings: team type, win condition, name.
TeamsAndCondition(m, d, rec, sl) ==
    LET moves == rec.team_type # d.team_type /\ ~rec.scrimming IN
    /\ match' = [match EXCEPT ![m] =
                    [rec EXCEPT !.team_type = IF moves THEN d.team_type ELSE rec.team_type,
                                !.pp = rec.pp /\ rec.cond = d.cond,
                                !.cond = d.cond]]
    /\ slots' = IF ~moves THEN sl
                ELSE [sl EXCEPT ![m] = [i \in Seats |->
                        IF sl[m][i].player = Nobody THEN sl[m][i]
                        ELSE [sl[m][i] EXCEPT !.team = default_team(d.team_type)]]]

\* d is what the client believes the match to be.  Without a map, and with one in
\* d, the handler looks it up, and awaits.
MatchChangeSettings(p, m, d, t) ==
    LET fm == d.freemods # match[m].freemods
        sl == IF ~fm THEN slots ELSE IF d.freemods THEN FreemodsOnSlots(m) ELSE FreemodsOffSlots(m)
        rec == IF ~fm THEN match[m] ELSE IF d.freemods THEN FreemodsOn(m) ELSE FreemodsOff(m) IN
    /\ IsHost(p, m)
    /\ fm /\ ~d.freemods => Sits(p, m)
    /\ \/ /\ d.map = NoMap
          /\ TeamsAndCondition(m, d, [rec EXCEPT !.prev = rec.map, !.map = NoMap], sl)
          /\ UNCHANGED task
       \/ /\ d.map # NoMap /\ rec.map # NoMap
          /\ TeamsAndCondition(m, d, rec, sl)
          /\ UNCHANGED task
       \/ /\ d.map # NoMap /\ rec.map = NoMap
          /\ task[t].op = "idle"
          /\ match' = [match EXCEPT ![m] = rec] /\ slots' = sl
          /\ task' = [task EXCEPT ![t] = [op |-> "settings", p |-> p, d |-> d]]

MatchChangeSettingsFails(p, m) == IsHost(p, m) /\ match[m].freemods /\ FreemodsOffFails(m)

\* player.match is read again: it may be another match by now, or None, which
\* ends the handler with an AttributeError.  A host who is not online ends it with a
\* ValueError once the map is set.
SettingsResume(t, m) ==
    /\ task[t].op = "settings" /\ In(task[t].p, m)
    /\ \/ TeamsAndCondition(m, task[t].d, [match[m] EXCEPT !.map = task[t].d.map], slots)
       \/ /\ match' = [match EXCEPT ![m].map = task[t].d.map]
          /\ UNCHANGED slots
    /\ task' = [task EXCEPT ![t] = Idle]

SettingsFail(t) ==
    /\ task[t].op = "settings" /\ \A m \in Matches : ~In(task[t].p, m)
    /\ task' = [task EXCEPT ![t] = Idle]
    /\ UNCHANGED <<match, slots>>

MatchChangeTeam(p, m) ==
    /\ In(p, m) /\ Sits(p, m)
    /\ slots' = [slots EXCEPT ![m][get_slot(p, m)].team = IF @ = "blue" THEN "red" ELSE "blue"]
    /\ UNCHANGED <<match, task>>

MatchChangePassword(p, m) ==
    /\ IsHost(p, m)
    /\ match' = [match EXCEPT ![m].passwd = "chosen"]
    /\ UNCHANGED <<slots, task>>

----------------------------------------------------------------------------
(* !mp commands that do not await *)

mp_mods(p, m, asked, mode_vn) ==
    LET mods == filter_invalid_combos(asked, mode_vn) IN
    /\ ensure_match(p, m)
    /\ IF match[m].freemods THEN SetSpeed(p, m, mods) /\ SetSlotMods(p, m, mods)
       ELSE match' = [match EXCEPT ![m].mods = mods] /\ UNCHANGED slots
    /\ UNCHANGED task

mp_freemods(p, m, on) ==
    /\ ensure_match(p, m) /\ (on \/ Sits(match[m].host, m))
    /\ match' = [match EXCEPT ![m] = IF on THEN FreemodsOn(m) ELSE FreemodsOff(m)]
    /\ slots' = IF on THEN FreemodsOnSlots(m) ELSE FreemodsOffSlots(m)
    /\ UNCHANGED task

mp_freemods_Fails(p, m) == ensure_match(p, m) /\ FreemodsOffFails(m)

mp_randpw(p, m) ==
    /\ ensure_match(p, m)
    /\ match' = [match EXCEPT ![m].passwd = "random"]
    /\ UNCHANGED <<slots, task>>

reset_scrim(rec) == [rec EXCEPT !.points = [k \in DOMAIN @ |-> 0], !.winners = <<>>, !.bans = {}]

mp_teams(p, m, team_type) ==
    LET rec == [match[m] EXCEPT !.team_type = team_type] IN
    /\ ensure_match(p, m)
    /\ match' = [match EXCEPT ![m] = IF rec.scrimming THEN reset_scrim(rec) ELSE rec]
    /\ slots' = Occupied(m, LAMBDA s : [s EXCEPT !.team = default_team(team_type)])
    /\ UNCHANGED task

mp_condition(p, m, cond) ==
    LET rec == match[m] IN
    /\ ensure_match(p, m)
    /\ match' = [match EXCEPT ![m] =
                    IF cond = "pp" THEN [rec EXCEPT !.pp = rec.pp \/ rec.scrimming]
                    ELSE [rec EXCEPT !.pp = FALSE, !.cond = cond]]
    /\ UNCHANGED <<slots, task>>

\* winning_pts is never 0, so the branch that cancels a scrim is never taken.
mp_scrim(p, m, best_of) ==
    /\ ensure_match(p, m) /\ best_of \in 0 .. 15
    /\ ~match[m].scrimming /\ best_of % 2 # 0
    /\ match' = [match EXCEPT ![m].scrimming = TRUE, ![m].winning_pts = best_of \div 2 + 1]
    /\ UNCHANGED <<slots, task>>

mp_endscrim(p, m) ==
    /\ ensure_match(p, m) /\ match[m].scrimming
    /\ match' = [match EXCEPT ![m] = reset_scrim([match[m] EXCEPT !.scrimming = FALSE])]
    /\ UNCHANGED <<slots, task>>

Last(s) == s[Len(s)]
TakeBack_KeepsWinner(rec) == [rec EXCEPT !.points[Last(rec.winners)] = @ - 1]
TakeBack(rec) == [rec EXCEPT !.points[Last(rec.winners)] = @ - 1,
                             !.winners = SubSeq(@, 1, Len(@) - 1)]

mp_rematch(p, m) ==
    /\ ensure_match(p, m) /\ p = match[m].host
    /\ \/ /\ ~match[m].scrimming /\ match[m].winning_pts # 0
          /\ match' = [match EXCEPT ![m].scrimming = TRUE]
       \/ /\ match[m].scrimming /\ match[m].winners # <<>> /\ Last(match[m].winners) # Tie
          /\ match' = [match EXCEPT ![m] = TakeBack(match[m])]
    /\ UNCHANGED <<slots, task>>

mp_unloadpool(p, m) ==
    /\ ensure_match(p, m) /\ p = match[m].host /\ match[m].pool # NoPool
    /\ match' = [match EXCEPT ![m].pool = NoPool]
    /\ UNCHANGED <<slots, task>>

----------------------------------------------------------------------------
(* !mp commands that await.  They hold on to the match they began with.     *)

Begin(p, m, t, rec) ==
    /\ ensure_match(p, m) /\ task[t].op = "idle"
    /\ task' = [task EXCEPT ![t] = rec]
    /\ UNCHANGED <<match, slots>>
Done(t) == task' = [task EXCEPT ![t] = Idle]

mp_map(p, m, map, t) == map # match[m].map /\ Begin(p, m, t, [op |-> "map", m |-> m, map |-> map])
mp_loadpool(p, m, pool, t) ==
    p = match[m].host /\ Begin(p, m, t, [op |-> "loadpool", m |-> m, pool |-> pool])
\* mp_ban, mp_unban and mp_pick read the pool of the match and look the pick up.
mp_pick(p, m, op, k, t) ==
    /\ op \in {"ban", "unban", "pick"}
    /\ match[m].pool # NoPool /\ k \in DOMAIN Pools[match[m].pool]
    /\ Begin(p, m, t, [op |-> op, m |-> m, pick |-> k, map |-> Pools[match[m].pool][k].map,
                       mods |-> Pools[match[m].pool][k].mods])

MapResume(t) ==
    /\ task[t].op = "map"
    /\ \/ match' = [match EXCEPT ![task[t].m].map = task[t].map]
       \/ UNCHANGED match                               \* Beatmap not found.
    /\ Done(t) /\ UNCHANGED slots

LoadpoolResume(t) ==
    /\ task[t].op = "loadpool"
    /\ match' = [match EXCEPT ![task[t].m].pool = task[t].pool]
    /\ Done(t) /\ UNCHANGED slots

BanResume(t) ==
    /\ task[t].op \in {"ban", "unban"}
    /\ match' = [match EXCEPT ![task[t].m].bans =
                    IF task[t].op = "ban" THEN @ \cup {task[t].pick} ELSE @ \ {task[t].pick}]
    /\ Done(t) /\ UNCHANGED slots

\* The pick is found and not banned: now its beatmap is looked up.
PickFound(t) ==
    /\ task[t].op = "pick"
    /\ task' = [task EXCEPT ![t] = IF task[t].pick \in match[task[t].m].bans THEN Idle
                                   ELSE [task[t] EXCEPT !.op = "picked"]]
    /\ UNCHANGED <<match, slots>>

PickResume(t) ==
    LET m == task[t].m IN
    /\ task[t].op = "picked"
    /\ slots' = IF match[m].freemods THEN FreemodsOffSlots(m) ELSE slots
    /\ match' = [match EXCEPT ![m].map = task[t].map, ![m].freemods = FALSE,
                              ![m].uncleared = @ /\ ~match[m].freemods,
                              ![m].mods = task[t].mods]
    /\ Done(t)

----------------------------------------------------------------------------
(* The points of a scrim *)

\* MatchComplete of a game of a scrim spawns update_matchpoints with the slots that
\* were playing; await_submissions fixes the team type there and then.
MatchComplete(m, was_playing, t) ==
    /\ match[m].scrimming /\ task[t].op = "idle"
    /\ was_playing # {} /\ \A i \in was_playing : Seated(m, i)
    /\ task' = [task EXCEPT ![t] = [op |-> "points", m |-> m, left |-> was_playing,
                                    ffa |-> ffa(match[m].team_type),
                                    scores |-> [k \in Players \cup Teams |-> 0]]]
    /\ UNCHANGED <<match, slots>>

\* await_submissions, for the next slot: its score is found, and counts for who
\* sits there or the team that has now; or it is late, and left out.  Nobody in
\* the slot is an AssertionError, the end of the task.
await_submissions(t, score) ==
    LET k == task[t]
        i == CHOOSE i \in k.left : \A j \in k.left : i <= j
        s == slots[k.m][i]
        key == IF k.ffa THEN s.player ELSE s.team IN
    /\ k.op = "points" /\ k.left # {}
    /\ task' = [task EXCEPT ![t] = IF s.player = Nobody THEN Idle
                                   ELSE [k EXCEPT !.left = @ \ {i}, !.scores[key] = @ + score]]
    /\ UNCHANGED <<match, slots>>

\* The most points win; equal ones, of more than one, are a tie.  The team type is
\* read again: a winner that does not fit it is an AssertionError, after the point
\* was given and before the end of the scrim is noticed.
AwardPoint(rec, winner) ==
    LET given == [rec EXCEPT !.points[winner] = @ + 1, !.winners = Append(@, winner)]
        fits == IF ffa(rec.team_type) THEN winner \in Players ELSE winner \in {"red", "blue"} IN
    IF fits /\ rec.winning_pts # 0 /\ given.points[winner] = rec.winning_pts
    THEN reset_scrim([given EXCEPT !.scrimming = FALSE]) ELSE given

update_matchpoints(t) ==
    LET m == task[t].m
        scores == task[t].scores
        keys == {k \in DOMAIN scores : scores[k] # 0}
        best == {k \in keys : \A j \in keys : scores[j] <= scores[k]} IN
    /\ task[t].op = "points" /\ task[t].left = {}
    /\ \/ keys = {} /\ UNCHANGED match
       \/ /\ Cardinality(keys) > 1 /\ best = keys
          /\ match' = [match EXCEPT ![m].winners = Append(@, Tie)]
       \/ /\ Cardinality(keys) = 1 \/ best # keys
          /\ \E winner \in best : match' = [match EXCEPT ![m] = AwardPoint(match[m], winner)]
    /\ Done(t) /\ UNCHANGED slots

----------------------------------------------------------------------------

Init ==
    /\ \E hosts \in [Matches -> Players], mods \in SUBSET Mods, fm \in BOOLEAN, tt \in TeamTypes :
         /\ \A m, n \in Matches : m # n => hosts[m] # hosts[n]
         /\ match = [m \in Matches |-> Match(hosts[m], mods, fm, tt)]
         /\ slots = [m \in Matches |-> [i \in Seats |->
                        IF i # 1 THEN Slot
                        ELSE [Slot EXCEPT !.player = hosts[m], !.team = default_team(tt)]]]
    /\ task = [t \in Tasks |-> Idle]
    /\ ops = 0

Request ==
    /\ ops < MaxOps /\ ops' = ops + 1
    /\ \E p \in Players, m \in Matches :
         \/ \E i \in Seats : join_match(p, m, i) \/ MatchChangeSlot(p, m, i) \/ MatchTransferHost(p, m, i)
         \/ leave_match(p, m)
         \/ \E mods \in SUBSET Mods : MatchChangeMods(p, m, mods)
         \/ \E fm \in BOOLEAN, map \in Maps \cup {NoMap}, tt \in TeamTypes, c \in Conditions,
               t \in Tasks :
               MatchChangeSettings(p, m, [freemods |-> fm, map |-> map, team_type |-> tt, cond |-> c], t)
         \/ MatchChangeSettingsFails(p, m)
         \/ MatchChangeTeam(p, m)
         \/ MatchChangePassword(p, m)
         \/ \E mods \in SUBSET Mods : mp_mods(p, m, mods, 0)
         \/ \E on \in BOOLEAN : mp_freemods(p, m, on)
         \/ mp_freemods_Fails(p, m)
         \/ mp_randpw(p, m)
         \/ \E tt \in TeamTypes : mp_teams(p, m, tt)
         \/ \E c \in Conditions \cup {"pp"} : mp_condition(p, m, c)
         \/ \E b \in BestOf : mp_scrim(p, m, b)
         \/ mp_endscrim(p, m)
         \/ mp_rematch(p, m)
         \/ mp_unloadpool(p, m)
         \/ \E map \in Maps, t \in Tasks : mp_map(p, m, map, t)
         \/ \E pool \in DOMAIN Pools, t \in Tasks : mp_loadpool(p, m, pool, t)
         \/ \E op \in {"ban", "unban", "pick"}, t \in Tasks :
               \E k \in UNION {DOMAIN Pools[q] : q \in DOMAIN Pools} : mp_pick(p, m, op, k, t)

GameEnds == /\ ops < MaxOps /\ ops' = ops + 1
            /\ \E m \in Matches, t \in Tasks : \E ss \in SUBSET Seats : MatchComplete(m, ss, t)

Resume ==
    /\ ops' = ops
    /\ \E t \in Tasks :
         \/ \E m \in Matches : SettingsResume(t, m)
         \/ SettingsFail(t)
         \/ MapResume(t)
         \/ LoadpoolResume(t)
         \/ BanResume(t)
         \/ PickFound(t)
         \/ PickResume(t)
         \/ \E score \in 0 .. MaxScore : await_submissions(t, score)
         \/ update_matchpoints(t)

Next == Request \/ GameEnds \/ Resume

Spec == Init /\ [][Next]_vars

----------------------------------------------------------------------------

\* Mods are where the game looks for them, whoever comes, moves, is displaced, picks
\* or is half way through: without freemods no player has mods of their own, with
\* them no player's own mods change the speed.  The one exception is a match whose
\* freemods were switched off while its host had no seat, until they are switched
\* again.  (freemods is switched by MatchChangeSettings, mp_freemods and mp_pick,
\* each with its own copy of the clean-up.)
ModsAreWhereTheyBelong ==
    \A m \in Matches, i \in Seats :
        /\ slots[m][i].mods \cap SPEED_CHANGING_MODS = {}
        /\ ~match[m].freemods /\ ~match[m].uncleared => slots[m][i].mods = {}

\* Without the exception, which the code takes not to happen.
NobodyKeepsMods ==
    \A m \in Matches, i \in Seats : ~match[m].freemods => slots[m][i].mods = {}

\* The two records of a scrim agree: each side has as many match points as games
\* it is noted to have won, so that !mp rematch takes back what was given; and in a
\* team mode nobody is without a team to score for.
PointsAreWins ==
    \A m \in Matches :
        /\ \A k \in Players \cup Teams :
             match[m].points[k] =
                 Cardinality({j \in DOMAIN match[m].winners : match[m].winners[j] = k})
        /\ ~ffa(match[m].team_type) => \A i \in Seats : Seated(m, i) => slots[m][i].team # "neutral"

\* A running scrim is undecided: nobody has the points that win it ("first to
\* {winning_pts} points wins", mp_scrim).
ScrimIsUndecided ==
    \A m \in Matches : match[m].scrimming =>
        \A k \in Players \cup Teams : match[m].points[k] < match[m].winning_pts

=============================================================================
