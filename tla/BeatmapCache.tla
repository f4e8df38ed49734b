--------------------------- MODULE BeatmapCache ---------------------------
(***************************************************************************)
(* Beatmaps are kept in three places: objects in the caches of the server  *)
(* by set id, map id and md5, rows of maps and mapsets, and the osu!api.   *)
(* A look-up goes down that list and fills the levels above; an expired    *)
(* set is refreshed from the osu!api, which may change its maps or delete  *)
(* them with their scores.  Nominators decide on a status, which a refresh *)
(* must keep, and players host sets of their own, which the osu!api does   *)
(* not know.                                                               *)
(*                                                                         *)
(* One map per set: a set, its only map and their ids are the same number. *)
(* Objects have an identity: look-ups that overlap build two for one set.  *)
(* Of a map the model keeps its version (its md5), its status and whether  *)
(* the status is frozen.                                                   *)
(***************************************************************************)
EXTENDS Integers, FiniteSets

CONSTANTS
    Mirrored,    \* maps of the osu!api
    Private,     \* maps hosted by this server
    Objects,     \* identities of BeatmapSet objects
    Tasks,       \* requests that may be under way at once
    MaxVersion,  \* versions of a map are 0..MaxVersion
    MaxOps,      \* requests, all in all
    MaxChanges,  \* changes of the osu!api's data and expiries of cached sets
    MaxFaults    \* answers the osu!api fails to give, transactions rolled back

VARIABLES
    upstream,    \* the osu!api: version and status by map
    rows,        \* the maps table
    mapsets,     \* the mapsets table
    scores,      \* maps and versions that have scores
    objs,        \* BeatmapSet objects
    beatmapset,  \* app.state.cache.beatmapset: objects by id
    beatmap,     \* app.state.cache.beatmap: objects by id and by md5
    last_np,     \* the object of the map a nominator was shown last
    tasks,       \* requests under way
    ops, changes, faults,
    lost,        \* maps the osu!api ceased to list, or the owner deleted
    decided,     \* the status decided on by !map, of each map
    mixed        \* maps a request of whose overlapped its decision or an owner's change

vars == <<upstream, rows, mapsets, scores, objs, beatmapset, beatmap, last_np, tasks,
          ops, changes, faults, lost, decided, mixed>>

Maps == Mirrored \cup Private
Versions == 0 .. MaxVersion
ById == -1
Keys == Maps \X (Versions \cup {ById})  \* cache keys: an id, or an md5
None == 0
Undecided == "undecided"

\* RankedStatus, as far as the look-ups tell it apart.
RankedStatus == {"Pending", "Ranked", "Loved"}

Absent == [v |-> -1, status |-> "Pending", frozen |-> FALSE]
Server(i) == IF i \in Private THEN "private" ELSE "osu!"

NoObj == [id |-> None, server |-> "osu!", map |-> Absent, expired |-> FALSE]
NoTask == [op |-> "idle", id |-> None, pc |-> "", key |-> <<None, ById>>, o |-> None,
           new |-> Absent, code |-> 0, status |-> Undecided, wipe |-> -1]

----------------------------------------------------------------------------
(* The maps and mapsets repositories *)

fetch_one_by_id(i) == rows[i] # Absent
fetch_one_by_md5(md5) == rows[md5[1]].v = md5[2]
fetch_many(set) == {i \in Maps : i = set /\ rows[i] # Absent}
mapset_exists(i) == i \in mapsets
partial_update(i, status, frozen) ==
    IF rows[i] = Absent THEN rows
    ELSE [rows EXCEPT ![i].status = status, ![i].frozen = frozen]
\* DELETE FROM maps WHERE md5 = ... AND server = 'osu!'
delete_mirrored(i, v) == IF rows[i].v = v /\ Server(i) = "osu!"
                         THEN [rows EXCEPT ![i] = Absent] ELSE rows
\* DELETE FROM scores WHERE map_md5 = ...
delete_scores(i, v) == scores \ {<<i, v>>}

----------------------------------------------------------------------------
(* Objects and caches *)

\* What no place holds any more is gone.
Collect(new) ==
    LET held == {beatmapset'[i] : i \in DOMAIN beatmapset} \cup {beatmap'[x] : x \in DOMAIN beatmap}
                \cup {last_np'} \cup {tasks'[t].o : t \in Tasks} IN
    objs' = [o \in Objects |-> IF o \in held THEN new[o] ELSE NoObj]
\* There are more objects than the caches and the requests can hold.
Room == \E o \in Objects : objs[o] = NoObj
FreshObj == CHOOSE o \in Objects : objs[o] = NoObj

\* cache_beatmap_set: the set by its id, its map by id and md5.
cache_beatmap_set(o, obj) ==
    /\ beatmapset' = [beatmapset EXCEPT ![obj.id] = o]
    /\ beatmap' = IF obj.map = Absent THEN beatmap
                  ELSE [beatmap EXCEPT ![<<obj.id, ById>>] = o, ![<<obj.id, obj.map.v>>] = o]

\* _evict_beatmap_cache: the set, and its map by id and by md5.
_evict_beatmap_cache(i, v) ==
    /\ beatmapset' = [beatmapset EXCEPT ![i] = None]
    /\ beatmap' = [beatmap EXCEPT ![<<i, ById>>] = None, ![<<i, v>>] = None]

SameCaches == UNCHANGED <<beatmapset, beatmap>>

\* Mutant: the status of the osu!api wins.
_parse_from_osuapi_resp_Thaws(m, answer) ==
    [v |-> answer.v, frozen |-> m.frozen, status |-> answer.status]

\* _parse_from_osuapi_resp: the status of a frozen map is kept.
_parse_from_osuapi_resp(m, answer) ==
    [v |-> answer.v, frozen |-> m.frozen,
     status |-> IF m.frozen THEN m.status ELSE answer.status]

\* A new object of what the osu!api answered: the status of a row that is
\* frozen is kept.
_from_bsid_osuapi(answer, row) ==
    _parse_from_osuapi_resp([row EXCEPT !.frozen = row # Absent /\ row.frozen], answer)

\* _from_bsid_sql: the object takes its server from the row of mapsets.
\* A set without maps counts as expired.
_from_bsid_sql(i) == [id |-> i, server |-> Server(i), expired |-> fetch_many(i) = {},
                      map |-> IF fetch_many(i) = {} THEN Absent ELSE rows[i]]

----------------------------------------------------------------------------
(* Requests *)

At(t, pc) == tasks[t].pc = pc

\* A row changed in a transaction is locked until its end.
Locked(i) == \E s \in Tasks : tasks[s].id = i /\ At(s, "commit")

Set(t, k) == tasks' = [tasks EXCEPT ![t] = k]
Goto(t, pc) == tasks' = [tasks EXCEPT ![t].pc = pc]
Busy(i, t) == \E s \in Tasks \ {t} : tasks[s].id = i
Begin(t, k) ==
    /\ tasks[t].op = "idle" /\ ops < MaxOps /\ ops' = ops + 1 /\ Set(t, k)
    /\ mixed' = mixed \cup (IF \E s \in Tasks : tasks[s].id = k.id THEN {k.id} ELSE {})

\* The look-up ends; the map it found is the one the nominator is shown.
Found(t, o) == tasks' = [tasks EXCEPT ![t] = NoTask] /\ last_np' = o

\* from_bid and from_md5: from the cache, unless its set has expired.
from_cache(t, i, key) ==
    /\ IF beatmap[key] = None
       THEN /\ Begin(t, [NoTask EXCEPT !.op = "look-up", !.id = i, !.pc = "row", !.key = key])
            /\ last_np' = last_np
       ELSE IF objs[beatmap[key]].expired
       THEN /\ Begin(t, [NoTask EXCEPT !.op = "refresh", !.id = i, !.pc = "api", !.o = beatmap[key]])
            /\ last_np' = last_np
       ELSE Begin(t, NoTask) /\ last_np' = beatmap[key]
    /\ SameCaches /\ Collect(objs)
    /\ UNCHANGED <<upstream, rows, mapsets, scores, changes, faults, lost, decided>>

from_bid(t, i) == from_cache(t, i, <<i, ById>>)
from_md5(t, i, v) == from_cache(t, i, <<i, v>>)

\* The set id is looked up in the maps table, or asked of the osu!api.
LookUpRow(t) ==
    LET k == tasks[t]
        known == IF k.key[2] = ById THEN fetch_one_by_id(k.id) ELSE fetch_one_by_md5(k.key) IN
    /\ At(t, "row")
    /\ IF known \/ (upstream[k.id] # Absent /\ (k.key[2] # ById => upstream[k.id].v = k.key[2]))
       THEN Goto(t, "set") /\ last_np' = last_np
       ELSE Found(t, None)
    /\ SameCaches /\ Collect(objs)
    /\ UNCHANGED <<upstream, rows, mapsets, scores, ops, changes, faults, lost, decided, mixed>>

\* from_bsid: the cached set, or the rows, or the osu!api.
from_bsid(t) ==
    LET k == tasks[t]
        cached == beatmapset[k.id]
        obj == IF cached # None THEN objs[cached] ELSE _from_bsid_sql(k.id)
        o == IF cached # None THEN cached ELSE FreshObj IN
    /\ At(t, "set") /\ Room
    /\ SameCaches /\ last_np' = last_np
    /\ IF cached = None /\ ~mapset_exists(k.id)
       THEN Goto(t, "new") /\ Collect(objs)
       ELSE /\ Set(t, [k EXCEPT !.o = o, !.pc = IF obj.expired THEN "api" ELSE "cache"])
            /\ Collect([objs EXCEPT ![o] = obj])
    /\ UNCHANGED <<upstream, rows, mapsets, scores, ops, changes, faults, lost, decided, mixed>>

\* _from_bsid_osuapi, from the answer on: the frozen row is read, the set and
\* the map are written with REPLACE.
NewSet(t) ==
    LET k == tasks[t] IN
    /\ At(t, "new") /\ Room
    /\ SameCaches
    /\ IF upstream[k.id] = Absent THEN Found(t, None) /\ Collect(objs)
       ELSE /\ Set(t, [k EXCEPT !.o = FreshObj, !.pc = "saveset"])
            /\ last_np' = last_np
            /\ Collect([objs EXCEPT ![FreshObj] =
                  [id |-> k.id, server |-> "osu!", expired |-> FALSE,
                   map |-> _from_bsid_osuapi(upstream[k.id], rows[k.id])]])
    /\ UNCHANGED <<upstream, rows, mapsets, scores, ops, changes, faults, lost, decided, mixed>>

\* api_get_beatmaps: tried three times; a transport error ends the refresh and
\* an answer is either data, the certainty that there is none (404, or 200 with
\* an empty list), or another status.
api_get_beatmaps(t) ==
    LET k == tasks[t] IN
    /\ At(t, "api")
    /\ \/ /\ objs[k.o].server # "osu!"      \* nothing to ask about a private set
          /\ Goto(t, "cache") /\ faults' = faults
       \/ /\ objs[k.o].server = "osu!" /\ faults' = faults
          /\ Set(t, [k EXCEPT !.pc = "answer", !.new = upstream[k.id],
                              !.code = IF upstream[k.id] = Absent THEN 404 ELSE 200])
       \/ /\ objs[k.o].server = "osu!" /\ faults < MaxFaults /\ faults' = faults + 1
          /\ \/ Goto(t, "cache")
             \/ Set(t, [k EXCEPT !.pc = "answer", !.new = Absent, !.code = 503])
    /\ SameCaches
    /\ UNCHANGED <<upstream, rows, mapsets, scores, objs, last_np, ops, changes, lost, decided, mixed>>

\* Mutant: whatever is no data is taken for a set that is gone.
_update_if_available_NoData(t) ==
    LET k == tasks[t]
        old == objs[k.o].map
        same == k.new.v = old.v /\ k.new.status = old.status
        new == IF same THEN old ELSE _parse_from_osuapi_resp(old, k.new) IN
    /\ At(t, "answer")
    /\ SameCaches /\ last_np' = last_np
    /\ IF k.new # Absent
       THEN /\ Goto(t, "saveset")
            /\ Collect([objs EXCEPT ![k.o].map = new, ![k.o].expired = FALSE])
       ELSE /\ Set(t, [k EXCEPT !.pc = "delete", !.wipe = old.v])
            /\ Collect(objs)
    /\ UNCHANGED <<upstream, rows, mapsets, scores, ops, changes, faults, lost, decided, mixed>>

\* _update_if_available: the object is changed at once, then the tables.  A map
\* whose version and status are those of the answer is left as it is.
_update_if_available(t) ==
    LET k == tasks[t]
        old == objs[k.o].map
        same == k.new.v = old.v /\ k.new.status = old.status
        new == IF same THEN old ELSE _parse_from_osuapi_resp(old, k.new) IN
    /\ At(t, "answer")
    /\ SameCaches /\ last_np' = last_np
    /\ IF k.new # Absent
       THEN /\ Goto(t, "saveset")
            /\ Collect([objs EXCEPT ![k.o].map = new, ![k.o].expired = FALSE])
       ELSE /\ IF k.code \in {404, 200}
               THEN Set(t, [k EXCEPT !.pc = "delete", !.wipe = old.v])
               ELSE Goto(t, "cache")
            /\ Collect(objs)
    /\ UNCHANGED <<upstream, rows, mapsets, scores, ops, changes, faults, lost, decided, mixed>>

\* REPLACE INTO mapsets, then _save_to_sql: the row becomes what the object is.
SaveSet(t) ==
    /\ At(t, "saveset")
    /\ mapsets' = mapsets \cup {tasks[t].id}
    /\ Goto(t, "save")
    /\ UNCHANGED <<upstream, rows, scores, objs, beatmapset, beatmap, last_np, ops, changes,
                   faults, lost, decided, mixed>>

_save_to_sql(t) ==
    LET k == tasks[t] IN
    /\ At(t, "save") /\ ~Locked(k.id)
    /\ rows' = [rows EXCEPT ![k.id] = objs[k.o].map]
    /\ Goto(t, "cache")
    /\ UNCHANGED <<upstream, mapsets, scores, objs, beatmapset, beatmap, last_np, ops, changes,
                   faults, lost, decided, mixed>>

\* The osu!api has no such set: the maps, then their scores, then the set are
\* deleted, as far as they are the osu!api's.
DeleteMaps(t) ==
    LET k == tasks[t] IN
    /\ At(t, "delete") /\ ~Locked(k.id)
    /\ rows' = IF objs[k.o].server = "osu!" THEN delete_mirrored(k.id, k.wipe) ELSE rows
    /\ Goto(t, "deletescores")
    /\ UNCHANGED <<upstream, mapsets, scores, objs, beatmapset, beatmap, last_np, ops, changes,
                   faults, lost, decided, mixed>>

DeleteScores(t) ==
    LET k == tasks[t] IN
    /\ At(t, "deletescores")
    /\ scores' = IF objs[k.o].server = "osu!" THEN delete_scores(k.id, k.wipe) ELSE scores
    /\ Goto(t, "deleteset")
    /\ UNCHANGED <<upstream, rows, mapsets, objs, beatmapset, beatmap, last_np, ops, changes,
                   faults, lost, decided, mixed>>

DeleteSet(t) ==
    /\ At(t, "deleteset")
    /\ mapsets' = IF Server(tasks[t].id) = "osu!" THEN mapsets \ {tasks[t].id} ELSE mapsets
    /\ Goto(t, "cache")
    /\ UNCHANGED <<upstream, rows, scores, objs, beatmapset, beatmap, last_np, ops, changes,
                   faults, lost, decided, mixed>>

\* A look-up that went through from_bsid caches the object it has; a refresh of
\* a cached map does not cache it again.
CacheSet(t) ==
    LET k == tasks[t] IN
    /\ At(t, "cache")
    /\ IF k.op = "refresh" THEN SameCaches ELSE cache_beatmap_set(k.o, objs[k.o])
    /\ Found(t, IF objs[k.o].map = Absent THEN None ELSE k.o)
    /\ Collect(objs)
    /\ UNCHANGED <<upstream, rows, mapsets, scores, ops, changes, faults, lost, decided, mixed>>

----------------------------------------------------------------------------
(* !map on the map shown last: the row, and the object that is cached under
   the md5 of the map (for a whole set: the cached set), in a transaction. *)

_map(t, status, scope) ==
    /\ last_np # None /\ objs[last_np].map.status # status
    /\ Begin(t, [NoTask EXCEPT !.op = "map", !.id = objs[last_np].id, !.pc = scope,
                               !.o = last_np, !.status = status])
    /\ SameCaches /\ last_np' = last_np /\ Collect(objs)
    /\ UNCHANGED <<upstream, rows, mapsets, scores, changes, faults, lost, decided>>

\* In the transaction the row is changed, then the cached object, which others
\* see before the commit.  There is no cached set if it was evicted: KeyError.
MapCaches(t) ==
    LET k == tasks[t]
        hit == IF At(t, "set scope") THEN beatmapset[k.id] ELSE beatmap[<<k.id, objs[k.o].map.v>>] IN
    /\ k.pc \in {"set scope", "map scope"} /\ ~Locked(k.id)
    /\ SameCaches /\ last_np' = last_np
    /\ IF At(t, "set scope") /\ hit = None
       THEN tasks' = [tasks EXCEPT ![t] = NoTask] /\ Collect(objs)
       ELSE /\ Goto(t, "commit")
            /\ Collect(IF hit = None THEN objs
                       ELSE [objs EXCEPT ![hit].map.status = k.status, ![hit].map.frozen = TRUE])
    /\ UNCHANGED <<upstream, rows, mapsets, scores, ops, changes, faults, lost, decided, mixed>>

MapCommits(t) ==
    LET k == tasks[t] IN
    /\ At(t, "commit")
    /\ rows' = partial_update(k.id, k.status, TRUE)
    /\ decided' = [decided EXCEPT ![k.id] = k.status]
    /\ tasks' = [tasks EXCEPT ![t] = NoTask]
    /\ SameCaches /\ last_np' = last_np /\ Collect(objs)
    /\ UNCHANGED <<upstream, mapsets, scores, ops, changes, faults, lost, mixed>>

\* The transaction is rolled back; the cached object stays changed.
MapRollsBack(t) ==
    /\ At(t, "commit") /\ faults < MaxFaults /\ faults' = faults + 1
    /\ tasks' = [tasks EXCEPT ![t] = NoTask]
    /\ mixed' = mixed \cup {tasks[t].id}
    /\ SameCaches /\ last_np' = last_np /\ Collect(objs)
    /\ UNCHANGED <<upstream, rows, mapsets, scores, ops, changes, lost, decided>>

\* The owner of a private map has its status changed, or deletes it: the row
\* first, then the eviction (BeatmapSubmissions has the details).
OwnerChange(t, i, status) ==
    /\ i \in Private /\ rows[i] # Absent /\ ~Locked(i)
    /\ Begin(t, [NoTask EXCEPT !.op = "owner", !.id = i, !.pc = "evict", !.wipe = rows[i].v])
    /\ rows' = IF status = Undecided THEN [rows EXCEPT ![i] = Absent]
               ELSE partial_update(i, status, TRUE)
    /\ lost' = IF status = Undecided THEN lost \cup {i} ELSE lost
    /\ mapsets' = IF status = Undecided THEN mapsets \ {i} ELSE mapsets
    /\ scores' = IF status = Undecided THEN delete_scores(i, rows[i].v) ELSE scores
    /\ decided' = [decided EXCEPT ![i] = Undecided]
    /\ SameCaches /\ last_np' = last_np
    /\ UNCHANGED <<upstream, objs, changes, faults>>

Evict(t) ==
    /\ At(t, "evict")
    /\ _evict_beatmap_cache(tasks[t].id, tasks[t].wipe)
    /\ tasks' = [tasks EXCEPT ![t] = NoTask]
    /\ last_np' = last_np /\ Collect(objs)
    /\ UNCHANGED <<upstream, rows, mapsets, scores, ops, changes, faults, lost, decided, mixed>>

\* A score on the present version of a map.
Score(i) ==
    /\ rows[i] # Absent /\ <<i, rows[i].v>> \notin scores
    /\ scores' = scores \cup {<<i, rows[i].v>>}
    /\ UNCHANGED <<upstream, rows, mapsets, objs, beatmapset, beatmap, last_np, tasks, ops,
                   changes, faults, lost, decided, mixed>>

\* The osu!api's map is updated, ranked or taken down.
Upstream(i) ==
    /\ i \in Mirrored /\ upstream[i] # Absent
    /\ changes < MaxChanges /\ changes' = changes + 1
    /\ upstream' \in {[upstream EXCEPT ![i] = m] :
         m \in {Absent, [upstream[i] EXCEPT !.status = "Ranked"]} \cup
               {[upstream[i] EXCEPT !.v = v] : v \in upstream[i].v + 1 .. MaxVersion}}
    /\ upstream' # upstream
    /\ lost' = IF upstream'[i] = Absent THEN lost \cup {i} ELSE lost
    /\ UNCHANGED <<rows, mapsets, scores, objs, beatmapset, beatmap, last_np, tasks, ops, faults,
                   decided, mixed>>

\* _cache_expired: enough time went by since the last check.
_cache_expired(o) ==
    /\ objs[o] # NoObj /\ ~objs[o].expired
    /\ changes < MaxChanges /\ changes' = changes + 1
    /\ objs' = [objs EXCEPT ![o].expired = TRUE]
    /\ UNCHANGED <<upstream, rows, mapsets, scores, beatmapset, beatmap, last_np, tasks, ops,
                   faults, lost, decided, mixed>>

----------------------------------------------------------------------------
Fresh(i) == [v |-> 0, status |-> "Pending", frozen |-> i \in Private]

Init ==
    /\ upstream = [i \in Maps |-> IF i \in Mirrored THEN Fresh(i) ELSE Absent]
    /\ rows \in [Maps -> {Absent} \cup {Fresh(i) : i \in Maps}]
    /\ \A i \in Maps : rows[i] \in {Fresh(i)} \cup (IF i \in Mirrored THEN {Absent} ELSE {})
    /\ mapsets = {i \in Maps : rows[i] # Absent}
    /\ scores = {} /\ objs = [o \in Objects |-> NoObj]
    /\ beatmapset = [i \in Maps |-> None] /\ beatmap = [x \in Keys |-> None]
    /\ last_np = None /\ tasks = [t \in Tasks |-> NoTask]
    /\ ops = 0 /\ changes = 0 /\ faults = 0 /\ lost = {}
    /\ decided = [i \in Maps |-> Undecided] /\ mixed = {}

Request(t) ==
    \/ \E i \in Maps : \/ from_bid(t, i) \/ \E v \in Versions : from_md5(t, i, v)
                       \/ \E s \in {"Loved", Undecided} : OwnerChange(t, i, s)
    \/ \E scope \in {"set scope", "map scope"} : _map(t, "Loved", scope)
    \/ LookUpRow(t) \/ from_bsid(t) \/ NewSet(t) \/ api_get_beatmaps(t)
    \/ _update_if_available(t) \/ SaveSet(t) \/ _save_to_sql(t)
    \/ DeleteMaps(t) \/ DeleteScores(t) \/ DeleteSet(t) \/ CacheSet(t)
    \/ MapCaches(t) \/ MapCommits(t) \/ MapRollsBack(t) \/ Evict(t)

Next ==
    \/ \E t \in Tasks : Request(t)
    \/ \E i \in Maps : Score(i) \/ Upstream(i)
    \/ \E o \in Objects : _cache_expired(o)

Spec == Init /\ [][Next]_vars

----------------------------------------------------------------------------
(* Properties *)

DeletesOnlyTheGone ==
    /\ \A i \in Maps \ lost' : /\ rows[i] # Absent => rows'[i] # Absent
                               /\ \A s \in scores \ scores' : s[1] # i
    /\ \A i \in Private : rows[i] = Absent => rows'[i] = Absent

\* A refresh deletes a map and its scores only if the osu!api has ceased to list
\* it, never because the osu!api failed to answer, and never one the server
\* hosts itself, whatever look-ups, refreshes and decisions overlap; a hosted
\* map that its owner deleted does not come back (_update_if_available,
\* _save_to_sql, api_get_beatmaps).
OnlyTheGoneAreDeleted == [][DeletesOnlyTheGone]_vars

Idle(i) == ~ \E t \in Tasks : tasks[t].id = i

\* The status a nominator decided on, no other request for the map being under
\* way at the time, stays through refreshes, also when the osu!api ranks the
\* map, as long as its file stays the same (_map, _parse_from_osuapi_resp,
\* _from_bsid_osuapi, _save_to_sql).
DecisionIsKept ==
    \A i \in Maps \ (mixed \cup lost) :
        Idle(i) /\ upstream[i].v <= 0 /\ decided[i] # Undecided
            => rows[i].status = decided[i] /\ rows[i].frozen

\* What _map says of its caches: they are in step with the table.
CacheIsSynced ==
    \A i \in Maps \ (mixed \cup lost) :
        Idle(i) /\ beatmap[<<i, ById>>] # None =>
            objs[beatmap[<<i, ById>>]].map.status = rows[i].status
=============================================================================
