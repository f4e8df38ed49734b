------------------------ MODULE BeatmapSubmissions ------------------------
(***************************************************************************)
(* Beatmap sets that players upload and the server hosts itself: rows of   *)
(* map_submissions, mapsets and maps in MySQL, .osu files and .osz         *)
(* archives on disk.  Files are written before the rows are committed and  *)
(* removed after the rows are gone; staff review decides who may see a set *)
(* and whether its owner may give it a leaderboard.                        *)
(*                                                                         *)
(* mapsets is written in the same transactions as map_submissions and is   *)
(* folded into it.  The md5 of a hosted difficulty is taken after its own  *)
(* id was written into it and so meets no other; what collides is the file *)
(* name, also with mirrored maps, which share the table: of these only the *)
(* names are kept, and they come and go as BeatmapCache's model says.      *)
(***************************************************************************)
EXTENDS Integers, FiniteSets, Sequences

CONSTANTS
    Users,       \* accounts
    Staff,       \* those with the STAFF bit
    Nominators,  \* those with the NOMINATOR bit
    Ineligible,  \* restricted, unverified or silenced accounts
    Uploads,     \* archives that may be uploaded
    Limit,       \* OszLimits: the limits of an archive
    Quota,       \* max_submissions_per_user
    Tasks,       \* requests that may be under way at once
    MaxId,       \* ids the sequence may hand out
    MaxOps,      \* requests, all in all
    MaxFaults    \* exceptions and crashes together

VARIABLES
    sets,        \* map_submissions: owner and review state by set id
    maps,        \* private rows of maps: set, status and file name by map id
    mirrored,    \* file names of the mirrored rows of maps
    osu,         \* ids of the .osu files on disk
    osz,         \* ids of the archives on disk
    nextId,      \* auto_increment of map_id_sequence
    scores,      \* scores: who on which map
    tasks,       \* requests under way
    ops, faults, \* counters
    approved     \* sets that staff approved, or gave a status, at some time

vars == <<sets, maps, mirrored, osu, osz, nextId, scores, tasks, ops, faults, approved>>

None == "nobody"
Unset == "unset"
Ids == 1 .. MaxId
Ranked == "Ranked"
Loved == "Loved"
Pending == "Pending"
ReviewState == {"pending", "approved", "rejected"}

NoTask == [op |-> "idle", u |-> None, pc |-> "", id |-> 0, up |-> <<>>, ids |-> <<>>,
           n |-> 0, status |-> Unset, state |-> Unset, sub |-> {}, left |-> {}]

Put(f, x, v) == [y \in DOMAIN f \cup {x} |-> IF y = x THEN v ELSE f[y]]
Drop(f, S) == [y \in DOMAIN f \ S |-> f[y]]

----------------------------------------------------------------------------
(* Archives.  An upload is what the checks see of it: its size, its members
   (safe: no traversal, symlink or bomb), and of each difficulty its size,
   whether it decodes and parses and can be rated, its name and its song. *)

_validate_member(m) == m.safe

Difficulties(a) == SelectSeq(a.members, LAMBDA m : m.osu)

\* read_osz: every limit is tested before anything is decompressed.
read_osz(a) ==
    /\ a.bytes <= Limit.bytes
    /\ Len(a.members) <= Limit.members
    /\ \A i \in DOMAIN a.members : _validate_member(a.members[i])
    /\ Len(Difficulties(a)) \in 1 .. Limit.difficulties
    /\ \A i \in DOMAIN Difficulties(a) : Difficulties(a)[i].size <= Limit.osuBytes

_check_cross_difficulty_consistency(d) ==
    /\ \A i, j \in DOMAIN d : d[i].version = d[j].version => i = j
    /\ \A i, j \in DOMAIN d : d[i].song = d[j].song

\* canonical_osu_filename: artist, title, the submitting account and the
\* difficulty; ids are no part of it.
canonical_osu_filename(u, d) == <<d.song, u, d.version>>

\* _prepare_difficulty may fail to rate a difficulty, after its id was taken.
_prepare_difficulty(d) == d.rates

_check_eligibility(u) == u \notin Ineligible
_is_staff(u) == u \in Staff
_is_nominator(u) == u \in Nominators

_may_view(u, s) == \/ s.state = "approved"
                   \/ u # None /\ (_is_staff(u) \/ _is_nominator(u) \/ s.owner = u)

----------------------------------------------------------------------------
(* The repositories *)

fetch_one(s) == s \in DOMAIN sets
fetch_many(u, state) == {s \in DOMAIN sets : /\ u # None => sets[s].owner = u
                                             /\ state # Unset => sets[s].state = state}
fetch_count(u, state) == Cardinality(fetch_many(u, state))
maps_of(s) == {m \in DOMAIN maps : maps[m].set = s}
partial_update(s, state) ==
    IF fetch_one(s) /\ state # Unset THEN [sets EXCEPT ![s].state = state] ELSE sets

\* fetch_submissions: strangers are shown what is approved.
fetch_submissions(actor, owner, state) ==
    fetch_many(owner, IF _is_staff(actor) \/ owner = actor THEN state ELSE "approved")

fetch_submission(actor, s) == fetch_one(s) /\ _may_view(actor, sets[s])

\* private_beatmap_files: a difficulty by the name of its file, an archive by its
\* set.  One row of that name is found, whichever of them, and a mirrored one is
\* none of ours: the answers it may give.
NotHosted == 0
fetch_osu_file(name) ==
    LET found == {m \in DOMAIN maps : maps[m].name = name} IN
    {IF m \in osu THEN m ELSE NotHosted : m \in found}
    \cup (IF name \in mirrored \/ found = {} THEN {NotHosted} ELSE {})
fetch_osz_archive(s) == fetch_one(s) /\ sets[s].state = "approved" /\ s \in osz

----------------------------------------------------------------------------
(* Requests *)

Set(t, k) == tasks' = [tasks EXCEPT ![t] = k]
Finish(t) == Set(t, NoTask)
At(t, op, pc) == tasks[t].op = op /\ tasks[t].pc = pc
Begin(t, k) == tasks[t].op = "idle" /\ ops < MaxOps /\ ops' = ops + 1 /\ Set(t, k)

\* POST: eligibility, then the count of the sets the user already hosts.  What
\* is wrong with the archive is found next, before anything is changed.
submit_beatmap_archive(t, u, a) ==
    /\ IF _check_eligibility(u) /\ fetch_count(u, Unset) < Quota
             /\ read_osz(a) /\ (\A i \in DOMAIN Difficulties(a) : Difficulties(a)[i].parses)
             /\ _check_cross_difficulty_consistency(Difficulties(a))
       THEN Begin(t, [NoTask EXCEPT !.op = "submit", !.u = u, !.pc = "allocate", !.up = a])
       ELSE Begin(t, NoTask)
    /\ UNCHANGED <<sets, maps, osu, osz, nextId, scores, faults, approved>>

\* allocate, once for the set and once per difficulty; then the difficulties
\* are rewritten and rated.
allocate(t) ==
    LET k == tasks[t]
        d == Difficulties(k.up)
        ids == Append(k.ids, nextId) IN
    /\ At(t, "submit", "allocate") /\ nextId <= MaxId /\ nextId' = nextId + 1
    /\ IF Len(ids) <= Len(d) THEN Set(t, [k EXCEPT !.ids = ids])
       ELSE IF \E i \in DOMAIN d : ~_prepare_difficulty(d[i]) THEN Finish(t)
       ELSE Set(t, [k EXCEPT !.ids = ids, !.pc = "collisions", !.n = 1])
    /\ UNCHANGED <<sets, maps, osu, osz, scores, ops, faults, approved>>

\* _check_collisions, a difficulty at a time.
_check_collisions(t) ==
    LET k == tasks[t]
        d == Difficulties(k.up) IN
    /\ At(t, "submit", "collisions")
    /\ IF canonical_osu_filename(k.u, d[k.n]) \in mirrored \cup {maps[m].name : m \in DOMAIN maps}
       THEN Finish(t)
       ELSE IF k.n < Len(d) THEN Set(t, [k EXCEPT !.n = k.n + 1])
       ELSE Set(t, [k EXCEPT !.pc = "write", !.n = 1])
    /\ UNCHANGED <<sets, maps, osu, osz, nextId, scores, ops, faults, approved>>

\* Mutant: the last difficulty is not written.
write_file_SkipsLast(t) ==
    LET k == tasks[t] IN
    /\ At(t, "submit", "write")
    /\ IF k.n + 1 < Len(k.ids)
       THEN /\ osu' = osu \cup {k.ids[k.n + 1]} /\ Set(t, [k EXCEPT !.n = k.n + 1])
            /\ UNCHANGED osz
       ELSE /\ osz' = osz \cup {k.ids[1]} /\ Set(t, [k EXCEPT !.pc = "commit"])
            /\ UNCHANGED osu
    /\ UNCHANGED <<sets, maps, nextId, scores, ops, faults, approved>>

\* The files, each difficulty and then the archive, ...
write_file(t) ==
    LET k == tasks[t] IN
    /\ At(t, "submit", "write")
    /\ IF k.n < Len(k.ids)
       THEN /\ osu' = osu \cup {k.ids[k.n + 1]} /\ Set(t, [k EXCEPT !.n = k.n + 1])
            /\ UNCHANGED osz
       ELSE /\ osz' = osz \cup {k.ids[1]} /\ Set(t, [k EXCEPT !.pc = "commit"])
            /\ UNCHANGED osu
    /\ UNCHANGED <<sets, maps, nextId, scores, ops, faults, approved>>

\* ... and then all rows in one transaction.
_commit_submission(t) ==
    LET k == tasks[t]
        d == Difficulties(k.up)
        new == {k.ids[i] : i \in 2 .. Len(k.ids)}
        at(m) == CHOOSE i \in DOMAIN d : k.ids[i + 1] = m IN
    /\ At(t, "submit", "commit")
    /\ sets' = Put(sets, k.ids[1], [owner |-> k.u, state |-> "pending"])
    /\ maps' = [m \in DOMAIN maps \cup new |->
                  IF m \in new THEN [set |-> k.ids[1], status |-> Pending,
                                     name |-> canonical_osu_filename(k.u, d[at(m)])]
                  ELSE maps[m]]
    /\ Finish(t)
    /\ UNCHANGED <<osu, osz, nextId, scores, ops, faults, approved>>

\* An exception in a file or in the transaction: what was written is removed.
SubmitFails(t) ==
    LET k == tasks[t] IN
    /\ k.op = "submit" /\ k.pc \in {"write", "commit"} /\ faults < MaxFaults /\ faults' = faults + 1
    /\ osu' = osu \ {k.ids[i] : i \in 2 .. (IF k.pc = "commit" THEN Len(k.ids) ELSE k.n)}
    /\ osz' = IF k.pc = "commit" THEN osz \ {k.ids[1]} ELSE osz
    /\ Finish(t)
    /\ UNCHANGED <<sets, maps, nextId, scores, ops, approved>>

----------------------------------------------------------------------------
(* PATCH *)

\* Mutant: the review state is not looked at.
_check_status_permitted_Unreviewed(status, s, staff) == staff \/ status # Ranked

\* _check_status_permitted, on the submission as it was read.
_check_status_permitted(status, s, staff) ==
    \/ staff
    \/ status # Ranked /\ (status = Loved => s.state = "approved")

update_submission(t, u, s, status, state, note) ==
    LET staff == _is_staff(u) \/ _is_nominator(u) IN
    /\ fetch_one(s)
    /\ status # Unset \/ state # Unset \/ note
    /\ IF /\ _may_view(u, sets[s]) /\ (staff \/ sets[s].owner = u)
          /\ state # Unset \/ note => staff
          /\ status # Unset => _check_status_permitted(status, sets[s], staff)
       THEN Begin(t, [NoTask EXCEPT !.op = "update", !.u = u, !.id = s, !.state = state,
                        !.status = IF state = "rejected" THEN Pending ELSE status,
                        !.pc = IF state # Unset \/ note THEN "review" ELSE "maps"])
       ELSE Begin(t, NoTask)
    /\ UNCHANGED <<sets, maps, osu, osz, nextId, scores, faults, approved>>

UpdateReview(t) ==
    LET k == tasks[t] IN
    /\ At(t, "update", "review")
    /\ sets' = partial_update(k.id, k.state)
    /\ approved' = IF k.state = "approved" THEN approved \cup {k.id} ELSE approved
    /\ Set(t, [k EXCEPT !.pc = "maps"])
    /\ UNCHANGED <<maps, osu, osz, nextId, scores, ops, faults>>

\* The rows to change are read ...
UpdateMaps(t) ==
    LET k == tasks[t] IN
    /\ At(t, "update", "maps")
    /\ IF k.status = Unset \/ maps_of(k.id) = {} THEN Finish(t)
       ELSE Set(t, [k EXCEPT !.pc = "status", !.sub = maps_of(k.id)])
    /\ UNCHANGED <<sets, maps, osu, osz, nextId, scores, ops, faults, approved>>

\* ... and updated one by one; a row deleted meanwhile is not there to update.
UpdateStatus(t) ==
    LET k == tasks[t]
        m == CHOOSE x \in k.sub : \A y \in k.sub : x <= y IN
    /\ At(t, "update", "status")
    /\ maps' = IF m \in DOMAIN maps THEN [maps EXCEPT ![m].status = k.status] ELSE maps
    /\ approved' = IF _is_staff(k.u) \/ _is_nominator(k.u) THEN approved \cup {k.id} ELSE approved
    /\ IF k.sub = {m} THEN Finish(t) ELSE Set(t, [k EXCEPT !.sub = @ \ {m}])
    /\ UNCHANGED <<sets, osu, osz, nextId, scores, ops, faults>>

----------------------------------------------------------------------------
(* DELETE *)

delete_submission(t, u, s) ==
    /\ fetch_one(s)
    /\ IF _is_staff(u) \/ sets[s].owner = u
       THEN Begin(t, [NoTask EXCEPT !.op = "delete", !.u = u, !.id = s, !.pc = "maps"])
       ELSE Begin(t, NoTask)
    /\ UNCHANGED <<sets, maps, osu, osz, nextId, scores, faults, approved>>

DeleteMaps(t) ==
    LET k == tasks[t] IN
    /\ At(t, "delete", "maps")
    /\ Set(t, [k EXCEPT !.sub = maps_of(k.id), !.left = maps_of(k.id),
                        !.pc = IF _is_staff(k.u) \/ maps_of(k.id) = {} THEN "rows" ELSE "total"])
    /\ UNCHANGED <<sets, maps, osu, osz, nextId, scores, ops, faults, approved>>

\* _has_foreign_scores: of each map all scores are counted, then the owner's.
_has_foreign_scores(t) ==
    LET k == tasks[t]
        m == CHOOSE x \in k.left : \A y \in k.left : x <= y
        on(S) == Cardinality({p \in scores : p[2] = m /\ p[1] \in S}) IN
    /\ \/ /\ At(t, "delete", "total")
          /\ Set(t, [k EXCEPT !.n = on(Users), !.pc = "owned"])
       \/ /\ At(t, "delete", "owned")
          /\ IF k.n > on({k.u}) THEN Finish(t)
             ELSE Set(t, [k EXCEPT !.left = @ \ {m},
                                   !.pc = IF k.left = {m} THEN "rows" ELSE "total"])
    /\ UNCHANGED <<sets, maps, osu, osz, nextId, scores, ops, faults, approved>>

\* The rows in one transaction: the scores on the maps read before, the maps
\* of the set, the set.
DeleteRows(t) ==
    LET k == tasks[t] IN
    /\ At(t, "delete", "rows")
    /\ scores' = {p \in scores : p[2] \notin k.sub}
    /\ maps' = Drop(maps, maps_of(k.id))
    /\ sets' = Drop(sets, {k.id})
    /\ Set(t, [k EXCEPT !.pc = "files"])
    /\ UNCHANGED <<osu, osz, nextId, ops, faults, approved>>

DeleteFiles(t) ==
    LET k == tasks[t] IN
    /\ At(t, "delete", "files")
    /\ osu' = osu \ k.sub /\ osz' = osz \ {k.id}
    /\ Finish(t)
    /\ UNCHANGED <<sets, maps, nextId, scores, ops, faults, approved>>

\* An exception in an update or a deletion ends the request where it is.
RequestFails(t) ==
    /\ tasks[t].op \in {"update", "delete"} /\ faults < MaxFaults /\ faults' = faults + 1
    /\ Finish(t)
    /\ UNCHANGED <<sets, maps, osu, osz, nextId, scores, ops, approved>>

\* The process ends: every request is gone, rows and files stay.
Crash ==
    /\ faults < MaxFaults /\ faults' = faults + 1
    /\ \E t \in Tasks : tasks[t].op # "idle"
    /\ tasks' = [t \in Tasks |-> NoTask]
    /\ UNCHANGED <<sets, maps, osu, osz, nextId, scores, ops, approved>>

\* Somebody sets a score on a hosted map.
Play(u, m) ==
    /\ m \in DOMAIN maps /\ <<u, m>> \notin scores
    /\ scores' = scores \cup {<<u, m>>}
    /\ UNCHANGED <<sets, maps, osu, osz, nextId, tasks, ops, faults, approved>>

\* A mirrored map of a name that an upload may have is cached, or deleted.
Names == UNION {{canonical_osu_filename(u, Difficulties(a)[i]) : i \in DOMAIN Difficulties(a)} :
                    u \in Users \ Ineligible, a \in Uploads}
MirrorChanges(name) ==
    /\ ops < MaxOps /\ ops' = ops + 1
    /\ mirrored' \in {mirrored \cup {name}, mirrored \ {name}} /\ mirrored' # mirrored
    /\ UNCHANGED <<sets, maps, osu, osz, nextId, scores, tasks, faults, approved>>

----------------------------------------------------------------------------
(* The endpoints: a session is required, and the feature to be enabled. *)

_require_actor(u) == u # None
submit_beatmap(t, u, a) == _require_actor(u) /\ submit_beatmap_archive(t, u, a)
update_beatmap_submission(t, u, s, status, state, note) ==
    _require_actor(u) /\ update_submission(t, u, s, status, state, note)
delete_beatmap_submission(t, u, s) == _require_actor(u) /\ delete_submission(t, u, s)

\* mine wins over a user id that is given.
get_beatmap_submissions(actor, mine, owner, state) ==
    IF _require_actor(actor) THEN fetch_submissions(actor, IF mine THEN actor ELSE owner, state)
    ELSE {}
get_beatmap_submission(actor, s) == _require_actor(actor) /\ fetch_submission(actor, s)

----------------------------------------------------------------------------
Empty == [x \in {} |-> None]

Init ==
    /\ sets = Empty /\ maps = Empty /\ mirrored = {} /\ osu = {} /\ osz = {} /\ nextId = 1 /\ scores = {}
    /\ tasks = [t \in Tasks |-> NoTask] /\ ops = 0 /\ faults = 0 /\ approved = {}

Request(t) ==
    \/ \E u \in Users \cup {None} :
                        \/ \E a \in Uploads : submit_beatmap(t, u, a)
                        \/ \E s \in DOMAIN sets : delete_beatmap_submission(t, u, s)
                        \/ \E s \in DOMAIN sets, status \in {Unset, Ranked, Loved, Pending},
                              state \in {Unset} \cup ReviewState, note \in BOOLEAN :
                              update_beatmap_submission(t, u, s, status, state, note)
    \/ allocate(t) \/ _check_collisions(t) \/ write_file(t) \/ _commit_submission(t)
    \/ SubmitFails(t) \/ UpdateReview(t) \/ UpdateMaps(t) \/ UpdateStatus(t)
    \/ DeleteMaps(t) \/ _has_foreign_scores(t) \/ DeleteRows(t) \/ DeleteFiles(t)
    \/ RequestFails(t)

Next ==
    \/ UNCHANGED mirrored /\ \E t \in Tasks : Request(t)
    \/ UNCHANGED mirrored /\ \E u \in Users, m \in Ids : Play(u, m)
    \/ UNCHANGED mirrored /\ Crash
    \/ \E name \in Names : MirrorChanges(name)

Spec == Init /\ [][Next]_vars

----------------------------------------------------------------------------
(* Properties *)

\* What the API shows can be had: of a submission that is shown to anybody the
\* file of every difficulty is on disk, and asking for its name is answered with
\* the file of a difficulty of that name, unless a mirrored map is found there; an
\* approved one has its archive.  Through failures and crashes in the middle of
\* uploads and deletions, requests that overlap and mirrored maps that come and go
\* (submit_beatmap_archive writes files before rows, delete_submission removes
\* rows before files; fetch_osu_file, fetch_osz_archive).
ShownIsServed ==
    /\ \A s \in DOMAIN sets, u \in Users \cup {None} :
         get_beatmap_submission(u, s) =>
            /\ \A m \in maps_of(s) :
                 /\ m \in osu
                 /\ NotHosted \in fetch_osu_file(maps[m].name) => maps[m].name \in mirrored
            /\ sets[s].state = "approved" => fetch_osz_archive(s)
    /\ \A u, v \in Users \cup {None} : \A mine \in BOOLEAN :
         get_beatmap_submissions(u, mine, v, Unset) \subseteq
            {s \in DOMAIN sets : get_beatmap_submission(u, s)}

\* A difficulty has a leaderboard only if staff approved its set, or ranked it,
\* at some time before: uploads, requests of the owner, of nominators and of
\* staff overlap, and the owner's is checked on the row it read first
\* (update_submission, _check_status_permitted).
LeaderboardsAreReviewed ==
    \A m \in DOMAIN maps : maps[m].status # Pending => maps[m].set \in approved

\* Which row of a name is found is no question: _check_collisions is to "Refuse
\* anything that would shadow or hijack an existing beatmap".
NamesDiffer == \A m, n \in DOMAIN maps : maps[m].name = maps[n].name => m = n

\* What MapSubmissionReviewState says of REJECTED: a rejection removes any
\* leaderboard.  Stated for the requests of owners: a rejected set with nobody
\* changing it has a leaderboard only if staff gave it.
RejectedHasNoLeaderboard ==
    \A m \in DOMAIN maps :
        /\ sets[maps[m].set].state = "rejected" /\ maps[m].status = Loved
        => \E t \in Tasks : tasks[t].op = "update" /\ tasks[t].id = maps[m].set

\* "Other players' scores are not the submitter's to erase": an owner who is not
\* staff deletes no score of anybody else.
ErasesItsOwn ==
    \A t \in Tasks : DeleteRows(t) /\ ~_is_staff(tasks[t].u)
          => \A p \in scores \ scores' : p[1] = tasks[t].u
OwnersEraseTheirOwn == [][ErasesItsOwn]_vars

=============================================================================
