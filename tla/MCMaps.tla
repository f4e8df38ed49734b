------------------------------- MODULE MCMaps -------------------------------
(***************************************************************************)
(* The two halves of the map store: beatmaps in the caches, rows and the   *)
(* osu!api, and sets that players upload. The models share no state, so    *)
(* that interleaving them would show nothing: which of them runs is chosen *)
(* at the start, and the states to look at add up instead of multiplying.  *)
(* The configurations give small instances.                                *)
(***************************************************************************)
EXTENDS Integers, TLC

CONSTANTS
  Calls,     \* requests that may be under way at once
  MaxCalls,  \* requests, all in all
  MaxErrors, \* exceptions, crashes and answers the osu!api fails to give
  \* of BeatmapCache
  Mirrored, Private, Objects, MaxVersion, MaxChanges,
  \* of BeatmapSubmissions
  Uploaders, UploadStaff, Nominators, Ineligible, Uploads, Limit, Quota,
  MaxId

\* A map is the osu!api's or the server's; 0 is no map and no object.
ASSUME MapsAssumption ==
  /\ Mirrored \cap Private = {} /\ 0 \notin Mirrored \cup Private \cup Objects
  /\ MaxVersion \in Nat

VARIABLES
  half,      \* which of them runs
  b_upstream, b_rows, b_mapsets, b_scores, b_objs, b_beatmapset, b_beatmap,
  b_last_np, b_tasks, b_ops, b_changes, b_faults, b_lost, b_decided, b_mixed,
  s_sets, s_maps, s_mirrored, s_osu, s_osz, s_nextId, s_scores, s_tasks,
  s_ops, s_faults, s_approved

b_vars == <<b_upstream, b_rows, b_mapsets, b_scores, b_objs, b_beatmapset,
          b_beatmap, b_last_np, b_tasks, b_ops, b_changes, b_faults, b_lost,
          b_decided, b_mixed>>
s_vars == <<s_sets, s_maps, s_mirrored, s_osu, s_osz, s_nextId, s_scores,
          s_tasks, s_ops, s_faults, s_approved>>
mapsvars == <<half, b_vars, s_vars>>

\* The value of what belongs to the half that does not run.
Unused == "unused"

\* An archive of two difficulties, and one whose difficulty cannot be rated.
Difficulty(version, rates) ==
  [osu |-> TRUE, safe |-> TRUE, size |-> 1, parses |-> TRUE, rates |-> rates,
   version |-> version, song |-> "x"]
MCUploads ==
  {[bytes |-> 1, members |-> <<Difficulty("easy", TRUE), Difficulty("hard", TRUE)>>],
   [bytes |-> 1, members |-> <<Difficulty("easy", FALSE)>>]}
MCLimit == [bytes |-> 1, members |-> 2, difficulties |-> 2, osuBytes |-> 1]

Cache == INSTANCE BeatmapCache WITH
    Tasks <- Calls, MaxOps <- MaxCalls, MaxFaults <- MaxErrors,
    upstream <- b_upstream, rows <- b_rows, mapsets <- b_mapsets,
    scores <- b_scores, objs <- b_objs, beatmapset <- b_beatmapset,
    beatmap <- b_beatmap, last_np <- b_last_np, tasks <- b_tasks,
    ops <- b_ops, changes <- b_changes, faults <- b_faults, lost <- b_lost,
    decided <- b_decided, mixed <- b_mixed
CacheUnused ==
  /\ b_upstream = Unused /\ b_rows = Unused /\ b_mapsets = Unused
  /\ b_scores = Unused /\ b_objs = Unused /\ b_beatmapset = Unused
  /\ b_beatmap = Unused /\ b_last_np = Unused /\ b_tasks = Unused
  /\ b_ops = Unused /\ b_changes = Unused /\ b_faults = Unused
  /\ b_lost = Unused /\ b_decided = Unused /\ b_mixed = Unused

Hosted == INSTANCE BeatmapSubmissions WITH
    Users <- Uploaders, Staff <- UploadStaff, Tasks <- Calls,
    MaxOps <- MaxCalls, MaxFaults <- MaxErrors,
    sets <- s_sets, maps <- s_maps, mirrored <- s_mirrored, osu <- s_osu, osz <- s_osz,
    nextId <- s_nextId, scores <- s_scores, tasks <- s_tasks, ops <- s_ops,
    faults <- s_faults, approved <- s_approved
HostedUnused ==
  /\ s_sets = Unused /\ s_maps = Unused /\ s_mirrored = Unused
  /\ s_osu = Unused /\ s_osz = Unused
  /\ s_nextId = Unused /\ s_scores = Unused /\ s_tasks = Unused
  /\ s_ops = Unused /\ s_faults = Unused /\ s_approved = Unused

-----------------------------------------------------------------------------
MapsInit ==
  \/ half = "cache" /\ Cache!Init /\ HostedUnused
  \/ half = "submissions" /\ Hosted!Init /\ CacheUnused

MapsNext ==
  \/ half = "cache" /\ Cache!Next /\ UNCHANGED <<half, s_vars>>
  \/ half = "submissions" /\ Hosted!Next /\ UNCHANGED <<half, b_vars>>

MapsSpec == MapsInit /\ [][MapsNext]_mapsvars

\* Requests under way are interchangeable.
CallSymmetry == Permutations(Calls)

-----------------------------------------------------------------------------
(* What they are checked for.                                              *)

\* What the osu!api lists, and what is hosted here, is not deleted
\* (_update_if_available): see BeatmapCache.
OnlyTheGoneAreDeleted == [][half = "cache" => Cache!DeletesOnlyTheGone]_mapsvars

\* A nominator's decision stays (_map, _save_to_sql): see BeatmapCache.
DecisionIsKept == half = "cache" => Cache!DecisionIsKept

\* What the API shows of a submission can be had (submit_beatmap_archive,
\* delete_submission): see BeatmapSubmissions.
ShownIsServed == half = "submissions" => Hosted!ShownIsServed

\* Leaderboards are given to what staff reviewed (update_submission): see
\* BeatmapSubmissions.
LeaderboardsAreReviewed == half = "submissions" => Hosted!LeaderboardsAreReviewed

\* What the code's documentation and comments say and it does not keep: see
\* BeatmapCache, BeatmapSubmissions and MCMaps_refuted.cfg.
CacheIsSynced == half = "cache" => Cache!CacheIsSynced
NamesDiffer == half = "submissions" => Hosted!NamesDiffer
RejectedHasNoLeaderboard == half = "submissions" => Hosted!RejectedHasNoLeaderboard
OwnersEraseTheirOwn == [][half = "submissions" => Hosted!ErasesItsOwn]_mapsvars
=============================================================================
