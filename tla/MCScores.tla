------------------------------ MODULE MCScores ------------------------------
(***************************************************************************)
(* Small instances of the way of a score: its submission and the ranks it  *)
(* changes. The models share no state, so that interleaving them would     *)
(* show nothing: which of them runs is chosen at the start, and the states *)
(* to look at add up instead of multiplying.                               *)
(***************************************************************************)
EXTENDS MCScoreSubmission, TLC

CONSTANTS
  \* of Leaderboard
  NRanked, Countries, HomeCountry, Tasks, TopPP, BatchSize, MaxOps, MaxLosses

\* A country code has two letters, and a batch has room for a row.
ASSUME RanksAssumption ==
  /\ NRanked \in Nat /\ TopPP \in Nat /\ BatchSize \in Nat \ {0}
  /\ HomeCountry \in Countries /\ "global" \notin Countries
  /\ IsFiniteSet(Tasks)

VARIABLES
  service,   \* which of them runs
  r_rows, r_objs, r_online, r_tasks, r_board, r_staged, r_rebuild,
  r_serving, r_ops, r_faults, r_steady, r_seen, r_mixed, r_killed

r_vars == <<r_rows, r_objs, r_online, r_tasks, r_board, r_staged, r_rebuild,
          r_serving, r_ops, r_faults, r_steady, r_seen, r_mixed, r_killed>>
allvars == <<service, vars, r_vars>>

\* The value of what belongs to a service that does not run.
Off == "off"

Ranks == INSTANCE Leaderboard WITH
    NUsers <- NRanked, MaxPP <- TopPP, MaxFaults <- MaxLosses, rows <- r_rows,
    objs <- r_objs, online <- r_online, tasks <- r_tasks, board <- r_board,
    staged <- r_staged, rebuild <- r_rebuild, serving <- r_serving,
    ops <- r_ops, faults <- r_faults, steady <- r_steady, seen <- r_seen,
    mixed <- r_mixed, killed <- r_killed
RanksOff ==
  /\ r_rows = Off /\ r_objs = Off /\ r_online = Off /\ r_tasks = Off
  /\ r_board = Off /\ r_staged = Off /\ r_rebuild = Off /\ r_serving = Off
  /\ r_ops = Off /\ r_faults = Off /\ r_steady = Off /\ r_seen = Off
  /\ r_mixed = Off /\ r_killed = Off

-----------------------------------------------------------------------------
AllInit ==
  \/ service = "submission" /\ Init /\ RanksOff
  \/ service = "ranks" /\ Init /\ Ranks!Init

AllNext ==
  \/ /\ service = "submission" /\ Next
     /\ UNCHANGED <<service, r_vars>>
  \/ /\ service = "ranks" /\ Ranks!Next
     /\ UNCHANGED <<service, vars>>

AllSpec == AllInit /\ [][AllNext]_allvars

\* Requests under way are interchangeable.
AllSymmetry == Permutations(Tasks)

-----------------------------------------------------------------------------
(* What they are checked for.                                              *)

\* Those of ScoreSubmission are checked under their own names.

\* The rebuild of the leaderboards is exact (rebuild_mode, commit_staged): see
\* Leaderboard.
RebuildIsExact == [][service = "ranks" => Ranks!CommitIsExact]_allvars

\* Who is restricted is not ranked (restrict, update_rank): see Leaderboard.
RestrictedAreUnranked == service = "ranks" => Ranks!RestrictedAreUnranked
=============================================================================
