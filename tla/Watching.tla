------------------------------ MODULE Watching ------------------------------
(***************************************************************************)
(* What spectating promises, without lists, pointers and channels: every   *)
(* session watches one other session or nobody, one viewer moves at a      *)
(* time, and a session that has logged out neither watches nor is found by *)
(* new viewers.  Spectating implements it.                                 *)
(***************************************************************************)
CONSTANTS Sessions, None

VARIABLES
  host,    \* whom each session watches, or None
  gone     \* sessions that logged out

Init == host = [v \in Sessions |-> None] /\ gone = {}

\* From nobody or from another host.
Watch(v, h) ==
  /\ v \notin gone /\ h \notin gone
  /\ host' = [host EXCEPT ![v] = h]
  /\ gone' = gone

StopWatching(v) ==
  /\ host[v] # None
  /\ host' = [host EXCEPT ![v] = None]
  /\ gone' = gone

Leave(v) ==
  /\ v \notin gone
  /\ host' = [host EXCEPT ![v] = None]
  /\ gone' = gone \cup {v}

Next == \E v \in Sessions : \/ StopWatching(v) \/ Leave(v)
                            \/ \E h \in Sessions : Watch(v, h)

Spec == Init /\ [][Next]_<<host, gone>>
=============================================================================
