----------------------------- MODULE Spectating -----------------------------
(***************************************************************************)
(* Spectating: who watches whom, and the #spec_<id> channels.              *)
(*                                                                         *)
(* The relation lives in two places (`host.spectators`,                    *)
(* `player.spectating`) and in the members of the host's channel.  Both    *)
(* ends are Player objects, one per connection, while the channel is found *)
(* by the host's user id: a host who logs in again is a new object with    *)
(* the channel of the old one.  The handlers do not await, so each is one  *)
(* step.                                                                   *)
(***************************************************************************)
CONSTANTS Sessions,      \* Player objects: one per connection
          User,          \* the user id of every Player object
          Restricted,    \* sessions of restricted users
          None

Users == {User[s] : s \in Sessions}

ASSUME SpectatingAssumption ==
  /\ Restricted \subseteq Sessions
  /\ None \notin Sessions
  /\ User \in [Sessions -> Users]

VARIABLES
  online,      \* app.state.sessions.players
  ended,       \* sessions that logged out
  spectators,  \* player.spectators (no duplicates: see SpectatorsHear)
  spectating,  \* player.spectating
  channel      \* members of #spec_<user>; the channel exists while it has any

vars == <<online, ended, spectators, spectating, channel>>

Init ==
  /\ online = {} /\ ended = {}
  /\ spectators = [s \in Sessions |-> {}]
  /\ spectating = [s \in Sessions |-> None]
  /\ channel = [u \in Users |-> {}]

-----------------------------------------------------------------------------
(* The relation after one of its changes, as a record of its three parts.  *)

Relation == [spectators |-> spectators, spectating |-> spectating,
             channel |-> channel]

Becomes(r) ==
  /\ spectators' = r.spectators
  /\ spectating' = r.spectating
  /\ channel' = r.channel

\* A mutated form of Removed: the pointer is kept.
RemovedKeepsPointer(r, s) ==
  LET h == r.spectating[s]  u == User[h]
      rest == r.spectators[h] \ {s}
      leaving == {s} \cup IF rest = {} THEN {h} ELSE {}
  IN  [spectators |-> [r.spectators EXCEPT ![h] = rest],
       spectating |-> r.spectating,
       channel    |-> [r.channel EXCEPT ![u] = @ \ leaving]]

\* Player.remove_spectator, on the host s is spectating: s leaves the channel
\* of the host's user id, and the host leaves it with its last spectator.
Removed(r, s) ==
  LET h == r.spectating[s]  u == User[h]
      rest == r.spectators[h] \ {s}
      leaving == {s} \cup IF rest = {} THEN {h} ELSE {}
  IN  [spectators |-> [r.spectators EXCEPT ![h] = rest],
       spectating |-> [r.spectating EXCEPT ![s] = None],
       channel    |-> [r.channel EXCEPT ![u] = @ \ leaving]]

\* The same spectators with other channel members.
WithChannels(r, members) ==
  [spectators |-> r.spectators, spectating |-> r.spectating, channel |-> members]

\* The channel a spectator of h finds: the one of h's user id, or a new one
\* that the host joins first if it may read it.
OpenChannel(r, h) ==
  IF r.channel[User[h]] # {} THEN r.channel[User[h]] ELSE {h} \ Restricted

\* Player.add_spectator: a player already in the channel does not join it
\* again, and then does not become a spectator either.
Added(r, s, h) ==
  LET found == OpenChannel(r, h)
  IN  IF s \in found
      THEN WithChannels(r, [r.channel EXCEPT ![User[h]] = found])
      ELSE [spectators |-> [r.spectators EXCEPT ![h] = @ \cup {s}],
            spectating |-> [r.spectating EXCEPT ![s] = h],
            channel    |-> [r.channel EXCEPT ![User[h]] = found \cup {s}]]

-----------------------------------------------------------------------------
(* The handlers.                                                           *)

\* StopSpectating.
StopSpectating(s) ==
  /\ s \in online \ Restricted
  /\ spectating[s] # None
  /\ Becomes(Removed(Relation, s))
  /\ UNCHANGED <<online, ended>>

\* Mutated form of Left: the present host is not left.
LeftStays(s) == Relation

\* The relation once s watches nobody.
Left(s) == IF spectating[s] = None THEN Relation ELSE Removed(Relation, s)

\* StartSpectating: the present host, if another, is left first.
StartSpectating(s, h) ==
  /\ s \in online \ Restricted /\ h \in online
  /\ spectating[s] # h
  /\ Becomes(Added(Left(s), s, h))
  /\ UNCHANGED <<online, ended>>

\* A login puts a new Player object into the list; the user's former session
\* was logged out.
Login(s) ==
  /\ s \notin online \cup ended
  /\ \A t \in online : User[t] # User[s]
  /\ online' = online \cup {s}
  /\ UNCHANGED <<ended, spectators, spectating, channel>>

LeaveChannels(r, s) == WithChannels(r, [u \in Users |-> r.channel[u] \ {s}])

\* Player.logout: its own spectating ends and it leaves every channel; those
\* who watch it keep their pointer to it.
Logout(s) ==
  /\ s \in online
  /\ Becomes(LeaveChannels(Left(s), s))
  /\ online' = online \ {s}
  /\ ended' = ended \cup {s}

Next ==
  \E s \in Sessions : \/ Login(s) \/ Logout(s) \/ StopSpectating(s)
                      \/ \E h \in Sessions : StartSpectating(s, h)

Spec == Init /\ [][Next]_vars

-----------------------------------------------------------------------------
(* Properties.                                                             *)

\* Type correctness of both sides of the relation and of the channels; a
\* session that logged out is not found in the list of players any more.
TypeOK ==
  /\ online \subseteq Sessions /\ ended \subseteq Sessions \ online
  /\ spectators \in [Sessions -> SUBSET Sessions]
  /\ spectating \in [Sessions -> Sessions \cup {None}]
  /\ channel \in [Users -> SUBSET Sessions]

\* The two sides of the relation agree: a player is in host.spectators exactly
\* while player.spectating is that host, across host changes, logouts and
\* hosts that are gone; `self.spectators.remove(player)` never raises.
SidesAgree ==
  \A s, h \in Sessions : spectating[s] = h <=> s \in spectators[h]

\* Whoever watches a host is in the channel of that host's user, which so
\* exists: `assert channel is not None` in remove_spectator never fails, even
\* when the channel was opened by an earlier session of the host; and nobody
\* is appended to host.spectators twice.
SpectatorsHear ==
  \A s, h \in Sessions : s \in spectators[h] => s \in channel[User[h]]

\* A member of a spectator channel is the host's session or watches one of the
\* host's sessions.
MembersBelong ==
  \A u \in Users : \A s \in channel[u] :
    User[s] = u \/ (spectating[s] # None /\ User[spectating[s]] = u)

\* A session that has ended watches nobody and is in no channel.
EndedWatchNobody ==
  \A s \in ended :
    /\ \A h \in Sessions : s \notin spectators[h]
    /\ \A u \in Users : s \notin channel[u]

\* add_spectator, remove_spectator and logout leave nobody behind in a
\* spectator channel, and no ended session among the spectators.
NobodyLeftBehind == MembersBelong /\ EndedWatchNobody

\* Spectators, pointers and channels are sound whoever starts, changes host,
\* stops, logs out or logs in again (add_spectator, remove_spectator, logout).
WatchInv == TypeOK /\ SidesAgree /\ SpectatorsHear /\ NobodyLeftBehind

-----------------------------------------------------------------------------
(* What spectating promises: see Watching.  The host of a session is found *)
(* from the lists the hosts keep, which are what frames are sent by.       *)

HostOf(v) == IF \E h \in Sessions : v \in spectators[h]
             THEN CHOOSE h \in Sessions : v \in spectators[h] ELSE None

Promise == INSTANCE Watching WITH host <- [v \in Sessions |-> HostOf(v)], gone <- ended

\* The lists, pointers and channels implement one function from viewers to
\* hosts: a step of one player moves nobody else, changing hosts leaves the old
\* one for the new one, and who logged out watches nobody (add_spectator,
\* remove_spectator, logout).
KeepsPromise == Promise!Spec
=============================================================================
