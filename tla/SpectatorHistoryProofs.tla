----------------------- MODULE SpectatorHistoryProofs -----------------------
(***************************************************************************)
(* Proofs about Spectating and SpectatorHistory, for any sessions, any     *)
(* assignment of users to them and any restrictions, however many          *)
(* spectates and whichever database calls fail.                            *)
(*                                                                         *)
(* The first part is about Relation, the record of the three parts the     *)
(* handlers change: Consistent says what holds of it, and one lemma for    *)
(* each operation of player.py says that the operation preserves it.  The  *)
(* invariants of Spectating are not inductive by themselves: that a host   *)
(* leaving its channel takes no spectator away needs OwnHost, which in     *)
(* turn needs that a user is never online twice.                           *)
(*                                                                         *)
(* The second is about the history.  An id travels from the task that      *)
(* opens a row to a Player object, and from there to the task that closes  *)
(* it.  On the way it stays the id of a row opened for that player         *)
(* (Stashed, Targets), and once it is on its way to be closed its spectate *)
(* is over for good: the player's next one has a row of its own.           *)
(***************************************************************************)
EXTENDS SpectatorHistory, TLAPS

RelationType ==
  [spectators : [Sessions -> SUBSET Sessions],
   spectating : [Sessions -> Sessions \cup {None}],
   channel    : [Users -> SUBSET Sessions]]

\* What holds of the relation r while the sessions in gone have ended.
Agree(r)   == \A s, h \in Sessions : r.spectating[s] = h <=> s \in r.spectators[h]
Hear(r)    == \A s, h \in Sessions : s \in r.spectators[h] => s \in r.channel[User[h]]
Belong(r)  == \A u \in Users : \A s \in r.channel[u] :
                User[s] = u \/ (r.spectating[s] # None /\ User[r.spectating[s]] = u)
OwnHost(r) == \A s, h \in Sessions :
                r.spectating[s] = h /\ User[s] = User[h] => s = h
Quiet(r, gone) ==
  \A s \in gone : /\ \A h \in Sessions : s \notin r.spectators[h]
                  /\ \A u \in Users : s \notin r.channel[u]

Consistent(r, gone) ==
  r \in RelationType /\ Agree(r) /\ Hear(r) /\ Belong(r) /\ OwnHost(r) /\ Quiet(r, gone)

\* No user is online twice.
OneSession == \A s, t \in online : User[s] = User[t] => s = t

Inv ==
  /\ online \subseteq Sessions /\ ended \subseteq Sessions \ online
  /\ OneSession
  /\ Consistent(Relation, ended)

-----------------------------------------------------------------------------
\* Player.remove_spectator keeps the relation consistent, and the player
\* watches nobody afterwards.
LEMMA RemovedConsistent ==
  ASSUME NEW r, NEW gone \in SUBSET Sessions, Consistent(r, gone),
         NEW s \in Sessions, r.spectating[s] # None
  PROVE  Consistent(Removed(r, s), gone) /\ Removed(r, s).spectating[s] = None
<1> DEFINE h == r.spectating[s]
           u == User[h]
           rest == r.spectators[h] \ {s}
           leaving == {s} \cup IF rest = {} THEN {h} ELSE {}
           q == [spectators |-> [r.spectators EXCEPT ![h] = rest],
                 spectating |-> [r.spectating EXCEPT ![s] = None],
                 channel    |-> [r.channel EXCEPT ![u] = @ \ leaving]]
<1>1. r \in RelationType /\ Agree(r) /\ Hear(r) /\ Belong(r) /\ OwnHost(r) /\ Quiet(r, gone)
  BY DEF Consistent
<1>2. h \in Sessions /\ u \in Users /\ None \notin Sessions /\ s \in r.spectators[h]
  BY <1>1, SpectatingAssumption DEF RelationType, Agree
<1>3. Removed(r, s) = q
  BY DEF Removed
<1>4. q \in RelationType
  BY <1>1, <1>2 DEF RelationType
<1>5. /\ \A t \in Sessions : q.spectating[t] = IF t = s THEN None ELSE r.spectating[t]
      /\ \A t \in Sessions : q.spectators[t] = IF t = h THEN rest ELSE r.spectators[t]
      /\ \A v \in Users : q.channel[v] = IF v = u THEN r.channel[v] \ leaving ELSE r.channel[v]
  BY <1>1, <1>2 DEF RelationType
<1> HIDE DEF q
<1>6. Agree(q)
  BY <1>1, <1>2, <1>5 DEF Agree
<1>7. OwnHost(q)
  BY <1>1, <1>2, <1>5 DEF OwnHost
<1>8. Hear(q)
  <2> SUFFICES ASSUME NEW t \in Sessions, NEW g \in Sessions, t \in q.spectators[g]
               PROVE  t \in q.channel[User[g]]
    BY DEF Hear
  <2>1. t \in r.spectators[g] /\ r.spectating[t] = g /\ t # s
    BY <1>1, <1>2, <1>5 DEF Agree
  <2>2. t \in r.channel[User[g]] /\ User[g] \in Users
    BY <2>1, <1>1, SpectatingAssumption DEF Hear
  <2>3. CASE User[g] = u /\ t = h /\ rest = {}
    BY <2>1, <2>3, <1>1, <1>2, <1>5 DEF OwnHost
  <2>4. CASE ~(User[g] = u /\ t = h /\ rest = {})
    BY <2>1, <2>2, <2>4, <1>5
  <2> QED BY <2>3, <2>4
<1>9. Belong(q)
  <2> SUFFICES ASSUME NEW v \in Users, NEW t \in q.channel[v]
               PROVE  User[t] = v \/ (q.spectating[t] # None /\ User[q.spectating[t]] = v)
    BY DEF Belong
  <2>1. t \in r.channel[v] /\ t \in Sessions /\ ~(v = u /\ t = s)
    BY <1>1, <1>5 DEF RelationType
  <2>2. User[t] = v \/ (r.spectating[t] # None /\ User[r.spectating[t]] = v)
    BY <2>1, <1>1 DEF Belong
  <2> QED BY <2>1, <2>2, <1>2, <1>5
<1>10. Quiet(q, gone)
  BY <1>1, <1>5 DEF Quiet
<1> QED BY <1>3, <1>4, <1>5, <1>6, <1>7, <1>8, <1>9, <1>10 DEF Consistent

\* Player.add_spectator keeps the relation consistent, when the player watches
\* nobody and neither the player nor the host has ended.
LEMMA AddedConsistent ==
  ASSUME NEW r, NEW gone \in SUBSET Sessions, Consistent(r, gone),
         NEW s \in Sessions \ gone, NEW h \in Sessions \ gone,
         r.spectating[s] = None, User[s] = User[h] => s = h
  PROVE  Consistent(Added(r, s, h), gone)
<1> DEFINE u == User[h]
           found == OpenChannel(r, h)
           opened == WithChannels(r, [r.channel EXCEPT ![u] = found])
           q == [spectators |-> [r.spectators EXCEPT ![h] = @ \cup {s}],
                 spectating |-> [r.spectating EXCEPT ![s] = h],
                 channel    |-> [r.channel EXCEPT ![u] = found \cup {s}]]
<1>1. r \in RelationType /\ Agree(r) /\ Hear(r) /\ Belong(r) /\ OwnHost(r) /\ Quiet(r, gone)
  BY DEF Consistent
<1>2. u \in Users /\ None \notin Sessions
  BY SpectatingAssumption
<1>3. /\ found \subseteq Sessions /\ r.channel[u] \subseteq found
      /\ \A t \in found : t \in r.channel[u] \/ t = h
  BY <1>1, <1>2 DEF RelationType, OpenChannel
<1>4. Consistent(opened, gone)
  <2>1. opened \in RelationType
    BY <1>1, <1>2, <1>3 DEF RelationType, WithChannels
  <2>2. /\ opened.spectating = r.spectating /\ opened.spectators = r.spectators
        /\ \A v \in Users : opened.channel[v] = IF v = u THEN found ELSE r.channel[v]
    BY <1>1, <1>2 DEF RelationType, WithChannels
  <2> HIDE DEF opened, found
  <2>3. Agree(opened) /\ OwnHost(opened)
    BY <2>2, <1>1 DEF Agree, OwnHost
  <2>4. Hear(opened)
    BY <2>2, <1>1, <1>3, SpectatingAssumption DEF Hear
  <2>5. Belong(opened)
    BY <2>2, <1>1, <1>2, <1>3 DEF Belong
  <2>6. Quiet(opened, gone)
    BY <2>2, <1>1, <1>3 DEF Quiet
  <2> QED BY <2>1, <2>3, <2>4, <2>5, <2>6 DEF Consistent
<1>5. ASSUME s \notin found PROVE Consistent(q, gone)
  <2>1. q \in RelationType
    BY <1>1, <1>2, <1>3 DEF RelationType
  <2>2. /\ \A t \in Sessions : q.spectating[t] = IF t = s THEN h ELSE r.spectating[t]
        /\ \A t \in Sessions : q.spectators[t] = IF t = h THEN r.spectators[t] \cup {s}
                                                          ELSE r.spectators[t]
        /\ \A v \in Users : q.channel[v] = IF v = u THEN found \cup {s} ELSE r.channel[v]
    BY <1>1, <1>2 DEF RelationType
  <2> HIDE DEF q, found
  <2>3. Agree(q)
    <3> SUFFICES ASSUME NEW t \in Sessions, NEW g \in Sessions
                 PROVE  q.spectating[t] = g <=> t \in q.spectators[g]
      BY DEF Agree
    <3>1. r.spectating[t] = g <=> t \in r.spectators[g]
      BY <1>1 DEF Agree
    <3>2. CASE t = s
      BY <3>1, <3>2, <2>2, <1>2
    <3>3. CASE t # s
      BY <3>1, <3>3, <2>2
    <3> QED BY <3>2, <3>3
  <2>4. OwnHost(q)
    BY <2>2, <1>1 DEF OwnHost
  <2>5. Hear(q)
    BY <2>2, <1>1, <1>3, SpectatingAssumption DEF Hear
  <2>6. Belong(q)
    <3> SUFFICES ASSUME NEW v \in Users, NEW t \in q.channel[v]
                 PROVE  User[t] = v \/ (q.spectating[t] # None /\ User[q.spectating[t]] = v)
      BY DEF Belong
    <3>1. CASE t = s
      <4>1. CASE v = u
        BY <3>1, <4>1, <2>2, <1>2
      <4>2. CASE v # u
        BY <3>1, <4>2, <2>2, <1>1 DEF Belong
      <4> QED BY <4>1, <4>2
    <3>2. CASE t # s
      <4>1. t \in Sessions /\ (t \in r.channel[v] \/ (v = u /\ t = h))
        BY <3>2, <2>2, <1>1, <1>3 DEF RelationType
      <4> QED BY <3>2, <4>1, <2>2, <1>1 DEF Belong
    <3> QED BY <3>1, <3>2
  <2>7. Quiet(q, gone)
    <3> SUFFICES ASSUME NEW t \in gone
                 PROVE  /\ \A g \in Sessions : t \notin q.spectators[g]
                        /\ \A v \in Users : t \notin q.channel[v]
      BY DEF Quiet
    <3>1. /\ \A g \in Sessions : t \notin r.spectators[g]
          /\ \A v \in Users : t \notin r.channel[v]
      BY <1>1 DEF Quiet
    <3>2. \A g \in Sessions : t \notin q.spectators[g]
      <4> TAKE g \in Sessions
      <4>1. t # s
        OBVIOUS
      <4>2. q.spectators[g] = r.spectators[g] \/ q.spectators[g] = r.spectators[g] \cup {s}
        BY <2>2
      <4>3. t \notin r.spectators[g]
        BY <3>1
      <4> QED BY <4>1, <4>2, <4>3
    <3>3. \A v \in Users : t \notin q.channel[v]
      BY <3>1, <2>2, <1>2, <1>3
    <3> QED BY <3>2, <3>3
  <2> QED BY <2>1, <2>3, <2>4, <2>5, <2>6, <2>7 DEF Consistent
<1> QED BY <1>4, <1>5 DEF Added

\* A player who watches nobody may leave every channel and end.
LEMMA LeaveChannelsConsistent ==
  ASSUME NEW r, NEW gone \in SUBSET Sessions, Consistent(r, gone),
         NEW s \in Sessions, r.spectating[s] = None
  PROVE  Consistent(LeaveChannels(r, s), gone \cup {s})
<1> DEFINE q == WithChannels(r, [u \in Users |-> r.channel[u] \ {s}])
<1>1. r \in RelationType /\ Agree(r) /\ Hear(r) /\ Belong(r) /\ OwnHost(r) /\ Quiet(r, gone)
  BY DEF Consistent
<1>2. LeaveChannels(r, s) = q
  BY DEF LeaveChannels
<1>3. q \in RelationType
  BY <1>1 DEF RelationType, WithChannels
<1>4. /\ q.spectating = r.spectating /\ q.spectators = r.spectators
      /\ \A v \in Users : q.channel[v] = r.channel[v] \ {s}
  BY <1>1 DEF RelationType, WithChannels
<1> HIDE DEF q
<1>5. None \notin Sessions /\ \A h \in Sessions : s \notin r.spectators[h]
  BY <1>1, SpectatingAssumption DEF Agree
<1>6. Agree(q) /\ OwnHost(q)
  BY <1>1, <1>4 DEF Agree, OwnHost
<1>7. Hear(q)
  BY <1>1, <1>4, <1>5, SpectatingAssumption DEF Hear
<1>8. Belong(q)
  BY <1>1, <1>4 DEF Belong
<1>9. Quiet(q, gone \cup {s})
  BY <1>1, <1>4, <1>5 DEF Quiet
<1> QED BY <1>2, <1>3, <1>6, <1>7, <1>8, <1>9 DEF Consistent

\* Leaving the present host, if there is one.
LEMMA LeftConsistent ==
  ASSUME Consistent(Relation, ended), ended \subseteq Sessions, NEW s \in Sessions
  PROVE  Consistent(Left(s), ended) /\ Left(s).spectating[s] = None
<1>1. Relation.spectating = spectating
  BY DEF Relation
<1> QED BY <1>1, RemovedConsistent DEF Left

\* The relation after a step is the record the step made.
LEMMA BecomesRelation ==
  ASSUME NEW r \in RelationType, Becomes(r)
  PROVE  Relation' = r
BY DEF Becomes, Relation, RelationType

-----------------------------------------------------------------------------
\* The handlers, logins and logouts preserve Inv.
LEMMA SpectatingInductive == Spec => []Inv
<1>1. Init => Inv
  <2> SUFFICES ASSUME Init PROVE Inv
    OBVIOUS
  <2>1. Relation \in RelationType
    BY DEF Init, Relation, RelationType
  <2>2. /\ \A s \in Sessions : Relation.spectating[s] = None /\ Relation.spectators[s] = {}
        /\ \A u \in Users : Relation.channel[u] = {}
    BY DEF Init, Relation
  <2>3. /\ Agree(Relation) /\ Hear(Relation) /\ Belong(Relation)
        /\ OwnHost(Relation) /\ Quiet(Relation, ended)
    BY <2>2, SpectatingAssumption DEF Agree, Hear, Belong, OwnHost, Quiet, Init
  <2> QED BY <2>1, <2>3 DEF Init, Inv, OneSession, Consistent
<1>2. Inv /\ [Next]_vars => Inv'
  <2> SUFFICES ASSUME Inv, [Next]_vars PROVE Inv'
    OBVIOUS
  <2>0. /\ online \subseteq Sessions /\ ended \subseteq Sessions \ online
        /\ OneSession /\ Consistent(Relation, ended)
    BY DEF Inv
  <2>1. ASSUME NEW s \in Sessions, Login(s) PROVE Inv'
    <3>1. Relation' = Relation /\ ended' = ended
      BY <2>1 DEF Login, Relation
    <3>2. Consistent(Relation, ended)'
      BY <3>1, <2>0
    <3>3. OneSession' /\ online' \subseteq Sessions /\ ended' \subseteq Sessions \ online'
      BY <2>0, <2>1 DEF OneSession, Login
    <3> QED BY <3>2, <3>3 DEF Inv
  <2>2. ASSUME NEW s \in Sessions, Logout(s) PROVE Inv'
    <3>1. Consistent(LeaveChannels(Left(s), s), ended \cup {s})
      BY <2>0, LeftConsistent, LeaveChannelsConsistent
    <3>2. Becomes(LeaveChannels(Left(s), s)) /\ online' = online \ {s} /\ ended' = ended \cup {s}
      BY <2>2 DEF Logout
    <3>3. Relation' = LeaveChannels(Left(s), s)
      BY <3>1, <3>2, BecomesRelation DEF Consistent
    <3>4. Consistent(Relation, ended)'
      BY <3>1, <3>2, <3>3
    <3> QED BY <2>0, <3>2, <3>4 DEF Inv, OneSession
  <2>3. ASSUME NEW s \in Sessions, StopSpectating(s) PROVE Inv'
    <3>1. Relation.spectating[s] # None
      BY <2>3 DEF StopSpectating, Relation
    <3>2. Consistent(Removed(Relation, s), ended)
      BY <2>0, <3>1, RemovedConsistent
    <3>3. Becomes(Removed(Relation, s)) /\ online' = online /\ ended' = ended
      BY <2>3 DEF StopSpectating
    <3>4. Relation' = Removed(Relation, s)
      BY <3>2, <3>3, BecomesRelation DEF Consistent
    <3>5. Consistent(Relation, ended)'
      BY <3>2, <3>3, <3>4
    <3> QED BY <2>0, <3>3, <3>5 DEF Inv, OneSession
  <2>4. ASSUME NEW s \in Sessions, NEW h \in Sessions, StartSpectating(s, h) PROVE Inv'
    <3>1. s \in Sessions \ ended /\ h \in Sessions \ ended /\ (User[s] = User[h] => s = h)
      BY <2>0, <2>4 DEF StartSpectating, OneSession
    <3>2. Consistent(Added(Left(s), s, h), ended)
      BY <2>0, <3>1, LeftConsistent, AddedConsistent
    <3>3. Becomes(Added(Left(s), s, h)) /\ online' = online /\ ended' = ended
      BY <2>4 DEF StartSpectating
    <3>4. Relation' = Added(Left(s), s, h)
      BY <3>2, <3>3, BecomesRelation DEF Consistent
    <3>5. Consistent(Relation, ended)'
      BY <3>2, <3>3, <3>4
    <3> QED BY <2>0, <3>3, <3>5 DEF Inv, OneSession
  <2>5. CASE UNCHANGED vars
    <3>1. Relation' = Relation /\ ended' = ended /\ online' = online
      BY <2>5 DEF vars, Relation
    <3> QED BY <2>0, <3>1 DEF Inv, OneSession
  <2> QED BY <2>1, <2>2, <2>3, <2>4, <2>5 DEF Next
<1> QED BY <1>1, <1>2, PTL DEF Spec

\* What Inv says of the three variables.
LEMMA InvImplies ==
  Inv => TypeOK /\ SidesAgree /\ SpectatorsHear /\ NobodyLeftBehind
<1> SUFFICES ASSUME Inv
             PROVE  TypeOK /\ SidesAgree /\ SpectatorsHear /\ NobodyLeftBehind
  OBVIOUS
<1>1. /\ Relation.spectators = spectators /\ Relation.spectating = spectating
      /\ Relation.channel = channel
  BY DEF Relation
<1>2. TypeOK
  BY <1>1 DEF Inv, Consistent, RelationType, TypeOK, Relation
<1>3. SidesAgree /\ SpectatorsHear
  BY <1>1 DEF Inv, Consistent, Agree, Hear, SidesAgree, SpectatorsHear
<1>4. NobodyLeftBehind
  BY <1>1 DEF Inv, Consistent, Belong, Quiet, NobodyLeftBehind, MembersBelong, EndedWatchNobody
<1> QED BY <1>2, <1>3, <1>4

-----------------------------------------------------------------------------
\* Player.spectators, Player.spectating, the players and the channels are what
\* their annotations say, and a session that logged out is not listed.
THEOREM SpectatingTyped == Spec => []TypeOK
BY SpectatingInductive, InvImplies, PTL

\* host.spectators and player.spectating agree in every reachable state, so
\* `self.spectators.remove(player)` in remove_spectator never raises.
THEOREM SidesAlwaysAgree == Spec => []SidesAgree
BY SpectatingInductive, InvImplies, PTL

\* Whoever watches a host is in the channel of the host's user id, so the
\* assertion of remove_spectator that the channel exists never fails.
THEOREM SpectatorsAlwaysHear == Spec => []SpectatorsHear
BY SpectatingInductive, InvImplies, PTL

\* add_spectator, remove_spectator and logout leave nobody behind in a
\* spectator channel, and an ended session is in none.
THEOREM ChannelsHoldTheirOwn == Spec => []NobodyLeftBehind
BY SpectatingInductive, InvImplies, PTL

\* All of it at once: relation, pointers, channels and the list of players are
\* sound in every reachable state (add_spectator, remove_spectator, logout).
THEOREM WatchInvariant == Spec => []WatchInv
BY SpectatingInductive, InvImplies, PTL DEF WatchInv

-----------------------------------------------------------------------------
(* The refinement of Watching.  With Inv the host found from the lists is  *)
(* the one a session points to, so the mapping can be read off the pointer *)
(* of the one player a step moves.                                         *)

LEMMA HostIsPointer ==
  Inv => [v \in Sessions |-> HostOf(v)] = spectating
<1> SUFFICES ASSUME Inv PROVE [v \in Sessions |-> HostOf(v)] = spectating
  OBVIOUS
<1>1. TypeOK /\ SidesAgree
  BY InvImplies
<1>2. ASSUME NEW v \in Sessions PROVE HostOf(v) = spectating[v]
  <2>1. CASE spectating[v] = None
    <3>1. \A h \in Sessions : v \notin spectators[h]
      BY <2>1, <1>1, SpectatingAssumption DEF SidesAgree
    <3> QED BY <2>1, <3>1 DEF HostOf
  <2>2. CASE spectating[v] # None
    <3>1. spectating[v] \in Sessions
      BY <2>2, <1>1 DEF TypeOK
    <3>2. \A h \in Sessions : v \in spectators[h] <=> h = spectating[v]
      BY <1>1 DEF SidesAgree
    <3> QED BY <3>1, <3>2 DEF HostOf
  <2> QED BY <2>1, <2>2
<1> QED BY <1>1, <1>2 DEF TypeOK

\* Leaving the present host sets one pointer to None.
LEMMA LeftPointer ==
  ASSUME TypeOK, NEW s \in Sessions
  PROVE  Left(s).spectating = [spectating EXCEPT ![s] = None]
<1>1. CASE spectating[s] = None
  <2>1. [spectating EXCEPT ![s] = None] = spectating
    BY <1>1 DEF TypeOK
  <2> QED BY <1>1, <2>1 DEF Left, Relation
<1>2. CASE spectating[s] # None
  BY <1>2 DEF Left, Relation, Removed
<1> QED BY <1>1, <1>2

\* Starting to watch h sets the pointer to h, or only leaves the former host
\* when the player is in the channel already.
LEMMA AddedPointer ==
  ASSUME TypeOK, NEW s \in Sessions, NEW h \in Sessions
  PROVE  \/ Added(Left(s), s, h).spectating = [spectating EXCEPT ![s] = h]
         \/ Added(Left(s), s, h).spectating = [spectating EXCEPT ![s] = None]
<1>1. Left(s).spectating = [spectating EXCEPT ![s] = None]
  BY LeftPointer
<1>2. [[spectating EXCEPT ![s] = None] EXCEPT ![s] = h] = [spectating EXCEPT ![s] = h]
  BY DEF TypeOK
<1> QED BY <1>1, <1>2 DEF Added, WithChannels

\* Every step of the handlers is a step of Watching or changes nothing it sees.
LEMMA StepKeepsPromise ==
  ASSUME Inv, Inv', [Next]_vars
  PROVE  [Promise!Next]_<<[v \in Sessions |-> HostOf(v)], ended>>
<1>1. /\ [v \in Sessions |-> HostOf(v)] = spectating
      /\ [v \in Sessions |-> HostOf(v)]' = spectating'
      /\ TypeOK
  <2>1. Inv' => ([v \in Sessions |-> HostOf(v)] = spectating)'
    BY HostIsPointer, PTL
  <2> QED BY <2>1, HostIsPointer, InvImplies
<1>2. ASSUME NEW s \in Sessions, Login(s)
      PROVE  spectating' = spectating /\ ended' = ended
  BY <1>2 DEF Login
<1>3. ASSUME NEW s \in Sessions, Logout(s) PROVE Promise!Leave(s)
  <2>1. spectating' = [spectating EXCEPT ![s] = None]
    BY <1>1, <1>3, LeftPointer DEF Logout, Becomes, LeaveChannels, WithChannels
  <2>2. s \notin ended /\ ended' = ended \cup {s}
    BY <1>1, <1>3 DEF Logout, TypeOK
  <2> QED BY <1>1, <2>1, <2>2 DEF Promise!Leave
<1>4. ASSUME NEW s \in Sessions, StopSpectating(s) PROVE Promise!StopWatching(s)
  <2>1. /\ spectating[s] # None /\ ended' = ended
        /\ spectating' = [spectating EXCEPT ![s] = None]
    BY <1>4 DEF StopSpectating, Becomes, Removed, Relation
  <2> QED BY <1>1, <2>1 DEF Promise!StopWatching
<1>5. ASSUME NEW s \in Sessions, NEW h \in Sessions, StartSpectating(s, h)
      PROVE  \/ Promise!Watch(s, h) \/ Promise!StopWatching(s)
             \/ spectating' = spectating /\ ended' = ended
  <2>1. /\ s \notin ended /\ h \notin ended /\ ended' = ended
        /\ spectating' = Added(Left(s), s, h).spectating
    BY <1>1, <1>5 DEF StartSpectating, Becomes, TypeOK
  <2>2. CASE spectating' = [spectating EXCEPT ![s] = h]
    BY <1>1, <2>1, <2>2 DEF Promise!Watch
  <2>3. CASE spectating' = [spectating EXCEPT ![s] = None]
    <3>1. CASE spectating[s] = None
      BY <1>1, <2>1, <2>3, <3>1 DEF TypeOK
    <3>2. CASE spectating[s] # None
      BY <1>1, <2>1, <2>3, <3>2 DEF Promise!StopWatching
    <3> QED BY <3>1, <3>2
  <2> QED BY <1>1, <2>1, <2>2, <2>3, AddedPointer
<1>6. CASE UNCHANGED vars
  BY <1>1, <1>6 DEF vars
<1> QED BY <1>1, <1>2, <1>3, <1>4, <1>5, <1>6 DEF Next, Promise!Next

\* Spectating implements Watching: whatever lists, pointers and channels do,
\* what viewers see is one player at a time going from host to host, and a
\* session that logged out watches nobody and is not watched anew.
THEOREM PromiseKept == Spec => KeepsPromise
<1>1. Inv /\ Init => Promise!Init
  BY HostIsPointer DEF Init, Promise!Init
<1>2. Inv /\ Inv' /\ [Next]_vars => [Promise!Next]_<<[v \in Sessions |-> HostOf(v)], ended>>
  BY StepKeepsPromise
<1> QED BY <1>1, <1>2, SpectatingInductive, PTL DEF Spec, KeepsPromise, Promise!Spec

-----------------------------------------------------------------------------
(* The history.                                                            *)

\* Spectate n has started in the history w, by session s.
Begun(w, s, n) == n \in 1..Len(w) /\ w[n].viewer = s

\* The id on a Player object is that of a row opened for this player.
Stashed == \A s \in Sessions : stash[s] # 0 => Begun(watch, s, stash[s])

\* Whoever watches somebody is in a spectate of its own.
Current ==
  \A s \in Sessions : /\ spectating[s] # None => current[s] # 0
                      /\ current[s] # 0 => Begun(watch, s, current[s])

\* A close is for a row of its viewer whose spectate is over.
Targets ==
  \A c \in closing : Begun(watch, c.viewer, c.row) /\ c.row # current[c.viewer]

\* A row is inserted after its spectate has started, and read back after that.
Inserted ==
  \A n \in Watches : /\ opening[n] # "idle" \/ row[n] # "none" => n \in 1..Len(watch)
                     /\ opening[n] = "fetching" => row[n] # "none"

HistoryInd ==
  /\ TypeOK /\ HTypeOK /\ OngoingRowStaysOpen
  /\ Stashed /\ Current /\ Targets /\ Inserted

-----------------------------------------------------------------------------
\* persist_spectator_started appends a spectate and inserts its row: what was
\* started before stays as it was.
LEMMA StartedStays ==
  ASSUME HTypeOK, NEW s \in Sessions, NEW h \in Sessions, persist_started(s, h)
  PROVE  /\ Len(watch) + 1 \in Watches
         /\ watch' \in Seq([host : Users, viewer : Sessions])
         /\ Len(watch') = Len(watch) + 1 /\ Len(watch') <= MaxSpectates
         /\ Begun(watch', s, Len(watch) + 1)
         /\ \A t \in Sessions, n \in Nat : Begun(watch, t, n) => Begun(watch', t, n)
<1> USE HistoryAssumption DEF HTypeOK
<1> DEFINE new == [host |-> User[h], viewer |-> s]
<1>1. new \in [host : Users, viewer : Sessions]
  BY SpectatingAssumption
<1>2. watch' = Append(watch, new) /\ Len(watch) < MaxSpectates
  BY DEF persist_started
<1> HIDE DEF new
<1>3. /\ watch' \in Seq([host : Users, viewer : Sessions])
      /\ Len(watch') = Len(watch) + 1
      /\ watch'[Len(watch) + 1] = new
      /\ \A n \in 1..Len(watch) : watch'[n] = watch[n]
  BY <1>1, <1>2
<1>4. Len(watch) \in Nat
  OBVIOUS
<1>5. Len(watch) + 1 \in Watches /\ Begun(watch', s, Len(watch) + 1)
  BY <1>2, <1>3, <1>4 DEF Begun, Watches, new
<1>6. ASSUME NEW t \in Sessions, NEW n \in Nat, Begun(watch, t, n) PROVE Begun(watch', t, n)
  <2>1. n \in 1..Len(watch) /\ watch[n].viewer = t
    BY <1>6 DEF Begun
  <2>2. n \in 1..Len(watch')
    BY <1>3, <1>4, <2>1
  <2>3. watch'[n] = watch[n]
    BY <1>3, <2>1
  <2>4. QED
    BY <2>1, <2>2, <2>3 DEF Begun
<1>7. QED
  BY <1>2, <1>3, <1>4, <1>5, <1>6

\* persist_spectator_ended takes an id off the Player object and hands it to a
\* close, while the spectate it leaves is the current one no more.
LEMMA EndedMoves ==
  ASSUME HTypeOK, NEW s \in Sessions, persist_ended(s)
  PROVE  /\ stash' \in [Sessions -> 0..MaxSpectates]
         /\ \A t \in Sessions : stash'[t] \in {0, stash[t]}
         /\ \A c \in closing' :
              \/ c \in closing
              \/ /\ spectating[s] # None /\ stash[s] # 0
                 /\ c = [watch |-> current[s], viewer |-> s, row |-> stash[s]]
<1>1. CASE spectating[s] = None
  BY <1>1 DEF persist_ended, HTypeOK
<1>2. CASE spectating[s] # None
  BY <1>2, HistoryAssumption DEF persist_ended, HTypeOK
<1>3. QED
  BY <1>1, <1>2

\* A handler ends the present spectate of s and starts another one, or none.
LEMMA HandlerKeeps ==
  ASSUME HistoryInd, TypeOK', NEW s \in Sessions, persist_ended(s), row' = row,
         \/ /\ spectating' = [spectating EXCEPT ![s] = None]
            /\ current' = [current EXCEPT ![s] = 0]
            /\ UNCHANGED <<watch, opening>>
         \/ \E h \in Sessions : /\ spectating' = [spectating EXCEPT ![s] = h]
                                /\ persist_started(s, h)
  PROVE  HistoryInd'
<1> USE HistoryAssumption
<1>0. /\ TypeOK /\ HTypeOK /\ OngoingRowStaysOpen
      /\ Stashed /\ Current /\ Targets /\ Inserted
  BY DEF HistoryInd
<1>1. /\ stash' \in [Sessions -> 0..MaxSpectates]
      /\ \A t \in Sessions : stash'[t] \in {0, stash[t]}
      /\ \A c \in closing' :
           \/ c \in closing
           \/ /\ spectating[s] # None /\ stash[s] # 0
              /\ c = [watch |-> current[s], viewer |-> s, row |-> stash[s]]
  BY <1>0, EndedMoves
<1> DEFINE Moves(new) ==
             /\ \A t \in Sessions : current'[t] = IF t = s THEN new ELSE current[t]
             /\ \A t \in Sessions : t # s => spectating'[t] = spectating[t]
             /\ spectating'[s] # None => new # 0
             /\ new # 0 => Begun(watch', s, new) /\ new \in Watches
<1>2. PICK new \in {0, Len(watch) + 1} : Moves(new)
  <2>1. CASE /\ spectating' = [spectating EXCEPT ![s] = None]
             /\ current' = [current EXCEPT ![s] = 0]
    <3>1. Moves(0)
      BY <1>0, <2>1 DEF TypeOK, HTypeOK
    <3>2. QED
      BY <3>1
  <2>2. ASSUME NEW h \in Sessions, spectating' = [spectating EXCEPT ![s] = h],
               persist_started(s, h)
        PROVE  Moves(Len(watch) + 1)
    <3>1. /\ Len(watch) + 1 \in Watches /\ Len(watch') = Len(watch) + 1
          /\ Begun(watch', s, Len(watch) + 1)
      BY <1>0, <2>2, StartedStays
    <3>2. current' = [current EXCEPT ![s] = Len(watch) + 1] /\ Len(watch) + 1 # 0
      BY <2>2, <3>1 DEF persist_started, Watches
    <3>3. QED
      BY <1>0, <2>2, <3>1, <3>2 DEF TypeOK, HTypeOK
  <2>3. QED
    BY <2>1, <2>2
<1>3. /\ current' \in [Sessions -> 0..MaxSpectates]
      /\ watch' \in Seq([host : Users, viewer : Sessions]) /\ Len(watch') <= MaxSpectates
      /\ opening' \in [Watches -> {"idle", "inserting", "fetching", "done"}]
      /\ \A n \in Watches : opening'[n] # opening[n] =>
           opening'[n] = "inserting" /\ n = Len(watch')
      /\ Len(watch') \in Nat /\ Len(watch) <= Len(watch')
      /\ \A t \in Sessions, n \in Nat : Begun(watch, t, n) => Begun(watch', t, n)
  <2>1. CASE UNCHANGED <<watch, opening>> /\ current' = [current EXCEPT ![s] = 0]
    BY <1>0, <2>1 DEF HTypeOK, Begun
  <2>2. ASSUME NEW h \in Sessions, persist_started(s, h)
        PROVE  /\ current' = [current EXCEPT ![s] = Len(watch')]
               /\ opening' = [opening EXCEPT ![Len(watch')] = "inserting"]
               /\ watch' \in Seq([host : Users, viewer : Sessions])
               /\ Len(watch') = Len(watch) + 1 /\ Len(watch') \in Watches
               /\ \A t \in Sessions, n \in Nat : Begun(watch, t, n) => Begun(watch', t, n)
    BY <1>0, <2>2, StartedStays DEF persist_started
  <2>3. Len(watch) \in Nat
    BY <1>0 DEF HTypeOK
  <2>4. ASSUME NEW h \in Sessions, persist_started(s, h)
        PROVE  /\ current' \in [Sessions -> 0..MaxSpectates]
               /\ opening' \in [Watches -> {"idle", "inserting", "fetching", "done"}]
               /\ \A n \in Watches : opening'[n] # opening[n] =>
                    opening'[n] = "inserting" /\ n = Len(watch')
    <3>1. /\ current' = [current EXCEPT ![s] = Len(watch')]
          /\ opening' = [opening EXCEPT ![Len(watch')] = "inserting"]
          /\ Len(watch') \in Watches
      BY <2>2, <2>4
    <3>2. QED
      BY <1>0, <3>1 DEF HTypeOK, Watches
  <2>5. ASSUME NEW h \in Sessions, persist_started(s, h)
        PROVE  Len(watch') \in Nat /\ Len(watch) <= Len(watch') /\ Len(watch') <= MaxSpectates
    BY <2>2, <2>3, <2>5 DEF Watches
  <2>6. QED
    BY <2>1, <2>2, <2>3, <2>4, <2>5
<1>4. \A t \in Sessions, n \in Nat : Begun(watch, t, n) => n \in Watches /\ n # Len(watch) + 1 /\ n # 0
  BY <1>0 DEF Begun, Watches, HTypeOK
<1>5. HTypeOK'
  <2>1. closing' \subseteq [watch : Watches, viewer : Sessions, row : Watches]
    <3>1. ASSUME spectating[s] # None, stash[s] # 0
          PROVE  current[s] \in Watches /\ stash[s] \in Watches
      BY <1>0, <3>1 DEF Current, Stashed, HTypeOK, Watches
    <3>2. QED
      BY <1>0, <1>1, <3>1 DEF HTypeOK
  <2>2. \A t \in Sessions : stash'[t] # 0 => row'[stash'[t]] # "none"
    BY <1>0, <1>1 DEF HTypeOK
  <2>3. QED
    BY <1>0, <1>1, <1>3, <2>1, <2>2 DEF HTypeOK
<1>6. Stashed' /\ Current'
  <2>1. \A t \in Sessions : stash[t] \in Nat /\ current[t] \in Nat
    BY <1>0 DEF HTypeOK
  <2>2. Stashed'
    BY <1>0, <1>1, <1>3, <2>1 DEF Stashed
  <2>3. Current'
    BY <1>0, <1>2, <1>3, <2>1 DEF Current
  <2>4. QED
    BY <2>2, <2>3
<1>7. Targets'
  <2> SUFFICES ASSUME NEW c \in closing'
               PROVE  Begun(watch', c.viewer, c.row) /\ c.row # current'[c.viewer]
    BY DEF Targets
  <2>1. c.row \in Nat /\ c.viewer \in Sessions
    BY <1>5 DEF HTypeOK, Watches
  <2>2. Begun(watch, c.viewer, c.row)
    BY <1>0, <1>1 DEF Targets, Stashed
  <2>3. CASE c \in closing
    BY <1>0, <1>2, <1>3, <1>4, <2>1, <2>2, <2>3 DEF Targets
  <2>4. CASE c = [watch |-> current[s], viewer |-> s, row |-> stash[s]]
    BY <1>2, <1>3, <1>4, <2>1, <2>2, <2>4
  <2>5. QED
    BY <1>1, <2>3, <2>4
<1>8. Inserted'
  BY <1>0, <1>3 DEF Inserted, HTypeOK, Watches
<1>9. OngoingRowStaysOpen'
  <2> SUFFICES ASSUME NEW t \in Sessions, current'[t] # 0 PROVE row'[current'[t]] # "ended"
    BY DEF OngoingRowStaysOpen
  <2>1. CASE current'[t] = current[t]
    BY <1>0, <2>1 DEF OngoingRowStaysOpen
  <2>2. CASE current'[t] # current[t]
    <3>1. current'[t] = Len(watch) + 1 /\ Len(watch) + 1 \in Watches
      BY <1>2, <2>2
    <3>2. Len(watch) + 1 \notin 1..Len(watch)
      BY <1>0 DEF HTypeOK
    <3>3. row[Len(watch) + 1] = "none"
      BY <1>0, <3>1, <3>2 DEF Inserted
    <3>4. QED
      BY <3>1, <3>3
  <2>3. QED
    BY <2>1, <2>2
<1>10. QED
  BY <1>5, <1>6, <1>7, <1>8, <1>9 DEF HistoryInd

\* What the types say of the ids: they name spectates, and these are records.
LEMMA IdsName ==
  ASSUME HTypeOK
  PROVE  /\ \A s \in Sessions : stash[s] # 0 => stash[s] \in Watches
         /\ \A s \in Sessions : current[s] # 0 => current[s] \in Watches
         /\ \A n \in 1..Len(watch) : n \in Watches /\ watch[n].viewer \in Sessions
<1>1. \A s \in Sessions : stash[s] \in 0..MaxSpectates /\ current[s] \in 0..MaxSpectates
  BY DEF HTypeOK
<1>2. watch \in Seq([host : Users, viewer : Sessions]) /\ Len(watch) <= MaxSpectates
  BY DEF HTypeOK
<1>3. ASSUME NEW n \in 1..Len(watch) PROVE n \in Watches /\ watch[n].viewer \in Sessions
  <2> DEFINE R == [host : Users, viewer : Sessions]
  <2>0. watch \in Seq(R)
    BY <1>2
  <2>1. watch[n] \in R
    <3> HIDE DEF R
    <3>1. QED
      BY <2>0
  <2>2. n \in Watches
    BY <1>2, HistoryAssumption DEF Watches
  <2>3. QED
    BY <2>1, <2>2
<1>4. QED
  BY <1>1, <1>3, HistoryAssumption DEF Watches

\* The tasks: an insert that commits, an id read back and put on the Player
\* object, a close, each of which may fail instead.
LEMMA TaskKeeps ==
  ASSUME HistoryInd, UNCHANGED vars,
         \/ \E n \in Watches : SessionInserted(n) \/ SessionStashed(n)
         \/ \E c \in closing : SessionClosed(c)
  PROVE  HistoryInd'
<1> USE HistoryAssumption
<1>0. /\ TypeOK /\ HTypeOK /\ OngoingRowStaysOpen
      /\ Stashed /\ Current /\ Targets /\ Inserted
  BY DEF HistoryInd
<1>1. TypeOK'
  BY <1>0 DEF TypeOK, vars
<1>2. ASSUME NEW n \in Watches, SessionInserted(n) PROVE HistoryInd'
  <2>1. /\ opening[n] = "inserting" /\ UNCHANGED <<spectating, stash, watch, current, closing>>
        /\ \/ /\ opening' = [opening EXCEPT ![n] = "fetching"]
              /\ row' = [row EXCEPT ![n] = "open"]
           \/ opening' = [opening EXCEPT ![n] = "done"] /\ row' = row
    BY <1>2 DEF SessionInserted, vars
  <2>2. HTypeOK'
    <3>1. /\ opening' \in [Watches -> {"idle", "inserting", "fetching", "done"}]
          /\ row' \in [Watches -> {"none", "open", "ended"}]
      BY <1>0, <2>1 DEF HTypeOK
    <3>2. \A m \in Watches : row[m] # "none" => row'[m] # "none"
      BY <1>0, <2>1 DEF HTypeOK
    <3>3. \A s \in Sessions : stash[s] # 0 => row'[stash[s]] # "none"
      BY <1>0, <3>2, IdsName DEF HTypeOK
    <3>4. QED
      BY <1>0, <2>1, <3>1, <3>3 DEF HTypeOK
  <2>3. Stashed' /\ Current' /\ Targets'
    BY <1>0, <2>1 DEF Stashed, Current, Targets
  <2>4. Inserted'
    BY <1>0, <2>1, <2>2 DEF Inserted, HTypeOK
  <2>5. OngoingRowStaysOpen'
    <3>1. \A m \in Watches : row'[m] = "ended" => row[m] = "ended"
      BY <1>0, <2>1 DEF HTypeOK
    <3>2. QED
      BY <1>0, <2>1, <3>1, IdsName DEF OngoingRowStaysOpen
  <2>6. QED
    BY <1>1, <2>2, <2>3, <2>4, <2>5 DEF HistoryInd
<1>3. ASSUME NEW n \in Watches, SessionStashed(n) PROVE HistoryInd'
  <2> DEFINE v == watch[n].viewer
  <2>1. /\ opening[n] = "fetching" /\ opening' = [opening EXCEPT ![n] = "done"]
        /\ UNCHANGED <<spectating, watch, current, closing, row>>
        /\ stash' = [stash EXCEPT ![v] = n] \/ stash' = stash
    BY <1>3 DEF SessionStashed, vars
  <2>2. n \in 1..Len(watch) /\ row[n] # "none"
    BY <1>0, <2>1 DEF Inserted
  <2>3. v \in Sessions
    BY <1>0, <2>2, IdsName
  <2>4. Begun(watch, v, n)
    BY <2>2 DEF Begun
  <2> HIDE DEF v
  <2>5. \A s \in Sessions : stash'[s] = stash[s] \/ (s = v /\ stash'[s] = n)
    BY <1>0, <2>1 DEF HTypeOK
  <2>6. HTypeOK'
    <3>1. opening' \in [Watches -> {"idle", "inserting", "fetching", "done"}]
      BY <1>0, <2>1 DEF HTypeOK
    <3>2. stash \in [Sessions -> 0..MaxSpectates] /\ n \in 0..MaxSpectates
      BY <1>0 DEF HTypeOK, Watches
    <3>3. stash' \in [Sessions -> 0..MaxSpectates]
      BY <2>1, <2>3, <3>2
    <3>4. \A s \in Sessions : stash'[s] # 0 => row[stash'[s]] # "none"
      BY <1>0, <2>2, <2>5 DEF HTypeOK
    <3>5. QED
      BY <1>0, <2>1, <3>1, <3>3, <3>4 DEF HTypeOK
  <2>7. Stashed'
    BY <1>0, <2>1, <2>4, <2>5 DEF Stashed
  <2>8. Current' /\ Targets'
    BY <1>0, <2>1 DEF Current, Targets
  <2>9. Inserted' /\ OngoingRowStaysOpen'
    BY <1>0, <2>1 DEF Inserted, OngoingRowStaysOpen, HTypeOK
  <2>10. QED
    BY <1>1, <2>6, <2>7, <2>8, <2>9 DEF HistoryInd
<1>4. ASSUME NEW c \in closing, SessionClosed(c) PROVE HistoryInd'
  <2>1. /\ UNCHANGED <<spectating, stash, watch, current, opening>>
        /\ closing' = closing \ {c}
        /\ \/ row' = [row EXCEPT ![c.row] = IF @ = "open" THEN "ended" ELSE @]
           \/ row' = row
    BY <1>4 DEF SessionClosed, vars
  <2>2. c.row \in Watches /\ c.viewer \in Sessions
    BY <1>0 DEF HTypeOK
  <2>3. \A n \in Watches :
          /\ row'[n] \in {"none", "open", "ended"}
          /\ row'[n] = "none" <=> row[n] = "none"
          /\ row'[n] = "ended" => row[n] = "ended" \/ n = c.row
    BY <1>0, <2>1, <2>2 DEF HTypeOK
  <2>4. HTypeOK'
    <3>1. row' \in [Watches -> {"none", "open", "ended"}]
      BY <1>0, <2>1, <2>2 DEF HTypeOK
    <3>2. \A s \in Sessions : stash[s] # 0 => row'[stash[s]] # "none"
      BY <1>0, <2>3, IdsName DEF HTypeOK
    <3>3. QED
      BY <1>0, <2>1, <3>1, <3>2 DEF HTypeOK
  <2>5. Stashed' /\ Current' /\ Targets'
    BY <1>0, <2>1 DEF Stashed, Current, Targets
  <2>6. Inserted'
    BY <1>0, <2>1, <2>3 DEF Inserted
  <2>7. OngoingRowStaysOpen'
    <3> SUFFICES ASSUME NEW s \in Sessions, current[s] # 0 PROVE row'[current[s]] # "ended"
      BY <2>1 DEF OngoingRowStaysOpen
    <3>1. current[s] \in Watches /\ Begun(watch, s, current[s])
      BY <1>0, IdsName DEF Current
    <3>2. current[s] # c.row
      BY <1>0, <3>1 DEF Targets, Begun
    <3>3. QED
      BY <1>0, <2>3, <3>1, <3>2 DEF OngoingRowStaysOpen
  <2>8. QED
    BY <1>1, <2>4, <2>5, <2>6, <2>7 DEF HistoryInd
<1>5. QED
  BY <1>2, <1>3, <1>4

-----------------------------------------------------------------------------
\* Writing the history down changes nothing about who watches whom: each step
\* is one of Spectating's or leaves its variables alone.
LEMMA HistoryFollows == HSpec => Spec
<1>1. HInit => Init
  BY DEF HInit
<1>2. [HNext]_hvars => [Next]_vars
  BY DEF HNext, Connect, Stop, Start, SessionInserted, SessionStashed, SessionClosed,
     hvars, Next
<1>3. QED
  BY <1>1, <1>2, PTL DEF HSpec, Spec

\* The spectator relation is sound in every behaviour with the tasks that
\* write the history.
THEOREM WatchInvariantWithHistory == HSpec => []WatchInv
  BY HistoryFollows, WatchInvariant, PTL

\* So is the refinement: with the history behind it, spectating still keeps the
\* promise of Watching (add_spectator, remove_spectator, logout).
THEOREM PromiseKeptWithHistory == HSpec => KeepsPromise
  BY HistoryFollows, PromiseKept, PTL

\* The row of a spectate still going on is not stamped ended and an id on a
\* Player object is that of a row (persist_spectator_started,
\* persist_spectator_ended), for any number of players and spectates, however
\* late the inserts, the read-backs and the closes land and whichever of them
\* fail.
THEOREM HistoryInvariant == HSpec => []HistoryInv
<1>1. HInit => HistoryInd
  <2> SUFFICES ASSUME HInit PROVE HistoryInd
    OBVIOUS
  <2>1. TypeOK
    BY DEF HInit, Init, TypeOK
  <2>2. HTypeOK
    BY HistoryAssumption DEF HInit, HTypeOK
  <2>3. Stashed /\ Current /\ Targets /\ Inserted /\ OngoingRowStaysOpen
    BY DEF HInit, Init, Stashed, Current, Targets, Inserted, OngoingRowStaysOpen
  <2>4. QED
    BY <2>1, <2>2, <2>3 DEF HistoryInd
<1>2. HistoryInd /\ TypeOK' /\ [HNext]_hvars => HistoryInd'
  <2> SUFFICES ASSUME HistoryInd, TypeOK', [HNext]_hvars PROVE HistoryInd'
    OBVIOUS
  <2>0. TypeOK
    BY DEF HistoryInd
  <2>1. ASSUME NEW s \in Sessions, Connect(s) PROVE HistoryInd'
    BY <2>1 DEF Connect, Login, HistoryInd, HTypeOK, Stashed, Current, Targets, Inserted,
       OngoingRowStaysOpen
  <2>2. ASSUME NEW s \in Sessions, Stop(s) PROVE HistoryInd'
    <3>1. spectating' = [spectating EXCEPT ![s] = None]
      <4>1. CASE StopSpectating(s)
        BY <4>1 DEF StopSpectating, Becomes, Removed, Relation
      <4>2. CASE Logout(s)
        BY <4>2, <2>0, LeftPointer DEF Logout, Becomes, LeaveChannels, WithChannels
      <4>3. QED
        BY <2>2, <4>1, <4>2 DEF Stop
    <3>2. /\ persist_ended(s) /\ row' = row
          /\ current' = [current EXCEPT ![s] = 0] /\ UNCHANGED <<watch, opening>>
      BY <2>2 DEF Stop
    <3>3. QED
      BY <3>1, <3>2, HandlerKeeps
  <2>3. ASSUME NEW s \in Sessions, NEW h \in Sessions, Start(s, h) PROVE HistoryInd'
    <3>1. \/ spectating' = [spectating EXCEPT ![s] = h]
          \/ spectating' = [spectating EXCEPT ![s] = None]
      BY <2>0, <2>3, AddedPointer DEF Start, StartSpectating, Becomes
    <3>2. CASE spectating'[s] = h
      <4>1. spectating' = [spectating EXCEPT ![s] = h]
        BY <2>0, <3>1, <3>2, SpectatingAssumption DEF TypeOK
      <4>2. persist_started(s, h) /\ persist_ended(s) /\ row' = row
        BY <2>3, <3>2 DEF Start
      <4>3. QED
        BY <4>1, <4>2, HandlerKeeps
    <3>3. CASE spectating'[s] # h
      <4>1. spectating' = [spectating EXCEPT ![s] = None]
        BY <2>0, <3>1, <3>3 DEF TypeOK
      <4>2. /\ persist_ended(s) /\ row' = row
            /\ current' = [current EXCEPT ![s] = 0] /\ UNCHANGED <<watch, opening>>
        BY <2>3, <3>3 DEF Start
      <4>3. QED
        BY <4>1, <4>2, HandlerKeeps
    <3>4. QED
      BY <3>2, <3>3
  <2>4. CASE \/ \E n \in Watches : SessionInserted(n) \/ SessionStashed(n)
             \/ \E c \in closing : SessionClosed(c)
    BY <2>4, TaskKeeps DEF SessionInserted, SessionStashed, SessionClosed
  <2>5. CASE UNCHANGED hvars
    BY <2>5 DEF hvars, vars, HistoryInd, TypeOK, HTypeOK, Stashed, Current, Targets, Inserted,
       OngoingRowStaysOpen
  <2>6. QED
    BY <2>1, <2>2, <2>3, <2>4, <2>5 DEF HNext
<1>3. HistoryInd => HistoryInv
  BY DEF HistoryInd, HistoryInv
<1>4. QED
  BY <1>1, <1>2, <1>3, HistoryFollows, SpectatingTyped, PTL DEF HSpec

=============================================================================
