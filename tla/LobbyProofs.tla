----------------------------- MODULE LobbyProofs -----------------------------
(***************************************************************************)
(* Proofs about Lobby, for every number of players, matches and slots and  *)
(* every choice of Managers, Donators and Lagging.                         *)
(***************************************************************************)
EXTENDS Lobby, TLAPS

-----------------------------------------------------------------------------
(* What the operations do to the slots of one match.                       *)

Slots == [Matches -> [SlotIds -> Slot]]

\* Slot.reset in leave_match yields a slot again.
LEMMA VacatedTyped ==
  ASSUME NEW s \in Slot PROVE VacatedSlot(s) \in Slot
BY DEF VacatedSlot, Slot, SlotStatus

\* So does a change of its status.
LEMMA StatusTyped ==
  ASSUME NEW s \in Slot, NEW st \in SlotStatus
  PROVE  [s EXCEPT !.status = st] \in Slot
BY DEF Slot

\* Leaving keeps the slots well formed.
LEMMA VacateTyped ==
  ASSUME slots \in Slots, NEW p \in Players, NEW m \in Matches, Vacate(p, m)
  PROVE  slots' \in Slots
BY VacatedTyped DEF Slots, Vacate

\* So does joining.
LEMMA JoinTyped ==
  ASSUME slots \in Slots, NEW p \in Players, NEW m \in Matches, JoinMatch(p, m)
  PROVE  slots' \in Slots
<1>1. [player |-> p, status |-> "taken"] \in Slot
  BY DEF Slot, SlotStatus
<1>2. QED
  BY <1>1 DEF Slots, JoinMatch

\* Starting a game changes statuses only.
LEMMA StartTyped ==
  ASSUME slots \in Slots, NEW m \in Matches, Start(m)
  PROVE  slots' \in Slots
<1>1. ASSUME NEW s \in Slot PROVE [s EXCEPT !.status = "taken"] \in Slot
  BY StatusTyped DEF SlotStatus
<1>2. QED
  BY <1>1 DEF Slots, Start

-----------------------------------------------------------------------------
(* What leaving channels does to the chats, raising or not.                *)

\* p leaves the chats of C and nothing happens to any other chat.
ChatsLeft(p, C) ==
  chat' = [n \in Matches |-> IF n \in C THEN chat[n] \ {p} ELSE chat[n]]

ChatTypes ==
  /\ chat' \in [Matches -> SUBSET Players]
  /\ unlisted' \subseteq Matches
  /\ clinging' \subseteq Players

\* Leaving channels keeps the types.
LEMMA ChatsTyped ==
  ASSUME TypeOK, NEW p \in Players, NEW ms \in SUBSET Matches, LeaveChats(p, ms),
         clinging' \in {clinging, clinging \cup {p}}
  PROVE  ChatTypes /\ ChatsLeft(p, ms)
<1>1. unlisted' \subseteq Matches /\ clinging' \subseteq Players
  BY DEF TypeOK, LeaveChats
<1>2. ChatsLeft(p, ms)
  BY DEF LeaveChats, ChatsLeft
<1>3. chat' \in [Matches -> SUBSET Players]
  BY <1>2 DEF TypeOK, ChatsLeft
<1>4. QED
  BY <1>1, <1>2, <1>3 DEF ChatTypes

\* leave_match leaves the chat of m, and so does the one that raises there.
LEMMA LeaveChatTyped ==
  ASSUME TypeOK, NEW p \in Players, NEW m \in Matches,
         \/ LeaveChats(p, {m}) /\ UNCHANGED clinging
         \/ LeaveChatsRaises(p, {}, m)
  PROVE  ChatTypes /\ ChatsLeft(p, {m})
<1>1. LeaveChats(p, {m}) /\ clinging' \in {clinging, clinging \cup {p}}
  BY DEF LeaveChatsRaises
<1>2. QED
  BY <1>1, ChatsTyped

\* The end of logout leaves the chats left before, and more, when it raises too.
LEMMA DisconnectTyped ==
  ASSUME TypeOK, NEW p \in Players, NEW left \in SUBSET Matches,
         Disconnect(p) \/ DisconnectRaises(p, left)
  PROVE  /\ ChatTypes
         /\ \E C \in SUBSET Matches : left \subseteq C /\ ChatsLeft(p, C)
         /\ online' \subseteq Players /\ stale' \subseteq Players
<1>1. CASE Disconnect(p)
  <2>1. ChatTypes /\ ChatsLeft(p, Matches)
    BY <1>1, ChatsTyped DEF Disconnect
  <2>2. QED
    BY <1>1, <2>1 DEF Disconnect, TypeOK
<1>2. CASE DisconnectRaises(p, left)
  <2>1. PICK m \in Matches, ms \in SUBSET Matches :
          left \subseteq ms /\ LeaveChatsRaises(p, ms, m)
    BY <1>2 DEF DisconnectRaises
  <2>2. LeaveChats(p, ms \cup {m}) /\ clinging' = clinging \cup {p}
    BY <2>1 DEF LeaveChatsRaises
  <2>3. ChatTypes /\ ChatsLeft(p, ms \cup {m})
    BY <2>2, ChatsTyped
  <2>4. online' = online /\ stale' = stale
    BY <1>2 DEF DisconnectRaises
  <2>5. left \subseteq ms \cup {m} /\ ms \cup {m} \in SUBSET Matches
    BY <2>1
  <2>6. QED
    BY <2>3, <2>4, <2>5 DEF TypeOK
<1>3. QED
  BY <1>1, <1>2

-----------------------------------------------------------------------------
\* Every step of the lobby keeps the types, and a listed match keeps a player
\* as its host: MatchTransferHost, !mp host and the hand-over in leave_match
\* only ever name somebody who sits in a slot.
THEOREM LobbyTyped == Spec => []TypeOK
<1>1. Init => TypeOK
  BY LobbyAssumption DEF Init, TypeOK, Slot, SlotStatus, EmptySlot, Live
<1>2. TypeOK /\ [Next]_vars => TypeOK'
  <2> SUFFICES ASSUME TypeOK, [Next]_vars PROVE TypeOK'
    OBVIOUS
  <2> USE LobbyAssumption DEF TypeOK
  <2>0. slots \in Slots
    BY DEF Slots
  <2>1. ASSUME NEW p \in Players, Session(p) PROVE TypeOK'
    <3>1. CASE Login(p)
      BY <3>1 DEF Login, rosterVars, Live
    <3>2. CASE Logout(p)
      <4>1. CASE /\ match[p] = None /\ UNCHANGED <<match, matches, rosterVars>>
                 /\ Disconnect(p) \/ DisconnectRaises(p, {})
        <5>1. {} \in SUBSET Matches
          OBVIOUS
        <5>2. ChatTypes /\ online' \subseteq Players /\ stale' \subseteq Players
          BY <4>1, <5>1, DisconnectTyped
        <5>3. QED
          BY <3>2, <4>1, <5>2 DEF Logout, ChatTypes, rosterVars, Live
      <4>2. ASSUME NEW m \in Matches, LeaveLast(p, m) \/ LeaveOthers(p, m),
                   Disconnect(p) \/ DisconnectRaises(p, {m})
            PROVE  TypeOK'
        <5>1. slots' \in Slots
          BY <2>0, <4>2, VacateTyped DEF LeaveLast, LeaveOthers
        <5>2. ChatTypes /\ online' \subseteq Players /\ stale' \subseteq Players
          <6>1. {m} \in SUBSET Matches
            OBVIOUS
          <6>2. QED
            BY <4>2, <6>1, DisconnectTyped
        <5>3. tourney_clients' = tourney_clients
          BY <3>2 DEF Logout
        <5>4. CASE LeaveLast(p, m)
          BY <5>1, <5>2, <5>3, <5>4 DEF LeaveLast, ChatTypes, Live, Slots
        <5>5. CASE LeaveOthers(p, m)
          <6>1. /\ host_id' \in [Matches -> Players \cup {None}]
                /\ \A n \in Matches : host_id[n] \in Players => host_id'[n] \in Players
            BY <5>5 DEF LeaveOthers
          <6>2. QED
            BY <5>1, <5>2, <5>3, <5>5, <6>1 DEF LeaveOthers, ChatTypes, Live, Slots
        <5>6. QED
          BY <4>2, <5>4, <5>5
      <4>3. ASSUME NEW m \in Matches,
                   \/ LeaveRaises(p, m) /\ LeaveChats(p, {m}) /\ UNCHANGED clinging
                   \/ LeaveBreaks(p, m),
                   UNCHANGED <<online, stale>>
            PROVE  TypeOK'
        <5>1. slots' \in Slots
          BY <2>0, <4>3, VacateTyped DEF LeaveRaises, LeaveBreaks
        <5>2. ChatTypes
          BY <4>3, LeaveChatTyped DEF LeaveBreaks
        <5>3. /\ host_id' \in [Matches -> Players \cup {None}]
              /\ \A n \in Matches : host_id[n] \in Players => host_id'[n] \in Players
          <6>1. CASE LeaveRaises(p, m)
            BY <6>1 DEF LeaveRaises
          <6>2. CASE LeaveBreaks(p, m)
            BY <6>2 DEF LeaveBreaks
          <6>3. QED
            BY <4>3, <6>1, <6>2
        <5>4. UNCHANGED <<match, matches, referees, starting, tourney_clients>>
          BY <3>2, <4>3 DEF Logout, LeaveRaises, LeaveBreaks
        <5>5. QED
          BY <4>3, <5>1, <5>2, <5>3, <5>4 DEF ChatTypes, Live, Slots
      <4>4. QED
        BY <3>2, <4>1, <4>2, <4>3 DEF Logout
    <3>3. CASE RequestEnds(p)
      BY <3>3 DEF RequestEnds, rosterVars, Live
    <3>4. QED
      BY <2>1, <3>1, <3>2, <3>3 DEF Session
  <2>2. ASSUME NEW p \in Players, Packet(p) PROVE TypeOK'
    <3>1. CASE MatchCreate(p)
      BY <3>1 DEF MatchCreate, EmptySlot, Live, Slot, SlotStatus
    <3>2. ASSUME NEW m \in Matches, MatchJoin(p, m) PROVE TypeOK'
      <4>1. slots' \in Slots
        BY <2>0, <3>2, JoinTyped DEF MatchJoin
      <4>2. QED
        BY <3>2, <4>1 DEF MatchJoin, JoinMatch, Live, Slots
    <3>3. ASSUME NEW m \in Matches, MatchPart(p, m) PROVE TypeOK'
      <4>1. slots' \in Slots
        BY <2>0, <3>3, VacateTyped
        DEF MatchPart, LeaveMatch, LeaveLast, LeaveOthers, LeaveRaises, LeaveBreaks
      <4>2. ChatTypes /\ UNCHANGED <<online, stale, tourney_clients>>
        BY <3>3, LeaveChatTyped DEF MatchPart, LeaveBreaks
      <4>3. CASE LeaveLast(p, m)
        BY <4>1, <4>2, <4>3 DEF LeaveLast, ChatTypes, Live, Slots
      <4>4. CASE LeaveOthers(p, m)
        BY <4>1, <4>2, <4>4 DEF LeaveOthers, ChatTypes, Live, Slots
      <4>5. CASE LeaveRaises(p, m)
        <5>1. /\ host_id' \in [Matches -> Players \cup {None}]
              /\ \A n \in Matches : host_id[n] \in Players => host_id'[n] \in Players
          BY <4>5 DEF LeaveRaises
        <5>2. QED
          BY <4>1, <4>2, <4>5, <5>1 DEF LeaveRaises, ChatTypes, Live, Slots
      <4>6. CASE LeaveBreaks(p, m)
        BY <4>1, <4>2, <4>6 DEF LeaveBreaks, ChatTypes, Live, Slots
      <4>7. QED
        BY <3>3, <4>3, <4>4, <4>5, <4>6 DEF MatchPart, LeaveMatch
    <3>4. ASSUME NEW m \in Matches, SetStatus(p, m) PROVE TypeOK'
      <4>1. PICK s \in SlotIds : slots' = [slots EXCEPT ![m][s].status = "taken"]
        BY <3>4 DEF SetStatus
      <4>2. [slots[m][s] EXCEPT !.status = "taken"] \in Slot
        <5>1. slots[m][s] \in Slot /\ "taken" \in SlotStatus
          BY <2>0 DEF Slots, SlotStatus
        <5>2. QED
          BY <5>1, StatusTyped
      <4>3. slots' \in Slots
        <5>1. slots' = [slots EXCEPT ![m] =
                 [slots[m] EXCEPT ![s] = [slots[m][s] EXCEPT !.status = "taken"]]]
          BY <4>1
        <5>2. QED
          BY <2>0, <4>2, <5>1 DEF Slots
      <4>4. QED
        BY <3>4, <4>3 DEF SetStatus, Live, Slots
    <3>5. ASSUME NEW m \in Matches, MatchStart(p, m) PROVE TypeOK'
      <4>1. slots' \in Slots
        BY <2>0, <3>5, StartTyped DEF MatchStart
      <4>2. QED
        BY <3>5, <4>1 DEF MatchStart, Live, Slots
    <3>6. ASSUME NEW m \in Matches,
                 TourneyJoinChannel(p, m) \/ TourneyLeaveChannel(p, m)
          PROVE  TypeOK'
      <4>1. CASE TourneyJoinChannel(p, m)
        BY <4>1 DEF TourneyJoinChannel, rosterVars, Live
      <4>2. CASE TourneyLeaveChannel(p, m)
        <5>1. ChatTypes
          BY <4>2, LeaveChatTyped DEF TourneyLeaveChannel
        <5>2. QED
          BY <4>2, <5>1 DEF TourneyLeaveChannel, ChatTypes, rosterVars, Live
      <4>3. QED
        BY <3>6, <4>1, <4>2
    <3>7. ASSUME NEW m \in Matches, NEW i \in SlotIds, MatchChangeSlot(p, m, i)
          PROVE  TypeOK'
      <4>1. EmptySlot \in Slot
        BY DEF EmptySlot, Slot, SlotStatus
      <4>2. slots' \in Slots
        BY <2>0, <3>7, <4>1 DEF MatchChangeSlot, Slots
      <4>3. QED
        BY <3>7, <4>2 DEF MatchChangeSlot, Live, Slots
    <3>8. ASSUME NEW m \in Matches, NEW i \in SlotIds, MatchLock(p, m, i)
          PROVE  TypeOK'
      <4>1. \A st \in SlotStatus : [slots[m][i] EXCEPT !.status = st] \in Slot
        BY <2>0, StatusTyped DEF Slots
      <4>2. slots' = [slots EXCEPT ![m][i].status = "open"]
            \/ slots' = [slots EXCEPT ![m][i].status = "locked"]
        BY <3>8 DEF MatchLock
      <4>3. slots' \in Slots
        <5>1. PICK st \in SlotStatus :
                slots' = [slots EXCEPT ![m] =
                  [slots[m] EXCEPT ![i] = [slots[m][i] EXCEPT !.status = st]]]
          BY <4>2 DEF SlotStatus
        <5>2. QED
          BY <2>0, <4>1, <5>1 DEF Slots
      <4>4. QED
        BY <3>8, <4>3 DEF MatchLock, Live, Slots
    <3>9. ASSUME NEW m \in Matches, NEW i \in SlotIds, MatchTransferHost(p, m, i)
          PROVE  TypeOK'
      <4>1. slots[m][i].player \in Players
        BY <3>9 DEF MatchTransferHost, Slot
      <4>2. QED
        BY <3>9, <4>1 DEF MatchTransferHost, Live
    <3>10. QED
      BY <2>2, <3>1, <3>2, <3>3, <3>4, <3>5, <3>6, <3>7, <3>8, <3>9 DEF Packet
  <2>3. ASSUME NEW p \in Players, Command(p) PROVE TypeOK'
    <3> PICK m \in Matches :
          \/ mp_lock(p, m) \/ mp_unlock(p, m)
          \/ mp_start_timer(p, m) \/ mp_start_cancel(p, m)
          \/ \E t \in Players : \/ mp_host(p, m, t) \/ mp_addref(p, m, t)
                                \/ mp_rmref(p, m, t) \/ mp_force(p, t, m)
      BY <2>3 DEF Command
    <3>1. ASSUME NEW from \in SlotStatus, NEW to \in SlotStatus,
                 SetAllSlots(p, m, from, to)
          PROVE  TypeOK'
      <4>1. \A s \in Slot : [s EXCEPT !.status = to] \in Slot
        BY StatusTyped
      <4>2. slots' \in Slots
        BY <2>0, <3>1, <4>1 DEF SetAllSlots, Slots
      <4>3. QED
        BY <3>1, <4>2 DEF SetAllSlots, Live, Slots
    <3>2. CASE mp_start_timer(p, m) \/ mp_start_cancel(p, m)
      BY <3>2 DEF mp_start_timer, mp_start_cancel, Live
    <3>3. ASSUME NEW t \in Players, mp_host(p, m, t) PROVE TypeOK'
      BY <3>3 DEF mp_host, Live
    <3>4. ASSUME NEW t \in Players, mp_addref(p, m, t) \/ mp_rmref(p, m, t)
          PROVE  TypeOK'
      <4>1. referees' \in [Matches -> SUBSET Players]
        BY <3>4 DEF mp_addref, mp_rmref
      <4>2. QED
        BY <3>4, <4>1 DEF mp_addref, mp_rmref, Live
    <3>5. ASSUME NEW t \in Players, mp_force(p, t, m) PROVE TypeOK'
      <4>1. slots' \in Slots
        BY <2>0, <3>5, JoinTyped DEF mp_force
      <4>2. QED
        BY <3>5, <4>1 DEF mp_force, JoinMatch, Live, Slots
    <3>6. CASE mp_lock(p, m) \/ mp_unlock(p, m)
      BY <3>1, <3>6 DEF mp_lock, mp_unlock, SlotStatus
    <3>7. QED
      BY <3>2, <3>3, <3>4, <3>5, <3>6
  <2>4. ASSUME NEW m \in Matches, TimerFires(m) PROVE TypeOK'
    <3>1. slots' \in Slots
      BY <2>0, <2>4, StartTyped DEF TimerFires
    <3>2. QED
      BY <2>4, <3>1 DEF TimerFires, Live, Slots
  <2>5. CASE UNCHANGED vars
    BY <2>5 DEF vars, Live
  <2>6. QED
    BY <2>1, <2>2, <2>3, <2>4, <2>5 DEF Next
<1>3. QED
  BY <1>1, <1>2, PTL DEF Spec

-----------------------------------------------------------------------------
(* The roster invariant.  Its four parts need each other: joining keeps    *)
(* seats exclusive because a player without a match has no seat, a tourney *)
(* client who leaves the chat is not seated because tourney clients do not *)
(* play, and so on.                                                        *)

\* No step in which this holds seats anybody.
SeatsOnlyLost ==
  \A q \in Players, n \in Matches, j \in SlotIds : Sits(q, n, j)' => Sits(q, n, j)

\* A step that seats nobody and leaves the other parts of the roster alone
\* keeps the invariant.
LEMMA Quiet ==
  ASSUME RosterInv, SeatsOnlyLost,
         UNCHANGED <<match, matches, chat, tourney_clients, referees>>
  PROVE  RosterInv'
BY DEF RosterInv, SeatsOnlyLost, SeatsExclusive, ChatFollowsRoster,
       TourneyClientsDoNotPlay, RefereesAreMembers, Seated, Live

\* A step that leaves slots, memberships and the match list alone keeps it if
\* it keeps the chats in step and adds only seated players to the referees.
LEMMA SlotsUntouched ==
  ASSUME RosterInv, UNCHANGED <<slots, match, matches>>,
         \A q \in Players, n \in Matches :
           /\ Seated(q, n) => q \in chat'[n] /\ q \notin tourney_clients'[n]
           /\ q \in chat'[n] => match[q] = n \/ q \in tourney_clients'[n],
         \A n \in Matches : \A q \in referees'[n] :
           q \in referees[n] \/ (q \in Players /\ Seated(q, n))
  PROVE  RosterInv'
<1>1. \A q \in Players, n \in Matches : Seated(q, n)' <=> Seated(q, n)
  BY DEF Seated, Sits
<1>2. SeatsExclusive'
  BY DEF RosterInv, SeatsExclusive, Sits
<1>3. ChatFollowsRoster' /\ TourneyClientsDoNotPlay'
  BY <1>1 DEF ChatFollowsRoster, TourneyClientsDoNotPlay
<1>4. RefereesAreMembers'
  BY DEF RosterInv, RefereesAreMembers, SeatsExclusive, Seated, Live
<1>5. QED
  BY <1>2, <1>3, <1>4 DEF RosterInv

\* Vacate takes p's seat and no other.
LEMMA VacateSeats ==
  ASSUME TypeOK, NEW p \in Players, NEW m \in Matches, Vacate(p, m)
  PROVE  /\ SeatsOnlyLost
         /\ \A j \in SlotIds : ~Sits(p, m, j)'
<1> USE LobbyAssumption
<1>1. ASSUME NEW n \in Matches, NEW j \in SlotIds
      PROVE  slots'[n][j].player =
               IF n = m /\ Sits(p, m, j) THEN None ELSE slots[n][j].player
  BY DEF TypeOK, Vacate, VacatedSlot
<1>2. QED
  BY <1>1 DEF SeatsOnlyLost, Sits

\* Match.start and the status handlers move nobody.
LEMMA StartSeats ==
  ASSUME TypeOK, NEW m \in Matches, Start(m)
  PROVE  SeatsOnlyLost
<1>1. ASSUME NEW n \in Matches, NEW j \in SlotIds
      PROVE  slots'[n][j].player = slots[n][j].player
  BY DEF TypeOK, Start, Slot
<1>2. QED
  BY <1>1 DEF SeatsOnlyLost, Sits

\* Changing one slot's status moves nobody.
LEMMA StatusSeats ==
  ASSUME TypeOK, NEW m \in Matches, NEW i \in SlotIds, NEW st \in SlotStatus,
         slots' = [slots EXCEPT ![m][i].status = st]
  PROVE  SeatsOnlyLost
<1>1. ASSUME NEW n \in Matches, NEW j \in SlotIds
      PROVE  slots'[n][j].player = slots[n][j].player
  BY DEF TypeOK, Slot
<1>2. QED
  BY <1>1 DEF SeatsOnlyLost, Sits

\* join_match seats p in one slot of m and nobody anywhere else.
LEMMA JoinSeats ==
  ASSUME TypeOK, NEW p \in Players, NEW m \in Matches, JoinMatch(p, m)
  PROVE  \E i \in SlotIds : \A q \in Players, n \in Matches, j \in SlotIds :
           Sits(q, n, j)' => Sits(q, n, j) \/ (q = p /\ n = m /\ j = i)
<1>1. PICK i \in SlotIds :
        slots' = [slots EXCEPT ![m][i] = [player |-> p, status |-> "taken"]]
  BY DEF JoinMatch
<1>2. ASSUME NEW n \in Matches, NEW j \in SlotIds
      PROVE  slots'[n][j].player =
               IF n = m /\ j = i THEN p ELSE slots[n][j].player
  BY <1>1 DEF TypeOK
<1>3. WITNESS i \in SlotIds
<1>4. QED
  BY <1>2 DEF Sits

\* Joining, by MATCH_JOIN or by !mp force, keeps the roster invariant.
LEMMA JoinKeeps ==
  ASSUME TypeOK, RosterInv, NEW p \in Players, NEW m \in Matches,
         JoinMatch(p, m), UNCHANGED <<matches, tourney_clients, referees>>
  PROVE  RosterInv'
<1> USE LobbyAssumption
<1>1. PICK i \in SlotIds : \A q \in Players, n \in Matches, j \in SlotIds :
        Sits(q, n, j)' => Sits(q, n, j) \/ (q = p /\ n = m /\ j = i)
  BY JoinSeats
<1>2. /\ match[p] = None
      /\ \A q \in Players : match'[q] = IF q = p THEN m ELSE match[q]
      /\ \A n \in Matches : chat'[n] = IF n = m THEN chat[n] \cup {p} ELSE chat[n]
      /\ p \notin tourney_clients[m]
  BY DEF JoinMatch, TypeOK
<1>3. \A n \in Matches, j \in SlotIds : ~Sits(p, n, j)
  BY <1>2 DEF RosterInv, SeatsExclusive
<1>4. SeatsExclusive'
  <2>1. ASSUME NEW q \in Players, NEW n \in Matches, NEW j \in SlotIds,
               Sits(q, n, j)'
        PROVE  match'[q] = n
    <3>1. CASE Sits(q, n, j)
      <4>1. q # p /\ match[q] = n
        BY <1>3, <3>1 DEF RosterInv, SeatsExclusive
      <4>2. QED
        BY <1>2, <4>1
    <3>2. QED
      BY <1>1, <1>2, <2>1, <3>1
  <2>2. ASSUME NEW q \in Players, NEW n \in Matches, NEW j \in SlotIds,
               Sits(q, n, j)', NEW l \in SlotIds, Sits(q, n, l)'
        PROVE  j = l
    <3>1. CASE q = p
      BY <1>1, <1>3, <2>2, <3>1
    <3>2. CASE q # p
      <4>1. Sits(q, n, j) /\ Sits(q, n, l)
        BY <1>1, <2>2, <3>2
      <4>2. QED
        BY <4>1 DEF RosterInv, SeatsExclusive
    <3>3. QED
      BY <3>1, <3>2
  <2>3. QED
    BY <2>1, <2>2 DEF SeatsExclusive
<1>5. ChatFollowsRoster'
  <2>1. ASSUME NEW q \in Players, NEW n \in Matches, Seated(q, n)'
        PROVE  q \in chat'[n]
    <3>1. Seated(q, n) \/ (q = p /\ n = m)
      BY <1>1, <2>1 DEF Seated
    <3>2. QED
      BY <1>2, <3>1 DEF RosterInv, ChatFollowsRoster
  <2>2. ASSUME NEW q \in Players, NEW n \in Matches, q \in chat'[n]
        PROVE  match'[q] = n \/ q \in tourney_clients'[n]
    <3>1. q \in chat[n] \/ (q = p /\ n = m)
      BY <1>2, <2>2
    <3>2. CASE q \in chat[n]
      BY <1>2, <3>2 DEF RosterInv, ChatFollowsRoster
    <3>3. QED
      BY <1>2, <3>1, <3>2
  <2>3. QED
    BY <2>1, <2>2 DEF ChatFollowsRoster
<1>6. TourneyClientsDoNotPlay'
  BY <1>1, <1>2 DEF RosterInv, TourneyClientsDoNotPlay, Seated
<1>7. RefereesAreMembers'
  <2>1. ASSUME NEW n \in Matches, Live(n), NEW q \in referees[n]
        PROVE  q # p /\ q \in Players /\ match[q] = n
    BY <1>2, <2>1 DEF RosterInv, RefereesAreMembers, TypeOK
  <2>2. QED
    BY <1>2, <2>1 DEF RefereesAreMembers, Live
<1>8. QED
  BY <1>4, <1>5, <1>6, <1>7 DEF RosterInv

\* Leaving keeps it, wherever leave_match stops, and whether the player leaves
\* the chat of m only (C = {m}), some others or all of them.
LEMMA LeaveKeeps ==
  ASSUME TypeOK, RosterInv, NEW p \in Players, NEW m \in Matches,
         LeaveMatch(p, m) \/ LeaveBreaks(p, m), UNCHANGED tourney_clients,
         NEW C \in SUBSET Matches, m \in C, ChatsLeft(p, C)
  PROVE  RosterInv'
<1> USE LobbyAssumption DEF ChatsLeft
<1>1. /\ SeatsOnlyLost
      /\ \A j \in SlotIds : ~Sits(p, m, j)'
  BY VacateSeats DEF LeaveMatch, LeaveLast, LeaveOthers, LeaveRaises, LeaveBreaks
<1>2. match[p] = m
  BY DEF LeaveMatch, LeaveLast, LeaveOthers, LeaveRaises, LeaveBreaks, Vacate
<1>3. \A q \in Players : match'[q] = match[q] \/ (q = p /\ match'[q] = None)
  BY DEF LeaveMatch, LeaveLast, LeaveOthers, LeaveRaises, LeaveBreaks, TypeOK
<1>4. \A n \in Matches, j \in SlotIds : ~Sits(p, n, j)'
  <2>1. ASSUME NEW n \in Matches, NEW j \in SlotIds, Sits(p, n, j)'
        PROVE  FALSE
    <3>1. Sits(p, n, j)
      BY <1>1, <2>1 DEF SeatsOnlyLost
    <3>2. n = m
      BY <1>2, <3>1 DEF RosterInv, SeatsExclusive
    <3>3. QED
      BY <1>1, <2>1, <3>2
  <2>2. QED
    BY <2>1
<1>5. SeatsExclusive'
  <2>1. ASSUME NEW q \in Players, NEW n \in Matches, NEW j \in SlotIds,
               Sits(q, n, j)'
        PROVE  Sits(q, n, j) /\ match'[q] = n
    <3>1. Sits(q, n, j) /\ q # p
      BY <1>1, <1>4, <2>1 DEF SeatsOnlyLost
    <3>2. match[q] = n
      BY <3>1 DEF RosterInv, SeatsExclusive
    <3>3. QED
      BY <1>3, <3>1, <3>2
  <2>2. QED
    BY <2>1 DEF RosterInv, SeatsExclusive
<1>6. ChatFollowsRoster'
  <2>1. ASSUME NEW q \in Players, NEW n \in Matches, Seated(q, n)'
        PROVE  q \in chat'[n]
    BY <1>1, <1>4, <2>1 DEF RosterInv, ChatFollowsRoster, SeatsOnlyLost, Seated
  <2>2. ASSUME NEW q \in Players, NEW n \in Matches, q \in chat'[n]
        PROVE  match'[q] = n \/ q \in tourney_clients'[n]
    <3>1. q \in chat[n] /\ (q = p => n # m)
      BY <2>2
    <3>2. match[q] = n \/ q \in tourney_clients[n]
      BY <3>1 DEF RosterInv, ChatFollowsRoster
    <3>3. QED
      BY <1>2, <1>3, <3>1, <3>2
  <2>3. QED
    BY <2>1, <2>2 DEF ChatFollowsRoster
<1>7. TourneyClientsDoNotPlay'
  BY <1>1 DEF RosterInv, TourneyClientsDoNotPlay, SeatsOnlyLost, Seated
<1>8. RefereesAreMembers'
  <2>1. CASE LeaveLast(p, m)
    <3>1. \A n \in Matches : Live(n)' => n # m /\ Live(n)
      BY <2>1 DEF LeaveLast, Live
    <3>2. QED
      BY <1>2, <1>3, <2>1, <3>1 DEF RosterInv, RefereesAreMembers, LeaveLast, TypeOK
  <2>2. CASE LeaveOthers(p, m)
    <3>1. \A n \in Matches : referees'[n] = IF n = m THEN referees[n] \ {p}
                                            ELSE referees[n]
      BY <2>2 DEF LeaveOthers, TypeOK
    <3>2. \A n \in Matches : Live(n)' => Live(n)
      BY <2>2 DEF LeaveOthers, Live
    <3>3. QED
      <4>1. SUFFICES ASSUME NEW n \in Matches, Live(n)', NEW q \in referees'[n]
                     PROVE  match'[q] = n
        BY DEF RefereesAreMembers
      <4>2. q \in Players /\ q \in referees[n] /\ (n = m => q # p)
        <5>1. q \in referees[n] /\ (n = m => q # p)
          BY <3>1, <4>1
        <5>2. QED
          BY <5>1 DEF TypeOK
      <4>3. match[q] = n
        BY <3>2, <4>1, <4>2 DEF RosterInv, RefereesAreMembers
      <4>4. QED
        BY <1>2, <1>3, <4>2, <4>3
  <2>3. CASE LeaveRaises(p, m) \/ LeaveBreaks(p, m)
    BY <2>3 DEF RosterInv, RefereesAreMembers, LeaveRaises, LeaveBreaks, Live
  <2>4. QED
    BY <2>1, <2>2, <2>3 DEF LeaveMatch
<1>9. QED
  BY <1>5, <1>6, <1>7, <1>8 DEF RosterInv

\* Creating a lobby keeps it, also when the creator cannot be seated.
LEMMA CreateKeeps ==
  ASSUME TypeOK, RosterInv, NEW p \in Players, MatchCreate(p)
  PROVE  RosterInv'
<1> USE LobbyAssumption
<1>1. PICK k \in MatchIds, m \in Matches :
        /\ Unused(m)
        /\ \A n \in Matches : n # m => slots'[n] = slots[n]
        /\ \A j \in SlotIds : slots'[m][j].player =
             IF j = 0 /\ match[p] = None /\ p \in online THEN p ELSE None
        /\ \A n \in Matches : chat'[n] =
             IF n # m THEN chat[n]
             ELSE IF match[p] = None /\ p \in online THEN {p} ELSE {}
        /\ \A q \in Players : match'[q] =
             IF q = p /\ match[p] = None /\ p \in online THEN m ELSE match[q]
        /\ matches' = [matches EXCEPT ![k] = m]
        /\ \A n \in Matches : referees'[n] = IF n = m THEN {} ELSE referees[n]
        /\ \A n \in Matches :
             tourney_clients'[n] = IF n = m THEN {} ELSE tourney_clients[n]
  <2>1. PICK k \in MatchIds, m \in Matches : MatchCreate(p)!(k, m)
    BY DEF MatchCreate
  <2>2. WITNESS k \in MatchIds, m \in Matches
  <2>3. /\ Unused(m)
        /\ matches' = [matches EXCEPT ![k] = m]
    BY <2>1
  <2>4. /\ \A n \in Matches : n # m => slots'[n] = slots[n]
        /\ \A j \in SlotIds : slots'[m][j].player =
             IF j = 0 /\ match[p] = None /\ p \in online THEN p ELSE None
    BY <2>1 DEF TypeOK, EmptySlot
  <2>5. /\ \A n \in Matches : chat'[n] =
             IF n # m THEN chat[n]
             ELSE IF match[p] = None /\ p \in online THEN {p} ELSE {}
        /\ \A q \in Players : match'[q] =
             IF q = p /\ match[p] = None /\ p \in online THEN m ELSE match[q]
    BY <2>1 DEF TypeOK
  <2>6. /\ \A n \in Matches : referees'[n] = IF n = m THEN {} ELSE referees[n]
        /\ \A n \in Matches :
             tourney_clients'[n] = IF n = m THEN {} ELSE tourney_clients[n]
    BY <2>1 DEF TypeOK
  <2>7. QED
    BY <2>3, <2>4, <2>5, <2>6
<1>2. ASSUME NEW q \in Players, NEW n \in Matches, NEW j \in SlotIds, Sits(q, n, j)'
      PROVE  \/ n # m /\ Sits(q, n, j)
             \/ n = m /\ q = p /\ j = 0 /\ match[p] = None /\ p \in online
  BY <1>1, <1>2 DEF Sits
<1>3. SeatsExclusive'
  <2>1. ASSUME NEW q \in Players, NEW n \in Matches, NEW j \in SlotIds,
               Sits(q, n, j)'
        PROVE  match'[q] = n
    <3>1. CASE n = m /\ q = p /\ match[p] = None /\ p \in online
      BY <1>1, <3>1
    <3>2. CASE n # m /\ Sits(q, n, j)
      <4>1. match[q] = n /\ n # None
        BY <3>2 DEF RosterInv, SeatsExclusive
      <4>2. QED
        BY <1>1, <4>1
    <3>3. QED
      BY <1>2, <2>1, <3>1, <3>2
  <2>2. ASSUME NEW q \in Players, NEW n \in Matches, NEW j \in SlotIds,
               Sits(q, n, j)', NEW l \in SlotIds, Sits(q, n, l)'
        PROVE  j = l
    BY <1>2, <2>2 DEF RosterInv, SeatsExclusive
  <2>3. QED
    BY <2>1, <2>2 DEF SeatsExclusive
<1>4. ChatFollowsRoster'
  <2>1. ASSUME NEW q \in Players, NEW n \in Matches, Seated(q, n)'
        PROVE  q \in chat'[n]
    <3>1. PICK j \in SlotIds : Sits(q, n, j)'
      BY <2>1 DEF Seated
    <3>2. CASE n # m /\ Sits(q, n, j)
      <4>1. Seated(q, n)
        BY <3>2 DEF Seated
      <4>2. q \in chat[n]
        BY <4>1 DEF RosterInv, ChatFollowsRoster
      <4>3. QED
        BY <1>1, <3>2, <4>2
    <3>3. CASE n = m /\ q = p /\ j = 0 /\ match[p] = None /\ p \in online
      BY <1>1, <3>3
    <3>4. QED
      BY <1>2, <3>1, <3>2, <3>3
  <2>2. ASSUME NEW q \in Players, NEW n \in Matches, q \in chat'[n]
        PROVE  match'[q] = n \/ q \in tourney_clients'[n]
    BY <1>1, <2>2 DEF RosterInv, ChatFollowsRoster
  <2>3. QED
    BY <2>1, <2>2 DEF ChatFollowsRoster
<1>5. TourneyClientsDoNotPlay'
  BY <1>1, <1>2 DEF RosterInv, TourneyClientsDoNotPlay, Seated
<1>6. RefereesAreMembers'
  <2>1. \A n \in Matches : n # m => (Live(n)' => Live(n))
    BY <1>1 DEF Live, TypeOK
  <2>2. QED
    BY <1>1, <2>1 DEF RosterInv, RefereesAreMembers, TypeOK
<1>7. QED
  BY <1>3, <1>4, <1>5, <1>6 DEF RosterInv

\* Moving to another slot, or into one's own, keeps it.
LEMMA ChangeSlotKeeps ==
  ASSUME TypeOK, RosterInv, NEW p \in Players, NEW m \in Matches,
         NEW i \in SlotIds, MatchChangeSlot(p, m, i)
  PROVE  RosterInv'
<1> USE LobbyAssumption
<1>1. PICK s \in SlotIds :
        /\ Sits(p, m, s)
        /\ slots' = [slots EXCEPT ![m] = [@ EXCEPT ![i] = slots[m][s],
                                                   ![s] = EmptySlot]]
  BY DEF MatchChangeSlot
<1>2. ASSUME NEW n \in Matches, NEW j \in SlotIds
      PROVE  slots'[n][j].player =
               IF n = m /\ j = s THEN None
               ELSE IF n = m /\ j = i THEN p ELSE slots[n][j].player
  BY <1>1 DEF TypeOK, EmptySlot, Sits
<1>3. ASSUME NEW q \in Players, NEW n \in Matches, NEW j \in SlotIds, Sits(q, n, j)'
      PROVE  \/ q # p /\ Sits(q, n, j)
             \/ q = p /\ n = m /\ j = i
             \/ q = p /\ n # m /\ Sits(q, n, j)
  BY <1>1, <1>2, <1>3 DEF RosterInv, SeatsExclusive, Sits
<1>4. UNCHANGED <<match, matches, chat, tourney_clients, referees>>
  BY DEF MatchChangeSlot
<1>5. SeatsExclusive'
  BY <1>1, <1>3, <1>4 DEF RosterInv, SeatsExclusive, Sits
<1>6. ASSUME NEW q \in Players, NEW n \in Matches, Seated(q, n)'
      PROVE  Seated(q, n)
  BY <1>1, <1>3, <1>6 DEF Seated
<1>7. ChatFollowsRoster' /\ TourneyClientsDoNotPlay' /\ RefereesAreMembers'
  BY <1>4, <1>6 DEF RosterInv, ChatFollowsRoster, TourneyClientsDoNotPlay,
                    RefereesAreMembers, Live
<1>8. QED
  BY <1>5, <1>7 DEF RosterInv

\* Every reachable state has exclusive seats, a chat that follows the roster,
\* tourney clients who do not play and referees who are members, for any
\* number of players, matches and slots, although slots are overwritten,
\* sessions end under their requests and leave_match raises half way.
THEOREM RosterInvariant == Spec => [](TypeOK /\ RosterInv)
<1>1. Init => RosterInv
  BY LobbyAssumption
  DEF Init, RosterInv, SeatsExclusive, ChatFollowsRoster, EmptySlot,
      TourneyClientsDoNotPlay, RefereesAreMembers, Live, Seated, Sits
<1>2. TypeOK /\ RosterInv /\ [Next]_vars => RosterInv'
  <2> SUFFICES ASSUME TypeOK, RosterInv, [Next]_vars PROVE RosterInv'
    OBVIOUS
  <2> USE LobbyAssumption
  <2>1. ASSUME NEW p \in Players, Session(p) PROVE RosterInv'
    <3>1. CASE Login(p) \/ RequestEnds(p)
      <4>1. UNCHANGED slots /\ UNCHANGED <<match, matches, chat, tourney_clients, referees>>
        BY <3>1 DEF Login, RequestEnds, rosterVars
      <4>2. SeatsOnlyLost
        BY <4>1 DEF SeatsOnlyLost, Sits
      <4>3. QED
        BY <4>1, <4>2, Quiet
    <3>2. CASE Logout(p)
      <4>1. CASE /\ match[p] = None /\ UNCHANGED <<match, matches, rosterVars>>
                 /\ Disconnect(p) \/ DisconnectRaises(p, {})
        <5>1. PICK C \in SUBSET Matches : ChatsLeft(p, C)
          BY <4>1, DisconnectTyped
        <5>2. UNCHANGED <<slots, match, matches, tourney_clients, referees>>
          BY <3>2, <4>1 DEF Logout, rosterVars
        <5>3. \A n \in Matches : ~Seated(p, n)
          BY <4>1 DEF RosterInv, SeatsExclusive, Seated
        <5>4. \A q \in Players, n \in Matches :
                /\ Seated(q, n) => q \in chat'[n] /\ q \notin tourney_clients'[n]
                /\ q \in chat'[n] => match[q] = n \/ q \in tourney_clients'[n]
          BY <5>1, <5>2, <5>3
          DEF ChatsLeft, RosterInv, ChatFollowsRoster, TourneyClientsDoNotPlay
        <5>5. QED
          BY <5>2, <5>4, SlotsUntouched
      <4>2. ASSUME NEW m \in Matches, LeaveMatch(p, m),
                   Disconnect(p) \/ DisconnectRaises(p, {m})
            PROVE  RosterInv'
        <5>1. PICK C \in SUBSET Matches : m \in C /\ ChatsLeft(p, C)
          BY <4>2, DisconnectTyped
        <5>2. UNCHANGED tourney_clients
          BY <3>2 DEF Logout
        <5>3. QED
          BY <4>2, <5>1, <5>2, LeaveKeeps
      <4>3. ASSUME NEW m \in Matches,
                   \/ LeaveRaises(p, m) /\ LeaveChats(p, {m}) /\ UNCHANGED clinging
                   \/ LeaveBreaks(p, m)
            PROVE  RosterInv'
        <5>1. ChatsLeft(p, {m})
          BY <4>3, LeaveChatTyped DEF LeaveBreaks
        <5>2. UNCHANGED tourney_clients /\ (LeaveMatch(p, m) \/ LeaveBreaks(p, m))
          BY <3>2, <4>3 DEF Logout, LeaveMatch
        <5>3. QED
          BY <5>1, <5>2, LeaveKeeps
      <4>4. QED
        BY <3>2, <4>1, <4>2, <4>3 DEF Logout, LeaveMatch
    <3>3. QED
      BY <2>1, <3>1, <3>2 DEF Session
  <2>2. ASSUME NEW p \in Players, Packet(p) PROVE RosterInv'
    <3>1. CASE MatchCreate(p)
      BY <3>1, CreateKeeps
    <3>2. ASSUME NEW m \in Matches, MatchJoin(p, m) PROVE RosterInv'
      <4>1. JoinMatch(p, m) /\ UNCHANGED <<matches, tourney_clients, referees>>
        BY <3>2 DEF MatchJoin
      <4>2. QED
        BY <4>1, JoinKeeps
    <3>3. ASSUME NEW m \in Matches, MatchPart(p, m) PROVE RosterInv'
      <4>1. ChatsLeft(p, {m})
        BY <3>3, LeaveChatTyped DEF MatchPart, LeaveBreaks
      <4>2. (LeaveMatch(p, m) \/ LeaveBreaks(p, m)) /\ UNCHANGED tourney_clients
        BY <3>3 DEF MatchPart
      <4>3. QED
        BY <4>1, <4>2, LeaveKeeps
    <3>4. ASSUME NEW m \in Matches, SetStatus(p, m) PROVE RosterInv'
      <4>1. PICK s \in SlotIds : slots' = [slots EXCEPT ![m][s].status = "taken"]
        BY <3>4 DEF SetStatus
      <4>2. SeatsOnlyLost
        BY <4>1, StatusSeats DEF SlotStatus
      <4>3. QED
        BY <3>4, <4>2, Quiet DEF SetStatus
    <3>5. ASSUME NEW m \in Matches, MatchStart(p, m) PROVE RosterInv'
      BY <3>5, StartSeats, Quiet DEF MatchStart
    <3>6. ASSUME NEW m \in Matches, TourneyJoinChannel(p, m) PROVE RosterInv'
      <4>1. /\ UNCHANGED <<slots, match, matches, referees>>
            /\ ~Seated(p, m)
            /\ \A n \in Matches :
                 /\ chat'[n] = IF n = m THEN chat[n] \cup {p} ELSE chat[n]
                 /\ tourney_clients'[n] = IF n = m THEN tourney_clients[n] \cup {p}
                                          ELSE tourney_clients[n]
        BY <3>6 DEF TourneyJoinChannel, rosterVars, TypeOK
      <4>2. \A q \in Players, n \in Matches :
              /\ Seated(q, n) => q \in chat'[n] /\ q \notin tourney_clients'[n]
              /\ q \in chat'[n] => match[q] = n \/ q \in tourney_clients'[n]
        BY <4>1 DEF RosterInv, ChatFollowsRoster, TourneyClientsDoNotPlay
      <4>3. QED
        BY <4>1, <4>2, SlotsUntouched
    <3>7. ASSUME NEW m \in Matches, TourneyLeaveChannel(p, m) PROVE RosterInv'
      <4>1. /\ UNCHANGED <<slots, match, matches, referees>>
            /\ p \in tourney_clients[m]
            /\ \/ tourney_clients' = [tourney_clients EXCEPT ![m] = @ \ {p}]
               \/ tourney_clients' = tourney_clients
            /\ ChatsLeft(p, {m})
        BY <3>7, LeaveChatTyped DEF TourneyLeaveChannel, rosterVars
      <4>2. \A q \in Players, n \in Matches :
              /\ Seated(q, n) => q \in chat'[n] /\ q \notin tourney_clients'[n]
              /\ q \in chat'[n] => match[q] = n \/ q \in tourney_clients'[n]
        BY <4>1 DEF ChatsLeft, RosterInv, ChatFollowsRoster, TourneyClientsDoNotPlay, TypeOK
      <4>3. QED
        BY <4>1, <4>2, SlotsUntouched
    <3>8. ASSUME NEW m \in Matches, NEW i \in SlotIds, MatchChangeSlot(p, m, i)
          PROVE  RosterInv'
      BY <3>8, ChangeSlotKeeps
    <3>9. ASSUME NEW m \in Matches, NEW i \in SlotIds, MatchLock(p, m, i)
          PROVE  RosterInv'
      <4>1. PICK st \in SlotStatus : slots' = [slots EXCEPT ![m][i].status = st]
        BY <3>9 DEF MatchLock, SlotStatus
      <4>2. SeatsOnlyLost
        BY <4>1, StatusSeats
      <4>3. QED
        BY <3>9, <4>2, Quiet DEF MatchLock
    <3>10. ASSUME NEW m \in Matches, NEW i \in SlotIds, MatchTransferHost(p, m, i)
           PROVE  RosterInv'
      <4>1. SeatsOnlyLost
        BY <3>10 DEF MatchTransferHost, SeatsOnlyLost, Sits
      <4>2. QED
        BY <3>10, <4>1, Quiet DEF MatchTransferHost
    <3>11. QED
      BY <2>2, <3>1, <3>2, <3>3, <3>4, <3>5, <3>6, <3>7, <3>8, <3>9, <3>10 DEF Packet
  <2>3. ASSUME NEW p \in Players, Command(p) PROVE RosterInv'
    <3> PICK m \in Matches :
          \/ mp_lock(p, m) \/ mp_unlock(p, m)
          \/ mp_start_timer(p, m) \/ mp_start_cancel(p, m)
          \/ \E t \in Players : \/ mp_host(p, m, t) \/ mp_addref(p, m, t)
                                \/ mp_rmref(p, m, t) \/ mp_force(p, t, m)
      BY <2>3 DEF Command
    <3>1. ASSUME NEW from \in SlotStatus, NEW to \in SlotStatus,
                 SetAllSlots(p, m, from, to)
          PROVE  RosterInv'
      <4>1. ASSUME NEW n \in Matches, NEW j \in SlotIds
            PROVE  slots'[n][j].player = slots[n][j].player
        BY <3>1 DEF SetAllSlots, TypeOK, Slot
      <4>2. SeatsOnlyLost
        BY <4>1 DEF SeatsOnlyLost, Sits
      <4>3. QED
        BY <3>1, <4>2, Quiet DEF SetAllSlots
    <3>2. CASE mp_start_timer(p, m) \/ mp_start_cancel(p, m)
      <4>1. UNCHANGED slots /\ UNCHANGED <<match, matches, chat, tourney_clients, referees>>
        BY <3>2 DEF mp_start_timer, mp_start_cancel
      <4>2. QED
        BY <4>1, Quiet DEF SeatsOnlyLost, Sits
    <3>3. ASSUME NEW t \in Players, mp_host(p, m, t) PROVE RosterInv'
      <4>1. UNCHANGED slots /\ UNCHANGED <<match, matches, chat, tourney_clients, referees>>
        BY <3>3 DEF mp_host
      <4>2. QED
        BY <4>1, Quiet DEF SeatsOnlyLost, Sits
    <3>4. ASSUME NEW t \in Players, mp_addref(p, m, t) \/ mp_rmref(p, m, t)
          PROVE  RosterInv'
      <4>1. /\ UNCHANGED <<slots, match, matches, chat, tourney_clients>>
            /\ \A n \in Matches : \A q \in referees'[n] :
                 q \in referees[n] \/ (q \in Players /\ Seated(q, n))
        BY <3>4 DEF mp_addref, mp_rmref, TypeOK
      <4>2. \A q \in Players, n \in Matches :
              /\ Seated(q, n) => q \in chat'[n] /\ q \notin tourney_clients'[n]
              /\ q \in chat'[n] => match[q] = n \/ q \in tourney_clients'[n]
        BY <4>1 DEF RosterInv, ChatFollowsRoster, TourneyClientsDoNotPlay
      <4>3. QED
        BY <4>1, <4>2, SlotsUntouched
    <3>5. ASSUME NEW t \in Players, mp_force(p, t, m) PROVE RosterInv'
      <4>1. JoinMatch(t, m) /\ UNCHANGED <<matches, tourney_clients, referees>>
        BY <3>5 DEF mp_force
      <4>2. QED
        BY <4>1, JoinKeeps
    <3>6. CASE mp_lock(p, m) \/ mp_unlock(p, m)
      BY <3>1, <3>6 DEF mp_lock, mp_unlock, SlotStatus
    <3>7. QED
      BY <3>2, <3>3, <3>4, <3>5, <3>6
  <2>4. ASSUME NEW m \in Matches, TimerFires(m) PROVE RosterInv'
    <3>1. SeatsOnlyLost
      <4>1. CASE Start(m)
        BY <4>1, StartSeats
      <4>2. CASE slots' = slots
        BY <4>2 DEF SeatsOnlyLost, Sits
      <4>3. QED
        BY <2>4, <4>1, <4>2 DEF TimerFires
    <3>2. QED
      BY <2>4, <3>1, Quiet DEF TimerFires
  <2>5. CASE UNCHANGED vars
    BY <2>5, Quiet DEF vars, SeatsOnlyLost, Sits
  <2>6. QED
    BY <2>1, <2>2, <2>3, <2>4, <2>5 DEF Next
<1>3. QED
  BY <1>1, <1>2, LobbyTyped, PTL DEF Spec

-----------------------------------------------------------------------------
(* What the invariant says, part by part.                                  *)

\* A player never sits in two slots of the server, nor in a match that is not
\* its player.match, whatever join_match and MatchChangeSlot overwrite.
THEOREM SeatsAlwaysExclusive == Spec => []SeatsExclusive
  BY RosterInvariant, PTL DEF RosterInv

\* The chat channel of a match and its roster never get out of step.
THEOREM ChatAlwaysFollowsRoster == Spec => []ChatFollowsRoster
  BY RosterInvariant, PTL DEF RosterInv

\* Nobody plays in a match and watches it with a tourney client.
THEOREM TourneyClientsNeverPlay == Spec => []TourneyClientsDoNotPlay
  BY RosterInvariant, PTL DEF RosterInv

\* The power to run commands in a match never outlives the membership.
THEOREM RefereesAreAlwaysMembers == Spec => []RefereesAreMembers
  BY RosterInvariant, PTL DEF RosterInv

-----------------------------------------------------------------------------
(* What is left over of who went.                                          *)

\* A user whose logout went through has no request that comes back, and
\* neither match nor chat; that it has no seat and no referee's power then
\* follows from the roster invariant.
GoneForGood ==
  /\ stale \subseteq Lagging
  /\ \A p \in Players \ (online \cup Lagging) :
       match[p] = None /\ \A m \in Matches : p \notin chat[m]

\* Whoever is put into a match or a chat is online, or has a request in flight.
LEMMA JoinGone ==
  ASSUME TypeOK, GoneForGood, NEW p \in online \cup stale, NEW m \in Matches,
         JoinMatch(p, m), UNCHANGED <<online, stale>>
  PROVE  GoneForGood'
BY DEF TypeOK, GoneForGood, JoinMatch

\* Leaving a match takes players out of chats and of matches.
LEMMA LeaveGone ==
  ASSUME TypeOK, GoneForGood, NEW p \in Players,
         match' = match \/ match' = [match EXCEPT ![p] = None],
         UNCHANGED <<online, stale>>, NEW C \in SUBSET Matches, ChatsLeft(p, C)
  PROVE  GoneForGood'
BY DEF TypeOK, GoneForGood, ChatsLeft

\* A logout that goes through leaves neither match nor chat behind.
LEMMA LogoutGone ==
  ASSUME TypeOK, GoneForGood, NEW p \in Players, Disconnect(p),
         \/ match[p] = None /\ match' = match
         \/ match' = [match EXCEPT ![p] = None]
  PROVE  GoneForGood'
BY DEF TypeOK, GoneForGood, Disconnect, LeaveChats

\* No step leaves anything of a user who logged out.
LEMMA StaysGone ==
  ASSUME TypeOK, GoneForGood, [Next]_vars PROVE GoneForGood'
<1>1. ASSUME NEW p \in Players, Session(p) PROVE GoneForGood'
  <2>1. CASE Login(p) \/ RequestEnds(p)
    BY <2>1 DEF Login, RequestEnds, GoneForGood
  <2>2. CASE Logout(p)
    <3>1. match' = match \/ match' = [match EXCEPT ![p] = None]
      BY <2>2 DEF Logout, LeaveLast, LeaveOthers, LeaveRaises, LeaveBreaks
    <3>2. ASSUME Disconnect(p), \/ match[p] = None /\ match' = match
                                \/ match' = [match EXCEPT ![p] = None]
          PROVE  GoneForGood'
      BY <3>2, LogoutGone
    <3>3. ASSUME NEW left \in SUBSET Matches, DisconnectRaises(p, left) PROVE GoneForGood'
      BY <3>1, <3>3, DisconnectTyped, LeaveGone DEF DisconnectRaises
    <3>4. ASSUME NEW m \in Matches, UNCHANGED <<online, stale>>,
                 \/ LeaveRaises(p, m) /\ LeaveChats(p, {m}) /\ UNCHANGED clinging
                 \/ LeaveBreaks(p, m)
          PROVE  GoneForGood'
      <4>1. ChatsLeft(p, {m})
        BY <3>4, LeaveChatTyped DEF LeaveBreaks
      <4>2. QED
        BY <3>1, <3>4, <4>1, LeaveGone
    <3>5. CASE /\ match[p] = None /\ UNCHANGED match
               /\ Disconnect(p) \/ DisconnectRaises(p, {})
      BY <3>2, <3>3, <3>5
    <3>6. ASSUME NEW m \in Matches, LeaveLast(p, m) \/ LeaveOthers(p, m),
                 Disconnect(p) \/ DisconnectRaises(p, {m})
          PROVE  GoneForGood'
      BY <3>2, <3>3, <3>6 DEF LeaveLast, LeaveOthers
    <3>7. QED
      BY <2>2, <3>4, <3>5, <3>6 DEF Logout
  <2>3. QED
    BY <1>1, <2>1, <2>2 DEF Session
<1>2. ASSUME NEW p \in Players, Packet(p) PROVE GoneForGood'
  <2>1. CASE MatchCreate(p)
    BY <2>1 DEF MatchCreate, TypeOK, GoneForGood
  <2>2. ASSUME NEW m \in Matches, MatchJoin(p, m) PROVE GoneForGood'
    BY <2>2, JoinGone DEF MatchJoin, Handles
  <2>3. ASSUME NEW m \in Matches, MatchPart(p, m) PROVE GoneForGood'
    <3>1. ChatsLeft(p, {m}) /\ UNCHANGED <<online, stale>>
      BY <2>3, LeaveChatTyped DEF MatchPart, LeaveBreaks
    <3>2. match' = match \/ match' = [match EXCEPT ![p] = None]
      BY <2>3 DEF MatchPart, LeaveMatch, LeaveLast, LeaveOthers, LeaveRaises, LeaveBreaks
    <3>3. QED
      BY <3>1, <3>2, LeaveGone
  <2>4. ASSUME NEW m \in Matches,
               TourneyJoinChannel(p, m) \/ TourneyLeaveChannel(p, m)
        PROVE  GoneForGood'
    <3>1. CASE TourneyJoinChannel(p, m)
      BY <3>1 DEF TourneyJoinChannel, Handles, TypeOK, GoneForGood
    <3>2. CASE TourneyLeaveChannel(p, m)
      <4>1. ChatsLeft(p, {m})
        BY <3>2, LeaveChatTyped DEF TourneyLeaveChannel
      <4>2. QED
        BY <3>2, <4>1, LeaveGone DEF TourneyLeaveChannel
    <3>3. QED
      BY <2>4, <3>1, <3>2
  <2>5. ASSUME NEW m \in Matches, NEW i \in SlotIds,
               \/ SetStatus(p, m) \/ MatchStart(p, m) \/ MatchChangeSlot(p, m, i)
               \/ MatchLock(p, m, i) \/ MatchTransferHost(p, m, i)
        PROVE  GoneForGood'
    BY <2>5 DEF SetStatus, MatchStart, MatchChangeSlot, MatchLock, MatchTransferHost,
       GoneForGood
  <2>6. QED
    BY <1>2, <2>1, <2>2, <2>3, <2>4, <2>5, LobbyAssumption DEF Packet
<1>3. ASSUME NEW p \in Players, Command(p) PROVE GoneForGood'
  <2>1. ASSUME NEW m \in Matches, NEW t \in Players, mp_force(p, t, m)
        PROVE  GoneForGood'
    BY <2>1, JoinGone DEF mp_force
  <2>2. ASSUME NEW m \in Matches, NEW t \in Players,
               \/ mp_lock(p, m) \/ mp_unlock(p, m)
               \/ mp_start_timer(p, m) \/ mp_start_cancel(p, m)
               \/ mp_host(p, m, t) \/ mp_addref(p, m, t) \/ mp_rmref(p, m, t)
        PROVE  GoneForGood'
    BY <2>2 DEF mp_lock, mp_unlock, SetAllSlots, mp_start_timer, mp_start_cancel,
       mp_host, mp_addref, mp_rmref, GoneForGood
  <2>3. QED
    BY <1>3, <2>1, <2>2 DEF Command
<1>4. ASSUME NEW m \in Matches, TimerFires(m) PROVE GoneForGood'
  BY <1>4 DEF TimerFires, GoneForGood
<1>5. CASE UNCHANGED vars
  BY <1>5 DEF vars, GoneForGood
<1>6. QED
  BY <1>1, <1>2, <1>3, <1>4, <1>5 DEF Next

-----------------------------------------------------------------------------
(* Slots nobody sits in.                                                   *)

\* join_match seats somebody; leave_match frees a slot or leaves it locked.
LEMMA JoinLeavePhantom ==
  ASSUME TypeOK, NoPhantomSlot, NEW p \in Players, NEW m \in Matches,
         JoinMatch(p, m) \/ Vacate(p, m)
  PROVE  NoPhantomSlot'
<1>1. CASE JoinMatch(p, m)
  <2>1. PICK i \in SlotIds :
          slots' = [slots EXCEPT ![m][i] = [player |-> p, status |-> "taken"]]
    BY <1>1 DEF JoinMatch
  <2>2. QED
    BY <2>1, LobbyAssumption DEF TypeOK, NoPhantomSlot
<1>2. CASE Vacate(p, m)
  BY <1>2 DEF Vacate, VacatedSlot, TypeOK, NoPhantomSlot
<1>3. QED
  BY <1>1, <1>2

\* Match.start puts only occupied slots in play.
LEMMA StartPhantom ==
  ASSUME TypeOK, NoPhantomSlot, NEW m \in Matches, Start(m)
  PROVE  NoPhantomSlot'
<1>1. ASSUME NEW n \in Matches, NEW i \in SlotIds, slots'[n][i].player = None
      PROVE  slots'[n][i] = slots[n][i]
  BY <1>1 DEF Start, TypeOK, Slot
<1>2. QED
  BY <1>1 DEF NoPhantomSlot

\* A change of one slot's status leaves no phantom if the slot is occupied or
\* the status is not a player's.
LEMMA StatusPhantom ==
  ASSUME TypeOK, NoPhantomSlot, NEW m \in Matches, NEW i \in SlotIds, NEW st \in SlotStatus,
         slots' = [slots EXCEPT ![m][i].status = st],
         st = "taken" => slots[m][i].player # None
  PROVE  NoPhantomSlot'
<1>1. ASSUME NEW n \in Matches, NEW j \in SlotIds
      PROVE  /\ slots'[n][j].player = slots[n][j].player
             /\ slots'[n][j].status = IF n = m /\ j = i THEN st ELSE slots[n][j].status
  BY DEF TypeOK, Slot
<1>2. QED
  BY <1>1 DEF NoPhantomSlot

\* No step puts a slot nobody sits in into a player's status.
LEMMA NoStepMakesPhantom ==
  ASSUME TypeOK, NoPhantomSlot, [Next]_vars PROVE NoPhantomSlot'
<1> USE LobbyAssumption
<1>1. CASE slots' = slots
  BY <1>1 DEF NoPhantomSlot
<1>2. ASSUME NEW p \in Players, Session(p) PROVE NoPhantomSlot'
  BY <1>1, <1>2, JoinLeavePhantom
  DEF Session, Login, RequestEnds, Logout, LeaveLast, LeaveOthers, LeaveRaises, LeaveBreaks,
      rosterVars
<1>3. ASSUME NEW p \in Players, Packet(p) PROVE NoPhantomSlot'
  <2>1. CASE MatchCreate(p)
    <3>1. PICK m \in Matches, joins \in BOOLEAN :
            slots' = [slots EXCEPT ![m] =
                 [k \in SlotIds |->
                    IF k = 0 /\ joins THEN [player |-> p, status |-> "taken"]
                                      ELSE EmptySlot]]
      BY <2>1 DEF MatchCreate
    <3>2. \A i \in SlotIds : slots'[m][i].player = None => slots'[m][i].status = "open"
      BY <3>1 DEF EmptySlot, TypeOK
    <3>3. QED
      BY <3>1, <3>2 DEF TypeOK, NoPhantomSlot
  <2>2. ASSUME NEW m \in Matches, MatchJoin(p, m) \/ MatchPart(p, m) PROVE NoPhantomSlot'
    BY <2>2, JoinLeavePhantom DEF MatchJoin, MatchPart, LeaveMatch, LeaveLast, LeaveOthers,
       LeaveRaises, LeaveBreaks
  <2>3. ASSUME NEW m \in Matches, SetStatus(p, m) PROVE NoPhantomSlot'
    <3>1. PICK s \in SlotIds : Sits(p, m, s) /\ slots' = [slots EXCEPT ![m][s].status = "taken"]
      BY <2>3 DEF SetStatus
    <3>2. QED
      BY <3>1, StatusPhantom DEF Sits, SlotStatus
  <2>4. ASSUME NEW m \in Matches, MatchStart(p, m) PROVE NoPhantomSlot'
    BY <2>4, StartPhantom DEF MatchStart
  <2>5. ASSUME NEW m \in Matches, NEW i \in SlotIds, MatchChangeSlot(p, m, i)
        PROVE  NoPhantomSlot'
    <3>1. PICK s \in SlotIds :
            /\ Sits(p, m, s)
            /\ slots' = [slots EXCEPT ![m] = [@ EXCEPT ![i] = slots[m][s], ![s] = EmptySlot]]
      BY <2>5 DEF MatchChangeSlot
    <3>2. QED
      BY <3>1 DEF Sits, EmptySlot, TypeOK, NoPhantomSlot
  <2>6. ASSUME NEW m \in Matches, NEW i \in SlotIds, MatchLock(p, m, i)
        PROVE  NoPhantomSlot'
    <3>1. PICK st \in {"open", "locked"} : slots' = [slots EXCEPT ![m][i].status = st]
      BY <2>6 DEF MatchLock
    <3>2. QED
      BY <3>1, StatusPhantom DEF SlotStatus
  <2>7. QED
    BY <1>1, <1>3, <2>1, <2>2, <2>3, <2>4, <2>5, <2>6
    DEF Packet, MatchTransferHost, TourneyJoinChannel, TourneyLeaveChannel, rosterVars
<1>4. ASSUME NEW p \in Players, Command(p) PROVE NoPhantomSlot'
  <2>1. ASSUME NEW m \in Matches, NEW from, NEW to \in {"open", "locked"},
               SetAllSlots(p, m, from, to)
        PROVE  NoPhantomSlot'
    <3>1. ASSUME NEW n \in Matches, NEW i \in SlotIds
          PROVE  /\ slots'[n][i].player = slots[n][i].player
                 /\ slots'[n][i].status \in {slots[n][i].status, to}
      BY <2>1 DEF SetAllSlots, TypeOK, Slot
    <3>2. QED
      BY <3>1 DEF NoPhantomSlot
  <2>2. ASSUME NEW m \in Matches, NEW t \in Players, mp_force(p, t, m) PROVE NoPhantomSlot'
    BY <2>2, JoinLeavePhantom DEF mp_force
  <2>3. QED
    BY <1>1, <1>4, <2>1, <2>2
    DEF Command, mp_lock, mp_unlock, mp_start_timer, mp_start_cancel, mp_host, mp_addref, mp_rmref
<1>5. ASSUME NEW m \in Matches, TimerFires(m) PROVE NoPhantomSlot'
  BY <1>1, <1>5, StartPhantom DEF TimerFires
<1>6. QED
  BY <1>1, <1>2, <1>3, <1>4, <1>5 DEF Next, vars

\* Nothing is left over of who went, for any number of players, matches and
\* slots: no slot in a player's status without a player, and no trace of a
\* user whose logout went through.
THEOREM NothingIsLeftOver == Spec => []NothingLeftOver
<1>1. Init => GoneForGood /\ NoPhantomSlot
  BY DEF Init, GoneForGood, NoPhantomSlot, EmptySlot
<1>2. TypeOK /\ GoneForGood /\ NoPhantomSlot /\ [Next]_vars => (GoneForGood /\ NoPhantomSlot)'
  BY StaysGone, NoStepMakesPhantom
<1>3. TypeOK /\ RosterInv /\ GoneForGood /\ NoPhantomSlot => NothingLeftOver
  <2> SUFFICES ASSUME TypeOK, RosterInv, GoneForGood, NoPhantomSlot PROVE LogoutLeavesNothing
    BY DEF NothingLeftOver
  <2>1. ASSUME NEW p \in Players \ (online \cup Lagging), NEW m \in Matches
        PROVE  /\ match[p] = None /\ ~Seated(p, m) /\ p \notin chat[m]
               /\ Live(m) => p \notin referees[m]
    BY LobbyAssumption DEF RosterInv, SeatsExclusive, RefereesAreMembers, GoneForGood, Seated
  <2>2. \A p \in Players \ (online \cup Lagging) : match[p] = None
    BY DEF GoneForGood
  <2>3. QED
    BY <2>1, <2>2 DEF LogoutLeavesNothing
<1>4. QED
  BY <1>1, <1>2, <1>3, RosterInvariant, PTL DEF Spec

-----------------------------------------------------------------------------
(* Departures.                                                             *)

\* Only leave_match that runs to its end makes a player forget its match.
LEMMA OnlyLeavingDeparts ==
  ASSUME TypeOK, [Next]_vars, NEW p \in Players, NEW m \in Matches, Departs(p, m)
  PROVE  LeaveLast(p, m) \/ LeaveOthers(p, m)
<1> USE LobbyAssumption DEF Departs
<1>1. match' # match
  OBVIOUS
<1>2. ASSUME NEW q \in Players, NEW n \in Matches, JoinMatch(q, n) PROVE FALSE
  BY <1>2 DEF JoinMatch, TypeOK
<1>3. ASSUME NEW q \in Players, NEW n \in Matches, LeaveLast(q, n) \/ LeaveOthers(q, n)
      PROVE  q = p /\ n = m
  BY <1>3 DEF LeaveLast, LeaveOthers, Vacate, TypeOK
<1>4. ASSUME NEW q \in Players, NEW n \in Matches, LeaveRaises(q, n) \/ LeaveBreaks(q, n)
      PROVE  FALSE
  BY <1>1, <1>4 DEF LeaveRaises, LeaveBreaks
<1>5. ASSUME NEW q \in Players, MatchCreate(q) PROVE FALSE
  BY <1>5 DEF MatchCreate, TypeOK
<1>6. ASSUME NEW q \in Players, Session(q) PROVE LeaveLast(p, m) \/ LeaveOthers(p, m)
  BY <1>1, <1>3, <1>4, <1>6 DEF Session, Login, Logout, RequestEnds
<1>7. ASSUME NEW q \in Players, Packet(q) PROVE LeaveLast(p, m) \/ LeaveOthers(p, m)
  BY <1>1, <1>2, <1>3, <1>4, <1>5, <1>7
  DEF Packet, MatchJoin, MatchPart, LeaveMatch, SetStatus, MatchStart, TourneyJoinChannel,
      TourneyLeaveChannel, MatchChangeSlot, MatchLock, MatchTransferHost
<1>8. ASSUME NEW q \in Players, Command(q) PROVE FALSE
  BY <1>1, <1>2, <1>8
  DEF Command, mp_lock, mp_unlock, SetAllSlots, mp_start_timer, mp_start_cancel, mp_host,
      mp_addref, mp_rmref, mp_force
<1>9. QED
  BY <1>1, <1>6, <1>7, <1>8 DEF Next, TimerFires, vars

\* The last seated player to leave takes the lobby and its timer along.
LEMMA LastDeparture ==
  ASSUME TypeOK, NEW p \in Players, NEW m \in Matches, LeaveLast(p, m)
  PROVE  /\ \A q \in Players : ~Seated(q, m)'
         /\ ~Live(m)' /\ starting'[m] = None
<1> USE LobbyAssumption
<1>1. Vacate(p, m) /\ LastOne(p, m)
  BY DEF LeaveLast
<1>2. \A i \in SlotIds : slots'[m][i].player = None
  BY <1>1 DEF Vacate, LastOne, VacatedSlot, Sits, TypeOK
<1>3. ~Live(m)' /\ starting'[m] = None
  BY DEF LeaveLast, Live, TypeOK
<1>4. QED
  BY <1>2, <1>3 DEF Seated, Sits

\* Any other departure leaves somebody seated, and hands the host over to one
\* of them.
LEMMA OtherDeparture ==
  ASSUME TypeOK, NEW p \in Players, NEW m \in Matches, LeaveOthers(p, m)
  PROVE  /\ \E q \in Players : Seated(q, m)'
         /\ host_id[m] = p => HostSeated(m)'
         /\ matches' = matches /\ starting' = starting
<1> USE LobbyAssumption
<1>1. Vacate(p, m) /\ ~LastOne(p, m)
  BY DEF LeaveOthers
<1>2. ASSUME NEW q \in Players, NEW i \in SlotIds, Sits(q, m, i), q # p
      PROVE  Seated(q, m)'
  BY <1>1, <1>2 DEF Vacate, Seated, Sits, TypeOK
<1>3. \E q \in Players : Seated(q, m)'
  <2>1. PICK i \in SlotIds : slots[m][i].player \notin {None, p}
    BY <1>1 DEF LastOne
  <2>2. slots[m][i].player \in Players
    BY <2>1 DEF TypeOK, Slot
  <2>3. QED
    BY <1>2, <2>1, <2>2 DEF Sits
<1>4. ASSUME host_id[m] = p PROVE HostSeated(m)'
  <2>1. PICK q \in online : NextHost(p, m, q) /\ host_id' = [host_id EXCEPT ![m] = q]
    BY <1>4 DEF LeaveOthers
  <2>2. q \in Players /\ Seated(q, m)'
    BY <1>2, <2>1 DEF NextHost, TypeOK
  <2>3. QED
    BY <2>1, <2>2 DEF HostSeated, TypeOK
<1>5. QED
  BY <1>3, <1>4 DEF LeaveOthers

\* leave_match settles the host, the lobby and the timer before the player
\* forgets the match, for any number of players, matches and slots.
THEOREM DeparturesComplete == Spec => DeparturesAreComplete
<1> DEFINE Settled ==
      \A p \in Players, m \in Matches :
        Departs(p, m) /\ Live(m) =>
          /\ host_id[m] = p /\ Live(m)' => HostSeated(m)'
          /\ IF \E q \in Players : Seated(q, m)'
             THEN Live(m)' /\ starting'[m] = starting[m]
             ELSE ~Live(m)' /\ starting'[m] = None
<1>1. TypeOK /\ [Next]_vars => Settled
  <2> SUFFICES ASSUME TypeOK, [Next]_vars, NEW p \in Players, NEW m \in Matches,
                      Departs(p, m), Live(m)
               PROVE  /\ host_id[m] = p /\ Live(m)' => HostSeated(m)'
                      /\ IF \E q \in Players : Seated(q, m)'
                         THEN Live(m)' /\ starting'[m] = starting[m]
                         ELSE ~Live(m)' /\ starting'[m] = None
    OBVIOUS
  <2>1. CASE LeaveLast(p, m)
    BY <2>1, LastDeparture
  <2>2. CASE LeaveOthers(p, m)
    <3>1. Live(m)'
      BY <2>2, OtherDeparture DEF Live
    <3>2. QED
      BY <2>2, <3>1, OtherDeparture
  <2>3. QED
    BY <2>1, <2>2, OnlyLeavingDeparts
<1>2. QED
  BY <1>1, LobbyTyped, PTL DEF Spec, DeparturesAreComplete
=============================================================================
