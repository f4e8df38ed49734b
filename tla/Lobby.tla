-------------------------------- MODULE Lobby --------------------------------
(***************************************************************************)
(* The roster of the multiplayer lobbies: who sits in which slot of which  *)
(* match, who is host, who is referee, who is in the match chat, and the   *)
(* `!mp start N` timer.  One action per packet handler of                  *)
(* app/api/domains/cho.py, per `!mp` command of app/commands.py and per    *)
(* method of app/objects/player.py that touches this state.  The server    *)
(* runs one event loop and none of these handlers awaits between its reads *)
(* and its writes, so each handler is one step.                            *)
(*                                                                         *)
(* An exception (`assert slot is not None`, the ValueError of `Match.host` *)
(* when the host is not online) ends a handler where it is raised and      *)
(* keeps what the handler had assigned so far: the action then describes   *)
(* that partial effect.  A handler that returns, or raises, before it      *)
(* assigned anything is not a step.                                        *)
(*                                                                         *)
(* Abstractions.  A slot's status is `open`, `locked` or `taken`, where    *)
(* `taken` stands for not_ready, ready, no_map, playing and complete: the  *)
(* roster tests no finer distinction.  Passwords, silences and privileges  *)
(* only decide whether a handler returns early; a handler that returned    *)
(* early is a player who sent nothing.  Clients send CHANNEL_JOIN and      *)
(* CHANNEL_PART only for the channel names the server advertises, which    *)
(* never name an instanced match channel.  The order in which a player      *)
(* joined the chats it is in, which logout follows, is not kept.           *)
(***************************************************************************)
EXTENDS Naturals

CONSTANTS Players,     \* users; a user has at most one session at a time
          Matches,     \* identities of Match objects
          MatchIds,    \* indices of the global match list (0..63 in the code)
          SlotIds,     \* indices of a match's slots (0..15 in the code)
          Managers,    \* players with TOURNEY_MANAGER and ADMINISTRATOR
          Donators,    \* players who may run a tourney client
          Lagging,     \* players whose session may end under a request in flight
          None

ASSUME LobbyAssumption ==
  /\ MatchIds \subseteq Nat
  /\ SlotIds \subseteq Nat /\ 0 \in SlotIds
  /\ Managers \subseteq Players /\ Donators \subseteq Players
  /\ Lagging \subseteq Players
  /\ None \notin Players \cup Matches

VARIABLES
  online,           \* app.state.sessions.players
  stale,            \* logged out, but a request was past its token lookup
  match,            \* player.match
  matches,          \* app.state.sessions.matches
  slots,            \* match.slots: player and status of every slot
  host_id,          \* match.host_id
  referees,         \* match.referees
  chat,             \* match.chat.players
  unlisted,         \* matches whose chat is off app.state.sessions.channels
  clinging,         \* whose player.channels names a chat they are not in
  tourney_clients,  \* match.tourney_clients
  starting          \* who asked for the pending `!mp start N`, or None

rosterVars == <<slots, host_id, referees, starting>>
vars == <<online, stale, match, matches, slots, host_id, referees, chat,
          unlisted, clinging, tourney_clients, starting>>

SlotStatus == {"open", "locked", "taken"}
Slot == [player : Players \cup {None}, status : SlotStatus]

EmptySlot == [player |-> None, status |-> "open"]

Init ==
  /\ online = {}
  /\ stale = {}
  /\ match = [p \in Players |-> None]
  /\ matches = [i \in MatchIds |-> None]
  /\ slots = [m \in Matches |-> [i \in SlotIds |-> EmptySlot]]
  /\ host_id = [m \in Matches |-> None]
  /\ referees = [m \in Matches |-> {}]
  /\ chat = [m \in Matches |-> {}]
  /\ unlisted = {}
  /\ clinging = {}
  /\ tourney_clients = [m \in Matches |-> {}]
  /\ starting = [m \in Matches |-> None]

-----------------------------------------------------------------------------
(* Reading the roster.                                                     *)

\* The match list holds m.
Live(m) == \E i \in MatchIds : matches[i] = m

\* Slot.empty and Match.get_slot_id.
Occupied(m) == {i \in SlotIds : slots[m][i].player # None}
Sits(p, m, i) == slots[m][i].player = p
Seated(p, m) == \E i \in SlotIds : Sits(p, m, i)

\* i is what Match.get_free returns: the first slot whose status is open.
IsFree(m, i) ==
  /\ slots[m][i].status = "open"
  /\ \A j \in SlotIds : slots[m][j].status = "open" => i <= j

\* The property Match.host returns a player instead of raising ValueError.
HostResolves(m) == host_id[m] \in online

\* A packet of p is handled: p is logged in, or was when the token of the
\* request now being handled was looked up.
Handles(p) == p \in online \cup stale

\* ensure_match lets p's command through in the chat of match m.
Commands(p, m) ==
  /\ Handles(p) /\ match[p] = m /\ m # None
  /\ p \in chat[m]
  /\ HostResolves(m)
  /\ p \in referees[m] \cup {host_id[m]} \cup Managers

-----------------------------------------------------------------------------
(* Joining.                                                                *)

\* The slot Player.join_match takes: slot 0 for the player the match names as
\* its host ("match is being created"), otherwise the first open slot.
JoinSlot(p, m, i) == IF host_id[m] = p THEN i = 0 ELSE IsFree(m, i)

\* Player.join_match: the slot is overwritten whoever sits in it.
JoinMatch(p, m) ==
  /\ match[p] = None
  /\ p \notin tourney_clients[m]
  /\ HostResolves(m)
  /\ p \notin chat[m]
  /\ \E i \in SlotIds :
       /\ JoinSlot(p, m, i)
       /\ slots' = [slots EXCEPT ![m][i] = [player |-> p, status |-> "taken"]]
  /\ chat' = [chat EXCEPT ![m] = @ \cup {p}]
  /\ match' = [match EXCEPT ![p] = m]
  /\ UNCHANGED <<unlisted, clinging>>

\* A Match object nothing refers to any more stands for a new object.
Unused(m) ==
  /\ ~Live(m)
  /\ chat[m] = {}
  /\ \A p \in Players : match[p] # m

\* MatchCreate: the lobby enters the match list before join_match is tried, so
\* a creator who is already in a match leaves behind a lobby with nobody in it.
\* (The host of a new match is its creator, so for a stale creator Match.host
\* raises inside join_match.)
MatchCreate(p) ==
  \E i \in MatchIds, m \in Matches :
    /\ Handles(p)
    /\ Unused(m)
    /\ matches[i] = None
    /\ \A j \in MatchIds : matches[j] = None => i <= j
    /\ LET joins == match[p] = None /\ p \in online
       IN  /\ slots' = [slots EXCEPT ![m] =
                 [k \in SlotIds |->
                    IF k = 0 /\ joins THEN [player |-> p, status |-> "taken"]
                                      ELSE EmptySlot]]
           /\ chat' = [chat EXCEPT ![m] = IF joins THEN {p} ELSE {}]
           /\ match' = IF joins THEN [match EXCEPT ![p] = m] ELSE match
    /\ matches' = [matches EXCEPT ![i] = m]
    /\ unlisted' = unlisted \ {m}
    /\ host_id' = [host_id EXCEPT ![m] = p]
    /\ referees' = [referees EXCEPT ![m] = {}]
    /\ tourney_clients' = [tourney_clients EXCEPT ![m] = {}]
    /\ starting' = [starting EXCEPT ![m] = None]
    /\ UNCHANGED <<online, stale, clinging>>

\* MatchJoin.
MatchJoin(p, m) ==
  /\ Handles(p)
  /\ Live(m)
  /\ JoinMatch(p, m)
  /\ UNCHANGED <<online, stale, matches, host_id, referees, tourney_clients,
                 starting>>

\* !mp force: an administrator puts another player into the match.
mp_force(p, t, m) ==
  /\ Commands(p, m) /\ p \in Managers
  /\ t \in online
  /\ JoinMatch(t, m)
  /\ UNCHANGED <<online, stale, matches, host_id, referees, tourney_clients,
                 starting>>

-----------------------------------------------------------------------------
(* Leaving.                                                                *)

\* Channel.remove takes an instanced channel that is empty off the channel list,
\* and raises ValueError when it is off the list already: a match that is listed
\* with nobody in its chat keeps it, and tourney clients can fill it again.
ChatBreaks(p, m) == m \in unlisted /\ chat[m] = {p}

\* Player.leave_channel for the chats of ms.
LeaveChats(p, ms) ==
  /\ chat' = [m \in Matches |-> IF m \in ms THEN chat[m] \ {p} ELSE chat[m]]
  /\ unlisted' = unlisted \cup {m \in ms : chat[m] = {p}}

\* ... that raises for m, after the chat has forgotten p and before p forgets it.
LeaveChatsRaises(p, ms, m) ==
  /\ ChatBreaks(p, m)
  /\ LeaveChats(p, ms \cup {m})
  /\ clinging' = clinging \cup {p}

\* Slot.reset as leave_match calls it: a kicked player's slot stays locked.
VacatedSlot(s) ==
  [player |-> None, status |-> IF s.status = "locked" THEN "locked" ELSE "open"]

\* Nobody but p sits in m.
LastOne(p, m) == \A i \in SlotIds : slots[m][i].player \in {None, p}

\* q is the player in the first slot still occupied once p has left m.
NextHost(p, m, q) ==
  \E i \in SlotIds :
    /\ Sits(q, m, i) /\ q \notin {None, p}
    /\ \A j \in SlotIds : slots[m][j].player \notin {None, p} => i <= j

\* Player.leave_match up to the point where it can raise, for p seated in m
\* (without a seat the assertion fails before anything is assigned).
Vacate(p, m) ==
  /\ match[p] = m /\ m # None
  /\ Seated(p, m)
  /\ slots' = [slots EXCEPT ![m] =
        [i \in SlotIds |-> IF Sits(p, m, i) THEN VacatedSlot(slots[m][i])
                                            ELSE slots[m][i]]]

\* ... the last player leaves: the timer is cancelled and the lobby dropped.
LeaveLast(p, m) ==
  /\ Vacate(p, m)
  /\ LastOne(p, m)
  /\ starting' = [starting EXCEPT ![m] = None]
  /\ matches' = [i \in MatchIds |-> IF matches[i] = m THEN None ELSE matches[i]]
  /\ match' = [match EXCEPT ![p] = None]
  /\ UNCHANGED <<host_id, referees>>

\* A mutated form of LeaveOthers: the host is not handed over.
LeaveOthersKeepsHost(p, m) ==
  /\ Vacate(p, m)
  /\ ~LastOne(p, m)
  /\ HostResolves(m)
  /\ referees' = [referees EXCEPT ![m] = @ \ {p}]
  /\ match' = [match EXCEPT ![p] = None]
  /\ UNCHANGED <<host_id, matches, starting>>

\* ... others remain: the host is handed over and the referee struck off.
LeaveOthers(p, m) ==
  /\ Vacate(p, m)
  /\ ~LastOne(p, m)
  /\ HostResolves(m)
  /\ IF host_id[m] = p
     THEN \E q \in online :
            NextHost(p, m, q) /\ host_id' = [host_id EXCEPT ![m] = q]
     ELSE host_id' = host_id
  /\ referees' = [referees EXCEPT ![m] = @ \ {p}]
  /\ match' = [match EXCEPT ![p] = None]
  /\ UNCHANGED <<matches, starting>>

\* ... others remain and Match.host raises: before the hand-over because the
\* present host is offline, or after it because the next one is.  The slot and
\* the chat are left, player.match and the referees are not.
LeaveRaises(p, m) ==
  /\ Vacate(p, m)
  /\ ~LastOne(p, m)
  /\ \/ ~HostResolves(m) /\ host_id' = host_id
     \/ /\ HostResolves(m) /\ host_id[m] = p
        /\ \E q \in Players \ online :
             NextHost(p, m, q) /\ host_id' = [host_id EXCEPT ![m] = q]
  /\ UNCHANGED <<match, matches, referees, starting>>

LeaveMatch(p, m) == LeaveLast(p, m) \/ LeaveOthers(p, m) \/ LeaveRaises(p, m)

\* ... or it stops where it leaves the chat: the slot is reset, and that is all.
LeaveBreaks(p, m) ==
  /\ Vacate(p, m)
  /\ LeaveChatsRaises(p, {}, m)
  /\ UNCHANGED <<host_id, match, matches, referees, starting>>

\* MatchPart, and Player.silence, which leaves the match of an online player.
MatchPart(p, m) ==
  /\ Handles(p)
  /\ \/ /\ LeaveMatch(p, m) /\ ~ChatBreaks(p, m)
        /\ LeaveChats(p, {m}) /\ UNCHANGED clinging
     \/ LeaveBreaks(p, m)
  /\ UNCHANGED <<online, stale, tourney_clients>>

\* The session ends: every channel is left and the player list forgets p.  Of
\* a lagging player a request may already be past its token lookup.  (While
\* player.channels names a chat p is not in, `while self.channels` never ends and
\* with it the server: what follows is no behaviour any more, and no step here.)
Disconnect(p) ==
  /\ p \notin clinging
  /\ \A m \in Matches : ~ChatBreaks(p, m)
  /\ LeaveChats(p, Matches)
  /\ online' = online \ {p}
  /\ stale' \in {stale, stale \cup ({p} \cap Lagging)}
  /\ UNCHANGED clinging

\* Leaving a channel raises: those of left, and perhaps others, are left before.
DisconnectRaises(p, left) ==
  /\ \E m \in Matches \ left, ms \in SUBSET Matches :
       /\ left \subseteq ms /\ \A n \in ms : ~ChatBreaks(p, n)
       /\ LeaveChatsRaises(p, ms, m)
  /\ UNCHANGED <<online, stale>>

\* Player.logout: the client asked for it, a ghost is swept, a restriction
\* refreshes the session.  When leave_match or leave_channel raises, logout stops
\* there.
Logout(p) ==
  /\ Handles(p)
  /\ \/ /\ match[p] = None /\ UNCHANGED <<match, matches, rosterVars>>
        /\ Disconnect(p) \/ DisconnectRaises(p, {})
     \/ \E m \in Matches :
          /\ LeaveLast(p, m) \/ LeaveOthers(p, m)
          /\ Disconnect(p) \/ DisconnectRaises(p, {m})
     \/ \E m \in Matches :
          /\ \/ /\ LeaveRaises(p, m) /\ ~ChatBreaks(p, m)
                /\ LeaveChats(p, {m}) /\ UNCHANGED clinging
             \/ LeaveBreaks(p, m)
          /\ UNCHANGED <<online, stale>>
  /\ UNCHANGED tourney_clients

\* The request in flight of a session that has ended is done.
RequestEnds(p) ==
  /\ p \in stale
  /\ stale' = stale \ {p}
  /\ clinging' = clinging \ {p}
  /\ UNCHANGED <<online, match, matches, rosterVars, chat, unlisted, tourney_clients>>

\* A login makes a new Player object, in no match and no channel.  It is
\* modelled for users whose former session left nothing behind.
Login(p) ==
  /\ p \notin online \cup stale
  /\ match[p] = None
  /\ \A m \in Matches : p \notin chat[m]
  /\ online' = online \cup {p}
  /\ UNCHANGED <<stale, match, matches, rosterVars, chat, unlisted, clinging,
                 tourney_clients>>

-----------------------------------------------------------------------------
(* Slots.                                                                  *)

\* Mutated form of MatchChangeSlot: the former slot is not reset.
MatchChangeSlotKeepsOld(p, m, i) ==
  /\ Handles(p) /\ match[p] = m /\ m # None
  /\ slots[m][i].status = "open"
  /\ \E s \in SlotIds :
       Sits(p, m, s) /\ slots' = [slots EXCEPT ![m][i] = slots[m][s]]
  /\ UNCHANGED <<online, stale, match, matches, host_id, referees, chat,
                 unlisted, clinging, tourney_clients, starting>>

\* MatchChangeSlot: into any slot whose status is open, whoever sits there
\* (moving into one's own slot empties it).
MatchChangeSlot(p, m, i) ==
  /\ Handles(p) /\ match[p] = m /\ m # None
  /\ slots[m][i].status = "open"
  /\ \E s \in SlotIds :
       /\ Sits(p, m, s)
       /\ slots' = [slots EXCEPT ![m] = [@ EXCEPT ![i] = slots[m][s],
                                                  ![s] = EmptySlot]]
  /\ UNCHANGED <<online, stale, match, matches, host_id, referees, chat,
                 unlisted, clinging, tourney_clients, starting>>

\* MatchReady, MatchNotReady, MatchNoBeatmap, MatchHasBeatmap, MatchComplete.
SetStatus(p, m) ==
  /\ Handles(p) /\ match[p] = m /\ m # None
  /\ \E s \in SlotIds :
       /\ Sits(p, m, s)
       /\ slots' = [slots EXCEPT ![m][s].status = "taken"]
  /\ UNCHANGED <<online, stale, match, matches, host_id, referees, chat,
                 unlisted, clinging, tourney_clients, starting>>

\* MatchLock: the host toggles a slot.  Locking an occupied slot is how a
\* client is told it was kicked; the player stays in the slot.
MatchLock(p, m, i) ==
  /\ Handles(p) /\ match[p] = m /\ m # None
  /\ HostResolves(m) /\ host_id[m] = p
  /\ \/ /\ slots[m][i].status = "locked"
        /\ slots' = [slots EXCEPT ![m][i].status = "open"]
     \/ /\ slots[m][i].status # "locked"
        /\ slots[m][i].player # p
        /\ slots' = [slots EXCEPT ![m][i].status = "locked"]
  /\ UNCHANGED <<online, stale, match, matches, host_id, referees, chat,
                 unlisted, clinging, tourney_clients, starting>>

\* !mp lock and !mp unlock.
SetAllSlots(p, m, from, to) ==
  /\ Commands(p, m)
  /\ slots' = [slots EXCEPT ![m] =
        [i \in SlotIds |-> IF slots[m][i].status = from
                           THEN [slots[m][i] EXCEPT !.status = to]
                           ELSE slots[m][i]]]
  /\ UNCHANGED <<online, stale, match, matches, host_id, referees, chat,
                 unlisted, clinging, tourney_clients, starting>>

mp_lock(p, m) == SetAllSlots(p, m, "open", "locked")
mp_unlock(p, m) == SetAllSlots(p, m, "locked", "open")

-----------------------------------------------------------------------------
(* Host and referees.                                                      *)

\* Mutated form of MatchTransferHost: the empty slot check is dropped.
MatchTransferHostToEmpty(p, m, i) ==
  /\ Handles(p) /\ match[p] = m /\ m # None
  /\ HostResolves(m) /\ host_id[m] = p
  /\ host_id' = [host_id EXCEPT ![m] = slots[m][i].player]
  /\ UNCHANGED <<online, stale, match, matches, slots, referees, chat,
                 unlisted, clinging, tourney_clients, starting>>

\* MatchTransferHost (host_id is assigned before the new host is looked up).
MatchTransferHost(p, m, i) ==
  /\ Handles(p) /\ match[p] = m /\ m # None
  /\ HostResolves(m) /\ host_id[m] = p
  /\ slots[m][i].player # None
  /\ host_id' = [host_id EXCEPT ![m] = slots[m][i].player]
  /\ UNCHANGED <<online, stale, match, matches, slots, referees, chat,
                 unlisted, clinging, tourney_clients, starting>>

\* !mp host.
mp_host(p, m, t) ==
  /\ Commands(p, m)
  /\ t \in online /\ t # host_id[m] /\ Seated(t, m)
  /\ host_id' = [host_id EXCEPT ![m] = t]
  /\ UNCHANGED <<online, stale, match, matches, slots, referees, chat,
                 unlisted, clinging, tourney_clients, starting>>

\* !mp addref.
mp_addref(p, m, t) ==
  /\ Commands(p, m)
  /\ t \in online /\ Seated(t, m)
  /\ t \notin referees[m] \cup {host_id[m]}
  /\ referees' = [referees EXCEPT ![m] = @ \cup {t}]
  /\ UNCHANGED <<online, stale, match, matches, slots, host_id, chat,
                 unlisted, clinging, tourney_clients, starting>>

\* !mp rmref.
mp_rmref(p, m, t) ==
  /\ Commands(p, m)
  /\ t \in online /\ t \in referees[m] /\ t # host_id[m]
  /\ referees' = [referees EXCEPT ![m] = @ \ {t}]
  /\ UNCHANGED <<online, stale, match, matches, slots, host_id, chat,
                 unlisted, clinging, tourney_clients, starting>>

-----------------------------------------------------------------------------
(* Starting a game, as far as the roster is concerned.                     *)

\* Mutated form of Start: empty slots are put in play too.
StartEverySlot(m) ==
  slots' = [slots EXCEPT ![m] =
     [i \in SlotIds |-> [slots[m][i] EXCEPT !.status = "taken"]]]

\* Match.start puts every occupied slot, a kicked player's too, in play.
Start(m) ==
  slots' = [slots EXCEPT ![m] =
     [i \in SlotIds |-> IF slots[m][i].player # None
                        THEN [slots[m][i] EXCEPT !.status = "taken"]
                        ELSE slots[m][i]]]

\* MatchStart, !mp start and !mp start force.  None of them cancels a timer.
MatchStart(p, m) ==
  /\ \/ /\ Handles(p) /\ match[p] = m /\ m # None
        /\ HostResolves(m) /\ host_id[m] = p
     \/ Commands(p, m)
  /\ Start(m)
  /\ UNCHANGED <<online, stale, match, matches, host_id, referees, chat,
                 unlisted, clinging, tourney_clients, starting>>

\* !mp start N.
mp_start_timer(p, m) ==
  /\ Commands(p, m)
  /\ starting[m] = None
  /\ starting' = [starting EXCEPT ![m] = p]
  /\ UNCHANGED <<online, stale, match, matches, slots, host_id, referees, chat,
                 unlisted, clinging, tourney_clients>>

\* !mp start cancel.
mp_start_cancel(p, m) ==
  /\ Commands(p, m)
  /\ starting[m] # None
  /\ starting' = [starting EXCEPT ![m] = None]
  /\ UNCHANGED <<online, stale, match, matches, slots, host_id, referees, chat,
                 unlisted, clinging, tourney_clients>>

\* The timer fires: the game starts unless whoever asked has left.
TimerFires(m) ==
  /\ starting[m] # None
  /\ starting' = [starting EXCEPT ![m] = None]
  /\ IF Seated(starting[m], m) THEN Start(m) ELSE slots' = slots
  /\ UNCHANGED <<online, stale, match, matches, host_id, referees, chat,
                 unlisted, clinging, tourney_clients>>

-----------------------------------------------------------------------------
(* Tourney clients: users who follow a match's chat without playing.       *)

\* Mutated form of TourneyJoinChannel: the client is not recorded.
TourneyJoinChannelUnrecorded(p, m) ==
  /\ Handles(p) /\ p \in Donators
  /\ Live(m)
  /\ ~Seated(p, m)
  /\ p \notin chat[m]
  /\ chat' = [chat EXCEPT ![m] = @ \cup {p}]
  /\ UNCHANGED <<online, stale, match, matches, rosterVars, unlisted, clinging,
                 tourney_clients>>

\* TourneyMatchJoinChannel.
TourneyJoinChannel(p, m) ==
  /\ Handles(p) /\ p \in Donators
  /\ Live(m)
  /\ ~Seated(p, m)
  /\ p \notin chat[m]
  /\ chat' = [chat EXCEPT ![m] = @ \cup {p}]
  /\ tourney_clients' = [tourney_clients EXCEPT ![m] = @ \cup {p}]
  /\ UNCHANGED <<online, stale, match, matches, rosterVars, unlisted, clinging>>

\* TourneyMatchLeaveChannel.
TourneyLeaveChannel(p, m) ==
  /\ Handles(p) /\ p \in Donators
  /\ Live(m)
  /\ p \in tourney_clients[m]
  /\ \/ /\ ~ChatBreaks(p, m)
        /\ LeaveChats(p, {m}) /\ UNCHANGED clinging
        /\ tourney_clients' = [tourney_clients EXCEPT ![m] = @ \ {p}]
     \/ LeaveChatsRaises(p, {}, m) /\ UNCHANGED tourney_clients
  /\ UNCHANGED <<online, stale, match, matches, rosterVars>>

-----------------------------------------------------------------------------
Session(p) == Login(p) \/ Logout(p) \/ RequestEnds(p)

Packet(p) ==
  \/ MatchCreate(p)
  \/ \E m \in Matches :
       \/ MatchJoin(p, m)
       \/ MatchPart(p, m)
       \/ SetStatus(p, m)
       \/ MatchStart(p, m)
       \/ TourneyJoinChannel(p, m)
       \/ TourneyLeaveChannel(p, m)
       \/ \E i \in SlotIds : \/ MatchChangeSlot(p, m, i)
                             \/ MatchLock(p, m, i)
                             \/ MatchTransferHost(p, m, i)

Command(p) ==
  \E m \in Matches :
    \/ mp_lock(p, m) \/ mp_unlock(p, m)
    \/ mp_start_timer(p, m) \/ mp_start_cancel(p, m)
    \/ \E t \in Players : \/ mp_host(p, m, t)
                          \/ mp_addref(p, m, t)
                          \/ mp_rmref(p, m, t)
                          \/ mp_force(p, t, m)

Next ==
  \/ \E p \in Players : Session(p) \/ Packet(p) \/ Command(p)
  \/ \E m \in Matches : TimerFires(m)

Spec == Init /\ [][Next]_vars

-----------------------------------------------------------------------------
(* Properties.                                                             *)

\* Type correctness of the state kept in app.state.sessions and in Match; a
\* listed match names a player, online or not, as its host.
TypeOK ==
  /\ online \subseteq Players
  /\ stale \subseteq Players
  /\ match \in [Players -> Matches \cup {None}]
  /\ matches \in [MatchIds -> Matches \cup {None}]
  /\ slots \in [Matches -> [SlotIds -> Slot]]
  /\ host_id \in [Matches -> Players \cup {None}]
  /\ referees \in [Matches -> SUBSET Players]
  /\ chat \in [Matches -> SUBSET Players]
  /\ unlisted \subseteq Matches
  /\ clinging \subseteq Players
  /\ tourney_clients \in [Matches -> SUBSET Players]
  /\ starting \in [Matches -> Players \cup {None}]
  /\ \A m \in Matches : Live(m) => host_id[m] \in Players

\* A player sits in at most one slot of the whole server, and in a slot of a
\* match only while player.match is that match, although slots are
\* overwritten by join_match and MatchChangeSlot, and leave_match may stop
\* half way.
SeatsExclusive ==
  \A p \in Players, m \in Matches, i \in SlotIds :
    Sits(p, m, i) =>
      /\ match[p] = m
      /\ \A j \in SlotIds : Sits(p, m, j) => i = j

\* Whoever sits in a match hears its chat, and the chat is heard by nobody
\* but members and tourney clients: join_match, leave_match, logout and the
\* tourney handlers keep the channel and the roster in step.
ChatFollowsRoster ==
  \A p \in Players, m \in Matches :
    /\ Seated(p, m) => p \in chat[m]
    /\ p \in chat[m] => match[p] = m \/ p \in tourney_clients[m]

\* "users cannot spectate themselves": a tourney client of a match never
\* plays in it, whichever of join_match and TourneyMatchJoinChannel is first.
TourneyClientsDoNotPlay ==
  \A p \in Players, m \in Matches : p \in tourney_clients[m] => ~Seated(p, m)

\* A referee of a listed match is in it: leave_match strikes off the ones who
\* go, so the power to run commands never outlives the membership.
RefereesAreMembers ==
  \A m \in Matches : Live(m) => \A p \in referees[m] : match[p] = m

\* The roster of every match is sound, whatever hosts lock, move and kick,
\* whichever leave_match stops half way and whoever logs out under a request:
\* one seat per player, chat and seats in step, tourney clients that do not
\* play and referees who are members.
RosterInv ==
  /\ SeatsExclusive
  /\ ChatFollowsRoster
  /\ TourneyClientsDoNotPlay
  /\ RefereesAreMembers

\* A slot nobody sits in is open or locked, never in a player's status: a
\* phantom `playing` slot would keep a game from ever completing.
NoPhantomSlot ==
  \A m \in Matches, i \in SlotIds :
    slots[m][i].player = None => slots[m][i].status # "taken"

\* A user whose logout went through left nothing behind: no seat, no chat,
\* no pointer to a match, no referee's power in a listed match.  (A user with
\* a request in flight at that time may come back; see Lagging.)
LogoutLeavesNothing ==
  \A p \in Players \ (online \cup Lagging) :
    /\ match[p] = None
    /\ \A m \in Matches : ~Seated(p, m) /\ p \notin chat[m]
    /\ \A m \in Matches : Live(m) => p \notin referees[m]

\* Nothing is left over of who went: no slot in a player's status without a
\* player (Slot.reset, start), no trace of a user whose logout went through.
NothingLeftOver == NoPhantomSlot /\ LogoutLeavesNothing

HostSeated(m) == \E p \in Players : host_id[m] = p /\ Seated(p, m)
Departs(p, m) == match[p] = m /\ match'[p] # m

\* What leave_match settles before the player forgets the match: a host who
\* leaves a match that goes on is replaced by somebody seated in it; the
\* departure of the last seated player drops the match from the list and
\* cancels its start timer, and no other departure drops it.
DeparturesAreComplete ==
  [][\A p \in Players, m \in Matches :
       Departs(p, m) /\ Live(m) =>
         /\ host_id[m] = p /\ Live(m)' => HostSeated(m)'
         /\ IF \E q \in Players : Seated(q, m)'
            THEN Live(m)' /\ starting'[m] = starting[m]
            ELSE ~Live(m)' /\ starting'[m] = None]_vars
=============================================================================
