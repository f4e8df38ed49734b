------------------------------- MODULE MCLobby -------------------------------
(***************************************************************************)
(* Small instances of Lobby, and what comments, docstrings and assertions  *)
(* of the source say about the roster where the code does otherwise.       *)
(***************************************************************************)
EXTENDS Lobby, TLC

\* Match objects are interchangeable, and so are players where Managers, Donators
\* and Lagging are given none or all of them.
Matchwise == Permutations(Matches)
Symmetry == Permutations(Players) \cup Matchwise

\* The fields of a Match object nothing refers to are never read again.
View == <<online, stale, match, matches, clinging,
          [m \in Matches |->
             IF Unused(m) THEN <<>>
             ELSE <<slots[m], host_id[m], referees[m], chat[m], m \in unlisted,
                    tourney_clients[m], starting[m]>>]>>

\* A bound of the instance with two listed matches: no `!mp start N` is pending.
\* The instance with three players has the timers.
TimersOff == \A m \in Matches : starting[m] = None

-----------------------------------------------------------------------------
\* app/objects/match.py:276, get_free: "Return the first unoccupied slot in
\* multi, if any."  join_match puts the player into that slot.
FreeSlotIsUnoccupied ==
  \A m \in Matches, i \in SlotIds : IsFree(m, i) => slots[m][i].player = None

\* app/objects/player.py:649 and every slot handler of cho.py: `assert slot is
\* not None` for a player whose player.match is set.
MemberHasSlot ==
  \A p \in online, m \in Matches : match[p] = m => Seated(p, m)

\* app/services/multiplayer/match_history.py:4: the Match object is "created
\* on a lobby open [...] and dropped when the last player leaves".
ListedLobbyIsOccupied ==
  \A m \in Matches : Live(m) => \E p \in Players : Seated(p, m)

\* app/objects/player.py:595, join_match on an id in match.tourney_clients:
\* "the user is already in the match with a tourney client."
TourneyClientIsInChat ==
  \A p \in Players, m \in Matches : p \in tourney_clients[m] => p \in chat[m]

\* app/api/domains/cho.py:1619: "should always exist".  While a match is listed,
\* its host is online and sits in it.
HostHasSlot ==
  \A m \in Matches : Live(m) /\ host_id[m] \in online => Seated(host_id[m], m)

\* app/objects/player.py:399: "leave channels", which logout goes on with until
\* player.channels is empty; leave_channel does nothing for a channel that does
\* not hold the player.
ChannelsCanBeLeft == clinging = {}
=============================================================================
