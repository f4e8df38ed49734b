------------------------- MODULE MCSpectatorHistory -------------------------
(***************************************************************************)
(* A small instance of Spectating and SpectatorHistory, and what comments  *)
(* and docstrings say of them where the code does otherwise.               *)
(***************************************************************************)
EXTENDS SpectatorHistory, TLC

CONSTANTS h1, h2, v1, w1

\* A host who connects twice and two viewers.
MCUser == h1 :> "host" @@ h2 :> "host" @@ v1 :> "viewer" @@ w1 :> "fellow"

-----------------------------------------------------------------------------
\* app/services/spectator/spectator_history.py:6: "Both sides are live
\* attributes that exist only for the connection and are gone on logout".
GoneOnLogout == \A s \in ended : spectators[s] = {}

\* app/objects/player.py:863: when a host has no spectators left,
\* remove_spectator is to "remove host from channel, deleting it".
ChannelGoesWithLastSpectator ==
  [][\A h \in online :
       spectators[h] # {} /\ spectators'[h] = {} => channel'[User[h]] = {}]_vars

\* app/objects/player.py:843, remove_spectator: the id is captured and cleared
\* "so the fire-and-forget close targets this exact session".
CloseTargetsItsSession == \A c \in closing : c.row = c.watch

\* app/repositories/spectator_sessions.py:17: NULL "marks a session that was
\* still open when the server last ran".  Stated where no task is in flight.
OpenRowIsOpenSession ==
  closing = {} /\ (\A n \in Watches : opening[n] \in {"idle", "done"}) =>
    \A n \in Watches :
      row[n] = "open" => \E s \in Sessions : current[s] = n
=============================================================================
