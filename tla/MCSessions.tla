----------------------------- MODULE MCSessions -----------------------------
(***************************************************************************)
(* Small instances of Sessions, and what comments, docstrings and tests    *)
(* say of sessions where the code does otherwise.                          *)
(***************************************************************************)
EXTENDS Sessions, TLC

CONSTANTS a1, a2, t, b

\* A user who logs in twice and with a tourney client, and another user.
MCUser == [s \in Sessions |-> IF s = b THEN "b" ELSE "a"]
MCFirstName == [u \in Users |-> u]

-----------------------------------------------------------------------------
\* app/api/domains/cho.py:706: "disallow multiple sessions from a single user
\* with the exception of tourney spectator clients".
OneSessionPerUser ==
  \A s, r \in Listed \ Tourney : User[s] = User[r] => s = r

\* tests/unit/objects/collections_test.py:18: append and remove "keep lookup
\* indexes synchronized".
ListedIsFoundById == \A s \in Listed : registry.by_id[User[s]] # None

\* app/services/account_settings.py:107: update_profile is to apply an update
\* "keeping the game server's session cache [...] consistent".  Stated where no
\* update is under way.
ListedIsFoundByName ==
  (\A u \in Users : renaming[u] = None) =>
    \A s \in Listed : name[s] = account[User[s]] => registry.by_name[name[s]] = s

\* app/bg_loops.py:169: the sweep is to "Actively disconnect users above the
\* disconnection time threshold on the osu! server."
EveryGhostIsDisconnected ==
  \A s \in Sessions :
    s \in Listed /\ recv[s] = "ghost" ~> s \notin Listed \/ recv[s] # "ghost"
=============================================================================
