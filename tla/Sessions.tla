------------------------------ MODULE Sessions ------------------------------
(***************************************************************************)
(* Logging in and out, and the indexes of the players who are online.      *)
(*                                                                         *)
(* app.state.sessions.players is a list of Player objects with an index by *)
(* token, one by user id and one by name.  A login looks for an existing   *)
(* session, then awaits the database and the geolocation many times, and   *)
(* appends its Player object at the end; tourney clients may share a user. *)
(* Names change meanwhile, from the game (!changename) and from the web    *)
(* (update_profile).  Every removal deletes the entries under the player's *)
(* id and present name, whoever they point to, and raises KeyError when    *)
(* there is none.                                                          *)
(*                                                                         *)
(* A logout leaves the match first.  Lobby shows how a player comes to be  *)
(* in a match without a seat; such a player is displaced for good, because *)
(* whatever would take it out of the match asserts that it has one.  Here  *)
(* any listed player may be displaced at any time.                         *)
(***************************************************************************)
EXTENDS Naturals, SequencesExt

CONSTANTS Sessions,    \* login requests, and the Player objects they make
          User,        \* the user id of every session
          Tourney,     \* sessions of tourney clients
          Names,       \* user names
          FirstName,   \* the name each user starts with
          MaxRenames,  \* bound: renames in one behaviour
          None

Users == {User[s] : s \in Sessions}

ASSUME SessionsAssumption ==
  /\ Tourney \subseteq Sessions
  /\ FirstName \in [Users -> Names] /\ IsInjective(FirstName)
  /\ MaxRenames \in Nat
  /\ None \notin Sessions \cup Names

VARIABLES
  account,   \* users.name, unique in the table
  step,      \* how far each login has come
  name,      \* the name in each login request, then player.name
  recv,      \* how long ago player.last_recv_time is
  registry,  \* app.state.sessions.players, and which tokens are set
  renaming,  \* profile updates committed and not yet applied in memory
  leaving,   \* sessions that !changename is about to log out
  sweep,     \* the position the ghost sweep is at in the list, 1 if none runs
  displaced, \* players in a match that has no seat for them
  renames    \* renames so far

vars == <<account, step, name, recv, registry, renaming, leaving, sweep, displaced,
          renames>>

Init ==
  /\ account = FirstName
  /\ step = [s \in Sessions |-> "new"]
  /\ name = [s \in Sessions |-> None]
  /\ recv = [s \in Sessions |-> "active"]
  /\ registry = [players |-> <<>>, by_token |-> {}, online |-> {}, raised |-> FALSE,
                 by_id |-> [u \in Users |-> None], by_name |-> [n \in Names |-> None]]
  /\ renaming = [u \in Users |-> None]
  /\ leaving = {}
  /\ sweep = 1
  /\ displaced = {}
  /\ renames = 0

Listed == Range(registry.players)

-----------------------------------------------------------------------------
(* The collection.  A registry is the list, its indexes, the sessions whose *)
(* token is not invalidated, and whether the last operation raised.         *)

\* Players.append.
Appended(r, s) ==
  [r EXCEPT !.players = Append(@, s), !.by_token = @ \cup {s},
            !.by_id[User[s]] = s, !.by_name[name[s]] = s, !.online = @ \cup {s}]

\* Mutated form of Removed: the list is the last to forget the player.
RemovedListLast(r, s) ==
  IF s \notin Range(r.players) THEN r
  ELSE IF r.by_id[User[s]] = None THEN [r EXCEPT !.raised = TRUE]
  ELSE IF r.by_name[name[s]] = None
  THEN [r EXCEPT !.by_id[User[s]] = None, !.raised = TRUE]
  ELSE [r EXCEPT !.players = RemoveFirst(@, s), !.by_token = @ \ {s},
                 !.by_id[User[s]] = None, !.by_name[name[s]] = None]

\* Players.remove: list and token, then the id, then the name.
Removed(r, s) ==
  LET unlisted == [r EXCEPT !.players = RemoveFirst(@, s), !.by_token = @ \ {s}]
      unidentified == [unlisted EXCEPT !.by_id[User[s]] = None]
  IN  IF s \notin Range(r.players) THEN r
      ELSE IF r.by_id[User[s]] = None THEN [unlisted EXCEPT !.raised = TRUE]
      ELSE IF r.by_name[name[s]] = None THEN [unidentified EXCEPT !.raised = TRUE]
      ELSE [unidentified EXCEPT !.by_name[name[s]] = None]

\* Mutated form of LoggedOut: the token is invalidated first, so that the
\* index by token is left alone and the removal stops there.
LoggedOutTokenFirst(r, s) ==
  IF s \in displaced THEN [r EXCEPT !.raised = TRUE]
  ELSE IF s \notin Range(r.players) THEN [r EXCEPT !.online = @ \ {s}, !.raised = FALSE]
  ELSE [r EXCEPT !.online = @ \ {s}, !.raised = TRUE,
                 !.players = RemoveFirst(@, s)]

\* Player.logout: the match is left first, which fails for a displaced player;
\* the token is invalidated once the removal went through.
LoggedOut(r, s) ==
  LET removed == Removed([r EXCEPT !.raised = FALSE], s)
  IN  IF s \in displaced THEN [r EXCEPT !.raised = TRUE]
      ELSE IF removed.raised THEN removed ELSE [removed EXCEPT !.online = @ \ {s}]

-----------------------------------------------------------------------------
(* handle_osu_login_request.                                               *)

Goes(s, to) == step' = [step EXCEPT ![s] = to]

\* Up to the first await: a session found under the name that was typed is
\* replaced, unless it is active or this is a tourney client; an exception
\* ends the request.
CheckExisting(s, n) ==
  /\ step[s] = "new"
  /\ name' = [name EXCEPT ![s] = n]
  /\ LET found == registry.by_name[n]
     IN  IF found = None \/ s \in Tourney
         THEN Goes(s, "checked") /\ UNCHANGED registry
         ELSE IF recv[found] = "active" THEN Goes(s, "refused") /\ UNCHANGED registry
         ELSE /\ registry' = LoggedOut(registry, found)
              /\ Goes(s, IF registry'.raised THEN "refused" ELSE "checked")
  /\ UNCHANGED <<account, recv, renaming, leaving, renames>>

\* authenticate reads the user under the name; the login is refused if there
\* is none, or for the password, the client, the hardware or the location.
Authenticate(s) ==
  /\ step[s] = "checked"
  /\ \/ account[User[s]] = name[s] /\ Goes(s, "authenticated")
     \/ Goes(s, "refused")
  /\ UNCHANGED <<account, name, recv, registry, renaming, leaving, renames>>

\* The Player object, built from the user read above, is appended.
FinishLogin(s) ==
  /\ step[s] = "authenticated"
  /\ registry' = Appended(registry, s)
  /\ recv' = [recv EXCEPT ![s] = "active"]
  /\ Goes(s, "in")
  /\ UNCHANGED <<account, name, renaming, leaving, renames>>

-----------------------------------------------------------------------------
(* While it is online.                                                     *)

\* A request of the client: its token is looked up.
Request(s) ==
  /\ s \in registry.by_token
  /\ recv' = [recv EXCEPT ![s] = "active"]
  /\ UNCHANGED <<account, step, name, registry, renaming, leaving, renames>>

\* Nothing comes for 10 seconds, then for OSU_CLIENT_MIN_PING_INTERVAL.
Silence(s) ==
  /\ s \in Listed /\ recv[s] # "ghost"
  /\ recv' = [recv EXCEPT ![s] = IF @ = "active" THEN "idle" ELSE "ghost"]
  /\ UNCHANGED <<account, step, name, registry, renaming, leaving, renames>>

\* The LOGOUT packet, !reconnect, a restriction, a client integrity check.
Logout(s) ==
  /\ s \in Listed
  /\ registry' = LoggedOut(registry, s)
  /\ UNCHANGED <<account, step, name, recv, renaming, leaving, renames>>

\* One player of _disconnect_ghosts, which nothing interrupts and which iterates
\* over the list it removes players from: the one after a removed player is
\* passed over, and an exception ends the pass.
DisconnectGhosts ==
  /\ sweep > 1 \/ \E s \in Listed : recv[s] = "ghost"
  /\ LET s == registry.players[sweep]
     IN  registry' = IF recv[s] = "ghost" THEN LoggedOut(registry, s)
                     ELSE [registry EXCEPT !.raised = FALSE]
  /\ sweep' = IF registry'.raised \/ sweep >= Len(registry'.players) THEN 1 ELSE sweep + 1
  /\ UNCHANGED <<account, step, name, recv, renaming, leaving, displaced, renames>>

\* Somebody else sits down on the player's seat, or leave_match gives the seat
\* up and raises at Match.host before player.match is cleared.
Displace(s) ==
  /\ s \in Listed \ displaced
  /\ displaced' = displaced \cup {s}
  /\ UNCHANGED <<account, step, name, recv, registry, renaming, leaving, renames>>

-----------------------------------------------------------------------------
(* Names.                                                                  *)

\* A free name is written to the users table.
Takes(u, n) ==
  /\ renames < MaxRenames /\ renames' = renames + 1
  /\ \A v \in Users : account[v] # n
  /\ account' = [account EXCEPT ![u] = n]

\* !changename: the name is written ...
ChangeName(s) ==
  /\ s \in Listed /\ s \notin leaving
  /\ \E n \in Names : Takes(User[s], n)
  /\ leaving' = leaving \cup {s}
  /\ UNCHANGED <<step, name, recv, registry, renaming>>

\* ... and the player is logged out.
ChangeNameEnds(s) ==
  /\ s \in leaving
  /\ leaving' = leaving \ {s}
  /\ registry' = LoggedOut(registry, s)
  /\ UNCHANGED <<account, step, name, recv, renaming, renames>>

\* update_profile: the name is written ...
UpdateProfile(u) ==
  /\ renaming[u] = None
  /\ \E n \in Names : Takes(u, n) /\ renaming' = [renaming EXCEPT ![u] = n]
  /\ UNCHANGED <<step, name, recv, registry, leaving>>

\* ... and the Player object found by id is given it.
UpdateProfileEnds(u) ==
  /\ renaming[u] # None
  /\ renaming' = [renaming EXCEPT ![u] = None]
  /\ name' = IF registry.by_id[u] = None THEN name
             ELSE [name EXCEPT ![registry.by_id[u]] = renaming[u]]
  /\ UNCHANGED <<account, step, recv, registry, leaving, renames>>

Handler ==
  \/ \E u \in Users : UpdateProfile(u) \/ UpdateProfileEnds(u)
  \/ \E s \in Sessions :
       \/ \E n \in Names : CheckExisting(s, n)
       \/ Authenticate(s) \/ FinishLogin(s)
       \/ Request(s) \/ Silence(s) \/ Logout(s)
       \/ ChangeName(s) \/ ChangeNameEnds(s)

Next ==
  \/ DisconnectGhosts
  \/ /\ sweep = 1 /\ sweep' = 1
     /\ \/ Handler /\ displaced' = displaced
        \/ \E s \in Sessions : Displace(s)

Spec == Init /\ [][Next]_vars

\* The supervised sweep runs again and again.
FairSpec == Spec /\ WF_vars(DisconnectGhosts)

-----------------------------------------------------------------------------
(* Properties.                                                             *)

\* Type correctness; the same Player object is not listed twice, and only what
\* completed its login is.
TypeOK ==
  /\ account \in [Users -> Names]
  /\ step \in [Sessions -> {"new", "checked", "authenticated", "in", "refused"}]
  /\ name \in [Sessions -> Names \cup {None}]
  /\ recv \in [Sessions -> {"active", "idle", "ghost"}]
  /\ registry.players \in Seq(Sessions) /\ IsInjective(registry.players)
  /\ \A s \in Listed : step[s] = "in"
  /\ registry.by_token \subseteq Sessions /\ registry.online \subseteq Sessions
  /\ registry.raised \in BOOLEAN
  /\ registry.by_id \in [Users -> Sessions \cup {None}]
  /\ registry.by_name \in [Names -> Sessions \cup {None}]
  /\ renaming \in [Users -> Names \cup {None}]
  /\ leaving \subseteq Sessions
  /\ sweep \in {1} \cup 1..Len(registry.players)
  /\ displaced \subseteq Sessions
  /\ renames \in 0..MaxRenames

\* A token names a listed player, and every listed player has a valid one:
\* no request acts for a player who is gone, whichever removals raised.
TokensAreListed ==
  registry.by_token = Listed /\ Listed \subseteq registry.online

\* Who is found by user id is online and is that user, though one session's
\* removal deletes the entry another session put there: what Match.host,
\* spectating and update_profile find is never a dead Player object.
IdsFindListed ==
  \A u \in Users : LET s == registry.by_id[u]
                   IN  s # None => s \in Listed /\ User[s] = u

\* The same of names, until somebody is renamed: whom a login replaces and
\* for whom a score is submitted (authenticate_online_player) is online.
NamesFindListed ==
  renames = 0 => \A n \in Names : LET s == registry.by_name[n]
                                  IN  s # None => s \in Listed /\ name[s] = n

\* Together: whatever order of logins, removals that raise half way, renames and
\* sweeps, whom a request, Match.host or a login finds is online (Players.append,
\* remove and get).
IndexInv == TypeOK /\ TokensAreListed /\ IdsFindListed /\ NamesFindListed

\* A pass of the sweep ends at a displaced ghost, whose logout raises.
SweepEndsBefore(s) ==
  \E i, j \in DOMAIN registry.players :
    /\ i <= j /\ registry.players[j] = s
    /\ registry.players[i] \in displaced /\ recv[registry.players[i]] = "ghost"

\* A client that has stopped talking is disconnected in the end, although the
\* sweep passes over players and stops at the first exception, unless it or
\* somebody before it in the list is a ghost who can not be logged out
\* (_disconnect_ghosts, Player.logout).
GhostsAreDisconnected ==
  \A s \in Sessions :
    s \in Listed /\ recv[s] = "ghost"
      ~> s \notin Listed \/ recv[s] # "ghost" \/ SweepEndsBefore(s)
=============================================================================
