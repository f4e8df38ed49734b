---------------------------- MODULE DiscordLinks ----------------------------
(***************************************************************************)
(* Linking an account to a Discord account over OAuth2.                    *)
(*                                                                         *)
(* begin_link mints a state token bound to the account that asked; Discord *)
(* sends the player back with that token and a code; complete_link spends  *)
(* the token, asks Discord twice over the network, looks whether the       *)
(* Discord account is taken and writes the link.  A callback may arrive    *)
(* twice, late, after the token has expired or with a token nobody issued, *)
(* and links of others may be written between the look and the write.      *)
(***************************************************************************)
EXTENDS Naturals

CONSTANTS Users,        \* accounts
          Discords,     \* Discord accounts
          States,       \* tokens: those that may be issued or made up
          Tasks,        \* callbacks under way at once
          MaxCallbacks  \* bound: callbacks that arrive

VARIABLES signedIn,     \* accounts with a web session
          oauth,        \* tokens alive in Redis -> the account each was issued for
          links,        \* rows: account -> its Discord account, and the flow it is from
          task,
          issued,       \* history: token -> account
          spent,        \* history: how often each token was taken
          callbacks

vars == <<signedIn, oauth, links, task, issued, spent, callbacks>>

Idle == [pc |-> "idle"]
Without(f, x) == [y \in DOMAIN f \ {x} |-> f[y]]
With(f, x, v) == [y \in DOMAIN f \cup {x} |-> IF y = x THEN v ELSE f[y]]
At(t, pc) == task[t].pc = pc
Return(t) == task' = [task EXCEPT ![t] = Idle]

Init ==
  /\ signedIn = {}
  /\ oauth = <<>> /\ links = <<>> /\ issued = <<>>
  /\ task = [t \in Tasks |-> Idle]
  /\ spent = [s \in States |-> 0]
  /\ callbacks = 0

(* POST and DELETE /sessions: the callback is answered with or without one. *)
create_session(user) ==
  /\ user \notin signedIn
  /\ signedIn' = signedIn \cup {user}
  /\ UNCHANGED <<oauth, links, task, issued, spent, callbacks>>

delete_current_session(user) ==
  /\ user \in signedIn
  /\ signedIn' = signedIn \ {user}
  /\ UNCHANGED <<oauth, links, task, issued, spent, callbacks>>

(* A fresh token is stored for the account, with an expiry. *)
begin_link(user, state) ==
  /\ state \notin DOMAIN issued
  /\ oauth' = With(oauth, state, user)
  /\ issued' = With(issued, state, user)
  /\ UNCHANGED <<signedIn, links, task, spent, callbacks>>

(* GET /oauth/discord/authorize: the account is that of the session. *)
begin_discord_link(user, state) == user \in signedIn /\ begin_link(user, state)

(* The token expires in Redis. *)
Expire(state) ==
  /\ state \in DOMAIN oauth
  /\ oauth' = Without(oauth, state)
  /\ UNCHANGED <<signedIn, links, task, issued, spent, callbacks>>

(* A slip: the token is read, and left to expire. *)
consume_Get(t, state, discord) ==
  /\ At(t, "idle") /\ callbacks < MaxCallbacks
  /\ callbacks' = callbacks + 1
  /\ state \in DOMAIN oauth
  /\ spent' = [spent EXCEPT ![state] = @ + 1]
  /\ task' = [task EXCEPT ![t] = [pc |-> "exchange", user |-> oauth[state],
                                 state |-> state, discord |-> discord]]
  /\ UNCHANGED <<signedIn, oauth, links, issued>>

(* GET /oauth/discord/callback with the code that Discord gave for one of its
   accounts: the token is read and deleted in one GETDEL; an unknown, spent or
   expired one ends the request. *)
consume(t, state, discord) ==
  /\ At(t, "idle") /\ callbacks < MaxCallbacks
  /\ callbacks' = callbacks + 1
  /\ IF state \notin DOMAIN oauth
     THEN UNCHANGED <<signedIn, oauth, spent, task>>
     ELSE /\ oauth' = Without(oauth, state)
          /\ spent' = [spent EXCEPT ![state] = @ + 1]
          /\ task' = [task EXCEPT ![t] = [pc |-> "exchange", user |-> oauth[state],
                                        state |-> state, discord |-> discord]]
  /\ UNCHANGED <<signedIn, links, issued>>

(* The token exchange and the identity request: Discord answers, or the call
   fails or returns what cannot be read, and the flow ends. *)
_exchange_code_for_token(t) ==
  /\ At(t, "exchange")
  /\ \/ task' = [task EXCEPT ![t].pc = "identity"]
     \/ Return(t)
  /\ UNCHANGED <<signedIn, oauth, links, issued, spent, callbacks>>

_fetch_discord_identity(t) ==
  /\ At(t, "identity")
  /\ \/ task' = [task EXCEPT ![t].pc = "existing"]
     \/ Return(t)
  /\ UNCHANGED <<signedIn, oauth, links, issued, spent, callbacks>>

(* The Discord account already backs another one: refused. *)
Holder(discord) == {u \in DOMAIN links : links[u].discord = discord}

fetch_by_discord_id(t) ==
  /\ At(t, "existing")
  /\ IF Holder(task[t].discord) \ {task[t].user} # {}
     THEN Return(t)
     ELSE task' = [task EXCEPT ![t].pc = "upsert"]
  /\ UNCHANGED <<signedIn, oauth, links, issued, spent, callbacks>>

(* INSERT ... ON DUPLICATE KEY UPDATE, with a primary key on the account and a
   unique key on the Discord account.  MySQL tries the primary key first: the
   row of the account is updated, unless that takes the Discord account of
   another, which is an error.  For an account without a row, the update falls
   on whichever row holds the Discord account, which stays that of its account,
   and the read that follows finds no row for ours. *)
upsert_link(t) ==
  /\ At(t, "upsert")
  /\ LET user == task[t].user
         others == Holder(task[t].discord) \ {user}
         row == [discord |-> task[t].discord, state |-> task[t].state]
     IN  IF others = {}
         THEN /\ links' = With(links, user, row)
              /\ task' = [task EXCEPT ![t].pc = "fetch"]
         ELSE /\ links' = links
              /\ task' = [task EXCEPT ![t].pc = IF user \in DOMAIN links THEN "raised" ELSE "fetch"]
  /\ UNCHANGED <<signedIn, oauth, issued, spent, callbacks>>

(* The row is read back, and asserted to be there. *)
_fetch(t) ==
  /\ At(t, "fetch")
  /\ IF task[t].user \in DOMAIN links
     THEN Return(t)
     ELSE task' = [task EXCEPT ![t].pc = "raised"]
  /\ UNCHANGED <<signedIn, oauth, links, issued, spent, callbacks>>

(* The request ends with an error of the server. *)
Raised(t) ==
  /\ At(t, "raised")
  /\ Return(t)
  /\ UNCHANGED <<signedIn, oauth, links, issued, spent, callbacks>>

(* DELETE /oauth/discord/link *)
unlink(user) ==
  /\ user \in signedIn
  /\ links' = Without(links, user)
  /\ UNCHANGED <<signedIn, oauth, task, issued, spent, callbacks>>

Next ==
  \/ \E u \in Users :
       \/ create_session(u) \/ delete_current_session(u) \/ unlink(u)
       \/ \E s \in States : begin_discord_link(u, s)
  \/ \E s \in States : Expire(s)
  \/ \E t \in Tasks :
       \/ _exchange_code_for_token(t) \/ _fetch_discord_identity(t)
       \/ fetch_by_discord_id(t) \/ upsert_link(t) \/ _fetch(t) \/ Raised(t)
       \/ \E s \in States, d \in Discords : consume(t, s, d)

Spec == Init /\ [][Next]_vars

-----------------------------------------------------------------------------
(* The two guarantees of services/social/discord_linking.py, kept while
   callbacks race, repeat and come late: a link belongs to the account that
   started the flow it is from, a token makes at most one link, and one
   Discord account backs at most one account. *)
LinksAreTheirs ==
  /\ \A u \in DOMAIN links : /\ links[u].state \in DOMAIN issued
                             /\ issued[links[u].state] = u
  /\ \A s \in States : spent[s] <= 1
  /\ \A u, v \in DOMAIN links : links[u].discord = links[v].discord => u = v

(* The docstring of complete_link: "Every step that can fail maps to a
   distinct LinkOutcome; nothing raises." *)
NothingRaises == \A t \in Tasks : ~At(t, "raised")
=============================================================================
