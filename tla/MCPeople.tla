------------------------------ MODULE MCPeople ------------------------------
(***************************************************************************)
(* What the server keeps about people: who may see whom, who hears whom,   *)
(* clans, accounts and linked Discord accounts. The models share no state, *)
(* so that interleaving them would show nothing: which of them runs is     *)
(* chosen at the start, and the states to look at add up instead of        *)
(* multiplying.  The configurations give small instances.                  *)
(***************************************************************************)
EXTENDS PublicView, TLC

CONSTANTS
  \* of Messaging
  ChatUsers, Moderators, Readers, Writers, MaxRequests, MaxMsgs,
  \* of Clans
  ClanUsers, ClanStaff, Hidden, Founded, Tags, MaxClans, MaxCommands,
  \* of Accounts
  Names, Emails, Passwords, Strong, MaxHashes, MaxTokens, MaxForms,
  \* of DiscordLinks
  LinkUsers, Discords, States, MaxCallbacks,
  MaxFaults

VARIABLES
  service,   \* which of them runs
  m_mem, m_members, m_relations, m_silences, m_mail, m_tasks, m_ops, m_msgs,
  m_faults, m_mixed, m_offence,
  c_clans, c_users, c_session, c_task, c_nextId, c_ops, c_faults,
  a_users, a_stats, a_cache, a_web, a_game, a_secret, a_task, a_tokens,
  a_ops, a_faults,
  d_signedIn, d_oauth, d_links, d_task, d_issued, d_spent, d_callbacks

m_vars == <<m_mem, m_members, m_relations, m_silences, m_mail, m_tasks, m_ops,
          m_msgs, m_faults, m_mixed, m_offence>>
c_vars == <<c_clans, c_users, c_session, c_task, c_nextId, c_ops, c_faults>>
a_vars == <<a_users, a_stats, a_cache, a_web, a_game, a_secret, a_task,
          a_tokens, a_ops, a_faults>>
d_vars == <<d_signedIn, d_oauth, d_links, d_task, d_issued, d_spent,
          d_callbacks>>
allvars == <<service, vars, m_vars, c_vars, a_vars, d_vars>>

\* The value of what belongs to a service that does not run.
Off == "off"

\* A player with a best score whose replay is stored, and a member of staff.
MCScores == {[user |-> "p", best |-> TRUE, map |-> TRUE, replay |-> TRUE]}
MCFriends == {<<"p", "s">>, <<"s", "p">>}

Chat == INSTANCE Messaging WITH
    Users <- ChatUsers, Staff <- Moderators, MaxOps <- MaxRequests,
    mem <- m_mem, members <- m_members, relations <- m_relations,
    silences <- m_silences, mail <- m_mail, tasks <- m_tasks, ops <- m_ops,
    msgs <- m_msgs, faults <- m_faults, mixed <- m_mixed,
    offence <- m_offence
ChatOff ==
  /\ m_mem = Off /\ m_members = Off /\ m_relations = Off
  /\ m_silences = Off /\ m_mail = Off /\ m_tasks = Off /\ m_ops = Off
  /\ m_msgs = Off /\ m_faults = Off /\ m_mixed = Off /\ m_offence = Off

Clubs == INSTANCE Clans WITH
    Users <- ClanUsers, Staff <- ClanStaff, MaxOps <- MaxCommands,
    clans <- c_clans, users <- c_users, session <- c_session, task <- c_task,
    nextId <- c_nextId, ops <- c_ops, faults <- c_faults
ClubsOff ==
  /\ c_clans = Off /\ c_users = Off /\ c_session = Off /\ c_task = Off
  /\ c_nextId = Off /\ c_ops = Off /\ c_faults = Off

Logins == INSTANCE Accounts WITH
    MaxOps <- MaxForms, users <- a_users, stats <- a_stats, cache <- a_cache,
    web <- a_web, game <- a_game, secret <- a_secret, task <- a_task,
    tokens <- a_tokens, ops <- a_ops, faults <- a_faults
LoginsOff ==
  /\ a_users = Off /\ a_stats = Off /\ a_cache = Off /\ a_web = Off
  /\ a_game = Off /\ a_secret = Off /\ a_task = Off /\ a_tokens = Off
  /\ a_ops = Off /\ a_faults = Off

Links == INSTANCE DiscordLinks WITH
    Users <- LinkUsers, signedIn <- d_signedIn, oauth <- d_oauth,
    links <- d_links, task <- d_task, issued <- d_issued, spent <- d_spent,
    callbacks <- d_callbacks
LinksOff ==
  /\ d_signedIn = Off /\ d_oauth = Off /\ d_links = Off /\ d_task = Off
  /\ d_issued = Off /\ d_spent = Off /\ d_callbacks = Off

-----------------------------------------------------------------------------
AllInit ==
  \/ service = "view" /\ Init /\ ChatOff /\ ClubsOff /\ LoginsOff /\ LinksOff
  \/ /\ service = "chat" /\ Chat!Init
     /\ Init /\ session = [u \in Users |-> Offline] /\ ClubsOff /\ LoginsOff /\ LinksOff
  \/ /\ service = "clans" /\ Clubs!Init
     /\ Init /\ session = [u \in Users |-> Offline] /\ ChatOff /\ LoginsOff /\ LinksOff
  \/ /\ service = "accounts" /\ Logins!Init
     /\ Init /\ session = [u \in Users |-> Offline] /\ ChatOff /\ ClubsOff /\ LinksOff
  \/ /\ service = "links" /\ Links!Init
     /\ Init /\ session = [u \in Users |-> Offline] /\ ChatOff /\ ClubsOff /\ LoginsOff

AllNext ==
  \/ /\ service = "view" /\ Next
     /\ UNCHANGED <<service, m_vars, c_vars, a_vars, d_vars>>
  \/ /\ service = "chat" /\ Chat!Next
     /\ UNCHANGED <<service, vars, c_vars, a_vars, d_vars>>
  \/ /\ service = "clans" /\ Clubs!Next
     /\ UNCHANGED <<service, vars, m_vars, a_vars, d_vars>>
  \/ /\ service = "accounts" /\ Logins!Next
     /\ UNCHANGED <<service, vars, m_vars, c_vars, d_vars>>
  \/ /\ service = "links" /\ Links!Next
     /\ UNCHANGED <<service, vars, m_vars, c_vars, a_vars>>

AllSpec == AllInit /\ [][AllNext]_allvars

\* Requests under way are interchangeable.
AllSymmetry == Permutations(Tasks)

-----------------------------------------------------------------------------
(* What they are checked for.                                              *)

\* Those of PublicView are checked under their own names.

\* Messages do not reach who blocked their author, nor come from who is silenced
\* (Channel.send, SendPrivateMessage): see Messaging.
UnwelcomeAreUnheard == service = "chat" => Chat!UnwelcomeAreUnheard

\* Members are in the clan that lists them (leave_clan, disband_clan): see Clans.
MembersHaveTheirClan == service = "clans" => Clubs!MembersHaveTheirClan

\* Registration leaves whole accounts (create_account): see Accounts.
AccountsAreWhole == service = "accounts" => Logins!AccountsAreWhole

\* A password is accepted or refused rightly (check_password): see Accounts.
AnswersAreRight == service = "accounts" => Logins!AnswersAreRight

\* A linked Discord account was linked by the account it is linked to
\* (complete_link, consume): see DiscordLinks.
LinksAreTheirs == service = "links" => Links!LinksAreTheirs

\* What the code's documentation promises and it does not keep: see Messaging,
\* Clans, Accounts, DiscordLinks and MCPeople_refuted.cfg.
BlockedSendNoMail == service = "chat" => Chat!BlockedSendNoMail
OwnersBelong == service = "clans" => Clubs!OwnersBelong
OnlineStayRecognised == service = "accounts" => Logins!OnlineStayRecognised
NothingRaises == service = "links" => Links!NothingRaises
=============================================================================
