------------------------------- MODULE Clans -------------------------------
(***************************************************************************)
(* Clans: founding, disbanding, leaving and handing over.                  *)
(*                                                                         *)
(* Membership is kept three times: in the row of the clan (its owner), in  *)
(* the rows of the players (clan_id, clan_priv) and in the sessions of     *)
(* those who are online.  Every command of services/clans.py reads with    *)
(* one await per query, decides, writes in one transaction and then brings *)
(* the sessions in line; other commands run at each of these awaits.  No   *)
(* command of the program adds a member: who is in a clan that they did    *)
(* not found was put there in the database, before the first state.        *)
(*                                                                         *)
(* The name and the tag of a clan, both unique, are one value here.        *)
(***************************************************************************)
EXTENDS Naturals

CONSTANTS Users,        \* player accounts
          Staff,        \* those who may disband the clan of others
          Hidden,       \* restricted or unverified: they give no commands
          Founded,      \* the members of clan 1, which exists at the start
          Tags,         \* names of clans
          Tasks,        \* commands under way at once
          MaxClans,     \* bound: clans ever founded
          MaxOps,       \* bound: commands ever given
          MaxFaults     \* bound: queries that fail

VARIABLES clans,        \* id of a clan -> its row
          users,        \* account -> clan_id and clan_priv of its row
          session,      \* account -> whether it is online, and its clan there
          task,         \* commands under way
          nextId, ops, faults

vars == <<clans, users, session, task, nextId, ops, faults>>

NoClan == [clan |-> 0, priv |-> "none"]
Idle == [op |-> "idle"]
Offline == [on |-> FALSE, clan |-> 0, priv |-> "none"]
Listed(row) == [on |-> TRUE, clan |-> row.clan, priv |-> row.priv]

(* fetch_one of the repository, by id and by tag *)
fetch_one(id) == id \in DOMAIN clans
fetch_tag(tag) == {id \in DOMAIN clans : clans[id].tag = tag}

(* a slip: the query that the pages of a clan use, without hidden members *)
fetch_many_Visible(id) == {u \in Users \ Hidden : users[u].clan = id}

(* users.fetch_many(clan_id, include_hidden=True) *)
fetch_many(id) == {u \in Users : users[u].clan = id}

(* !clan info: hidden members are listed for staff and themselves only; a
   rank is looked up by clan_priv - 1, which is the last one for 0 *)
priv_str(priv) == IF priv = "none" THEN "owner" ELSE priv
clan_info(viewer, id) ==
  {<<u, priv_str(users[u].priv)>> : u \in
     {m \in fetch_many(id) : m \notin Hidden \/ viewer \in Staff \/ viewer = m}}

Init ==
  \E owner \in Founded, tag \in Tags :
    /\ clans = [c \in {1} |-> [tag |-> tag, owner |-> owner]]
    /\ users = [u \in Users |->
                  IF u \notin Founded THEN NoClan
                  ELSE [clan |-> 1, priv |-> IF u = owner THEN "owner" ELSE "member"]]
    /\ session = [u \in Users |-> Offline]
    /\ task = [t \in Tasks |-> Idle]
    /\ nextId = 2 /\ ops = 0 /\ faults = 0

-----------------------------------------------------------------------------
(* A command goes on at its next await, or ends. *)
At(t, op, pc) == task[t].op = op /\ task[t].pc = pc
Goto(t, pc) == task' = [task EXCEPT ![t].pc = pc]
Return(t) == task' = [task EXCEPT ![t] = Idle]
Stored == <<clans, users, nextId>>
Bounds == <<ops, faults>>

(* A player gives a command in chat: the first query of its handler returns. *)
Begin(t, record) ==
  /\ task[t].op = "idle" /\ ops < MaxOps
  /\ ops' = ops + 1
  /\ task' = [task EXCEPT ![t] = record]
  /\ UNCHANGED <<Stored, session, faults>>

MayCommand(u) == u \notin Hidden /\ session[u].on

(* A session takes over what a command has stored, if its player is online. *)
_sync_online_clan_state(who, as) ==
  session' = [u \in Users |->
     IF u \in who /\ session[u].on THEN Listed(as[u]) ELSE session[u]]

-----------------------------------------------------------------------------
(* !clan create: services/clans.py create_clan *)
create_clan(t, u, tag) ==
  /\ MayCommand(u)
  /\ Begin(t, [op |-> "create", pc |-> "current", user |-> u, tag |-> tag, row |-> users[u]])

CreateCurrent(t) ==
  /\ At(t, "create", "current")
  /\ IF task[t].row.clan # 0 /\ fetch_one(task[t].row.clan) THEN Return(t) ELSE Goto(t, "taken")
  /\ UNCHANGED <<Stored, session, Bounds>>

CreateTaken(t) ==
  /\ At(t, "create", "taken")
  /\ IF fetch_tag(task[t].tag) # {} THEN Return(t) ELSE Goto(t, "commit")
  /\ UNCHANGED <<Stored, session, Bounds>>

(* The unique keys of the table, on the tag and on the owner, make the insert
   fail and the transaction roll back. *)
CreateCommit(t) ==
  /\ At(t, "create", "commit")
  /\ LET u == task[t].user
         clash == \E c \in DOMAIN clans : clans[c].tag = task[t].tag \/ clans[c].owner = u
     IN  IF clash
         THEN Return(t) /\ UNCHANGED Stored
         ELSE /\ nextId <= MaxClans
              /\ clans' = [c \in DOMAIN clans \cup {nextId} |->
                            IF c = nextId THEN [tag |-> task[t].tag, owner |-> u] ELSE clans[c]]
              /\ users' = [users EXCEPT ![u] = [clan |-> nextId, priv |-> "owner"]]
              /\ nextId' = nextId + 1
              /\ task' = [task EXCEPT ![t] = [op |-> "sync", pc |-> "sync", who |-> {u},
                                             as |-> [x \in {u} |-> users'[x]]]]
  /\ UNCHANGED <<session, Bounds>>

-----------------------------------------------------------------------------
(* !clan disband: the clan of the player's session, or for staff any clan by
   its tag.  Any member may disband: the handler does not ask for the owner. *)
clan_disband(t, u) ==
  /\ MayCommand(u)
  /\ \E c \in DOMAIN clans :
       /\ u \in Staff \/ session[u].clan = c
       /\ Begin(t, [op |-> "disband", pc |-> "clan", clan |-> c])

(* disband_clan looks the clan up again; None fails the handler's assertion. *)
DisbandClan(t) ==
  /\ At(t, "disband", "clan")
  /\ IF fetch_one(task[t].clan) THEN Goto(t, "members") ELSE Return(t)
  /\ UNCHANGED <<Stored, session, Bounds>>

DisbandMembers(t) ==
  /\ At(t, "disband", "members")
  /\ task' = [task EXCEPT ![t] = [op |-> "disband", pc |-> "commit", clan |-> task[t].clan,
                                 members |-> fetch_many(task[t].clan)]]
  /\ UNCHANGED <<Stored, session, Bounds>>

DisbandCommit(t) ==
  /\ At(t, "disband", "commit")
  /\ clans' = [c \in DOMAIN clans \ {task[t].clan} |-> clans[c]]
  /\ users' = [u \in Users |-> IF u \in task[t].members THEN NoClan ELSE users[u]]
  /\ task' = [task EXCEPT ![t] = [op |-> "sync", pc |-> "sync", who |-> task[t].members,
                                 as |-> [u \in task[t].members |-> NoClan]]]
  /\ UNCHANGED <<nextId, session, Bounds>>

-----------------------------------------------------------------------------
(* !clan leave: services/clans.py leave_clan *)
leave_clan(t, u) ==
  /\ MayCommand(u)
  /\ users[u].clan # 0 /\ users[u].priv # "owner"
  /\ Begin(t, [op |-> "leave", pc |-> "clan", user |-> u, clan |-> users[u].clan])

LeaveClan(t) ==
  /\ At(t, "leave", "clan")
  /\ IF fetch_one(task[t].clan) THEN Goto(t, "members") ELSE Return(t)
  /\ UNCHANGED <<Stored, session, Bounds>>

LeaveMembers(t) ==
  /\ At(t, "leave", "members")
  /\ task' = [task EXCEPT ![t] =
       [op |-> "leave", pc |-> "commit", user |-> task[t].user, clan |-> task[t].clan,
        remaining |-> fetch_many(task[t].clan) \ {task[t].user}]]
  /\ UNCHANGED <<Stored, session, Bounds>>

LeaveCommit(t) ==
  /\ At(t, "leave", "commit")
  /\ LET u == task[t].user IN
       /\ users' = [users EXCEPT ![u] = NoClan]
       /\ clans' = IF task[t].remaining # {} THEN clans
                   ELSE [c \in DOMAIN clans \ {task[t].clan} |-> clans[c]]
       /\ task' = [task EXCEPT ![t] = [op |-> "sync", pc |-> "sync", who |-> {u},
                                      as |-> [x \in {u} |-> NoClan]]]
  /\ UNCHANGED <<nextId, session, Bounds>>

-----------------------------------------------------------------------------
(* !clan transfer: services/clans.py transfer_clan_ownership *)
transfer_clan_ownership(t, u, target) ==
  /\ MayCommand(u)
  /\ users[u].clan # 0 /\ users[u].priv = "owner"
  /\ Begin(t, [op |-> "transfer", pc |-> "clan", user |-> u, clan |-> users[u].clan,
               target |-> target])

TransferClan(t) ==
  /\ At(t, "transfer", "clan")
  /\ IF fetch_one(task[t].clan) THEN Goto(t, "target") ELSE Return(t)
  /\ UNCHANGED <<Stored, session, Bounds>>

TransferTarget(t) ==
  /\ At(t, "transfer", "target")
  /\ LET target == task[t].target
         refused == \/ users[target].clan # task[t].clan
                    \/ target \in Hidden /\ task[t].user \notin Staff
                    \/ target = task[t].user
     IN  IF refused THEN Return(t) ELSE Goto(t, "commit")
  /\ UNCHANGED <<Stored, session, Bounds>>

(* The rows are found by id alone: the clan may be gone, the target may have
   left, and clan_id is not written.  A target who has founded a clan meanwhile
   makes the unique key on the owner fail the update, and all of it is rolled
   back. *)
TransferCommit(t) ==
  /\ At(t, "transfer", "commit")
  /\ LET c == task[t].clan
         u == task[t].user
         target == task[t].target
         clash == c \in DOMAIN clans /\ \E i \in DOMAIN clans \ {c} : clans[i].owner = target
     IN  IF clash
         THEN Return(t) /\ UNCHANGED Stored
         ELSE /\ clans' = [i \in DOMAIN clans |->
                             IF i = c THEN [clans[i] EXCEPT !.owner = target] ELSE clans[i]]
              /\ users' = [users EXCEPT ![target].priv = "owner", ![u].priv = "officer"]
              /\ task' = [task EXCEPT ![t] = [op |-> "sync", pc |-> "sync", who |-> {u, target},
                            as |-> [x \in {u, target} |->
                                      [clan |-> c, priv |-> IF x = target THEN "owner" ELSE "officer"]]]]
              /\ UNCHANGED nextId
  /\ UNCHANGED <<session, Bounds>>

-----------------------------------------------------------------------------
(* The commit has returned: the sessions follow. *)
Sync(t) ==
  /\ At(t, "sync", "sync")
  /\ _sync_online_clan_state(task[t].who, task[t].as)
  /\ Return(t)
  /\ UNCHANGED <<Stored, Bounds>>

(* A query fails: the handler ends, a transaction is rolled back. *)
QueryFails(t) ==
  /\ task[t].op \notin {"idle", "sync"} /\ faults < MaxFaults
  /\ faults' = faults + 1
  /\ Return(t)
  /\ UNCHANGED <<Stored, session, ops>>

(* Login reads the player's row and lists the session some awaits later. *)
LoginRead(t, u) ==
  /\ ~session[u].on
  /\ \A o \in Tasks : task[o].op = "login" => task[o].user # u
  /\ Begin(t, [op |-> "login", pc |-> "list", user |-> u, row |-> users[u]])

LoginList(t) ==
  /\ At(t, "login", "list")
  /\ LET row == task[t].row IN
       session' = [session EXCEPT ![task[t].user] =
                     Listed(IF row.clan # 0 THEN row ELSE NoClan)]
  /\ Return(t)
  /\ UNCHANGED <<Stored, Bounds>>

Logout(u) ==
  /\ session[u].on
  /\ session' = [session EXCEPT ![u] = Offline]
  /\ UNCHANGED <<Stored, task, Bounds>>

Step(t) ==
  \/ CreateCurrent(t) \/ CreateTaken(t) \/ CreateCommit(t)
  \/ DisbandClan(t) \/ DisbandMembers(t) \/ DisbandCommit(t)
  \/ LeaveClan(t) \/ LeaveMembers(t) \/ LeaveCommit(t)
  \/ TransferClan(t) \/ TransferTarget(t) \/ TransferCommit(t)
  \/ Sync(t) \/ LoginList(t) \/ QueryFails(t)

Next ==
  \/ \E t \in Tasks :
       \/ Step(t)
       \/ \E u \in Users : LoginRead(t, u) \/ clan_disband(t, u) \/ leave_clan(t, u)
       \/ \E u \in Users, tag \in Tags : create_clan(t, u, tag)
       \/ \E u, target \in Users : transfer_clan_ownership(t, u, target)
  \/ \E u \in Users : Logout(u)

Spec == Init /\ [][Next]_vars

-----------------------------------------------------------------------------
(* No member outlives their clan, whatever commands race: a row that names a
   clan names one that exists, and !clan info shows its rank as it is stored.
   create_clan, disband_clan and leave_clan each change both tables in one
   transaction, on the strength of members read before it
   (services/clans.py).  A row left behind would name a clan nobody can find,
   leave or hand over, and a member of no rank is printed as the owner. *)
MembersHaveTheirClan ==
  /\ \A u \in Users : users[u].clan # 0 => fetch_one(users[u].clan)
  /\ \A c \in DOMAIN clans, viewer \in Users :
       \A shown \in clan_info(viewer, c) : users[shown[1]].priv = shown[2]

(* What does not hold: the owner a clan names is a member of it. *)
OwnersBelong == \A c \in DOMAIN clans : users[clans[c].owner].clan = c
=============================================================================
