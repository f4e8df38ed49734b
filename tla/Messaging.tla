----------------------------- MODULE Messaging -----------------------------
(***************************************************************************)
(* Who hears whom.  Friends, blocks and silences are rows of the database  *)
(* and, for players who are online, sets and times in memory that handlers *)
(* consult: the game's packets and commands change memory first and the    *)
(* row after an await, the site's endpoints the row first.  Messages to a  *)
(* channel go to its members; private messages go to the recipient's queue *)
(* if there is one and always into the mail table, from which a login      *)
(* shows what is unread.                                                   *)
(*                                                                         *)
(* A target that is not online is read from the database, with an await;   *)
(* the object that comes of it has no relations and a queue nobody reads,  *)
(* and nothing refers to it afterwards.  One public channel; restricted    *)
(* players, whom these handlers are not registered for, are left out.      *)
(***************************************************************************)
EXTENDS Integers, FiniteSets

CONSTANTS
    Users,      \* players
    Staff,      \* members of staff, who see hidden commands
    Readers,    \* who may read the channel (channel.read_priv)
    Writers,    \* who may write to it (channel.write_priv)
    Tasks,      \* requests that may be under way at once
    MaxOps,     \* requests, all in all
    MaxMsgs,    \* messages sent, all in all
    MaxFaults   \* statements that fail

VARIABLES
    mem,        \* players online: friends, blocks, silenced, pm_private, queue
    members,    \* members of the channel
    relations,  \* the relationships table: type by user1 and user2
    silences,   \* users whose silence_end of the users table is to come
    mail,       \* the mail table
    tasks,      \* requests under way
    ops, msgs, faults,
    mixed,      \* users of whom two requests overlapped, or one failed
    offence     \* a message went to who, by the tables, should not hear its author

vars == <<mem, members, relations, silences, mail, tasks, ops, msgs, faults, mixed, offence>>
tables == <<relations, silences, mail>>

NoRow == "none"
Message(n, from, to) == [id |-> n, from |-> from, to |-> to]
Mail(m) == [msg |-> m, read |-> FALSE]

Offline == [on |-> FALSE, friends |-> {}, blocks |-> {}, silenced |-> FALSE,
            pm_private |-> FALSE, queue |-> {}]
NoTask == [op |-> "idle", u |-> "nobody", v |-> "nobody", pc |-> "", p |-> Offline, n |-> 0]

Online(u) == mem[u].on

----------------------------------------------------------------------------
(* The relationships and mail repositories *)

fetch_all_FriendsOnly(u, type) == {v \in Users : type = "friend" /\ relations[u][v] = type}
fetch_all(u, type) == {v \in Users : relations[u][v] = type}
fetch_one(u, v) == relations[u][v]
create(u, v, type) == [relations EXCEPT ![u][v] = type]
delete(u, v) == [relations EXCEPT ![u][v] = NoRow]

fetch_all_mail_to_user(u) == {x \in mail : x.msg.to = u /\ ~x.read}
mark_conversation_as_read(to, from) ==
    {IF x.msg.to = to /\ x.msg.from = from THEN [x EXCEPT !.read = TRUE] ELSE x : x \in mail}

----------------------------------------------------------------------------
(* Requests *)

Busy(u) == \E t \in Tasks : tasks[t].op # "idle" /\ tasks[t].u = u

\* The bookkeeping of a request of u that takes several steps, or only one.
Start(t, task) ==
    /\ tasks[t].op = "idle" /\ ops < MaxOps /\ ops' = ops + 1
    /\ tasks' = [tasks EXCEPT ![t] = task]
    /\ mixed' = IF Busy(task.u) THEN mixed \cup {task.u} ELSE mixed
Atomic(u) == /\ ops < MaxOps /\ ops' = ops + 1 /\ tasks' = tasks
             /\ mixed' = IF Busy(u) THEN mixed \cup {u} ELSE mixed
Task(op, u, v, pc) == [op |-> op, u |-> u, v |-> v, pc |-> pc, p |-> Offline, n |-> 0]
At(t, op, pc) == tasks[t].op = op /\ tasks[t].pc = pc
Goto(t, pc) == tasks' = [tasks EXCEPT ![t].pc = pc] /\ UNCHANGED <<ops, mixed>>
End(t) == tasks' = [tasks EXCEPT ![t] = NoTask] /\ UNCHANGED <<ops, mixed>>
Quiet == UNCHANGED <<faults, offence>>

\* A statement fails: the request ends where it is, memory stays as it is.
TaskFails(t) ==
    /\ tasks[t].op # "idle" /\ faults < MaxFaults /\ faults' = faults + 1
    /\ tasks' = [tasks EXCEPT ![t] = NoTask]
    /\ mixed' = mixed \cup {tasks[t].u}
    /\ UNCHANGED <<mem, members, tables, ops, msgs, offence>>

----------------------------------------------------------------------------
(* Login and logout *)

\* The row of the user is read first, ...
LoginRead(t, u) ==
    /\ ~Online(u) /\ ~ \E s \in Tasks : tasks[s].op = "login" /\ tasks[s].u = u
    /\ Start(t, [Task("login", u, u, "relations") EXCEPT
                   !.p = [Offline EXCEPT !.on = TRUE, !.silenced = u \in silences]])
    /\ UNCHANGED <<mem, members, tables, msgs>> /\ Quiet

\* ... relationships_from_sql later, ...
relationships_from_sql(t) ==
    LET k == tasks[t]
        p == [k.p EXCEPT !.friends = fetch_all(k.u, "friend"),
                         !.blocks = fetch_all(k.u, "block")] IN
    /\ At(t, "login", "relations")
    /\ tasks' = [tasks EXCEPT ![t] = [k EXCEPT !.pc = "mail", !.p = p]]
    /\ UNCHANGED <<mem, members, tables, ops, msgs, mixed>> /\ Quiet

\* ... and the mail last, which the response shows; then the player is online.
fetch_unread_mail(t) ==
    LET u == tasks[t].u IN
    /\ At(t, "login", "mail")
    /\ mem' = [mem EXCEPT ![u] = [tasks[t].p EXCEPT
                 !.queue = {x.msg : x \in fetch_all_mail_to_user(u)}]]
    /\ End(t) /\ UNCHANGED <<members, tables, msgs>> /\ Quiet

logout(u) ==
    /\ Online(u)
    /\ mem' = [mem EXCEPT ![u] = Offline] /\ members' = members \ {u}
    /\ UNCHANGED <<tables, tasks, ops, msgs, mixed>> /\ Quiet

\* The client takes what is queued for it.
dequeue(u) ==
    /\ mem[u].queue # {}
    /\ mem' = [mem EXCEPT ![u].queue = {}]
    /\ UNCHANGED <<members, tables, tasks, ops, msgs, mixed>> /\ Quiet

----------------------------------------------------------------------------
(* Channels *)

can_read(u) == u \in Readers
can_write(u) == u \in Writers

\* ChannelJoin and join_channel, ChannelPart and leave_channel
join_channel(u) ==
    /\ Online(u) /\ u \notin members /\ can_read(u)
    /\ members' = members \cup {u}
    /\ UNCHANGED <<mem, tables, tasks, ops, msgs, mixed>> /\ Quiet
leave_channel(u) ==
    /\ u \in members
    /\ members' = members \ {u}
    /\ UNCHANGED <<mem, tables, tasks, ops, msgs, mixed>> /\ Quiet

\* What the tables say of u hearing s, no request of either being under way.
Unwelcome(s, u) == \/ s \notin mixed /\ ~Busy(s) /\ s \in silences
                   \/ u \notin mixed /\ ~Busy(u) /\ relations[u][s] = "block"

\* A message of s reaches the queues of those players.
Deliver(s, to) ==
    /\ mem' = [u \in Users |-> IF u \in to
                 THEN [mem[u] EXCEPT !.queue = @ \cup {Message(msgs, s, u)}] ELSE mem[u]]
    /\ offence' = (offence \/ \E u \in to : Unwelcome(s, u))

\* Channel.send: members who have not blocked the sender; send_selective: the
\* members among the recipients, blocks or no blocks.
channel_send(s) == {u \in members \ {s} : s \notin mem[u].blocks}
send_selective(recipients) == recipients \cap members

\* SendMessage without a command.
SendMessage(s) ==
    /\ Online(s) /\ ~mem[s].silenced /\ s \in members /\ can_write(s)
    /\ msgs < MaxMsgs /\ msgs' = msgs + 1
    /\ Deliver(s, channel_send(s))
    /\ UNCHANGED <<members, tables, tasks, ops, mixed, faults>>

\* With a command: it runs, and the message is shown after it, to staff only if
\* the command is hidden, which nobody takes exception to.
SendCommand(t, s) ==
    /\ Online(s) /\ ~mem[s].silenced /\ s \in members /\ can_write(s)
    /\ msgs < MaxMsgs /\ msgs' = msgs + 1
    /\ Start(t, Task("command", s, s, "run"))
    /\ UNCHANGED <<mem, members, tables>> /\ Quiet
process_commands(t, hidden) ==
    LET s == tasks[t].u IN
    /\ At(t, "command", "run") /\ End(t)
    /\ IF hidden
       THEN /\ mem' = [u \in Users |-> IF u \in send_selective(Staff \ {s})
                         THEN [mem[u] EXCEPT !.queue = @ \cup {Message(msgs, s, u)}] ELSE mem[u]]
            /\ offence' = offence
       ELSE Deliver(s, channel_send(s))
    /\ UNCHANGED <<members, tables, msgs, faults>>

----------------------------------------------------------------------------
(* Private messages *)

\* What a handler knows of v: the session, or an object read from the database,
\* which has no relations.
from_cache_or_sql(v) ==
    IF Online(v) THEN mem[v] ELSE [Offline EXCEPT !.silenced = v \in silences]

Refuses(p, s) == s \in p.blocks \/ (p.pm_private /\ s \notin p.friends) \/ p.silenced

\* SendPrivateMessage to somebody online: everything at once but the mail.
SendPrivateMessage(t, s, v) ==
    /\ Online(s) /\ ~mem[s].silenced /\ s # v /\ Online(v)
    /\ msgs < MaxMsgs /\ msgs' = msgs + 1
    /\ IF Refuses(from_cache_or_sql(v), s)
       THEN Atomic(s) /\ UNCHANGED <<mem, offence>>
       ELSE /\ Start(t, [Task("pm", s, v, "insert") EXCEPT !.n = msgs])
            /\ Deliver(s, {v})
    /\ UNCHANGED <<members, tables, faults>>

\* To somebody who is not: the row is read, and the message goes to the mail
\* and to an object that nobody listens to.
SendToOffline(t, s, v) ==
    /\ Online(s) /\ ~mem[s].silenced /\ s # v /\ ~Online(v)
    /\ msgs < MaxMsgs /\ msgs' = msgs + 1
    /\ Start(t, [Task("pm", s, v, "fetch") EXCEPT !.n = msgs])
    /\ UNCHANGED <<mem, members, tables>> /\ Quiet
FetchTarget(t) ==
    /\ At(t, "pm", "fetch")
    /\ IF Refuses([Offline EXCEPT !.silenced = tasks[t].v \in silences], tasks[t].u)
       THEN End(t) ELSE Goto(t, "insert")
    /\ UNCHANGED <<mem, members, tables, msgs>> /\ Quiet
mail_create(t) ==
    LET k == tasks[t] IN
    /\ At(t, "pm", "insert")
    /\ mail' = mail \cup {Mail(Message(k.n, k.u, k.v))}
    /\ End(t) /\ UNCHANGED <<mem, members, relations, silences, msgs>> /\ Quiet

\* osuMarkAsRead: mark_channel_as_read looks the other up, then updates.
osuMarkAsRead(t, u, v) ==
    /\ Online(u) /\ u # v /\ \E x \in mail : x.msg.to = u /\ x.msg.from = v /\ ~x.read
    /\ Start(t, Task("markasread", u, v, "update"))
    /\ UNCHANGED <<mem, members, tables, msgs>> /\ Quiet
mark_channel_as_read(t) ==
    /\ At(t, "markasread", "update")
    /\ mail' = mark_conversation_as_read(tasks[t].u, tasks[t].v)
    /\ End(t) /\ UNCHANGED <<mem, members, relations, silences, msgs>> /\ Quiet

\* ToggleBlockingDMs
ToggleBlockingDMs(u) ==
    /\ Online(u) /\ Atomic(u)
    /\ mem' = [mem EXCEPT ![u].pm_private = ~@]
    /\ UNCHANGED <<members, tables, msgs>> /\ Quiet

----------------------------------------------------------------------------
(* Relations in the game: memory, then the row. *)

\* FriendAdd of somebody online takes back a block in memory; add_friend.
FriendAdd(t, u, v) ==
    LET p == [mem[u] EXCEPT !.blocks = @ \ {v}] IN
    /\ Online(u) /\ Online(v) /\ u # v
    /\ IF v \in p.friends
       THEN Atomic(u) /\ mem' = [mem EXCEPT ![u] = p]
       ELSE /\ Start(t, Task("relation", u, v, "friend"))
            /\ mem' = [mem EXCEPT ![u] = [p EXCEPT !.friends = p.friends \cup {v}]]
    /\ UNCHANGED <<members, tables, msgs>> /\ Quiet

\* FriendRemove; remove_friend
FriendRemove(t, u, v) ==
    /\ Online(u) /\ Online(v) /\ v \in mem[u].friends
    /\ Start(t, Task("relation", u, v, NoRow))
    /\ mem' = [mem EXCEPT ![u].friends = @ \ {v}]
    /\ UNCHANGED <<members, tables, msgs>> /\ Quiet

\* !block; add_block.  The row of a target who is not online is read before,
\* to no effect on what follows.
block(t, u, v) ==
    /\ Online(u) /\ u # v /\ v \notin mem[u].blocks
    /\ Start(t, Task("relation", u, v, "block"))
    /\ mem' = [mem EXCEPT ![u].friends = @ \ {v}, ![u].blocks = @ \cup {v}]
    /\ UNCHANGED <<members, tables, msgs>> /\ Quiet

\* !unblock; remove_block
unblock(t, u, v) ==
    /\ Online(u) /\ v \in mem[u].blocks
    /\ Start(t, Task("relation", u, v, NoRow))
    /\ mem' = [mem EXCEPT ![u].blocks = @ \ {v}]
    /\ UNCHANGED <<members, tables, msgs>> /\ Quiet

\* REPLACE INTO relationships, or DELETE
WriteRelation(t) ==
    LET k == tasks[t] IN
    /\ k.op = "relation"
    /\ relations' = create(k.u, k.v, k.pc)
    /\ End(t) /\ UNCHANGED <<mem, members, silences, mail, msgs>> /\ Quiet

(* Relations on the site: the row, then memory. *)

\* RelationshipsService.add_friend: what there is now, ...
add_friend(t, u, v) ==
    /\ u # v /\ fetch_one(u, v) # "friend"
    /\ Start(t, Task("web friend", u, v, IF fetch_one(u, v) = "block" THEN "delete" ELSE "insert"))
    /\ UNCHANGED <<mem, members, tables, msgs>> /\ Quiet
\* ... a block is deleted first, ...
DeleteBlock(t) ==
    /\ At(t, "web friend", "delete")
    /\ relations' = delete(tasks[t].u, tasks[t].v) /\ Goto(t, "insert")
    /\ UNCHANGED <<mem, members, silences, mail, msgs>> /\ Quiet
\* ... the friendship inserted, which fails if there is a row again, and memory told.
InsertFriend(t) ==
    LET k == tasks[t] IN
    /\ At(t, "web friend", "insert") /\ End(t)
    /\ IF fetch_one(k.u, k.v) # NoRow THEN UNCHANGED <<relations, mem>>
       ELSE /\ relations' = create(k.u, k.v, "friend")
            /\ mem' = IF Online(k.u) THEN [mem EXCEPT ![k.u].friends = @ \cup {k.v}] ELSE mem
    /\ UNCHANGED <<members, silences, mail, msgs>> /\ Quiet

\* RelationshipsService.remove_friend
remove_friend(t, u, v) ==
    /\ fetch_one(u, v) = "friend"
    /\ Start(t, Task("web unfriend", u, v, "delete"))
    /\ UNCHANGED <<mem, members, tables, msgs>> /\ Quiet
DeleteFriend(t) ==
    LET k == tasks[t] IN
    /\ At(t, "web unfriend", "delete") /\ End(t)
    /\ relations' = delete(k.u, k.v)
    /\ mem' = IF Online(k.u) THEN [mem EXCEPT ![k.u].friends = @ \ {k.v}] ELSE mem
    /\ UNCHANGED <<members, silences, mail, msgs>> /\ Quiet

----------------------------------------------------------------------------
(* !silence and !unsilence by a moderator: memory, then the row.  Of somebody
   who is not online the row is read first. *)

SilenceOnline(t, u, on) ==
    /\ Online(u) /\ mem[u].silenced # on
    /\ Start(t, Task("silence", u, u, IF on THEN "on" ELSE "off"))
    /\ mem' = [mem EXCEPT ![u].silenced = on]
    /\ UNCHANGED <<members, tables, msgs>> /\ Quiet
SilenceOffline(t, u, on) ==
    /\ ~Online(u) /\ (u \in silences) # on
    /\ Start(t, Task("silence", u, u, IF on THEN "on" ELSE "off"))
    /\ UNCHANGED <<mem, members, tables, msgs>> /\ Quiet
silence(t) ==
    /\ At(t, "silence", "on")
    /\ silences' = silences \cup {tasks[t].u}
    /\ End(t) /\ UNCHANGED <<mem, members, relations, mail, msgs>> /\ Quiet
unsilence(t) ==
    /\ At(t, "silence", "off")
    /\ silences' = silences \ {tasks[t].u}
    /\ End(t) /\ UNCHANGED <<mem, members, relations, mail, msgs>> /\ Quiet

\* The end of a silence comes: in memory and table alike.
SilenceEnds(u) ==
    /\ u \in silences
    /\ silences' = silences \ {u}
    /\ mem' = [mem EXCEPT ![u].silenced = FALSE]
    /\ tasks' = [t \in Tasks |-> IF tasks[t].u = u THEN [tasks[t] EXCEPT !.p.silenced = FALSE]
                                ELSE tasks[t]]
    /\ UNCHANGED <<members, relations, mail, ops, msgs, mixed>> /\ Quiet

----------------------------------------------------------------------------
\* Some are online, with what the tables hold.
Init ==
    /\ relations \in [Users -> [Users -> {"block", NoRow}]]
    /\ \A u \in Users : relations[u][u] = NoRow
    /\ \E on \in SUBSET Users :
         mem = [u \in Users |-> IF u \in on
                 THEN [Offline EXCEPT !.on = TRUE, !.friends = fetch_all(u, "friend"),
                                      !.blocks = fetch_all(u, "block")] ELSE Offline]
    /\ members = {} /\ silences = {} /\ mail = {} /\ tasks = [t \in Tasks |-> NoTask]
    /\ ops = 0 /\ msgs = 0 /\ faults = 0 /\ mixed = {} /\ offence = FALSE

Request(t) ==
    \/ \E u \in Users : LoginRead(t, u) \/ SendCommand(t, u)
                        \/ \E on \in BOOLEAN : SilenceOnline(t, u, on) \/ SilenceOffline(t, u, on)
    \/ \E u, v \in Users : \/ SendPrivateMessage(t, u, v) \/ SendToOffline(t, u, v)
                           \/ osuMarkAsRead(t, u, v) \/ FriendAdd(t, u, v) \/ FriendRemove(t, u, v)
                           \/ block(t, u, v) \/ unblock(t, u, v)
                           \/ add_friend(t, u, v) \/ remove_friend(t, u, v)
    \/ relationships_from_sql(t) \/ fetch_unread_mail(t)
    \/ \E hidden \in BOOLEAN : process_commands(t, hidden)
    \/ FetchTarget(t) \/ mail_create(t) \/ mark_channel_as_read(t)
    \/ WriteRelation(t) \/ DeleteBlock(t) \/ InsertFriend(t) \/ DeleteFriend(t)
    \/ silence(t) \/ unsilence(t) \/ TaskFails(t)

Next ==
    \/ \E t \in Tasks : Request(t)
    \/ \E u \in Users : \/ logout(u) \/ dequeue(u) \/ join_channel(u) \/ leave_channel(u)
                        \/ SendMessage(u) \/ ToggleBlockingDMs(u) \/ SilenceEnds(u)

Spec == Init /\ [][Next]_vars

----------------------------------------------------------------------------
(* Properties *)

\* A message is never sent to a player who, by the relationships table, has
\* blocked its author, nor from one who, by the users table, is silenced, no
\* request of either having overlapped another: through logins, commands of the
\* game and requests of the site in any order, memory goes along with the
\* tables (relationships_from_sql, add_block, add_friend, Channel.send,
\* SendPrivateMessage).
UnwelcomeAreUnheard == ~offence

\* What !block says of itself: "Block another user from communicating with you."
\* No message of somebody blocked is on its way into the mail, which the next
\* login shows (block, SendPrivateMessage).
BlockedSendNoMail ==
    \A t \in Tasks : At(t, "pm", "insert") => relations[tasks[t].v][tasks[t].u] # "block"
============================================================================
