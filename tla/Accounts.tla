------------------------------ MODULE Accounts ------------------------------
(***************************************************************************)
(* Registering an account, signing in to the website and to the game, and  *)
(* changing a password.                                                    *)
(*                                                                         *)
(* Passwords are stored as bcrypt hashes.  Checking one is slow, so the    *)
(* server keeps a cache from hash to password that four places write: the  *)
(* check itself, both registrations and the change of a password.  Every   *)
(* query is an await, after which the row may be another.                  *)
(*                                                                         *)
(* A hash is a number, salted, so each bcrypt.hashpw gives another one;    *)
(* secret[h] is the password it was made from.  Names stand for accounts   *)
(* and their ids: renaming is part of the module Sessions.                 *)
(***************************************************************************)
EXTENDS Naturals, Sequences

CONSTANTS Names, Emails,
          Passwords,
          Strong,       \* those that validate_password accepts
          Tasks,        \* requests under way at once
          MaxHashes,    \* bound: hashes ever made
          MaxTokens,    \* bound: web sessions ever made
          MaxOps, MaxFaults

VARIABLES users,        \* rows of users: name -> email, hash
          stats,        \* names whose stats rows exist, one for each mode
          cache,        \* password_cache: hash -> password
          web,          \* web sessions in Redis: token -> name
          game,         \* online players: name -> the hash of their session, 0 if offline
          secret,       \* what each hash was made from, in the order they were made
          task, tokens, ops, faults

vars == <<users, stats, cache, web, game, secret, task, tokens, ops, faults>>
stored == <<users, stats, web>>
memory == <<cache, game>>
bounds == <<tokens, ops, faults>>

Idle == [op |-> "idle", pc |-> "idle"]
NewHash == Len(secret) + 1
Has(f, x) == x \in DOMAIN f
Without(f, x) == [y \in DOMAIN f \ {x} |-> f[y]]
With(f, x, v) == [y \in DOMAIN f \cup {x} |-> IF y = x THEN v ELSE f[y]]

Init ==
  /\ users = <<>> /\ stats = {} /\ cache = <<>> /\ web = <<>> /\ secret = <<>>
  /\ game = [n \in Names |-> 0]
  /\ task = [t \in Tasks |-> Idle]
  /\ tokens = 0 /\ ops = 0 /\ faults = 0

At(t, pc) == task[t].pc = pc
Goto(t, pc) == task' = [task EXCEPT ![t].pc = pc]
Return(t) == task' = [task EXCEPT ![t] = Idle]
Begin(t, record) ==
  /\ At(t, "idle") /\ ops < MaxOps
  /\ ops' = ops + 1
  /\ task' = [task EXCEPT ![t] = record]
  /\ UNCHANGED <<stored, memory, secret, tokens, faults>>

(* History: whether the password that a check is about was, and whether it was
   not, that of the account at a moment since the check began. *)
IsPassword(rows, name, password) == Has(rows, name) /\ secret[rows[name].hash] = password
Checking(o) == task[o].op \in {"web", "game", "change"} /\ task[o].pc \in {"hash", "check"}
WithNote(rows, o, record) ==
  LET is == IsPassword(rows, task[o].name, task[o].password)
  IN  [record EXCEPT !.right = @ \/ is, !.wrong = @ \/ ~is]
Noted(rows, tasks) ==
  [o \in Tasks |-> IF Checking(o) THEN WithNote(rows, o, tasks[o]) ELSE tasks[o]]

-----------------------------------------------------------------------------
(* Registration, in the client (POST /users, which may only check the form)
   or on the website (POST /accounts, behind a captcha). *)

(* The rules a password has to follow *)
validate_password(password) == password \in Strong

(* Both begin with the query for the name. *)
check_or_register(t, name, email, password, create) ==
  Begin(t, [op |-> "register", pc |-> "name", name |-> name, email |-> email,
            password |-> password, create |-> create, errors |-> FALSE])

(* In the client, check is 1 while the form is filled in and 0 to register. *)
osu_register_account(t, name, email, password, check) ==
  check_or_register(t, name, email, password, ~check)

(* On the website, after CaptchaService.verify has said yes. *)
register_account(t, name, email, password) ==
  check_or_register(t, name, email, password, TRUE)

(* validate_registration: one query for the name, one for the email; errors
   are gathered, and the password is looked at last. *)
ValidateName(t) ==
  /\ At(t, "name")
  /\ task' = [task EXCEPT ![t].pc = "email", ![t].errors = Has(users, task[t].name)]
  /\ UNCHANGED <<stored, memory, secret, bounds>>

ValidateEmail(t) ==
  /\ At(t, "email")
  /\ LET taken == \E n \in DOMAIN users : users[n].email = task[t].email
         errors == task[t].errors \/ taken \/ ~validate_password(task[t].password)
     IN  IF errors \/ ~task[t].create
         THEN Return(t) /\ UNCHANGED <<cache, secret>>
         ELSE \* create_account: hashed and cached before the next await
              /\ NewHash <= MaxHashes
              /\ secret' = Append(secret, task[t].password)
              /\ cache' = With(cache, NewHash, task[t].password)
              /\ task' = [task EXCEPT ![t] =
                   [op |-> "register", pc |-> "create", name |-> task[t].name,
                    email |-> task[t].email, hash |-> NewHash]]
  /\ UNCHANGED <<stored, game, bounds>>

(* The transaction: the row of the account and its stats rows.  The unique
   keys on the name and on the email may refuse it. *)
CreateAccount_Untied(t) ==
  /\ At(t, "create")
  /\ users' = With(users, task[t].name, [email |-> task[t].email, hash |-> task[t].hash])
  /\ \/ stats' = stats \cup {task[t].name} /\ faults' = faults
     \/ faults < MaxFaults /\ faults' = faults + 1 /\ stats' = stats
  /\ Return(t)
  /\ UNCHANGED <<web, memory, secret, tokens, ops>>

CreateAccount(t) ==
  /\ At(t, "create")
  /\ IF \/ Has(users, task[t].name)
        \/ \E n \in DOMAIN users : users[n].email = task[t].email
     THEN UNCHANGED <<users, stats>>
     ELSE /\ users' = With(users, task[t].name, [email |-> task[t].email, hash |-> task[t].hash])
          /\ stats' = stats \cup {task[t].name}
  /\ task' = Noted(users', [task EXCEPT ![t] = Idle])
  /\ UNCHANGED <<web, memory, secret, bounds>>

-----------------------------------------------------------------------------
(* authenticate_login_credentials, for a web session, for the game, or for
   the change of a password. *)
authenticate_login_credentials(t, op, name, password, new) ==
  Begin(t, [op |-> op, pc |-> "hash", name |-> name, password |-> password, new |-> new,
            hash |-> 0, right |-> IsPassword(users, name, password),
            wrong |-> ~IsPassword(users, name, password)])

(* The hash is read; without an account there is none. *)
fetch_password_hash(t) ==
  /\ At(t, "hash")
  /\ IF Has(users, task[t].name)
     THEN task' = [task EXCEPT ![t].pc = "check", ![t].hash = users[task[t].name].hash]
     ELSE Goto(t, "refused")
  /\ UNCHANGED <<stored, memory, secret, bounds>>

(* The slip of taking a hash that is cached for one that was matched. *)
CheckPassword_Trusting(t) ==
  /\ At(t, "check")
  /\ LET hash == task[t].hash
         ok == Has(cache, hash) \/ secret[hash] = task[t].password
     IN  /\ cache' = IF ok THEN With(cache, hash, task[t].password) ELSE cache
         /\ Goto(t, IF ok THEN "admitted" ELSE "refused")
  /\ UNCHANGED <<stored, game, secret, bounds>>

(* The answer of the query is there: the password is compared with the cache,
   or by bcrypt and then cached, without another await. *)
CheckPassword(t) ==
  /\ At(t, "check")
  /\ LET hash == task[t].hash
         ok == IF Has(cache, hash) THEN cache[hash] = task[t].password
                                   ELSE secret[hash] = task[t].password
     IN  /\ cache' = IF ok THEN With(cache, hash, task[t].password) ELSE cache
         /\ Goto(t, IF ok THEN "admitted" ELSE "refused")
  /\ UNCHANGED <<stored, game, secret, bounds>>

Refuse(t) ==
  /\ At(t, "refused")
  /\ Return(t)
  /\ UNCHANGED <<stored, memory, secret, bounds>>

(* WebSessionsService.login: a token is made and stored. *)
LoginWeb(t) ==
  /\ At(t, "admitted") /\ task[t].op = "web"
  /\ tokens < MaxTokens
  /\ tokens' = tokens + 1
  /\ web' = With(web, tokens', task[t].name)
  /\ Return(t)
  /\ UNCHANGED <<users, stats, memory, secret, ops, faults>>

(* cho.login reads the hash once more for the session it lists. *)
LoginGame(t) ==
  /\ At(t, "admitted") /\ task[t].op = "game"
  /\ game' = [game EXCEPT ![task[t].name] = users[task[t].name].hash]
  /\ Return(t)
  /\ UNCHANGED <<stored, cache, secret, bounds>>

(* The session is deleted, or expires in Redis. *)
DeleteSession(token) ==
  /\ Has(web, token)
  /\ web' = Without(web, token)
  /\ UNCHANGED <<users, stats, memory, secret, task, bounds>>

LogoutGame(name) ==
  /\ game[name] # 0
  /\ game' = [game EXCEPT ![name] = 0]
  /\ UNCHANGED <<stored, cache, secret, task, bounds>>

(* authenticate_online_player: the cache alone answers, for the hash that the
   session was listed with. *)
authenticate_online_player(name, password) ==
  game[name] # 0 /\ Has(cache, game[name]) /\ cache[game[name]] = password

-----------------------------------------------------------------------------
(* PUT /players/{id}/password, by a signed-in player: change_password. *)
update_player_password(t, name, current, new) ==
  /\ \E token \in DOMAIN web : web[token] = name
  /\ authenticate_login_credentials(t, "change", name, current, new)

ValidatePassword(t) ==
  /\ At(t, "admitted") /\ task[t].op = "change"
  /\ IF ~validate_password(task[t].new)
     THEN Return(t) /\ UNCHANGED secret
     ELSE /\ NewHash <= MaxHashes
          /\ secret' = Append(secret, task[t].new)
          /\ task' = [task EXCEPT ![t] = [op |-> "change", pc |-> "old", name |-> task[t].name,
                                         hash |-> NewHash]]
  /\ UNCHANGED <<stored, memory, bounds>>

ReadOldHash(t) ==
  /\ At(t, "old")
  /\ task' = [task EXCEPT ![t] = [op |-> "change", pc |-> "update", name |-> task[t].name,
                                 hash |-> task[t].hash, old |-> users[task[t].name].hash]]
  /\ UNCHANGED <<stored, memory, secret, bounds>>

UpdateHash(t) ==
  /\ At(t, "update")
  /\ users' = [users EXCEPT ![task[t].name].hash = task[t].hash]
  /\ task' = Noted(users', [task EXCEPT ![t].pc = "cache"])
  /\ UNCHANGED <<stats, web, memory, secret, bounds>>

EvictHash(t) ==
  /\ At(t, "cache")
  /\ cache' = With(Without(cache, task[t].old), task[t].hash, secret[task[t].hash])
  /\ Return(t)
  /\ UNCHANGED <<stored, game, secret, bounds>>

(* A query, or the transaction, fails: the request ends with an error. *)
QueryFails(t) ==
  /\ task[t].pc \in {"name", "email", "create", "hash", "old", "update"}
  /\ faults < MaxFaults
  /\ faults' = faults + 1
  /\ Return(t)
  /\ UNCHANGED <<stored, memory, secret, tokens, ops>>

(* The server stops and starts again: what was in memory is gone. *)
Restart ==
  /\ faults < MaxFaults
  /\ faults' = faults + 1
  /\ cache' = <<>> /\ game' = [n \in Names |-> 0]
  /\ task' = [t \in Tasks |-> Idle]
  /\ UNCHANGED <<stored, secret, tokens, ops>>

Step(t) ==
  \/ ValidateName(t) \/ ValidateEmail(t) \/ CreateAccount(t)
  \/ fetch_password_hash(t) \/ CheckPassword(t) \/ Refuse(t)
  \/ LoginWeb(t) \/ LoginGame(t)
  \/ ValidatePassword(t) \/ ReadOldHash(t) \/ UpdateHash(t) \/ EvictHash(t)
  \/ QueryFails(t)

Next ==
  \/ \E t \in Tasks :
       \/ Step(t)
       \/ \E n \in Names, e \in Emails, p \in Passwords :
            \/ (\E check \in BOOLEAN : osu_register_account(t, n, e, p, check))
            \/ register_account(t, n, e, p)
       \/ \E n \in Names, p \in Passwords :
            \/ \E op \in {"web", "game"} : authenticate_login_credentials(t, op, n, p, p)
            \/ \E new \in Passwords : update_player_password(t, n, p, new)
  \/ \E token \in DOMAIN web : DeleteSession(token)
  \/ \E n \in Names : LogoutGame(n)
  \/ Restart

Spec == Init /\ [][Next]_vars

-----------------------------------------------------------------------------
(* A registration is there as a whole or not at all, however two of them race
   for a name or an email and whatever fails: an account has its stats rows,
   no stats row is without an account, and no email serves two
   (services/accounts.py create_account, the checks of validate_registration
   being awaits away from the insert). *)
AccountsAreWhole ==
  /\ stats = DOMAIN users
  /\ \A n, m \in DOMAIN users : users[n].email = users[m].email => n = m

(* The cache answers as bcrypt would, while passwords change under the checks:
   who is admitted gave a password that the account had at a moment of the
   request, who is refused gave one that it did not have at a moment of it;
   and a game session admits only the password of the hash it was listed with
   (services/bancho.py authenticate_login_credentials,
   authenticate_online_player; services/account_settings.py change_password). *)
AnswersAreRight ==
  /\ \A t \in Tasks : At(t, "admitted") => task[t].right
  /\ \A t \in Tasks : At(t, "refused") => task[t].wrong
  /\ \A n \in Names, p \in Passwords :
       authenticate_online_player(n, p) => secret[game[n]] = p

(* What does not hold: a player who is online goes on being recognised by the
   password of the account when nothing is under way (their session keeps the
   hash that change_password evicts from the cache). *)
OnlineStayRecognised ==
  (\A t \in Tasks : At(t, "idle")) =>
    \A n \in Names : game[n] # 0 => \E p \in Passwords : authenticate_online_player(n, p)
=============================================================================
