# Prism, specified in TLA+

Prism is an osu! private server: one Python process with one asyncio event loop
(`app/`), MySQL, Redis, a volume of replay and beatmap files, and a second process
that analyses replays. Everything the game client does arrives as packets
(`app/api/domains/cho.py`) or web requests (`app/api/domains/osu.py`); the website
uses `app/api/v1` and `app/api/v2`. This directory holds TLA+ models of the parts
whose state can go wrong through the order in which things happen, the TLC
configurations that check them, and proofs for TLAPS.

Because there is one event loop, a handler without `await` is atomic and is one
action. A handler that awaits is one action per stretch between awaits, and anything
else may run in between. Database transactions, background tasks
(`spawn_background_task`), supervised loops and the second process add the rest of
the concurrency. An exception ends a handler where it is raised: the action then has
the effect of the assignments made so far.

## 1. Inventory

| component | state | operations | what is hard | what makes it correct |
|---|---|---|---|---|
| lobby roster | `player.match`, the match list, slots, host, referees, match chat, tourney clients, start timer | create, join, leave, slot changes, lock, kick, host transfer, `!mp` commands, tourney join/leave, logout | the same state in six places; handlers that raise half way; requests handled for a player who has logged out | a player sits once; chat follows seats; a host is somebody who is there; an empty match is dropped |
| match play | slot status, `loaded`, frames, `in_progress`, start time, recorded games | start, load, frames, fail, complete, abort, leave | clients lag behind: packets of a game arrive in the next one | who plays is in a game; games end; nobody waits for ever |
| match settings, scrims, pools | map, mods, freemods, teams, points, winners, picks, bans | change settings and mods, `!mp` commands, scrim points | a beatmap look-up in the middle of a handler; ten seconds of polling for scores | mods are where freemods says; a point per game won |
| match history | rows of matches, games and scores, `match.db_id`; the scroll of a reader | insert, game rows, disband stamp, pages | detached tasks before the id is known; slots of the list used again | a game is filed under its lobby; scrolls miss nothing |
| sessions | list of players, indexes by token, id, name; `users.name` | login (a dozen awaits), logout, ghost sweep, `!changename`, profile update | check-then-act over awaits; shared index entries; a list mutated under iteration | what is found is online; silent clients go |
| spectating | `spectators`, `spectating`, `#spec_<id>` | start, stop, host change, logout, login | two ends and a channel found by user id; hosts who reconnect | one function from viewers to hosts |
| spectator history | rows, the id stashed on the player, detached tasks | insert, read back, close | tasks overtake the state they record | no ongoing row is closed |
| score submission | score, best and statistics rows, in-memory statistics, staged and final replay, checksum lock | rate, stage, lock, check, transaction, rename | resent requests; concurrent submissions; failure and crash between steps | one row per play; one best; no lost replay; no lock kept |
| replay analysis | queue, analysis rows, flags, audit log | enqueue, consume, backfill, flag, review | destructive pop, at-least-once delivery, crash between two writes, another process | flags have evidence; staff decisions are kept; every score is analysed in the end |
| leaderboard ranks | Redis sorted sets, statistics rows, Player objects | update, restrict, unrestrict, country change, login, staged rebuild | two sets changed with an await between; several objects for one player; rebuild from stale reads | a restricted player is not ranked; a rebuild is exact |
| beatmap cache | cached sets and maps, rows, osu!api | look up, refresh, nominate, evict | a refresh that deletes; two objects for one set | decisions are kept; only what is gone is deleted |
| beatmap submissions | rows, `.osu` and `.osz` files, id sequence | upload, update, review, delete, play | files before commit; checks on rows read before | what is shown is served; leaderboards are reviewed |
| messaging and relationships | friends, blocks, silences in tables and in memory, mail, channel members | log in and out, message, mail, add and remove friends and blocks, silence | memory first here, table first there | nobody hears who they blocked |
| visibility | privileges in rows and in sessions | every answer about a player | one rule written a dozen times; check, await, show | the restricted stay hidden; the entitled are served |
| clans | clan rows, member columns, sessions | create, disband, leave, transfer | decided on rows read before the transaction | members have their clan |
| accounts and sign-in | users and stats rows, password cache, web tokens, sessions | register (site, game), sign in, change the password | four writers of the cache; names checked awaits before the insert | accounts are whole; a password is judged rightly |
| Discord links | OAuth states, links | begin, callback, unlink | callbacks twice, late or concurrent | a link is made by its owner |
| stat snapshots and feed | snapshot rows, events, the loop, its task | capture, publish | run again at every start; failure; midnight | snapshots are facts; a record was one; a due capture happens |
| supervision and shutdown | back-off counters, one-shot tasks, requests in flight | loop, back off, cancel, drain | failure in any iteration | a loop runs again |
| packets, parsing, performance, comments, favourites, avatars, configuration | none, or independent rows | formatting, parsing, calculation | - | - |

Components interact through shared objects: `logout` calls `leave_match`,
`remove_spectator` and the channel code; the anticheat worker reads the rows and
files score submission leaves; a game's end starts the recording task of match
history and the scrim task; the ghost sweep runs `logout`; a submission, a
restriction and a profile change update ranks; a submission of maps evicts from the
beatmap cache. `PROJECT.json` lists every component with its files and status, and
every hazard at the line where it bites.

## 2. Modules

| module | models | state and actions |
|---|---|---|
| `Lobby` | roster: `cho.py` match handlers, `!mp` commands, `Player.join_match`/`leave_match`/`logout` | variables have the names of the attributes; one action per packet, command and method; `LeaveOthers`, `LeaveLast`, ... are the outcomes of `leave_match`, the ones that raise included |
| `MatchPlay` | a game in one match | slots with `loaded`, `passed`, frame; what each client believes (`client`) and the packets it has not polled (`inbox`); clients are external code |
| `MatchSettings` | `MatchChangeSettings`, `MatchChangeMods`, `!mp map/mods/freemods/scrim/endscrim/rematch/pick/ban/...`, `Match.await_submissions`, `update_matchpoints` | `match` holds the attributes, `slots` the players with their mods and teams, `task` the handlers and background tasks that await |
| `MatchHistory` | `MatchHistoryService`, its repository and readers, `api/v2/matches.py` | live matches beside their rows; one task per spawned insert; a reader who scrolls page by page |
| `Sessions` | player list, indexes, login, logout, sweep, renames | `registry` is `app.state.sessions.players`; a login is three actions split at its awaits; the ghost sweep visits one player per step (`sweep` is Python's position in the list it removes from), and nothing else runs until it is through |
| `Spectating` | `add_spectator`, `remove_spectator`, logout | the relation as a record, one operator per method |
| `Watching` | abstract: who watches whom | a function from sessions to hosts; `Spectating` implements it with `host[v]` the session whose list holds `v` and `gone` the ended sessions |
| `SpectatorHistory` | extends `Spectating` with the tasks behind it | one action per awaited statement of each task |
| `ScoreSubmission` | `submit_score` from rating to rename | one action per await; MySQL row locks and its deadlock detection are external |
| `ReplayAnalysis` | server, worker (consume and backfill loops), staff | one action per await of each process; faults are actions |
| `Leaderboard` | `update_rank`, `restrict`, `unrestrict`, country changes, login, `rebuild_mode`, start-up | `rows` is MySQL, `board` and `staged` Redis, `objs` the Player objects somebody refers to |
| `BeatmapCache` | `Beatmap`/`BeatmapSet` look-ups and refreshes, `_map` | three caches of objects, two tables, the osu!api as an actor that changes, fails and drops |
| `BeatmapSubmissions` | the service, its files and endpoints | one action per await; `tasks` are requests under way; a crash ends them all |
| `Messaging` | packets, `!block`, `!silence`, the site's relationship endpoints, mail | `mem` is what an online player holds, `relations`, `silences` and `mail` the tables |
| `PublicView` | visibility rules of the v1, v2 and in-game endpoints | a request looks (at rows or sessions), awaits, shows; staff restrict meanwhile |
| `Clans` | `services/clans.py` | one action per query; `task` holds what was read |
| `Accounts` | registration, `authenticate_login_credentials`, `change_password`, web sessions | `cache` is `password_cache`; hashes are numbers, salted |
| `DiscordLinks` | `discord_linking.py` and its repositories | one action per await of a callback |
| `ActivityFeed` | `stat_snapshots`, `snapshot_producers`, the supervised loop around them | `loop` and `publisher` are the tasks, `day` the clock |
| `MC*` | instances for TLC | constants, symmetry, views, sums (below), and what comments and tests say where the code does otherwise |
| `*Proofs`, the end of `ActivityFeed` | proofs | section 5 |

Definitions named as mutated forms, or with a suffix that says what is wrong with
them, stand before the definition they vary; each is a plausible bug that a property
catches. They are used by no specification.

**Sums.** `MCMatches`, `MCScores`, `MCMaps` and `MCPeople` hold several models in one
run: the models of one sum share no variable, so every interleaving of two of them is
a shuffle of behaviours each has alone, and checking the product would only cost
time. A variable `service` (`half` in `MCMaps`), chosen in the initial state, says which
of them runs; the others keep the value `Off` (`Unused`), or their initial state, for
the module the sum extends. Every property `P` of an instance is checked as
`service = "..." => Instance!P`.

### Assumptions and abstractions

* `Lobby` and `Spectating` take one session per user at a time; `Sessions` models
  where that comes from, and its statement `OneSessionPerUser` fails when two logins
  race (section 4).
* Lobby slot status is open, locked or taken: the roster tests nothing finer.
  `MatchPlay` has all statuses. Passwords, silences and privileges decide only whether
  a handler returns early.
* Clients join and part channels by the names the server advertises. After a channel
  could not be left, `while self.channels` of `logout` never ends and blocks the event
  loop: what follows is no behaviour of the server any more, and `Lobby` has no step
  for it.
* `Sessions` does not know matches: any listed player may be displaced from its slot
  (`Displace`), after which its `logout` raises before it is unlisted. More behaviours
  are checked than there are.
* `Lagging` players of `Lobby` may have a request in flight when they log out.
* A Match object nothing refers to is as good as a new one; `View` of `MCLobby`
  identifies the states that differ only in such objects. `View` of `MCMatchPlay`
  leaves out the counters and scoreboard fields no guard reads; the type part of
  `PlayInv` is then checked on one state of each class; `View` of `MCReplayAnalysis`
  keeps of the record of the verdicts whether one is in it that nobody gave. Symmetry is used in safety
  runs only, over players, matches and tasks that the constants do not tell apart.
* `MatchSettings` leaves out slot statuses, game mode and match names, and lets
  players come, move and go and games end at any time: what guards those is in `Lobby`
  and `MatchPlay`, and more behaviours are checked than there are.
* `MatchHistory` knows a live match by a number of its own, and keeps of a frame
  whether it decodes, whether its player passed and the metric. Tasks of games carry
  the number of the game (`nth`), so that two games with equal frames are two tasks.
* `ScoreSubmission` has one player, one ranked map and one mode; points stand for
  performance points and score; of the statistics it keeps plays and ranked score.
  Achievements and announcements are left out, the rank update is in `Leaderboard`.
* `ReplayAnalysis` takes what a detector says of a replay as an input. There is one
  worker, as in `docker-compose.yml`.
* `Leaderboard` has one mode (the code treats the modes one after the other) and one
  rebuild at a time; the audit insert in the middle of `restrict` is folded into the
  step before it.
* `BeatmapCache` has one map per set, so that the branch that deletes single
  difficulties missing from an answer (`beatmap.py` 612-622, 666-680) is left out; its owner's changes are those of
  `BeatmapSubmissions`, seen from the cache. Objects are taken from a set of identities,
  and one that no cache and no request holds is free again; a look-up that builds an
  object needs a free one (`Room`). With the seven of the run there always is one, so
  that this guard keeps no look-up from going on. The rows of `mapsets` are folded into
  `sets` in `BeatmapSubmissions`; whether an archive parses and can be rated is an
  input, and so are the names of mirrored maps (`MirrorChanges`).
* `Messaging` has one public channel and no restricted players (their packets have no
  such handlers); the bot is left out.
* What players own does not change in `PublicView`; their privileges and sessions do.
  `Ruled` are the endpoints that apply the rule, by a check, a clause or a query of
  their own, `Unruled` those that apply none; `RestrictedStayHidden` is about the
  former, and `HiddenStayHidden`, about both, is refuted. Comments (`osu-comment.php`),
  the packets of the game protocol and the answers of chat commands name players too
  and are not modelled.
* `Clans`: name and tag are one value; nobody can join a clan by a command of this
  program, so members who are not founders are there from the start.
* `Accounts`: names stand for ids; renames are in `Sessions`.
* `ActivityFeed`: a publisher ends before the capture of the next day begins (the code
  leaves a day between them). A day is 24 hours of the loop, which may therefore see
  two midnights.
* Bounds (`MaxOps`, `MaxFaults`, `MaxGames`, `MaxSpectates`, `MaxRenames`,
  `MaxBacklog`, `MaxChanges`, `MaxVersion`, ...) are constants that occur in guards
  only; each is explained where it is declared.

## 3. Runs

Eleven runs pass and one shows a disagreement. State counts are distinct states.

| run | instance | checks |
|---|---|---|
| `lobby_roster` | 3 tournament managers, 2 Match objects, 1 list index, 2 slots; 411,712 | type; `RosterInv`: one seat per player, chat and referees in step, tourney clients do not play; `NothingLeftOver`: no slot and no registry keeps who went; `DeparturesAreComplete`: hosts are handed over, empty matches dropped |
| `lobby_sessions` | 2 players, one with tourney clients and requests in flight, 2 Match objects, 2 list indexes, 2 slots, no start timers (`TimersOff`); 333,299 | `RosterInv` |
| `sessions` | 2 logins and a tourney client of one user, 2 names, 1 rename, each of them displaced from a slot at any time; 392,677 | `IndexInv`: what is found by token, id or (before a rename) name is online; `GhostsAreDisconnected`: the sweep reaches every ghost no displaced ghost stands before |
| `spectator_history` | a host with two sessions (the second restricted), 2 viewers, 2 spectates, failing database; 235,176 | `WatchInv`; `KeepsPromise`: the refinement of `Watching`; `HistoryInv`: the row of an ongoing spectate is open |
| `match_play_live` | 2 players, 2 slots, 2 games, who leaves does so between games; 420,147 | `GamesEnd`, `NobodyIsLeftWaiting` |
| `matches` | play: 2 players, 2 games, with leavers; history: 2 lobbies in one place, 2 games, pages of one row, 1 fault; settings: 2 players, a speed mod and another, scrims of 1 and 3, 4 commands; 2,489,589 | `PlayInv`, `GamesAreFiledRight`, `ScrollsAreComplete`, `ModsAreWhereTheyBelong`, `PointsAreWins` |
| `replay_analysis_live` | 2 scores, flags that staff dismiss, 1 fault; 302,840 | `ReviewInv`, `DecisionsAreKept`, `EveryScoreIsAnalyzed`, `ReplaysAreJudged` |
| `scores` | submission: a resent pass, a better pass, a failed play, 1 fault; ranks: 2 players, 2 countries, 3 requests, 2 at once, 1 fault; 1,723,385 | `ScoresInv`, `ReplaySurvives`, `RequestsGoOn`; `RestrictedAreUnranked`, `RebuildIsExact` |
| `maps` | cache: a mirrored and a hosted map, 2 tasks, 3 requests, 2 changes upstream, 1 fault; submissions: 2 players, 2 archives, 2 tasks, 3 requests or changes of mirrored maps, 1 fault; 659,249 | `DecisionIsKept`, `OnlyTheGoneAreDeleted`; `ShownIsServed`, `LeaderboardsAreReviewed` |
| `people` | view: a player, a member of staff, one request against 2 commands; chat: 2 players, 3 requests, 1 message; clans: 3 members, 4 commands; accounts: 2 names, 1 address, 4 requests; links: 2 accounts, 2 Discord accounts, 3 callbacks; 1,840,947 | `RestrictedStayHidden`, `EntitledAreServed`; `UnwelcomeAreUnheard`; `MembersHaveTheirClan`; `AccountsAreWhole`, `AnswersAreRight`; `LinksAreTheirs` |
| `activity` | 2 players, 2 modes, 3 days, 1 failure or restart; 311,741 | `PeaksArePeaks`, `SnapshotsAreKept`, `DueIsCaptured` |

Why the bounds are enough. Displacing a seated player, handing over a host and
dropping a match take two players and two slots; the third player is there for the
ones who watch it happen. Two Match objects on one index show the reuse of an index,
two indexes a player between two matches; there no `!mp start` is pending
(`TimersOff`, the only state constraint), since a timer never reaches across matches. Two games show packets of one reaching the
next, two lobbies in one place a task of the first that finds the second. A page of
one row makes every page a full one, the last too. Races are between pairs of
requests, so two are under way at once wherever requests overlap; the third and
fourth request of a behaviour prepares or inspects what the pair did. The four
submissions hold a pair with one checksum, a pair of passes and a failed play. Faults
are single (`MaxFaults` = 1): the code has no retry counters a second fault could
exhaust. The rebuild reads one player at a time, so that another request fits between
any two. Three days are what a peak, a day without one and a restart over midnight
take. `MaxBacklog` bounds the queue the backfill fills again and again, `MaxSpectates`
and `MaxRenames` end behaviours that could go on. The replays of
`replay_analysis_live` are ones a detector fires on; that `ReviewInv` and
`DecisionsAreKept` hold with clean, missing and undecodable ones too is the theorem's
part.

Fairness. `MatchPlay`: clients poll, finish loading and finish playing (a client that
stops is disconnected by the ghost sweep and has left). `ReplayAnalysis` and
`ActivityFeed`: tasks and loops go on, which `run_supervised_loop` gives them - every
exception but cancellation leads to another iteration after a back-off, and
`ActivityFeed` models that loop, its back-off and its restarts. `Sessions`: the
sweep, a supervised loop, runs again; that a client is silent for long enough is not
assumed. No run assumes strong fairness. `RequestsGoOn` needs no fairness: while a
request is unanswered one can go on, and each takes finitely many steps.

Deadlock checking is off where the system may stop: all sessions ended, all games
played, all requests answered.

## 4. Where the code and its comments disagree

One run is a counterexample; the finding in `PROJECT.json` quotes the line.
`score_submission_best`: two passes rated against the same former best, the lower one
committed last, leave the lower one as the best score.

The modules state further sentences of comments, docstrings and tests which TLC
refutes. Each is an INVARIANT or PROPERTY of a configuration kept beside the runs;
`tlc -continue` shows a counterexample of each, and with only one of them left in the
file TLC ends at the first.

| statement | configuration | what happens |
|---|---|---|
| `FreeSlotIsUnoccupied`, `MemberHasSlot`, `HostHasSlot` | `Lobby_refuted` | a slot locked and unlocked under a seated player is open with the player in it; the next to join overwrites it. `assert slot is not None` then fails in every handler, in `leave_match` and in `logout` of the displaced player, who may be the host |
| `ListedLobbyIsOccupied`, `TourneyClientIsInChat` | `Lobby_refuted` | a creator who is in a match leaves a listed empty one; ids of tourney clients outlive them |
| `ChannelsCanBeLeft` | `Lobby_refuted` | the chat of a listed empty match is taken off the channel list twice: the second time `leave_channel` raises between its two halves, and whoever left keeps a channel that `logout` can never empty |
| `OneSessionPerUser`, `ListedIsFoundById`, `ListedIsFoundByName` | `Sessions_refuted` | racing logins; a second session takes or leaves index entries; a rename leaves the old name |
| `EveryGhostIsDisconnected` | `Sessions_refuted` | a displaced ghost ends every pass of the sweep, so that it and the ghosts behind it stay |
| `GoneOnLogout`, `ChannelGoesWithLastSpectator`, `CloseTargetsItsSession`, `OpenRowIsOpenSession` | `SpectatorHistory_refuted` | spectators of a host who logged out stay; a late id closes the wrong row |
| `OneRowPerCompletedGame`, `FrameIsOfCurrentGame`, `BeginWhenAllLoaded`, `NoStartTimeBetweenGames` | `MatchPlay_refuted` | late packets complete an aborted game or count for the next one; `loaded` and the start time are not cleared |
| `LoadedAreToldToBegin` | `MatchPlay_refuted` | the last one to load leaves, and nobody looks again |
| `ScrimIsUndecided` | `MCMatches_refuted` | the team type changes while scores are awaited: the point goes to a player, who then has enough of them, and the scrim goes on |
| `NobodyKeepsMods` | `MCMatches_refuted` | freemods are switched off while the host has no slot: the assertion ends the handler before the mods of the slots are cleared |
| `VerdictIsAudited`, `TerminalScoreIsSkipped` | `ReplayAnalysis_refuted` | verdict and log entry are two transactions; a duplicate entry is analysed again |
| `DroppedEnqueueIsRecovered`, `FlagIsNotDropped`, `ErrorIsRetried`, `BacklogIsDrained` | `ReplayAnalysis_refuted` | the backfill lists only scores without a row, from the start, and the flag is written last |
| `RowsAreCounted`, `FailureRestoresMemory` | `ScoreSubmission_refuted` | absolute statistics are written late, and snapshots put back old ones |
| `CacheIsSynced` | `MCMaps_refuted` | a nomination writes one cached object of two, or none (`KeyError`) |
| `NamesDiffer` | `MCMaps_refuted` | two uploads that overlap both find a name free: one of the two files is never served |
| `RejectedHasNoLeaderboard`, `OwnersEraseTheirOwn` | `MCMaps_refuted` | an owner's change of status, permitted before a rejection, is written after it; an owner deletes a set on which others set scores since the check |
| `HiddenStayHidden` | `MCPeople_refuted` | endpoints of activity, spectating, matches, clans and pools apply no rule; listings leave out the restricted but show the unverified |
| `BlockedSendNoMail` | `MCPeople_refuted` | somebody offline has no blocks in memory: a message of the blocked goes into the mail |
| `OwnersBelong` | `MCPeople_refuted` | a transfer races the new owner's leaving |
| `OnlineStayRecognised` | `MCPeople_refuted` | a password change evicts the hash that the player's session goes on using |
| `NothingRaises` | `MCPeople_refuted` | two links of one Discord account: the unique key raises where the docstring promises an outcome |
| `PeaksAreAnnouncedOnce` | `ActivityFeed_announce` | a restart on the day of a peak announces it again |

What was met while modelling and is not stated as a formula: a `Player` read from the
database for somebody offline counts as online for `restrict` (`is_online` tests its
token), so that unrestricting it may leave a player unranked until the next score;
scores between the read of a batch and the swap of a rebuild are lost until the next
one; `filter_invalid_combos` keeps HalfTime with NightCore when DoubleTime is set too; for
the same reason as above the notice that the target of a private message "is currently
offline" is never sent; a capture that failed after its rows were stored announces
nothing; the caches of `beatmap_leaderboards.py` are never cleared; adding a map to a
pool sees the first fifty picks only.

They delimit what the passing properties say: `ScoresInv` holds where the statistics
do not, tokens and ids find online players where the converse fails, `RosterInv` says
nothing of displaced players, `GhostsAreDisconnected` and `ModsAreWhereTheyBelong` name
them as their exceptions, `ShownIsServed` names mirrored maps as its own, and
`RestrictedAreUnranked`, `DecisionIsKept` and `UnwelcomeAreUnheard` are about requests
that do not overlap (`mixed`).

## 5. Proofs

For every choice of the constants that satisfies the named assumption of the module.
Each proof has the same shape: an inductive invariant, a lemma for each operator the
actions are built from, a lemma or a step for each action, and a temporal step. What
is said below of an invariant is what it needs beyond the property.

* `LobbyProofs`: `LobbyTyped` (`Spec => []TypeOK`), `RosterInvariant`
  (`Spec => [](TypeOK /\ RosterInv)`) and its parts `SeatsAlwaysExclusive`,
  `ChatAlwaysFollowsRoster`, `TourneyClientsNeverPlay`, `RefereesAreAlwaysMembers`.
  `RosterInv` is the conjunction of the four; none is inductive alone. That joining
  keeps seats exclusive needs that a player without a match has no seat; that a
  tourney client who leaves the chat is not seated needs that tourney clients do not
  play. `NothingIsLeftOver` (`NothingLeftOver`) and the action property
  `DeparturesComplete` (`DeparturesAreComplete`) rest on it. `ChatsLeft` and its
  neighbours say what leaving chats does to them, one that raises half way included.
* `SpectatorHistoryProofs`, first part, about `Spectating`: `WatchInvariant`
  (`Spec => []WatchInv`) and its parts. The inductive invariant is about the record of
  the three parts the methods change. Beside the properties it says that who watches a
  session of its own user watches itself (`OwnHost`), which needs that no user is
  online twice: without it a host who leaves its channel might take a spectator with
  it. `PromiseKept` (`Spec => KeepsPromise`) is the refinement of `Watching`: the
  mapping reads the host of a viewer off the lists of spectators; `HostIsPointer`
  shows that this is the viewer's pointer, so that the mapping is a function at all,
  and `StepKeepsPromise` maps every step to a step of `Watching` or a stutter.
* Second part, about `SpectatorHistory`: `WatchInvariantWithHistory`
  (`HSpec => []WatchInv`), `PromiseKeptWithHistory` (`HSpec => KeepsPromise`: the
  refinement holds with the tasks beside it too) and `HistoryInvariant`
  (`HSpec => []HistoryInv`). An id on
  its way from the task that opens a row to the task that closes one stays the id of a
  row of its player (`Stashed`, `Targets`), and when it is on its way to be closed the
  spectate is over.
* `MatchPlayProofs`, first part, about `MatchPlay`: `PlayInvariant`
  (`Spec => []PlayInv`). It needs that a match in progress has a start time, or a frame
  could be filed under no game.
* Second part, about `MatchSettings` by way of the sum `MCMatches`, whose parameters are
  all constants: `ModsInPlace` (`AllSpec => []ModsAreWhereTheyBelong`) and
  `PointsMatchWins` (`AllSpec => []PointsAreWins`). `SettingsInv` says of each match
  that the mods are with it or with its players as freemods says (`Modded`), that whoever
  plays in teams is in one (`Teamed`), and that points count the games noted as won
  (`Tallied`). It does not say that the host sits: a player may be displaced, and a
  switch of freemods that then raises half way is what `uncleared` remembers and
  `Modded` excepts. Handlers half way hold nothing stronger than their types, which is why
  nothing goes wrong when a look-up returns after others changed the match: what
  follows an `await` is written so that it keeps `SettingsInv` of any match. `Wins`
  counts a set of positions, so that `WinsOfMore` and `WinsOfFewer` do for sequences
  what an induction would.
* Third part, about `MatchHistory` by way of `MCMatches`: `GamesFiled`
  (`AllSpec => []GamesAreFiledRight`) and `ScrollsComplete`
  (`AllSpec => []ScrollsAreComplete`), for any numbers of lobbies, tasks, games and
  scores and pages of any length. `RecordInv` says what each task under way may count
  on (`TaskRight`): the id it was spawned with is that of a row of its own lobby, the
  id about to be committed is nobody else's, the game whose scores it writes is there
  with these participants. It holds for tasks of lobbies long gone, which the reuse of
  their place in the list does not touch, because a lobby learns its id from the task
  that was made for it. `Grows` is what every writer does - rows and games are added
  and say the same as before - so that one lemma (`TaskStay`) keeps every other task
  right. `ScrollRight` says that what a scroll owes has been shown or is below its
  cursor; rows that are committed late, with an id above the cursor, are none it owes.
  Both pages (`Newest`) and scoreboards (`_ranked_scores`) are made by counting who
  comes before: `Ranks` shows for any finite strict order that this gives each a place
  of its own, and every place to one, by an injection of a finite set into one of its
  size where an induction would be out of reach; `NewestIsPage` and `ScoresMakeABoard`
  follow from it.
* `SessionsProofs`: `IndexesSafe` (`Spec => []IndexInv`). That tokens and ids lead to
  listed players (`Good`) is kept by every operation of the collection, also by one
  that raises half way. That names do is not: a removal that raises at the id leaves
  the entry under the name. Until the first rename the indexes by id and by name agree
  (`Agreeing`), and then there is no such entry. The sweep needs that its position is
  in the list although the list gets shorter under it. A logout that raises at once
  changes nothing, so that displaced players cost the invariant nothing.
* `ScoresProofs`, first part, about `ScoreSubmission`: `SubmissionInvariance`, and
  from it `ScoresSafe` (`ScoresInv`) and `ReplaysSafe` (`ReplaySurvives`). The invariant
  ties the place a request has reached to what it holds: the checksum's lock, the row
  locks, the staged file, the row it wrote. Only with it does the look-up under the
  lock exclude a second row, and the rename find its file.
* Second part, about `Leaderboard` by way of the sum `MCScores`, whose parameters are
  all constants: `RestrictedUnranked` (`AllSpec => []RestrictedAreUnranked`) and the
  action property `RebuildExact` (`AllSpec => RebuildIsExact`), for any users,
  countries, requests and batches. Privileges are kept three times - in MySQL, in the
  `Player` object a request holds, in the one in the player list - and a restriction
  writes them one after the other. The invariant `RanksInv` says that an object is of
  one user for as long as anybody refers to it (`Owned`, `Collected`), what the one
  request for a user has in hand at each of its steps (`InHand`), and that a restricted
  player is ranked only while the `ZREM` of that restriction is still to come (`Hides`).
  Of a rebuild it says whom it has added and is about to add (`Adds`): a player ranked
  all the time is behind the cursor and staged, in the batch at hand, or still to be
  read. A full batch is an initial segment of the rows after the cursor, and one that
  is not full is all of them, so that the loop may end there: this is why a row that
  becomes ranked or unranked between two batches makes no other row be skipped.
* `ReplayAnalysisProofs`: `GroundsForReview` (any number of workers: a flag has a
  stored replay a detector fired on, and no verdict is recorded that nobody gave),
  `ReviewSafe` (`ReviewInv`, for one worker) and the action property `DecisionsKept`
  (`DecisionsAreKept`, any number). `ReviewSafe` has `OneWorker` as its hypothesis
  because `docker-compose.yml` runs one: what another worker read before would
  overwrite an `analyzed` row, and the row of a flagged score would say otherwise.
* Third part, about `BeatmapCache` by way of the sum `MCMaps`, whose parameters are all
  constants: the action property `CacheDeletions` (`MapsSpec => OnlyTheGoneAreDeleted`)
  and `CacheDecisions` (`MapsSpec => []DecisionIsKept`), for any maps, objects, requests
  and versions. Between the answer of the osu!api and the deletion it leads to there are
  several awaits; `ErrandRight` says that what a request goes on to delete is `lost` at
  each of them, and that what it is about to save has been listed. That needs that an
  object is of one set wherever it is held (`OfOneSet`), or the set a request deletes
  might not be the one it asked about. Of a map no two requests of which overlapped and
  whose file is the first one (`QuietMap`) the invariant says what its one request may
  count on (`Undisturbed`): its row is there before any object of it is cached, one
  object stands under the id and the md5, and a decision is in the row, in that object
  and in the object a refresh has in hand - so that whatever the request writes last,
  it writes the decision. `HandledKeeps` is the frame: what a request does to one map
  leaves what is said of the other maps and the other requests. It is also where
  objects that are collected and used again come in. The proof does not use that the
  map is idle: the decision stays also while a request is under way.
* `PeopleProofs` extends `MCPeople`, the sum of five models whose parameters are all
  constants of it, and proves their properties as the sum states them (`AllSpec => ...`)
  or, for `PublicView`, of its own `Spec`; and `MCMaps`, for the last two:
  * `RestrictedAreHidden` (`RestrictedStayHidden`) and `EntitledGetAnswers`
    (`EntitledAreServed`), for any number of requests, commands and logins under way.
    The invariant says that what a player is while a request is under way has been
    noted for it (`Noted`), so that a check or a query made at any moment of the
    request stays justified when the answer is given (`Cleared`); `RuleIsRight` and
    `ClausesAreRight` say that the rule and the clauses that restate it in the queries
    agree, and one lemma per family of endpoints that every step either lets through,
    refuses, lists or shows rightly. `UnruledShow` says that the endpoints without a
    rule answer whatever they answer, and disturb none of the others.
  * `MembersInClans` (`MembersHaveTheirClan`). A command reads the members of a clan,
    and takes them and the clan away steps later. Nobody joins a clan that there is -
    founders alone become members, of a new one - so that what was read has everybody
    who is in it now (`Complete`). A hand-over to somebody who meanwhile founded a clan
    is rolled back (`clans.owner` is unique).
  * `AccountsWhole` (`AccountsAreWhole`) and `AnswersRight` (`AnswersAreRight`). The
    cache maps a hash to the password it was made from (`CacheIsTrue`), whoever writes
    it when; what is known of the password of a check under way is kept up to date by
    every change of accounts (`RowsChange`), and hashes are never changed
    (`RequestGoesOn`).
  * `LinksSafe` (`LinksAreTheirs`). A callback under way holds a token that was issued
    to its user and spent by it alone (`FlowsAreTheirs`, `SpentOnce`).
  * `UnwelcomeUnheard` (`UnwelcomeAreUnheard`). Handlers go by memory, the property by
    the tables. For a player none of whose requests overlapped, memory agrees with the
    tables but for what the one request under way is about to write (`RowsKnown`,
    `SilenceKnown`, `Carries`): the game tells memory first, the site the table first,
    and both orders keep it. `OneActs` reduces each action to the player who acts.
  * `SubmissionsServed` (`ShownIsServed`) and `ReviewedFirst`
    (`LeaderboardsAreReviewed`), about `BeatmapSubmissions`, for any uploads, limits,
    users and requests. Files are written before the rows that announce them are
    committed, and removed after those are gone, so that an upload that fails half way
    and a deletion under way could remove the files of somebody's row only if they knew
    its id: ids come from a sequence that never repeats (`Taken`), and the ids of an
    upload under way (`NewIds`) are in no row and known to no other request (`Known`).
    A name is asked for among all rows, and what is found is hosted unless a mirrored map
    has the name.
    A map with a leaderboard is of a set staff approved at some time, because whoever
    is about to write its status is staff, or writes one without a leaderboard, or has
    passed a check that found the set approved (`UpdateRight`); a later rejection does
    not take back that it was reviewed, which is why this holds where
    `RejectedHasNoLeaderboard` fails.
* `ActivityFeed`: `PeaksSafe` (`PeaksArePeaks`) and the action property
  `SnapshotsSafe` (`SnapshotsAreKept`). A peak stays one because snapshots are never
  changed and because the ones taken after it have a later date (`DatesInOrder`).

Assumptions: the ASSUME of each module (`LobbyAssumption`, `SpectatingAssumption`,
`HistoryAssumption`, `SessionsAssumption`, `RanksAssumption`, `RecordAssumption`,
`MapsAssumption`, ...). They say that sets of different kinds do not overlap, that
bounds are numbers, that user names are unique (`users.name` has a unique key), that
nobody plays twice in a game (one seat per player, `SeatsAlwaysExclusive`), that a map
is the osu!api's or the server's, and whom staff and scores belong to; TLC evaluates
them in every run that extends the module.

Only model-checked:

* liveness - `GamesEnd`, `NobodyIsLeftWaiting`, `GhostsAreDisconnected`,
  `EveryScoreIsAnalyzed`, `ReplaysAreJudged`, `DueIsCaptured` - because fairness is out
  of the prover's reach;
* `RequestsGoOn`, which is about `ENABLED`.

Every other invariant and action property of the passing runs, and the refinement, is a
theorem.

## 6. What is not modelled

Not modelled: the visibility of what comments, packets and chat commands show; the
deletion of single difficulties by a refresh; packet encoding and the formatting of answers (byte-level, and tested);
the floating-point features of the replay analysis and the performance calculation;
comments, favourites, ratings, screenshots, avatars and the other producers of feed
events (single statements on independent rows); request drain and the order of
shutdown (the event loop's own primitives do the work); donor expiry (one sweep over
rows); the captcha, hardware matching and client integrity checks (they decide only
whether a request goes on); configuration, logging, metrics and the maintenance
tools.

## 7. Running

    tlc -workers 2 -config Lobby_roster.cfg MCLobby
    tlc -workers 2 -config MCPeople.cfg MCPeople
    tlapm LobbyProofs.tla

`PROJECT.json` names the module and configuration of every run, and maps every
definition to the lines it models.
