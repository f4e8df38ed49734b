--------------------------- MODULE MatchPlayProofs ---------------------------
(***************************************************************************)
(* Proofs about MatchPlay, for any number of players, slots and games,     *)
(* about MatchSettings, for any number of matches, seats, pools and        *)
(* handlers, and about MatchHistory, for any number of lobbies, tasks and  *)
(* pages, in the composition that MCMatches checks.                        *)
(*                                                                         *)
(* What a step of a game does to the slots and what it does to the         *)
(* players' queues are apart: SlotsOK is the part of PlayInv about the     *)
(* slots and the game, MailOK the part about clients, packets and records. *)
(* MailOK adds to the invariant that a game in progress has been started:  *)
(* without it !mp abort might abort a game that never was.                 *)
(*                                                                         *)
(* Of a match, SettingsInv says that each half of it is right whatever     *)
(* handlers are half way: who sits where (Placed), where the mods are      *)
(* (Modded), who is in a team (Teamed), and that points count the games    *)
(* noted as won (Tallied).  Modded says of freemods that are off only what *)
(* holds unless they were switched off without a seat of the host: that    *)
(* raises half way (SwitchFails), and the mods of the players stay.        *)
(*                                                                         *)
(* Of the record, RecordInv says that every task under way knows the row   *)
(* of its own lobby, and ScrollRight that what a scroll owes is behind it  *)
(* or below its cursor.  Grows says what any writer does: rows and games   *)
(* are added, and none that is there comes to say something else.          *)
(***************************************************************************)
EXTENDS MCMatches, FiniteSetTheorems, SequenceTheorems, WellFoundedInduction, TLAPS

EmptySlots == {Reset("open"), Reset("locked")}

\* A slot as it may be while a game is going on or not.
Sound(slot, playing) ==
  /\ slot \in Slot
  /\ slot.player = None => slot \in EmptySlots
  /\ slot.status = "playing" => playing /\ slot.player # None

SlotsOK ==
  /\ slots \in [SlotIds -> Slot] /\ in_progress \in BOOLEAN
  /\ \A i \in SlotIds : Sound(slots[i], in_progress)

MailOK ==
  /\ started_at \in 0..MaxGames /\ (in_progress => started_at # 0)
  /\ aborted \subseteq Games
  /\ recorded \in [Games -> Nat]
  /\ client \in [Players -> [phase : Phases, game : 0..MaxGames]]
  /\ inbox \in [Players -> Seq(Packets)]

-----------------------------------------------------------------------------
\* The two parts are the invariant, when the queues are a function.
LEMMA PartsArePlayInv ==
  ASSUME SlotsOK, MailOK PROVE PlayInv
<1>1. \A i \in SlotIds : slots[i].player = None => slots[i] \in {Reset("open"), Reset("locked")}
  BY DEF SlotsOK, Sound, EmptySlots
<1>2. PlayingOnlyInProgress
  BY DEF SlotsOK, Sound, PlayingOnlyInProgress
<1>3. \A p \in Players : inbox[p] \in Seq(Packets)
  BY DEF MailOK
<1>4. TypeOK
  BY <1>1, <1>3 DEF SlotsOK, MailOK, TypeOK
<1>5. QED
  BY <1>2, <1>4 DEF PlayInv

\* Slot.reset leaves an empty slot that is open or locked.
LEMMA ResetSound ==
  ASSUME NEW st \in {"open", "locked"}, NEW playing
  PROVE  /\ Reset(st) \in EmptySlots /\ Sound(Reset(st), playing)
         /\ Reset(st).player = None /\ Reset(st).status = st
<1>1. Reset(st) \in EmptySlots
  BY DEF EmptySlots
<1>2. Reset(st).player = None /\ Reset(st).status = st
  BY DEF Reset
<1>3. Reset(st) \in Slot
  BY MatchPlayAssumption DEF Reset, Slot, SlotStatus
<1>4. QED
  BY <1>1, <1>2, <1>3 DEF Sound

\* What is in an empty slot.
Vacant(slot) ==
  /\ slot.player = None /\ slot.status \in {"open", "locked"}
  /\ slot.loaded = FALSE /\ slot.passed = TRUE /\ slot.last_score_frame = 0

\* The empty slots are the vacant ones.
LEMMA EmptyIsVacant ==
  ASSUME NEW slot \in Slot
  PROVE  /\ slot \in EmptySlots <=> Vacant(slot)
         /\ Vacant(slot) => \A playing : Sound(slot, playing)
<1>1. Vacant(slot) => slot = Reset(slot.status)
  BY DEF Vacant, Reset, Slot
<1>2. ASSUME NEW st \in {"open", "locked"}, slot = Reset(st) PROVE Vacant(slot)
  BY <1>2 DEF Vacant, Reset
<1>3. slot \in EmptySlots <=> Vacant(slot)
  BY <1>1, <1>2 DEF EmptySlots, Vacant
<1>4. QED
  BY <1>3 DEF Sound, Vacant

\* A step that puts one sound slot in the place of another keeps all sound.
LEMMA OneSlotChanges ==
  ASSUME SlotsOK, NEW i \in SlotIds, NEW slot, Sound(slot, in_progress),
         slots' = [slots EXCEPT ![i] = slot], in_progress' = in_progress
  PROVE  SlotsOK'
BY DEF SlotsOK, Sound

\* A handler that changes fields of its player's own slot keeps it sound, if
\* it does not put it in play.
LEMMA OwnSlotSound ==
  ASSUME NEW slot \in Slot, NEW playing \in BOOLEAN, Sound(slot, playing), slot.player # None
  PROVE  /\ \A st \in SlotStatus \ {"playing"} :
              Sound([slot EXCEPT !.status = st], playing)
         /\ Sound([slot EXCEPT !.loaded = TRUE], playing)
         /\ Sound([slot EXCEPT !.passed = FALSE], playing)
         /\ \A g \in 0..MaxGames : Sound([slot EXCEPT !.last_score_frame = g], playing)
BY DEF Sound, Slot

\* Match.unready_players and reset_players_loaded_status leave a slot sound; it
\* stays in play only if it was, and then not when the playing are unreadied.
LEMMA UnreadySound ==
  ASSUME NEW slot \in Slot, slot.player = None => slot \in EmptySlots,
         NEW expected \in {"playing", "complete"},
         slot.status = "playing" => expected = "playing"
  PROVE  Sound(Unready(slot, expected), FALSE)
<1>1. CASE slot.player = None
  <2>1. Vacant(slot)
    BY <1>1, EmptyIsVacant
  <2>2. Unready(slot, expected) \in Slot /\ Vacant(Unready(slot, expected))
    BY <2>1 DEF Unready, Slot, Vacant
  <2>3. QED
    BY <2>2, EmptyIsVacant
<1>2. CASE slot.player # None
  <2>1. Unready(slot, expected) \in Slot
    BY DEF Unready, Slot, SlotStatus
  <2>2. Unready(slot, expected).player # None /\ Unready(slot, expected).status # "playing"
    BY <1>2 DEF Unready, Slot
  <2>3. QED
    BY <2>1, <2>2 DEF Sound
<1>3. QED
  BY <1>1, <1>2

\* Match.enqueue appends packets to queues of packets.
LEMMA EnqueueTyped ==
  ASSUME inbox \in [Players -> Seq(Packets)], NEW immune, NEW packet \in Packets,
         Enqueue(immune, packet)
  PROVE  inbox' \in [Players -> Seq(Packets)]
<1>1. \A p \in Players : Append(inbox[p], packet) \in Seq(Packets)
  OBVIOUS
<1>2. QED
  BY <1>1 DEF Enqueue

\* The packets the server sends.
LEMMA PacketsSent ==
  /\ \A g \in Games : [kind |-> "start", game |-> g] \in Packets
  /\ \A k \in {"all_loaded", "complete", "abort"} : [kind |-> k] \in Packets
BY DEF Packets

-----------------------------------------------------------------------------
(* The actions.                                                            *)

\* Coming, going and changing slots.
LEMMA RosterKeeps ==
  ASSUME SlotsOK, MailOK, NEW p \in Players,
         Join(p) \/ Leave(p) \/ SetStatus(p) \/ \E i \in SlotIds : ChangeSlot(p, i)
  PROVE  SlotsOK' /\ MailOK'
<1> USE MatchPlayAssumption
<1>1. CASE Join(p)
  <2>1. PICK i \in SlotIds :
          slots' = [slots EXCEPT ![i].player = p, ![i].status = "not_ready"]
    BY <1>1 DEF Join
  <2>2. Sound([slots[i] EXCEPT !.player = p, !.status = "not_ready"], in_progress)
    BY DEF SlotsOK, Sound, Slot, SlotStatus
  <2>3. slots' = [slots EXCEPT ![i] = [slots[i] EXCEPT !.player = p, !.status = "not_ready"]]
    BY <2>1 DEF SlotsOK, Slot
  <2>4. SlotsOK'
    BY <1>1, <2>2, <2>3, OneSlotChanges DEF Join
  <2>5. MailOK'
    BY <1>1 DEF Join, MailOK, Phases
  <2>6. QED
    BY <2>4, <2>5
<1>2. CASE Leave(p)
  <2>1. PICK i \in SlotIds :
          slots' = [slots EXCEPT ![i] =
                      Reset(IF slots[i].status = "locked" THEN "locked" ELSE "open")]
    BY <1>2 DEF Leave, OwnSlot, SlotsOK
  <2>2. SlotsOK'
    BY <1>2, <2>1, ResetSound, OneSlotChanges DEF Leave
  <2>3. MailOK'
    BY <1>2 DEF Leave, MailOK, Phases
  <2>4. QED
    BY <2>2, <2>3
<1>3. CASE SetStatus(p)
  <2>1. PICK st \in {"ready", "not_ready", "no_map"}, i \in SlotIds :
          Sits(p, i) /\ slots' = [slots EXCEPT ![i] = [slots[i] EXCEPT !.status = st]]
    BY <1>3 DEF SetStatus, OwnSlot
  <2>2. Sound([slots[i] EXCEPT !.status = st], in_progress)
    BY <2>1, OwnSlotSound DEF SlotsOK, Sits, SlotStatus
  <2>3. SlotsOK'
    BY <1>3, <2>1, <2>2, OneSlotChanges DEF SetStatus
  <2>4. MailOK'
    BY <1>3 DEF SetStatus, MailOK
  <2>5. QED
    BY <2>3, <2>4
<1>4. ASSUME NEW i \in SlotIds, ChangeSlot(p, i) PROVE SlotsOK' /\ MailOK'
  <2>1. PICK j \in SlotIds :
          /\ Sits(p, j)
          /\ slots' = [slots EXCEPT ![i].player = p, ![i].status = slots[j].status,
                                    ![j] = Reset("open")]
    BY <1>4 DEF ChangeSlot
  <2>2. /\ in_progress' = in_progress
        /\ Sound(slots[i], in_progress) /\ Sound(slots[j], in_progress) /\ slots[j].player = p
    BY <1>4, <2>1 DEF ChangeSlot, SlotsOK, Sits
  <2>3. Sound(Reset("open"), in_progress)
    BY ResetSound
  <2>4. Sound([slots[i] EXCEPT !.player = p, !.status = slots[j].status], in_progress)
    BY <2>2 DEF Sound, Slot
  <2>5. slots' = [[slots EXCEPT ![i] = [slots[i] EXCEPT !.player = p,
                                                        !.status = slots[j].status]]
                    EXCEPT ![j] = Reset("open")]
    BY <2>1 DEF SlotsOK, Slot
  <2>6. SlotsOK'
    BY <2>2, <2>3, <2>4, <2>5 DEF SlotsOK, Sound
  <2>7. MailOK'
    BY <1>4 DEF ChangeSlot, MailOK
  <2>8. QED
    BY <2>6, <2>7
<1>5. QED
  BY <1>1, <1>2, <1>3, <1>4

\* MatchLock toggles a slot between open and locked; a kicked player's slot is
\* out of play.
LEMMA LockKeeps ==
  ASSUME SlotsOK, MailOK, NEW i \in SlotIds, Lock(i)
  PROVE  SlotsOK' /\ MailOK'
<1> DEFINE st == IF slots[i].status = "locked" THEN "open" ELSE "locked"
<1>1. Sound([slots[i] EXCEPT !.status = st], in_progress)
  <2>1. slots[i] \in Slot /\ Sound(slots[i], in_progress)
    BY DEF SlotsOK
  <2>2. CASE slots[i].player # None
    BY <2>1, <2>2, OwnSlotSound DEF SlotStatus, SlotsOK
  <2>3. CASE slots[i].player = None
    <3>1. Vacant(slots[i])
      BY <2>1, <2>3, EmptyIsVacant DEF Sound
    <3>2. [slots[i] EXCEPT !.status = st] \in Slot /\ Vacant([slots[i] EXCEPT !.status = st])
      BY <2>1, <3>1 DEF Slot, SlotStatus, Vacant
    <3>3. QED
      BY <3>2, EmptyIsVacant
  <2>4. QED
    BY <2>2, <2>3
<1>2. slots' = [slots EXCEPT ![i] = [slots[i] EXCEPT !.status = st]]
  BY DEF Lock, SlotsOK, Slot
<1>3. SlotsOK'
  BY <1>1, <1>2, OneSlotChanges DEF Lock
<1>4. MailOK'
  BY DEF Lock, MailOK
<1>5. QED
  BY <1>3, <1>4

\* Match.start puts players in play, and nobody else; !mp abort takes all of
\* them out.
LEMMA GameKeeps ==
  ASSUME SlotsOK, MailOK, Start \/ Abort
  PROVE  SlotsOK' /\ MailOK'
<1> USE MatchPlayAssumption
<1>1. CASE Start
  <2> DEFINE InPlayNow(slot) ==
               [slot EXCEPT !.status = IF slot.player # None /\ @ # "no_map"
                                       THEN "playing" ELSE @,
                            !.passed = TRUE, !.last_score_frame = 0]
  <2>1. ASSUME NEW slot \in Slot, slot.player = None => slot \in EmptySlots
        PROVE  Sound(InPlayNow(slot), TRUE)
    <3>1. [slot EXCEPT !.status = IF slot.player # None /\ @ # "no_map"
                                  THEN "playing" ELSE @] \in Slot
      BY DEF Slot, SlotStatus
    <3>2. ASSUME NEW t \in Slot
          PROVE  [t EXCEPT !.passed = TRUE, !.last_score_frame = 0] \in Slot
      <4>1. [t EXCEPT !.passed = TRUE] \in Slot
        BY DEF Slot
      <4>2. ASSUME NEW u \in Slot PROVE [u EXCEPT !.last_score_frame = 0] \in Slot
        BY DEF Slot
      <4>3. QED
        BY <4>1, <4>2
    <3>3. InPlayNow(slot) \in Slot
      BY <3>1, <3>2
    <3>4. CASE slot.player = None
      <4>1. Vacant(slot)
        BY <2>1, <3>4, EmptyIsVacant
      <4>2. Vacant(InPlayNow(slot))
        BY <3>4, <4>1 DEF Slot, Vacant
      <4>3. QED
        BY <3>3, <4>2, EmptyIsVacant
    <3>5. CASE slot.player # None
      <4>1. InPlayNow(slot).player # None
        BY <3>5 DEF Slot
      <4>2. QED
        BY <3>3, <4>1 DEF Sound
    <3>6. QED
      BY <3>4, <3>5
  <2>2. SlotsOK'
    <3>1. slots' = [i \in SlotIds |-> InPlayNow(slots[i])] /\ in_progress' = TRUE
      BY <1>1 DEF Start
    <3> HIDE DEF InPlayNow
    <3>2. \A i \in SlotIds : Sound(slots'[i], TRUE)
      BY <2>1, <3>1 DEF SlotsOK, Sound
    <3>3. QED
      BY <3>1, <3>2 DEF SlotsOK, Sound
  <2>3. started_at + 1 \in Games /\ started_at' = started_at + 1
    <3>1. started_at < MaxGames /\ started_at' = started_at + 1
      BY <1>1 DEF Start
    <3>2. QED
      BY <3>1 DEF MailOK, Games
  <2>4. inbox' \in [Players -> Seq(Packets)]
    BY <1>1, <2>3, EnqueueTyped, PacketsSent DEF Start, MailOK
  <2>5. MailOK'
    <3>1. started_at' \in 0..MaxGames /\ started_at' # 0
      BY <2>3 DEF Games
    <3>2. QED
      BY <1>1, <2>4, <3>1 DEF Start, MailOK
  <2>6. QED
    BY <2>2, <2>5
<1>2. CASE Abort
  <2>1. SlotsOK'
    BY <1>2, UnreadySound DEF Abort, SlotsOK, Sound
  <2>2. inbox' \in [Players -> Seq(Packets)]
    BY <1>2, EnqueueTyped, PacketsSent DEF Abort, MailOK
  <2>3. aborted' \subseteq Games
    BY <1>2 DEF Abort, MailOK, Games
  <2>4. MailOK'
    BY <1>2, <2>2, <2>3 DEF Abort, MailOK
  <2>5. QED
    BY <2>1, <2>4
<1>3. QED
  BY <1>1, <1>2

\* Loading, scores and failures change no status.
LEMMA PlayKeeps ==
  ASSUME SlotsOK, MailOK, NEW p \in Players,
         LoadComplete(p) \/ ScoreUpdate(p) \/ Failed(p)
  PROVE  SlotsOK' /\ MailOK'
<1> USE MatchPlayAssumption
<1>1. \A i \in SlotIds : slots[i] \in Slot /\ Sound(slots[i], in_progress)
  BY DEF SlotsOK
<1>2. CASE LoadComplete(p)
  <2>1. PICK i \in SlotIds :
          Sits(p, i) /\ slots' = [slots EXCEPT ![i] = [slots[i] EXCEPT !.loaded = TRUE]]
    BY <1>2 DEF LoadComplete, OwnSlot
  <2>2. SlotsOK'
    <3>1. in_progress \in BOOLEAN /\ slots[i].player # None
      BY <2>1 DEF SlotsOK, Sits
    <3>2. Sound([slots[i] EXCEPT !.loaded = TRUE], in_progress)
      BY <1>1, <3>1, OwnSlotSound
    <3>3. in_progress' = in_progress
      BY <1>2 DEF LoadComplete
    <3>4. QED
      BY <2>1, <3>2, <3>3, OneSlotChanges
  <2>3. inbox' \in [Players -> Seq(Packets)]
    BY <1>2, EnqueueTyped, PacketsSent DEF LoadComplete, MailOK
  <2>4. client' \in [Players -> [phase : Phases, game : 0..MaxGames]]
    BY <1>2 DEF LoadComplete, Enters, MailOK, Phases
  <2>5. MailOK'
    BY <1>2, <2>3, <2>4 DEF LoadComplete, MailOK
  <2>6. QED
    BY <2>2, <2>5
<1>3. CASE ScoreUpdate(p)
  <2>1. PICK i \in SlotIds :
          /\ Sits(p, i)
          /\ slots' = [slots EXCEPT ![i] =
                         [slots[i] EXCEPT !.last_score_frame = client[p].game]]
    BY <1>3 DEF ScoreUpdate, OwnSlot
  <2>2. client[p].game \in 0..MaxGames
    BY DEF MailOK
  <2>3. in_progress \in BOOLEAN /\ slots[i].player # None
    BY <2>1 DEF SlotsOK, Sits
  <2>4. Sound([slots[i] EXCEPT !.last_score_frame = client[p].game], in_progress)
    BY <1>1, <2>2, <2>3, OwnSlotSound
  <2>5. in_progress' = in_progress
    BY <1>3 DEF ScoreUpdate
  <2>6. SlotsOK'
    BY <2>1, <2>4, <2>5, OneSlotChanges
  <2>7. MailOK'
    BY <1>3 DEF ScoreUpdate, MailOK
  <2>8. QED
    BY <2>6, <2>7
<1>4. CASE Failed(p)
  <2>1. PICK i \in SlotIds :
          Sits(p, i) /\ slots' = [slots EXCEPT ![i] = [slots[i] EXCEPT !.passed = FALSE]]
    BY <1>4 DEF Failed, OwnSlot
  <2>2. SlotsOK'
    <3>1. in_progress \in BOOLEAN /\ slots[i].player # None
      BY <2>1 DEF SlotsOK, Sits
    <3>2. Sound([slots[i] EXCEPT !.passed = FALSE], in_progress)
      BY <1>1, <3>1, OwnSlotSound
    <3>3. in_progress' = in_progress
      BY <1>4 DEF Failed
    <3>4. QED
      BY <2>1, <3>2, <3>3, OneSlotChanges
  <2>3. MailOK'
    BY <1>4 DEF Failed, MailOK
  <2>4. QED
    BY <2>2, <2>3
<1>5. QED
  BY <1>2, <1>3, <1>4

\* MatchComplete ends the game when nobody is in play any more, and takes the
\* ones who completed it out of play with it.
LEMMA CompleteKeeps ==
  ASSUME SlotsOK, MailOK, NEW p \in Players, Complete(p)
  PROVE  SlotsOK' /\ MailOK'
<1> USE MatchPlayAssumption
<1>1. PICK i \in SlotIds :
        /\ Sits(p, i)
        /\ LET now == [slots EXCEPT ![i].status = "complete"]
           IN  \/ slots' = now /\ UNCHANGED <<in_progress, recorded, inbox>>
               \/ /\ \A j \in SlotIds : now[j].status # "playing"
                  /\ slots' = [j \in SlotIds |-> Unready(now[j], "complete")]
                  /\ in_progress' = FALSE
                  /\ \E immune : Enqueue(immune, [kind |-> "complete"])
                  /\ recorded' = [recorded EXCEPT ![started_at] = @ + 1]
  BY DEF Complete
<1> DEFINE now == [slots EXCEPT ![i] = [slots[i] EXCEPT !.status = "complete"]]
<1>2. now = [slots EXCEPT ![i].status = "complete"]
  BY DEF SlotsOK
<1>3. \A j \in SlotIds : now[j] \in Slot /\ Sound(now[j], in_progress)
  <2>1. Sound([slots[i] EXCEPT !.status = "complete"], in_progress)
    BY <1>1, OwnSlotSound DEF SlotsOK, Sits, SlotStatus
  <2>2. QED
    BY <2>1 DEF SlotsOK, Sound
<1>4. client' \in [Players -> [phase : Phases, game : 0..MaxGames]]
  BY DEF Complete, Enters, MailOK, Phases
<1>5. UNCHANGED <<started_at, aborted>>
  BY DEF Complete
<1>6. now \in [SlotIds -> Slot]
  BY <1>3 DEF SlotsOK
<1>7. CASE slots' = now /\ UNCHANGED <<in_progress, recorded, inbox>>
  <2>1. SlotsOK'
    BY <1>3, <1>6, <1>7 DEF SlotsOK
  <2>2. MailOK'
    BY <1>4, <1>5, <1>7 DEF MailOK
  <2>3. QED
    BY <2>1, <2>2
<1>8. CASE /\ \A j \in SlotIds : now[j].status # "playing"
           /\ slots' = [j \in SlotIds |-> Unready(now[j], "complete")]
           /\ in_progress' = FALSE
           /\ \E immune : Enqueue(immune, [kind |-> "complete"])
           /\ recorded' = [recorded EXCEPT ![started_at] = @ + 1]
  <2> HIDE DEF now
  <2>1. \A j \in SlotIds : Sound(Unready(now[j], "complete"), FALSE)
    BY <1>3, <1>8, UnreadySound DEF Sound
  <2>2. SlotsOK'
    BY <1>8, <2>1 DEF SlotsOK, Sound
  <2>3. inbox' \in [Players -> Seq(Packets)]
    BY <1>8, EnqueueTyped, PacketsSent DEF MailOK
  <2>4. recorded' \in [Games -> Nat]
    <3>1. recorded \in [Games -> Nat]
      BY DEF MailOK
    <3>2. recorded' = [recorded EXCEPT ![started_at] = @ + 1]
      BY <1>8
    <3>3. CASE started_at \in Games
      <4>1. recorded[started_at] + 1 \in Nat
        BY <3>1, <3>3
      <4>2. QED
        BY <3>1, <3>2, <4>1
    <3>4. CASE started_at \notin Games
      BY <3>1, <3>2, <3>4
    <3>5. QED
      BY <3>3, <3>4
  <2>5. MailOK'
    BY <1>4, <1>5, <1>8, <2>3, <2>4 DEF MailOK
  <2>6. QED
    BY <2>2, <2>5
<1>9. QED
  BY <1>1, <1>2, <1>7, <1>8

\* A client that polls takes a packet off its queue.
LEMMA PollKeeps ==
  ASSUME SlotsOK, MailOK, NEW p \in Players, Poll(p)
  PROVE  SlotsOK' /\ MailOK'
<1> DEFINE C == [phase : Phases, game : 0..MaxGames]
<1>1. inbox[p] \in Seq(Packets) /\ inbox[p] # <<>>
  BY DEF Poll, MailOK
<1>2. Head(inbox[p]) \in Packets /\ Tail(inbox[p]) \in Seq(Packets)
  <2> HIDE DEF Packets
  <2>1. QED
    BY <1>1
<1>3. ASSUME NEW c \in C, NEW packet \in Packets PROVE Heard(c, packet) \in C
  <2>1. CASE packet \in [kind : {"start"}, game : Games]
    BY <2>1, MatchPlayAssumption DEF Heard, Games, Phases
  <2>2. CASE packet \in [kind : {"all_loaded", "complete", "abort"}]
    BY <2>2 DEF Heard, Phases
  <2>3. QED
    BY <1>3, <2>1, <2>2 DEF Packets
<1>4. client[p] \in C /\ client' = [client EXCEPT ![p] = Heard(client[p], Head(inbox[p]))]
  BY DEF Poll, MailOK
<1>5. client' \in [Players -> C]
  BY <1>2, <1>3, <1>4 DEF MailOK
<1>6. inbox' \in [Players -> Seq(Packets)]
  BY <1>2 DEF Poll, MailOK
<1>7. QED
  BY <1>5, <1>6 DEF Poll, SlotsOK, MailOK

-----------------------------------------------------------------------------
\* In every reachable state the match, the clients and their queues are well
\* formed and whoever is in play is in a game in progress, for any number of
\* players, slots and games: Match.start puts nobody in play but who sits
\* there, and MatchComplete, !mp abort, leave_match and MatchLock take
\* everybody out who was.
THEOREM PlayInvariant == Spec => []PlayInv
<1>1. Init => SlotsOK /\ MailOK
  <2> SUFFICES ASSUME Init PROVE SlotsOK /\ MailOK
    OBVIOUS
  <2> USE MatchPlayAssumption
  <2>1. PICK p \in Players :
          /\ slots = [i \in SlotIds |->
                        IF \A j \in SlotIds : i <= j
                        THEN [Reset("not_ready") EXCEPT !.player = p] ELSE Reset("open")]
          /\ client = [q \in Players |->
                         [phase |-> IF q = p THEN "lobby" ELSE "out", game |-> 0]]
    BY DEF Init
  <2>2. Sound([Reset("not_ready") EXCEPT !.player = p], FALSE)
    <3>1. Reset("not_ready") \in Slot
      BY DEF Reset, Slot, SlotStatus
    <3>2. [Reset("not_ready") EXCEPT !.player = p].status = "not_ready"
      BY DEF Reset
    <3>3. QED
      BY <3>1, <3>2 DEF Sound, Slot
  <2>3. Sound(Reset("open"), FALSE)
    BY ResetSound
  <2>4. SlotsOK
    BY <2>1, <2>2, <2>3 DEF Init, SlotsOK, Sound
  <2>5. MailOK
    BY <2>1 DEF Init, MailOK, Phases
  <2>6. QED
    BY <2>4, <2>5
<1>2. SlotsOK /\ MailOK /\ [Next]_vars => (SlotsOK /\ MailOK)'
  <2> SUFFICES ASSUME SlotsOK, MailOK, [Next]_vars PROVE SlotsOK' /\ MailOK'
    OBVIOUS
  <2>1. CASE Next
    BY <2>1, GameKeeps, LockKeeps, RosterKeeps, PollKeeps, PlayKeeps, CompleteKeeps DEF Next
  <2>2. CASE UNCHANGED vars
    BY <2>2 DEF vars, SlotsOK, MailOK
  <2>3. QED
    BY <2>1, <2>2
<1>3. SlotsOK /\ MailOK => PlayInv
  BY PartsArePlayInv
<1>4. QED
  BY <1>1, <1>2, <1>3, PTL DEF Spec

-----------------------------------------------------------------------------
(* What a match is set to and what is played for (MatchSettings), for any  *)
(* number of matches, seats, pools and handlers, in the composition that   *)
(* MCMatches checks.                                                       *)

\* What Match and Slot objects and half-done handlers look like.
Sides == Members \cup {"neutral", "red", "blue"}
Chairs == [player : Members \cup {"nobody"}, mods : SUBSET Mods,
           team : {"neutral", "red", "blue"}]
Sheets == [host : Members, members : SUBSET Members, listed : BOOLEAN,
           uncleared : BOOLEAN, map : Maps \cup {Settings!NoMap},
           prev : Maps \cup {Settings!NoMap}, mods : SUBSET Mods,
           freemods : BOOLEAN, team_type : TeamTypes, cond : Settings!Conditions,
           pp : BOOLEAN, pool : DOMAIN Pools \cup {Settings!NoPool},
           passwd : {"given", "chosen", "random"}, scrimming : BOOLEAN,
           winning_pts : Nat, points : [Sides -> Int],
           winners : Seq(Sides \cup {"tie"}),
           bans : SUBSET UNION {DOMAIN Pools[q] : q \in DOMAIN Pools}]
Wishes == [freemods : BOOLEAN, map : Maps \cup {Settings!NoMap},
           team_type : TeamTypes, cond : Settings!Conditions]
Jobs == {[op |-> "idle"]}
        \cup [op : {"settings"}, p : Members, d : Wishes]
        \cup [op : {"map"}, m : Rooms, map : Maps]
        \cup [op : {"loadpool"}, m : Rooms, pool : DOMAIN Pools]
        \cup [op : {"ban", "unban", "pick", "picked"}, m : Rooms,
              pick : UNION {DOMAIN Pools[q] : q \in DOMAIN Pools},
              map : Maps, mods : SUBSET Mods]
        \cup [op : {"points"}, m : Rooms, left : SUBSET Settings!Seats,
              ffa : BOOLEAN, scores : [Sides -> Int]]

\* The games noted as won by k.
Wins(w, k) == Cardinality({j \in DOMAIN w : w[j] = k})

\* The record of a match: each side has a point for each game noted as won.
Tallied(rec) == \A k \in Sides : rec.points[k] = Wins(rec.winners, k)

Placed(chairs) == chairs \in [Settings!Seats -> Chairs]

\* Seats have mods only when players may have their own and somebody sits there,
\* and none that change the speed.
Modded(own, chairs) ==
  \A i \in Settings!Seats :
    /\ chairs[i].mods \cap Settings!SPEED_CHANGING_MODS = {}
    /\ ~own \/ chairs[i].player = "nobody" => chairs[i].mods = {}

\* Whoever plays in teams is in one.
Teamed(team_type, chairs) ==
  ~Settings!ffa(team_type) =>
    \A i \in Settings!Seats : chairs[i].player # "nobody" => chairs[i].team # "neutral"

Room(rec, chairs) ==
  /\ rec \in Sheets /\ Tallied(rec)
  /\ Placed(chairs)
  /\ Modded(rec.freemods \/ rec.uncleared, chairs)
  /\ Teamed(rec.team_type, chairs)

SettingsInv ==
  /\ DOMAIN s_match = Rooms /\ s_match = [m \in Rooms |-> s_match[m]]
  /\ DOMAIN s_slots = Rooms /\ s_slots = [m \in Rooms |-> s_slots[m]]
  /\ s_task \in [Handlers -> Jobs]
  /\ \A m \in Rooms : Room(s_match[m], s_slots[m])

-----------------------------------------------------------------------------
\* The cardinality that the instance of MatchSettings names is the one of
\* FiniteSets.
LEMMA SettingsCardinality ==
  ASSUME NEW S PROVE Settings!Cardinality(S) = Cardinality(S)
BY DEF Settings!Cardinality, Cardinality

\* Before the first game nobody has won one.
LEMMA NoWins == \A k : Wins(<<>>, k) = 0
<1>1. \A k : {j \in DOMAIN <<>> : <<>>[j] = k} = {}
  OBVIOUS
<1>2. QED
  BY <1>1, FS_EmptySet DEF Wins

\* Noting a winner counts one more game for it and for nobody else.
LEMMA WinsOfMore ==
  ASSUME NEW S, NEW w \in Seq(S), NEW x \in S, NEW k
  PROVE  Wins(Append(w, x), k) = Wins(w, k) + (IF x = k THEN 1 ELSE 0)
<1> DEFINE A == {j \in DOMAIN w : w[j] = k}
           B == {j \in DOMAIN Append(w, x) : Append(w, x)[j] = k}
           n == Len(w) + 1
<1>1. IsFiniteSet(A) /\ Cardinality(A) \in Nat
  <2>1. IsFiniteSet(1 .. Len(w))
    BY FS_Interval
  <2>2. A \in SUBSET (1 .. Len(w))
    OBVIOUS
  <2>3. QED
    BY <2>1, <2>2, FS_Subset, FS_CardinalityType
<1>2. n \notin A
  OBVIOUS
<1>3. B = IF x = k THEN A \cup {n} ELSE A
  OBVIOUS
<1>4. Cardinality(A \cup {n}) = Cardinality(A) + 1
  BY <1>1, <1>2, FS_AddElement
<1>5. Wins(w, k) = Cardinality(A) /\ Wins(Append(w, x), k) = Cardinality(B)
  BY DEF Wins
<1> HIDE DEF A, B, n
<1>6. QED
  BY <1>1, <1>3, <1>4, <1>5

\* mp_rematch takes the last entry back: one game less for whoever it names.
LEMMA WinsOfFewer ==
  ASSUME NEW S, NEW w \in Seq(S), w # <<>>, NEW k
  PROVE  /\ SubSeq(w, 1, Len(w) - 1) \in Seq(S)
         /\ Wins(SubSeq(w, 1, Len(w) - 1), k) =
              Wins(w, k) - (IF w[Len(w)] = k THEN 1 ELSE 0)
<1> DEFINE v == SubSeq(w, 1, Len(w) - 1)
           A == {j \in DOMAIN w : w[j] = k}
           B == {j \in DOMAIN v : v[j] = k}
           n == Len(w)
<1>1. IsFiniteSet(A) /\ Cardinality(A) \in Nat
  <2>1. IsFiniteSet(1 .. Len(w))
    BY FS_Interval
  <2>2. A \in SUBSET (1 .. Len(w))
    OBVIOUS
  <2>3. QED
    BY <2>1, <2>2, FS_Subset, FS_CardinalityType
<1>2. v \in Seq(S) /\ Len(v) = n - 1 /\ \A j \in 1 .. n - 1 : v[j] = w[j]
  <2>1. PICK l \in Nat : Len(w) = l /\ l > 0
    BY EmptySeq, LenProperties
  <2>2. Len(w) - 1 \in Int /\ \A i \in 1 .. Len(w) - 1 : w[i] \in S
    BY <2>1
  <2>3. /\ v \in Seq(S) /\ Len(v) = IF 1 <= l - 1 THEN l - 1 - 1 + 1 ELSE 0
        /\ \A i \in 1 .. l - 1 - 1 + 1 : v[i] = w[1 + i - 1]
    <3> HIDE DEF v
    <3> QED
      BY <2>1, <2>2, SubSeqProperties DEF v
  <2> HIDE DEF v
  <2>4. Len(v) = l - 1
    BY <2>1, <2>3
  <2>5. \A j \in 1 .. l - 1 : v[j] = w[j]
    BY <2>1, <2>3
  <2>6. QED
    BY <2>1, <2>3, <2>4, <2>5
<1>3. B = IF w[n] = k THEN A \ {n} ELSE A
  BY <1>2
<1>4. w[n] = k => n \in A
  BY <1>2
<1>5. Wins(w, k) = Cardinality(A) /\ Wins(v, k) = Cardinality(B) /\ w[n] = w[Len(w)]
  BY DEF Wins
<1> HIDE DEF A, B, n
<1>6. w[n] = k => Cardinality(A \ {n}) = Cardinality(A) - 1
  BY <1>1, <1>4, FS_RemoveElement
<1>7. QED
  BY <1>1, <1>2, <1>3, <1>5, <1>6

-----------------------------------------------------------------------------
\* filter_invalid_combos only takes mods away.
LEMMA ValidModsAreMods ==
  ASSUME NEW mods \in SUBSET Mods
  PROVE  Settings!filter_invalid_combos(mods, 0) \in SUBSET Mods
<1>1. \A S : Settings!DropConflicts(S) \subseteq S
  BY DEF Settings!DropConflicts, Settings!Without
<1>2. \A S : Settings!DropOtherModes(S, 0) \subseteq S
  BY DEF Settings!DropOtherModes, Settings!Without
<1>3. \A S : Settings!OneKeyMod(S) \subseteq S
  BY DEF Settings!OneKeyMod
<1>4. QED
  BY <1>1, <1>2, <1>3 DEF Settings!filter_invalid_combos

\* What no change of the points touches.
SameRules(r, rec) == /\ r.freemods = rec.freemods /\ r.uncleared = rec.uncleared
                     /\ r.team_type = rec.team_type

\* endscrim, and the end of a scrim that is won: nobody has points or wins.
LEMMA ResetTallies ==
  ASSUME NEW rec \in Sheets
  PROVE  /\ Settings!reset_scrim(rec) \in Sheets /\ Tallied(Settings!reset_scrim(rec))
         /\ SameRules(Settings!reset_scrim(rec), rec)
<1> DEFINE r == Settings!reset_scrim(rec)
           zero == [k \in DOMAIN rec.points |-> 0]
<1>1. zero \in [Sides -> Int] /\ \A k \in Sides : zero[k] = 0
  BY DEF Sheets
<1>2. r = [rec EXCEPT !.points = zero, !.winners = <<>>, !.bans = {}]
  BY DEF Settings!reset_scrim
<1> HIDE DEF zero
<1>3. <<>> \in Seq(Sides \cup {"tie"})
  OBVIOUS
<1>4. r \in Sheets /\ SameRules(r, rec) /\ r.points = zero /\ r.winners = <<>>
  BY <1>1, <1>2, <1>3 DEF Sheets, SameRules
<1>5. Tallied(r)
  BY <1>1, <1>4, NoWins DEF Tallied
<1>6. QED
  BY <1>4, <1>5

\* A win noted and a point given: they still agree.
LEMMA WinTallies ==
  ASSUME NEW rec \in Sheets, Tallied(rec), NEW winner \in Sides,
         NEW r, r = [rec EXCEPT !.points[winner] = @ + 1, !.winners = Append(@, winner)]
  PROVE  r \in Sheets /\ Tallied(r) /\ SameRules(r, rec)
<1>1. /\ rec.points \in [Sides -> Int] /\ rec.winners \in Seq(Sides \cup {"tie"})
      /\ Append(rec.winners, winner) \in Seq(Sides \cup {"tie"})
  BY DEF Sheets
<1>2. PICK pts : pts = [rec.points EXCEPT ![winner] = @ + 1]
  OBVIOUS
<1>3. pts \in [Sides -> Int]
      /\ \A k \in Sides : pts[k] = rec.points[k] + (IF winner = k THEN 1 ELSE 0)
  BY <1>1, <1>2
<1>4. r = [rec EXCEPT !.points = pts, !.winners = Append(rec.winners, winner)]
  BY <1>2 DEF Sheets
<1>5. r \in Sheets /\ SameRules(r, rec) /\ r.points = pts /\ r.winners = Append(rec.winners, winner)
  BY <1>1, <1>3, <1>4 DEF Sheets, SameRules
<1>6. \A k : Wins(Append(rec.winners, winner), k) = Wins(rec.winners, k) + (IF winner = k THEN 1 ELSE 0)
  BY <1>1, WinsOfMore
<1>7. Tallied(r)
  BY <1>3, <1>5, <1>6 DEF Tallied
<1>8. QED
  BY <1>5, <1>7

\* A tie is a game that nobody won.
LEMMA TieTallies ==
  ASSUME NEW rec \in Sheets, Tallied(rec), NEW r,
         r = [rec EXCEPT !.winners = Append(@, "tie")]
  PROVE  r \in Sheets /\ Tallied(r) /\ SameRules(r, rec)
<1>1. /\ rec.points \in [Sides -> Int] /\ rec.winners \in Seq(Sides \cup {"tie"})
      /\ Append(rec.winners, "tie") \in Seq(Sides \cup {"tie"})
  BY DEF Sheets
<1>2. /\ r \in Sheets /\ SameRules(r, rec)
      /\ r.points = rec.points /\ r.winners = Append(rec.winners, "tie")
  BY <1>1 DEF Sheets, SameRules
<1>3. \A k : Wins(Append(rec.winners, "tie"), k) = Wins(rec.winners, k) + (IF "tie" = k THEN 1 ELSE 0)
  BY <1>1, WinsOfMore
<1>4. "tie" \notin Sides
  BY SettingsAssumption DEF Sides
<1>5. Tallied(r)
  <2> SUFFICES ASSUME NEW k \in Sides PROVE r.points[k] = Wins(r.winners, k)
    BY DEF Tallied
  <2>1. rec.points[k] = Wins(rec.winners, k) /\ rec.points[k] \in Int
    BY <1>1 DEF Tallied
  <2>2. QED
    BY <1>2, <1>3, <1>4, <2>1
<1>6. QED
  BY <1>2, <1>5

\* !mp rematch takes back the point of the last win and forgets the win.
LEMMA TakeBackTallies ==
  ASSUME NEW rec \in Sheets, Tallied(rec), rec.winners # <<>>,
         rec.winners[Len(rec.winners)] # "tie"
  PROVE  /\ Settings!TakeBack(rec) \in Sheets /\ Tallied(Settings!TakeBack(rec))
         /\ SameRules(Settings!TakeBack(rec), rec)
<1> DEFINE r == Settings!TakeBack(rec)
<1>1. PICK w, winner, v, pts :
        /\ w = rec.winners /\ winner = w[Len(w)] /\ v = SubSeq(w, 1, Len(w) - 1)
        /\ pts = [rec.points EXCEPT ![winner] = @ - 1]
  OBVIOUS
<1>2. w \in Seq(Sides \cup {"tie"}) /\ winner \in Sides
  <2>1. w \in Seq(Sides \cup {"tie"}) /\ w # <<>>
    BY <1>1 DEF Sheets
  <2>2. Len(w) \in DOMAIN w
    BY <2>1
  <2>3. w[Len(w)] \in Sides \cup {"tie"}
    BY <2>1, <2>2
  <2>4. QED
    BY <1>1, <2>1, <2>3
<1>3. /\ v \in Seq(Sides \cup {"tie"})
      /\ \A k : Wins(v, k) = Wins(w, k) - (IF winner = k THEN 1 ELSE 0)
  BY <1>1, <1>2, WinsOfFewer
<1>4. pts \in [Sides -> Int]
      /\ \A k \in Sides : pts[k] = rec.points[k] - (IF winner = k THEN 1 ELSE 0)
  BY <1>1, <1>2 DEF Sheets
<1>5. r = [rec EXCEPT !.points = pts, !.winners = v]
  BY <1>1 DEF Settings!TakeBack, Settings!Last, Sheets
<1>6. r \in Sheets /\ SameRules(r, rec) /\ r.points = pts /\ r.winners = v
  BY <1>3, <1>4, <1>5 DEF Sheets, SameRules
<1>7. Tallied(r)
  BY <1>1, <1>3, <1>4, <1>6 DEF Tallied
<1>8. QED
  BY <1>6, <1>7

\* The winner gets the point, and the scrim is over when that was the last one.
LEMMA AwardTallies ==
  ASSUME NEW rec \in Sheets, Tallied(rec), NEW winner \in Sides
  PROVE  /\ Settings!AwardPoint(rec, winner) \in Sheets
         /\ Tallied(Settings!AwardPoint(rec, winner))
         /\ SameRules(Settings!AwardPoint(rec, winner), rec)
<1> DEFINE given == [rec EXCEPT !.points[winner] = @ + 1, !.winners = Append(@, winner)]
<1>1. given \in Sheets /\ Tallied(given) /\ SameRules(given, rec)
  BY WinTallies
<1> HIDE DEF given
<1>2. PICK over : over = [given EXCEPT !.scrimming = FALSE]
  OBVIOUS
<1>3. over \in Sheets /\ SameRules(over, rec)
  BY <1>1, <1>2 DEF Sheets, SameRules
<1>4. \/ Settings!AwardPoint(rec, winner) = given
      \/ Settings!AwardPoint(rec, winner) = Settings!reset_scrim(over)
  BY <1>2 DEF Settings!AwardPoint, given
<1>5. QED
  BY <1>1, <1>3, <1>4, ResetTallies DEF SameRules

-----------------------------------------------------------------------------
\* A set of numbers has a least one.
LEMMA Least ==
  ASSUME NEW T, T \subseteq Nat, T # {} PROVE \E x \in T : \A y \in T : x <= y
<1>1. PICK R : R = OpToRel(<, Nat)
  OBVIOUS
<1>2. IsWellFoundedOn(R, Nat)
  BY <1>1, NatLessThanWellFounded
<1>3. PICK x \in T : \A y \in T : <<y, x>> \notin R
  BY <1>2, WFMin
<1>4. \A a, b \in Nat : <<b, a>> \in R <=> b < a
  BY <1>1 DEF OpToRel
<1>5. x \in Nat /\ \A y \in T : y \in Nat /\ ~(y < x)
  BY <1>3, <1>4
<1>6. \A y \in T : x <= y
  BY <1>5
<1>7. QED
  BY <1>6

\* Seats are numbers, of which the first one is the least.
LEMMA SeatsAreNumbers == Settings!Seats \subseteq Nat /\ Settings!Seats = 1 .. NSeats
BY SettingsAssumption DEF Settings!Seats

\* get_slot finds whoever has a slot.
LEMMA SlotIsFound ==
  ASSUME NEW p, NEW m, Settings!Sits(p, m)
  PROVE  /\ Settings!get_slot(p, m) \in Settings!Seats
         /\ s_slots[m][Settings!get_slot(p, m)].player = p
BY DEF Settings!Sits, Settings!get_slot

-----------------------------------------------------------------------------
\* A step changes one match.
LEMMA RoomChanges ==
  ASSUME SettingsInv, NEW m \in Rooms, NEW rec, NEW chairs,
         s_match' = [s_match EXCEPT ![m] = rec],
         s_slots' = [s_slots EXCEPT ![m] = chairs],
         Room(rec, chairs), s_task' \in [Handlers -> Jobs]
  PROVE  SettingsInv'
<1>1. s_match' = [n \in Rooms |-> IF n = m THEN rec ELSE s_match[n]]
  BY DEF SettingsInv
<1>2. s_slots' = [n \in Rooms |-> IF n = m THEN chairs ELSE s_slots[n]]
  BY DEF SettingsInv
<1>3. ASSUME NEW n \in Rooms PROVE Room(s_match'[n], s_slots'[n])
  BY <1>1, <1>2 DEF SettingsInv
<1>4. QED
  BY <1>1, <1>2, <1>3 DEF SettingsInv

\* A step that changes the record of one match and nobody's seat.
LEMMA RecordChanges ==
  ASSUME SettingsInv, NEW m \in Rooms, NEW rec,
         s_match' = [s_match EXCEPT ![m] = rec], s_slots' = s_slots,
         Room(rec, s_slots[m]), s_task' \in [Handlers -> Jobs]
  PROVE  SettingsInv'
<1>1. s_slots' = [s_slots EXCEPT ![m] = s_slots[m]]
  BY DEF SettingsInv
<1>2. QED
  BY <1>1, RoomChanges

\* A step that changes who sits how in one match and not its record.
LEMMA ChairsChange ==
  ASSUME SettingsInv, NEW m \in Rooms, NEW chairs,
         s_match' = s_match, s_slots' = [s_slots EXCEPT ![m] = chairs],
         Room(s_match[m], chairs), s_task' \in [Handlers -> Jobs]
  PROVE  SettingsInv'
<1>1. s_match' = [s_match EXCEPT ![m] = s_match[m]]
  BY DEF SettingsInv
<1>2. QED
  BY <1>1, RoomChanges

\* A step that only starts or ends a handler.
LEMMA NothingChanges ==
  ASSUME SettingsInv, s_match' = s_match, s_slots' = s_slots,
         s_task' \in [Handlers -> Jobs]
  PROVE  SettingsInv'
BY DEF SettingsInv

\* A handler that goes on to another job, or to none.
LEMMA JobEnds ==
  ASSUME SettingsInv, NEW t \in Handlers, NEW k \in Jobs,
         s_task' = [s_task EXCEPT ![t] = k]
  PROVE  s_task' \in [Handlers -> Jobs]
BY DEF SettingsInv

\* Having nothing to do is one of the jobs.
LEMMA IdleIsJob == Settings!Idle \in Jobs
BY DEF Jobs, Settings!Idle

-----------------------------------------------------------------------------
\* What is no rule and no result of a match does not matter to the players.
LEMMA SheetChanges ==
  ASSUME NEW rec, NEW chairs, Room(rec, chairs), NEW r \in Sheets, SameRules(r, rec),
         r.points = rec.points, r.winners = rec.winners
  PROVE  Room(r, chairs)
BY DEF Room, SameRules, Tallied

\* Who comes to be a member, on the list or the host is none of the rules.
LEMMA MembersChange ==
  ASSUME NEW rec, NEW chairs, Room(rec, chairs), NEW ms \in SUBSET Members,
         NEW listed \in BOOLEAN, NEW host \in Members
  PROVE  /\ Room([rec EXCEPT !.members = ms], chairs)
         /\ Room([rec EXCEPT !.host = host], chairs)
         /\ Room([rec EXCEPT !.members = ms, !.listed = listed, !.host = host], chairs)
<1>1. rec \in Sheets
  BY DEF Room
<1>2. PICK r : r = [rec EXCEPT !.members = ms]
  OBVIOUS
<1>3. PICK q : q = [rec EXCEPT !.host = host]
  OBVIOUS
<1>4. PICK o : o = [rec EXCEPT !.members = ms, !.listed = listed, !.host = host]
  OBVIOUS
<1>5. r \in Sheets /\ SameRules(r, rec) /\ r.points = rec.points /\ r.winners = rec.winners
  BY <1>1, <1>2 DEF Sheets, SameRules
<1>6. q \in Sheets /\ SameRules(q, rec) /\ q.points = rec.points /\ q.winners = rec.winners
  BY <1>1, <1>3 DEF Sheets, SameRules
<1>7. o \in Sheets /\ SameRules(o, rec) /\ o.points = rec.points /\ o.winners = rec.winners
  BY <1>1, <1>4 DEF Sheets, SameRules
<1>8. QED
  BY <1>2, <1>3, <1>4, <1>5, <1>6, <1>7, SheetChanges

\* Player.join_match: whoever comes gets a seat with the mods of who had it, and a
\* team when the match has teams.
LEMMA JoinKeeps ==
  ASSUME SettingsInv, NEW p \in Members, NEW m \in Rooms, NEW g \in Settings!Seats,
         Settings!join_match(p, m, g)
  PROVE  SettingsInv'
<1> DEFINE c == s_slots[m]
           rec == s_match[m]
           seat == [c[g] EXCEPT !.player = p,
                                !.team = IF Settings!ffa(rec.team_type) THEN c[g].team ELSE "red"]
           d == [c EXCEPT ![g] = seat]
<1>1. Room(rec, c)
  BY DEF SettingsInv
<1>2. PICK r : r = [rec EXCEPT !.members = rec.members \cup {p}]
  OBVIOUS
<1>3. /\ s_slots' = [s_slots EXCEPT ![m] = d]
      /\ s_match' = [s_match EXCEPT ![m] = r] /\ s_task' = s_task
  <2>1. /\ s_slots' = [s_slots EXCEPT ![m][g] = seat] /\ s_task' = s_task
        /\ s_match' = [s_match EXCEPT ![m].members = @ \cup {p}]
    BY DEF Settings!join_match
  <2>2. QED
    BY <1>2, <2>1
<1>4. c \in [Settings!Seats -> Chairs]
  BY <1>1 DEF Room, Placed
<1>5. PICK team \in {"neutral", "red", "blue"} :
        /\ seat = [c[g] EXCEPT !.player = p, !.team = team]
        /\ ~Settings!ffa(rec.team_type) => team # "neutral"
  <2>1. c[g].team \in {"neutral", "red", "blue"}
    BY <1>4 DEF Chairs
  <2>2. CASE Settings!ffa(rec.team_type)
    BY <2>1, <2>2
  <2>3. CASE ~Settings!ffa(rec.team_type)
    BY <2>3
  <2>4. QED
    BY <2>2, <2>3
<1> HIDE DEF seat
<1>6. seat \in Chairs /\ seat.player = p /\ seat.team = team /\ seat.mods = c[g].mods
  BY <1>4, <1>5 DEF Chairs
<1>7. d \in [Settings!Seats -> Chairs] /\ d[g] = seat
      /\ \A i \in Settings!Seats : i # g => d[i] = c[i]
  BY <1>4, <1>6
<1> HIDE DEF d
<1>8. Modded(rec.freemods \/ rec.uncleared, d)
  <2>1. p # "nobody"
    BY SettingsAssumption
  <2>2. QED
    BY <1>1, <1>6, <1>7, <2>1 DEF Room, Modded
<1>9. Teamed(rec.team_type, d)
  BY <1>1, <1>5, <1>6, <1>7 DEF Room, Teamed
<1>10. Room(rec, d)
  BY <1>1, <1>7, <1>8, <1>9 DEF Room, Placed
<1>11. Room(r, d)
  <2>1. /\ rec.members \cup {p} \in SUBSET Members
        /\ rec.listed \in BOOLEAN /\ rec.host \in Members
    BY <1>1 DEF Room, Sheets
  <2>2. QED
    BY <1>2, <1>10, <2>1, MembersChange
<1>12. s_task' \in [Handlers -> Jobs]
  BY <1>3 DEF SettingsInv
<1>13. QED
  BY <1>3, <1>11, <1>12, RoomChanges

\* Player.leave_match: the seat is emptied, and the host goes to somebody who
\* sits, unless nobody does or it raises.
LEMMA LeaveKeeps ==
  ASSUME SettingsInv, NEW p \in Members, NEW m \in Rooms, Settings!leave_match(p, m)
  PROVE  SettingsInv'
<1> DEFINE c == s_slots[m]
           rec == s_match[m]
           g == Settings!get_slot(p, m)
           left == {i \in Settings!Seats : c[i].player # "nobody"} \ {g}
           heir == c[CHOOSE i \in left : \A j \in left : i <= j].player
           host == IF rec.host = p /\ left # {} THEN heir ELSE rec.host
           d == [c EXCEPT ![g] = Settings!Slot]
<1>1. Room(rec, c)
  BY DEF SettingsInv
<1>2. /\ g \in Settings!Seats /\ c[g].player = p
      /\ c \in [Settings!Seats -> Chairs]
  BY <1>1, SlotIsFound DEF Settings!leave_match, Room, Placed
<1>3. Settings!Slot \in Chairs /\ Settings!Slot.player = "nobody" /\ Settings!Slot.mods = {}
  BY DEF Settings!Slot, Settings!Nobody, Chairs
<1>4. PICK r : r = [rec EXCEPT !.members = rec.members \ {p},
                               !.listed = rec.listed /\ left # {}, !.host = host]
  OBVIOUS
<1>5. /\ s_slots' = [s_slots EXCEPT ![m] = d] /\ s_task' = s_task
      /\ s_match' = [s_match EXCEPT ![m] = r] \/ s_match' = s_match
  BY <1>4 DEF Settings!leave_match, Settings!Nobody
<1>6. d \in [Settings!Seats -> Chairs] /\ d[g] = Settings!Slot
      /\ \A i \in Settings!Seats : i # g => d[i] = c[i]
  BY <1>2, <1>3
<1> HIDE DEF d
<1>7. Modded(rec.freemods \/ rec.uncleared, d) /\ Teamed(rec.team_type, d)
  BY <1>1, <1>3, <1>6 DEF Room, Modded, Teamed
<1>8. Room(rec, d)
  BY <1>1, <1>6, <1>7 DEF Room, Placed
<1>9. host \in Members
  <2>1. left # {} => \E i \in left : heir = c[i].player
    <3>1. left \subseteq Nat
      BY SeatsAreNumbers
    <3>2. ASSUME left # {} PROVE \E i \in left : \A j \in left : i <= j
      BY <3>1, <3>2, Least
    <3>3. QED
      BY <3>2
  <2> HIDE DEF heir
  <2>2. left # {} => heir \in Members
    BY <1>2, <2>1 DEF Chairs
  <2>3. rec.host \in Members
    BY <1>1 DEF Room, Sheets
  <2>4. QED
    BY <2>2, <2>3
<1>10. (rec.listed /\ left # {}) \in BOOLEAN /\ rec.members \ {p} \in SUBSET Members
  BY <1>1 DEF Room, Sheets
<1> HIDE DEF host, left
<1>11. Room(r, d)
  BY <1>4, <1>8, <1>9, <1>10, MembersChange
<1>12. s_task' \in [Handlers -> Jobs]
  BY <1>5 DEF SettingsInv
<1>13. QED
  BY <1>5, <1>8, <1>11, <1>12, ChairsChange, RoomChanges

\* MatchChangeSlot: a seat is left as it was taken, empty, with no mods.
LEMMA MoveKeeps ==
  ASSUME SettingsInv, NEW p \in Members, NEW m \in Rooms, NEW i \in Settings!Seats,
         Settings!MatchChangeSlot(p, m, i)
  PROVE  SettingsInv'
<1> DEFINE c == s_slots[m]
           rec == s_match[m]
           g == Settings!get_slot(p, m)
           d == [c EXCEPT ![i] = c[g], ![g] = Settings!Slot]
<1>1. Room(rec, c)
  BY DEF SettingsInv
<1>2. /\ g \in Settings!Seats /\ c[g].player = p
      /\ c \in [Settings!Seats -> Chairs]
  BY <1>1, SlotIsFound DEF Settings!MatchChangeSlot, Room, Placed
<1>3. Settings!Slot \in Chairs /\ Settings!Slot.player = "nobody" /\ Settings!Slot.mods = {}
  BY DEF Settings!Slot, Settings!Nobody, Chairs
<1>4. /\ s_slots' = [s_slots EXCEPT ![m] = d] /\ s_task' = s_task
      /\ s_match' = s_match
  <2>1. /\ s_slots' = [s_slots EXCEPT ![m][i] = s_slots[m][g], ![m][g] = Settings!Slot]
        /\ s_task' = s_task /\ s_match' = s_match
    BY DEF Settings!MatchChangeSlot
  <2>2. QED
    BY <2>1 DEF SettingsInv
<1>5. d \in [Settings!Seats -> Chairs] /\ d[g] = Settings!Slot /\ (i # g => d[i] = c[g])
      /\ \A j \in Settings!Seats : j # g /\ j # i => d[j] = c[j]
  BY <1>2, <1>3
<1> HIDE DEF d
<1>6. Modded(rec.freemods \/ rec.uncleared, d) /\ Teamed(rec.team_type, d)
  BY <1>1, <1>2, <1>3, <1>5 DEF Room, Modded, Teamed
<1>7. Room(rec, d)
  BY <1>1, <1>5, <1>6 DEF Room, Placed
<1>8. s_task' \in [Handlers -> Jobs]
  BY <1>4 DEF SettingsInv
<1>9. QED
  BY <1>4, <1>7, <1>8, ChairsChange

\* MatchTransferHost: the host is somebody who sits.
LEMMA TransferKeeps ==
  ASSUME SettingsInv, NEW p \in Members, NEW m \in Rooms, NEW i \in Settings!Seats,
         Settings!MatchTransferHost(p, m, i)
  PROVE  SettingsInv'
<1>1. Room(s_match[m], s_slots[m])
  BY DEF SettingsInv
<1>2. s_slots[m][i].player \in Members
  BY <1>1 DEF Settings!MatchTransferHost, Settings!Seated, Settings!Nobody, Room, Placed, Chairs
<1>3. PICK r : r = [s_match[m] EXCEPT !.host = s_slots[m][i].player]
  OBVIOUS
<1>4. s_match' = [s_match EXCEPT ![m] = r] /\ s_slots' = s_slots /\ s_task' = s_task
  BY <1>3 DEF Settings!MatchTransferHost
<1>5. Room(r, s_slots[m])
  <2>1. s_match[m].members \in SUBSET Members /\ s_match[m].listed \in BOOLEAN
    BY <1>1 DEF Room, Sheets
  <2>2. QED
    BY <1>1, <1>2, <1>3, <2>1, MembersChange
<1>6. QED
  BY <1>4, <1>5, RecordChanges DEF SettingsInv

-----------------------------------------------------------------------------
\* mods of a match without freemods.
LEMMA MatchModsKeep ==
  ASSUME SettingsInv, NEW m \in Rooms, NEW mods \in SUBSET Mods,
         s_match' = [s_match EXCEPT ![m].mods = mods], s_slots' = s_slots,
         s_task' = s_task
  PROVE  SettingsInv'
<1>1. PICK r : r = [s_match[m] EXCEPT !.mods = mods]
  OBVIOUS
<1>2. Room(s_match[m], s_slots[m]) /\ s_task' \in [Handlers -> Jobs]
  BY DEF SettingsInv
<1>3. /\ r \in Sheets /\ SameRules(r, s_match[m])
      /\ r.points = s_match[m].points /\ r.winners = s_match[m].winners
  BY <1>1, <1>2 DEF Room, Sheets, SameRules
<1>4. s_match' = [s_match EXCEPT ![m] = r]
  BY <1>1
<1>5. QED
  BY <1>2, <1>3, <1>4, SheetChanges, RecordChanges

\* mods chosen where there are freemods: speed by the host for the match, the
\* rest by each player.
LEMMA OwnModsKeep ==
  ASSUME SettingsInv, NEW p \in Members, NEW m \in Rooms, NEW mods \in SUBSET Mods,
         s_match[m].freemods,
         Settings!SetSpeed(p, m, mods), Settings!SetSlotMods(p, m, mods),
         s_task' = s_task
  PROVE  SettingsInv'
<1> DEFINE c == s_slots[m]
           rec == s_match[m]
           g == Settings!get_slot(p, m)
           own == mods \ Settings!SPEED_CHANGING_MODS
           seat == [c[g] EXCEPT !.mods = own]
<1>1. Room(rec, c) /\ s_task' \in [Handlers -> Jobs]
  BY DEF SettingsInv
<1>2. PICK d : s_slots' = [s_slots EXCEPT ![m] = d] /\ Room(rec, d)
  <2>1. CASE ~Settings!Sits(p, m)
    <3>1. s_slots' = [s_slots EXCEPT ![m] = c]
      BY <2>1 DEF Settings!SetSlotMods, SettingsInv
    <3>2. QED
      BY <1>1, <3>1
  <2>2. CASE Settings!Sits(p, m)
    <3>1. g \in Settings!Seats /\ c[g].player = p /\ c \in [Settings!Seats -> Chairs]
      BY <1>1, <2>2, SlotIsFound DEF Room, Placed
    <3>2. PICK e : e = [c EXCEPT ![g] = seat]
      OBVIOUS
    <3>3. s_slots' = [s_slots EXCEPT ![m] = e]
      BY <2>2, <3>2 DEF Settings!SetSlotMods
    <3>4. own \in SUBSET Mods /\ own \cap Settings!SPEED_CHANGING_MODS = {}
      OBVIOUS
    <3> HIDE DEF own
    <3>5. /\ seat \in Chairs /\ seat.player = p /\ seat.team = c[g].team
          /\ seat.mods = own
      BY <3>1, <3>4 DEF Chairs
    <3> HIDE DEF seat
    <3>6. e \in [Settings!Seats -> Chairs] /\ e[g] = seat
          /\ \A i \in Settings!Seats : i # g => e[i] = c[i]
      BY <3>1, <3>2, <3>5
    <3>7. p # "nobody"
      BY SettingsAssumption
    <3>8. Placed(e)
      BY <3>6 DEF Placed
    <3>9. Modded(rec.freemods \/ rec.uncleared, e)
      BY <1>1, <3>4, <3>5, <3>6, <3>7 DEF Room, Modded
    <3>10. Teamed(rec.team_type, e)
      BY <1>1, <3>1, <3>5, <3>6 DEF Room, Teamed
    <3>11. Room(rec, e)
      BY <1>1, <3>8, <3>9, <3>10 DEF Room
    <3>12. QED
      BY <3>3, <3>11
  <2>3. QED
    BY <2>1, <2>2
<1>3. CASE p = rec.host
  <2>1. PICK r : r = [rec EXCEPT !.mods = mods \cap Settings!SPEED_CHANGING_MODS]
    OBVIOUS
  <2>2. /\ r \in Sheets /\ SameRules(r, rec)
        /\ r.points = rec.points /\ r.winners = rec.winners
    BY <1>1, <2>1 DEF Room, Sheets, SameRules
  <2>3. s_match' = [s_match EXCEPT ![m] = r]
    BY <1>3, <2>1 DEF Settings!SetSpeed
  <2>4. QED
    BY <1>1, <1>2, <2>2, <2>3, SheetChanges, RoomChanges
<1>4. CASE p # rec.host
  BY <1>1, <1>2, <1>4, ChairsChange DEF Settings!SetSpeed
<1>5. QED
  BY <1>3, <1>4

\* MatchChangeMods and !mp mods, by the host and by the others.
LEMMA ModsKeep ==
  ASSUME SettingsInv, NEW p \in Members, NEW m \in Rooms, NEW mods \in SUBSET Mods,
         Settings!MatchChangeMods(p, m, mods) \/ Settings!mp_mods(p, m, mods, 0)
  PROVE  SettingsInv'
<1>1. CASE Settings!MatchChangeMods(p, m, mods)
  BY <1>1, OwnModsKeep, MatchModsKeep DEF Settings!MatchChangeMods
<1>2. CASE Settings!mp_mods(p, m, mods, 0)
  <2>1. PICK valid : valid = Settings!filter_invalid_combos(mods, 0)
    OBVIOUS
  <2>2. valid \in SUBSET Mods
    BY <2>1, ValidModsAreMods
  <2>3. /\ s_task' = s_task
        /\ IF s_match[m].freemods
           THEN Settings!SetSpeed(p, m, valid) /\ Settings!SetSlotMods(p, m, valid)
           ELSE s_match' = [s_match EXCEPT ![m].mods = valid] /\ s_slots' = s_slots
    BY <1>2, <2>1 DEF Settings!mp_mods
  <2>4. QED
    BY <2>2, <2>3, OwnModsKeep, MatchModsKeep
<1>3. QED
  BY <1>1, <1>2

-----------------------------------------------------------------------------
\* A change of the mods of who is seated, whoever that is.
LEMMA OccupantsModded ==
  ASSUME NEW rec, NEW c, Room(rec, c), NEW mods \in SUBSET Mods,
         mods \cap Settings!SPEED_CHANGING_MODS = {},
         NEW fm \in BOOLEAN, ~fm => mods = {}, NEW d,
         d = [i \in Settings!Seats |->
                IF c[i].player # "nobody" THEN [c[i] EXCEPT !.mods = mods] ELSE c[i]]
  PROVE  Placed(d) /\ Modded(fm, d) /\ Teamed(rec.team_type, d)
<1>1. c \in [Settings!Seats -> Chairs]
  BY DEF Room, Placed
<1>2. ASSUME NEW i \in Settings!Seats
      PROVE  /\ d[i] \in Chairs /\ d[i].player = c[i].player /\ d[i].team = c[i].team
             /\ d[i].mods = IF c[i].player # "nobody" THEN mods ELSE c[i].mods
  <2>1. c[i] \in Chairs
    BY <1>1
  <2>2. CASE c[i].player # "nobody"
    BY <2>1, <2>2 DEF Chairs
  <2>3. CASE c[i].player = "nobody"
    BY <2>1, <2>3
  <2>4. QED
    BY <2>2, <2>3
<1>3. d \in [Settings!Seats -> Chairs]
  BY <1>2
<1>4. Placed(d)
  BY <1>2, <1>3 DEF Room, Placed
<1>5. Modded(fm, d)
  BY <1>2 DEF Room, Modded
<1>6. Teamed(rec.team_type, d)
  BY <1>2 DEF Room, Teamed
<1>7. QED
  BY <1>4, <1>5, <1>6

\* Freemods are switched on or off.
LEMMA FreemodsOnRight ==
  ASSUME NEW m \in Rooms, Room(s_match[m], s_slots[m])
  PROVE  \E d : /\ Settings!FreemodsOnSlots(m) = [s_slots EXCEPT ![m] = d]
               /\ Room(Settings!FreemodsOn(m), d)
<1> DEFINE rec == s_match[m]
           c == s_slots[m]
           mods == rec.mods \ Settings!SPEED_CHANGING_MODS
           d == [i \in Settings!Seats |->
                  IF c[i].player # "nobody" THEN [c[i] EXCEPT !.mods = mods] ELSE c[i]]
<1>1. Settings!FreemodsOnSlots(m) = [s_slots EXCEPT ![m] = d]
  BY DEF Settings!FreemodsOnSlots, Settings!Occupied, Settings!Seated, Settings!Nobody
<1>2. mods \in SUBSET Mods /\ mods \cap Settings!SPEED_CHANGING_MODS = {}
  BY DEF Room, Sheets
<1>3. Placed(d) /\ Modded(TRUE, d) /\ Teamed(rec.team_type, d)
  <2> HIDE DEF mods
  <2>1. QED
    BY <1>2, OccupantsModded
<1>4. PICK r : r = Settings!FreemodsOn(m)
  OBVIOUS
<1>5. /\ r \in Sheets /\ r.freemods = TRUE /\ r.team_type = rec.team_type
      /\ r.points = rec.points /\ r.winners = rec.winners
  BY <1>4 DEF Settings!FreemodsOn, Room, Sheets
<1> HIDE DEF d
<1>6. Room(r, d)
  BY <1>3, <1>5 DEF Room, Tallied
<1>7. QED
  BY <1>1, <1>4, <1>6

\* Switched off, freemods leave nobody with mods of their own: the host sits, and
\* the mods of the seat are found.
LEMMA FreemodsOffRight ==
  ASSUME NEW m \in Rooms, Settings!Sits(s_match[m].host, m),
         Room(s_match[m], s_slots[m])
  PROVE  \E d : /\ Settings!FreemodsOffSlots(m) = [s_slots EXCEPT ![m] = d]
               /\ Room(Settings!FreemodsOff(m), d)
<1> DEFINE rec == s_match[m]
           c == s_slots[m]
           d == [i \in Settings!Seats |->
                  IF c[i].player # "nobody" THEN [c[i] EXCEPT !.mods = {}] ELSE c[i]]
<1>1. Settings!FreemodsOffSlots(m) = [s_slots EXCEPT ![m] = d]
  BY DEF Settings!FreemodsOffSlots, Settings!Occupied, Settings!Seated, Settings!Nobody
<1>2. Placed(d) /\ Modded(FALSE, d) /\ Teamed(rec.team_type, d)
  BY OccupantsModded
<1>3. c[Settings!get_slot(rec.host, m)].mods \in SUBSET Mods
  BY SlotIsFound DEF Room, Placed, Chairs
<1>4. PICK mods, r : /\ mods = (rec.mods \cap Settings!SPEED_CHANGING_MODS)
                             \cup c[Settings!get_slot(rec.host, m)].mods
                   /\ r = [rec EXCEPT !.freemods = FALSE, !.uncleared = FALSE, !.mods = mods]
  OBVIOUS
<1>5. r = Settings!FreemodsOff(m)
  BY <1>4 DEF Settings!FreemodsOff, Room, Sheets
<1>6. mods \in SUBSET Mods
  BY <1>3, <1>4 DEF Room, Sheets
<1>7. /\ r \in Sheets /\ r.freemods = FALSE /\ r.uncleared = FALSE
      /\ r.team_type = rec.team_type
      /\ r.points = rec.points /\ r.winners = rec.winners
  BY <1>4, <1>6 DEF Room, Sheets
<1> HIDE DEF d
<1>8. Room(r, d)
  BY <1>2, <1>7 DEF Room, Tallied
<1>9. QED
  BY <1>1, <1>5, <1>8

\* Switched off without a seat of the host, they leave everybody's mods, and that is
\* noted.
LEMMA SwitchFails ==
  ASSUME SettingsInv, NEW p \in Members, NEW m \in Rooms,
         Settings!MatchChangeSettingsFails(p, m) \/ Settings!mp_freemods_Fails(p, m)
  PROVE  SettingsInv'
<1> DEFINE rec == s_match[m]
           c == s_slots[m]
<1>1. Room(rec, c) /\ rec \in Sheets
  BY DEF SettingsInv, Room
<1>2. PICK u, r : /\ u = (rec.uncleared \/ rec.freemods)
                  /\ r = [rec EXCEPT !.freemods = FALSE, !.uncleared = u]
  OBVIOUS
<1>3. /\ s_match' = [s_match EXCEPT ![m].freemods = FALSE,
                                   ![m].uncleared = @ \/ s_match[m].freemods]
      /\ s_slots' = s_slots /\ s_task' = s_task
  BY DEF Settings!MatchChangeSettingsFails, Settings!mp_freemods_Fails,
         Settings!FreemodsOffFails
<1>4. s_match' = [s_match EXCEPT ![m] = r]
  BY <1>1, <1>2, <1>3 DEF SettingsInv, Sheets
<1>5. /\ r \in Sheets /\ (r.freemods \/ r.uncleared <=> rec.freemods \/ rec.uncleared)
      /\ r.team_type = rec.team_type
      /\ r.points = rec.points /\ r.winners = rec.winners
  <2>1. u \in BOOLEAN
    BY <1>1, <1>2 DEF Sheets
  <2>2. r \in Sheets /\ r.freemods = FALSE /\ r.uncleared = u
    BY <1>1, <1>2, <2>1 DEF Sheets
  <2>3. QED
    BY <1>1, <1>2, <2>2 DEF Sheets
<1>6. Room(r, c)
  <2>1. Modded(r.freemods \/ r.uncleared, c)
    BY <1>1, <1>5 DEF Room, Modded
  <2>2. QED
    BY <1>1, <1>5, <2>1 DEF Room, Tallied
<1>7. QED
  BY <1>3, <1>4, <1>6, RecordChanges DEF SettingsInv

\* !mp freemods, which may set what is set already.
LEMMA FreemodsKeep ==
  ASSUME SettingsInv, NEW p \in Members, NEW m \in Rooms, NEW on \in BOOLEAN,
         Settings!mp_freemods(p, m, on)
  PROVE  SettingsInv'
<1>1. /\ on \/ Settings!Sits(s_match[m].host, m)
      /\ s_match' = [s_match EXCEPT ![m] = IF on THEN Settings!FreemodsOn(m)
                                           ELSE Settings!FreemodsOff(m)]
      /\ s_slots' = IF on THEN Settings!FreemodsOnSlots(m) ELSE Settings!FreemodsOffSlots(m)
  BY DEF Settings!mp_freemods
<1>2. Room(s_match[m], s_slots[m]) /\ s_task' \in [Handlers -> Jobs]
  BY DEF SettingsInv, Settings!mp_freemods
<1>3. CASE on
  <2>1. PICK d : /\ Settings!FreemodsOnSlots(m) = [s_slots EXCEPT ![m] = d]
                 /\ Room(Settings!FreemodsOn(m), d)
    BY <1>2, FreemodsOnRight
  <2>2. QED
    BY <1>1, <1>2, <1>3, <2>1, RoomChanges
<1>4. CASE ~on
  <2>1. PICK d : /\ Settings!FreemodsOffSlots(m) = [s_slots EXCEPT ![m] = d]
                 /\ Room(Settings!FreemodsOff(m), d)
    BY <1>1, <1>2, <1>4, FreemodsOffRight
  <2>2. QED
    BY <1>1, <1>2, <1>4, <2>1, RoomChanges
<1>5. QED
  BY <1>3, <1>4

-----------------------------------------------------------------------------
\* Everybody seated is put into the team that the new team type begins with.
LEMMA OccupantsTeamed ==
  ASSUME NEW fm, NEW c, Placed(c), Modded(fm, c), NEW tt, NEW d,
         d = [i \in Settings!Seats |->
                IF c[i].player = "nobody" THEN c[i]
                ELSE [c[i] EXCEPT !.team = Settings!default_team(tt)]]
  PROVE  Placed(d) /\ Modded(fm, d) /\ Teamed(tt, d)
<1>1. PICK team \in {"neutral", "red"} :
        /\ team = Settings!default_team(tt)
        /\ ~Settings!ffa(tt) => team # "neutral"
  BY DEF Settings!default_team
<1>2. c \in [Settings!Seats -> Chairs]
  BY DEF Placed
<1>3. ASSUME NEW i \in Settings!Seats
      PROVE  /\ d[i] \in Chairs /\ d[i].player = c[i].player /\ d[i].mods = c[i].mods
             /\ c[i].player # "nobody" => d[i].team = team
  <2>1. c[i] \in Chairs
    BY <1>2
  <2>2. CASE c[i].player # "nobody"
    BY <1>1, <2>1, <2>2 DEF Chairs
  <2>3. CASE c[i].player = "nobody"
    BY <2>1, <2>3
  <2>4. QED
    BY <2>2, <2>3
<1>4. Placed(d)
  BY <1>2, <1>3 DEF Placed
<1>5. Modded(fm, d)
  BY <1>3 DEF Modded
<1>6. Teamed(tt, d)
  BY <1>1, <1>3 DEF Teamed
<1>7. QED
  BY <1>4, <1>5, <1>6

\* The second half of MatchChangeSettings, on whatever the first one left.
LEMMA SecondHalfKeeps ==
  ASSUME SettingsInv, NEW m \in Rooms, NEW d \in Wishes, NEW rec, NEW sl, NEW c,
         sl = [s_slots EXCEPT ![m] = c], Room(rec, c),
         Settings!TeamsAndCondition(m, d, rec, sl), s_task' \in [Handlers -> Jobs]
  PROVE  SettingsInv'
<1> DEFINE moves == rec.team_type # d.team_type /\ ~rec.scrimming
           e == [i \in Settings!Seats |->
                   IF c[i].player = "nobody" THEN c[i]
                   ELSE [c[i] EXCEPT !.team = Settings!default_team(d.team_type)]]
<1>1. PICK tt, pp : /\ tt = IF moves THEN d.team_type ELSE rec.team_type
                    /\ pp = (rec.pp /\ rec.cond = d.cond) /\ pp \in BOOLEAN
  OBVIOUS
<1>2. PICK r : r = [rec EXCEPT !.team_type = tt, !.pp = pp, !.cond = d.cond]
  OBVIOUS
<1>3. sl[m] = c
  BY DEF SettingsInv
<1>4. s_match' = [s_match EXCEPT ![m] = r]
  BY <1>1, <1>2 DEF Settings!TeamsAndCondition
<1>5. tt \in TeamTypes /\ d.cond \in Settings!Conditions
  BY <1>1 DEF Room, Sheets, Wishes
<1>6. /\ r \in Sheets /\ r.freemods = rec.freemods /\ r.uncleared = rec.uncleared /\ r.team_type = tt
      /\ r.points = rec.points /\ r.winners = rec.winners
  <2>1. rec \in Sheets
    BY DEF Room
  <2>2. pp \in BOOLEAN
    BY <1>1
  <2>3. r \in Sheets
    BY <1>2, <1>5, <2>1, <2>2 DEF Sheets
  <2>4. QED
    BY <1>2, <2>1, <2>3 DEF Sheets
<1>7. CASE ~moves
  <2>1. s_slots' = [s_slots EXCEPT ![m] = c] /\ tt = rec.team_type
    BY <1>1, <1>7 DEF Settings!TeamsAndCondition
  <2>2. Room(r, c)
    BY <1>6, <2>1, SheetChanges DEF SameRules
  <2>3. QED
    BY <1>4, <2>1, <2>2, RoomChanges
<1>8. CASE moves
  <2>1. s_slots' = [sl EXCEPT ![m] = e] /\ tt = d.team_type
    BY <1>1, <1>3, <1>8 DEF Settings!TeamsAndCondition, Settings!Nobody
  <2>2. Placed(e) /\ Modded(rec.freemods \/ rec.uncleared, e) /\ Teamed(tt, e)
    <3>1. Placed(c) /\ Modded(rec.freemods \/ rec.uncleared, c)
      BY DEF Room
    <3>2. Placed(e) /\ Modded(rec.freemods \/ rec.uncleared, e) /\ Teamed(d.team_type, e)
      BY <3>1, OccupantsTeamed
    <3>3. QED
      BY <2>1, <3>2
  <2> HIDE DEF e
  <2>3. Room(r, e)
    BY <1>6, <2>2 DEF Room, Tallied
  <2>4. s_slots' = [s_slots EXCEPT ![m] = e]
    BY <2>1
  <2>5. QED
    BY <1>4, <2>3, <2>4, RoomChanges
<1>9. QED
  BY <1>7, <1>8

\* What freemods leave of a match, switched or not.
LEMMA FirstHalfRight ==
  ASSUME SettingsInv, NEW m \in Rooms, NEW d \in Wishes, NEW sl, NEW rec,
         d.freemods # s_match[m].freemods /\ ~d.freemods => Settings!Sits(s_match[m].host, m),
         sl = (IF d.freemods = s_match[m].freemods THEN s_slots
               ELSE IF d.freemods THEN Settings!FreemodsOnSlots(m)
               ELSE Settings!FreemodsOffSlots(m)),
         rec = (IF d.freemods = s_match[m].freemods THEN s_match[m]
                ELSE IF d.freemods THEN Settings!FreemodsOn(m) ELSE Settings!FreemodsOff(m))
  PROVE  \E c : sl = [s_slots EXCEPT ![m] = c] /\ Room(rec, c)
<1>1. Room(s_match[m], s_slots[m])
  BY DEF SettingsInv
<1>2. CASE d.freemods = s_match[m].freemods
  <2>1. s_slots = [s_slots EXCEPT ![m] = s_slots[m]]
    BY DEF SettingsInv
  <2>2. QED
    BY <1>1, <1>2, <2>1
<1>3. CASE d.freemods # s_match[m].freemods /\ d.freemods
  BY <1>1, <1>3, FreemodsOnRight
<1>4. CASE d.freemods # s_match[m].freemods /\ ~d.freemods
  BY <1>1, <1>4, FreemodsOffRight
<1>5. QED
  BY <1>2, <1>3, <1>4

\* Another beatmap changes nothing that the invariant is about.
LEMMA MapIsSheet ==
  ASSUME NEW rec, NEW c, Room(rec, c), NEW map \in Maps \cup {Settings!NoMap},
         NEW prev \in Maps \cup {Settings!NoMap}
  PROVE  /\ Room([rec EXCEPT !.map = map], c)
         /\ Room([rec EXCEPT !.prev = prev, !.map = map], c)
<1>1. rec \in Sheets
  BY DEF Room
<1>2. PICK r : r = [rec EXCEPT !.map = map]
  OBVIOUS
<1>3. PICK q : q = [rec EXCEPT !.prev = prev, !.map = map]
  OBVIOUS
<1>4. r \in Sheets /\ SameRules(r, rec) /\ r.points = rec.points /\ r.winners = rec.winners
  BY <1>1, <1>2 DEF Sheets, SameRules
<1>5. q \in Sheets /\ SameRules(q, rec) /\ q.points = rec.points /\ q.winners = rec.winners
  BY <1>1, <1>3 DEF Sheets, SameRules
<1>6. QED
  BY <1>2, <1>3, <1>4, <1>5, SheetChanges

\* MatchChangeSettings up to its beatmap look-up, or all of it when it makes none.
LEMMA SettingsKeep ==
  ASSUME SettingsInv, NEW p \in Members, NEW m \in Rooms, NEW d \in Wishes,
         NEW t \in Handlers, Settings!MatchChangeSettings(p, m, d, t)
  PROVE  SettingsInv'
<1>1. PICK sl, rec :
        /\ sl = (IF d.freemods = s_match[m].freemods THEN s_slots
                 ELSE IF d.freemods THEN Settings!FreemodsOnSlots(m)
                 ELSE Settings!FreemodsOffSlots(m))
        /\ rec = (IF d.freemods = s_match[m].freemods THEN s_match[m]
                  ELSE IF d.freemods THEN Settings!FreemodsOn(m) ELSE Settings!FreemodsOff(m))
  OBVIOUS
<1>2. /\ d.freemods # s_match[m].freemods /\ ~d.freemods => Settings!Sits(s_match[m].host, m)
      /\ \/ /\ Settings!TeamsAndCondition(m, d, [rec EXCEPT !.prev = rec.map, !.map = Settings!NoMap], sl)
            /\ s_task' = s_task
         \/ /\ Settings!TeamsAndCondition(m, d, rec, sl)
            /\ s_task' = s_task
         \/ /\ s_match' = [s_match EXCEPT ![m] = rec] /\ s_slots' = sl
            /\ s_task' = [s_task EXCEPT ![t] = [op |-> "settings", p |-> p, d |-> d]]
  BY <1>1 DEF Settings!MatchChangeSettings, Settings!IsHost
<1>3. PICK c : sl = [s_slots EXCEPT ![m] = c] /\ Room(rec, c)
  BY <1>1, <1>2, FirstHalfRight
<1>4. rec.map \in Maps \cup {Settings!NoMap}
  BY <1>3 DEF Room, Sheets
<1>5. s_task \in [Handlers -> Jobs]
  BY DEF SettingsInv
<1>6. CASE /\ Settings!TeamsAndCondition(m, d, [rec EXCEPT !.prev = rec.map, !.map = Settings!NoMap], sl)
           /\ s_task' = s_task
  <2>1. Room([rec EXCEPT !.prev = rec.map, !.map = Settings!NoMap], c)
    BY <1>3, <1>4, MapIsSheet
  <2>2. QED
    BY <1>3, <1>5, <1>6, <2>1, SecondHalfKeeps
<1>7. CASE /\ Settings!TeamsAndCondition(m, d, rec, sl) /\ s_task' = s_task
  BY <1>3, <1>5, <1>7, SecondHalfKeeps
<1>8. CASE /\ s_match' = [s_match EXCEPT ![m] = rec] /\ s_slots' = sl
           /\ s_task' = [s_task EXCEPT ![t] = [op |-> "settings", p |-> p, d |-> d]]
  <2>1. [op |-> "settings", p |-> p, d |-> d] \in Jobs
    BY DEF Jobs
  <2>2. QED
    BY <1>3, <1>8, <2>1, JobEnds, RoomChanges
<1>9. QED
  BY <1>2, <1>6, <1>7, <1>8

\* The look-up of the map ends in a match the host may have moved to, and whose
\* host may not be online.
LEMMA ResumeKeeps ==
  ASSUME SettingsInv, NEW t \in Handlers, NEW m \in Rooms, Settings!SettingsResume(t, m)
  PROVE  SettingsInv'
<1>1. PICK k \in Jobs : k = s_task[t]
  BY DEF SettingsInv
<1>2. k.op = "settings"
  BY <1>1 DEF Settings!SettingsResume
<1>3. k.d \in Wishes
  BY <1>2 DEF Jobs
<1>4. PICK rec : rec = [s_match[m] EXCEPT !.map = k.d.map]
  OBVIOUS
<1>5. /\ \/ Settings!TeamsAndCondition(m, k.d, rec, s_slots)
         \/ s_match' = [s_match EXCEPT ![m] = rec] /\ s_slots' = s_slots
      /\ s_task' = [s_task EXCEPT ![t] = Settings!Idle]
  BY <1>1, <1>4 DEF Settings!SettingsResume
<1>6. Room(s_match[m], s_slots[m]) /\ s_slots = [s_slots EXCEPT ![m] = s_slots[m]]
  BY DEF SettingsInv
<1>7. k.d.map \in Maps \cup {Settings!NoMap}
  BY <1>3 DEF Wishes
<1>8. Room(rec, s_slots[m])
  <2>1. s_match[m].prev \in Maps \cup {Settings!NoMap}
    BY <1>6 DEF Room, Sheets
  <2>2. QED
    BY <1>4, <1>6, <1>7, <2>1, MapIsSheet
<1>9. s_task' \in [Handlers -> Jobs]
  BY <1>5, IdleIsJob, JobEnds
<1>10. CASE Settings!TeamsAndCondition(m, k.d, rec, s_slots)
  BY <1>3, <1>6, <1>8, <1>9, <1>10, SecondHalfKeeps
<1>11. CASE s_match' = [s_match EXCEPT ![m] = rec] /\ s_slots' = s_slots
  BY <1>8, <1>9, <1>11, RecordChanges
<1>12. QED
  BY <1>5, <1>10, <1>11

\* MatchChangeTeam: from a team, one changes to the other team.
LEMMA TeamKeeps ==
  ASSUME SettingsInv, NEW p \in Members, NEW m \in Rooms, Settings!MatchChangeTeam(p, m)
  PROVE  SettingsInv'
<1> DEFINE c == s_slots[m]
           rec == s_match[m]
           g == Settings!get_slot(p, m)
<1>1. Room(rec, c) /\ s_task' \in [Handlers -> Jobs]
  BY DEF SettingsInv, Settings!MatchChangeTeam
<1>2. g \in Settings!Seats /\ c[g].player = p /\ c \in [Settings!Seats -> Chairs]
  BY <1>1, SlotIsFound DEF Settings!MatchChangeTeam, Room, Placed
<1>3. PICK team \in {"red", "blue"} : team = IF c[g].team = "blue" THEN "red" ELSE "blue"
  OBVIOUS
<1>4. PICK seat : seat = [c[g] EXCEPT !.team = team]
  OBVIOUS
<1>5. PICK d : d = [c EXCEPT ![g] = seat]
  OBVIOUS
<1>6. s_slots' = [s_slots EXCEPT ![m] = d] /\ s_match' = s_match
  BY <1>3, <1>4, <1>5 DEF Settings!MatchChangeTeam
<1>7. seat \in Chairs /\ seat.player = p /\ seat.team = team /\ seat.mods = c[g].mods
  BY <1>2, <1>4 DEF Chairs
<1>8. d \in [Settings!Seats -> Chairs] /\ d[g] = seat
      /\ \A i \in Settings!Seats : i # g => d[i] = c[i]
  BY <1>2, <1>5, <1>7
<1>9. Placed(d)
  <2>1. \A i \in Settings!Seats : d[i].player = c[i].player
    BY <1>2, <1>7, <1>8
  <2>2. QED
    BY <1>1, <1>8, <2>1 DEF Room, Placed
<1>10. Modded(rec.freemods \/ rec.uncleared, d)
  BY <1>1, <1>2, <1>7, <1>8 DEF Room, Modded
<1>11. Teamed(rec.team_type, d)
  BY <1>1, <1>7, <1>8 DEF Room, Teamed
<1>12. QED
  BY <1>1, <1>6, <1>9, <1>10, <1>11, ChairsChange DEF Room

\* !mp teams, which starts the count of a scrim over.
LEMMA TeamsKeep ==
  ASSUME SettingsInv, NEW p \in Members, NEW m \in Rooms, NEW tt \in TeamTypes,
         Settings!mp_teams(p, m, tt)
  PROVE  SettingsInv'
<1> DEFINE c == s_slots[m]
           rec == s_match[m]
           d == [i \in Settings!Seats |->
                   IF c[i].player = "nobody" THEN c[i]
                   ELSE [c[i] EXCEPT !.team = Settings!default_team(tt)]]
<1>1. Room(rec, c) /\ s_task' \in [Handlers -> Jobs]
  BY DEF SettingsInv, Settings!mp_teams
<1>2. PICK q : q = [rec EXCEPT !.team_type = tt]
  OBVIOUS
<1>3. PICK r : r = IF q.scrimming THEN Settings!reset_scrim(q) ELSE q
  OBVIOUS
<1>4. s_match' = [s_match EXCEPT ![m] = r]
  BY <1>2, <1>3 DEF Settings!mp_teams
<1>5. s_slots' = [s_slots EXCEPT ![m] = d]
  <2>1. s_slots' = [s_slots EXCEPT ![m] = [i \in Settings!Seats |->
                      IF c[i].player # "nobody"
                      THEN [c[i] EXCEPT !.team = Settings!default_team(tt)] ELSE c[i]]]
    BY DEF Settings!mp_teams, Settings!Occupied, Settings!Seated, Settings!Nobody
  <2>2. d = [i \in Settings!Seats |->
               IF c[i].player # "nobody"
               THEN [c[i] EXCEPT !.team = Settings!default_team(tt)] ELSE c[i]]
    OBVIOUS
  <2>3. QED
    BY <2>1, <2>2
<1>6. Placed(c) /\ Modded(rec.freemods \/ rec.uncleared, c)
  BY <1>1 DEF Room
<1>7. Placed(d) /\ Modded(rec.freemods \/ rec.uncleared, d) /\ Teamed(tt, d)
  BY <1>6, OccupantsTeamed
<1>8. /\ q \in Sheets /\ q.freemods = rec.freemods /\ q.uncleared = rec.uncleared /\ q.team_type = tt
      /\ q.points = rec.points /\ q.winners = rec.winners
  BY <1>1, <1>2 DEF Room, Sheets
<1>9. Tallied(q)
  BY <1>1, <1>8 DEF Room, Tallied
<1>10. /\ r \in Sheets /\ r.freemods = rec.freemods /\ r.uncleared = rec.uncleared /\ r.team_type = tt
       /\ Tallied(r)
  BY <1>3, <1>8, <1>9, ResetTallies DEF SameRules
<1> HIDE DEF d
<1>11. Room(r, d)
  BY <1>7, <1>10 DEF Room
<1>12. QED
  BY <1>1, <1>4, <1>5, <1>11, RoomChanges

\* Commands that write one field of the match and nothing of the players'.
LEMMA FieldKeeps ==
  ASSUME SettingsInv, NEW p \in Members, NEW m \in Rooms,
         \/ Settings!MatchChangePassword(p, m)
         \/ Settings!mp_randpw(p, m)
         \/ \E cond \in Settings!Conditions \cup {"pp"} : Settings!mp_condition(p, m, cond)
         \/ \E best_of \in BestOf : Settings!mp_scrim(p, m, best_of)
         \/ Settings!mp_unloadpool(p, m)
  PROVE  SettingsInv'
<1> DEFINE rec == s_match[m]
<1>1. Room(rec, s_slots[m]) /\ rec \in Sheets /\ s_match \in [Rooms -> Sheets]
  BY DEF SettingsInv, Room
<1>2. \E r : /\ s_match' = [s_match EXCEPT ![m] = r]
             /\ r \in Sheets /\ SameRules(r, rec)
             /\ r.points = rec.points /\ r.winners = rec.winners
  <2>1. CASE Settings!MatchChangePassword(p, m)
    <3>1. PICK r : r = [rec EXCEPT !.passwd = "chosen"]
      OBVIOUS
    <3>2. s_match' = [s_match EXCEPT ![m] = r]
      BY <2>1, <3>1 DEF Settings!MatchChangePassword
    <3>3. r \in Sheets /\ SameRules(r, rec) /\ r.points = rec.points /\ r.winners = rec.winners
      BY <1>1, <3>1 DEF Sheets, SameRules
    <3>4. QED
      BY <3>2, <3>3
  <2>2. CASE Settings!mp_randpw(p, m)
    <3>1. PICK r : r = [rec EXCEPT !.passwd = "random"]
      OBVIOUS
    <3>2. s_match' = [s_match EXCEPT ![m] = r]
      BY <2>2, <3>1 DEF Settings!mp_randpw
    <3>3. r \in Sheets /\ SameRules(r, rec) /\ r.points = rec.points /\ r.winners = rec.winners
      BY <1>1, <3>1 DEF Sheets, SameRules
    <3>4. QED
      BY <3>2, <3>3
  <2>3. ASSUME NEW cond \in Settings!Conditions \cup {"pp"}, Settings!mp_condition(p, m, cond)
        PROVE  \E r : /\ s_match' = [s_match EXCEPT ![m] = r]
                      /\ r \in Sheets /\ SameRules(r, rec)
                      /\ r.points = rec.points /\ r.winners = rec.winners
    <3>1. PICK r, q, pp : /\ pp = (rec.pp \/ rec.scrimming) /\ pp \in BOOLEAN
                          /\ r = [rec EXCEPT !.pp = pp]
                          /\ q = [rec EXCEPT !.pp = FALSE, !.cond = cond]
      OBVIOUS
    <3>2. s_match' = [s_match EXCEPT ![m] = IF cond = "pp" THEN r ELSE q]
      BY <2>3, <3>1 DEF Settings!mp_condition
    <3>3. r \in Sheets /\ SameRules(r, rec) /\ r.points = rec.points /\ r.winners = rec.winners
      BY <1>1, <3>1 DEF Sheets, SameRules
    <3>4. cond # "pp" => /\ q \in Sheets /\ SameRules(q, rec)
                         /\ q.points = rec.points /\ q.winners = rec.winners
      BY <1>1, <2>3, <3>1 DEF Sheets, SameRules, Settings!Conditions
    <3>5. QED
      BY <3>2, <3>3, <3>4
  <2>4. ASSUME NEW best_of \in BestOf, Settings!mp_scrim(p, m, best_of)
        PROVE  \E r : /\ s_match' = [s_match EXCEPT ![m] = r]
                      /\ r \in Sheets /\ SameRules(r, rec)
                      /\ r.points = rec.points /\ r.winners = rec.winners
    <3>1. PICK r : r = [rec EXCEPT !.scrimming = TRUE, !.winning_pts = best_of \div 2 + 1]
      OBVIOUS
    <3>2. s_match' = [s_match EXCEPT ![m] = r]
      BY <1>1, <2>4, <3>1 DEF Settings!mp_scrim
    <3>3. best_of \div 2 + 1 \in Nat
      BY <2>4 DEF Settings!mp_scrim
    <3>4. r \in Sheets /\ SameRules(r, rec) /\ r.points = rec.points /\ r.winners = rec.winners
      BY <1>1, <3>1, <3>3 DEF Sheets, SameRules
    <3>5. QED
      BY <3>2, <3>4
  <2>5. CASE Settings!mp_unloadpool(p, m)
    <3>1. PICK r : r = [rec EXCEPT !.pool = Settings!NoPool]
      OBVIOUS
    <3>2. s_match' = [s_match EXCEPT ![m] = r]
      BY <2>5, <3>1 DEF Settings!mp_unloadpool
    <3>3. r \in Sheets /\ SameRules(r, rec) /\ r.points = rec.points /\ r.winners = rec.winners
      BY <1>1, <3>1 DEF Sheets, SameRules
    <3>4. QED
      BY <3>2, <3>3
  <2>6. QED
    BY <2>1, <2>2, <2>3, <2>4, <2>5
<1>3. PICK r : /\ s_match' = [s_match EXCEPT ![m] = r]
              /\ r \in Sheets /\ SameRules(r, rec)
              /\ r.points = rec.points /\ r.winners = rec.winners
  BY <1>2
<1>4. Room(r, s_slots[m])
  BY <1>1, <1>3, SheetChanges
<1>5. s_slots' = s_slots /\ s_task' \in [Handlers -> Jobs]
  BY DEF SettingsInv, Settings!MatchChangePassword, Settings!mp_randpw,
         Settings!mp_condition, Settings!mp_scrim, Settings!mp_unloadpool
<1>6. QED
  BY <1>3, <1>4, <1>5, RecordChanges

-----------------------------------------------------------------------------
\* A change of the points and wins of a match is none of its rules.
LEMMA TallyChanges ==
  ASSUME SettingsInv, NEW m \in Rooms, NEW rec \in Sheets, Tallied(rec),
         SameRules(rec, s_match[m]), s_match' = [s_match EXCEPT ![m] = rec],
         s_slots' = s_slots, s_task' \in [Handlers -> Jobs]
  PROVE  SettingsInv'
<1>1. Room(rec, s_slots[m])
  BY DEF SettingsInv, Room, SameRules
<1>2. QED
  BY <1>1, RecordChanges

\* !mp endscrim and !mp rematch: points and games won are reset together, or a
\* point and its game are taken back together.
LEMMA ScrimKeeps ==
  ASSUME SettingsInv, NEW p \in Members, NEW m \in Rooms,
         Settings!mp_endscrim(p, m) \/ Settings!mp_rematch(p, m)
  PROVE  SettingsInv'
<1> DEFINE rec == s_match[m]
<1>1. /\ rec \in Sheets /\ Tallied(rec) /\ s_slots' = s_slots
      /\ s_task' \in [Handlers -> Jobs]
  BY DEF SettingsInv, Room, Settings!mp_endscrim, Settings!mp_rematch
<1>2. CASE Settings!mp_endscrim(p, m)
  <2>1. PICK q : q = [rec EXCEPT !.scrimming = FALSE]
    OBVIOUS
  <2>2. q \in Sheets /\ SameRules(q, rec)
    BY <1>1, <2>1 DEF Sheets, SameRules
  <2>3. s_match' = [s_match EXCEPT ![m] = Settings!reset_scrim(q)]
    BY <1>2, <2>1 DEF Settings!mp_endscrim
  <2>4. /\ Settings!reset_scrim(q) \in Sheets /\ Tallied(Settings!reset_scrim(q))
        /\ SameRules(Settings!reset_scrim(q), rec)
    BY <2>2, ResetTallies DEF SameRules
  <2>5. QED
    BY <1>1, <2>3, <2>4, TallyChanges
<1>3. CASE Settings!mp_rematch(p, m)
  <2>1. CASE s_match' = [s_match EXCEPT ![m].scrimming = TRUE]
    <3>1. PICK q : q = [rec EXCEPT !.scrimming = TRUE]
      OBVIOUS
    <3>2. /\ q \in Sheets /\ SameRules(q, rec)
          /\ q.points = rec.points /\ q.winners = rec.winners
      BY <1>1, <3>1 DEF Sheets, SameRules
    <3>3. s_match' = [s_match EXCEPT ![m] = q]
      BY <2>1, <3>1
    <3>4. QED
      BY <1>1, <3>2, <3>3, TallyChanges DEF Tallied
  <2>2. CASE /\ rec.winners # <<>> /\ rec.winners[Len(rec.winners)] # "tie"
             /\ s_match' = [s_match EXCEPT ![m] = Settings!TakeBack(rec)]
    <3> HIDE DEF rec
    <3>1. /\ Settings!TakeBack(rec) \in Sheets /\ Tallied(Settings!TakeBack(rec))
          /\ SameRules(Settings!TakeBack(rec), rec)
      BY <1>1, <2>2, TakeBackTallies
    <3>2. QED
      BY <1>1, <2>2, <3>1, TallyChanges DEF rec
  <2>3. QED
    BY <1>3, <2>1, <2>2 DEF Settings!mp_rematch, Settings!Last, Settings!Tie
<1>4. QED
  BY <1>2, <1>3

-----------------------------------------------------------------------------
\* Handlers that await begin with a job of theirs.
LEMMA HandlersBegin ==
  ASSUME SettingsInv, NEW p \in Members, NEW m \in Rooms, NEW t \in Handlers,
         \/ \E map \in Maps : Settings!mp_map(p, m, map, t)
         \/ \E pool \in DOMAIN Pools : Settings!mp_loadpool(p, m, pool, t)
         \/ \E op \in {"ban", "unban", "pick"} :
              \E k \in UNION {DOMAIN Pools[q] : q \in DOMAIN Pools} :
                Settings!mp_pick(p, m, op, k, t)
  PROVE  SettingsInv'
<1>1. \E k \in Jobs : Settings!Begin(p, m, t, k)
  <2>1. ASSUME NEW map \in Maps, Settings!mp_map(p, m, map, t)
        PROVE  \E k \in Jobs : Settings!Begin(p, m, t, k)
    <3>1. PICK k : k = [op |-> "map", m |-> m, map |-> map]
      OBVIOUS
    <3>2. k \in Jobs
      BY <3>1 DEF Jobs
    <3>3. QED
      BY <2>1, <3>1, <3>2 DEF Settings!mp_map
  <2>2. ASSUME NEW pool \in DOMAIN Pools, Settings!mp_loadpool(p, m, pool, t)
        PROVE  \E k \in Jobs : Settings!Begin(p, m, t, k)
    <3>1. PICK k : k = [op |-> "loadpool", m |-> m, pool |-> pool]
      OBVIOUS
    <3>2. k \in Jobs
      BY <3>1 DEF Jobs
    <3>3. QED
      BY <2>2, <3>1, <3>2 DEF Settings!mp_loadpool
  <2>3. ASSUME NEW op \in {"ban", "unban", "pick"},
               NEW x \in UNION {DOMAIN Pools[q] : q \in DOMAIN Pools},
               Settings!mp_pick(p, m, op, x, t)
        PROVE  \E k \in Jobs : Settings!Begin(p, m, t, k)
    <3>1. PICK pool : pool = s_match[m].pool
      OBVIOUS
    <3>2. pool \in DOMAIN Pools /\ x \in DOMAIN Pools[pool]
      BY <2>3, <3>1 DEF SettingsInv, Room, Sheets, Settings!mp_pick
    <3>3. PICK pick : pick = Pools[pool][x]
      OBVIOUS
    <3>4. pick.map \in Maps /\ pick.mods \in SUBSET Mods
      BY <3>2, <3>3, SettingsAssumption
    <3>5. PICK k : k = [op |-> op, m |-> m, pick |-> x, map |-> pick.map, mods |-> pick.mods]
      OBVIOUS
    <3>6. k \in Jobs
      BY <3>4, <3>5 DEF Jobs
    <3>7. Settings!Begin(p, m, t, k)
      BY <2>3, <3>1, <3>3, <3>5 DEF Settings!mp_pick
    <3>8. QED
      BY <3>6, <3>7
  <2>4. QED
    BY <2>1, <2>2, <2>3
<1>2. PICK k \in Jobs : Settings!Begin(p, m, t, k)
  BY <1>1
<1>3. s_task' = [s_task EXCEPT ![t] = k] /\ s_match' = s_match /\ s_slots' = s_slots
  BY <1>2 DEF Settings!Begin
<1>4. QED
  BY <1>3, JobEnds, NothingChanges

\* ... and go on with the match they began with.
LEMMA HandlersGoOn ==
  ASSUME SettingsInv, NEW t \in Handlers,
         \/ Settings!MapResume(t) \/ Settings!LoadpoolResume(t)
         \/ Settings!BanResume(t) \/ Settings!PickFound(t)
  PROVE  SettingsInv'
<1>1. PICK k \in Jobs : k = s_task[t]
  BY DEF SettingsInv
<1>2. ASSUME Settings!MapResume(t) \/ Settings!LoadpoolResume(t) \/ Settings!BanResume(t)
      PROVE  SettingsInv'
  <2>1. k.op \in {"map", "loadpool", "ban", "unban"}
    BY <1>1, <1>2 DEF Settings!MapResume, Settings!LoadpoolResume, Settings!BanResume
  <2>2. k.m \in Rooms
    BY <2>1 DEF Jobs
  <2>3. PICK m \in Rooms, rec \in {s_match[k.m]} : m = k.m /\ rec = s_match[m]
    BY <2>2
  <2>4. rec \in Sheets
    BY <2>3 DEF SettingsInv, Room
  <2>5. /\ s_task' = [s_task EXCEPT ![t] = Settings!Idle] /\ s_slots' = s_slots
    BY <1>2 DEF Settings!MapResume, Settings!LoadpoolResume, Settings!BanResume,
                Settings!Done
  <2>6. s_task' \in [Handlers -> Jobs]
    BY <2>5, IdleIsJob, JobEnds
  <2>7. s_match' = s_match
        \/ \E r \in Sheets :
             /\ s_match' = [s_match EXCEPT ![m] = r] /\ SameRules(r, rec)
             /\ r.points = rec.points /\ r.winners = rec.winners
    <3>1. CASE Settings!MapResume(t)
      <4>1. k.map \in Maps
        BY <1>1, <3>1 DEF Settings!MapResume, Jobs
      <4>2. PICK r : r = [rec EXCEPT !.map = k.map]
        OBVIOUS
      <4>3. r \in Sheets /\ SameRules(r, rec) /\ r.points = rec.points /\ r.winners = rec.winners
        BY <2>4, <4>1, <4>2 DEF Sheets, SameRules
      <4>4. s_match' = s_match \/ s_match' = [s_match EXCEPT ![m] = r]
        BY <1>1, <2>3, <3>1, <4>2 DEF Settings!MapResume
      <4>5. QED
        BY <4>3, <4>4
    <3>2. CASE Settings!LoadpoolResume(t)
      <4>1. k.pool \in DOMAIN Pools
        BY <1>1, <3>2 DEF Settings!LoadpoolResume, Jobs
      <4>2. PICK r : r = [rec EXCEPT !.pool = k.pool]
        OBVIOUS
      <4>3. r \in Sheets /\ SameRules(r, rec) /\ r.points = rec.points /\ r.winners = rec.winners
        BY <2>4, <4>1, <4>2 DEF Sheets, SameRules
      <4>4. s_match' = [s_match EXCEPT ![m] = r]
        BY <1>1, <2>3, <3>2, <4>2 DEF Settings!LoadpoolResume
      <4>5. QED
        BY <4>3, <4>4
    <3>3. CASE Settings!BanResume(t)
      <4>1. k.pick \in UNION {DOMAIN Pools[q] : q \in DOMAIN Pools}
        BY <1>1, <3>3 DEF Settings!BanResume, Jobs
      <4>2. PICK bans : bans = IF k.op = "ban" THEN rec.bans \cup {k.pick}
                               ELSE rec.bans \ {k.pick}
        OBVIOUS
      <4>3. bans \in SUBSET UNION {DOMAIN Pools[q] : q \in DOMAIN Pools}
        BY <2>4, <4>1, <4>2 DEF Sheets
      <4>4. PICK r : r = [rec EXCEPT !.bans = bans]
        OBVIOUS
      <4>5. r \in Sheets /\ SameRules(r, rec) /\ r.points = rec.points /\ r.winners = rec.winners
        BY <2>4, <4>3, <4>4 DEF Sheets, SameRules
      <4>6. s_match' = [s_match EXCEPT ![m] = r]
        BY <1>1, <2>3, <3>3, <4>2, <4>4 DEF Settings!BanResume
      <4>7. QED
        BY <4>5, <4>6
    <3>4. QED
      BY <1>2, <3>1, <3>2, <3>3
  <2>8. QED
    BY <2>3, <2>5, <2>6, <2>7, SheetChanges, RecordChanges, NothingChanges DEF SettingsInv
<1>3. ASSUME Settings!PickFound(t) PROVE SettingsInv'
  <2>1. PICK j : /\ s_task' = [s_task EXCEPT ![t] = j] /\ s_match' = s_match /\ s_slots' = s_slots
                 /\ j = Settings!Idle \/ j = [k EXCEPT !.op = "picked"]
    BY <1>1, <1>3 DEF Settings!PickFound
  <2>2. k.op = "pick"
    BY <1>1, <1>3 DEF Settings!PickFound
  <2>3. [k EXCEPT !.op = "picked"] \in Jobs
    BY <2>2 DEF Jobs
  <2>4. QED
    BY <2>1, <2>3, IdleIsJob, JobEnds, NothingChanges
<1>4. QED
  BY <1>2, <1>3

\* !mp pick cleans the slots up as switching freemods off does.
LEMMA PickKeeps ==
  ASSUME SettingsInv, NEW t \in Handlers, Settings!PickResume(t)
  PROVE  SettingsInv'
<1>1. PICK k \in Jobs : k = s_task[t]
  BY DEF SettingsInv
<1>2. k.op = "picked"
  BY <1>1 DEF Settings!PickResume
<1>3. k.m \in Rooms /\ k.map \in Maps /\ k.mods \in SUBSET Mods
  BY <1>2 DEF Jobs
<1>4. PICK m \in Rooms, rec \in {s_match[k.m]}, c \in {s_slots[k.m]} : m = k.m /\ rec = s_match[m] /\ c = s_slots[m]
  BY <1>3
<1>5. Room(rec, c) /\ s_slots = [s_slots EXCEPT ![m] = c]
  BY <1>4 DEF SettingsInv
<1>6. PICK r : r = [rec EXCEPT !.map = k.map, !.freemods = FALSE,
                             !.uncleared = rec.uncleared /\ ~rec.freemods, !.mods = k.mods]
  OBVIOUS
<1>7. /\ r \in Sheets /\ r.freemods = FALSE /\ r.team_type = rec.team_type
      /\ r.uncleared <=> rec.uncleared /\ ~rec.freemods
      /\ r.points = rec.points /\ r.winners = rec.winners
  BY <1>3, <1>5, <1>6 DEF Room, Sheets
<1>8. /\ s_match' = [s_match EXCEPT ![m] = r]
      /\ s_task' = [s_task EXCEPT ![t] = Settings!Idle]
      /\ s_slots' = IF rec.freemods THEN Settings!FreemodsOffSlots(m) ELSE s_slots
  BY <1>1, <1>4, <1>6 DEF Settings!PickResume, Settings!Done
<1>9. s_task' \in [Handlers -> Jobs]
  BY <1>8, IdleIsJob, JobEnds
<1>10. CASE rec.freemods
  <2>1. PICK d : /\ d = [i \in Settings!Seats |->
                            IF c[i].player # "nobody" THEN [c[i] EXCEPT !.mods = {}] ELSE c[i]]
    OBVIOUS
  <2>2. Placed(d) /\ Modded(FALSE, d) /\ Teamed(rec.team_type, d)
    <3>1. {} \in SUBSET Mods /\ {} \cap Settings!SPEED_CHANGING_MODS = {} /\ FALSE \in BOOLEAN
      OBVIOUS
    <3>2. Room(rec, c)
      BY <1>5
    <3>3. QED
      BY <2>1, <3>1, <3>2, OccupantsModded
  <2>3. s_slots' = [s_slots EXCEPT ![m] = d]
    BY <1>4, <1>8, <1>10, <2>1
    DEF Settings!FreemodsOffSlots, Settings!Occupied, Settings!Seated, Settings!Nobody
  <2>4. Room(r, d)
    <3>1. Modded(r.freemods \/ r.uncleared, d)
      BY <1>7, <1>10, <2>2 DEF Modded
    <3>2. QED
      BY <1>5, <1>7, <2>2, <3>1 DEF Room, Tallied
  <2>5. QED
    BY <1>8, <1>9, <2>3, <2>4, RoomChanges
<1>11. CASE ~rec.freemods
  <2>1. Modded(r.freemods \/ r.uncleared, c)
    BY <1>5, <1>7, <1>11 DEF Room, Modded
  <2>2. Room(r, c)
    BY <1>5, <1>7, <2>1 DEF Room, Tallied
  <2>3. QED
    BY <1>4, <1>8, <1>9, <1>11, <2>2, RecordChanges
<1>12. QED
  BY <1>10, <1>11

-----------------------------------------------------------------------------
\* MatchComplete hands the seats that played to a task that waits for scores.
LEMMA GameEndKeeps ==
  ASSUME SettingsInv, NEW m \in Rooms, NEW t \in Handlers,
         NEW was_playing \in SUBSET Settings!Seats,
         Settings!MatchComplete(m, was_playing, t)
  PROVE  SettingsInv'
<1>1. PICK k : k = [op |-> "points", m |-> m, left |-> was_playing,
                    ffa |-> Settings!ffa(s_match[m].team_type),
                    scores |-> [x \in Sides |-> 0]]
  OBVIOUS
<1>2. s_task' = [s_task EXCEPT ![t] = k] /\ s_match' = s_match /\ s_slots' = s_slots
  BY <1>1 DEF Settings!MatchComplete, Settings!Teams, Sides
<1>3. k \in Jobs
  <2>1. Settings!ffa(s_match[m].team_type) \in BOOLEAN
    BY DEF Settings!ffa
  <2>2. [x \in Sides |-> 0] \in [Sides -> Int]
    OBVIOUS
  <2>3. QED
    BY <1>1, <2>1, <2>2 DEF Jobs
<1>4. QED
  BY <1>2, <1>3, JobEnds, NothingChanges

\* The task takes the score of one seat, or finds that its player has gone.
LEMMA ScoreKeeps ==
  ASSUME SettingsInv, NEW t \in Handlers, NEW score \in 0 .. MaxScore,
         Settings!await_submissions(t, score)
  PROVE  SettingsInv'
<1> DEFINE k == s_task[t]
           i == CHOOSE i \in k.left : \A j \in k.left : i <= j
           s == s_slots[k.m][i]
           key == IF k.ffa THEN s.player ELSE s.team
           q == [k EXCEPT !.left = @ \ {i}, !.scores[key] = @ + score]
<1>1. /\ k.op = "points" /\ k.left # {}
      /\ s_task' = [s_task EXCEPT ![t] = IF s.player = Settings!Nobody THEN Settings!Idle ELSE q]
      /\ s_match' = s_match /\ s_slots' = s_slots
  BY DEF Settings!await_submissions
<1>2. k \in Jobs
  BY DEF SettingsInv
<1> HIDE DEF k, i, s, key, q
<1>3. /\ k.m \in Rooms /\ k.left \in SUBSET Settings!Seats /\ k.scores \in [Sides -> Int]
      /\ k \in [op : {"points"}, m : Rooms, left : SUBSET Settings!Seats,
                ffa : BOOLEAN, scores : [Sides -> Int]]
  BY <1>1, <1>2 DEF Jobs
<1>4. i \in Settings!Seats
  <2>1. \E j \in k.left : \A n \in k.left : j <= n
    BY <1>1, <1>3, SeatsAreNumbers, Least
  <2>2. QED
    BY <1>3, <2>1 DEF i
<1>5. s \in Chairs
  BY <1>3, <1>4 DEF s, SettingsInv, Room, Placed
<1>6. CASE s.player = "nobody"
  BY <1>1, <1>6, IdleIsJob, JobEnds, NothingChanges DEF Settings!Nobody
<1>7. CASE s.player # "nobody"
  <2>1. key \in Sides
    BY <1>5, <1>7 DEF key, Sides, Chairs
  <2>2. PICK scores : scores = [k.scores EXCEPT ![key] = @ + score]
    OBVIOUS
  <2>3. scores \in [Sides -> Int]
    BY <1>3, <2>1, <2>2
  <2>4. q = [k EXCEPT !.left = k.left \ {i}, !.scores = scores]
    BY <1>3, <2>2 DEF q
  <2>5. q \in Jobs
    BY <1>3, <2>3, <2>4 DEF Jobs
  <2>6. QED
    BY <1>1, <1>7, <2>5, JobEnds, NothingChanges DEF Settings!Nobody
<1>8. QED
  BY <1>6, <1>7

\* update_matchpoints: the point and the game won are noted in one step, or a tie
\* is, for which nobody gets a point.
LEMMA PointsKeep ==
  ASSUME SettingsInv, NEW t \in Handlers, Settings!update_matchpoints(t)
  PROVE  SettingsInv'
<1>1. PICK k \in Jobs : k = s_task[t]
  BY DEF SettingsInv
<1>2. k.op = "points"
  BY <1>1 DEF Settings!update_matchpoints
<1>3. k.m \in Rooms /\ k.scores \in [Sides -> Int]
  BY <1>2 DEF Jobs
<1>4. PICK m \in Rooms, rec \in {s_match[k.m]} : m = k.m /\ rec = s_match[m]
  BY <1>3
<1>5. rec \in Sheets /\ Tallied(rec)
  BY <1>4 DEF SettingsInv, Room
<1>6. /\ s_task' = [s_task EXCEPT ![t] = Settings!Idle] /\ s_slots' = s_slots
      /\ \/ s_match' = s_match
         \/ s_match' = [s_match EXCEPT ![m].winners = Append(@, "tie")]
         \/ \E winner \in Sides :
              s_match' = [s_match EXCEPT ![m] = Settings!AwardPoint(rec, winner)]
  BY <1>1, <1>3, <1>4 DEF Settings!update_matchpoints, Settings!Done, Settings!Tie
<1>7. s_task' \in [Handlers -> Jobs]
  BY <1>6, IdleIsJob, JobEnds
<1>8. CASE s_match' = s_match
  BY <1>6, <1>7, <1>8, NothingChanges
<1>9. CASE s_match' = [s_match EXCEPT ![m].winners = Append(@, "tie")]
  <2>1. PICK r : r = [rec EXCEPT !.winners = Append(@, "tie")]
    OBVIOUS
  <2>2. r \in Sheets /\ Tallied(r) /\ SameRules(r, rec)
    BY <1>5, <2>1, TieTallies
  <2>3. s_match' = [s_match EXCEPT ![m] = r]
    BY <1>4, <1>9, <2>1
  <2>4. QED
    BY <1>4, <1>6, <1>7, <2>2, <2>3, TallyChanges
<1>10. ASSUME NEW winner \in Sides,
              s_match' = [s_match EXCEPT ![m] = Settings!AwardPoint(rec, winner)]
       PROVE  SettingsInv'
  <2>1. /\ Settings!AwardPoint(rec, winner) \in Sheets
        /\ Tallied(Settings!AwardPoint(rec, winner))
        /\ SameRules(Settings!AwardPoint(rec, winner), rec)
    BY <1>5, AwardTallies
  <2>2. QED
    BY <1>4, <1>6, <1>7, <1>10, <2>1, TallyChanges
<1>11. QED
  BY <1>6, <1>8, <1>9, <1>10

-----------------------------------------------------------------------------
\* A match as it is created.
LEMMA SettingsBegin == Settings!Init => SettingsInv
<1> SUFFICES ASSUME Settings!Init PROVE SettingsInv
  OBVIOUS
<1>1. PICK hosts \in [Rooms -> Members], mods \in SUBSET Mods, fm \in BOOLEAN, tt \in TeamTypes :
        /\ \A m, n \in Rooms : m # n => hosts[m] # hosts[n]
        /\ s_match = [m \in Rooms |-> Settings!Match(hosts[m], mods, fm, tt)]
        /\ s_slots = [m \in Rooms |-> [i \in Settings!Seats |->
                        IF i # 1 THEN Settings!Slot
                        ELSE [Settings!Slot EXCEPT !.player = hosts[m],
                                                   !.team = Settings!default_team(tt)]]]
  BY DEF Settings!Init
<1>2. s_task \in [Handlers -> Jobs]
  BY IdleIsJob DEF Settings!Init
<1>3. ASSUME NEW m \in Rooms PROVE Room(s_match[m], s_slots[m])
  <2>1. PICK host \in Members, rec \in {s_match[m]}, c \in {s_slots[m]} :
          /\ host = hosts[m] /\ rec = s_match[m] /\ c = s_slots[m]
    BY <1>1
  <2>2. rec = Settings!Match(host, mods, fm, tt)
    BY <1>1, <2>1
  <2>3. PICK zero : zero = [k \in Sides |-> 0]
    OBVIOUS
  <2>4. rec = [host |-> host, members |-> {host}, listed |-> TRUE, uncleared |-> FALSE,
               map |-> Settings!NoMap, prev |-> Settings!NoMap, mods |-> mods,
               freemods |-> fm, team_type |-> tt, cond |-> "score", pp |-> FALSE,
               pool |-> Settings!NoPool, passwd |-> "given", scrimming |-> FALSE,
               winning_pts |-> 0, points |-> zero, winners |-> <<>>, bans |-> {}]
    BY <2>2, <2>3 DEF Settings!Match, Settings!Teams, Sides
  <2>5. <<>> \in Seq(Sides \cup {"tie"}) /\ zero \in [Sides -> Int]
    BY <2>3
  <2>6. rec \in Sheets
    BY <2>4, <2>5 DEF Sheets, Settings!Conditions
  <2>7. Tallied(rec)
    BY <2>3, <2>4, NoWins DEF Tallied
  <2>8. PICK team \in {"neutral", "red"} :
          /\ team = Settings!default_team(tt) /\ (~Settings!ffa(tt) => team # "neutral")
    BY DEF Settings!default_team
  <2>9. PICK seat : seat = [Settings!Slot EXCEPT !.player = host, !.team = team]
    OBVIOUS
  <2>10. /\ Settings!Slot \in Chairs /\ Settings!Slot.player = "nobody" /\ Settings!Slot.mods = {}
         /\ seat \in Chairs /\ seat.player = host /\ seat.mods = {} /\ seat.team = team
    BY <2>9 DEF Settings!Slot, Settings!Nobody, Chairs
  <2>11. c = [i \in Settings!Seats |-> IF i # 1 THEN Settings!Slot ELSE seat]
    BY <1>1, <2>1, <2>8, <2>9
  <2>12. host # "nobody" /\ 1 \in Settings!Seats
    BY SettingsAssumption, SeatsAreNumbers
  <2>13. Placed(c)
    BY <2>10, <2>11, <2>12 DEF Placed
  <2>14. Modded(rec.freemods \/ rec.uncleared, c) /\ Teamed(tt, c)
    BY <2>8, <2>10, <2>11 DEF Modded, Teamed
  <2>15. QED
    BY <2>1, <2>4, <2>6, <2>7, <2>13, <2>14 DEF Room
<1>4. QED
  BY <1>1, <1>2, <1>3 DEF SettingsInv

\* Every request and every step of a handler keeps the invariant.
LEMMA SettingsStay == SettingsInv /\ Settings!Next => SettingsInv'
<1> SUFFICES ASSUME SettingsInv, Settings!Next PROVE SettingsInv'
  OBVIOUS
<1>1. CASE Settings!Request
  <2>1. PICK p \in Members, m \in Rooms :
         \/ \E i \in Settings!Seats : \/ Settings!join_match(p, m, i)
                                      \/ Settings!MatchChangeSlot(p, m, i)
                                      \/ Settings!MatchTransferHost(p, m, i)
         \/ Settings!leave_match(p, m)
         \/ \E mods \in SUBSET Mods : Settings!MatchChangeMods(p, m, mods)
         \/ \E fm \in BOOLEAN, map \in Maps \cup {Settings!NoMap}, tt \in TeamTypes,
               c \in Settings!Conditions, t \in Handlers :
               Settings!MatchChangeSettings(p, m, [freemods |-> fm, map |-> map,
                                                   team_type |-> tt, cond |-> c], t)
         \/ Settings!MatchChangeSettingsFails(p, m)
         \/ Settings!MatchChangeTeam(p, m)
         \/ Settings!MatchChangePassword(p, m)
         \/ \E mods \in SUBSET Mods : Settings!mp_mods(p, m, mods, 0)
         \/ \E on \in BOOLEAN : Settings!mp_freemods(p, m, on)
         \/ Settings!mp_freemods_Fails(p, m)
         \/ Settings!mp_randpw(p, m)
         \/ \E tt \in TeamTypes : Settings!mp_teams(p, m, tt)
         \/ \E c \in Settings!Conditions \cup {"pp"} : Settings!mp_condition(p, m, c)
         \/ \E b \in BestOf : Settings!mp_scrim(p, m, b)
         \/ Settings!mp_endscrim(p, m)
         \/ Settings!mp_rematch(p, m)
         \/ Settings!mp_unloadpool(p, m)
         \/ \E map \in Maps, t \in Handlers : Settings!mp_map(p, m, map, t)
         \/ \E pool \in DOMAIN Pools, t \in Handlers : Settings!mp_loadpool(p, m, pool, t)
         \/ \E op \in {"ban", "unban", "pick"}, t \in Handlers :
               \E k \in UNION {DOMAIN Pools[q] : q \in DOMAIN Pools} :
                  Settings!mp_pick(p, m, op, k, t)
    BY <1>1, SMTT(60) DEF Settings!Request
  <2>2. CASE \E fm \in BOOLEAN, map \in Maps \cup {Settings!NoMap}, tt \in TeamTypes,
               c \in Settings!Conditions, t \in Handlers :
               Settings!MatchChangeSettings(p, m, [freemods |-> fm, map |-> map,
                                                   team_type |-> tt, cond |-> c], t)
    <3>1. PICK d \in Wishes, t \in Handlers : Settings!MatchChangeSettings(p, m, d, t)
      BY <2>2 DEF Wishes
    <3>2. QED
      BY <3>1, SettingsKeep
  <2>3. QED
    BY <2>1, <2>2, JoinKeeps, LeaveKeeps, MoveKeeps, TransferKeeps, ModsKeep, TeamKeeps,
       FieldKeeps, FreemodsKeep, SwitchFails, TeamsKeep, ScrimKeeps, HandlersBegin
<1>2. CASE Settings!GameEnds
  BY <1>2, GameEndKeeps DEF Settings!GameEnds
<1>3. CASE Settings!Resume
  <2>1. PICK t \in Handlers :
         \/ \E m \in Rooms : Settings!SettingsResume(t, m)
         \/ Settings!SettingsFail(t)
         \/ Settings!MapResume(t)
         \/ Settings!LoadpoolResume(t)
         \/ Settings!BanResume(t)
         \/ Settings!PickFound(t)
         \/ Settings!PickResume(t)
         \/ \E score \in 0 .. MaxScore : Settings!await_submissions(t, score)
         \/ Settings!update_matchpoints(t)
    BY <1>3 DEF Settings!Resume
  <2>2. CASE Settings!SettingsFail(t)
    <3>1. /\ s_task' = [s_task EXCEPT ![t] = Settings!Idle]
          /\ s_match' = s_match /\ s_slots' = s_slots
      BY <2>2 DEF Settings!SettingsFail
    <3>2. QED
      BY <3>1, IdleIsJob, JobEnds, NothingChanges
  <2>3. QED
    BY <2>1, <2>2, ResumeKeeps, HandlersGoOn, PickKeeps, ScoreKeeps, PointsKeep
<1>4. QED
  BY <1>1, <1>2, <1>3 DEF Settings!Next

\* The invariant holds wherever this model runs.
LEMMA SettingsInductive == AllSpec => [](service = "settings" => SettingsInv)
<1>1. AllInit => (service = "settings" => SettingsInv)
  BY SettingsBegin DEF AllInit
<1>2. (service = "settings" => SettingsInv) /\ [AllNext]_allvars
        => (service = "settings" => SettingsInv)'
  <2> SUFFICES ASSUME service = "settings" => SettingsInv, [AllNext]_allvars,
                      service' = "settings"
               PROVE  SettingsInv'
    OBVIOUS
  <2>1. CASE service = "settings" /\ Settings!Next
    BY <2>1, SettingsStay
  <2>2. CASE service' = service /\ UNCHANGED s_vars
    BY <2>2 DEF s_vars, SettingsInv
  <2>3. QED
    BY <2>1, <2>2 DEF AllNext, allvars
<1>3. QED
  BY <1>1, <1>2, PTL DEF AllSpec

\* Mods are with the match or with its players as freemods says, whichever of
\* the three handlers that switch freemods did so and whoever came, moved or was
\* displaced meanwhile, for any number of matches, players, mods and handlers half
\* way; but for a match whose freemods were switched off while its host had no
\* seat, where the handler raises before it clears the players' mods, and but for
\* that match only until they are switched again.
THEOREM ModsInPlace == AllSpec => []ModsAreWhereTheyBelong
<1>1. (service = "settings" => SettingsInv) => ModsAreWhereTheyBelong
  <2> SUFFICES ASSUME SettingsInv, NEW m \in Rooms, NEW i \in Settings!Seats
               PROVE  /\ s_slots[m][i].mods \cap Settings!SPEED_CHANGING_MODS = {}
                      /\ ~s_match[m].freemods /\ ~s_match[m].uncleared
                           => s_slots[m][i].mods = {}
    BY DEF ModsAreWhereTheyBelong, Settings!ModsAreWhereTheyBelong
  <2>1. QED
    BY DEF SettingsInv, Room, Modded
<1>2. QED
  BY <1>1, SettingsInductive, PTL

\* The points of a scrim are the games noted as won in it, through ties,
\* rematches, ends of scrims and changes of the team type, and nobody in a team
\* match is without a team, for any number of games and any match points.
THEOREM PointsMatchWins == AllSpec => []PointsAreWins
<1>1. (service = "settings" => SettingsInv) => PointsAreWins
  <2> SUFFICES ASSUME SettingsInv PROVE Settings!PointsAreWins
    BY DEF PointsAreWins
  <2>1. ASSUME NEW m \in Rooms, NEW k \in Sides
        PROVE  s_match[m].points[k] =
                 Settings!Cardinality({j \in DOMAIN s_match[m].winners : s_match[m].winners[j] = k})
    <3>1. s_match[m].points[k] = Wins(s_match[m].winners, k)
      BY DEF SettingsInv, Room, Tallied
    <3>2. QED
      BY <3>1, SettingsCardinality DEF Wins
  <2>2. ASSUME NEW m \in Rooms, ~Settings!ffa(s_match[m].team_type),
               NEW i \in Settings!Seats, Settings!Seated(m, i)
        PROVE  s_slots[m][i].team # "neutral"
    BY <2>2 DEF SettingsInv, Room, Teamed, Settings!Seated, Settings!Nobody
  <2>3. QED
    BY <2>1, <2>2 DEF Settings!PointsAreWins, Settings!Teams, Sides
<1>2. QED
  BY <1>1, SettingsInductive, PTL

-----------------------------------------------------------------------------
(* The record of matches and the scrolls through it (MatchHistory), for    *)
(* any number of lobbies, games, tasks and readers, in the composition     *)
(* that MCMatches checks.  First the places in a finite order, by which    *)
(* both pages and scoreboards are made.                                    *)

\* A strict total order; whoever is before i in it, and the place of i.
Order(D, R) ==
  /\ \A i \in D : <<i, i>> \notin R
  /\ \A i, j \in D : i # j => <<i, j>> \in R \/ <<j, i>> \in R
  /\ \A i, j, k \in D : <<i, j>> \in R /\ <<j, k>> \in R => <<i, k>> \in R
Before(D, R, i) == {j \in D : <<j, i>> \in R}
Place(D, R) == [i \in D |-> 1 + Cardinality(Before(D, R, i))]
Ranked(D, R, rank) ==
  /\ Cardinality(D) \in Nat
  /\ rank \in [D -> 1 .. Cardinality(D)]
  /\ \A i, j \in D : <<j, i>> \in R => rank[j] < rank[i]
  /\ \A i, j \in D : rank[j] < rank[i] => <<j, i>> \in R
  /\ \A n \in 1 .. Cardinality(D) : \E i \in D : rank[i] = n

\* How many come before each of a finite set in a total order R: the numbers
\* from 1 on, each given once, and smaller for whoever comes first.
LEMMA Ranks ==
  ASSUME NEW D, IsFiniteSet(D), NEW R, Order(D, R)
  PROVE  Ranked(D, R, Place(D, R))
<1> DEFINE rank == Place(D, R)
<1>1. Cardinality(D) \in Nat
  BY FS_CardinalityType
<1>2. PICK before : before = [i \in D |-> Before(D, R, i)]
  OBVIOUS
<1>3. \A i, j \in D : j \in before[i] <=> <<j, i>> \in R
  BY <1>2 DEF Before
<1>4. ASSUME NEW i \in D
      PROVE  /\ before[i] \in SUBSET D /\ IsFiniteSet(before[i])
             /\ Cardinality(before[i]) \in Nat
             /\ Cardinality(before[i]) < Cardinality(D)
             /\ rank[i] = 1 + Cardinality(before[i])
  <2>1. before[i] \in SUBSET D /\ i \notin before[i] /\ before[i] # D
    BY <1>2 DEF Before, Order
  <2>2. /\ IsFiniteSet(before[i]) /\ Cardinality(before[i]) <= Cardinality(D)
        /\ Cardinality(D) # Cardinality(before[i])
    BY <2>1, FS_Subset
  <2>3. Cardinality(before[i]) \in Nat
    BY <2>2, FS_CardinalityType
  <2>4. rank[i] = 1 + Cardinality(before[i])
    BY <1>2 DEF Place
  <2>5. QED
    BY <1>1, <2>1, <2>2, <2>3, <2>4
<1> HIDE DEF rank
<1>5. ASSUME NEW i \in D, NEW j \in D, <<j, i>> \in R
      PROVE  rank[j] < rank[i]
  <2>1. before[j] \in SUBSET before[i] /\ j \in before[i] /\ j \notin before[j]
    <3>1. <<j, j>> \notin R /\ \A k \in D : <<k, j>> \in R => <<k, i>> \in R
      BY <1>5 DEF Order
    <3>2. QED
      BY <1>3, <1>4, <1>5, <3>1
  <2>2. before[i] # before[j]
    BY <2>1
  <2>3. /\ Cardinality(before[j]) <= Cardinality(before[i])
        /\ Cardinality(before[i]) # Cardinality(before[j])
    BY <1>4, <2>1, <2>2, FS_Subset
  <2>4. QED
    BY <1>4, <2>3
<1>6. rank \in [D -> 1 .. Cardinality(D)]
  <2>1. \A i \in D : rank[i] \in 1 .. Cardinality(D)
    BY <1>1, <1>4
  <2>2. QED
    BY <2>1 DEF Place, rank
<1>7. \A i, j \in D : rank[j] < rank[i] => <<j, i>> \in R
  <2> SUFFICES ASSUME NEW i \in D, NEW j \in D, rank[j] < rank[i], <<j, i>> \notin R
               PROVE  FALSE
    OBVIOUS
  <2>1. rank[i] \in Int /\ rank[j] \in Int
    BY <1>4
  <2>2. CASE i = j
    BY <2>1, <2>2
  <2>3. i = j \/ <<i, j>> \in R
    BY DEF Order
  <2>4. CASE <<i, j>> \in R
    <3>1. rank[i] < rank[j]
      BY <1>5, <2>4
    <3>2. \A a, b \in Int : a < b => ~(b < a)
      OBVIOUS
    <3>3. QED
      BY <2>1, <3>1, <3>2
  <2>5. QED
    BY <2>2, <2>3, <2>4
<1>8. \A i, j \in D : rank[i] = rank[j] => i = j
  <2> SUFFICES ASSUME NEW i \in D, NEW j \in D, rank[i] = rank[j], i # j PROVE FALSE
    OBVIOUS
  <2>1. rank[i] < rank[j] \/ rank[j] < rank[i]
    BY <1>5 DEF Order
  <2>2. rank[i] \in Int /\ rank[j] \in Int
    BY <1>4
  <2>3. QED
    BY <2>1, <2>2
<1>9. \A n \in 1 .. Cardinality(D) : \E i \in D : rank[i] = n
  <2>1. rank \in Injection(D, 1 .. Cardinality(D))
    BY <1>6, <1>8 DEF Injection, IsInjective
  <2>2. IsFiniteSet(1 .. Cardinality(D)) /\ Cardinality(1 .. Cardinality(D)) = Cardinality(D)
    BY <1>1, FS_Interval
  <2>3. rank \in Surjection(D, 1 .. Cardinality(D))
    BY <2>1, <2>2, FS_Injection
  <2>4. QED
    BY <2>3 DEF Surjection
<1>10. QED
  BY <1>1, <1>5, <1>6, <1>7, <1>9 DEF Ranked, rank

\* What a page of rows is: of the ids below the cursor the greatest, as many as
\* it has room for, the greatest first.
PageOf(page, ids, before, limit) ==
  /\ page \in Seq(Nat \ {0}) /\ Len(page) <= limit
  /\ \A i, j \in DOMAIN page : i < j => page[i] > page[j]
  /\ \A i \in DOMAIN page : page[i] \in ids /\ (before # 0 => page[i] < before)
  /\ \A x \in ids : before = 0 \/ x < before =>
       \/ \E i \in DOMAIN page : page[i] = x
       \/ Len(page) = limit /\ \A i \in DOMAIN page : x < page[i]

\* Parts of the query: the ids below the cursor, the greatest of them, and a set
\* from the greatest down.
Below(ids, before) == {i \in ids : before = 0 \/ i < before}
Topmost(ids, limit) == {i \in ids : Cardinality({j \in ids : j > i}) < limit}
Downward(D) == [k \in 1 .. Cardinality(D) |->
                  CHOOSE i \in D : Cardinality({j \in D : j >= i}) = k]
Descends(list, D, n) ==
  /\ n \in Nat /\ list \in [1 .. n -> D]
  /\ \A k, l \in 1 .. n : k < l => list[k] > list[l]
  /\ \A i \in D : \E k \in 1 .. n : list[k] = i

\* Newest puts these parts together; it counts with the cardinality of the
\* instance, which is that of FiniteSets.
LEMMA NewestIs ==
  ASSUME NEW ids, NEW before, NEW limit
  PROVE  History!Newest(ids, before, limit) = Downward(Topmost(Below(ids, before), limit))
BY DEF History!Newest, History!NoId, History!Cardinality, Cardinality, Below, Topmost, Downward

\* The greatest of a set of numbers are given their place by how many are greater.
LEMMA Descending ==
  ASSUME NEW D, D \subseteq Nat, IsFiniteSet(D)
  PROVE  Descends(Downward(D), D, Cardinality(D))
<1> DEFINE list == Downward(D)
<1>1. PICK R : R = {p \in D \X D : p[1] > p[2]}
  OBVIOUS
<1>2. \A i, j \in D : <<i, j>> \in R <=> i > j
  BY <1>1
<1>3. PICK rank : rank = Place(D, R)
  OBVIOUS
<1>4. /\ Cardinality(D) \in Nat
      /\ rank \in [D -> 1 .. Cardinality(D)]
      /\ \A i, j \in D : i > j => rank[i] < rank[j]
      /\ \A i, j \in D : rank[i] < rank[j] => i > j
      /\ \A n \in 1 .. Cardinality(D) : \E i \in D : rank[i] = n
  <2>1. Order(D, R)
    BY <1>2 DEF Order
  <2>2. Ranked(D, R, rank)
    BY <1>3, <2>1, Ranks
  <2>3. QED
    BY <1>2, <2>2 DEF Ranked
<1>5. ASSUME NEW i \in D PROVE Cardinality({j \in D : j >= i}) = rank[i]
  <2>1. PICK above, some : above = Before(D, R, i) /\ some = {j \in D : j >= i}
    OBVIOUS
  <2>2. i \notin above /\ some = above \cup {i}
    <3>1. above \subseteq D /\ \A j \in D : j \in above <=> j > i
      BY <1>2, <2>1 DEF Before
    <3>2. i \notin above /\ \A j \in D : j >= i <=> j \in above \cup {i}
      BY <3>1
    <3>3. QED
      BY <2>1, <3>1, <3>2
  <2>3. above \in SUBSET D
    BY <2>1 DEF Before
  <2>4. IsFiniteSet(above)
    BY <2>3, FS_Subset
  <2>5. Cardinality(above) \in Nat /\ Cardinality(above \cup {i}) = Cardinality(above) + 1
    BY <2>2, <2>4, FS_AddElement, FS_CardinalityType
  <2>6. rank[i] = 1 + Cardinality(above)
    BY <1>3, <2>1 DEF Place
  <2>7. Cardinality(some) = rank[i]
    BY <2>2, <2>5, <2>6
  <2>8. QED
    BY <2>1, <2>7
<1>6. ASSUME NEW k \in 1 .. Cardinality(D)
      PROVE  list[k] \in D /\ rank[list[k]] = k
  <2>1. \E i \in D : Cardinality({j \in D : j >= i}) = k
    BY <1>4, <1>5
  <2>2. list[k] = CHOOSE i \in D : Cardinality({j \in D : j >= i}) = k
    BY DEF Downward
  <2>3. list[k] \in D /\ Cardinality({j \in D : j >= list[k]}) = k
    BY <2>1, <2>2
  <2>4. QED
    BY <1>5, <2>3
<1>7. list \in [1 .. Cardinality(D) -> D]
  BY <1>6 DEF Downward
<1> HIDE DEF list
<1>8. ASSUME NEW i \in D PROVE \E k \in 1 .. Cardinality(D) : list[k] = i
  <2>1. rank[i] \in 1 .. Cardinality(D)
    BY <1>4
  <2>2. list[rank[i]] \in D /\ rank[list[rank[i]]] = rank[i]
    BY <1>6, <2>1
  <2>3. list[rank[i]] = i
    <3>1. \A j \in D : rank[j] \in Int /\ j \in Int
      BY <1>4
    <3>2. ASSUME NEW j \in D, rank[j] = rank[i] PROVE j = i
      BY <1>4, <3>1, <3>2
    <3>3. QED
      BY <2>2, <3>2
  <2>4. QED
    BY <2>1, <2>3
<1>9. \A k, l \in 1 .. Cardinality(D) : k < l => list[k] > list[l]
  <2> SUFFICES ASSUME NEW k \in 1 .. Cardinality(D), NEW l \in 1 .. Cardinality(D), k < l
               PROVE  list[k] > list[l]
    OBVIOUS
  <2>1. rank[list[k]] < rank[list[l]] /\ list[k] \in D /\ list[l] \in D
    BY <1>6
  <2>2. QED
    BY <1>4, <2>1
<1>10. QED
  BY <1>4, <1>7, <1>8, <1>9 DEF Descends, list

\* A finite set of numbers has a least and a greatest.
LEMMA LeastAndGreatest ==
  ASSUME NEW D, D \subseteq Nat, IsFiniteSet(D), D # {}
  PROVE  /\ \E x \in D : \A y \in D : x <= y
         /\ \E x \in D : \A y \in D : y <= x
<1>1. PICK n : n = Cardinality(D)
  OBVIOUS
<1>2. PICK list : list = Downward(D)
  OBVIOUS
<1>3. /\ n \in Nat /\ list \in [1 .. n -> D]
      /\ \A k, l \in 1 .. n : k < l => list[k] > list[l]
      /\ \A i \in D : \E k \in 1 .. n : list[k] = i
  BY <1>1, <1>2, Descending DEF Descends
<1>4. n # 0
  BY <1>1, FS_EmptySet
<1>5. 1 \in 1 .. n /\ n \in 1 .. n
  BY <1>3, <1>4
<1>6. ASSUME NEW y \in D PROVE list[n] <= y /\ y <= list[1]
  <2>1. PICK k \in 1 .. n : list[k] = y
    BY <1>3
  <2>2. list[n] \in Nat /\ list[1] \in Nat /\ y \in Nat
    BY <1>3, <1>5
  <2>3. (k = n \/ list[k] > list[n]) /\ (k = 1 \/ list[1] > list[k])
    BY <1>3, <1>5
  <2>4. QED
    BY <2>1, <2>2, <2>3
<1>7. list[n] \in D /\ list[1] \in D
  BY <1>3, <1>5
<1>8. QED
  BY <1>6, <1>7

\* A query for a page returns one.
LEMMA NewestIsPage ==
  ASSUME NEW ids, ids \subseteq Nat \ {0}, IsFiniteSet(ids),
         NEW before \in Nat, NEW limit \in Nat \ {0}
  PROVE  PageOf(History!Newest(ids, before, limit), ids, before, limit)
<1>1. PICK older : older = Below(ids, before)
  OBVIOUS
<1>2. PICK above : above = [i \in older |-> {j \in older : j > i}]
  OBVIOUS
<1>3. PICK page : page = Topmost(older, limit)
  OBVIOUS
<1>4. PICK list : list = Downward(page)
  OBVIOUS
<1>5. History!Newest(ids, before, limit) = list
  BY <1>1, <1>3, <1>4, NewestIs
<1>6. /\ older \subseteq Nat /\ IsFiniteSet(older)
      /\ page \subseteq older /\ page \subseteq Nat /\ IsFiniteSet(page)
  <2>1. older \in SUBSET ids /\ page \in SUBSET ids /\ page \subseteq older
    BY <1>1, <1>3 DEF Below, Topmost
  <2>2. QED
    BY <2>1, FS_Subset
<1>7. PICK n : n = Cardinality(page)
  OBVIOUS
<1>8. /\ n \in Nat /\ list \in [1 .. n -> page]
      /\ \A k, l \in 1 .. n : k < l => list[k] > list[l]
      /\ \A i \in page : \E k \in 1 .. n : list[k] = i
  BY <1>4, <1>6, <1>7, Descending DEF Descends
<1>9. ASSUME NEW i \in older
      PROVE  /\ above[i] \in SUBSET older /\ IsFiniteSet(above[i])
             /\ Cardinality(above[i]) \in Nat
             /\ i \in page <=> Cardinality(above[i]) < limit
             /\ \A j \in older : j \in above[i] <=> j > i
  <2>1. above[i] \in SUBSET older /\ above[i] = {j \in older : j > i}
    BY <1>2
  <2>2. IsFiniteSet(above[i]) /\ Cardinality(above[i]) \in Nat
    BY <1>6, <2>1, FS_Subset, FS_CardinalityType
  <2>3. QED
    BY <1>3, <2>1, <2>2 DEF Topmost
<1>10. n <= limit
  <2>1. CASE page = {}
    BY <1>7, <2>1, FS_EmptySet
  <2>2. CASE page # {}
    <3>1. PICK m \in page : \A y \in page : m <= y
      BY <1>6, <2>2, LeastAndGreatest
    <3>2. page \ {m} \in SUBSET above[m]
      <4>1. m \in older /\ \A y \in page \ {m} : y \in older /\ y > m
        BY <1>6, <3>1
      <4>2. QED
        BY <1>9, <4>1
    <3>3. Cardinality(page \ {m}) <= Cardinality(above[m]) /\ Cardinality(above[m]) < limit
          /\ Cardinality(above[m]) \in Nat
      <4>1. m \in older
        BY <1>6
      <4>2. QED
        BY <1>9, <3>2, <4>1, FS_Subset
    <3>4. Cardinality(page \ {m}) = n - 1
      BY <1>6, <1>7, FS_RemoveElement
    <3>5. QED
      BY <1>8, <3>3, <3>4
  <2>3. QED
    BY <2>1, <2>2
<1>11. ASSUME NEW i \in older \ page PROVE n = limit /\ \A y \in page : i < y
  <2>1. older \ page \subseteq Nat /\ IsFiniteSet(older \ page)
    BY <1>6, FS_Difference
  <2>2. PICK m \in older \ page : \A y \in older \ page : y <= m
    BY <2>1, LeastAndGreatest
  <2>3. above[m] \in SUBSET page
    <3>1. \A y \in older : y > m => y \in page
      BY <1>6, <2>2
    <3>2. QED
      BY <1>9, <3>1
  <2>4. Cardinality(above[m]) <= n /\ ~(Cardinality(above[m]) < limit)
        /\ Cardinality(above[m]) \in Nat
    BY <1>6, <1>7, <1>9, <2>3, FS_Subset
  <2>5. ASSUME NEW y \in page, ~(i < y) PROVE FALSE
    <3>1. i \in Nat /\ y \in Nat /\ y \in older /\ i # y /\ i > y
      BY <1>6, <2>5
    <3>2. above[i] \in SUBSET above[y]
      <4>1. \A j \in older : j > i => j > y
        BY <1>6, <3>1
      <4>2. QED
        BY <1>9, <3>1, <4>1
    <3>3. Cardinality(above[i]) <= Cardinality(above[y])
      BY <1>9, <3>1, <3>2, FS_Subset
    <3>4. /\ Cardinality(above[y]) < limit /\ ~(Cardinality(above[i]) < limit)
          /\ Cardinality(above[y]) \in Nat /\ Cardinality(above[i]) \in Nat
      BY <1>9, <3>1
    <3>5. QED
      BY <3>3, <3>4
  <2>6. QED
    BY <1>8, <1>10, <2>4, <2>5
<1>12. list \in Seq(Nat \ {0}) /\ Len(list) = n /\ DOMAIN list = 1 .. n
  <2>1. page \subseteq Nat \ {0}
    BY <1>1, <1>6 DEF Below
  <2>2. \A k \in 1 .. n : list[k] \in Nat \ {0}
    BY <1>8, <2>1
  <2>3. list = [k \in 1 .. n |-> list[k]] /\ DOMAIN list = 1 .. n
    BY <1>8
  <2>4. QED
    BY <1>8, <2>2, <2>3
<1>13. \A i \in DOMAIN list : list[i] \in ids /\ (before # 0 => list[i] < before)
  BY <1>1, <1>6, <1>8, <1>12 DEF Below
<1>14. ASSUME NEW x \in ids, before = 0 \/ x < before
       PROVE  \/ \E i \in DOMAIN list : list[i] = x
              \/ Len(list) = limit /\ \A i \in DOMAIN list : x < list[i]
  <2>1. x \in older
    BY <1>1, <1>14 DEF Below
  <2>2. CASE x \in page
    BY <1>8, <1>12, <2>2
  <2>3. CASE x \notin page
    BY <1>8, <1>11, <1>12, <2>1, <2>3
  <2>4. QED
    BY <2>2, <2>3
<1>15. PageOf(list, ids, before, limit)
  BY <1>8, <1>10, <1>12, <1>13, <1>14 DEF PageOf
<1>16. QED
  BY <1>5, <1>15

-----------------------------------------------------------------------------
\* Who played with which frames: everybody once.
Frames == [decodes : BOOLEAN, passed : BOOLEAN, metric : Int]
LineUp(fs) ==
  /\ \E k \in Nat : DOMAIN fs \subseteq 1 .. k
  /\ \A i \in DOMAIN fs : fs[i].f \in Frames
  /\ \A i, j \in DOMAIN fs : fs[i].u = fs[j].u => i = j

\* A scoreboard of the players ps: a place for each, and only theirs.
Board(S, ps) ==
  /\ Cardinality(S) \in Nat
  /\ \A p \in 1 .. Cardinality(S) : \E s \in S : s.placement = p
  /\ \A r, s \in S : r.placement < s.placement =>
       r.user # s.user /\ (s.passed => r.passed)
  /\ \A s \in S : \E i \in DOMAIN ps : ps[i].u = s.user

\* The row m is about the lobby n.
RowOf(m, n) == m \in DOMAIN h_rows /\ h_rows[m].origin = n

\* A task and what it knows: the row it is about is that of its lobby, the id it
\* is about to commit is its own, and the game it writes scores of is there.
RecordTasks(players, nth) == [op : {"create", "game", "disband"}, n : History!Nums, db : Nat,
                               players : {players}, nth : {nth},
                               pc : {"insert", "commit", "stash", "scores"}]
TaskRight(t) ==
  /\ t \in RecordTasks(t.players, t.nth) /\ h_live[t.n].host # Anonymous
  /\ \/ t.op = "create" /\ t.pc = "insert"
     \/ t.op = "create" /\ t.pc = "commit" /\ t.db \in 1 .. h_nextId - 1
                        /\ t.db \notin DOMAIN h_rows
     \/ t.op = "create" /\ t.pc = "stash" /\ RowOf(t.db, t.n)
     \/ t.op = "game" /\ t.pc = "insert" /\ RowOf(t.db, t.n) /\ LineUp(t.players)
     \/ t.op = "game" /\ t.pc = "scores" /\ t.db \in DOMAIN h_games /\ LineUp(t.players)
        /\ \A i \in DOMAIN t.players :
             /\ i \in DOMAIN h_games[t.db].participants
             /\ h_games[t.db].participants[i] = t.players[i]
     \/ t.op = "disband" /\ t.pc = "insert" /\ RowOf(t.db, t.n) /\ ~h_live[t.n].open

\* A lobby knows no row but its own; a row says of its lobby what the lobby says;
\* each task is right and each game has the row of its lobby and a scoreboard.
LivesRight ==
  /\ h_live = [n \in History!Nums |-> h_live[n]]
  /\ \A n \in History!Nums :
       /\ h_live[n] \in [open : BOOLEAN, host : Hosts \cup {Anonymous}, public : BOOLEAN,
                         db_id : Nat]
       /\ h_live[n].open => h_live[n].host # Anonymous
       /\ h_live[n].db_id # 0 => RowOf(h_live[n].db_id, n)
RowsRight ==
  /\ h_nextId \in Nat \ {0}
  /\ \A m \in DOMAIN h_rows :
       /\ m \in 1 .. h_nextId - 1
       /\ h_rows[m] \in [host : Hosts, public : BOOLEAN, disbanded : BOOLEAN,
                         origin : History!Nums]
       /\ h_live[h_rows[m].origin].host = h_rows[m].host
       /\ h_live[h_rows[m].origin].public = h_rows[m].public
       /\ h_rows[m].disbanded => ~h_live[h_rows[m].origin].open
TasksRight ==
  /\ \A t \in h_tasks : TaskRight(t)
  /\ \A s, t \in h_tasks : s.pc = "commit" /\ t.pc = "commit" /\ s.db = t.db => s = t
GamesRight ==
  /\ \E k \in Nat : DOMAIN h_games = 1 .. k
  /\ DOMAIN h_scores = DOMAIN h_games
  /\ \A g \in DOMAIN h_games :
       /\ RowOf(h_games[g].match, h_games[g].origin)
       /\ LineUp(h_games[g].participants)
       /\ Board(h_scores[g], h_games[g].participants)

RecordInv == LivesRight /\ RowsRight /\ TasksRight /\ GamesRight

\* What every step but a scroll's does: rows and games are added and say the
\* same of their lobby, a lobby is opened once and for all.
Grows ==
  /\ h_nextId' \in Nat /\ h_nextId <= h_nextId'
  /\ \A m \in DOMAIN h_rows :
       /\ m \in DOMAIN h_rows' /\ h_rows'[m].origin = h_rows[m].origin
       /\ h_rows'[m].host = h_rows[m].host /\ h_rows'[m].public = h_rows[m].public
  /\ \A n \in History!Nums : h_live[n].host # Anonymous =>
       /\ h_live'[n].host = h_live[n].host /\ h_live'[n].public = h_live[n].public
       /\ h_live'[n].open => h_live[n].open
  /\ \A g \in DOMAIN h_games : g \in DOMAIN h_games' /\ h_games'[g] = h_games[g]

\* A step that writes none of this grows nothing.
LEMMA NothingGrows ==
  ASSUME RecordInv, UNCHANGED <<h_live, h_rows, h_games, h_nextId>>
  PROVE  Grows
<1>1. h_nextId \in Int /\ h_nextId \in Nat
  BY DEF RecordInv, RowsRight
<1>2. h_nextId' \in Nat /\ h_nextId <= h_nextId'
  BY <1>1
<1>3. QED
  BY <1>2 DEF Grows

\* What a row is about does not change.
LEMMA RowStays ==
  ASSUME Grows, NEW m, NEW n, RowOf(m, n) PROVE RowOf(m, n)'
BY DEF Grows, RowOf

\* A task remains right while others write; the row it is about to commit is
\* nobody else's.
LEMMA TaskStays ==
  ASSUME RecordInv, Grows, NEW t, TaskRight(t), t.pc = "commit" => t.db \notin DOMAIN h_rows',
         h_live' = [n \in History!Nums |-> h_live'[n]],
         \A n \in History!Nums : h_live'[n].open \in BOOLEAN
  PROVE  TaskRight(t)'
<1>1. t.n \in History!Nums /\ h_live'[t.n].host # Anonymous
      /\ (h_live'[t.n].open => h_live[t.n].open)
  BY DEF TaskRight, RecordTasks, Grows
<1>2. RowOf(t.db, t.n) => RowOf(t.db, t.n)'
  BY RowStays
<1>3. h_nextId \in Int /\ h_nextId' \in Int /\ h_nextId <= h_nextId'
  BY DEF RecordInv, RowsRight, Grows
<1>4. t.db \in 1 .. h_nextId - 1 => t.db \in 1 .. h_nextId' - 1
  BY <1>3
<1>5. t.db \in DOMAIN h_games => t.db \in DOMAIN h_games' /\ h_games'[t.db] = h_games[t.db]
  BY DEF Grows
<1>6. QED
  BY <1>1, <1>2, <1>4, <1>5 DEF TaskRight

\* A lobby that changes changes nothing that rows and games say.
LEMMA RowsAndGamesStay ==
  ASSUME RecordInv, Grows, LivesRight', h_rows' = h_rows, h_nextId' = h_nextId,
         h_games' = h_games, h_scores' = h_scores
  PROVE  RowsRight' /\ GamesRight'
<1>1. ASSUME NEW m \in DOMAIN h_rows
      PROVE  /\ m \in 1 .. h_nextId - 1
             /\ h_rows[m] \in [host : Hosts, public : BOOLEAN, disbanded : BOOLEAN,
                               origin : History!Nums]
             /\ h_live'[h_rows[m].origin].host = h_rows[m].host
             /\ h_live'[h_rows[m].origin].public = h_rows[m].public
             /\ h_rows[m].disbanded => ~h_live'[h_rows[m].origin].open
  <2>1. PICK n \in History!Nums : n = h_rows[m].origin
    BY DEF RecordInv, RowsRight
  <2>2. /\ m \in 1 .. h_nextId - 1
        /\ h_rows[m] \in [host : Hosts, public : BOOLEAN, disbanded : BOOLEAN,
                               origin : History!Nums]
        /\ h_live[n].host = h_rows[m].host /\ h_live[n].public = h_rows[m].public
        /\ h_rows[m].disbanded => ~h_live[n].open
    BY <2>1 DEF RecordInv, RowsRight
  <2>3. h_live[n].host # Anonymous
    BY <2>2, RecordAssumption
  <2>4. /\ h_live'[n].host = h_live[n].host /\ h_live'[n].public = h_live[n].public
        /\ h_live'[n].open => h_live[n].open
    BY <2>3 DEF Grows
  <2>5. QED
    BY <2>1, <2>2, <2>4
<1>2. RowsRight'
  BY <1>1 DEF RecordInv, RowsRight
<1>3. GamesRight'
  BY DEF RecordInv, GamesRight, RowOf
<1>4. QED
  BY <1>2, <1>3

\* The rows of tasks about to commit are not there yet.
Uncommitted == \A t \in h_tasks' : t \in h_tasks /\ t.pc = "commit" => t.db \notin DOMAIN h_rows'

\* A step that ends tasks and perhaps adds one.
LEMMA TasksStay ==
  ASSUME RecordInv, Grows, LivesRight', Uncommitted, NEW job,
         h_tasks' \subseteq h_tasks \cup {job},
         job \in h_tasks' => TaskRight(job)' /\ job.pc # "commit"
  PROVE  TasksRight'
<1>1. ASSUME NEW t \in h_tasks' PROVE TaskRight(t)'
  <2>1. CASE t = job
    BY <2>1
  <2>2. CASE t \in h_tasks
    <3>1. TaskRight(t) /\ (t.pc = "commit" => t.db \notin DOMAIN h_rows')
      BY <2>2 DEF RecordInv, TasksRight, Uncommitted
    <3>2. /\ h_live' = [n \in History!Nums |-> h_live'[n]]
          /\ \A n \in History!Nums : h_live'[n].open \in BOOLEAN
      BY DEF LivesRight
    <3>3. QED
      BY <3>1, <3>2, TaskStays
  <2>3. QED
    BY <2>1, <2>2
<1>2. ASSUME NEW s \in h_tasks', NEW t \in h_tasks', s.pc = "commit", t.pc = "commit", s.db = t.db
      PROVE  s = t
  <2>1. s \in h_tasks /\ t \in h_tasks
    BY <1>2
  <2>2. QED
    BY <1>2, <2>1 DEF RecordInv, TasksRight
<1>3. QED
  BY <1>1, <1>2 DEF TasksRight

-----------------------------------------------------------------------------
\* MatchCreate takes a number that no lobby has had.
LEMMA CreateKeeps ==
  ASSUME RecordInv, NEW n \in History!Nums, NEW host \in Hosts, NEW public \in BOOLEAN,
         History!MatchCreate(n, host, public)
  PROVE  RecordInv' /\ Grows
<1>1. h_live[n].host = Anonymous
  <2>1. \A k \in History!Nums : h_live[k].host = Anonymous <=> k >= n
    BY DEF History!MatchCreate
  <2>2. n >= n
    BY DEF History!Nums
  <2>3. QED
    BY <2>1, <2>2
<1>2. PICK new : new = [open |-> TRUE, host |-> host, public |-> public, db_id |-> 0]
  OBVIOUS
<1>3. PICK job : job = [op |-> "create", n |-> n, db |-> 0, players |-> <<>>, nth |-> 0,
                        pc |-> "insert"]
  OBVIOUS
<1>4. /\ h_live' = [h_live EXCEPT ![n] = new] /\ h_tasks' = h_tasks \cup {job}
      /\ h_rows' = h_rows /\ h_games' = h_games /\ h_scores' = h_scores
      /\ h_nextId' = h_nextId
  BY <1>2, <1>3 DEF History!MatchCreate, History!Spawn, History!Task, History!NoId
<1>5. host # Anonymous
  BY RecordAssumption
<1>6. Grows
  BY <1>1, <1>4 DEF Grows, RecordInv, RowsRight, LivesRight
<1>7. LivesRight'
  BY <1>2, <1>4, <1>5 DEF RecordInv, LivesRight, RowOf
<1>8. RowsRight' /\ GamesRight'
  BY <1>4, <1>6, <1>7, RowsAndGamesStay
<1>9. TaskRight(job)'
  BY <1>2, <1>3, <1>4, <1>5 DEF TaskRight, RecordTasks, RecordInv, LivesRight
<1>10. TasksRight'
  <2>1. job.pc # "commit"
    BY <1>3
  <2>2. Uncommitted
    BY <1>4 DEF RecordInv, TasksRight, TaskRight, Uncommitted
  <2>3. QED
    BY <1>4, <1>6, <1>7, <1>9, <2>1, <2>2, TasksStay
<1>11. QED
  BY <1>6, <1>7, <1>8, <1>10 DEF RecordInv

\* create_match: the id of the row is one that nothing has.
LEMMA InsertKeeps ==
  ASSUME RecordInv, NEW t \in h_tasks, History!create_match(t)
  PROVE  RecordInv' /\ Grows
<1>1. TaskRight(t) /\ t.op = "create" /\ t.pc = "insert"
  BY DEF RecordInv, TasksRight, History!create_match
<1>2. PICK job : job = [t EXCEPT !.pc = "commit", !.db = h_nextId]
  OBVIOUS
<1>3. /\ job \in RecordTasks(job.players, job.nth) /\ job.n = t.n
      /\ job.op = "create" /\ job.pc = "commit" /\ job.db = h_nextId
  <2>1. t \in RecordTasks(t.players, t.nth) /\ h_nextId \in Nat
    BY <1>1 DEF TaskRight, RecordInv, RowsRight
  <2>2. job \in RecordTasks(t.players, t.nth)
    BY <1>2, <2>1 DEF RecordTasks
  <2>3. job.players = t.players /\ job.nth = t.nth
    BY <2>2 DEF RecordTasks
  <2>4. QED
    BY <1>1, <1>2, <2>1, <2>2, <2>3 DEF RecordTasks
<1>4. /\ h_live' = h_live /\ h_tasks' = (h_tasks \ {t}) \cup {job}
      /\ h_rows' = h_rows /\ h_games' = h_games /\ h_scores' = h_scores
      /\ h_nextId' = h_nextId + 1
  BY <1>2 DEF History!create_match
<1>5. h_nextId \in Nat \ {0}
  BY DEF RecordInv, RowsRight
<1>6. Grows
  BY <1>4, <1>5 DEF Grows
<1>7. LivesRight' /\ GamesRight'
  BY <1>4 DEF RecordInv, LivesRight, GamesRight, RowOf
<1>8. RowsRight'
  <2>1. \A m \in DOMAIN h_rows : m \in 1 .. h_nextId - 1 => m \in 1 .. h_nextId' - 1
    BY <1>4, <1>5
  <2>2. QED
    BY <1>4, <1>5, <2>1 DEF RecordInv, RowsRight
<1>9. TaskRight(job)'
  <2>1. h_nextId \in 1 .. h_nextId' - 1 /\ h_nextId \notin DOMAIN h_rows
    BY <1>4, <1>5 DEF RecordInv, RowsRight
  <2>2. QED
    BY <1>1, <1>3, <1>4, <2>1 DEF TaskRight
<1>10. ASSUME NEW s \in h_tasks PROVE TaskRight(s)' /\ (s.pc = "commit" => s.db # h_nextId)
  <2>1. TaskRight(s)
    BY DEF RecordInv, TasksRight
  <2>2. s.pc = "commit" => s.db \notin DOMAIN h_rows'
    BY <1>4, <2>1 DEF TaskRight
  <2>3. TaskRight(s)'
    BY <1>6, <1>7, <2>1, <2>2, TaskStays DEF LivesRight
  <2>4. s.pc = "commit" => s.db # h_nextId
    BY <1>5, <2>1 DEF TaskRight
  <2>5. QED
    BY <2>3, <2>4
<1>11. TasksRight'
  <2>1. \A s \in h_tasks' : TaskRight(s)'
    BY <1>4, <1>9, <1>10
  <2>2. job.db = h_nextId
    BY <1>3
  <2>3. \A r, s \in h_tasks' : r.pc = "commit" /\ s.pc = "commit" /\ r.db = s.db => r = s
    BY <1>4, <1>10, <2>2 DEF RecordInv, TasksRight
  <2>4. QED
    BY <2>1, <2>3 DEF TasksRight
<1>12. QED
  BY <1>6, <1>7, <1>8, <1>11 DEF RecordInv

\* The row is there, and says of its lobby what the lobby says.
LEMMA CommitKeeps ==
  ASSUME RecordInv, NEW t \in h_tasks, History!create_match_commits(t)
  PROVE  RecordInv' /\ Grows
<1>1. /\ TaskRight(t) /\ t.op = "create" /\ t.pc = "commit" /\ t.n \in History!Nums
      /\ h_live[t.n].host # Anonymous /\ t.db \in 1 .. h_nextId - 1
      /\ t.db \notin DOMAIN h_rows
  BY DEF RecordInv, TasksRight, History!create_match_commits, TaskRight, RecordTasks
<1>2. PICK job : job = [t EXCEPT !.pc = "stash"]
  OBVIOUS
<1>3. /\ job \in RecordTasks(job.players, job.nth) /\ job.n = t.n
      /\ job.op = "create" /\ job.pc = "stash" /\ job.db = t.db
  <2>1. t \in RecordTasks(t.players, t.nth)
    BY <1>1 DEF TaskRight
  <2>2. job \in RecordTasks(t.players, t.nth)
    BY <1>2, <2>1 DEF RecordTasks
  <2>3. job.players = t.players /\ job.nth = t.nth
    BY <2>2 DEF RecordTasks
  <2>4. QED
    BY <1>1, <1>2, <2>1, <2>2, <2>3 DEF RecordTasks
<1>4. PICK row : row = [host |-> h_live[t.n].host, public |-> h_live[t.n].public,
                        disbanded |-> FALSE, origin |-> t.n]
  OBVIOUS
<1>5. /\ h_live' = h_live /\ h_tasks' = (h_tasks \ {t}) \cup {job}
      /\ h_games' = h_games /\ h_scores' = h_scores /\ h_nextId' = h_nextId
      /\ h_rows' = [m \in DOMAIN h_rows \cup {t.db} |-> IF m = t.db THEN row ELSE h_rows[m]]
  BY <1>2, <1>4 DEF History!create_match_commits, History!MpMatch
<1>6. DOMAIN h_rows' = DOMAIN h_rows \cup {t.db} /\ h_rows'[t.db] = row
      /\ \A m \in DOMAIN h_rows : h_rows'[m] = h_rows[m]
  BY <1>1, <1>5
<1>7. Grows
  BY <1>5, <1>6 DEF Grows, RecordInv, RowsRight
<1>8. LivesRight'
  BY <1>5, <1>6 DEF RecordInv, LivesRight, RowOf
<1>9. row \in [host : Hosts, public : BOOLEAN, disbanded : BOOLEAN, origin : History!Nums]
  BY <1>1, <1>4 DEF RecordInv, LivesRight
<1>10. RowsRight'
  <2>1. ASSUME NEW m \in DOMAIN h_rows'
        PROVE  /\ m \in 1 .. h_nextId - 1
               /\ h_rows'[m] \in [host : Hosts, public : BOOLEAN, disbanded : BOOLEAN,
                                 origin : History!Nums]
               /\ h_live[h_rows'[m].origin].host = h_rows'[m].host
               /\ h_live[h_rows'[m].origin].public = h_rows'[m].public
               /\ h_rows'[m].disbanded => ~h_live[h_rows'[m].origin].open
    <3>1. CASE m = t.db
      <4>1. m \in 1 .. h_nextId - 1 /\ h_rows'[m] = row
        BY <1>1, <1>6, <3>1
      <4>2. /\ h_live[row.origin].host = row.host /\ ~row.disbanded
            /\ h_live[row.origin].public = row.public
        BY <1>4
      <4>3. QED
        BY <1>9, <4>1, <4>2
    <3>2. CASE m \in DOMAIN h_rows
      <4>1. PICK old : old = h_rows[m]
        OBVIOUS
      <4>2. /\ m \in 1 .. h_nextId - 1
            /\ old \in [host : Hosts, public : BOOLEAN, disbanded : BOOLEAN,
                       origin : History!Nums]
            /\ h_live[old.origin].host = old.host /\ h_live[old.origin].public = old.public
            /\ old.disbanded => ~h_live[old.origin].open
        BY <3>2, <4>1 DEF RecordInv, RowsRight
      <4>3. h_rows'[m] = old
        BY <1>6, <3>2, <4>1
      <4>4. QED
        BY <4>2, <4>3
    <3>3. QED
      BY <1>6, <3>1, <3>2
  <2>2. h_nextId' \in Nat \ {0} /\ h_nextId' = h_nextId /\ h_live' = h_live
    BY <1>5 DEF RecordInv, RowsRight
  <2>3. QED
    BY <2>1, <2>2 DEF RowsRight
<1>11. GamesRight'
  BY <1>5, <1>6 DEF RecordInv, GamesRight, RowOf
<1>12. TaskRight(job)'
  <2>1. RowOf(t.db, t.n)'
    BY <1>4, <1>6 DEF RowOf
  <2>2. QED
    BY <1>1, <1>3, <1>5, <2>1 DEF TaskRight
<1>13. TasksRight'
  <2>1. \A s \in h_tasks \ {t} : s.pc = "commit" => s.db # t.db
    BY <1>1 DEF RecordInv, TasksRight
  <2>2. \A s \in h_tasks : s.pc = "commit" => s.db \notin DOMAIN h_rows
    BY DEF RecordInv, TasksRight, TaskRight
  <2>3. t \notin h_tasks'
    BY <1>1, <1>3, <1>5
  <2>4. Uncommitted
    BY <1>6, <2>1, <2>2, <2>3 DEF Uncommitted
  <2>5. job.pc # "commit"
    BY <1>3
  <2>6. QED
    BY <1>5, <1>7, <1>8, <1>12, <2>4, <2>5, TasksStay
<1>14. QED
  BY <1>7, <1>8, <1>10, <1>11, <1>13 DEF RecordInv

\* persist_match_created: the live match learns the id of its own row.
LEMMA StashKeeps ==
  ASSUME RecordInv, NEW t \in h_tasks, History!persist_match_created(t)
  PROVE  RecordInv' /\ Grows
<1>1. /\ TaskRight(t) /\ t.n \in History!Nums /\ RowOf(t.db, t.n)
  BY DEF RecordInv, TasksRight, History!persist_match_created, TaskRight, RecordTasks
<1>2. PICK new : new = [h_live[t.n] EXCEPT !.db_id = t.db]
  OBVIOUS
<1>3. /\ h_live' = [h_live EXCEPT ![t.n] = new] /\ h_tasks' = h_tasks \ {t}
      /\ h_rows' = h_rows /\ h_games' = h_games /\ h_scores' = h_scores
      /\ h_nextId' = h_nextId
  BY <1>2 DEF History!persist_match_created, History!stash_db_id
<1>4. t.db \in Nat
  BY <1>1 DEF RecordInv, RowsRight, RowOf
<1>5. h_live[t.n] \in [open : BOOLEAN, host : Hosts \cup {Anonymous}, public : BOOLEAN,
                       db_id : Nat]
  BY <1>1 DEF RecordInv, LivesRight
<1>6. /\ new \in [open : BOOLEAN, host : Hosts \cup {Anonymous}, public : BOOLEAN, db_id : Nat]
      /\ new.host = h_live[t.n].host /\ new.public = h_live[t.n].public
      /\ new.open = h_live[t.n].open /\ new.db_id = t.db
  BY <1>2, <1>4, <1>5
<1>7. Grows
  BY <1>1, <1>3, <1>6 DEF Grows, RecordInv, RowsRight, LivesRight
<1>8. LivesRight'
  BY <1>1, <1>3, <1>6 DEF RecordInv, LivesRight, RowOf
<1>9. RowsRight' /\ GamesRight'
  BY <1>3, <1>7, <1>8, RowsAndGamesStay
<1>10. TasksRight'
  <2>1. Uncommitted
    BY <1>3 DEF RecordInv, TasksRight, TaskRight, Uncommitted
  <2>2. h_tasks' \subseteq h_tasks \cup {t} /\ t \notin h_tasks'
    BY <1>3
  <2>3. QED
    BY <1>7, <1>8, <2>1, <2>2, TasksStay
<1>11. QED
  BY <1>7, <1>8, <1>9, <1>10 DEF RecordInv

\* MatchComplete spawns a task about the row the match knows, if it knows one.
LEMMA CompleteFiles ==
  ASSUME RecordInv, NEW n \in History!Nums, NEW fs \in Lineups, History!MatchComplete(n, fs)
  PROVE  RecordInv' /\ Grows
<1> PICK db : db = h_live[n].db_id
  OBVIOUS
<1>1. PICK job : job = [History!Task("game", n, db) EXCEPT !.players = fs, !.nth = h_played]
  OBVIOUS
<1>2. \/ db = 0 /\ h_tasks' = h_tasks
      \/ db # 0 /\ h_tasks' = h_tasks \cup {job}
  BY <1>1 DEF History!MatchComplete, History!Spawn, History!NoId
<1>3. /\ h_live' = h_live
      /\ h_rows' = h_rows /\ h_games' = h_games /\ h_scores' = h_scores
      /\ h_nextId' = h_nextId /\ h_live[n].open
  BY DEF History!MatchComplete
<1>4. Grows
  BY <1>3, NothingGrows
<1>5. LivesRight'
  BY <1>3 DEF RecordInv, LivesRight, RowOf
<1>6. RowsRight' /\ GamesRight'
  BY <1>3, <1>4, <1>5, RowsAndGamesStay
<1>7. LineUp(fs)
  BY RecordAssumption DEF LineUp, Frames
<1>8. /\ job \in RecordTasks(job.players, job.nth) /\ job.n = n /\ job.players = fs
      /\ job.op = "game" /\ job.pc = "insert" /\ job.db = db
  <2>1. PICK spawned : spawned = History!Task("game", n, db)
    OBVIOUS
  <2>2. spawned \in RecordTasks(<<>>, 0) /\ spawned.op = "game" /\ spawned.n = n
        /\ spawned.db = db /\ spawned.pc = "insert"
    BY <2>1 DEF History!Task, RecordTasks, RecordInv, LivesRight
  <2>3. job = [spawned EXCEPT !.players = fs, !.nth = h_played]
    BY <1>1, <2>1
  <2>4. job \in RecordTasks(fs, h_played)
    BY <2>2, <2>3 DEF RecordTasks
  <2>5. job.players = fs /\ job.nth = h_played
    BY <2>4 DEF RecordTasks
  <2>6. QED
    BY <2>2, <2>3, <2>4, <2>5 DEF RecordTasks
<1>9. db # 0 => TaskRight(job)'
  <2>1. db # 0 => RowOf(db, n)'
    BY <1>3 DEF RecordInv, LivesRight, RowOf
  <2>2. h_live[n].host # Anonymous /\ db \in Nat
    BY <1>3 DEF RecordInv, LivesRight
  <2>3. QED
    BY <1>3, <1>7, <1>8, <2>1, <2>2 DEF TaskRight
<1>10. TasksRight'
  <2>1. Uncommitted
    BY <1>3 DEF RecordInv, TasksRight, TaskRight, Uncommitted
  <2>2. h_tasks' \subseteq h_tasks \cup {job} /\ job.pc # "commit"
    BY <1>2, <1>8
  <2>3. job \in h_tasks' => TaskRight(job)'
    <3>1. CASE db # 0
      BY <1>9, <3>1
    <3>2. CASE job \in h_tasks
      <4>1. TaskRight(job)
        BY <3>2 DEF RecordInv, TasksRight
      <4>2. QED
        BY <1>3, <1>4, <1>5, <2>2, <4>1, TaskStays DEF LivesRight
    <3>3. QED
      BY <1>2, <3>1, <3>2
  <2>4. QED
    BY <1>4, <1>5, <2>1, <2>2, <2>3, TasksStay
<1>11. QED
  BY <1>4, <1>5, <1>6, <1>10 DEF RecordInv

\* So does leave_match; a lobby that everybody has left stays closed.
LEMMA LeaveFiles ==
  ASSUME RecordInv, NEW n \in History!Nums, History!LeaveMatch(n)
  PROVE  RecordInv' /\ Grows
<1> PICK db : db = h_live[n].db_id
  OBVIOUS
<1>1. PICK job : job = [op |-> "disband", n |-> n, db |-> db, players |-> <<>>,
                        nth |-> 0, pc |-> "insert"]
  OBVIOUS
<1>2. \/ db = 0 /\ h_tasks' = h_tasks
      \/ db # 0 /\ h_tasks' = h_tasks \cup {job}
  BY <1>1 DEF History!LeaveMatch, History!Spawn, History!Task, History!NoId
<1>3. PICK new : new = [h_live[n] EXCEPT !.open = FALSE]
  OBVIOUS
<1>4. /\ h_live' = [h_live EXCEPT ![n] = new]
      /\ h_rows' = h_rows /\ h_games' = h_games /\ h_scores' = h_scores
      /\ h_nextId' = h_nextId /\ h_live[n].open
  BY <1>3 DEF History!LeaveMatch
<1>5. h_live[n] \in [open : BOOLEAN, host : Hosts \cup {Anonymous}, public : BOOLEAN,
                     db_id : Nat]
  BY DEF RecordInv, LivesRight
<1>6. /\ new \in [open : BOOLEAN, host : Hosts \cup {Anonymous}, public : BOOLEAN, db_id : Nat]
      /\ new.host = h_live[n].host /\ new.public = h_live[n].public
      /\ new.open = FALSE /\ new.db_id = h_live[n].db_id
  BY <1>3, <1>5
<1>7. Grows
  BY <1>4, <1>6 DEF Grows, RecordInv, RowsRight, LivesRight
<1>8. LivesRight'
  BY <1>4, <1>6 DEF RecordInv, LivesRight, RowOf
<1>9. RowsRight' /\ GamesRight'
  BY <1>4, <1>7, <1>8, RowsAndGamesStay
<1>10. db # 0 => TaskRight(job)'
  <2>1. db # 0 => RowOf(db, n)'
    BY <1>4 DEF RecordInv, LivesRight, RowOf
  <2>2. h_live'[n] = new /\ new.host # Anonymous /\ db \in Nat
    BY <1>4, <1>6 DEF RecordInv, LivesRight
  <2>3. QED
    BY <1>1, <1>6, <2>1, <2>2 DEF TaskRight, RecordTasks
<1>11. TasksRight'
  <2>1. Uncommitted
    BY <1>4 DEF RecordInv, TasksRight, TaskRight, Uncommitted
  <2>2. h_tasks' \subseteq h_tasks \cup {job} /\ job.pc # "commit"
    BY <1>1, <1>2
  <2>3. job \in h_tasks' => TaskRight(job)'
    <3>1. CASE db # 0
      BY <1>10, <3>1
    <3>2. CASE job \in h_tasks
      <4>1. TaskRight(job)
        BY <3>2 DEF RecordInv, TasksRight
      <4>2. QED
        BY <1>7, <1>8, <2>2, <4>1, TaskStays DEF LivesRight
    <3>3. QED
      BY <1>2, <3>1, <3>2
  <2>4. QED
    BY <1>7, <1>8, <2>1, <2>2, <2>3, TasksStay
<1>12. QED
  BY <1>7, <1>8, <1>9, <1>11 DEF RecordInv

-----------------------------------------------------------------------------
\* Who is above whom: Above of the instance.
Beats(a, b) == \/ a.passed /\ ~b.passed
               \/ a.passed = b.passed /\ a.metric > b.metric

\* _ranked_scores counts, for each, those who are before it.
LEMMA RankedIs ==
  ASSUME NEW fs
  PROVE  History!_ranked_scores(fs) =
           [i \in DOMAIN fs |->
              1 + Cardinality({j \in DOMAIN fs : Beats(fs[j].f, fs[i].f)
                                                 \/ (j < i /\ ~Beats(fs[i].f, fs[j].f))})]
BY DEF History!_ranked_scores, History!Above, Beats, History!Cardinality, Cardinality

\* _ranked_scores gives the places of a strict order: whoever passed first, then
\* by the metric, then as they came in.
LEMMA PlacesAreRanks ==
  ASSUME NEW fs, LineUp(fs)
  PROVE  /\ IsFiniteSet(DOMAIN fs)
         /\ \E R : /\ Ranked(DOMAIN fs, R, History!_ranked_scores(fs))
                   /\ \A i, j \in DOMAIN fs : <<i, j>> \in R =>
                        i # j /\ (fs[j].f.passed => fs[i].f.passed)
<1>1. PICK D : D = DOMAIN fs
  OBVIOUS
<1>2. PICK R : R = {p \in D \X D : Beats(fs[p[1]].f, fs[p[2]].f)
                                   \/ (p[1] < p[2] /\ ~Beats(fs[p[2]].f, fs[p[1]].f))}
  OBVIOUS
<1>3. \A i, j \in D : <<i, j>> \in R <=> Beats(fs[i].f, fs[j].f)
                                        \/ (i < j /\ ~Beats(fs[j].f, fs[i].f))
  BY <1>2
<1>4. /\ IsFiniteSet(D) /\ \A i \in D : i \in Int
      /\ \A i \in D : fs[i].f.passed \in BOOLEAN /\ fs[i].f.metric \in Int
  <2>1. PICK k \in Nat : D \in SUBSET (1 .. k)
    BY <1>1 DEF LineUp
  <2>2. IsFiniteSet(1 .. k)
    BY FS_Interval
  <2>3. \A i \in D : fs[i].f \in Frames
    BY <1>1 DEF LineUp
  <2>4. QED
    BY <2>1, <2>2, <2>3, FS_Subset DEF Frames
<1>5. Order(D, R)
  <2>1. \A i \in D : <<i, i>> \notin R
    BY <1>3, <1>4 DEF Beats
  <2>2. \A i, j \in D : i # j => <<i, j>> \in R \/ <<j, i>> \in R
    BY <1>3, <1>4 DEF Beats
  <2>3. \A i, j, k \in D : <<i, j>> \in R /\ <<j, k>> \in R => <<i, k>> \in R
    <3> SUFFICES ASSUME NEW i \in D, NEW j \in D, NEW k \in D,
                        <<i, j>> \in R, <<j, k>> \in R
                 PROVE  <<i, k>> \in R
      OBVIOUS
    <3>1. PICK a, b, c, x, y, z :
            /\ a = fs[i].f.passed /\ b = fs[j].f.passed /\ c = fs[k].f.passed
            /\ x = fs[i].f.metric /\ y = fs[j].f.metric /\ z = fs[k].f.metric
      OBVIOUS
    <3>2. /\ a \in BOOLEAN /\ b \in BOOLEAN /\ c \in BOOLEAN
          /\ x \in Int /\ y \in Int /\ z \in Int /\ i \in Int /\ j \in Int /\ k \in Int
      BY <1>4, <3>1
    <3>3. /\ (a /\ ~b) \/ (a = b /\ (x > y \/ (i < j /\ ~(y > x))))
          /\ (b /\ ~c) \/ (b = c /\ (y > z \/ (j < k /\ ~(z > y))))
      BY <1>3, <3>1, <3>2 DEF Beats
    <3>4. (a /\ ~c) \/ (a = c /\ (x > z \/ (i < k /\ ~(z > x))))
      BY <3>2, <3>3
    <3>5. QED
      BY <1>3, <3>1, <3>2, <3>4 DEF Beats
  <2>4. QED
    BY <2>1, <2>2, <2>3 DEF Order
<1>6. History!_ranked_scores(fs) = Place(D, R)
  <2>1. ASSUME NEW i \in D
        PROVE  Before(D, R, i) = {j \in DOMAIN fs : Beats(fs[j].f, fs[i].f)
                                                 \/ (j < i /\ ~Beats(fs[i].f, fs[j].f))}
    BY <1>1, <1>3 DEF Before
  <2>2. QED
    BY <1>1, <2>1, RankedIs DEF Place
<1>7. Ranked(D, R, History!_ranked_scores(fs))
  BY <1>4, <1>5, <1>6, Ranks
<1>8. \A i, j \in D : <<i, j>> \in R => i # j /\ (fs[j].f.passed => fs[i].f.passed)
  <2>1. \A i, j \in D : <<i, j>> \in R => i # j
    BY <1>5 DEF Order
  <2>2. \A i, j \in D : <<i, j>> \in R => (fs[j].f.passed => fs[i].f.passed)
    BY <1>3, <1>4 DEF Beats
  <2>3. QED
    BY <2>1, <2>2
<1>9. QED
  BY <1>1, <1>4, <1>7, <1>8

\* What record_game_scores writes is a scoreboard.
LEMMA ScoresMakeABoard ==
  ASSUME NEW fs, LineUp(fs), NEW ps,
         \A i \in DOMAIN fs : i \in DOMAIN ps /\ ps[i] = fs[i],
         NEW S, S = {History!MpMatchGameScore(fs[i].u, fs[i].f, History!_ranked_scores(fs)[i]) :
                       i \in DOMAIN fs}
  PROVE  Board(S, ps)
<1>1. PICK rank : rank = History!_ranked_scores(fs)
  OBVIOUS
<1>2. PICK D : D = DOMAIN fs
  OBVIOUS
<1>3. PICK R : /\ IsFiniteSet(D) /\ Ranked(D, R, rank)
               /\ \A i, j \in D : <<i, j>> \in R =>
                    i # j /\ (fs[j].f.passed => fs[i].f.passed)
  BY <1>1, <1>2, PlacesAreRanks
<1>4. PICK score : score = [i \in D |-> [user |-> fs[i].u, passed |-> fs[i].f.passed,
                                        metric |-> fs[i].f.metric, placement |-> rank[i]]]
  OBVIOUS
<1>5. S = {score[i] : i \in D}
  BY <1>1, <1>2, <1>4 DEF History!MpMatchGameScore
<1>6. \A i \in D : /\ score[i].user = fs[i].u /\ score[i].passed = fs[i].f.passed
                   /\ score[i].placement = rank[i]
  BY <1>4
<1>7. \A i, j \in D : fs[i].u = fs[j].u => i = j
  BY <1>2 DEF LineUp
<1>8. Cardinality(S) = Cardinality(D)
  <2>1. score \in [D -> S]
    BY <1>4, <1>5
  <2>2. \A i, j \in D : score[i] = score[j] => i = j
    BY <1>6, <1>7
  <2>3. score \in Bijection(D, S)
    BY <1>5, <2>1, <2>2 DEF Bijection, Injection, Surjection, IsInjective
  <2>4. QED
    BY <1>3, <2>3, FS_Bijection DEF ExistsBijection
<1>9. Cardinality(S) \in Nat /\ \A p \in 1 .. Cardinality(S) : \E s \in S : s.placement = p
  <2>1. Cardinality(D) \in Nat /\ \A p \in 1 .. Cardinality(D) : \E i \in D : rank[i] = p
    BY <1>3 DEF Ranked
  <2>2. ASSUME NEW p \in 1 .. Cardinality(D) PROVE \E s \in S : s.placement = p
    <3>1. PICK i \in D : rank[i] = p
      BY <2>1
    <3>2. score[i] \in S /\ score[i].placement = p
      BY <1>5, <1>6, <3>1
    <3>3. QED
      BY <3>2
  <2>3. QED
    BY <1>8, <2>1, <2>2
<1>10. ASSUME NEW r \in S, NEW s \in S, r.placement < s.placement
       PROVE  r.user # s.user /\ (s.passed => r.passed)
  <2>1. PICK i \in D, j \in D : r = score[i] /\ s = score[j]
    BY <1>5
  <2>2. rank[i] < rank[j]
    BY <1>6, <1>10, <2>1
  <2>3. <<i, j>> \in R
    BY <1>3, <2>2 DEF Ranked
  <2>4. i # j /\ (fs[j].f.passed => fs[i].f.passed)
    BY <1>3, <2>3
  <2>5. QED
    BY <1>6, <1>7, <2>1, <2>4
<1>11. \A s \in S : \E i \in DOMAIN ps : ps[i].u = s.user
  BY <1>2, <1>5, <1>6
<1>12. QED
  BY <1>9, <1>10, <1>11 DEF Board

-----------------------------------------------------------------------------
\* record_game: the row of the game is filed under the row its task was spawned
\* with, which is that of its lobby.
LEMMA GameIsFiled ==
  ASSUME RecordInv, NEW t \in h_tasks, History!record_game(t)
  PROVE  RecordInv' /\ Grows
<1>1. /\ t \in RecordTasks(t.players, t.nth) /\ t.op = "game" /\ t.pc = "insert"
      /\ h_live[t.n].host # Anonymous /\ RowOf(t.db, t.n) /\ LineUp(t.players)
  BY DEF RecordInv, TasksRight, History!record_game, TaskRight
<1>2. PICK k \in Nat : DOMAIN h_games = 1 .. k
  BY DEF RecordInv, GamesRight
<1>3. PICK g : g = History!Cardinality(DOMAIN h_games) + 1
  OBVIOUS
<1>4. g = k + 1 /\ g \notin DOMAIN h_games /\ DOMAIN h_games \cup {g} = 1 .. k + 1
  <2>1. History!Cardinality(DOMAIN h_games) = Cardinality(DOMAIN h_games)
    BY DEF History!Cardinality, Cardinality
  <2>2. Cardinality(1 .. k) = k
    BY FS_Interval
  <2>3. g = k + 1
    BY <1>2, <1>3, <2>1, <2>2
  <2>4. QED
    BY <1>2, <2>3
<1>5. PICK game, frames :
        /\ game = [match |-> t.db, origin |-> t.n, participants |-> t.players]
        /\ frames = [i \in {j \in DOMAIN t.players : t.players[j].f.decodes} |-> t.players[i]]
  OBVIOUS
<1>6. PICK job : job = [t EXCEPT !.pc = "scores", !.db = g, !.players = frames]
  OBVIOUS
<1>7. /\ h_live' = h_live /\ h_rows' = h_rows /\ h_nextId' = h_nextId
      /\ h_games' = [h \in DOMAIN h_games \cup {g} |-> IF h = g THEN game ELSE h_games[h]]
      /\ h_scores' = [h \in DOMAIN h_games' |-> IF h = g THEN {} ELSE h_scores[h]]
      /\ h_tasks' = (h_tasks \ {t}) \/ h_tasks' = (h_tasks \ {t}) \cup {job}
  BY <1>3, <1>5, <1>6
  DEF History!record_game, History!MpMatchGame, History!_decode_participant_scores
<1>8. /\ DOMAIN h_games' = 1 .. k + 1 /\ DOMAIN h_scores' = DOMAIN h_games'
      /\ h_games'[g] = game /\ h_scores'[g] = {}
      /\ \A h \in DOMAIN h_games : /\ h \in DOMAIN h_games' /\ h_games'[h] = h_games[h]
                                   /\ h_scores'[h] = h_scores[h]
  BY <1>4, <1>7
<1>9. Grows
  BY <1>7, <1>8 DEF Grows, RecordInv, RowsRight
<1>10. LivesRight' /\ RowsRight'
  BY <1>7 DEF RecordInv, LivesRight, RowsRight, RowOf
<1>11. Board({}, t.players)
  BY FS_EmptySet DEF Board
<1>12. GamesRight'
  <2>1. ASSUME NEW h \in DOMAIN h_games'
        PROVE  /\ RowOf(h_games'[h].match, h_games'[h].origin)
               /\ LineUp(h_games'[h].participants)
               /\ Board(h_scores'[h], h_games'[h].participants)
    <3>1. CASE h = g
      <4>1. /\ game.match = t.db /\ game.origin = t.n /\ game.participants = t.players
        BY <1>5
      <4>2. QED
        BY <1>1, <1>8, <1>11, <3>1, <4>1
    <3>2. CASE h \in DOMAIN h_games
      BY <1>8, <3>2 DEF RecordInv, GamesRight
    <3>3. QED
      BY <1>2, <1>4, <1>8, <3>1, <3>2
  <2>2. \A m, n : RowOf(m, n) => m \in DOMAIN h_rows' /\ h_rows'[m].origin = n
    BY <1>7 DEF RowOf
  <2>3. k + 1 \in Nat
    OBVIOUS
  <2>4. QED
    BY <1>8, <2>1, <2>2, <2>3 DEF GamesRight, RowOf
<1>13. TaskRight(job)'
  <2>1. job \in RecordTasks(frames, t.nth)
    <3>1. PICK players, nth : players = t.players /\ nth = t.nth
      OBVIOUS
    <3>2. g \in Nat /\ t \in RecordTasks(players, nth)
      BY <1>1, <1>4, <3>1
    <3>3. job \in RecordTasks(frames, nth)
      BY <1>6, <3>2 DEF RecordTasks
    <3>4. QED
      BY <3>1, <3>3
  <2>2. job.players = frames /\ job.nth = t.nth
    BY <2>1 DEF RecordTasks
  <2>3. job.op = "game" /\ job.pc = "scores" /\ job.db = g /\ job.n = t.n
    BY <1>1, <1>6 DEF RecordTasks
  <2>4. /\ DOMAIN frames \subseteq DOMAIN t.players
        /\ \A i \in DOMAIN frames : frames[i] = t.players[i]
    BY <1>5
  <2>5. LineUp(frames)
    BY <1>1, <2>4 DEF LineUp
  <2>6. g \in DOMAIN h_games' /\ h_games'[g].participants = t.players
    BY <1>2, <1>4, <1>5, <1>8
  <2>7. QED
    BY <1>1, <1>7, <2>1, <2>2, <2>3, <2>4, <2>5, <2>6 DEF TaskRight
<1>14. TasksRight'
  <2>1. Uncommitted
    BY <1>7 DEF RecordInv, TasksRight, TaskRight, Uncommitted
  <2>2. h_tasks' \subseteq h_tasks \cup {job} /\ job.pc # "commit"
    BY <1>1, <1>6, <1>7 DEF RecordTasks
  <2>3. QED
    BY <1>9, <1>10, <1>13, <2>1, <2>2, TasksStay
<1>15. QED
  BY <1>9, <1>10, <1>12, <1>14 DEF RecordInv

\* record_game_scores: the scoreboard of the game whose row was just written.
LEMMA ScoresAreFiled ==
  ASSUME RecordInv, NEW t \in h_tasks, History!record_game_scores(t)
  PROVE  RecordInv' /\ Grows
<1>1. /\ t.db \in DOMAIN h_games /\ LineUp(t.players)
      /\ \A i \in DOMAIN t.players :
           /\ i \in DOMAIN h_games[t.db].participants
           /\ h_games[t.db].participants[i] = t.players[i]
  BY DEF RecordInv, TasksRight, History!record_game_scores, TaskRight
<1>2. PICK fs, S :
        /\ fs = t.players
        /\ S = {History!MpMatchGameScore(fs[i].u, fs[i].f, History!_ranked_scores(fs)[i]) :
                  i \in DOMAIN fs}
  OBVIOUS
<1>3. /\ h_live' = h_live /\ h_rows' = h_rows /\ h_nextId' = h_nextId /\ h_games' = h_games
      /\ h_scores' = [h_scores EXCEPT ![t.db] = S] /\ h_tasks' = h_tasks \ {t}
  BY <1>2 DEF History!record_game_scores
<1>4. Board(S, h_games[t.db].participants)
  BY <1>1, <1>2, ScoresMakeABoard
<1>5. Grows
  BY <1>3, NothingGrows
<1>6. LivesRight' /\ RowsRight'
  BY <1>3 DEF RecordInv, LivesRight, RowsRight, RowOf
<1>7. GamesRight'
  <2>1. DOMAIN h_scores' = DOMAIN h_games
    BY <1>3 DEF RecordInv, GamesRight
  <2>2. \A g \in DOMAIN h_games : Board(h_scores'[g], h_games[g].participants)
    BY <1>3, <1>4 DEF RecordInv, GamesRight
  <2>3. QED
    BY <1>3, <2>1, <2>2 DEF RecordInv, GamesRight, RowOf
<1>8. TasksRight'
  <2>1. Uncommitted
    BY <1>3 DEF RecordInv, TasksRight, TaskRight, Uncommitted
  <2>2. h_tasks' \subseteq h_tasks \cup {t} /\ t \notin h_tasks'
    BY <1>3
  <2>3. QED
    BY <1>5, <1>6, <2>1, <2>2, TasksStay
<1>9. QED
  BY <1>5, <1>6, <1>7, <1>8 DEF RecordInv

\* mark_disbanded: the lobby of the row has closed, and no lobby opens twice.
LEMMA DisbandKeeps ==
  ASSUME RecordInv, NEW t \in h_tasks, History!mark_disbanded(t)
  PROVE  RecordInv' /\ Grows
<1>1. t.db \in DOMAIN h_rows /\ h_rows[t.db].origin = t.n /\ ~h_live[t.n].open
  BY DEF RecordInv, TasksRight, History!mark_disbanded, TaskRight, RowOf
<1>2. PICK row : row = [h_rows[t.db] EXCEPT !.disbanded = TRUE]
  OBVIOUS
<1>3. /\ h_live' = h_live /\ h_games' = h_games /\ h_scores' = h_scores
      /\ h_nextId' = h_nextId /\ h_tasks' = h_tasks \ {t}
      /\ h_rows' = [h_rows EXCEPT ![t.db] = row]
  BY <1>2 DEF History!mark_disbanded
<1>4. h_rows[t.db] \in [host : Hosts, public : BOOLEAN, disbanded : BOOLEAN,
                        origin : History!Nums]
  BY <1>1 DEF RecordInv, RowsRight
<1>5. /\ row \in [host : Hosts, public : BOOLEAN, disbanded : BOOLEAN, origin : History!Nums]
      /\ row.host = h_rows[t.db].host /\ row.public = h_rows[t.db].public
      /\ row.origin = h_rows[t.db].origin
  BY <1>2, <1>4
<1>6. DOMAIN h_rows' = DOMAIN h_rows /\ h_rows'[t.db] = row
      /\ \A m \in DOMAIN h_rows : m # t.db => h_rows'[m] = h_rows[m]
  BY <1>1, <1>3
<1>7. \A m \in DOMAIN h_rows :
        /\ h_rows'[m].host = h_rows[m].host /\ h_rows'[m].public = h_rows[m].public
        /\ h_rows'[m].origin = h_rows[m].origin
  BY <1>5, <1>6
<1>8. Grows
  BY <1>3, <1>6, <1>7 DEF Grows, RecordInv, RowsRight
<1>9. LivesRight'
  BY <1>3, <1>6, <1>7 DEF RecordInv, LivesRight, RowOf
<1>10. RowsRight'
  <2>1. ASSUME NEW m \in DOMAIN h_rows
        PROVE  /\ m \in 1 .. h_nextId - 1
               /\ h_rows'[m] \in [host : Hosts, public : BOOLEAN, disbanded : BOOLEAN,
                                  origin : History!Nums]
               /\ h_live[h_rows[m].origin].host = h_rows[m].host
               /\ h_live[h_rows[m].origin].public = h_rows[m].public
               /\ h_rows'[m].disbanded => ~h_live[h_rows[m].origin].open
    BY <1>1, <1>5, <1>6 DEF RecordInv, RowsRight
  <2>2. h_nextId' \in Nat \ {0}
    BY <1>3 DEF RecordInv, RowsRight
  <2>3. QED
    BY <1>3, <1>6, <1>7, <2>1, <2>2 DEF RowsRight
<1>11. GamesRight'
  BY <1>3, <1>6, <1>7 DEF RecordInv, GamesRight, RowOf
<1>12. TasksRight'
  <2>1. Uncommitted
    BY <1>3, <1>6 DEF RecordInv, TasksRight, TaskRight, Uncommitted
  <2>2. h_tasks' \subseteq h_tasks \cup {t} /\ t \notin h_tasks'
    BY <1>3
  <2>3. QED
    BY <1>8, <1>9, <2>1, <2>2, TasksStay
<1>13. QED
  BY <1>8, <1>9, <1>10, <1>11, <1>12 DEF RecordInv

\* A statement fails, or the server restarts: what is written stays written.
LEMMA FaultsKeep ==
  ASSUME RecordInv, History!Restart \/ \E t \in h_tasks : History!TaskFails(t)
  PROVE  RecordInv' /\ Grows
<1>1. CASE History!Restart
  <2>1. /\ h_live' = [n \in History!Nums |-> [h_live[n] EXCEPT !.open = FALSE]]
        /\ h_tasks' = {} /\ h_rows' = h_rows /\ h_games' = h_games /\ h_scores' = h_scores
        /\ h_nextId' = h_nextId
    BY <1>1 DEF History!Restart
  <2>2. \A n \in History!Nums :
          /\ h_live'[n] \in [open : BOOLEAN, host : Hosts \cup {Anonymous}, public : BOOLEAN,
                             db_id : Nat]
          /\ ~h_live'[n].open /\ h_live'[n].host = h_live[n].host
          /\ h_live'[n].public = h_live[n].public /\ h_live'[n].db_id = h_live[n].db_id
    BY <2>1 DEF RecordInv, LivesRight
  <2>3. Grows
    <3>1. h_nextId' \in Nat /\ h_nextId <= h_nextId'
      BY <2>1 DEF RecordInv, RowsRight
    <3>2. \A m \in DOMAIN h_rows : m \in DOMAIN h_rows' /\ h_rows'[m] = h_rows[m]
      BY <2>1
    <3>3. QED
      BY <2>1, <2>2, <3>1, <3>2 DEF Grows
  <2>4. LivesRight'
    <3>1. h_live' = [n \in History!Nums |-> h_live'[n]]
      BY <2>1
    <3>2. QED
      BY <2>1, <2>2, <3>1 DEF RecordInv, LivesRight, RowOf
  <2>5. RowsRight' /\ GamesRight'
    BY <2>1, <2>3, <2>4, RowsAndGamesStay
  <2>6. TasksRight'
    BY <2>1 DEF TasksRight
  <2>7. QED
    BY <2>3, <2>4, <2>5, <2>6 DEF RecordInv
<1>2. CASE \E t \in h_tasks : History!TaskFails(t)
  <2>1. /\ h_live' = h_live /\ h_tasks' \subseteq h_tasks /\ h_rows' = h_rows
        /\ h_games' = h_games /\ h_scores' = h_scores /\ h_nextId' = h_nextId
    BY <1>2 DEF History!TaskFails
  <2>2. LivesRight' /\ RowsRight' /\ GamesRight'
    BY <2>1 DEF RecordInv, LivesRight, RowsRight, GamesRight, RowOf
  <2>3. TasksRight'
    BY <2>1 DEF RecordInv, TasksRight, TaskRight, RowOf
  <2>4. Grows
    BY <2>1, NothingGrows
  <2>5. QED
    BY <2>2, <2>3, <2>4 DEF RecordInv
<1>3. QED
  BY <1>1, <1>2

\* Readers and steps of other models write nothing.
LEMMA ReadersKeep ==
  ASSUME RecordInv, UNCHANGED <<h_live, h_rows, h_games, h_scores, h_tasks, h_nextId>>
  PROVE  RecordInv' /\ Grows
<1>1. RecordInv'
  <2>1. LivesRight'
    BY DEF RecordInv, LivesRight, RowOf
  <2>2. RowsRight'
    BY DEF RecordInv, RowsRight
  <2>3. TasksRight'
    BY DEF RecordInv, TasksRight, TaskRight, RowOf
  <2>4. GamesRight'
    BY DEF RecordInv, GamesRight, RowOf
  <2>5. QED
    BY <2>1, <2>2, <2>3, <2>4 DEF RecordInv
<1>2. Grows
  BY NothingGrows
<1>3. QED
  BY <1>1, <1>2

\* Nothing is recorded at the start.
LEMMA RecordBegins == History!Init => RecordInv
<1> SUFFICES ASSUME History!Init PROVE RecordInv
  OBVIOUS
<1>1. /\ h_live = [n \in History!Nums |-> [open |-> FALSE, host |-> Anonymous, public |-> TRUE,
                                           db_id |-> 0]]
      /\ h_rows = <<>> /\ h_games = <<>> /\ h_scores = <<>> /\ h_tasks = {} /\ h_nextId = 1
  BY DEF History!Init, History!NoId
<1>2. LivesRight
  BY <1>1 DEF LivesRight
<1>3. RowsRight /\ TasksRight
  BY <1>1 DEF RowsRight, TasksRight
<1>4. GamesRight
  <2>1. DOMAIN h_games = 1 .. 0 /\ DOMAIN h_scores = {} /\ DOMAIN h_games = {}
    BY <1>1
  <2>2. QED
    BY <2>1 DEF GamesRight
<1>5. QED
  BY <1>2, <1>3, <1>4 DEF RecordInv

-----------------------------------------------------------------------------
\* The ids that a scroll is about: of the public rows, or of the games of a match.
Ids(of) == IF of = 0 THEN {m \in DOMAIN h_rows : h_rows[m].public}
           ELSE {g \in DOMAIN h_games : h_games[g].match = of}

\* A scroll of ids: it was shown ids only, each below the ones before, down to
\* the cursor; what it owes and has not shown is below the cursor.
Scrolls == [who : History!Viewers, of : Nat, before : Nat, shown : Seq(Nat \ {0}),
            owed : SUBSET Nat, on : BOOLEAN, done : BOOLEAN]
Scrolled(s, ids) ==
  /\ s \in Scrolls /\ s.owed \subseteq ids /\ (s.done => ~s.on)
  /\ \A i, j \in DOMAIN s.shown : i < j => s.shown[i] > s.shown[j]
  /\ \A i \in DOMAIN s.shown : s.shown[i] \in ids
  /\ s.on => \/ s.before = 0 /\ s.shown = <<>>
             \/ s.before # 0 /\ \A i \in DOMAIN s.shown : s.before <= s.shown[i]
  /\ \A m \in s.owed : \/ \E i \in DOMAIN s.shown : s.shown[i] = m
                       \/ s.on /\ (s.before = 0 \/ m < s.before)

\* Whoever scrolls through the games of a match may see it.
ScrollRight ==
  /\ Scrolled(h_scroll, Ids(h_scroll.of))
  /\ h_scroll.of # 0 => /\ h_scroll.of \in DOMAIN h_rows
                        /\ History!_is_visible_to(h_rows[h_scroll.of], h_scroll.who)

\* There are finitely many ids, and more are added above and between them.
LEMMA IdsAreFinite ==
  ASSUME RecordInv, NEW of
  PROVE  Ids(of) \subseteq Nat \ {0} /\ IsFiniteSet(Ids(of))
<1>1. PICK a, k \in Nat : a = h_nextId - 1 /\ DOMAIN h_rows \subseteq 1 .. a
                          /\ DOMAIN h_games = 1 .. k
  <2>1. h_nextId - 1 \in Nat /\ \A m \in DOMAIN h_rows : m \in 1 .. h_nextId - 1
    BY DEF RecordInv, RowsRight
  <2>2. QED
    BY <2>1 DEF RecordInv, GamesRight
<1>2. a \in Nat
  BY <1>1 DEF RecordInv, RowsRight
<1>3. IsFiniteSet(1 .. a) /\ IsFiniteSet(1 .. k)
  BY <1>2, FS_Interval
<1>4. Ids(of) \in SUBSET (1 .. a) \/ Ids(of) \in SUBSET (1 .. k)
  BY <1>1 DEF Ids
<1>5. QED
  BY <1>2, <1>3, <1>4, FS_Subset

\* What get_page makes of a scroll.
Turned(s, page) ==
  LET cursor == IF Len(page) = Limit THEN page[Len(page)] ELSE 0 IN
  [s EXCEPT !.shown = s.shown \o page, !.before = cursor, !.on = cursor # 0,
            !.done = cursor = 0]

\* A page more: the scroll goes on below it if it was full, and has shown all
\* there is if it was not.
LEMMA NextPage ==
  ASSUME NEW s, NEW ids, Scrolled(s, ids), s.on,
         NEW page, PageOf(page, ids, s.before, Limit)
  PROVE  /\ Scrolled(Turned(s, page), ids)
         /\ Turned(s, page).of = s.of /\ Turned(s, page).who = s.who
<1> PICK cursor : cursor = IF Len(page) = Limit THEN page[Len(page)] ELSE 0
  OBVIOUS
<1> PICK new : new = [s EXCEPT !.shown = s.shown \o page, !.before = cursor,
                               !.on = cursor # 0, !.done = cursor = 0]
  OBVIOUS
<1>0. new = Turned(s, page)
  BY DEF Turned
<1>1. /\ s \in Scrolls /\ s.shown \in Seq(Nat \ {0}) /\ s.owed \subseteq ids
      /\ page \in Seq(Nat \ {0}) /\ s.before \in Nat /\ Limit \in Nat \ {0}
  BY RecordAssumption DEF Scrolled, Scrolls, PageOf
<1>2. PICK old, n, k : old = s.shown /\ n = Len(old) /\ k = Len(page)
  OBVIOUS
<1>3. /\ n \in Nat /\ k \in Nat /\ DOMAIN old = 1 .. n /\ DOMAIN page = 1 .. k
      /\ \A i \in 1 .. n : old[i] \in Nat \ {0}
      /\ \A i \in 1 .. k : page[i] \in Nat \ {0}
  BY <1>1, <1>2
<1>4. PICK shown : shown = old \o page
  OBVIOUS
<1>5. /\ shown \in Seq(Nat \ {0}) /\ DOMAIN shown = 1 .. n + k
      /\ \A i \in 1 .. n : shown[i] = old[i]
      /\ \A i \in 1 .. k : shown[n + i] = page[i]
  <2>1. old \in Seq(Nat \ {0}) /\ page \in Seq(Nat \ {0}) /\ Len(old) = n /\ Len(page) = k
    BY <1>1, <1>2
  <2>2. /\ shown \in Seq(Nat \ {0}) /\ Len(shown) = n + k
        /\ \A i \in 1 .. n + k : shown[i] = IF i <= n THEN old[i] ELSE page[i - n]
    BY <1>4, <2>1, ConcatProperties
  <2>3. DOMAIN shown = 1 .. n + k
    BY <1>3, <2>2
  <2>4. ASSUME NEW i \in 1 .. n PROVE shown[i] = old[i]
    BY <1>3, <2>2
  <2>5. ASSUME NEW i \in 1 .. k PROVE shown[n + i] = page[i]
    <3>1. n + i \in 1 .. n + k /\ ~(n + i <= n) /\ (n + i) - n = i
      BY <1>3
    <3>2. QED
      BY <2>2, <3>1
  <2>6. QED
    BY <2>2, <2>3, <2>4, <2>5
<1>6. cursor \in Nat /\ (k = Limit => k \in 1 .. k /\ cursor = page[k] /\ cursor # 0)
      /\ (k # Limit => cursor = 0)
  BY <1>1, <1>2, <1>3
<1>7. /\ new \in Scrolls /\ new.shown = shown /\ new.before = cursor /\ new.owed = s.owed
      /\ new.on = (cursor # 0) /\ new.done = (cursor = 0) /\ new.of = s.of /\ new.who = s.who
  BY <1>1, <1>2, <1>4, <1>5, <1>6 DEF Scrolls
<1>8. /\ \A i, j \in 1 .. n : i < j => old[i] > old[j]
      /\ \A i, j \in 1 .. k : i < j => page[i] > page[j]
      /\ \A i \in 1 .. n : old[i] \in ids
      /\ \A i \in 1 .. k : page[i] \in ids
  BY <1>2, <1>3 DEF Scrolled, PageOf
<1>9. \A i \in 1 .. n, j \in 1 .. k : old[i] > page[j]
  <2> SUFFICES ASSUME NEW i \in 1 .. n, NEW j \in 1 .. k PROVE old[i] > page[j]
    OBVIOUS
  <2>1. s.shown # <<>>
    BY <1>2, <1>3
  <2>2. s.before # 0 /\ s.before <= old[i]
    BY <1>2, <1>3, <2>1 DEF Scrolled
  <2>3. page[j] < s.before
    BY <1>3, <2>2 DEF PageOf
  <2>4. QED
    BY <1>1, <1>3, <2>2, <2>3
<1>10. ASSUME NEW i \in 1 .. n + k
       PROVE  \/ i \in 1 .. n /\ shown[i] = old[i]
              \/ i - n \in 1 .. k /\ shown[i] = page[i - n]
  <2>1. i \in 1 .. n \/ (i - n \in 1 .. k /\ n + (i - n) = i)
    BY <1>3
  <2>2. QED
    BY <1>5, <2>1
<1>11. \A i, j \in DOMAIN shown : i < j => shown[i] > shown[j]
  <2> SUFFICES ASSUME NEW i \in 1 .. n + k, NEW j \in 1 .. n + k, i < j
               PROVE  shown[i] > shown[j]
    BY <1>5
  <2>1. CASE i \in 1 .. n /\ shown[i] = old[i]
    BY <1>3, <1>8, <1>9, <1>10, <2>1
  <2>2. CASE i - n \in 1 .. k /\ shown[i] = page[i - n]
    <3>1. j - n \in 1 .. k /\ shown[j] = page[j - n] /\ i - n < j - n
      BY <1>3, <1>10, <2>2
    <3>2. QED
      BY <1>8, <2>2, <3>1
  <2>3. QED
    BY <1>10, <2>1, <2>2
<1>12. \A i \in DOMAIN shown : shown[i] \in ids
  BY <1>5, <1>8, <1>10
<1>13. cursor # 0 => \A i \in DOMAIN shown : cursor <= shown[i]
  <2> SUFFICES ASSUME cursor # 0, NEW i \in 1 .. n + k PROVE cursor <= shown[i]
    BY <1>5
  <2>1. k \in 1 .. k /\ cursor = page[k]
    BY <1>6
  <2>2. CASE i \in 1 .. n /\ shown[i] = old[i]
    BY <1>3, <1>9, <2>1, <2>2
  <2>3. CASE i - n \in 1 .. k /\ shown[i] = page[i - n]
    <3>1. i - n = k \/ i - n < k
      BY <1>3, <2>3
    <3>2. page[i - n] = page[k] \/ page[i - n] > page[k]
      BY <1>8, <2>1, <2>3, <3>1
    <3>3. QED
      BY <1>3, <2>1, <2>3, <3>2
  <2>4. QED
    BY <1>10, <2>2, <2>3
<1>14. ASSUME NEW m \in s.owed
       PROVE  (\E i \in DOMAIN shown : shown[i] = m) \/ (cursor # 0 /\ m < cursor)
  <2>1. CASE \E i \in 1 .. n : old[i] = m
    <3>1. PICK i \in 1 .. n : old[i] = m
      BY <2>1
    <3>2. i \in DOMAIN shown /\ shown[i] = m
      BY <1>3, <1>5, <3>1
    <3>3. QED
      BY <3>2
  <2>2. CASE s.before = 0 \/ m < s.before
    <3>1. \/ \E i \in 1 .. k : page[i] = m
          \/ k = Limit /\ \A i \in 1 .. k : m < page[i]
      BY <1>1, <1>2, <1>3, <2>2 DEF PageOf
    <3>2. CASE \E i \in 1 .. k : page[i] = m
      <4>1. PICK i \in 1 .. k : page[i] = m
        BY <3>2
      <4>2. n + i \in DOMAIN shown /\ shown[n + i] = m
        BY <1>3, <1>5, <4>1
      <4>3. QED
        BY <4>2
    <3>3. CASE k = Limit /\ \A i \in 1 .. k : m < page[i]
      BY <1>6, <3>3
    <3>4. QED
      BY <3>1, <3>2, <3>3
  <2>3. QED
    BY <1>2, <1>3, <2>1, <2>2 DEF Scrolled
<1>15. QED
  <2>1. Scrolled(new, ids)
    BY <1>1, <1>7, <1>11, <1>12, <1>13, <1>14 DEF Scrolled
  <2>2. QED
    BY <1>0, <1>7, <2>1

\* Rows and games that are added are none that a scroll has passed by.
LEMMA ScrollStays ==
  ASSUME ScrollRight, Grows, UNCHANGED h_scroll
  PROVE  ScrollRight'
<1>1. PICK s : s = h_scroll
  OBVIOUS
<1>2. PICK ids, more : ids = Ids(s.of) /\ more = Ids(s.of)'
  OBVIOUS
<1>3. ids \subseteq more
  <2>1. \A m \in DOMAIN h_rows : m \in DOMAIN h_rows' /\ h_rows'[m].public = h_rows[m].public
    BY DEF Grows
  <2>2. \A g \in DOMAIN h_games : g \in DOMAIN h_games' /\ h_games'[g] = h_games[g]
    BY DEF Grows
  <2>3. QED
    BY <1>2, <2>1, <2>2 DEF Ids
<1>4. Scrolled(s, more)
  BY <1>1, <1>2, <1>3 DEF ScrollRight, Scrolled
<1>5. s.of # 0 => /\ s.of \in DOMAIN h_rows'
                  /\ History!_is_visible_to(h_rows'[s.of], s.who)
  BY <1>1 DEF ScrollRight, Grows, History!_is_visible_to
<1>6. QED
  BY <1>1, <1>2, <1>4, <1>5 DEF ScrollRight

\* get_matches and get_match_games: a page of what the scroll is about.
LEMMA PageTurns ==
  ASSUME RecordInv, ScrollRight, History!get_matches \/ History!get_match_games
  PROVE  RecordInv' /\ ScrollRight'
<1>1. PICK s : s = h_scroll
  OBVIOUS
<1>2. PICK ids : ids = Ids(s.of)
  OBVIOUS
<1>3. PICK page : page = History!Newest(ids, s.before, Limit)
  OBVIOUS
<1>4. Scrolled(s, ids)
  BY <1>1, <1>2 DEF ScrollRight
<1>5. PageOf(page, ids, s.before, Limit)
  <2>1. s.before \in Nat /\ Limit \in Nat \ {0}
    BY <1>4, RecordAssumption DEF Scrolled, Scrolls
  <2>2. ids \subseteq Nat \ {0} /\ IsFiniteSet(ids)
    BY <1>2, IdsAreFinite
  <2>3. QED
    BY <1>3, <2>1, <2>2, NewestIsPage
<1>6. s.on /\ History!get_page(page)
  <2>1. CASE History!get_matches
    <3>1. s.of = 0 /\ s.on
          /\ History!get_page(History!fetch_recent_matches(s.before, Limit, TRUE))
      BY <1>1, <2>1 DEF History!get_matches, History!NoId
    <3>2. History!fetch_recent_matches(s.before, Limit, TRUE) = page
      BY <1>2, <1>3, <3>1 DEF History!fetch_recent_matches, Ids
    <3>3. QED
      BY <3>1, <3>2
  <2>2. CASE History!get_match_games
    <3>1. s.of # 0 /\ s.on
          /\ History!get_page(History!fetch_games(s.who, s.of, s.before))
      BY <1>1, <2>2 DEF History!get_match_games, History!NoId
    <3>2. History!get_match(s.who, s.of) = "found"
      BY <1>1, <3>1 DEF ScrollRight, History!get_match
    <3>3. History!fetch_games(s.who, s.of, s.before) = page
      BY <1>2, <1>3, <3>1, <3>2
      DEF History!fetch_games, History!fetch_games_for_match, History!NotFound, Ids
    <3>4. QED
      BY <3>1, <3>3
  <2>3. QED
    BY <2>1, <2>2
<1>7. PICK new : new = Turned(s, page)
  OBVIOUS
<1>8. /\ h_scroll' = new
      /\ UNCHANGED <<h_live, h_rows, h_games, h_scores, h_tasks, h_nextId>>
  BY <1>1, <1>6, <1>7 DEF Turned, History!get_page, History!_page_meta, History!NoId
<1>9. Scrolled(new, ids) /\ new.of = s.of /\ new.who = s.who
  BY <1>4, <1>5, <1>6, <1>7, NextPage
<1>10. RecordInv'
  BY <1>8, ReadersKeep
<1>11. ScrollRight'
  BY <1>1, <1>2, <1>8, <1>9 DEF ScrollRight, Ids
<1>12. QED
  BY <1>10, <1>11

\* A scroll begins without a cursor and owes all there is to see.
LEMMA ScrollBegins ==
  ASSUME RecordInv, NEW v \in History!Viewers, NEW m \in {0} \cup DOMAIN h_rows,
         History!BeginScroll(v, m)
  PROVE  RecordInv' /\ ScrollRight'
<1>1. PICK owed : owed = Ids(m)
  OBVIOUS
<1>2. PICK base, new : /\ base = History!NoScroll
                       /\ new = [base EXCEPT !.who = v, !.of = m, !.on = TRUE, !.owed = owed]
  OBVIOUS
<1>3. /\ h_scroll' = new
      /\ UNCHANGED <<h_live, h_rows, h_games, h_scores, h_tasks, h_nextId>>
  BY <1>1, <1>2 DEF History!BeginScroll, History!NoId, Ids
<1>4. m \in Nat /\ owed \subseteq Nat
  <2>1. m \in Nat
    BY DEF RecordInv, RowsRight
  <2>2. QED
    BY <1>1, <2>1, IdsAreFinite
<1>5. Scrolled(new, owed) /\ new.of = m /\ new.who = v
  <2>1. base = [who |-> Anonymous, of |-> 0, before |-> 0, shown |-> <<>>, owed |-> {},
                on |-> FALSE, done |-> FALSE]
    BY <1>2 DEF History!NoScroll, History!NoId
  <2>2. base \in Scrolls /\ base.before = 0 /\ base.shown = <<>> /\ base.done = FALSE
    BY <2>1 DEF Scrolls, History!Viewers
  <2>3. /\ new \in Scrolls /\ new.who = v /\ new.of = m /\ new.on = TRUE /\ new.owed = owed
        /\ new.before = 0 /\ new.shown = <<>> /\ new.done = FALSE
    BY <1>2, <1>4, <2>2 DEF Scrolls
  <2>4. DOMAIN new.shown = {}
    BY <2>3
  <2>5. QED
    BY <2>3, <2>4 DEF Scrolled
<1>6. m # 0 => History!_is_visible_to(h_rows[m], v)
  BY DEF History!BeginScroll, History!get_match, History!NotFound, History!NoId
<1>7. ScrollRight'
  BY <1>1, <1>3, <1>5, <1>6 DEF ScrollRight, Ids, History!_is_visible_to
<1>8. RecordInv'
  BY <1>3, ReadersKeep
<1>9. QED
  BY <1>7, <1>8

\* Whatever a task, a lobby or a reader does.
LEMMA RecordStays ==
  ASSUME RecordInv, ScrollRight, History!Next
  PROVE  RecordInv' /\ ScrollRight'
<1>1. ASSUME NEW n \in History!Nums,
             \/ \E h \in Hosts, public \in BOOLEAN : History!MatchCreate(n, h, public)
             \/ \E fs \in Lineups : History!MatchComplete(n, fs)
             \/ History!LeaveMatch(n)
      PROVE  RecordInv' /\ Grows /\ UNCHANGED h_scroll
  <2>1. ASSUME NEW h \in Hosts, NEW public \in BOOLEAN, History!MatchCreate(n, h, public)
        PROVE  RecordInv' /\ Grows /\ UNCHANGED h_scroll
    BY <2>1, CreateKeeps DEF History!MatchCreate
  <2>2. ASSUME NEW fs \in Lineups, History!MatchComplete(n, fs)
        PROVE  RecordInv' /\ Grows /\ UNCHANGED h_scroll
    BY <2>2, CompleteFiles DEF History!MatchComplete
  <2>3. CASE History!LeaveMatch(n)
    BY <2>3, LeaveFiles DEF History!LeaveMatch
  <2>4. QED
    BY <1>1, <2>1, <2>2, <2>3
<1>2. ASSUME NEW t \in h_tasks,
             \/ History!create_match(t) \/ History!create_match_commits(t)
             \/ History!persist_match_created(t)
             \/ History!record_game(t) \/ History!record_game_scores(t)
             \/ History!mark_disbanded(t)
      PROVE  RecordInv' /\ Grows /\ UNCHANGED h_scroll
  <2>1. CASE History!create_match(t)
    BY <2>1, InsertKeeps DEF History!create_match
  <2>2. CASE History!create_match_commits(t)
    BY <2>2, CommitKeeps DEF History!create_match_commits
  <2>3. CASE History!persist_match_created(t)
    BY <2>3, StashKeeps DEF History!persist_match_created
  <2>4. CASE History!record_game(t)
    BY <2>4, GameIsFiled DEF History!record_game
  <2>5. CASE History!record_game_scores(t)
    BY <2>5, ScoresAreFiled DEF History!record_game_scores
  <2>6. CASE History!mark_disbanded(t)
    BY <2>6, DisbandKeeps DEF History!mark_disbanded
  <2>7. QED
    BY <1>2, <2>1, <2>2, <2>3, <2>4, <2>5, <2>6
<1>3. CASE History!Restart \/ \E t \in h_tasks : History!TaskFails(t)
  <2>1. RecordInv' /\ Grows
    BY <1>3, FaultsKeep
  <2>2. UNCHANGED h_scroll
    BY <1>3 DEF History!Restart, History!TaskFails
  <2>3. QED
    BY <2>1, <2>2, ScrollStays
<1>4. CASE \E v \in History!Viewers, m \in {0} \cup DOMAIN h_rows : History!BeginScroll(v, m)
  BY <1>4, ScrollBegins
<1>5. CASE History!get_matches \/ History!get_match_games
  BY <1>5, PageTurns
<1>6. QED
  BY <1>1, <1>2, <1>3, <1>4, <1>5, ScrollStays DEF History!Next, History!NoId

\* The record is right, and so is the scroll, in every state of the composition
\* in which it runs.
LEMMA RecordInductive == AllSpec => [](service = "history" => RecordInv /\ ScrollRight)
<1>1. AllInit => (service = "history" => RecordInv /\ ScrollRight)
  <2> SUFFICES ASSUME History!Init PROVE RecordInv /\ ScrollRight
    BY DEF AllInit
  <2>1. h_scroll = [who |-> Anonymous, of |-> 0, before |-> 0, shown |-> <<>>, owed |-> {},
                    on |-> FALSE, done |-> FALSE]
    BY DEF History!Init, History!NoScroll, History!NoId
  <2>2. h_scroll \in Scrolls /\ DOMAIN h_scroll.shown = {}
    BY <2>1 DEF Scrolls, History!Viewers
  <2>3. ScrollRight
    BY <2>1, <2>2 DEF ScrollRight, Scrolled
  <2>4. QED
    BY <2>3, RecordBegins
<1>2. (service = "history" => RecordInv /\ ScrollRight) /\ [AllNext]_allvars
        => (service = "history" => RecordInv /\ ScrollRight)'
  <2> SUFFICES ASSUME service = "history" => RecordInv /\ ScrollRight, [AllNext]_allvars,
                      service' = "history"
               PROVE  (RecordInv /\ ScrollRight)'
    OBVIOUS
  <2>1. CASE service = "history" /\ History!Next
    BY <2>1, RecordStays
  <2>2. CASE service' = service /\ UNCHANGED h_vars
    <3>1. UNCHANGED <<h_live, h_rows, h_games, h_scores, h_tasks, h_nextId>>
          /\ UNCHANGED h_scroll
      BY <2>2 DEF h_vars
    <3>2. QED
      BY <2>2, <3>1, ReadersKeep, ScrollStays
  <2>3. QED
    BY <2>1, <2>2 DEF AllNext, allvars
<1>3. QED
  BY <1>1, <1>2, PTL DEF AllSpec

\* A game is filed under its own lobby whichever tasks are under way and
\* whichever fail, its scoreboard is read only by who may see the lobby and
\* ranks its participants, and only closed lobbies are stamped, for any number of
\* lobbies, games, tasks, players and scores.
THEOREM GamesFiled == AllSpec => []GamesAreFiledRight
<1>1. (service = "history" => RecordInv /\ ScrollRight) => GamesAreFiledRight
  <2> SUFFICES ASSUME RecordInv PROVE History!GamesAreFiledRight
    BY DEF GamesAreFiledRight
  <2>1. ASSUME NEW m \in DOMAIN h_rows
        PROVE  /\ h_rows[m].disbanded => ~h_live[h_rows[m].origin].open
               /\ h_rows[m].host = h_live[h_rows[m].origin].host
               /\ h_rows[m].public = h_live[h_rows[m].origin].public
    BY DEF RecordInv, RowsRight
  <2>2. ASSUME NEW g \in DOMAIN h_games
        PROVE  /\ h_rows[h_games[g].match].origin = h_games[g].origin
               /\ \A v \in History!Viewers, m \in DOMAIN h_rows :
                    History!fetch_game_scores(v, m, g) # History!NotFound =>
                      \/ h_live[h_games[g].origin].public
                      \/ v \in Staff \/ v = h_live[h_games[g].origin].host
    <3>1. RowOf(h_games[g].match, h_games[g].origin)
      BY DEF RecordInv, GamesRight
    <3>2. ASSUME NEW v \in History!Viewers, NEW m \in DOMAIN h_rows,
                 History!fetch_game_scores(v, m, g) # History!NotFound
          PROVE  m = h_games[g].match /\ History!_is_visible_to(h_rows[m], v)
      BY <3>2 DEF History!fetch_game_scores, History!get_match
    <3>3. QED
      BY <2>1, <3>1, <3>2 DEF RowOf, History!_is_visible_to, History!_is_staff
  <2>3. ASSUME NEW g \in DOMAIN h_games, NEW board, board = History!fetch_scores_for_game(g)
        PROVE  /\ \A i, j \in DOMAIN board : i < j =>
                    board[i].user # board[j].user /\ (board[j].passed => board[i].passed)
               /\ \A i \in DOMAIN board : \E p \in DOMAIN h_games[g].participants :
                    h_games[g].participants[p].u = board[i].user
    <3>1. PICK S : S = h_scores[g]
      OBVIOUS
    <3>2. Board(S, h_games[g].participants)
      BY <3>1 DEF RecordInv, GamesRight
    <3>3. board = [p \in 1 .. Cardinality(S) |-> CHOOSE s \in S : s.placement = p]
      BY <2>3, <3>1 DEF History!fetch_scores_for_game, History!Cardinality, Cardinality
    <3>4. /\ DOMAIN board = 1 .. Cardinality(S) /\ Cardinality(S) \in Nat
          /\ \A p \in DOMAIN board : board[p] \in S /\ board[p].placement = p
      BY <3>2, <3>3 DEF Board
    <3>5. QED
      BY <3>2, <3>4 DEF Board
  <2>4. QED
    BY <2>1, <2>2, <2>3 DEF History!GamesAreFiledRight
<1>2. QED
  BY <1>1, RecordInductive, PTL

\* Who scrolls to the end has been shown everything public that was there at the
\* beginning, newest first and once, while rows are added in whichever order of
\* their ids, for any number of rows and games and pages of any length.
THEOREM ScrollsComplete == AllSpec => []ScrollsAreComplete
<1>1. (service = "history" => RecordInv /\ ScrollRight) => ScrollsAreComplete
  <2> SUFFICES ASSUME ScrollRight PROVE History!ScrollsAreComplete
    BY DEF ScrollsAreComplete
  <2>1. PICK s : s = h_scroll
    OBVIOUS
  <2>2. Scrolled(s, Ids(s.of))
    BY <2>1 DEF ScrollRight
  <2>3. s.of = 0 => \A i \in DOMAIN s.shown : h_rows[s.shown[i]].public
    BY <2>2 DEF Scrolled, Ids
  <2>4. QED
    BY <2>1, <2>2, <2>3 DEF Scrolled, History!ScrollsAreComplete, History!NoId
<1>2. QED
  BY <1>1, RecordInductive, PTL
=============================================================================
