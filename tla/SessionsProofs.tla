---------------------------- MODULE SessionsProofs ----------------------------
(***************************************************************************)
(* Proofs about Sessions, for any logins, users, tourney clients and names. *)
(*                                                                         *)
(* Good says what every operation of the collection keeps, also when it    *)
(* raises half way: the list has no duplicates, the tokens are those of    *)
(* the list, and ids lead into the list.  That names lead there too cannot *)
(* be shown on its own, for a removal that raises at the id leaves the     *)
(* entry under the name: it needs that until somebody is renamed the two   *)
(* indexes agree, and then there is no such entry.                         *)
(***************************************************************************)
EXTENDS Sessions, SequenceTheorems, TLAPS

RegistryType ==
  [players : Seq(Sessions), by_token : SUBSET Sessions, online : SUBSET Sessions,
   raised : BOOLEAN, by_id : [Users -> Sessions \cup {None}],
   by_name : [Names -> Sessions \cup {None}]]

Members(r) == Range(r.players)

Good(r) ==
  /\ r \in RegistryType
  /\ IsInjective(r.players)
  /\ r.by_token = Members(r) /\ Members(r) \subseteq r.online
  /\ \A u \in Users : r.by_id[u] # None => r.by_id[u] \in Members(r) /\ User[r.by_id[u]] = u

\* The index by name is the index by id, under the names users started with.
Agreeing(r) ==
  \A n \in Names :
    /\ \A u \in Users : FirstName[u] = n => r.by_name[n] = r.by_id[u]
    /\ (\A u \in Users : FirstName[u] # n) => r.by_name[n] = None

Typed ==
  /\ account \in [Users -> Names]
  /\ step \in [Sessions -> {"new", "checked", "authenticated", "in", "refused"}]
  /\ name \in [Sessions -> Names \cup {None}]
  /\ recv \in [Sessions -> {"active", "idle", "ghost"}]
  /\ renaming \in [Users -> Names \cup {None}]
  /\ leaving \subseteq Sessions
  /\ renames \in 0..MaxRenames
  /\ \A s \in Listed : step[s] = "in"
  /\ sweep \in {1} \cup 1..Len(registry.players)

\* Until the first rename everybody goes by the first name.
Unrenamed ==
  renames = 0 =>
    /\ account = FirstName /\ leaving = {}
    /\ \A u \in Users : renaming[u] = None
    /\ \A s \in Sessions : step[s] \in {"authenticated", "in"} => name[s] = FirstName[User[s]]
    /\ Agreeing(registry)

Inv == Typed /\ Good(registry) /\ Unrenamed

-----------------------------------------------------------------------------
(* Lists.                                                                  *)

LEMMA UsersHaveIds == \A s \in Sessions : User[s] \in Users
BY DEF Users

\* list.remove takes out one element, which an injective list has no more of.
LEMMA RemoveFirstProperties ==
  ASSUME NEW S, NEW q \in Seq(S), IsInjective(q), NEW e
  PROVE  /\ RemoveFirst(q, e) \in Seq(S)
         /\ IsInjective(RemoveFirst(q, e))
         /\ Range(RemoveFirst(q, e)) = Range(q) \ {e}
         /\ Len(RemoveFirst(q, e)) <= Len(q)
<1>0. Len(q) \in Nat /\ DOMAIN q = 1..Len(q) /\ \A i \in 1..Len(q) : q[i] \in S
  BY LenProperties
<1>1. CASE ~ \E i \in 1..Len(q) : q[i] = e
  <2>1. RemoveFirst(q, e) = q
    BY <1>1 DEF RemoveFirst
  <2>2. e \notin Range(q)
    BY <1>0, <1>1 DEF Range
  <2>3. QED
    BY <1>0, <2>1, <2>2
<1>2. ASSUME NEW i \in 1..Len(q), q[i] = e
      PROVE  /\ RemoveFirst(q, e) \in Seq(S)
             /\ IsInjective(RemoveFirst(q, e))
             /\ Range(RemoveFirst(q, e)) = Range(q) \ {e}
             /\ Len(RemoveFirst(q, e)) <= Len(q)
  <2>1. RemoveFirst(q, e) = RemoveAt(q, i)
    <3>1. {j \in 1..Len(q) : q[j] = e} = {i}
      BY <1>0, <1>2 DEF IsInjective
    <3>2. Min({i}) = i
      BY <1>0 DEF Min
    <3>3. SelectInSeq(q, LAMBDA v : v = e) = i
      BY <3>1, <3>2 DEF SelectInSeq
    <3>4. QED
      BY <1>2, <3>3 DEF RemoveFirst
  <2> DEFINE front == SubSeq(q, 1, i - 1)
             back == SubSeq(q, i + 1, Len(q))
             rest == RemoveAt(q, i)
  <2>2. /\ front \in Seq(S) /\ Len(front) = i - 1
        /\ \A j \in 1..(i - 1) : front[j] = q[j]
    BY <1>0, SubSeqProperties
  <2>3. /\ back \in Seq(S) /\ Len(back) = Len(q) - i
        /\ \A j \in 1..(Len(q) - i) : back[j] = q[j + i]
    <3>1. \A j \in (i + 1)..Len(q) : q[j] \in S
      BY <1>0
    <3>2. /\ back \in Seq(S)
          /\ Len(back) = IF i + 1 <= Len(q) THEN Len(q) - (i + 1) + 1 ELSE 0
          /\ \A j \in 1..(Len(q) - (i + 1) + 1) : back[j] = q[(i + 1) + j - 1]
      BY <1>0, <3>1, SubSeqProperties
    <3> HIDE DEF back
    <3>3. Len(back) = Len(q) - i
      <4>1. Len(back) = IF i + 1 <= Len(q) THEN Len(q) - (i + 1) + 1 ELSE 0
        BY <3>2
      <4>2. i \in Nat /\ Len(q) \in Nat /\ i <= Len(q)
        BY <1>0
      <4> HIDE <1>2
      <4>3. (IF i + 1 <= Len(q) THEN Len(q) - (i + 1) + 1 ELSE 0) = Len(q) - i
        BY <4>2
      <4>4. QED
        BY <4>1, <4>3
    <3>4. ASSUME NEW j \in 1..(Len(q) - i) PROVE back[j] = q[j + i]
      <4>1. j \in 1..(Len(q) - (i + 1) + 1) /\ (i + 1) + j - 1 = j + i
        BY <1>0
      <4>2. QED
        BY <3>2, <4>1
    <3>5. QED
      BY <3>2, <3>3, <3>4
  <2>4. /\ rest \in Seq(S) /\ Len(rest) = Len(q) - 1
        /\ \A j \in 1..(Len(q) - 1) : rest[j] = IF j < i THEN q[j] ELSE q[j + 1]
    <3>1. /\ rest \in Seq(S) /\ Len(rest) = Len(front) + Len(back)
          /\ \A j \in 1..(Len(front) + Len(back)) :
               rest[j] = IF j <= Len(front) THEN front[j] ELSE back[j - Len(front)]
      BY <2>2, <2>3, ConcatProperties DEF RemoveAt
    <3> HIDE DEF front, back, rest
    <3>2. Len(front) + Len(back) = Len(q) - 1
      BY <1>0, <2>2, <2>3
    <3>3. ASSUME NEW j \in 1..(Len(q) - 1) PROVE rest[j] = IF j < i THEN q[j] ELSE q[j + 1]
      <4>1. CASE j < i
        BY <1>0, <2>2, <3>1, <3>2, <4>1
      <4>2. CASE ~(j < i)
        <5>1. rest[j] = back[j - (i - 1)]
          BY <1>0, <2>2, <3>1, <3>2, <4>2
        <5>2. j - (i - 1) \in 1..(Len(q) - i) /\ (j - (i - 1)) + i = j + 1
          BY <1>0, <4>2
        <5>3. QED
          BY <2>3, <4>2, <5>1, <5>2
      <4>3. QED
        BY <4>1, <4>2
    <3>4. QED
      BY <3>1, <3>2, <3>3
  <2> HIDE DEF front, back, rest
  <2>5. DOMAIN rest = 1..(Len(q) - 1)
    BY <2>4, LenProperties
  <2>6. IsInjective(rest)
    BY <1>0, <2>4, <2>5 DEF IsInjective
  <2>7. Range(rest) = Range(q) \ {e}
    <3>1. ASSUME NEW j \in 1..(Len(q) - 1) PROVE rest[j] \in Range(q) \ {e}
      <4>1. PICK k \in 1..Len(q) : k # i /\ rest[j] = q[k]
        <5>1. CASE j < i
          BY <1>0, <2>4, <5>1
        <5>2. CASE ~(j < i)
          <6>1. j + 1 \in 1..Len(q) /\ j + 1 # i /\ rest[j] = q[j + 1]
            BY <1>0, <2>4, <5>2
          <6>2. QED
            BY <6>1
        <5>3. QED
          BY <5>1, <5>2
      <4>2. QED
        BY <1>0, <1>2, <4>1 DEF Range, IsInjective
    <3>2. ASSUME NEW j \in 1..Len(q), q[j] # e PROVE q[j] \in Range(rest)
      <4>1. CASE j < i
        BY <1>0, <2>4, <2>5, <4>1 DEF Range
      <4>2. CASE j > i
        <5>1. j - 1 \in 1..(Len(q) - 1) /\ ~(j - 1 < i) /\ (j - 1) + 1 = j
          BY <1>0, <4>2
        <5>2. QED
          BY <2>4, <2>5, <5>1 DEF Range
      <4>3. QED
        BY <1>0, <1>2, <3>2, <4>1, <4>2
    <3>3. QED
      BY <1>0, <2>5, <3>1, <3>2 DEF Range
  <2>8. QED
    BY <1>0, <2>1, <2>4, <2>6, <2>7 DEF rest
<1>3. QED
  BY <1>1, <1>2

\* list.append of what is not in the list.
LEMMA AppendNew ==
  ASSUME NEW S, NEW q \in Seq(S), IsInjective(q), NEW e \in S, e \notin Range(q)
  PROVE  /\ Append(q, e) \in Seq(S) /\ IsInjective(Append(q, e))
         /\ Range(Append(q, e)) = Range(q) \cup {e}
<1>1. /\ Append(q, e) \in Seq(S) /\ Len(Append(q, e)) = Len(q) + 1 /\ Len(q) \in Nat
      /\ \A i \in 1..Len(q) : Append(q, e)[i] = q[i]
      /\ Append(q, e)[Len(q) + 1] = e
      /\ DOMAIN Append(q, e) = 1..(Len(q) + 1) /\ DOMAIN q = 1..Len(q)
  BY AppendProperties, LenProperties
<1>2. IsInjective(Append(q, e))
  BY <1>1 DEF IsInjective, Range
<1>3. Range(Append(q, e)) = Range(q) \cup {e}
  BY <1>1 DEF Range
<1>4. QED
  BY <1>1, <1>2, <1>3

-----------------------------------------------------------------------------
(* The collection.                                                         *)

\* What Players.remove and Player.logout promise of the registry r after them.
Keeps(r, after, s) ==
  /\ Good(after) /\ Len(after.players) <= Len(r.players)
  /\ Members(after) = Members(r) \ {s}

\* A registry without s, of whom some indexes may still tell.
LEMMA Unlisting ==
  ASSUME NEW r, Good(r), NEW s \in Sessions, NEW b \in BOOLEAN,
         NEW ids \in [Users -> Sessions \cup {None}],
         NEW names \in [Names -> Sessions \cup {None}],
         \A u \in Users : ids[u] # None => ids[u] = r.by_id[u] /\ ids[u] # s,
         NEW after,
         after = [players |-> RemoveFirst(r.players, s), by_token |-> r.by_token \ {s},
                  online |-> r.online, raised |-> b, by_id |-> ids, by_name |-> names]
  PROVE  Keeps(r, after, s)
<1>1. r.players \in Seq(Sessions) /\ IsInjective(r.players) /\ r.by_token \in SUBSET Sessions
      /\ r.online \in SUBSET Sessions
  BY DEF Good, RegistryType
<1>2. /\ after.players \in Seq(Sessions) /\ IsInjective(after.players)
      /\ Members(after) = Members(r) \ {s} /\ Len(after.players) <= Len(r.players)
  BY <1>1, RemoveFirstProperties DEF Members
<1>3. after \in RegistryType
  BY <1>1, <1>2 DEF RegistryType
<1>4. QED
  BY <1>2, <1>3 DEF Keeps, Good

\* Players.remove: list and token go, and the entries under id and name as far as
\* it comes. If it does not come as far as the name, there was no id.
LEMMA RemovedKeeps ==
  ASSUME NEW r, Good(r), NEW s \in Sessions
  PROVE  /\ Good(Removed(r, s)) /\ Members(Removed(r, s)) = Members(r) \ {s}
         /\ Len(Removed(r, s).players) <= Len(r.players)
         /\ Removed(r, s).online = r.online
         /\ Agreeing(r) /\ name[s] = FirstName[User[s]] => Agreeing(Removed(r, s))
<1> USE SessionsAssumption
<1> DEFINE R(b, ids, names) ==
      [players |-> RemoveFirst(r.players, s), by_token |-> r.by_token \ {s},
       online |-> r.online, raised |-> b, by_id |-> ids, by_name |-> names]
    noId == [r.by_id EXCEPT ![User[s]] = None]
    noName == [r.by_name EXCEPT ![name[s]] = None]
<1>1. /\ r \in RegistryType /\ User[s] \in Users
      /\ r.by_id \in [Users -> Sessions \cup {None}]
      /\ r.by_name \in [Names -> Sessions \cup {None}]
      /\ \A u \in Users : r.by_id[u] # None => User[r.by_id[u]] = u
  BY UsersHaveIds DEF Good, RegistryType
<1>2. r = [players |-> r.players, by_token |-> r.by_token, online |-> r.online,
           raised |-> r.raised, by_id |-> r.by_id, by_name |-> r.by_name]
  BY <1>1 DEF RegistryType
<1>3. noId \in [Users -> Sessions \cup {None}] /\ noName \in [Names -> Sessions \cup {None}]
  BY <1>1
<1>4. ASSUME NEW u \in Users, noId[u] # None PROVE noId[u] = r.by_id[u] /\ noId[u] # s
  <2>1. u # User[s] /\ noId[u] = r.by_id[u]
    BY <1>1, <1>4
  <2> HIDE DEF noId
  <2>2. r.by_id[u] # None
    BY <1>4, <2>1
  <2>3. User[r.by_id[u]] = u
    BY <1>1, <2>2
  <2>4. r.by_id[u] # s
    BY <2>1, <2>3
  <2>5. QED
    BY <2>1, <2>4
<1>5. CASE s \notin Members(r)
  <2>1. Removed(r, s) = r
    BY <1>5 DEF Removed, Members
  <2>2. Len(r.players) \in Nat
    BY <1>1, LenProperties DEF RegistryType
  <2>3. Members(r) = Members(r) \ {s}
    BY <1>5
  <2>4. Len(r.players) <= Len(r.players)
    BY <2>2
  <2> HIDE DEF R, noId, noName
  <2>5. QED
    BY <2>1, <2>3, <2>4, Zenon
<1>6. CASE s \in Members(r) /\ r.by_id[User[s]] = None
  <2>1. Removed(r, s) = R(TRUE, r.by_id, r.by_name)
    BY <1>2, <1>6 DEF Removed, Members
  <2>2. \A u \in Users : r.by_id[u] # None => r.by_id[u] # s
    BY <1>1, <1>6
  <2>3. Keeps(r, R(TRUE, r.by_id, r.by_name), s)
    BY <1>1, <2>2, Unlisting
  <2>4. /\ Removed(r, s).online = r.online /\ Removed(r, s).by_id = r.by_id
        /\ Removed(r, s).by_name = r.by_name
    BY <2>1
  <2>5. Keeps(r, Removed(r, s), s)
    BY <2>1, <2>3
  <2> HIDE DEF R
  <2>6. QED
    BY <2>4, <2>5 DEF Keeps, Agreeing
<1>7. CASE s \in Members(r) /\ r.by_id[User[s]] # None /\ r.by_name[name[s]] = None
  <2>1. Removed(r, s) = R(TRUE, noId, r.by_name)
    BY <1>2, <1>7 DEF Removed, Members
  <2>2. Keeps(r, R(TRUE, noId, r.by_name), s)
    BY <1>1, <1>3, <1>4, Unlisting
  <2>3. ~(Agreeing(r) /\ name[s] = FirstName[User[s]])
    BY <1>1, <1>7 DEF Agreeing
  <2>4. Keeps(r, Removed(r, s), s) /\ Removed(r, s).online = r.online
    BY <2>1, <2>2
  <2> HIDE DEF R
  <2>5. QED
    BY <2>3, <2>4 DEF Keeps
<1>8. CASE s \in Members(r) /\ r.by_id[User[s]] # None /\ r.by_name[name[s]] # None
  <2>1. Removed(r, s) = R(r.raised, noId, noName)
    BY <1>2, <1>8 DEF Removed, Members
  <2>2. Keeps(r, R(r.raised, noId, noName), s)
    BY <1>1, <1>3, <1>4, Unlisting DEF RegistryType
  <2>3. ASSUME Agreeing(r), name[s] = FirstName[User[s]] PROVE Agreeing(Removed(r, s))
    <3>1. Removed(r, s).by_id = noId /\ Removed(r, s).by_name = noName
      BY <2>1
    <3>2. ASSUME NEW n \in Names
          PROVE  /\ \A u \in Users : FirstName[u] = n => noName[n] = noId[u]
                 /\ (\A u \in Users : FirstName[u] # n) => noName[n] = None
      <4>1. \A u \in Users : FirstName[u] = FirstName[User[s]] => u = User[s]
        BY <1>1 DEF IsInjective
      <4>2. QED
        BY <1>1, <2>3, <4>1 DEF Agreeing
    <3>3. QED
      BY <3>1, <3>2 DEF Agreeing
  <2>4. Keeps(r, Removed(r, s), s) /\ Removed(r, s).online = r.online
    BY <2>1, <2>2
  <2> HIDE DEF R
  <2>5. QED
    BY <2>3, <2>4 DEF Keeps
<1>9. QED
  BY <1>5, <1>6, <1>7, <1>8

\* The flag that tells whether the last operation raised, and whose token is
\* valid, are beside the indexes.
LEMMA FlagsAreAside ==
  ASSUME NEW r, Good(r), NEW b \in BOOLEAN, NEW on \in SUBSET Sessions, Members(r) \subseteq on
  PROVE  LET f == [r EXCEPT !.raised = b]
             o == [r EXCEPT !.online = on]
         IN  /\ Good(f) /\ Members(f) = Members(r) /\ f.players = r.players
             /\ f.online = r.online /\ (Agreeing(r) => Agreeing(f))
             /\ Good(o) /\ Members(o) = Members(r) /\ o.players = r.players
             /\ (Agreeing(r) => Agreeing(o))
BY DEF Good, RegistryType, Members, Agreeing

LEMMA LoggedOutKeeps ==
  ASSUME NEW r, Good(r), NEW s \in Sessions
  PROVE  /\ Good(LoggedOut(r, s)) /\ Members(LoggedOut(r, s)) \subseteq Members(r)
         /\ Len(LoggedOut(r, s).players) <= Len(r.players)
         /\ Agreeing(r) /\ name[s] = FirstName[User[s]] => Agreeing(LoggedOut(r, s))
<1> DEFINE f == [r EXCEPT !.raised = FALSE]
           removed == Removed(f, s)
<1>1. Members(r) \subseteq r.online /\ r.online \in SUBSET Sessions
  BY DEF Good, RegistryType
<1>2. /\ Good(f) /\ Members(f) = Members(r) /\ f.players = r.players
      /\ f.online = r.online /\ (Agreeing(r) => Agreeing(f))
  BY <1>1, FlagsAreAside
<1> HIDE DEF f
<1>3. /\ Good(removed) /\ Members(removed) = Members(r) \ {s}
      /\ Len(removed.players) <= Len(r.players) /\ removed.online = r.online
      /\ Agreeing(r) /\ name[s] = FirstName[User[s]] => Agreeing(removed)
  BY <1>2, RemovedKeeps
<1> DEFINE o == [removed EXCEPT !.online = removed.online \ {s}]
<1> DEFINE e == [r EXCEPT !.raised = TRUE]
<1>4. LoggedOut(r, s) = removed \/ LoggedOut(r, s) = o \/ LoggedOut(r, s) = e
  BY DEF LoggedOut, f
<1>5. /\ Good(e) /\ Members(e) = Members(r) /\ e.players = r.players
      /\ (Agreeing(r) => Agreeing(e))
  BY <1>1, FlagsAreAside
<1>6. Len(r.players) \in Nat
  BY LenProperties DEF Good, RegistryType
<1> HIDE DEF e, removed
<1>7. /\ Good(o) /\ Members(o) = Members(removed) /\ o.players = removed.players
      /\ (Agreeing(removed) => Agreeing(o))
  <2>1. removed.online \ {s} \in SUBSET Sessions /\ Members(removed) \subseteq removed.online \ {s}
    BY <1>1, <1>3
  <2>2. QED
    BY <1>3, <2>1, FlagsAreAside
<1> HIDE DEF o
<1>8. CASE LoggedOut(r, s) = removed
  BY <1>3, <1>8
<1>9. CASE LoggedOut(r, s) = o
  BY <1>3, <1>7, <1>9
<1>10. CASE LoggedOut(r, s) = e
  <2>1. Len(r.players) <= Len(r.players)
    BY <1>6
  <2>2. QED
    BY <1>5, <1>10, <2>1, Zenon
<1>11. QED
  BY <1>4, <1>8, <1>9, <1>10

\* Players.append of a player who is not in the list.
LEMMA AppendedKeeps ==
  ASSUME NEW r, Good(r), NEW s \in Sessions, s \notin Members(r)
  PROVE  /\ Good(Appended(r, s)) /\ Members(Appended(r, s)) = Members(r) \cup {s}
         /\ Len(Appended(r, s).players) = Len(r.players) + 1
         /\ Agreeing(r) /\ name[s] = FirstName[User[s]] => Agreeing(Appended(r, s))
<1> USE SessionsAssumption
<1> DEFINE ids == [r.by_id EXCEPT ![User[s]] = s]
           names == [r.by_name EXCEPT ![name[s]] = s]
           list == Append(r.players, s)
           a == [players |-> list, by_token |-> r.by_token \cup {s},
                 online |-> r.online \cup {s}, raised |-> r.raised, by_id |-> ids,
                 by_name |-> names]
<1>1. /\ r \in RegistryType /\ User[s] \in Users
      /\ r.players \in Seq(Sessions) /\ IsInjective(r.players)
      /\ r.by_id \in [Users -> Sessions \cup {None}]
      /\ r.by_name \in [Names -> Sessions \cup {None}]
  BY UsersHaveIds DEF Good, RegistryType
<1>2. Appended(r, s) = a
  <2>1. r = [players |-> r.players, by_token |-> r.by_token, online |-> r.online,
             raised |-> r.raised, by_id |-> r.by_id, by_name |-> r.by_name]
    BY <1>1 DEF RegistryType
  <2> DEFINE R(p, t, o, i, n) == [players |-> p, by_token |-> t, online |-> o,
                                  raised |-> r.raised, by_id |-> i, by_name |-> n]
  <2>2. ASSUME NEW p, NEW t, NEW o, NEW i, NEW n, NEW x
        PROVE  /\ [R(p, t, o, i, n) EXCEPT !.players = x] = R(x, t, o, i, n)
               /\ [R(p, t, o, i, n) EXCEPT !.by_token = x] = R(p, x, o, i, n)
               /\ [R(p, t, o, i, n) EXCEPT !.online = x] = R(p, t, x, i, n)
               /\ [R(p, t, o, i, n) EXCEPT !.by_id = x] = R(p, t, o, x, n)
               /\ [R(p, t, o, i, n) EXCEPT !.by_name = x] = R(p, t, o, i, x)
               /\ R(p, t, o, i, n).players = p /\ R(p, t, o, i, n).by_token = t
               /\ R(p, t, o, i, n).online = o /\ R(p, t, o, i, n).by_id = i
               /\ R(p, t, o, i, n).by_name = n
    OBVIOUS
  <2>3. Appended(r, s) = [[[[[r EXCEPT !.players = list] EXCEPT !.by_token = r.by_token \cup {s}]
                            EXCEPT !.by_id = ids] EXCEPT !.by_name = names]
                            EXCEPT !.online = r.online \cup {s}]
    BY <1>1 DEF Appended, RegistryType
  <2> HIDE DEF R, ids, names, list
  <2>4. QED
    BY <2>1, <2>2, <2>3 DEF R
<1>3. /\ list \in Seq(Sessions) /\ IsInjective(list) /\ Range(list) = Members(r) \cup {s}
      /\ Len(list) = Len(r.players) + 1
  BY <1>1, AppendNew, AppendProperties DEF Members
<1>4. ids \in [Users -> Sessions \cup {None}] /\ names \in [Names -> Sessions \cup {None}]
  BY <1>1
<1> HIDE DEF list
<1>5. Good(a) /\ Members(a) = Members(r) \cup {s} /\ Len(a.players) = Len(r.players) + 1
  <2>1. a \in RegistryType
    BY <1>1, <1>3, <1>4 DEF RegistryType
  <2>2. Members(a) = Members(r) \cup {s} /\ Len(a.players) = Len(r.players) + 1
    BY <1>3 DEF Members
  <2>3. a.by_token = Members(a) /\ Members(a) \subseteq a.online
    BY <2>2 DEF Good
  <2>4. \A u \in Users : ids[u] # None => ids[u] \in Members(r) \cup {s} /\ User[ids[u]] = u
    BY <1>1 DEF Good
  <2>5. QED
    BY <1>3, <2>1, <2>2, <2>3, <2>4 DEF Good
<1>6. ASSUME Agreeing(r), name[s] = FirstName[User[s]] PROVE Agreeing(a)
  <2>1. \A u \in Users : FirstName[u] = FirstName[User[s]] => u = User[s]
    BY <1>1 DEF IsInjective
  <2>2. ASSUME NEW n \in Names
        PROVE  /\ \A u \in Users : FirstName[u] = n => names[n] = ids[u]
               /\ (\A u \in Users : FirstName[u] # n) => names[n] = None
    BY <1>1, <1>6, <2>1 DEF Agreeing
  <2>3. QED
    BY <2>2 DEF Agreeing
<1>7. QED
  BY <1>2, <1>5, <1>6

-----------------------------------------------------------------------------
(* The invariant.                                                          *)

\* Whom an index finds, under Inv; everybody in the list has logged in.
LEMMA Found ==
  ASSUME Inv
  PROVE  /\ Listed = Members(registry) /\ Listed \subseteq Sessions
         /\ \A s \in Listed : step[s] = "in"
         /\ \A n \in Names : registry.by_name[n] \in Sessions \cup {None}
         /\ \A n \in Names : renames = 0 /\ registry.by_name[n] # None =>
              registry.by_name[n] \in Listed /\ name[registry.by_name[n]] = n
<1> USE SessionsAssumption
<1>1. /\ registry.players \in Seq(Sessions) /\ registry.by_name \in [Names -> Sessions \cup {None}]
      /\ \A u \in Users : registry.by_id[u] # None =>
           registry.by_id[u] \in Members(registry) /\ User[registry.by_id[u]] = u
  BY DEF Inv, Good, RegistryType
<1>2. Listed = Members(registry) /\ \A s \in Listed : step[s] = "in"
  BY DEF Listed, Members, Inv, Typed
<1>3. Listed \subseteq Sessions
  BY <1>1 DEF Listed, Range
<1>4. ASSUME NEW n \in Names, renames = 0, registry.by_name[n] # None
      PROVE  registry.by_name[n] \in Listed /\ name[registry.by_name[n]] = n
  <2>1. /\ \A s \in Sessions : step[s] \in {"authenticated", "in"} => name[s] = FirstName[User[s]]
        /\ Agreeing(registry)
    BY <1>4 DEF Inv, Unrenamed
  <2>2. PICK u \in Users : FirstName[u] = n /\ registry.by_name[n] = registry.by_id[u]
    BY <1>4, <2>1 DEF Agreeing
  <2>3. QED
    BY <1>1, <1>2, <1>3, <1>4, <2>1, <2>2
<1>5. QED
  BY <1>1, <1>2, <1>3, <1>4

LEMMA InitInv == Init => Inv
<1> USE SessionsAssumption
<1> SUFFICES ASSUME Init PROVE Inv
  OBVIOUS
<1>1. registry.players = <<>> /\ Members(registry) = {} /\ Listed = {}
  BY DEF Init, Members, Listed, Range
<1>2. <<>> \in Seq(Sessions) /\ IsInjective(<<>>) /\ Len(<<>>) = 0
  BY DEF IsInjective
<1>3. registry \in RegistryType
  BY <1>2 DEF Init, RegistryType
<1>4. Good(registry)
  BY <1>1, <1>2, <1>3 DEF Init, Good
<1>5. Typed
  BY <1>1 DEF Init, Typed
<1>6. Unrenamed
  BY DEF Init, Unrenamed, Agreeing
<1>7. QED
  BY <1>4, <1>5, <1>6 DEF Inv

\* What an operation keeps if it leaves the players alone.
LEMMA BesideTheRegistry ==
  ASSUME Inv, registry' = registry, sweep' = sweep
  PROVE  /\ Good(registry') /\ Listed' = Listed
         /\ sweep' \in {1} \cup 1..Len(registry.players)'
         /\ (Agreeing(registry) => Agreeing(registry)')
BY DEF Inv, Typed, Good, Members, Listed, Agreeing

\* What an operation keeps that logs s out.
LEMMA Leaving ==
  ASSUME Inv, NEW s \in Sessions, registry' = LoggedOut(registry, s)
  PROVE  /\ Good(registry') /\ Listed' \subseteq Listed
         /\ Len(registry.players)' <= Len(registry.players)
         /\ (Agreeing(registry) /\ name[s] = FirstName[User[s]] => Agreeing(registry)')
<1>1. Good(registry) /\ Listed = Members(registry)
  BY Found DEF Inv
<1>2. QED
  BY <1>1, LoggedOutKeeps DEF Listed, Members, Agreeing

-----------------------------------------------------------------------------
(* Every step keeps it.                                                    *)

LEMMA CheckExistingKeeps ==
  ASSUME Inv, sweep = 1, sweep' = 1, NEW s \in Sessions, NEW n \in Names, CheckExisting(s, n)
  PROVE  Inv'
<1> USE SessionsAssumption
<1> DEFINE found == registry.by_name[n]
<1>1. /\ step[s] = "new" /\ name' = [name EXCEPT ![s] = n]
      /\ UNCHANGED <<account, recv, renaming, leaving, renames>>
  BY DEF CheckExisting
<1>2. /\ \/ registry' = registry
         \/ found \in Sessions /\ registry' = LoggedOut(registry, found)
      /\ \E to \in {"checked", "refused"} : step' = [step EXCEPT ![s] = to]
  BY Found DEF CheckExisting, Goes
<1>3. /\ Good(registry') /\ Listed' \subseteq Listed
      /\ (renames = 0 => Agreeing(registry)')
  <2>1. CASE registry' = registry
    BY <2>1, BesideTheRegistry DEF Inv, Unrenamed
  <2>2. CASE found \in Sessions /\ registry' = LoggedOut(registry, found)
    <3>1. found # None
      BY <2>2
    <3>2. renames = 0 => Agreeing(registry) /\ name[found] = FirstName[User[found]]
      BY <2>2, <3>1, Found DEF Inv, Unrenamed
    <3>3. QED
      BY <2>2, <3>2, Leaving
  <2>3. QED
    BY <1>2, <2>1, <2>2
<1>4. s \notin Listed
  BY <1>1, Found
<1>5. Typed'
  <2>1. \A x \in Listed' : step'[x] = "in"
    BY <1>2, <1>3, <1>4, Found DEF Inv, Typed
  <2>2. QED
    BY <1>1, <1>2, <2>1 DEF Inv, Typed
<1>6. Unrenamed'
  BY <1>1, <1>2, <1>3 DEF Inv, Typed, Unrenamed
<1>7. QED
  BY <1>3, <1>5, <1>6 DEF Inv

LEMMA AuthenticateKeeps ==
  ASSUME Inv, sweep = 1, sweep' = 1, NEW s \in Sessions, Authenticate(s)
  PROVE  Inv'
<1>1. /\ step[s] = "checked" /\ UNCHANGED <<account, name, recv, registry, renaming, leaving, renames>>
      /\ \E to \in {"authenticated", "refused"} :
           step' = [step EXCEPT ![s] = to] /\ (to = "authenticated" => account[User[s]] = name[s])
  BY DEF Authenticate, Goes
<1>2. /\ Good(registry') /\ Listed' = Listed /\ s \notin Listed
      /\ (Agreeing(registry) => Agreeing(registry)')
  BY <1>1, BesideTheRegistry, Found
<1>3. Typed'
  <2>1. \A x \in Listed' : step'[x] = "in"
    BY <1>1, <1>2, Found DEF Inv, Typed
  <2>2. QED
    BY <1>1, <2>1 DEF Inv, Typed
<1>4. Unrenamed'
  BY <1>1, <1>2 DEF Inv, Typed, Unrenamed
<1>5. QED
  BY <1>2, <1>3, <1>4 DEF Inv

LEMMA FinishLoginKeeps ==
  ASSUME Inv, sweep = 1, sweep' = 1, NEW s \in Sessions, FinishLogin(s)
  PROVE  Inv'
<1>1. /\ step[s] = "authenticated" /\ step' = [step EXCEPT ![s] = "in"]
      /\ recv' = [recv EXCEPT ![s] = "active"] /\ registry' = Appended(registry, s)
      /\ UNCHANGED <<account, name, renaming, leaving, renames>>
  BY DEF FinishLogin, Goes
<1>2. Good(registry) /\ s \notin Members(registry) /\ Listed = Members(registry)
  BY <1>1, Found DEF Inv
<1>3. /\ Good(registry') /\ Listed' = Listed \cup {s}
      /\ Len(registry.players)' = Len(registry.players) + 1
      /\ (Agreeing(registry) /\ name[s] = FirstName[User[s]] => Agreeing(registry)')
  BY <1>1, <1>2, AppendedKeeps DEF Listed, Members, Agreeing
<1>4. Typed'
  <2>1. \A x \in Listed' : step'[x] = "in"
    BY <1>1, <1>3, Found DEF Inv, Typed
  <2>2. QED
    BY <1>1, <2>1 DEF Inv, Typed
<1>5. Unrenamed'
  BY <1>1, <1>3 DEF Inv, Typed, Unrenamed
<1>6. QED
  BY <1>3, <1>4, <1>5 DEF Inv

\* A session is logged out, and nothing of it changes but the registry.
LEMMA LeavingKeeps ==
  ASSUME Inv, NEW s \in Sessions, registry' = LoggedOut(registry, s),
         renames = 0 => s \in Listed,
         sweep' \in {1} \cup 1..Len(registry.players)',
         UNCHANGED <<account, step, name, recv, renaming, renames>>, leaving' \subseteq leaving
  PROVE  Inv'
<1>1. renames = 0 => name[s] = FirstName[User[s]]
  BY Found DEF Inv, Unrenamed
<1>2. /\ Good(registry') /\ Listed' \subseteq Listed
      /\ (renames = 0 => Agreeing(registry)')
  BY <1>1, Leaving DEF Inv, Unrenamed
<1>3. Typed'
  BY <1>2 DEF Inv, Typed
<1>4. Unrenamed'
  BY <1>2 DEF Inv, Unrenamed
<1>5. QED
  BY <1>2, <1>3, <1>4 DEF Inv

LEMMA DisconnectGhostsKeeps ==
  ASSUME Inv, DisconnectGhosts
  PROVE  Inv'
<1> DEFINE s == registry.players[sweep]
<1>1. /\ sweep > 1 \/ \E x \in Listed : recv[x] = "ghost"
      /\ registry' = IF recv[s] = "ghost" THEN LoggedOut(registry, s)
                     ELSE [registry EXCEPT !.raised = FALSE]
      /\ sweep' = IF registry'.raised \/ sweep >= Len(registry'.players) THEN 1 ELSE sweep + 1
      /\ UNCHANGED <<account, step, name, recv, renaming, leaving, renames>>
  BY DEF DisconnectGhosts
<1>2. /\ registry.players \in Seq(Sessions) /\ Len(registry.players) \in Nat
      /\ DOMAIN registry.players = 1..Len(registry.players)
      /\ sweep \in {1} \cup 1..Len(registry.players)
  BY LenProperties DEF Inv, Typed, Good, RegistryType
<1>3. sweep \in 1..Len(registry.players)
  <2>1. CASE sweep > 1
    BY <1>2, <2>1
  <2>2. CASE \E x \in Listed : recv[x] = "ghost"
    BY <1>2, <2>2 DEF Listed, Range
  <2>3. QED
    BY <1>1, <2>1, <2>2
<1>4. s \in Listed /\ s \in Sessions
  BY <1>2, <1>3, Found DEF Listed, Range
<1>5. ASSUME Good(registry')
      PROVE  sweep' \in {1} \cup 1..Len(registry.players)'
  <2>1. Len(registry'.players) \in Nat
    BY <1>5, LenProperties DEF Good, RegistryType
  <2>2. QED
    BY <1>1, <1>2, <2>1
<1>6. CASE recv[s] = "ghost"
  <2>1. registry' = LoggedOut(registry, s)
    BY <1>1, <1>6
  <2>2. Good(registry')
    BY <1>4, <2>1, Leaving
  <2>3. QED
    BY <1>1, <1>4, <1>5, <2>1, <2>2, LeavingKeeps
<1>7. CASE recv[s] # "ghost"
  <2>1. registry' = [registry EXCEPT !.raised = FALSE]
    BY <1>1, <1>7
  <2>2. /\ Good(registry) /\ Members(registry) \subseteq registry.online
        /\ registry.online \in SUBSET Sessions
    BY DEF Inv, Good, RegistryType
  <2>3. /\ Good(registry') /\ registry'.players = registry.players
        /\ (Agreeing(registry) => Agreeing(registry'))
    BY <2>1, <2>2, FlagsAreAside
  <2>4. Listed' = Listed /\ (Agreeing(registry) => Agreeing(registry)')
    BY <2>3 DEF Listed, Agreeing
  <2>5. Typed'
    BY <1>1, <1>5, <2>3, <2>4 DEF Inv, Typed
  <2>6. Unrenamed'
    BY <1>1, <2>4 DEF Inv, Unrenamed
  <2>7. QED
    BY <2>3, <2>5, <2>6 DEF Inv
<1>8. QED
  BY <1>6, <1>7

\* What a step keeps that leaves the players and the logins alone.
LEMMA AsideKeeps ==
  ASSUME Inv, sweep' = sweep, UNCHANGED <<step, name, registry>>,
         account' \in [Users -> Names], recv' \in [Sessions -> {"active", "idle", "ghost"}],
         renaming' \in [Users -> Names \cup {None}], leaving' \subseteq Sessions,
         \/ renames' = renames /\ UNCHANGED <<account, renaming, leaving>>
         \/ renames' \in 1..MaxRenames
  PROVE  Inv'
<1>1. /\ Good(registry') /\ Listed' = Listed /\ sweep' \in {1} \cup 1..Len(registry.players)'
      /\ (Agreeing(registry) => Agreeing(registry)')
  BY BesideTheRegistry
<1>2. renames' \in 0..MaxRenames
  BY SessionsAssumption DEF Inv, Typed
<1>3. Typed'
  BY <1>1, <1>2 DEF Inv, Typed
<1>4. Unrenamed'
  BY <1>1 DEF Inv, Unrenamed
<1>5. QED
  BY <1>1, <1>3, <1>4 DEF Inv

LEMMA TakesKeeps ==
  ASSUME Inv, NEW u \in Users, NEW n \in Names, Takes(u, n)
  PROVE  account' \in [Users -> Names] /\ renames' \in 1..MaxRenames
<1>1. /\ renames < MaxRenames /\ renames' = renames + 1 /\ account' = [account EXCEPT ![u] = n]
      /\ renames \in 0..MaxRenames /\ account \in [Users -> Names]
  BY DEF Takes, Inv, Typed
<1>2. QED
  BY <1>1, SessionsAssumption

\* A name is applied to a player only once somebody was renamed.
LEMMA UpdateProfileEndsKeeps ==
  ASSUME Inv, sweep' = sweep, NEW u \in Users, UpdateProfileEnds(u)
  PROVE  Inv'
<1> USE SessionsAssumption
<1>1. /\ renaming[u] # None /\ renaming' = [renaming EXCEPT ![u] = None]
      /\ name' = IF registry.by_id[u] = None THEN name
                 ELSE [name EXCEPT ![registry.by_id[u]] = renaming[u]]
      /\ UNCHANGED <<account, step, recv, registry, leaving, renames>>
  BY DEF UpdateProfileEnds
<1>2. renames # 0
  BY <1>1 DEF Inv, Unrenamed
<1>3. /\ Good(registry') /\ Listed' = Listed /\ sweep' \in {1} \cup 1..Len(registry.players)'
  BY <1>1, BesideTheRegistry
<1>4. name' \in [Sessions -> Names \cup {None}] /\ renaming' \in [Users -> Names \cup {None}]
  BY <1>1 DEF Inv, Typed
<1>5. Typed'
  BY <1>1, <1>3, <1>4 DEF Inv, Typed
<1>6. Unrenamed'
  BY <1>1, <1>2 DEF Unrenamed
<1>7. QED
  BY <1>3, <1>5, <1>6 DEF Inv

LEMMA StepKeepsInv == Inv /\ [Next]_vars => Inv'
<1> USE SessionsAssumption
<1> SUFFICES ASSUME Inv, [Next]_vars PROVE Inv'
  OBVIOUS
<1>1. CASE DisconnectGhosts
  BY <1>1, DisconnectGhostsKeeps
<1>2. ASSUME sweep = 1, sweep' = 1, Handler \/ \E s \in Sessions : Displace(s) PROVE Inv'
  <2>1. ASSUME NEW u \in Users, UpdateProfile(u) PROVE Inv'
    <3>1. PICK n \in Names : Takes(u, n) /\ renaming' = [renaming EXCEPT ![u] = n]
      BY <2>1 DEF UpdateProfile
    <3>2. UNCHANGED <<step, name, recv, registry, leaving>>
      BY <2>1 DEF UpdateProfile
    <3>3. account' \in [Users -> Names] /\ renames' \in 1..MaxRenames
      BY <3>1, TakesKeeps
    <3>4. /\ renaming' \in [Users -> Names \cup {None}]
          /\ recv' \in [Sessions -> {"active", "idle", "ghost"}] /\ leaving' \subseteq Sessions
      BY <3>1, <3>2 DEF Inv, Typed
    <3>5. QED
      BY <1>2, <3>2, <3>3, <3>4, AsideKeeps
  <2>2. ASSUME NEW u \in Users, UpdateProfileEnds(u) PROVE Inv'
    BY <1>2, <2>2, UpdateProfileEndsKeeps
  <2>3. ASSUME NEW s \in Sessions, NEW n \in Names, CheckExisting(s, n) PROVE Inv'
    BY <1>2, <2>3, CheckExistingKeeps
  <2>4. ASSUME NEW s \in Sessions, Authenticate(s) PROVE Inv'
    BY <1>2, <2>4, AuthenticateKeeps
  <2>5. ASSUME NEW s \in Sessions, FinishLogin(s) PROVE Inv'
    BY <1>2, <2>5, FinishLoginKeeps
  <2>6. ASSUME NEW s \in Sessions, Request(s) \/ Silence(s) PROVE Inv'
    <3>1. /\ recv' = [recv EXCEPT ![s] = "active"]
             \/ recv' = [recv EXCEPT ![s] = IF recv[s] = "active" THEN "idle" ELSE "ghost"]
          /\ UNCHANGED <<account, step, name, registry, renaming, leaving, renames>>
      BY <2>6 DEF Request, Silence
    <3>2. /\ account' \in [Users -> Names] /\ renaming' \in [Users -> Names \cup {None}]
          /\ recv' \in [Sessions -> {"active", "idle", "ghost"}] /\ leaving' \subseteq Sessions
      BY <3>1 DEF Inv, Typed
    <3>3. QED
      BY <1>2, <3>1, <3>2, AsideKeeps
  <2>7. ASSUME NEW s \in Sessions, Logout(s) PROVE Inv'
    BY <1>2, <2>7, LeavingKeeps DEF Logout
  <2>8. ASSUME NEW s \in Sessions, ChangeName(s) PROVE Inv'
    <3>1. PICK n \in Names : Takes(User[s], n)
      BY <2>8 DEF ChangeName
    <3>2. /\ leaving' = leaving \cup {s}
          /\ UNCHANGED <<step, name, recv, registry, renaming>>
      BY <2>8 DEF ChangeName
    <3>3. account' \in [Users -> Names] /\ renames' \in 1..MaxRenames
      BY <3>1, UsersHaveIds, TakesKeeps
    <3>4. /\ renaming' \in [Users -> Names \cup {None}]
          /\ recv' \in [Sessions -> {"active", "idle", "ghost"}] /\ leaving' \subseteq Sessions
      BY <3>2 DEF Inv, Typed
    <3>5. QED
      BY <1>2, <3>2, <3>3, <3>4, AsideKeeps
  <2>9. ASSUME NEW s \in Sessions, ChangeNameEnds(s) PROVE Inv'
    <3>1. renames # 0
      BY <2>9 DEF ChangeNameEnds, Inv, Unrenamed
    <3>2. QED
      BY <1>2, <2>9, <3>1, LeavingKeeps DEF ChangeNameEnds
  <2>10. ASSUME NEW s \in Sessions, Displace(s) PROVE Inv'
    BY <1>2, <2>10, AsideKeeps DEF Displace, Inv, Typed
  <2>11. QED
    BY <1>2, <2>1, <2>2, <2>3, <2>4, <2>5, <2>6, <2>7, <2>8, <2>9, <2>10 DEF Handler
<1>3. CASE UNCHANGED vars
  BY <1>3, AsideKeeps DEF vars, Inv, Typed
<1>4. QED
  BY <1>1, <1>2, <1>3 DEF Next

\* Only who is listed is displaced.
LEMMA DisplacedKeeps ==
  Inv /\ displaced \subseteq Sessions /\ [Next]_vars => displaced' \subseteq Sessions
BY Found DEF Next, Displace, DisconnectGhosts, vars

-----------------------------------------------------------------------------
(* What it gives.                                                          *)

LEMMA InvIsEnough == Inv /\ displaced \subseteq Sessions => IndexInv
<1> SUFFICES ASSUME Inv, displaced \subseteq Sessions PROVE IndexInv
  OBVIOUS
<1>1. TypeOK
  BY DEF Inv, Typed, Good, RegistryType, TypeOK
<1>2. TokensAreListed /\ IdsFindListed
  BY DEF Inv, Good, Members, TokensAreListed, IdsFindListed, Listed
<1>3. NamesFindListed
  BY Found DEF NamesFindListed
<1>4. QED
  BY <1>1, <1>2, <1>3 DEF IndexInv

\* Whom a request finds by its token, and a handler by user id, is in the list
\* and online; whom a login or a score finds by name too, until the first rename.
\* This holds with any number of tourney clients of one user, whose logouts delete
\* each other's entries and raise half way, and of displaced players, whose logouts
\* raise before anything is done (Players.append and remove, Player.logout).
THEOREM IndexesSafe == Spec => []IndexInv
<1> DEFINE IInv == Inv /\ displaced \subseteq Sessions
<1>1. Init => IInv
  BY InitInv DEF Init
<1>2. IInv /\ [Next]_vars => IInv'
  BY StepKeepsInv, DisplacedKeeps
<1>3. IInv => IndexInv
  BY InvIsEnough
<1> HIDE DEF IInv
<1>4. QED
  BY <1>1, <1>2, <1>3, PTL DEF Spec
=============================================================================
