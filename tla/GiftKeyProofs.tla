---------------------------- MODULE GiftKeyProofs ----------------------------
(***************************************************************************)
(* The inductive invariant of GiftKey.  While a key is in the cache its    *)
(* count is the number of uses allowed (KeyInv); otherwise the last write  *)
(* of the key that is under way has it, or the row.  A load is behind all  *)
(* writes of its key (LoadInv), so it brings that number too (LoadedInv).  *)
(***************************************************************************)
EXTENDS GiftKey, TLAPS, FiniteSetTheorems, WellFoundedInduction

(* The number of uses, or nothing because the key was deleted.             *)
Current(count, k) == count = GrantsOf(k) \/ (count = NoRow /\ deletes > 0)

LastOf(i, S) == i \in S /\ \A j \in S : j <= i

KeyInv ==
  \A k \in Keys :
    /\ cache[k] # None => cache[k] = GrantsOf(k)
    /\ cache[k] = None /\ SavesOf(k) = {} => Current(db[k], k)
    /\ cache[k] = None => \A i \in SavesOf(k) : LastOf(i, SavesOf(k)) => queries[i].values[k] = GrantsOf(k)

LoadInv ==
  \A i \in DOMAIN queries : queries[i].op = "load" =>
    /\ state[queries[i].req] = "loading" /\ loaded[queries[i].req] = None
    /\ \A j \in SavesOf(KeyOf[queries[i].req]) : j < i
    /\ \A j \in DOMAIN queries : queries[j].op = "load" /\ queries[j].req = queries[i].req => j = i

LoadedInv ==
  \A q \in Requests : loaded[q] # None => state[q] = "loading" /\ Current(loaded[q], KeyOf[q])

(* Rows go by deletion only.                                               *)
DeleteInv ==
  /\ \A k \in Keys : db[k] = NoRow => deletes > 0
  /\ \A i \in DOMAIN queries : queries[i].op = "delete" => deletes > 0

GrantInv == \A q \in granted : state[q] \in {"answered", "over"}

(* The socket's lock keeps the requests of a role apart, and what it used  *)
(* is noted before it is free.                                             *)
RoleInv ==
  reconnects = 0 =>
    \A q \in Requests :
      /\ state[q] \in {"called", "loading", "answered"} =>
           /\ current[RoleOf[q]] = q
           /\ \A k \in used[RoleOf[q]] : BatchOf[k] # BatchOf[KeyOf[q]]
      /\ q \in granted /\ state[q] = "over" => KeyOf[q] \in used[RoleOf[q]]

-----------------------------------------------------------------------------
(* A nonempty set of positions has a last one.                             *)
LEMMA LessIs == OpToRel(<, Nat) = {x \in Nat \X Nat : x[1] < x[2]}
BY DEF OpToRel

LEMMA Greatest ==
  ASSUME NEW n \in Nat, NEW S, S \subseteq 1 .. n, S # {}
  PROVE  \E i \in S : LastOf(i, S)
<1>1. PICK T : T = {n - i : i \in S}
  OBVIOUS
<1>2. T \subseteq Nat /\ T # {}
  <2>1. \A i \in S : n - i \in Nat /\ n - i \in T
    BY <1>1
  <2>2. QED
    BY <1>1, <2>1
<1>3. PICK x \in T : \A y \in T : <<y, x>> \notin OpToRel(<, Nat)
  BY <1>2, NatLessThanWellFounded, WFMin
<1>4. PICK i \in S : x = n - i
  BY <1>1
<1>5. ASSUME NEW j \in S PROVE j <= i
  <2>1. n - j \in T /\ n - j \in Nat /\ x \in Nat
    BY <1>1, <1>2
  <2>2. <<n - j, x>> \notin {z \in Nat \X Nat : z[1] < z[2]}
    BY <1>3, <2>1, LessIs
  <2>3. ~(n - j < n - i)
    BY <1>4, <2>1, <2>2
  <2>4. i \in Nat /\ j \in Nat
    OBVIOUS
  <2>5. QED
    BY <2>3, <2>4
<1>6. QED
  BY <1>5 DEF LastOf

LEMMA Appended ==
  ASSUME NEW S, NEW s \in Seq(S), NEW e \in S, NEW t, t = Append(s, e)
  PROVE  /\ t \in Seq(S)
         /\ \E n \in Nat : /\ DOMAIN s = 1 .. n /\ DOMAIN t = 1 .. (n + 1) /\ t[n + 1] = e
                          /\ \A i \in 1 .. n : t[i] = s[i]
<1>1. PICK n \in Nat : n = Len(s)
  OBVIOUS
<1>2. /\ t \in Seq(S) /\ DOMAIN s = 1 .. n /\ DOMAIN t = 1 .. (n + 1) /\ t[n + 1] = e
      /\ \A i \in 1 .. n : t[i] = s[i]
  BY <1>1
<1>3. QED
  BY <1>2

LEMMA Removed ==
  ASSUME NEW S, NEW s \in Seq(S), 1 \in DOMAIN s,
         NEW t, t = SubSeq(s, 1, 1 - 1) \o SubSeq(s, 1 + 1, Len(s))
  PROVE  /\ t \in Seq(S)
         /\ \E n \in Nat : /\ DOMAIN s = 1 .. (n + 1) /\ DOMAIN t = 1 .. n
                          /\ \A i \in 1 .. n : t[i] = s[i + 1]
<1>1. PICK n \in Nat : Len(s) = n + 1
  <2>1. Len(s) \in Nat /\ Len(s) # 0 /\ DOMAIN s = 1 .. Len(s)
    OBVIOUS
  <2>2. Len(s) - 1 \in Nat /\ Len(s) = (Len(s) - 1) + 1
    BY <2>1
  <2>3. QED
    BY <2>2
<1>2. PICK a : a = SubSeq(s, 1, 1 - 1)
  OBVIOUS
<1>3. PICK b : b = SubSeq(s, 1 + 1, Len(s))
  OBVIOUS
<1>4. a \in Seq(S) /\ Len(a) = 0
  BY <1>2
<1>5. b \in Seq(S) /\ Len(b) = n /\ DOMAIN b = 1 .. n /\ \A i \in 1 .. n : b[i] = s[i + 1]
  BY <1>1, <1>3
<1>6. t = a \o b
  BY <1>2, <1>3
<1>7. t \in Seq(S) /\ Len(t) = n /\ DOMAIN t = 1 .. n /\ \A i \in 1 .. n : t[i] = b[i]
  BY <1>4, <1>5, <1>6
<1>8. DOMAIN s = 1 .. (n + 1)
  BY <1>1
<1>9. QED
  BY <1>5, <1>7, <1>8

LEMMA QueryFields ==
  ASSUME NEW q \in Query
  PROVE  /\ q.op \in {"load", "save", "delete"}
         /\ q.op = "load" => q.req \in Requests
         /\ q.op = "delete" => q.key \in Keys
         /\ q.op = "save" => q.values \in [Keys -> Count \cup {None}]
BY DEF Query

(* None, NoRow, requests and counts are apart.                             *)
LEMMA Apart ==
  /\ None # NoRow /\ None \notin Requests /\ Count \subseteq Nat
  /\ \A n \in Nat : n # None /\ n # NoRow
  /\ KeyOf \in [Requests -> Keys] /\ RoleOf \in [Requests -> Roles]
BY GiftKeyAssumption, FS_CardinalityType DEF Count

(* What an answer adds to the number of uses.                              *)
LEMMA GrantsInCount ==
  ASSUME granted \subseteq Requests, NEW k
  PROVE  GrantsOf(k) \in Count
<1>1. PICK S : S = {q \in granted : KeyOf[q] = k}
  OBVIOUS
<1>2. S \subseteq Requests
  BY <1>1
<1>3. IsFiniteSet(S) /\ Cardinality(S) <= Cardinality(Requests)
  BY <1>2, GiftKeyAssumption, FS_Subset
<1>4. Cardinality(S) \in Nat /\ Cardinality(Requests) \in Nat
  BY <1>3, GiftKeyAssumption, FS_CardinalityType
<1>5. QED
  BY <1>1, <1>3, <1>4 DEF GrantsOf, Count

LEMMA GrantsGrow ==
  ASSUME granted \subseteq Requests, NEW q \in Requests, q \notin granted,
         granted' = granted \cup {q}
  PROVE  \A k : GrantsOf(k)' = IF KeyOf[q] = k THEN GrantsOf(k) + 1 ELSE GrantsOf(k)
<1>1. ASSUME NEW k PROVE GrantsOf(k)' = IF KeyOf[q] = k THEN GrantsOf(k) + 1 ELSE GrantsOf(k)
  <2>1. PICK S : S = {p \in granted : KeyOf[p] = k}
    OBVIOUS
  <2>2. PICK T : T = {p \in granted' : KeyOf[p] = k}
    OBVIOUS
  <2>3. IsFiniteSet(S) /\ q \notin S
    BY <2>1, GiftKeyAssumption, FS_Subset
  <2>4. CASE KeyOf[q] = k
    <3>1. T = S \cup {q}
      BY <2>1, <2>2, <2>4
    <3>2. Cardinality(T) = Cardinality(S) + 1
      BY <2>3, <3>1, FS_AddElement
    <3>3. QED
      BY <2>1, <2>2, <2>4, <3>2 DEF GrantsOf
  <2>5. CASE KeyOf[q] # k
    <3>1. T = S
      BY <2>1, <2>2, <2>5
    <3>2. QED
      BY <2>1, <2>2, <2>5, <3>1 DEF GrantsOf
  <2>6. QED
    BY <2>4, <2>5
<1>2. QED
  BY <1>1
-----------------------------------------------------------------------------
(* The invariant has two parts: the world, and the roles in the agent.     *)
WorldInv ==
  TypeOK /\ KeyInv /\ LoadInv /\ LoadedInv /\ DeleteInv /\ GrantInv /\ NeverOverused

SocketInv == RoleInv /\ OnePerBatch

LEMMA QueueTypes ==
  ASSUME TypeOK
  PROVE  /\ \A i \in DOMAIN queries : queries[i] \in Query
         /\ \E n \in Nat : DOMAIN queries = 1 .. n
<1>1. queries \in Seq(Query)
  BY DEF TypeOK
<1>2. QED
  BY <1>1

(* Steps of the agent, and uses the world refuses at once.                 *)
LEMMA WorldQuiet ==
  ASSUME WorldInv, TypeOK', UNCHANGED <<granted, cache, queries, db, loaded, deletes>>,
         \A q \in Requests : state[q] = "loading" => state'[q] = "loading",
         \A q \in granted : state'[q] \in {"answered", "over"}
  PROVE  WorldInv'
<1>1. KeyInv' /\ DeleteInv' /\ NeverOverused'
  BY DEF WorldInv, KeyInv, DeleteInv, NeverOverused, SavesOf, GrantsOf, Current
<1>2. \A i \in DOMAIN queries : queries[i].op = "load" => queries[i].req \in Requests
  BY QueueTypes, QueryFields DEF WorldInv
<1>3. LoadInv'
  BY <1>2 DEF WorldInv, LoadInv, SavesOf
<1>4. LoadedInv' /\ GrantInv'
  BY DEF WorldInv, LoadedInv, GrantInv, Current, GrantsOf
<1>5. QED
  BY <1>1, <1>3, <1>4 DEF WorldInv

LEMMA WorldUseStep ==
  ASSUME WorldInv, NEW q \in Requests, Use(q)
  PROVE  WorldInv'
<1>1. /\ state[q] = "new" /\ UNCHANGED <<used, granted, lock, cache, queries, db, loaded, reconnects, deletes>>
      /\ \E v \in {"over", "called"} : state' = [state EXCEPT ![q] = v]
      /\ current' = current \/ current' = [current EXCEPT ![RoleOf[q]] = q]
  BY DEF Use
<1>2. TypeOK'
  BY <1>1, Apart DEF WorldInv, TypeOK
<1>3. QED
  BY <1>1, <1>2, WorldQuiet DEF WorldInv, TypeOK, GrantInv

LEMMA WorldReconnect ==
  ASSUME WorldInv, NEW r \in Roles, Reconnect(r)
  PROVE  WorldInv'
<1>1. reconnects' \in 0 .. MaxReconnects
  BY GiftKeyAssumption DEF WorldInv, TypeOK, Reconnect
<1>2. current' \in [Roles -> Requests \cup {None}]
  BY DEF WorldInv, TypeOK, Reconnect
<1>3. TypeOK'
  BY <1>1, <1>2 DEF WorldInv, TypeOK, Reconnect
<1>4. QED
  BY <1>3, WorldQuiet DEF WorldInv, GrantInv, Reconnect

LEMMA WorldAnswered ==
  ASSUME WorldInv, NEW q \in Requests, Answered(q)
  PROVE  WorldInv'
<1>1. /\ state[q] = "answered" /\ state' = [state EXCEPT ![q] = "over"]
      /\ current' = [current EXCEPT ![RoleOf[q]] = IF @ = q THEN None ELSE @]
      /\ used' = [used EXCEPT ![RoleOf[q]] = IF q \in granted THEN @ \cup {KeyOf[q]} ELSE @]
      /\ UNCHANGED <<granted, lock, cache, queries, db, loaded, reconnects, deletes>>
  BY DEF Answered
<1>2. PICK r \in Roles, k \in Keys : r = RoleOf[q] /\ k = KeyOf[q]
  BY Apart
<1>3. current' \in [Roles -> Requests \cup {None}]
  BY <1>1, <1>2 DEF WorldInv, TypeOK
<1>4. used' \in [Roles -> SUBSET Keys]
  BY <1>1, <1>2 DEF WorldInv, TypeOK
<1>5. TypeOK'
  BY <1>1, <1>3, <1>4, Apart DEF WorldInv, TypeOK
<1>6. QED
  BY <1>1, <1>5, WorldQuiet DEF WorldInv, TypeOK, GrantInv

LEMMA WorldUseLocked ==
  ASSUME WorldInv, NEW q \in Requests, UseLocked(q)
  PROVE  WorldInv'
<1>1. /\ state[q] = "called" /\ state' = [state EXCEPT ![q] = "answered"]
      /\ UNCHANGED <<current, used, reconnects, granted, lock, cache, queries, db, loaded, deletes>>
  BY DEF UseLocked, agent
<1>2. TypeOK'
  BY <1>1 DEF WorldInv, TypeOK
<1>3. QED
  BY <1>1, <1>2, WorldQuiet DEF WorldInv, TypeOK, GrantInv

(* A request is decided on the count that it was given.                    *)
LEMMA WorldDecide ==
  ASSUME WorldInv, NEW q \in Requests, NEW count, Decide(q, count),
         state[q] \in {"called", "loading"}, count # None,
         count = GrantsOf(KeyOf[q]) \/ count = NoRow,
         \A i \in DOMAIN queries : queries[i].op = "load" => queries[i].req # q,
         \A p \in Requests : p # q /\ state[p] = "loading" => KeyOf[p] # KeyOf[q],
         UNCHANGED <<current, used, reconnects, queries, db, deletes>>,
         loaded' \in [Requests -> Count \cup {None, NoRow}], loaded'[q] = None,
         \A p \in Requests : p # q => loaded'[p] = loaded[p]
  PROVE  WorldInv'
<1>1. PICK k \in Keys : k = KeyOf[q]
  BY Apart
<1>2. /\ lock' = [lock EXCEPT ![k] = None] /\ state' = [state EXCEPT ![q] = "answered"]
  BY <1>1 DEF Decide, Unlock
<1>3. q \notin granted /\ granted \subseteq Requests
  BY DEF WorldInv, TypeOK, GrantInv
<1>4. /\ lock' \in [Keys -> Requests \cup {None}] /\ state'[q] = "answered"
      /\ state' \in [Requests -> {"new", "called", "loading", "answered", "over"}]
      /\ \A p \in Requests : p # q => state'[p] = state[p]
      /\ \A h \in Keys : h # k => lock'[h] = lock[h]
  BY <1>2 DEF WorldInv, TypeOK
<1>5. \A i \in DOMAIN queries : queries[i].op = "load" => queries[i].req \in Requests
  BY QueueTypes, QueryFields DEF WorldInv
<1>6. LoadInv'
  BY <1>4, <1>5 DEF WorldInv, LoadInv, SavesOf
<1>7. DeleteInv'
  BY DEF WorldInv, DeleteInv
<1>8. GrantsOf(k) \in Count /\ GrantsOf(k) \in Nat
  BY <1>3, GrantsInCount, Apart
<1>9. CASE count # NoRow /\ ~(count >= Total)
  <2>1. /\ cache' = [cache EXCEPT ![k] = count + 1] /\ granted' = granted \cup {q}
    BY <1>1, <1>9 DEF Decide
  <2>2. count = GrantsOf(k) /\ count + 1 <= Total
    BY <1>1, <1>8, <1>9, GiftKeyAssumption
  <2>3. \A h : GrantsOf(h)' = IF k = h THEN GrantsOf(h) + 1 ELSE GrantsOf(h)
    BY <1>1, <1>3, <2>1, GrantsGrow
  <2>4. GrantsOf(k)' \in Count
    <3>1. granted' \subseteq Requests
      BY <1>3, <2>1
    <3>2. (granted \subseteq Requests => GrantsOf(k) \in Count)'
      BY GrantsInCount, PTL
    <3>3. QED
      BY <3>1, <3>2
  <2>5. /\ cache' \in [Keys -> Count \cup {None}] /\ cache'[k] = GrantsOf(k)'
        /\ \A h \in Keys : h # k => cache'[h] = cache[h]
    BY <2>1, <2>2, <2>3, <2>4 DEF WorldInv, TypeOK
  <2>6. TypeOK'
    BY <1>1, <1>3, <1>4, <2>1, <2>5, Apart DEF WorldInv, TypeOK
  <2>7. KeyInv'
    BY <1>8, <2>2, <2>3, <2>5, Apart DEF WorldInv, KeyInv, SavesOf, Current
  <2>8. LoadedInv'
    BY <1>1, <1>4, <2>3 DEF WorldInv, LoadedInv, Current
  <2>9. GrantInv' /\ NeverOverused'
    BY <1>3, <1>4, <2>1, <2>2, <2>3 DEF WorldInv, GrantInv, NeverOverused
  <2>10. QED
    BY <1>6, <1>7, <2>6, <2>7, <2>8, <2>9 DEF WorldInv
<1>10. CASE ~(count # NoRow /\ ~(count >= Total))
  <2>1. cache' = cache /\ granted' = granted
    BY <1>10 DEF Decide
  <2>2. TypeOK'
    BY <1>1, <1>4, <2>1, Apart DEF WorldInv, TypeOK
  <2>3. KeyInv' /\ NeverOverused'
    BY <2>1 DEF WorldInv, KeyInv, NeverOverused, SavesOf, GrantsOf, Current
  <2>4. LoadedInv' /\ GrantInv'
    BY <1>3, <1>4, <2>1 DEF WorldInv, LoadedInv, GrantInv, Current, GrantsOf
  <2>5. QED
    BY <1>6, <1>7, <2>2, <2>3, <2>4 DEF WorldInv
<1>11. QED
  BY <1>9, <1>10

LEMMA WorldUseCached ==
  ASSUME WorldInv, NEW q \in Requests, UseCached(q)
  PROVE  WorldInv'
<1>1. PICK k \in Keys : k = KeyOf[q]
  BY Apart
<1>2. /\ state[q] = "called" /\ lock[k] = None /\ cache[k] # None
      /\ Decide(q, cache[k])
      /\ UNCHANGED <<current, used, reconnects, queries, db, loaded, deletes>>
  BY <1>1 DEF UseCached, Free, agent
<1>3. cache[KeyOf[q]] = GrantsOf(KeyOf[q])
  BY <1>1, <1>2 DEF WorldInv, KeyInv
<1>4. \A i \in DOMAIN queries : queries[i].op = "load" => queries[i].req # q
  BY <1>2 DEF WorldInv, LoadInv
<1>5. \A p \in Requests : state[p] = "loading" => KeyOf[p] # KeyOf[q]
  BY <1>1, <1>2 DEF WorldInv, TypeOK
<1>6. loaded[q] = None /\ loaded \in [Requests -> Count \cup {None, NoRow}]
  BY <1>2 DEF WorldInv, TypeOK, LoadedInv
<1>7. QED
  BY <1>1, <1>2, <1>3, <1>4, <1>5, <1>6, WorldDecide

LEMMA WorldLoaded ==
  ASSUME WorldInv, NEW q \in Requests, Loaded(q)
  PROVE  WorldInv'
<1>1. /\ state[q] = "loading" /\ loaded[q] # None
      /\ Decide(q, loaded[q]) /\ loaded' = [loaded EXCEPT ![q] = None]
      /\ UNCHANGED <<current, used, reconnects, queries, db, deletes>>
  BY DEF Loaded, agent
<1>2. loaded[q] = GrantsOf(KeyOf[q]) \/ loaded[q] = NoRow
  BY <1>1 DEF WorldInv, LoadedInv, Current
<1>3. \A i \in DOMAIN queries : queries[i].op = "load" => queries[i].req # q
  BY <1>1 DEF WorldInv, LoadInv
<1>4. \A p \in Requests : p # q /\ state[p] = "loading" => KeyOf[p] # KeyOf[q]
  BY <1>1 DEF WorldInv, TypeOK
<1>5. /\ loaded' \in [Requests -> Count \cup {None, NoRow}] /\ loaded'[q] = None
      /\ \A p \in Requests : p # q => loaded'[p] = loaded[p]
  BY <1>1 DEF WorldInv, TypeOK
<1>6. QED
  BY <1>1, <1>2, <1>3, <1>4, <1>5, WorldDecide
(* A query is put at the end of the queue.                                 *)
LEMMA QueueGrows ==
  ASSUME WorldInv, NEW e \in Query, queries' = Append(queries, e)
  PROVE  /\ queries' \in Seq(Query)
         /\ \E n \in Nat :
              /\ DOMAIN queries = 1 .. n /\ DOMAIN queries' = 1 .. (n + 1) /\ queries'[n + 1] = e
              /\ \A i \in 1 .. n : queries'[i] = queries[i] /\ i \in 1 .. (n + 1) /\ i < n + 1 /\ i # n + 1
              /\ \A i \in 1 .. (n + 1) : i \in 1 .. n \/ i = n + 1
              /\ \A h : \A i \in SavesOf(h) : i \in 1 .. n
<1>1. PICK s \in Seq(Query) : s = queries
  BY DEF WorldInv, TypeOK
<1>2. PICK t : t = queries'
  OBVIOUS
<1>3. t = Append(s, e)
  BY <1>1, <1>2
<1>4. t \in Seq(Query)
  BY <1>3, Appended
<1>5. PICK n \in Nat : /\ DOMAIN s = 1 .. n /\ DOMAIN t = 1 .. (n + 1) /\ t[n + 1] = e
                        /\ \A i \in 1 .. n : t[i] = s[i]
  BY <1>3, Appended
<1>6. \A h : \A i \in SavesOf(h) : i \in 1 .. n
  BY <1>1, <1>5 DEF SavesOf
<1>7. /\ \A i \in 1 .. n : i \in 1 .. (n + 1) /\ i < n + 1 /\ i # n + 1
      /\ \A i \in 1 .. (n + 1) : i \in 1 .. n \/ i = n + 1
  OBVIOUS
<1>8. QED
  BY <1>1, <1>2, <1>4, <1>5, <1>6, <1>7

(* The load comes behind every write of its key.                           *)
LEMMA WorldUseLoad ==
  ASSUME WorldInv, NEW q \in Requests, UseLoad(q)
  PROVE  WorldInv'
<1>1. PICK k \in Keys : k = KeyOf[q]
  BY Apart
<1>2. PICK e : e = [op |-> "load", req |-> q]
  OBVIOUS
<1>3. /\ state[q] = "called" /\ lock[k] = None /\ cache[k] = None
      /\ lock' = [lock EXCEPT ![k] = q] /\ state' = [state EXCEPT ![q] = "loading"]
      /\ queries' = Append(queries, e)
      /\ UNCHANGED <<current, used, reconnects, granted, cache, db, loaded, deletes>>
  BY <1>1, <1>2 DEF UseLoad, Free, agent
<1>4. e \in Query /\ e.op = "load" /\ e.req = q
  BY <1>2 DEF Query
<1>8. queries' \in Seq(Query)
  BY <1>3, <1>4, QueueGrows
<1>10. PICK n \in Nat :
         /\ DOMAIN queries = 1 .. n /\ DOMAIN queries' = 1 .. (n + 1) /\ queries'[n + 1] = e
         /\ \A i \in 1 .. n : queries'[i] = queries[i] /\ i \in 1 .. (n + 1) /\ i < n + 1 /\ i # n + 1
         /\ \A i \in 1 .. (n + 1) : i \in 1 .. n \/ i = n + 1
         /\ \A h : \A i \in SavesOf(h) : i \in 1 .. n
  BY <1>3, <1>4, QueueGrows
<1>11. \A h : SavesOf(h)' = SavesOf(h)
  BY <1>4, <1>10 DEF SavesOf
<1>12. \A h : \A i \in SavesOf(h) : i \in 1 .. n
  BY <1>10
<1>13. \A i \in 1 .. n : queries[i] \in Query /\ (queries[i].op = "load" => queries[i].req \in Requests)
  BY <1>10, QueueTypes, QueryFields DEF WorldInv
<1>14. /\ state' \in [Requests -> {"new", "called", "loading", "answered", "over"}]
       /\ lock' \in [Keys -> Requests \cup {None}]
       /\ state'[q] = "loading" /\ lock'[k] = q
       /\ \A p \in Requests : p # q => state'[p] = state[p]
       /\ \A h \in Keys : h # k => lock'[h] = lock[h]
  BY <1>3 DEF WorldInv, TypeOK
<1>15. TypeOK'
  <2>1. ASSUME NEW p \in Requests, state'[p] = "loading"
        PROVE  lock'[KeyOf[p]] = p /\ cache'[KeyOf[p]] = None
    <3>1. CASE p = q
      BY <1>1, <1>3, <1>14, <3>1
    <3>2. CASE p # q
      BY <1>3, <1>14, <2>1, <3>2, Apart DEF WorldInv, TypeOK
    <3>3. QED
      BY <3>1, <3>2
  <2>2. QED
    BY <1>3, <1>8, <1>14, <2>1 DEF WorldInv, TypeOK
<1>16. KeyInv'
  <2>1. \A h : GrantsOf(h)' = GrantsOf(h) /\ (\A c : Current(c, h) => Current(c, h)')
    BY <1>3 DEF GrantsOf, Current
  <2>2. ASSUME NEW h \in Keys, NEW i \in SavesOf(h), cache[h] = None, LastOf(i, SavesOf(h)')
        PROVE  queries'[i].values[h] = GrantsOf(h)
    <3>1. LastOf(i, SavesOf(h))
      BY <1>11, <2>2
    <3>2. queries'[i] = queries[i]
      BY <1>10, <1>12
    <3>3. QED
      BY <2>2, <3>1, <3>2 DEF WorldInv, KeyInv
  <2>3. QED
    BY <1>3, <1>11, <2>1, <2>2 DEF WorldInv, KeyInv
<1>17. LoadInv'
  <2>1. \A i \in 1 .. n : queries[i].op = "load" => queries[i].req # q
    BY <1>3, <1>10 DEF WorldInv, LoadInv
  <2>2. loaded[q] = None
    BY <1>3 DEF WorldInv, LoadedInv
  <2>3. ASSUME NEW i \in 1 .. (n + 1), queries'[i].op = "load"
        PROVE  /\ state'[queries'[i].req] = "loading" /\ loaded[queries'[i].req] = None
               /\ \A j \in SavesOf(KeyOf[queries'[i].req]) : j < i
               /\ \A j \in 1 .. (n + 1) : queries'[j].op = "load" /\ queries'[j].req = queries'[i].req => j = i
    <3>1. CASE i = n + 1
      BY <1>4, <1>10, <1>12, <1>14, <2>1, <2>2, <3>1
    <3>2. CASE i \in 1 .. n
      <4>1. queries'[i] = queries[i] /\ queries[i].op = "load" /\ queries[i].req \in Requests
        BY <1>10, <1>13, <2>3, <3>2
      <4>2. /\ state[queries[i].req] = "loading" /\ loaded[queries[i].req] = None
            /\ \A j \in SavesOf(KeyOf[queries[i].req]) : j < i
            /\ \A j \in 1 .. n : queries[j].op = "load" /\ queries[j].req = queries[i].req => j = i
        BY <1>10, <3>2, <4>1 DEF WorldInv, LoadInv
      <4>3. QED
        BY <1>4, <1>10, <1>14, <2>1, <3>2, <4>1, <4>2
    <3>3. QED
      BY <1>10, <3>1, <3>2
  <2>4. QED
    BY <1>3, <1>10, <1>11, <2>3 DEF LoadInv
<1>18. DeleteInv'
  BY <1>3, <1>4, <1>10 DEF WorldInv, DeleteInv
<1>19. LoadedInv' /\ GrantInv' /\ NeverOverused'
  BY <1>3, <1>14 DEF WorldInv, LoadedInv, GrantInv, NeverOverused, Current, GrantsOf, TypeOK
<1>20. QED
  BY <1>15, <1>16, <1>17, <1>18, <1>19 DEF WorldInv
(* Old loads stay good when a query that is no load joins the queue and    *)
(* writes no key that is loaded.                                           *)
LEMMA LoadsStay ==
  ASSUME WorldInv, NEW e \in Query, queries' = Append(queries, e), e.op # "load",
         UNCHANGED <<state, loaded>>,
         \A h \in Keys : cache[h] = None => SavesOf(h)' = SavesOf(h)
  PROVE  LoadInv'
<1>1. PICK n \in Nat :
        /\ DOMAIN queries = 1 .. n /\ DOMAIN queries' = 1 .. (n + 1) /\ queries'[n + 1] = e
        /\ \A i \in 1 .. n : queries'[i] = queries[i] /\ i \in 1 .. (n + 1) /\ i < n + 1 /\ i # n + 1
        /\ \A i \in 1 .. (n + 1) : i \in 1 .. n \/ i = n + 1
  BY QueueGrows
<1>2. ASSUME NEW i \in 1 .. (n + 1), queries'[i].op = "load", NEW h, h = KeyOf[queries'[i].req]
      PROVE  /\ state[queries'[i].req] = "loading" /\ loaded[queries'[i].req] = None
             /\ \A j \in SavesOf(h)' : j < i
             /\ \A j \in 1 .. (n + 1) : queries'[j].op = "load" /\ queries'[j].req = queries'[i].req => j = i
  <2>1. i \in 1 .. n
    BY <1>1, <1>2
  <2>2. queries'[i] = queries[i] /\ queries[i].op = "load" /\ queries[i].req \in Requests
    BY <1>1, <1>2, <2>1, QueueTypes, QueryFields DEF WorldInv
  <2>3. /\ state[queries[i].req] = "loading" /\ loaded[queries[i].req] = None
        /\ \A j \in SavesOf(KeyOf[queries[i].req]) : j < i
        /\ \A j \in 1 .. n : queries[j].op = "load" /\ queries[j].req = queries[i].req => j = i
    BY <1>1, <2>1, <2>2 DEF WorldInv, LoadInv
  <2>4. SavesOf(h)' = SavesOf(h)
    <3>1. h \in Keys /\ h = KeyOf[queries[i].req]
      BY <1>2, <2>2, Apart
    <3>2. cache[h] = None
      BY <2>2, <2>3, <3>1 DEF WorldInv, TypeOK
    <3>3. QED
      BY <3>1, <3>2
  <2>5. QED
    BY <1>1, <1>2, <2>2, <2>3, <2>4
<1>3. \A i \in 1 .. (n + 1) : queries'[i].op = "load" =>
        /\ state'[queries'[i].req] = "loading" /\ loaded'[queries'[i].req] = None
        /\ \A j \in {x \in 1 .. (n + 1) : queries'[x].op = "save" /\ queries'[x].values[KeyOf[queries'[i].req]] # None} : j < i
        /\ \A j \in 1 .. (n + 1) : queries'[j].op = "load" /\ queries'[j].req = queries'[i].req => j = i
  BY <1>1, <1>2 DEF SavesOf
<1>4. QED
  BY <1>1, <1>3 DEF LoadInv, SavesOf

LEMMA WorldSave ==
  ASSUME WorldInv, Save
  PROVE  WorldInv'
<1>1. PICK e : e = [op |-> "save", values |-> cache]
  OBVIOUS
<1>2. /\ queries' = Append(queries, e) /\ cache' = [h \in Keys |-> None]
      /\ UNCHANGED <<state, current, used, reconnects, granted, lock, db, loaded, deletes>>
  BY <1>1 DEF Save, agent
<1>3. e \in Query /\ e.op = "save" /\ e.values = cache
  BY <1>1 DEF Query, WorldInv, TypeOK
<1>4. queries' \in Seq(Query)
  BY <1>2, <1>3, QueueGrows
<1>5. PICK n \in Nat :
        /\ DOMAIN queries = 1 .. n /\ DOMAIN queries' = 1 .. (n + 1) /\ queries'[n + 1] = e
        /\ \A i \in 1 .. n : queries'[i] = queries[i] /\ i \in 1 .. (n + 1) /\ i < n + 1 /\ i # n + 1
        /\ \A i \in 1 .. (n + 1) : i \in 1 .. n \/ i = n + 1
        /\ \A h : \A i \in SavesOf(h) : i \in 1 .. n
  BY <1>2, <1>3, QueueGrows
<1>6. \A h \in Keys : cache[h] = None => SavesOf(h)' = SavesOf(h)
  BY <1>3, <1>5 DEF SavesOf
<1>7. LoadInv'
  BY <1>2, <1>3, <1>6, LoadsStay
<1>8. TypeOK'
  BY <1>2, <1>4, Apart DEF WorldInv, TypeOK
<1>9. KeyInv'
  <2>1. ASSUME NEW h \in Keys, NEW i \in SavesOf(h)', LastOf(i, SavesOf(h)')
        PROVE  queries'[i].values[h] = GrantsOf(h)
    <3>1. CASE cache[h] = None
      <4>1. i \in SavesOf(h) /\ LastOf(i, SavesOf(h))
        BY <1>6, <2>1, <3>1
      <4>2. queries'[i] = queries[i]
        BY <1>5, <4>1
      <4>3. QED
        BY <3>1, <4>1, <4>2 DEF WorldInv, KeyInv
    <3>2. CASE cache[h] # None
      <4>1. n + 1 \in SavesOf(h)'
        BY <1>3, <1>5, <3>2 DEF SavesOf
      <4>2. i = n + 1
        <5>1. i \in 1 .. (n + 1) /\ n + 1 <= i
          BY <1>5, <2>1, <4>1 DEF LastOf, SavesOf
        <5>2. QED
          BY <5>1
      <4>3. QED
        BY <1>3, <1>5, <3>2, <4>2 DEF WorldInv, KeyInv
    <3>3. QED
      BY <3>1, <3>2
  <2>2. ASSUME NEW h \in Keys, SavesOf(h)' = {}
        PROVE  Current(db[h], h)
    <3>1. cache[h] = None
      <4>1. ASSUME cache[h] # None PROVE n + 1 \in SavesOf(h)'
        BY <1>3, <1>5, <4>1 DEF SavesOf
      <4>2. QED
        BY <2>2, <4>1
    <3>2. QED
      BY <1>6, <2>2, <3>1 DEF WorldInv, KeyInv
  <2>3. \A h : GrantsOf(h)' = GrantsOf(h) /\ (\A c : Current(c, h) => Current(c, h)')
    BY <1>2 DEF GrantsOf, Current
  <2>4. QED
    BY <1>2, <2>1, <2>2, <2>3 DEF KeyInv
<1>10. DeleteInv'
  BY <1>2, <1>3, <1>5 DEF WorldInv, DeleteInv
<1>11. LoadedInv' /\ GrantInv' /\ NeverOverused'
  BY <1>2 DEF WorldInv, LoadedInv, GrantInv, NeverOverused, Current, GrantsOf
<1>12. QED
  BY <1>7, <1>8, <1>9, <1>10, <1>11 DEF WorldInv

LEMMA WorldDelete ==
  ASSUME WorldInv, NEW k \in Keys, Delete(k)
  PROVE  WorldInv'
<1>1. PICK e : e = [op |-> "delete", key |-> k]
  OBVIOUS
<1>2. /\ queries' = Append(queries, e) /\ deletes' = deletes + 1 /\ deletes < MaxDeletes
      /\ UNCHANGED <<state, current, used, reconnects, granted, lock, cache, db, loaded>>
  BY <1>1 DEF Delete, agent
<1>3. e \in Query /\ e.op = "delete"
  BY <1>1 DEF Query
<1>4. queries' \in Seq(Query)
  BY <1>2, <1>3, QueueGrows
<1>5. PICK n \in Nat :
        /\ DOMAIN queries = 1 .. n /\ DOMAIN queries' = 1 .. (n + 1) /\ queries'[n + 1] = e
        /\ \A i \in 1 .. n : queries'[i] = queries[i] /\ i \in 1 .. (n + 1) /\ i < n + 1 /\ i # n + 1
        /\ \A i \in 1 .. (n + 1) : i \in 1 .. n \/ i = n + 1
        /\ \A h : \A i \in SavesOf(h) : i \in 1 .. n
  BY <1>2, <1>3, QueueGrows
<1>6. \A h : SavesOf(h)' = SavesOf(h)
  BY <1>3, <1>5 DEF SavesOf
<1>7. deletes' \in 0 .. MaxDeletes /\ deletes' > 0
  BY <1>2, GiftKeyAssumption DEF WorldInv, TypeOK
<1>8. \A h : GrantsOf(h)' = GrantsOf(h) /\ (\A c : Current(c, h) => Current(c, h)')
  BY <1>2, <1>7 DEF GrantsOf, Current
<1>9. LoadInv'
  BY <1>2, <1>3, <1>6, LoadsStay
<1>10. TypeOK'
  BY <1>2, <1>4, <1>7 DEF WorldInv, TypeOK
<1>11. KeyInv'
  <2>1. ASSUME NEW h \in Keys, NEW i \in SavesOf(h), cache[h] = None, LastOf(i, SavesOf(h))
        PROVE  queries'[i].values[h] = GrantsOf(h)
    <3>1. queries'[i] = queries[i]
      BY <1>5
    <3>2. QED
      BY <2>1, <3>1 DEF WorldInv, KeyInv
  <2>2. QED
    BY <1>2, <1>6, <1>8, <2>1 DEF WorldInv, KeyInv
<1>12. DeleteInv'
  BY <1>7 DEF DeleteInv
<1>13. LoadedInv' /\ GrantInv' /\ NeverOverused'
  BY <1>2, <1>8 DEF WorldInv, LoadedInv, GrantInv, NeverOverused
<1>14. QED
  BY <1>9, <1>10, <1>11, <1>12, <1>13 DEF WorldInv
(* The oldest query is executed.                                           *)
LEMMA WorldExecute ==
  ASSUME WorldInv, Execute
  PROVE  WorldInv'
<1>1. UNCHANGED <<state, current, used, reconnects, granted, lock, cache, deletes>>
  BY DEF Execute, agent
<1>2. 1 \in DOMAIN queries /\ queries' = SubSeq(queries, 1, 1 - 1) \o SubSeq(queries, 1 + 1, Len(queries))
  BY DEF Execute, Executable
<1>3. PICK o \in Query : o = queries[1]
  BY <1>2, QueueTypes DEF WorldInv
<1>4. \/ /\ o.op = "load" /\ db' = db
         /\ loaded' = [loaded EXCEPT ![o.req] = db[KeyOf[o.req]]]
      \/ o.op = "save" /\ db' = Written(o.values) /\ loaded' = loaded
      \/ o.op = "delete" /\ db' = [db EXCEPT ![o.key] = NoRow] /\ loaded' = loaded
  BY <1>3 DEF Execute, Executable
<1>5. PICK s \in Seq(Query) : s = queries
  BY DEF WorldInv, TypeOK
<1>6. PICK t : t = queries'
  OBVIOUS
<1>7. 1 \in DOMAIN s /\ t = SubSeq(s, 1, 1 - 1) \o SubSeq(s, 1 + 1, Len(s))
  BY <1>2, <1>5, <1>6
<1>8. t \in Seq(Query)
  BY <1>7, Removed
<1>9. PICK n \in Nat : /\ DOMAIN s = 1 .. (n + 1) /\ DOMAIN t = 1 .. n
                        /\ \A i \in 1 .. n : t[i] = s[i + 1]
  BY <1>7, Removed
<1>10. /\ DOMAIN queries = 1 .. (n + 1) /\ DOMAIN queries' = 1 .. n
       /\ \A i \in 1 .. n : queries'[i] = queries[i + 1] /\ i + 1 \in 1 .. (n + 1) /\ i + 1 # 1
       /\ \A i \in 1 .. (n + 1) : i = 1 \/ \E j \in 1 .. n : i = j + 1
  <2>1. ASSUME NEW i \in 1 .. (n + 1), i # 1 PROVE \E j \in 1 .. n : i = j + 1
    <3>1. i - 1 \in 1 .. n /\ i = (i - 1) + 1
      BY <2>1
    <3>2. QED
      BY <3>1
  <2>2. \A i \in 1 .. n : i + 1 \in 1 .. (n + 1) /\ i + 1 # 1
    OBVIOUS
  <2>3. QED
    BY <1>5, <1>6, <1>9, <2>1, <2>2
<1>11. /\ \A h : \A i \in SavesOf(h)' : i \in 1 .. n /\ i + 1 \in SavesOf(h)
       /\ \A h : \A i \in SavesOf(h) : i = 1 \/ \E j \in SavesOf(h)' : i = j + 1
       /\ \A h : 1 \in SavesOf(h) <=> o.op = "save" /\ o.values[h] # None
  <2>1. ASSUME NEW h, NEW i \in SavesOf(h)' PROVE i \in 1 .. n /\ i + 1 \in SavesOf(h)
    BY <1>10 DEF SavesOf
  <2>2. ASSUME NEW h, NEW i \in SavesOf(h), i # 1 PROVE \E j \in SavesOf(h)' : i = j + 1
    <3>1. PICK j \in 1 .. n : i = j + 1
      BY <1>10, <2>2 DEF SavesOf
    <3>2. j \in SavesOf(h)'
      BY <1>10, <3>1 DEF SavesOf
    <3>3. QED
      BY <3>1, <3>2
  <2>3. \A h : 1 \in SavesOf(h) <=> o.op = "save" /\ o.values[h] # None
    BY <1>2, <1>3 DEF SavesOf
  <2>4. QED
    BY <2>1, <2>2, <2>3
<1>12. \A h : GrantsOf(h)' = GrantsOf(h) /\ (\A c : Current(c, h) <=> Current(c, h)')
  BY <1>1 DEF GrantsOf, Current
<1>13. ASSUME NEW h \in Keys, NEW i \in SavesOf(h)', LastOf(i, SavesOf(h)')
       PROVE  LastOf(i + 1, SavesOf(h)) /\ i \in Nat
  <2>1. i \in 1 .. n /\ i + 1 \in SavesOf(h)
    BY <1>11
  <2>2. ASSUME NEW j \in SavesOf(h) PROVE j <= i + 1
    <3>1. CASE j = 1
      BY <2>1, <3>1
    <3>2. ASSUME NEW m \in SavesOf(h)', j = m + 1 PROVE j <= i + 1
      <4>1. m \in 1 .. n /\ m <= i
        BY <1>11, <1>13 DEF LastOf
      <4>2. QED
        BY <2>1, <3>2, <4>1
    <3>3. QED
      BY <1>11, <3>1, <3>2
  <2>3. QED
    BY <2>1, <2>2 DEF LastOf
<1>14. db' \in [Keys -> Count \cup {NoRow}] /\ loaded' \in [Requests -> Count \cup {None, NoRow}]
  <2>1. CASE o.op = "load"
    <3>1. db' = db /\ loaded' = [loaded EXCEPT ![o.req] = db[KeyOf[o.req]]] /\ o.req \in Requests
      BY <1>4, <2>1, QueryFields
    <3>2. db[KeyOf[o.req]] \in Count \cup {NoRow}
      BY <3>1, Apart DEF WorldInv, TypeOK
    <3>3. QED
      BY <3>1, <3>2 DEF WorldInv, TypeOK
  <2>2. CASE o.op = "save"
    <3>1. db' = Written(o.values) /\ loaded' = loaded /\ o.values \in [Keys -> Count \cup {None}]
      BY <1>4, <2>2, QueryFields
    <3>2. QED
      BY <3>1 DEF WorldInv, TypeOK, Written
  <2>3. CASE o.op = "delete"
    BY <1>4, <2>3, QueryFields DEF WorldInv, TypeOK
  <2>4. QED
    BY <2>1, <2>2, <2>3, QueryFields
<1>15. TypeOK'
  BY <1>1, <1>6, <1>8, <1>14 DEF WorldInv, TypeOK
(* What the row has now.                                                   *)
<1>16. ASSUME NEW h \in Keys
       PROVE  \/ db'[h] = db[h] /\ 1 \notin SavesOf(h)
              \/ db'[h] = db[h] /\ db[h] = NoRow
              \/ db'[h] = o.values[h] /\ 1 \in SavesOf(h) /\ db'[h] # NoRow
              \/ db'[h] = NoRow /\ deletes > 0
  <2>1. CASE o.op = "load"
    BY <1>4, <1>11, <2>1
  <2>2. CASE o.op = "save"
    <3>1. db' = Written(o.values) /\ o.values \in [Keys -> Count \cup {None}]
      BY <1>4, <2>2, QueryFields
    <3>2. CASE o.values[h] = None
      BY <1>11, <3>1, <3>2 DEF Written
    <3>3. CASE o.values[h] # None
      BY <1>11, <2>2, <3>1, <3>3, Apart DEF Written
    <3>4. QED
      BY <3>2, <3>3
  <2>3. CASE o.op = "delete"
    <3>1. deletes > 0
      BY <1>2, <1>3, <2>3 DEF WorldInv, DeleteInv
    <3>2. QED
      BY <1>4, <1>11, <2>3, <3>1 DEF WorldInv, TypeOK
  <2>4. QED
    BY <2>1, <2>2, <2>3, QueryFields
<1>17. KeyInv'
  <2>1. ASSUME NEW h \in Keys, cache[h] = None, NEW i \in SavesOf(h)', LastOf(i, SavesOf(h)')
        PROVE  queries'[i].values[h] = GrantsOf(h)
    <3>1. LastOf(i + 1, SavesOf(h)) /\ i + 1 \in SavesOf(h)
      BY <1>13, <2>1 DEF LastOf
    <3>2. queries'[i] = queries[i + 1]
      BY <1>10, <1>11
    <3>3. QED
      BY <2>1, <3>1, <3>2 DEF WorldInv, KeyInv
  <2>2. ASSUME NEW h \in Keys, cache[h] = None, SavesOf(h)' = {}
        PROVE  Current(db'[h], h)
    <3>1. \A i \in SavesOf(h) : i = 1
      BY <1>11, <2>2
    <3>2. CASE 1 \notin SavesOf(h)
      <4>1. SavesOf(h) = {} /\ Current(db[h], h)
        BY <2>2, <3>1, <3>2 DEF WorldInv, KeyInv
      <4>2. QED
        BY <1>16, <3>2, <4>1 DEF Current
    <3>3. CASE 1 \in SavesOf(h)
      <4>1. LastOf(1, SavesOf(h))
        BY <3>1, <3>3 DEF LastOf
      <4>2. o.values[h] = GrantsOf(h)
        BY <1>3, <2>2, <3>3, <4>1 DEF WorldInv, KeyInv
      <4>3. db[h] = NoRow => deletes > 0
        BY DEF WorldInv, DeleteInv
      <4>4. QED
        BY <1>16, <3>3, <4>2, <4>3 DEF Current
    <3>4. QED
      BY <3>2, <3>3
  <2>3. \A h \in Keys : cache[h] # None => cache[h] = GrantsOf(h)
    BY DEF WorldInv, KeyInv
  <2>4. QED
    BY <1>1, <1>12, <2>1, <2>2, <2>3 DEF KeyInv
<1>18. LoadInv'
  <2>1. ASSUME NEW i \in 1 .. n, queries'[i].op = "load", NEW q, q = queries'[i].req
        PROVE  /\ state[q] = "loading" /\ loaded'[q] = None
               /\ \A j \in SavesOf(KeyOf[q])' : j < i
               /\ \A j \in 1 .. n : queries'[j].op = "load" /\ queries'[j].req = q => j = i
    <3>1. queries'[i] = queries[i + 1] /\ i + 1 \in DOMAIN queries /\ i + 1 # 1
      BY <1>10
    <3>2. /\ state[q] = "loading" /\ loaded[q] = None
          /\ \A j \in SavesOf(KeyOf[q]) : j < i + 1
          /\ \A j \in DOMAIN queries : queries[j].op = "load" /\ queries[j].req = q => j = i + 1
      BY <2>1, <3>1 DEF WorldInv, LoadInv
    <3>3. loaded'[q] = None
      <4>1. o.op = "load" => o.req # q
        BY <1>2, <1>3, <3>1, <3>2
      <4>2. q \in Requests /\ (o.op = "load" => o.req \in Requests)
        BY <2>1, <3>1, QueueTypes, QueryFields DEF WorldInv
      <4>3. QED
        BY <1>4, <3>2, <4>1, <4>2 DEF WorldInv, TypeOK
    <3>4. ASSUME NEW j \in SavesOf(KeyOf[q])' PROVE j < i
      <4>1. j \in 1 .. n /\ j + 1 \in SavesOf(KeyOf[q])
        BY <1>11
      <4>2. j + 1 < i + 1
        BY <3>2, <4>1
      <4>3. QED
        BY <4>1, <4>2
    <3>5. ASSUME NEW j \in 1 .. n, queries'[j].op = "load", queries'[j].req = q PROVE j = i
      <4>1. queries'[j] = queries[j + 1] /\ j + 1 \in DOMAIN queries
        BY <1>10
      <4>2. j + 1 = i + 1
        BY <3>2, <3>5, <4>1
      <4>3. QED
        BY <4>2
    <3>6. QED
      BY <3>2, <3>3, <3>4, <3>5
  <2>2. ASSUME NEW i \in 1 .. n, queries'[i].op = "load"
        PROVE  /\ state'[queries'[i].req] = "loading" /\ loaded'[queries'[i].req] = None
               /\ \A j \in {x \in 1 .. n : queries'[x].op = "save" /\ queries'[x].values[KeyOf[queries'[i].req]] # None} : j < i
               /\ \A j \in 1 .. n : queries'[j].op = "load" /\ queries'[j].req = queries'[i].req => j = i
    BY <1>1, <1>10, <2>1, <2>2 DEF SavesOf
  <2>3. QED
    BY <1>10, <2>2 DEF LoadInv, SavesOf
<1>19. LoadedInv'
  <2>1. ASSUME NEW q \in Requests, loaded'[q] # None
        PROVE  state[q] = "loading" /\ Current(loaded'[q], KeyOf[q])
    <3>1. CASE loaded'[q] = loaded[q]
      BY <2>1, <3>1 DEF WorldInv, LoadedInv
    <3>2. CASE loaded'[q] # loaded[q]
      <4>1. o.op = "load" /\ q = o.req /\ loaded'[q] = db[KeyOf[q]]
        BY <1>4, <3>2 DEF WorldInv, TypeOK
      <4>2. state[q] = "loading" /\ \A j \in SavesOf(KeyOf[q]) : j < 1
        BY <1>2, <1>3, <4>1 DEF WorldInv, LoadInv
      <4>3. SavesOf(KeyOf[q]) = {}
        <5>1. \A j \in SavesOf(KeyOf[q]) : j \in 1 .. (n + 1)
          BY <1>10 DEF SavesOf
        <5>2. QED
          BY <4>2, <5>1
      <4>4. KeyOf[q] \in Keys /\ cache[KeyOf[q]] = None
        BY <4>2, Apart DEF WorldInv, TypeOK
      <4>5. QED
        BY <4>1, <4>2, <4>3, <4>4 DEF WorldInv, KeyInv
    <3>3. QED
      BY <3>1, <3>2
  <2>2. QED
    BY <1>1, <1>12, <2>1 DEF LoadedInv
<1>20. DeleteInv'
  <2>1. ASSUME NEW h \in Keys, db'[h] = NoRow PROVE deletes > 0
    BY <1>16, <2>1 DEF WorldInv, DeleteInv
  <2>2. ASSUME NEW i \in 1 .. n, queries'[i].op = "delete" PROVE deletes > 0
    BY <1>10, <2>2 DEF WorldInv, DeleteInv
  <2>3. QED
    BY <1>1, <1>10, <2>1, <2>2 DEF DeleteInv
<1>21. GrantInv' /\ NeverOverused'
  BY <1>1, <1>12 DEF WorldInv, GrantInv, NeverOverused
<1>22. QED
  BY <1>15, <1>17, <1>18, <1>19, <1>20, <1>21 DEF WorldInv
-----------------------------------------------------------------------------
Working == {"called", "loading", "answered"}

LEMMA SocketQuiet ==
  ASSUME SocketInv, UNCHANGED <<state, current, used, granted, reconnects>>
  PROVE  SocketInv'
BY DEF SocketInv, RoleInv, OnePerBatch

LEMMA SocketUse ==
  ASSUME WorldInv, SocketInv, NEW q \in Requests, Use(q)
  PROVE  SocketInv'
<1>1. PICK r \in Roles : r = RoleOf[q]
  BY Apart
<1>2. /\ state[q] = "new" /\ current[r] = None
      /\ UNCHANGED <<used, granted, reconnects>>
  BY <1>1 DEF Use, SockFree
<1>3. OnePerBatch'
  BY <1>2 DEF SocketInv, OnePerBatch
<1>4. q \notin granted
  BY <1>2 DEF WorldInv, GrantInv
<1>5. CASE \E k \in used[r] : BatchOf[k] = BatchOf[KeyOf[q]]
  <2>1. state' = [state EXCEPT ![q] = "over"] /\ current' = current
    BY <1>1, <1>5 DEF Use
  <2>2. \A p \in Requests : p # q => state'[p] = state[p]
    BY <2>1 DEF WorldInv, TypeOK
  <2>3. state'[q] = "over"
    BY <2>1 DEF WorldInv, TypeOK
  <2>4. RoleInv'
    BY <1>2, <1>4, <2>1, <2>2, <2>3 DEF SocketInv, RoleInv
  <2>5. QED
    BY <1>3, <2>4 DEF SocketInv
<1>6. CASE ~\E k \in used[r] : BatchOf[k] = BatchOf[KeyOf[q]]
  <2>1. state' = [state EXCEPT ![q] = "called"] /\ current' = [current EXCEPT ![r] = q]
    BY <1>1, <1>6 DEF Use
  <2>2. /\ \A p \in Requests : p # q => state'[p] = state[p]
        /\ current'[r] = q /\ \A h : h \in Roles /\ h # r => current'[h] = current[h]
    BY <1>1, <2>1 DEF WorldInv, TypeOK
  <2>3. ASSUME reconnects = 0, NEW p \in Requests, state'[p] \in Working
        PROVE  /\ current'[RoleOf[p]] = p
               /\ \A k \in used[RoleOf[p]] : BatchOf[k] # BatchOf[KeyOf[p]]
    <3>1. CASE p = q
      BY <1>1, <1>6, <2>2, <3>1
    <3>2. CASE p # q
      <4>1. /\ current[RoleOf[p]] = p
            /\ \A k \in used[RoleOf[p]] : BatchOf[k] # BatchOf[KeyOf[p]]
        BY <2>2, <2>3, <3>2 DEF SocketInv, RoleInv, Working
      <4>2. RoleOf[p] # r
        BY <1>2, <4>1, Apart
      <4>3. QED
        BY <2>2, <4>1, <4>2, Apart
    <3>3. QED
      BY <3>1, <3>2
  <2>4. \A p \in Requests : reconnects = 0 /\ p \in granted /\ state'[p] = "over" => KeyOf[p] \in used[RoleOf[p]]
    BY <1>4, <2>2 DEF SocketInv, RoleInv
  <2>5. RoleInv'
    BY <1>2, <2>3, <2>4 DEF RoleInv, Working
  <2>6. QED
    BY <1>3, <2>5 DEF SocketInv
<1>7. QED
  BY <1>5, <1>6

LEMMA SocketReconnect ==
  ASSUME WorldInv, NEW r \in Roles, Reconnect(r)
  PROVE  SocketInv'
<1>1. reconnects' # 0
  BY DEF Reconnect, WorldInv, TypeOK
<1>2. QED
  BY <1>1 DEF SocketInv, RoleInv, OnePerBatch

LEMMA SocketAnswered ==
  ASSUME WorldInv, SocketInv, NEW q \in Requests, Answered(q)
  PROVE  SocketInv'
<1>1. PICK r \in Roles : r = RoleOf[q]
  BY Apart
<1>2. /\ state[q] = "answered" /\ state' = [state EXCEPT ![q] = "over"]
      /\ current' = [current EXCEPT ![r] = IF @ = q THEN None ELSE @]
      /\ used' = [used EXCEPT ![r] = IF q \in granted THEN @ \cup {KeyOf[q]} ELSE @]
      /\ UNCHANGED <<granted, reconnects>>
  BY <1>1 DEF Answered
<1>3. OnePerBatch'
  BY <1>2 DEF SocketInv, OnePerBatch
<1>4. /\ \A p \in Requests : p # q => state'[p] = state[p]
      /\ state'[q] = "over"
      /\ \A h \in Roles : h # r => current'[h] = current[h] /\ used'[h] = used[h]
      /\ \A h \in Roles : used[h] \subseteq used'[h]
      /\ q \in granted => KeyOf[q] \in used'[r]
  BY <1>2 DEF WorldInv, TypeOK
<1>5. ASSUME reconnects = 0, NEW p \in Requests, state'[p] \in Working
      PROVE  /\ current'[RoleOf[p]] = p
             /\ \A k \in used'[RoleOf[p]] : BatchOf[k] # BatchOf[KeyOf[p]]
  <2>1. p # q
    BY <1>4, <1>5 DEF Working
  <2>2. /\ current[RoleOf[p]] = p
        /\ \A k \in used[RoleOf[p]] : BatchOf[k] # BatchOf[KeyOf[p]]
    BY <1>4, <1>5, <2>1 DEF SocketInv, RoleInv, Working
  <2>3. current[r] = q
    BY <1>1, <1>2, <1>5 DEF SocketInv, RoleInv
  <2>4. RoleOf[p] # r /\ RoleOf[p] \in Roles
    BY <2>1, <2>2, <2>3, Apart
  <2>5. QED
    BY <1>4, <2>2, <2>4
<1>6. ASSUME reconnects = 0, NEW p \in Requests, p \in granted, state'[p] = "over"
      PROVE  KeyOf[p] \in used'[RoleOf[p]]
  <2>1. CASE p = q
    BY <1>1, <1>4, <1>6, <2>1
  <2>2. CASE p # q
    BY <1>4, <1>6, <2>2, Apart DEF SocketInv, RoleInv
  <2>3. QED
    BY <2>1, <2>2
<1>7. RoleInv'
  BY <1>2, <1>5, <1>6 DEF RoleInv, Working
<1>8. QED
  BY <1>3, <1>7 DEF SocketInv

(* A use goes on in the world; it is allowed there at most once more than  *)
(* the role has noted.                                                     *)
LEMMA SocketWorld ==
  ASSUME WorldInv, SocketInv, NEW q \in Requests,
         state[q] \in {"called", "loading"},
         NEW v \in {"loading", "answered"}, state' = [state EXCEPT ![q] = v],
         granted' = granted \/ granted' = granted \cup {q},
         UNCHANGED <<current, used, reconnects>>
  PROVE  SocketInv'
<1>1. /\ \A p \in Requests : p # q => state'[p] = state[p]
      /\ state'[q] \in Working /\ state'[q] # "over"
  BY DEF WorldInv, TypeOK, Working
<1>2. ASSUME reconnects = 0, NEW p \in Requests, state'[p] \in Working
      PROVE  /\ current[RoleOf[p]] = p
             /\ \A k \in used[RoleOf[p]] : BatchOf[k] # BatchOf[KeyOf[p]]
  <2>1. state[p] \in Working
    BY <1>1, <1>2 DEF Working
  <2>2. QED
    BY <1>2, <2>1 DEF SocketInv, RoleInv, Working
<1>3. \A p \in Requests : reconnects = 0 /\ p \in granted' /\ state'[p] = "over" => KeyOf[p] \in used[RoleOf[p]]
  BY <1>1 DEF SocketInv, RoleInv
<1>4. RoleInv'
  BY <1>2, <1>3 DEF RoleInv, Working
<1>5. ASSUME NEW p \in granted, reconnects = 0, RoleOf[p] = RoleOf[q], BatchOf[KeyOf[p]] = BatchOf[KeyOf[q]]
      PROVE  p = q
  <2>1. p \in Requests /\ state[p] \in {"answered", "over"}
    BY DEF WorldInv, TypeOK, GrantInv
  <2>2. /\ current[RoleOf[q]] = q
        /\ \A k \in used[RoleOf[q]] : BatchOf[k] # BatchOf[KeyOf[q]]
    BY <1>5 DEF SocketInv, RoleInv
  <2>3. CASE state[p] = "answered"
    BY <1>5, <2>1, <2>2, <2>3 DEF SocketInv, RoleInv
  <2>4. CASE state[p] = "over"
    <3>1. KeyOf[p] \in used[RoleOf[p]]
      BY <1>5, <2>1, <2>4 DEF SocketInv, RoleInv
    <3>2. QED
      BY <1>5, <2>2, <3>1
  <2>5. QED
    BY <2>1, <2>3, <2>4
<1>6. OnePerBatch'
  BY <1>5 DEF SocketInv, OnePerBatch
<1>7. QED
  BY <1>4, <1>6 DEF SocketInv
-----------------------------------------------------------------------------
IInv == WorldInv /\ SocketInv

LEMMA InitOk == Init => IInv
<1>1. SUFFICES ASSUME Init PROVE IInv
  OBVIOUS
<1>2. /\ state = [q \in Requests |-> "new"]
      /\ current = [r \in Roles |-> None] /\ used = [r \in Roles |-> {}]
      /\ granted = {} /\ lock = [k \in Keys |-> None]
      /\ cache = [k \in Keys |-> None] /\ queries = <<>> /\ db = [k \in Keys |-> 0]
      /\ loaded = [q \in Requests |-> None] /\ reconnects = 0 /\ deletes = 0
  BY <1>1 DEF Init
<1>3. 0 \in Count /\ 0 \in 0 .. MaxReconnects /\ 0 \in 0 .. MaxDeletes
  BY GiftKeyAssumption, FS_CardinalityType DEF Count
<1>4. queries \in Seq(Query) /\ DOMAIN queries = {}
  BY <1>2
<1>5. TypeOK
  BY <1>2, <1>3, <1>4 DEF TypeOK
<1>6. \A k : GrantsOf(k) = 0 /\ SavesOf(k) = {}
  <2>1. \A k : {q \in granted : KeyOf[q] = k} = {}
    BY <1>2
  <2>2. \A k : GrantsOf(k) = 0
    BY <2>1, FS_EmptySet DEF GrantsOf
  <2>3. QED
    BY <1>4, <2>2 DEF SavesOf
<1>7. KeyInv /\ NeverOverused
  BY <1>2, <1>6, GiftKeyAssumption DEF KeyInv, NeverOverused, Current
<1>8. LoadInv /\ DeleteInv
  BY <1>2, <1>4, Apart DEF LoadInv, DeleteInv
<1>9. LoadedInv /\ GrantInv /\ RoleInv /\ OnePerBatch
  BY <1>2 DEF LoadedInv, GrantInv, RoleInv, OnePerBatch
<1>10. QED
  BY <1>5, <1>7, <1>8, <1>9 DEF IInv, WorldInv, SocketInv

LEMMA NextOk ==
  ASSUME IInv, [Next]_vars
  PROVE  IInv'
<1>1. WorldInv /\ SocketInv
  BY DEF IInv
<1>2. CASE UNCHANGED vars
  <2>1. UNCHANGED <<state, current, used, reconnects, granted, lock, cache, queries, db, loaded, deletes>>
    BY <1>2 DEF vars, agent
  <2>2. WorldInv'
    BY <1>1, <2>1, WorldQuiet DEF WorldInv, TypeOK, GrantInv
  <2>3. QED
    BY <1>1, <2>1, <2>2, SocketQuiet DEF IInv
<1>3. ASSUME NEW q \in Requests, Use(q) PROVE IInv'
  BY <1>1, <1>3, WorldUseStep, SocketUse DEF IInv
<1>4. ASSUME NEW q \in Requests, Answered(q) PROVE IInv'
  BY <1>1, <1>4, WorldAnswered, SocketAnswered DEF IInv
<1>5. ASSUME NEW q \in Requests, UseCached(q) PROVE IInv'
  <2>1. /\ state[q] = "called" /\ state' = [state EXCEPT ![q] = "answered"]
        /\ granted' = granted \/ granted' = granted \cup {q}
        /\ UNCHANGED <<current, used, reconnects>>
    BY <1>5 DEF UseCached, Decide, agent
  <2>2. SocketInv'
    BY <1>1, <2>1, SocketWorld
  <2>3. QED
    BY <1>1, <1>5, <2>2, WorldUseCached DEF IInv
<1>6. ASSUME NEW q \in Requests, UseLoad(q) PROVE IInv'
  <2>1. /\ state[q] = "called" /\ state' = [state EXCEPT ![q] = "loading"]
        /\ granted' = granted /\ UNCHANGED <<current, used, reconnects>>
    BY <1>6 DEF UseLoad, agent
  <2>2. SocketInv'
    BY <1>1, <2>1, SocketWorld
  <2>3. QED
    BY <1>1, <1>6, <2>2, WorldUseLoad DEF IInv
<1>7. ASSUME NEW q \in Requests, UseLocked(q) PROVE IInv'
  <2>1. /\ state[q] = "called" /\ state' = [state EXCEPT ![q] = "answered"]
        /\ granted' = granted /\ UNCHANGED <<current, used, reconnects>>
    BY <1>7 DEF UseLocked, agent
  <2>2. SocketInv'
    BY <1>1, <2>1, SocketWorld
  <2>3. QED
    BY <1>1, <1>7, <2>2, WorldUseLocked DEF IInv
<1>8. ASSUME NEW q \in Requests, Loaded(q) PROVE IInv'
  <2>1. /\ state[q] = "loading" /\ state' = [state EXCEPT ![q] = "answered"]
        /\ granted' = granted \/ granted' = granted \cup {q}
        /\ UNCHANGED <<current, used, reconnects>>
    BY <1>8 DEF Loaded, Decide, agent
  <2>2. SocketInv'
    BY <1>1, <2>1, SocketWorld
  <2>3. QED
    BY <1>1, <1>8, <2>2, WorldLoaded DEF IInv
<1>9. ASSUME NEW r \in Roles, Reconnect(r) PROVE IInv'
  BY <1>1, <1>9, WorldReconnect, SocketReconnect DEF IInv
<1>10. ASSUME NEW k \in Keys, Delete(k) PROVE IInv'
  BY <1>1, <1>10, WorldDelete, SocketQuiet DEF IInv, Delete, agent
<1>11. CASE Save
  BY <1>1, <1>11, WorldSave, SocketQuiet DEF IInv, Save, agent
<1>12. CASE Execute
  BY <1>1, <1>12, WorldExecute, SocketQuiet DEF IInv, Execute, agent
<1>13. QED
  BY <1>2, <1>3, <1>4, <1>5, <1>6, <1>7, <1>8, <1>9, <1>10, <1>11, <1>12 DEF Next, WorldUse

LEMMA Invariant == Spec => []IInv
<1>1. Init => IInv
  BY InitOk
<1>2. IInv /\ [Next]_vars => IInv'
  BY NextOk
<1>3. QED
  BY <1>1, <1>2, PTL DEF Spec

(* The world's and the agent's variables keep their types: no count in the *)
(* cache, on the way or in a row exceeds the number of requests, and who   *)
(* loads a key has it locked (gift_key_utils.lua, lock_dict).              *)
THEOREM TypeCorrect == Spec => []TypeOK
<1>1. IInv => TypeOK
  BY DEF IInv, WorldInv
<1>2. QED
  BY Invariant, <1>1, PTL

(* A key is never used more often than total_use_count, for any number of  *)
(* keys, roles and requests and however saves, loads and deletions         *)
(* interleave: the check of use_gift_key is on the true number of uses.    *)
THEOREM KeysNeverOverused == Spec => []NeverOverused
<1>1. IInv => NeverOverused
  BY DEF IInv, WorldInv
<1>2. QED
  BY Invariant, <1>1, PTL

(* As long as no key is deleted, the count that a use finds - in the       *)
(* cache, in the last save under way or in the row - is the number of uses *)
(* that were allowed: save forgets the cache before the row is written.    *)
THEOREM CountsAreKept == Spec => []CountsKept
<1>1. WorldInv => CountsKept
  <2>1. SUFFICES ASSUME WorldInv, NEW k \in Keys, deletes = 0 PROVE FoundBy(k) = GrantsOf(k)
    BY DEF CountsKept
  <2>2. CASE cache[k] # None
    BY <2>1, <2>2 DEF FoundBy, WorldInv, KeyInv
  <2>3. CASE cache[k] = None /\ SavesOf(k) = {}
    BY <2>1, <2>3 DEF FoundBy, WorldInv, KeyInv, Current
  <2>4. CASE cache[k] = None /\ SavesOf(k) # {}
    <3>1. PICK n \in Nat : DOMAIN queries = 1 .. n
      BY <2>1, QueueTypes DEF WorldInv
    <3>2. PICK S : S = SavesOf(k)
      OBVIOUS
    <3>3. S \subseteq 1 .. n /\ S # {}
      BY <2>4, <3>1, <3>2 DEF SavesOf
    <3>4. \E i \in S : \A j \in S : j <= i
      BY <3>1, <3>3, Greatest DEF LastOf
    <3>5. PICK i : i = CHOOSE x \in S : \A j \in S : j <= x
      OBVIOUS
    <3>6. i \in S /\ \A j \in S : j <= i
      BY <3>4, <3>5
    <3>7. queries[i].values[k] = GrantsOf(k)
      BY <2>1, <2>4, <3>2, <3>6 DEF WorldInv, KeyInv, LastOf
    <3>8. FoundBy(k) = queries[i].values[k]
      BY <2>4, <3>2, <3>5 DEF FoundBy
    <3>9. QED
      BY <3>7, <3>8
  <2>5. QED
    BY <2>2, <2>3, <2>4
<1>2. IInv => CountsKept
  BY <1>1 DEF IInv
<1>3. QED
  BY Invariant, <1>2, PTL

(* A role that never changes its socket is given the items of one key per  *)
(* batch: while use_gift_key waits for the world the socket's lock is      *)
(* held, and the key is noted before it is given back.                     *)
THEOREM OneKeyPerBatch == Spec => []OnePerBatch
<1>1. IInv => OnePerBatch
  BY DEF IInv, SocketInv
<1>2. QED
  BY Invariant, <1>1, PTL
=============================================================================
