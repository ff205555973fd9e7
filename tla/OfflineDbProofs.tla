-------------------------- MODULE OfflineDbProofs --------------------------
(***************************************************************************)
(* The inductive invariant of OfflineDb and the proof that it implements   *)
(* ObjectStore.  The core of the invariant describes the requests under    *)
(* way about one object: executed in order, each finds the row as it       *)
(* expects it (Chained), and the mark in _save_lru tells what is missing   *)
(* behind the last of them (MarkInv).                                      *)
(***************************************************************************)
EXTENDS OfflineDb, SequenceTheorems, TLAPS

(* The value of the row once the first i requests of the pipe p have been  *)
(* executed, when it is r now.  Reading changes nothing.                   *)
After(p, r, i) ==
  IF i = 0 THEN r
  ELSE IF p[i].kind # "load" THEN p[i].value
  ELSE IF i = 1 THEN r ELSE p[i - 1].value

(* Each request finds the row as it expects it, the values never go back   *)
(* or beyond top, and nothing follows a load or a delete.                  *)
ChainedAt(p, r, top, i) ==
  /\ p[i].kind \in {"load", "delete"} => i = Len(p)
  /\ p[i].kind = "insert" => i = 1 /\ After(p, r, i - 1) = Absent
  /\ p[i].kind \in {"save", "delete"} => After(p, r, i - 1) # Absent
  /\ p[i].kind = "save" => After(p, r, i - 1) <= p[i].value
  /\ p[i].kind \in {"insert", "save"} => p[i].value \in First .. top
  /\ p[i].kind \in {"load", "delete"} => p[i].value = Absent

Chained(p, r, top) == \A i \in DOMAIN p : ChainedAt(p, r, top, i)

(* The value the row has in the end.                                       *)
Final(k) == After(pipe[k], row[k], Len(pipe[k]))

MarkInv(k) ==
  /\ op[k] = "none" => Final(k) = IF k \in deleted THEN Absent ELSE current[k]
  /\ op[k] = "insert" => pipe[k] = <<>> /\ row[k] = Absent /\ cache[k] # Absent
  /\ op[k] = "save" => Final(k) # Absent /\ cache[k] # Absent
  /\ op[k] = "delete" => Final(k) # Absent /\ k \in deleted

(* While an object is loaded nothing is sent about it.                     *)
LoadInv(k) ==
  /\ load_lock[k] => cache[k] = Absent /\ op[k] = "none" /\ k \notin deleted
  /\ \A i \in DOMAIN pipe[k] :
       /\ pipe[k][i].kind = "load" =>
            /\ pipe[k][i].by \in Clients
            /\ client[pipe[k][i].by].at = "loading"
            /\ client[pipe[k][i].by].key = k
       /\ pipe[k][i].kind = "delete" => k \in deleted

CacheInv(k) == cache[k] # Absent => cache[k] = current[k] /\ k \notin deleted

KeyInv(k) ==
  /\ Chained(pipe[k], row[k], current[k])
  /\ MarkInv(k)
  /\ LoadInv(k)
  /\ CacheInv(k)
  /\ row[k] <= current[k]

ClientInv(c) ==
  LET k == client[c].key IN
  /\ client[c].at = "idle" <=> k = NoKey
  /\ k \notin deleted
  /\ client[c].at \in {"loading", "answered"} => load_lock[k]
  /\ client[c].at = "answered" => pipe[k] = <<>> /\ client[c].data = row[k]

(* An object is loaded by one coroutine at a time.                         *)
OneLoader ==
  \A c, d \in Clients :
    (/\ client[c].at \in {"loading", "answered"}
     /\ client[d].at \in {"loading", "answered"}
     /\ client[c].key = client[d].key) => c = d

IInv ==
  /\ TypeOK
  /\ \A k \in Keys : KeyInv(k)
  /\ \A c \in Clients : ClientInv(c)
  /\ OneLoader
-----------------------------------------------------------------------------
(* What the definitions of the model say about numbers and sentinels.      *)
LEMMA Constants ==
  /\ Absent = 0 /\ First = 1
  /\ Versions = 1 .. MaxVersion
  /\ Values = 0 .. MaxVersion
  /\ MaxVersion \in Nat \ {0}
  /\ NoKey \notin Keys
BY OfflineDbAssumption DEF Absent, First, Versions, Values

LEMMA RequestValue ==
  ASSUME NEW p \in Seq(Request), NEW i \in 1 .. Len(p)
  PROVE  /\ p[i] \in Request
         /\ p[i].value \in Values
         /\ p[i].kind \in {"load", "insert", "save", "delete"}
<1>1. p[i] \in Request
  BY ElementOfSeq
<1>2. QED
  BY <1>1 DEF Request

LEMMA AfterType ==
  ASSUME NEW p \in Seq(Request), NEW r \in Values, NEW i \in 0 .. Len(p)
  PROVE  After(p, r, i) \in Values
<1>1. CASE i = 0
  BY <1>1 DEF After
<1>2. CASE i \in 1 .. Len(p)
  <2>1. p[i].value \in Values
    BY <1>2, RequestValue
  <2>2. i # 1 => p[i - 1].value \in Values
    BY <1>2, RequestValue
  <2>3. QED
    BY <1>2, <2>1, <2>2 DEF After
<1>3. QED
  BY <1>1, <1>2

(* A request that is sent leaves the ones before it as they are.           *)
LEMMA AfterAppend ==
  ASSUME NEW p \in Seq(Request), NEW m \in Request, NEW r
  PROVE  /\ Append(p, m) \in Seq(Request)
         /\ Len(Append(p, m)) = Len(p) + 1
         /\ DOMAIN Append(p, m) = 1 .. Len(p) + 1
         /\ \A i \in 1 .. Len(p) : Append(p, m)[i] = p[i]
         /\ Append(p, m)[Len(p) + 1] = m
         /\ \A i \in 0 .. Len(p) : After(Append(p, m), r, i) = After(p, r, i)
<1> DEFINE q == Append(p, m)
<1>1. /\ q \in Seq(Request)
      /\ Len(p) \in Nat
      /\ Len(q) = Len(p) + 1
      /\ DOMAIN q = 1 .. Len(p) + 1
      /\ \A i \in 1 .. Len(p) : q[i] = p[i]
      /\ q[Len(p) + 1] = m
  OBVIOUS
<1> HIDE DEF q
<1>2. ASSUME NEW i \in 0 .. Len(p) PROVE After(q, r, i) = After(p, r, i)
  <2>1. CASE i = 0
    BY <2>1 DEF After
  <2>2. CASE i \in 1 .. Len(p)
    <3>1. q[i] = p[i] /\ (i # 1 => q[i - 1] = p[i - 1])
      BY <1>1, <2>2
    <3>2. QED
      BY <2>2, <3>1 DEF After
  <2>3. QED
    BY <2>1, <2>2
<1>3. QED
  BY <1>1, <1>2 DEF q

LEMMA ChainedAppend ==
  ASSUME NEW p \in Seq(Request), NEW m \in Request, NEW r, NEW top,
         Chained(p, r, top),
         \A i \in 1 .. Len(p) : p[i].kind \notin {"load", "delete"},
         m.kind = "insert" => p = <<>> /\ r = Absent,
         m.kind \in {"save", "delete"} => After(p, r, Len(p)) # Absent,
         m.kind = "save" => After(p, r, Len(p)) <= m.value,
         m.kind \in {"insert", "save"} => m.value \in First .. top,
         m.kind \in {"load", "delete"} => m.value = Absent
  PROVE  Chained(Append(p, m), r, top)
<1> DEFINE q == Append(p, m)
<1>1. /\ Len(p) \in Nat
      /\ Len(q) = Len(p) + 1
      /\ DOMAIN q = 1 .. Len(p) + 1
      /\ \A i \in 1 .. Len(p) : q[i] = p[i]
      /\ q[Len(p) + 1] = m
      /\ \A i \in 0 .. Len(p) : After(q, r, i) = After(p, r, i)
  BY AfterAppend
<1> HIDE DEF q
<1>2. ASSUME NEW i \in 1 .. Len(p) PROVE ChainedAt(q, r, top, i)
  <2>1. ChainedAt(p, r, top, i)
    BY DEF Chained
  <2>2. q[i] = p[i] /\ After(q, r, i - 1) = After(p, r, i - 1)
    BY <1>1
  <2>3. p[i].kind \notin {"load", "delete"}
    OBVIOUS
  <2>4. QED
    BY <2>1, <2>2, <2>3 DEF ChainedAt
<1>3. ChainedAt(q, r, top, Len(p) + 1)
  <2>1. /\ Len(p) + 1 - 1 = Len(p)
        /\ After(q, r, Len(p)) = After(p, r, Len(p))
        /\ p = <<>> => Len(p) = 0 /\ After(p, r, Len(p)) = r
    BY <1>1 DEF After
  <2>2. QED
    BY <1>1, <2>1 DEF ChainedAt
<1>4. QED
  BY <1>1, <1>2, <1>3 DEF Chained, q

(* The request the database executes next.                                 *)
LEMMA AfterTail ==
  ASSUME NEW p \in Seq(Request), p # <<>>, NEW r
  PROVE  /\ Tail(p) \in Seq(Request)
         /\ Len(p) \in Nat \ {0}
         /\ Len(Tail(p)) = Len(p) - 1
         /\ DOMAIN Tail(p) = 1 .. Len(p) - 1
         /\ \A i \in 1 .. Len(p) - 1 : Tail(p)[i] = p[i + 1]
         /\ Head(p) = p[1] /\ Head(p) \in Request
         /\ p[1].kind = "load" => After(p, r, 1) = r
         /\ p[1].kind # "load" => After(p, r, 1) = p[1].value
<1>1. /\ Tail(p) \in Seq(Request)
      /\ Len(p) \in Nat \ {0}
      /\ Len(Tail(p)) = Len(p) - 1
      /\ DOMAIN Tail(p) = 1 .. Len(p) - 1
      /\ \A i \in 1 .. Len(p) - 1 : Tail(p)[i] = p[i + 1]
      /\ Head(p) = p[1]
  OBVIOUS
<1>2. Head(p) \in Request
  BY <1>1, RequestValue
<1>3. QED
  BY <1>1, <1>2 DEF After

LEMMA ChainedTail ==
  ASSUME NEW p \in Seq(Request), p # <<>>, NEW r, NEW top, Chained(p, r, top)
  PROVE  /\ \A i \in 0 .. Len(p) - 1 : After(Tail(p), After(p, r, 1), i) = After(p, r, i + 1)
         /\ Chained(Tail(p), After(p, r, 1), top)
<1> DEFINE q == Tail(p)
           r1 == After(p, r, 1)
<1>1. /\ Len(p) \in Nat \ {0}
      /\ Len(q) = Len(p) - 1
      /\ DOMAIN q = 1 .. Len(p) - 1
      /\ \A i \in 1 .. Len(p) - 1 : q[i] = p[i + 1]
      /\ p[1].kind # "load" => r1 = p[1].value
  BY AfterTail
<1> HIDE DEF q, r1
<1>2. \A i \in 1 .. Len(p) : ChainedAt(p, r, top, i)
  BY DEF Chained
<1>3. ASSUME NEW i \in 0 .. Len(p) - 1 PROVE After(q, r1, i) = After(p, r, i + 1)
  <2>1. CASE i = 0
    BY <2>1 DEF After, r1
  <2>2. CASE i = 1
    <3>1. q[1] = p[2] /\ p[1].kind # "load"
      BY <1>1, <1>2, <2>2 DEF ChainedAt
    <3>2. QED
      BY <1>1, <2>2, <3>1 DEF After
  <2>3. CASE i > 1
    <3>1. q[i] = p[i + 1] /\ q[i - 1] = p[i]
      BY <1>1, <2>3
    <3>2. QED
      BY <2>3, <3>1 DEF After
  <2>4. QED
    BY <2>1, <2>2, <2>3
<1>4. ASSUME NEW i \in 1 .. Len(p) - 1 PROVE ChainedAt(q, r1, top, i)
  <2>1. ChainedAt(p, r, top, i + 1) /\ q[i] = p[i + 1]
    BY <1>1, <1>2
  <2>2. After(q, r1, i - 1) = After(p, r, i)
    BY <1>3
  <2>3. i + 1 - 1 = i /\ i + 1 # 1
    OBVIOUS
  <2>4. QED
    BY <1>1, <2>1, <2>2, <2>3 DEF ChainedAt
<1>5. QED
  BY <1>1, <1>3, <1>4 DEF Chained, q, r1

LEMMA ChainedGrows ==
  ASSUME NEW p \in Seq(Request), NEW r, NEW top \in Values, NEW top2 \in Values, top <= top2,
         Chained(p, r, top)
  PROVE  Chained(p, r, top2)
<1>1. \A i \in 1 .. Len(p) : p[i].value \in Values /\ ChainedAt(p, r, top, i)
  BY RequestValue DEF Chained
<1>2. QED
  BY <1>1, Constants DEF Chained, ChainedAt
-----------------------------------------------------------------------------
(* A step leaves an object alone that it does not touch.                   *)
KeyKept(k) ==
  /\ <<cache[k], op[k], load_lock[k], pipe[k], row[k], current[k], k \in deleted>>' =
     <<cache[k], op[k], load_lock[k], pipe[k], row[k], current[k], k \in deleted>>
  /\ \A c \in Clients : (client[c].at = "loading" /\ client[c].key = k) => client'[c] = client[c]

LEMMA KeptInv ==
  ASSUME NEW k \in Keys, KeyInv(k), KeyKept(k)
  PROVE  KeyInv(k)'
<1>1. /\ cache'[k] = cache[k] /\ op'[k] = op[k] /\ load_lock'[k] = load_lock[k]
      /\ pipe'[k] = pipe[k] /\ row'[k] = row[k] /\ current'[k] = current[k]
      /\ (k \in deleted') <=> (k \in deleted)
  BY DEF KeyKept
<1>2. Chained(pipe[k], row[k], current[k])' /\ CacheInv(k)' /\ (row[k] <= current[k])'
  BY <1>1 DEF KeyInv, CacheInv, Chained, ChainedAt, After
<1>3. MarkInv(k)'
  BY <1>1 DEF KeyInv, MarkInv, Final, After
<1>4. LoadInv(k)'
  BY <1>1 DEF KeyInv, LoadInv, KeyKept
<1>5. QED
  BY <1>2, <1>3, <1>4 DEF KeyInv

(* What the typing and the invariant of an object say of its parts.        *)
LEMMA Parts ==
  ASSUME IInv, NEW k \in Keys
  PROVE  /\ pipe[k] \in Seq(Request)
         /\ row[k] \in Values /\ cache[k] \in Values /\ current[k] \in Values
         /\ load_lock[k] \in BOOLEAN
         /\ op[k] \in {"none", "insert", "save", "delete"}
         /\ Len(pipe[k]) \in Nat
         /\ DOMAIN pipe[k] = 1 .. Len(pipe[k])
         /\ Final(k) \in Values
         /\ \A i \in 1 .. Len(pipe[k]) : pipe[k][i] \in Request /\ pipe[k][i].value \in Values
         /\ KeyInv(k)
<1>1. /\ pipe[k] \in Seq(Request)
      /\ row[k] \in Values /\ cache[k] \in Values /\ current[k] \in Values
      /\ load_lock[k] \in BOOLEAN
      /\ op[k] \in {"none", "insert", "save", "delete"}
      /\ KeyInv(k)
  BY DEF IInv, TypeOK
<1>2. Len(pipe[k]) \in Nat /\ DOMAIN pipe[k] = 1 .. Len(pipe[k])
  BY <1>1
<1>3. Final(k) \in Values
  BY <1>1, <1>2, AfterType DEF Final
<1>4. QED
  BY <1>1, <1>2, <1>3, RequestValue

LEMMA ClientParts ==
  ASSUME IInv, NEW c \in Clients
  PROVE  /\ client[c] \in ClientState
         /\ client[c].at \in {"idle", "spin", "loading", "answered"}
         /\ client[c].key \in Keys \cup {NoKey}
         /\ client[c].auto \in BOOLEAN
         /\ client[c].data \in Values
         /\ client[c].at # "idle" => client[c].key \in Keys
         /\ ClientInv(c)
<1>1. client[c] \in ClientState /\ ClientInv(c)
  BY DEF IInv, TypeOK
<1>2. QED
  BY <1>1 DEF ClientState, ClientInv

(* The lock is free: no request to load the object is under way.           *)
LEMMA NoLoadUnderWay ==
  ASSUME IInv, NEW k \in Keys, ~load_lock[k]
  PROVE  \A i \in 1 .. Len(pipe[k]) : pipe[k][i].kind # "load"
<1> SUFFICES ASSUME NEW i \in 1 .. Len(pipe[k]), pipe[k][i].kind = "load" PROVE FALSE
  OBVIOUS
<1>1. /\ pipe[k][i].by \in Clients
      /\ client[pipe[k][i].by].at = "loading" /\ client[pipe[k][i].by].key = k
  BY Parts DEF KeyInv, LoadInv
<1>2. load_lock[k]
  BY <1>1, ClientParts DEF ClientInv
<1>3. QED
  BY <1>2

(* A coroutine that does not load starts or stops waiting.                 *)
LEMMA WaitStep ==
  ASSUME IInv, NEW c \in Clients, client[c].at \in {"idle", "spin"},
         NEW w \in ClientState, client' = [client EXCEPT ![c] = w],
         w.at \in {"idle", "spin"}, w.at = "idle" <=> w.key = NoKey, w.key \notin deleted,
         UNCHANGED <<cache, op, load_lock, pipe, row, callVars>>
  PROVE  IInv'
<1>1. TypeOK'
  BY DEF IInv, TypeOK, callVars
<1>2. ASSUME NEW k \in Keys PROVE KeyInv(k)'
  <2>1. KeyKept(k)
    BY DEF KeyKept, callVars, IInv, TypeOK
  <2>2. QED
    BY <2>1, KeptInv DEF IInv
<1>3. client' = [d \in Clients |-> IF d = c THEN w ELSE client[d]]
  BY DEF IInv, TypeOK
<1>4. ASSUME NEW d \in Clients PROVE ClientInv(d)'
  BY <1>3, ClientParts DEF ClientInv, callVars
<1>5. OneLoader'
  BY <1>3 DEF IInv, OneLoader
<1>6. QED
  BY <1>1, <1>2, <1>4, <1>5 DEF IInv

LEMMA StartLoadStep ==
  ASSUME IInv, NEW c \in Clients, NEW k \in Keys, NEW auto \in BOOLEAN,
         client[c].at \in {"idle", "spin"}, ~load_lock[k], cache[k] = Absent, k \notin deleted,
         StartLoad(c, k, auto), UNCHANGED <<cache, op, row, callVars>>
  PROVE  IInv'
<1> DEFINE m == [kind |-> "load", value |-> Absent, by |-> c]
           w == [at |-> "loading", key |-> k, auto |-> auto, data |-> Absent]
<1>1. /\ load_lock' = [load_lock EXCEPT ![k] = TRUE]
      /\ client' = [d \in Clients |-> IF d = c THEN w ELSE client[d]]
      /\ pipe' = [pipe EXCEPT ![k] = Append(pipe[k], m)]
      /\ pipe'[k] = Append(pipe[k], m)
  BY DEF StartLoad, Send, IInv, TypeOK
<1>2. m \in Request /\ w \in ClientState
  BY Constants DEF Request, ClientState
<1>3. /\ pipe'[k] \in Seq(Request)
      /\ DOMAIN pipe'[k] = 1 .. Len(pipe[k]) + 1
      /\ Len(pipe'[k]) = Len(pipe[k]) + 1
      /\ \A i \in 1 .. Len(pipe[k]) : pipe'[k][i] = pipe[k][i]
      /\ pipe'[k][Len(pipe[k]) + 1] = m
      /\ After(pipe'[k], row[k], Len(pipe[k])) = Final(k)
  BY <1>1, <1>2, Parts, AfterAppend DEF Final
<1>4. TypeOK'
  BY <1>1, <1>2, <1>3 DEF IInv, TypeOK, callVars
<1>5. \A i \in 1 .. Len(pipe[k]) : pipe[k][i].kind \notin {"load", "delete"}
  BY NoLoadUnderWay, Parts DEF KeyInv, LoadInv
<1>6. op[k] = "none"
  BY Parts DEF KeyInv, MarkInv
<1>7. \A d \in Clients : client[d].at \in {"loading", "answered"} => client[d].key # k
  BY ClientParts DEF ClientInv
<1>8. KeyInv(k)'
  <2>1. Chained(pipe'[k], row[k], current[k])
    <3>1. m.kind = "load" /\ m.value = Absent
      OBVIOUS
    <3>2. pipe[k] \in Seq(Request) /\ Chained(pipe[k], row[k], current[k])
      BY Parts DEF KeyInv
    <3> HIDE DEF m
    <3>3. Chained(Append(pipe[k], m), row[k], current[k])
      BY <1>2, <1>5, <3>1, <3>2, ChainedAppend
    <3>4. QED
      BY <1>1, <3>3
  <2>2. Chained(pipe[k], row[k], current[k])'
    BY <2>1 DEF callVars, Chained, ChainedAt, After
  <2>3. Final(k)' = Final(k)
    <3>1. CASE pipe[k] = <<>>
      BY <1>3, <3>1, Parts DEF Final, After
    <3>2. CASE pipe[k] # <<>>
      <4>1. Len(pipe[k]) >= 1 /\ Len(pipe[k]) + 1 # 1 /\ Len(pipe[k]) + 1 # 0
        BY <3>2, Parts
      <4>2. pipe[k][Len(pipe[k])].kind # "load"
        BY <1>5, <4>1, Parts
      <4>3. Final(k)' = pipe'[k][Len(pipe[k])].value
        BY <1>3, <4>1, Parts DEF Final, After
      <4>4. Final(k) = pipe[k][Len(pipe[k])].value
        BY <4>1, <4>2 DEF Final, After
      <4>5. QED
        BY <1>3, <4>1, <4>3, <4>4, Parts
    <3>3. QED
      BY <3>1, <3>2
  <2>4. MarkInv(k)'
    BY <1>6, <2>3, Parts DEF KeyInv, MarkInv, callVars
  <2>5. LoadInv(k)'
    BY <1>1, <1>3, <1>5, <1>6, Parts DEF LoadInv, callVars
  <2>6. QED
    BY <2>2, <2>4, <2>5, Parts DEF KeyInv, CacheInv, callVars
<1>9. ASSUME NEW j \in Keys, j # k PROVE KeyInv(j)'
  <2>1. KeyKept(j)
    BY <1>1, <1>9 DEF KeyKept, callVars, IInv, TypeOK
  <2>2. QED
    BY <2>1, KeptInv DEF IInv
<1>10. ASSUME NEW d \in Clients PROVE ClientInv(d)'
  <2>1. CASE d = c
    BY <1>1, <2>1, Parts, Constants DEF ClientInv, callVars, IInv, TypeOK
  <2>2. CASE d # c
    BY <1>1, <1>7, <2>2, ClientParts DEF ClientInv, callVars, IInv, TypeOK
  <2>3. QED
    BY <2>1, <2>2
<1>11. OneLoader'
  BY <1>1, <1>7 DEF IInv, OneLoader
<1>12. QED
  BY <1>4, <1>8, <1>9, <1>10, <1>11 DEF IInv

LEMMA AskStep ==
  ASSUME IInv, NEW c \in Clients, NEW k \in Keys, NEW auto \in BOOLEAN, Ask(c, k, auto)
  PROVE  IInv'
<1>1. CASE Locked(k)
  <2> DEFINE w == [at |-> "spin", key |-> k, auto |-> auto, data |-> Absent]
  <2>1. w \in ClientState
    BY Constants DEF ClientState
  <2>2. /\ client' = [client EXCEPT ![c] = w]
        /\ client[c].at = "idle" /\ k \notin deleted /\ k # NoKey
        /\ UNCHANGED <<cache, op, load_lock, pipe, row, callVars>>
    BY <1>1, Constants DEF Ask
  <2>3. QED
    BY <2>1, <2>2, WaitStep
<1>2. CASE ~Locked(k)
  BY <1>2, StartLoadStep DEF Ask, Locked
<1>3. QED
  BY <1>1, <1>2

LEMMA AgainStep ==
  ASSUME IInv, NEW c \in Clients, Again(c)
  PROVE  IInv'
<1>1. client[c].key \in Keys /\ client[c].auto \in BOOLEAN /\ client[c].key \notin deleted
  BY ClientParts DEF Again, ClientInv
<1>2. CASE cache[client[c].key] # Absent
  <2>1. Idle \in ClientState /\ Idle.at = "idle" /\ Idle.key = NoKey /\ NoKey \notin deleted
    BY Constants DEF Idle, ClientState, IInv, TypeOK
  <2>2. /\ client' = [client EXCEPT ![c] = Idle]
        /\ client[c].at = "spin"
        /\ UNCHANGED <<cache, op, load_lock, pipe, row, callVars>>
    BY <1>2 DEF Again
  <2>3. QED
    BY <2>1, <2>2, WaitStep
<1>3. CASE cache[client[c].key] = Absent
  BY <1>1, <1>3, StartLoadStep DEF Again, Locked
<1>4. QED
  BY <1>2, <1>3

(* When the answer is there nothing else about the object is under way.    *)
LEMMA Answered ==
  ASSUME IInv, NEW c \in Clients, client[c].at = "answered"
  PROVE  LET k == client[c].key IN
         /\ k \in Keys /\ load_lock[k] /\ pipe[k] = <<>>
         /\ op[k] = "none" /\ cache[k] = Absent /\ k \notin deleted
         /\ client[c].data = row[k] /\ row[k] = current[k]
<1> DEFINE k == client[c].key
<1>1. k \in Keys /\ load_lock[k] /\ pipe[k] = <<>> /\ client[c].data = row[k]
  BY ClientParts DEF ClientInv
<1>2. op[k] = "none" /\ cache[k] = Absent /\ k \notin deleted
  BY <1>1, Parts DEF KeyInv, LoadInv
<1>3. Final(k) = current[k] /\ Final(k) = row[k]
  BY <1>1, <1>2, Parts DEF KeyInv, MarkInv, Final, After
<1>4. QED
  BY <1>1, <1>2, <1>3

(* The coroutine that loaded k goes on, whatever it does with the answer.  *)
LEMMA Released ==
  ASSUME IInv, NEW c \in Clients, client[c].at = "answered", NEW k \in Keys, k = client[c].key,
         load_lock' = [load_lock EXCEPT ![k] = FALSE],
         client' = [client EXCEPT ![c] = Idle],
         UNCHANGED <<pipe, row, deleted>>,
         NEW v \in Values, NEW t \in Values, NEW o \in {"none", "insert"},
         cache' = [cache EXCEPT ![k] = v],
         op' = [op EXCEPT ![k] = o],
         current' = [current EXCEPT ![k] = t],
         v # Absent => v = t,
         IF o = "none" THEN t = row[k] ELSE row[k] = Absent /\ v # Absent
  PROVE  IInv'
<1>1. Idle \in ClientState /\ Idle.at = "idle" /\ Idle.key = NoKey
  BY Constants DEF Idle, ClientState
<1>2. client' = [d \in Clients |-> IF d = c THEN Idle ELSE client[d]]
  BY DEF IInv, TypeOK
<1>3. TypeOK'
  BY <1>1 DEF IInv, TypeOK
<1>4. /\ pipe[k] = <<>> /\ pipe'[k] = <<>> /\ row'[k] = row[k]
      /\ k \notin deleted /\ k \notin deleted'
      /\ cache'[k] = v /\ op'[k] = o /\ current'[k] = t /\ ~load_lock'[k]
  BY Answered DEF IInv, TypeOK
<1>5. KeyInv(k)'
  <2>1. Final(k)' = row[k]
    BY <1>4 DEF Final, After
  <2>2. (row[k] <= current[k])'
    BY <1>4, Parts, Constants
  <2>3. Chained(pipe[k], row[k], current[k])' /\ LoadInv(k)' /\ CacheInv(k)'
    BY <1>4 DEF Chained, LoadInv, CacheInv
  <2>4. MarkInv(k)'
    BY <1>4, <2>1 DEF MarkInv
  <2>5. QED
    BY <2>2, <2>3, <2>4 DEF KeyInv
<1>6. ASSUME NEW j \in Keys, j # k PROVE KeyInv(j)'
  <2>1. KeyKept(j)
    BY <1>2, <1>6 DEF KeyKept, IInv, TypeOK
  <2>2. QED
    BY <2>1, KeptInv DEF IInv
<1>7. \A d \in Clients : (d # c /\ client[d].at \in {"loading", "answered"}) => client[d].key # k
  BY DEF IInv, OneLoader
<1>8. ASSUME NEW d \in Clients PROVE ClientInv(d)'
  <2>1. CASE d = c
    BY <1>1, <1>2, <2>1, Constants DEF ClientInv, IInv, TypeOK
  <2>2. CASE d # c
    BY <1>2, <1>7, <2>2, ClientParts DEF ClientInv, IInv, TypeOK
  <2>3. QED
    BY <2>1, <2>2
<1>9. OneLoader'
  BY <1>1, <1>2 DEF IInv, OneLoader
<1>10. QED
  BY <1>3, <1>5, <1>6, <1>8, <1>9 DEF IInv

LEMMA LoadDoneStep ==
  ASSUME IInv, NEW c \in Clients, LoadDone(c)
  PROVE  IInv'
<1> DEFINE k == client[c].key
<1>1. /\ k \in Keys /\ op[k] = "none" /\ cache[k] = Absent
      /\ client[c].data = row[k] /\ row[k] = current[k] /\ row[k] \in Values
  BY Answered, Parts DEF LoadDone
<1>2. /\ cache \in [Keys -> Values] /\ current \in [Keys -> Values]
      /\ op \in [Keys -> {"none", "insert", "save", "delete"}]
      /\ client[c].at = "answered"
      /\ load_lock' = [load_lock EXCEPT ![k] = FALSE]
      /\ client' = [client EXCEPT ![c] = Idle]
      /\ UNCHANGED <<pipe, row, deleted>>
  BY DEF IInv, TypeOK, LoadDone
<1>3. CASE client[c].data # Absent
  <2>1. /\ cache' = [cache EXCEPT ![k] = row[k]]
        /\ op' = [op EXCEPT ![k] = "none"]
        /\ current' = [current EXCEPT ![k] = row[k]]
    BY <1>1, <1>2, <1>3 DEF LoadDone
  <2>2. QED
    BY <1>1, <1>2, <2>1, Released
<1>4. CASE client[c].data = Absent /\ client[c].auto
  <2>1. /\ cache' = [cache EXCEPT ![k] = First]
        /\ op' = [op EXCEPT ![k] = "insert"]
        /\ current' = [current EXCEPT ![k] = First]
        /\ First \in Values /\ First # Absent
    BY <1>1, <1>2, <1>4, Constants DEF LoadDone
  <2>2. QED
    BY <1>1, <1>2, <1>4, <2>1, Released
<1>5. CASE client[c].data = Absent /\ ~client[c].auto
  <2>1. /\ cache' = [cache EXCEPT ![k] = Absent]
        /\ op' = [op EXCEPT ![k] = "none"]
        /\ current' = [current EXCEPT ![k] = row[k]]
        /\ Absent \in Values
    BY <1>1, <1>2, <1>5, Constants DEF LoadDone
  <2>2. QED
    BY <1>1, <1>2, <2>1, Released
<1>6. QED
  BY <1>3, <1>4, <1>5

LEMMA LoadFailStep ==
  ASSUME IInv, NEW c \in Clients, LoadFail(c)
  PROVE  IInv'
<1> DEFINE k == client[c].key
<1>1. /\ k \in Keys /\ op[k] = "none" /\ cache[k] = Absent
      /\ row[k] = current[k] /\ row[k] \in Values
  BY Answered, Parts DEF LoadFail
<1>2. /\ client[c].at = "answered"
      /\ load_lock' = [load_lock EXCEPT ![k] = FALSE]
      /\ client' = [client EXCEPT ![c] = Idle]
      /\ UNCHANGED <<pipe, row, deleted>>
  BY DEF LoadFail, callVars
<1>3. /\ cache' = [cache EXCEPT ![k] = Absent]
      /\ op' = [op EXCEPT ![k] = "none"]
      /\ current' = [current EXCEPT ![k] = row[k]]
      /\ Absent \in Values
  BY <1>1, Constants DEF IInv, TypeOK, LoadFail, callVars
<1>4. QED
  BY <1>1, <1>2, <1>3, Released

(* A step of a caller or a saver about one object that is not loaded.      *)
LEMMA KeyStep ==
  ASSUME IInv, NEW k \in Keys, TypeOK', KeyInv(k)',
         UNCHANGED <<load_lock, client, row>>,
         \A j \in Keys : j # k =>
           <<cache[j], op[j], pipe[j], current[j], j \in deleted>>' =
           <<cache[j], op[j], pipe[j], current[j], j \in deleted>>,
         pipe'[k] = pipe[k] \/ ~load_lock[k],
         deleted' = deleted \/ (deleted' = deleted \cup {k} /\ \A c \in Clients : client[c].key # k)
  PROVE  IInv'
<1>1. ASSUME NEW j \in Keys, j # k PROVE KeyInv(j)'
  <2>1. KeyKept(j)
    BY <1>1 DEF KeyKept
  <2>2. QED
    BY <2>1, KeptInv DEF IInv
<1>2. ASSUME NEW c \in Clients PROVE ClientInv(c)'
  <2>1. client[c].key \notin deleted'
    BY ClientParts DEF ClientInv
  <2>2. client[c].at = "answered" => pipe'[client[c].key] = pipe[client[c].key]
    BY Answered
  <2>3. QED
    BY <2>1, <2>2, ClientParts DEF ClientInv
<1>3. OneLoader'
  BY DEF IInv, OneLoader
<1>4. QED
  BY <1>1, <1>2, <1>3 DEF IInv

LEMMA SetStep ==
  ASSUME IInv, NEW k \in Keys, Set(k)
  PROVE  IInv'
<1> DEFINE v == current[k] + 1
<1>1. /\ v \in Versions /\ v \in Values /\ v # Absent
      /\ current[k] # Absent /\ current[k] \in Values
      /\ k \notin deleted /\ ~load_lock[k]
  BY Parts, Constants DEF Set, Has
<1>2. Mark(k) \in {"insert", "save", "delete"}
  BY Parts DEF Mark
<1>3. TypeOK'
  BY <1>1, <1>2 DEF Set, IInv, TypeOK
<1>4. /\ cache'[k] = v /\ current'[k] = v /\ op'[k] = Mark(k)
      /\ UNCHANGED <<load_lock, client, pipe, row, deleted>>
  BY DEF Set, IInv, TypeOK
<1>5. KeyInv(k)'
  <2>1. current[k] <= v /\ row[k] <= v
    BY <1>1, Parts, Constants DEF KeyInv
  <2>2. Chained(pipe[k], row[k], v)
    BY <1>1, <2>1, Parts, ChainedGrows DEF KeyInv
  <2>3. Chained(pipe[k], row[k], current[k])'
    BY <1>4, <2>2 DEF Chained, ChainedAt, After
  <2>4. Final(k)' = Final(k)
    BY <1>4 DEF Final, After
  <2>5. MarkInv(k)'
    BY <1>1, <1>4, <2>4, Parts DEF KeyInv, MarkInv, Mark
  <2>6. LoadInv(k)' /\ CacheInv(k)'
    BY <1>1, <1>4, Parts DEF KeyInv, LoadInv, CacheInv
  <2>7. QED
    BY <1>4, <2>1, <2>3, <2>5, <2>6 DEF KeyInv
<1>6. \A j \in Keys : j # k =>
        <<cache[j], op[j], pipe[j], current[j], j \in deleted>>' =
        <<cache[j], op[j], pipe[j], current[j], j \in deleted>>
  BY DEF Set, IInv, TypeOK
<1>7. QED
  BY <1>3, <1>4, <1>5, <1>6, KeyStep

LEMMA DeleteStep ==
  ASSUME IInv, NEW k \in Keys, Delete(k)
  PROVE  IInv'
<1>1. k \notin deleted /\ ~load_lock[k] /\ current[k] # Absent
  BY DEF Delete, Has
<1>2. Unmark(k) \in {"none", "delete"}
  BY DEF Unmark
<1>3. TypeOK'
  BY <1>2, Constants DEF Delete, IInv, TypeOK
<1>4. /\ cache'[k] = Absent /\ op'[k] = Unmark(k)
      /\ k \in deleted' /\ deleted' = deleted \cup {k}
      /\ UNCHANGED <<load_lock, client, pipe, row, current>>
      /\ \A c \in Clients : client[c].key # k
  BY DEF Delete, IInv, TypeOK
<1>5. KeyInv(k)'
  <2>1. Chained(pipe[k], row[k], current[k])' /\ (row[k] <= current[k])'
    BY <1>4, Parts DEF KeyInv, Chained, ChainedAt, After
  <2>2. Final(k)' = Final(k)
    BY <1>4 DEF Final, After
  <2>3. op[k] = "insert" => Final(k) = Absent
    BY Parts DEF KeyInv, MarkInv, Final, After
  <2>4. MarkInv(k)'
    BY <1>1, <1>4, <2>2, <2>3, Parts DEF KeyInv, MarkInv, Unmark
  <2>5. LoadInv(k)' /\ CacheInv(k)'
    BY <1>1, <1>4, Parts DEF KeyInv, LoadInv, CacheInv
  <2>6. QED
    BY <2>1, <2>4, <2>5 DEF KeyInv
<1>6. \A j \in Keys : j # k =>
        <<cache[j], op[j], pipe[j], current[j], j \in deleted>>' =
        <<cache[j], op[j], pipe[j], current[j], j \in deleted>>
  BY <1>4 DEF Delete, IInv, TypeOK
<1>7. QED
  BY <1>3, <1>4, <1>5, <1>6, KeyStep

(* Before a marked object is written nothing but updates is under way.     *)
LEMMA MarkedPipe ==
  ASSUME IInv, NEW k \in Keys, op[k] # "none"
  PROVE  /\ ~load_lock[k]
         /\ \A i \in 1 .. Len(pipe[k]) : pipe[k][i].kind \notin {"load", "delete"}
<1>1. ~load_lock[k]
  BY Parts DEF KeyInv, LoadInv
<1>2. ASSUME NEW i \in 1 .. Len(pipe[k]), pipe[k][i].kind = "delete" PROVE FALSE
  <2>1. i = Len(pipe[k]) /\ pipe[k][i].value = Absent /\ i # 0
    BY <1>2, Parts DEF KeyInv, Chained, ChainedAt
  <2>2. Final(k) = Absent
    BY <1>2, <2>1 DEF Final, After
  <2>3. pipe[k] # <<>>
    BY <2>1, Parts
  <2>4. QED
    BY <2>2, <2>3, Parts DEF KeyInv, MarkInv
<1>3. QED
  BY <1>1, <1>2, NoLoadUnderWay

(* The last request leaves nothing newer than the current value.           *)
LEMMA FinalBound ==
  ASSUME IInv, NEW k \in Keys, op[k] # "none"
  PROVE  Final(k) \in Values /\ Final(k) <= current[k]
<1>1. Final(k) \in Values
  BY Parts
<1>2. CASE pipe[k] = <<>>
  BY <1>1, <1>2, Parts DEF Final, After, KeyInv
<1>3. CASE pipe[k] # <<>>
  <2> DEFINE n == Len(pipe[k])
  <2>1. n \in 1 .. n /\ n # 0
    BY <1>3, Parts
  <2>2. pipe[k][n].kind \in {"insert", "save"}
    BY <2>1, MarkedPipe, Parts, RequestValue
  <2>3. Final(k) = pipe[k][n].value
    BY <2>1, <2>2 DEF Final, After
  <2>4. pipe[k][n].value \in First .. current[k]
    BY <2>1, <2>2, Parts DEF KeyInv, Chained, ChainedAt
  <2>5. QED
    BY <1>1, <2>3, <2>4, Parts, Constants
<1>4. QED
  BY <1>2, <1>3

(* __check_save, after which the object may be taken out of the cache.     *)
LEMMA CheckSaveStep ==
  ASSUME IInv, NEW s \in Savers, NEW k \in Keys, CheckSave(s, k, cache[k]),
         cache' = cache \/ cache' = [cache EXCEPT ![k] = Absent],
         UNCHANGED <<load_lock, client, row, callVars>>
  PROVE  IInv'
<1> DEFINE v == IF op[k] = "delete" THEN Absent ELSE cache[k]
           m == [kind |-> op[k], value |-> v, by |-> s]
<1>1. /\ op'[k] = "none" /\ op' = [op EXCEPT ![k] = "none"]
      /\ current' = current /\ deleted' = deleted
      /\ cache' \in [Keys -> Values]
      /\ cache'[k] = Absent \/ cache'[k] = cache[k]
      /\ \A j \in Keys : j # k => cache'[j] = cache[j]
  <2> HIDE DEF v, m
  <2>1. op \in [Keys -> {"none", "insert", "save", "delete"}] /\ cache \in [Keys -> Values]
    BY DEF IInv, TypeOK
  <2>2. Absent \in Values
    BY Constants
  <2>3. op' = [op EXCEPT ![k] = "none"] /\ current' = current /\ deleted' = deleted
    BY DEF CheckSave, callVars
  <2>4. QED
    BY <2>1, <2>2, <2>3
<1>2. op[k] \in {"insert", "save"} => v = current[k] /\ v # Absent /\ k \notin deleted
  BY Parts DEF KeyInv, MarkInv, CacheInv
<1>3. CASE op[k] # "none"
  <2>1. /\ pipe' = [pipe EXCEPT ![k] = Append(pipe[k], m)]
        /\ pipe'[k] = Append(pipe[k], m)
    <3>1. op[k] = "delete" \/ (op[k] # "none" /\ cache[k] # Absent)
      BY <1>2, <1>3, Parts
    <3>2. Send(k, m)
      BY <3>1 DEF CheckSave
    <3> HIDE DEF m
    <3>3. QED
      BY <3>2 DEF Send, IInv, TypeOK
  <2>2. m \in Request /\ m.kind = op[k] /\ m.value = v
    BY <1>3, Parts, Constants DEF Request
  <2> HIDE DEF m
  <2>3. /\ pipe'[k] \in Seq(Request)
        /\ Len(pipe'[k]) = Len(pipe[k]) + 1
        /\ DOMAIN pipe'[k] = 1 .. Len(pipe[k]) + 1
        /\ \A i \in 1 .. Len(pipe[k]) : pipe'[k][i] = pipe[k][i]
        /\ pipe'[k][Len(pipe[k]) + 1] = m
    BY <2>1, <2>2, Parts, AfterAppend
  <2>4. TypeOK'
    BY <1>1, <2>1, <2>3 DEF IInv, TypeOK, callVars
  <2>5. KeyInv(k)'
    <3>1. Final(k) \in Values /\ Final(k) <= current[k]
      BY <1>3, FinalBound
    <3>2. Chained(Append(pipe[k], m), row[k], current[k])
      <4>1. m.kind = "insert" => pipe[k] = <<>> /\ row[k] = Absent
        BY <2>2, Parts DEF KeyInv, MarkInv
      <4>2. m.kind \in {"save", "delete"} => Final(k) # Absent
        BY <2>2, Parts DEF KeyInv, MarkInv
      <4>3. m.kind \in {"insert", "save"} => m.value \in First .. current[k] /\ m.value = current[k]
        BY <1>2, <2>2, Parts, Constants
      <4>4. m.kind \in {"load", "delete"} => m.value = Absent
        BY <1>3, <2>2, Parts
      <4>5. QED
        BY <1>3, <2>2, <3>1, <4>1, <4>2, <4>3, <4>4, Parts, MarkedPipe, ChainedAppend
           DEF KeyInv, Final
    <3>3. Chained(pipe[k], row[k], current[k])'
      BY <1>1, <2>1, <3>2 DEF Chained, ChainedAt, After
    <3>4. Final(k)' = v
      BY <1>3, <2>2, <2>3, Parts DEF Final, After
    <3>5. MarkInv(k)'
      BY <1>1, <1>2, <1>3, <3>4, Parts DEF KeyInv, MarkInv
    <3>6. LoadInv(k)'
      BY <1>1, <1>3, <2>2, <2>3, Parts, MarkedPipe DEF KeyInv, LoadInv, MarkInv
    <3>7. QED
      BY <1>1, <3>3, <3>5, <3>6, Parts DEF KeyInv, CacheInv
  <2>6. \A j \in Keys : j # k =>
          <<cache[j], op[j], pipe[j], current[j], j \in deleted>>' =
          <<cache[j], op[j], pipe[j], current[j], j \in deleted>>
    BY <1>1, <2>1 DEF IInv, TypeOK
  <2>7. QED
    BY <1>1, <1>3, <2>4, <2>5, <2>6, MarkedPipe, KeyStep
<1>4. CASE op[k] = "none"
  <2>1. pipe' = pipe
    BY <1>4 DEF CheckSave
  <2>2. TypeOK'
    BY <1>1, <2>1 DEF IInv, TypeOK, callVars
  <2>3. KeyInv(k)'
    BY <1>1, <1>4, <2>1, Parts
       DEF KeyInv, Chained, ChainedAt, After, MarkInv, Final, LoadInv, CacheInv
  <2>4. \A j \in Keys : j # k =>
          <<cache[j], op[j], pipe[j], current[j], j \in deleted>>' =
          <<cache[j], op[j], pipe[j], current[j], j \in deleted>>
    BY <1>1, <2>1 DEF IInv, TypeOK
  <2>5. QED
    BY <1>1, <2>1, <2>2, <2>3, <2>4, KeyStep
<1>5. QED
  BY <1>3, <1>4

LEMMA EvictStep ==
  ASSUME IInv, NEW s \in Savers, NEW k \in Keys, Evict(s, k)
  PROVE  IInv'
<1>1. /\ CheckSave(s, k, cache[k])
      /\ cache' = [cache EXCEPT ![k] = Absent]
      /\ UNCHANGED <<load_lock, client, row, callVars>>
  BY DEF Evict, Evicted
<1>2. QED
  BY <1>1, CheckSaveStep

LEMMA FlushStep ==
  ASSUME IInv, NEW s \in Savers, NEW k \in Keys, Flush(s, k)
  PROVE  IInv'
<1>1. /\ CheckSave(s, k, cache[k])
      /\ UNCHANGED <<cache, load_lock, client, row, callVars>>
  BY DEF Flush
<1>2. QED
  BY <1>1, CheckSaveStep

(* What DbApply does to the row is what After says of the first request.   *)
LEMMA Executed ==
  ASSUME IInv, NEW k \in Keys, DbApply(k)
  PROVE  /\ pipe[k] # <<>> /\ pipe'[k] = Tail(pipe[k])
         /\ row'[k] = After(pipe[k], row[k], 1) /\ row'[k] \in Values
         /\ row'[k] = Absent \/ row'[k] <= current[k]
         /\ \A j \in Keys : j # k => pipe'[j] = pipe[j] /\ row'[j] = row[j]
         /\ pipe' \in [Keys -> Seq(Request)] /\ row' \in [Keys -> Values]
<1> DEFINE p == pipe[k]
           m == p[1]
<1>1. /\ p # <<>> /\ p \in Seq(Request)
      /\ m = Head(p) /\ m \in Request
      /\ Tail(p) \in Seq(Request)
      /\ m.kind = "load" => After(p, row[k], 1) = row[k]
      /\ m.kind # "load" => After(p, row[k], 1) = m.value
      /\ 1 \in 1 .. Len(p)
  BY Parts, AfterTail DEF DbApply
<1>2. m.value \in Values /\ m.kind \in {"load", "insert", "save", "delete"}
  BY <1>1, RequestValue
<1>3. /\ ChainedAt(p, row[k], current[k], 1)
      /\ After(p, row[k], 0) = row[k]
  BY <1>1, Parts DEF KeyInv, Chained, After
<1>4. /\ pipe' = [pipe EXCEPT ![k] = Tail(p)]
      /\ row' = [row EXCEPT ![k] =
           CASE m.kind = "load"   -> row[k]
             [] m.kind = "insert" -> IF row[k] = Absent THEN m.value ELSE row[k]
             [] m.kind = "save"   -> IF row[k] = Absent THEN row[k] ELSE m.value
             [] m.kind = "delete" -> Absent]
  BY <1>1 DEF DbApply
<1>5. After(p, row[k], 1) =
           CASE m.kind = "load"   -> row[k]
             [] m.kind = "insert" -> IF row[k] = Absent THEN m.value ELSE row[k]
             [] m.kind = "save"   -> IF row[k] = Absent THEN row[k] ELSE m.value
             [] m.kind = "delete" -> Absent
  <2>1. CASE m.kind = "load"
    BY <1>1, <2>1
  <2>2. CASE m.kind = "insert"
    BY <1>1, <1>3, <2>2 DEF ChainedAt
  <2>3. CASE m.kind = "save"
    BY <1>1, <1>3, <2>3 DEF ChainedAt
  <2>4. CASE m.kind = "delete"
    BY <1>1, <1>3, <2>4 DEF ChainedAt
  <2>5. QED
    BY <1>2, <2>1, <2>2, <2>3, <2>4
<1>6. row'[k] = After(p, row[k], 1)
  BY <1>4, <1>5 DEF IInv, TypeOK
<1>7. After(p, row[k], 1) \in Values
  BY <1>1, Parts, AfterType
<1>8. After(p, row[k], 1) = Absent \/ After(p, row[k], 1) <= current[k]
  <2>1. m.kind \in {"insert", "save"} => m.value <= current[k]
    BY <1>3, <1>2, Parts, Constants DEF ChainedAt
  <2>2. m.kind = "delete" => m.value = Absent
    BY <1>3 DEF ChainedAt
  <2>3. QED
    BY <1>1, <1>2, <2>1, <2>2, Parts DEF KeyInv
<1>9. /\ \A j \in Keys : j # k => pipe'[j] = pipe[j] /\ row'[j] = row[j]
      /\ pipe' \in [Keys -> Seq(Request)] /\ row' \in [Keys -> Values]
      /\ pipe'[k] = Tail(p)
  BY <1>1, <1>4, <1>5, <1>7 DEF IInv, TypeOK
<1>10. QED
  BY <1>1, <1>6, <1>7, <1>8, <1>9

(* The object whose request was executed.                                  *)
LEMMA ExecutedKey ==
  ASSUME IInv, NEW k \in Keys, DbApply(k)
  PROVE  KeyInv(k)'
<1> DEFINE p == pipe[k]
<1>1. /\ p # <<>> /\ p \in Seq(Request) /\ pipe'[k] = Tail(p)
      /\ row'[k] = After(p, row[k], 1) /\ row'[k] \in Values
      /\ row'[k] = Absent \/ row'[k] <= current[k]
      /\ current[k] \in Values
  BY Executed, Parts
<1>2. UNCHANGED <<cache, op, load_lock, current, deleted>>
  BY DEF DbApply, callVars
<1>3. /\ Len(p) \in Nat \ {0}
      /\ Len(Tail(p)) = Len(p) - 1
      /\ DOMAIN Tail(p) = 1 .. Len(p) - 1
      /\ \A i \in 1 .. Len(p) - 1 : Tail(p)[i] = p[i + 1]
      /\ Head(p) = p[1]
  BY <1>1, AfterTail
<1>4. Chained(p, row[k], current[k])
  BY Parts DEF KeyInv
<1>5. /\ Chained(Tail(p), row'[k], current[k])
      /\ After(Tail(p), row'[k], Len(p) - 1) = After(p, row[k], Len(p))
  <2>1. Len(p) - 1 \in 0 .. Len(p) - 1 /\ Len(p) - 1 + 1 = Len(p)
    BY <1>3
  <2>2. QED
    BY <1>1, <1>4, <2>1, ChainedTail
<1>6. Chained(pipe[k], row[k], current[k])'
  BY <1>1, <1>2, <1>5 DEF Chained, ChainedAt, After
<1>7. Final(k)' = Final(k)
  BY <1>1, <1>3, <1>5 DEF Final, After
<1>8. MarkInv(k)'
  BY <1>1, <1>2, <1>7, Parts DEF KeyInv, MarkInv
<1>9. LoadInv(k)'
  <2>1. load_lock'[k] => cache'[k] = Absent /\ op'[k] = "none" /\ k \notin deleted'
    BY <1>2, Parts DEF KeyInv, LoadInv
  <2>2. ASSUME NEW i \in 1 .. Len(p) - 1
        PROVE  /\ Tail(p)[i].kind = "load" =>
                    /\ Tail(p)[i].by \in Clients
                    /\ client'[Tail(p)[i].by].at = "loading"
                    /\ client'[Tail(p)[i].by].key = k
               /\ Tail(p)[i].kind = "delete" => k \in deleted'
    <3>1. i + 1 \in 1 .. Len(p) /\ Tail(p)[i] = p[i + 1] /\ Len(p) # 1
      BY <1>3
    <3>2. p[1].kind # "load"
      BY <1>3, <1>4, <3>1 DEF Chained, ChainedAt
    <3>3. client' = client
      BY <1>1, <1>3, <3>2 DEF DbApply
    <3>4. QED
      BY <1>2, <3>1, <3>3, Parts DEF KeyInv, LoadInv
  <2>3. QED
    BY <1>1, <1>3, <2>1, <2>2 DEF LoadInv
<1>10. CacheInv(k)' /\ (row[k] <= current[k])'
  BY <1>1, <1>2, Parts, Constants DEF KeyInv, CacheInv
<1>11. QED
  BY <1>6, <1>8, <1>9, <1>10 DEF KeyInv

LEMMA DbApplyStep ==
  ASSUME IInv, NEW k \in Keys, DbApply(k)
  PROVE  IInv'
<1> DEFINE p == pipe[k]
           c == p[1].by
           w == [client[c] EXCEPT !.at = "answered", !.data = row[k]]
<1>1. /\ p # <<>> /\ p \in Seq(Request) /\ pipe'[k] = Tail(p)
      /\ row'[k] = After(p, row[k], 1)
      /\ \A j \in Keys : j # k => pipe'[j] = pipe[j] /\ row'[j] = row[j]
      /\ pipe' \in [Keys -> Seq(Request)] /\ row' \in [Keys -> Values]
  BY Executed, Parts
<1>2. UNCHANGED <<cache, op, load_lock, current, deleted>>
  BY DEF DbApply, callVars
<1>3. /\ Len(p) \in Nat \ {0}
      /\ Head(p) = p[1]
      /\ p[1].kind = "load" => row'[k] = row[k]
  BY <1>1, AfterTail
<1>4. p[1].kind = "load" =>
        /\ c \in Clients /\ client[c].at = "loading" /\ client[c].key = k
        /\ pipe'[k] = <<>>
        /\ client' = [d \in Clients |->
                        IF d = c THEN w ELSE client[d]]
  <2> SUFFICES ASSUME p[1].kind = "load"
               PROVE  /\ c \in Clients /\ client[c].at = "loading" /\ client[c].key = k
                      /\ pipe'[k] = <<>>
                      /\ client' = [d \in Clients |->
                                      IF d = c THEN w ELSE client[d]]
    OBVIOUS
  <2>1. c \in Clients /\ client[c].at = "loading" /\ client[c].key = k
    BY <1>3, Parts DEF KeyInv, LoadInv
  <2>2. Len(p) = 1
    <3>1. 1 \in 1 .. Len(p)
      BY <1>3
    <3>2. ChainedAt(p, row[k], current[k], 1)
      BY <3>1, Parts DEF KeyInv, Chained
    <3>3. QED
      BY <3>2 DEF ChainedAt
  <2>3. Tail(p) = <<>>
    BY <1>1, <2>2
  <2>4. client' = [client EXCEPT ![c].at = "answered", ![c].data = row[k]]
    BY <1>3 DEF DbApply
  <2>5. QED
    BY <1>1, <2>1, <2>3, <2>4 DEF IInv, TypeOK
<1>5. p[1].kind # "load" => client' = client
  BY <1>3 DEF DbApply
<1>6. p[1].kind = "load" =>
        /\ w \in ClientState
        /\ w.at = "answered" /\ w.key = k /\ w.data = row[k]
  BY <1>4, ClientParts, Parts DEF ClientState
<1> HIDE DEF w
<1>7. client' \in [Clients -> ClientState]
  BY <1>4, <1>5, <1>6 DEF IInv, TypeOK
<1>8. TypeOK'
  BY <1>1, <1>2, <1>7 DEF IInv, TypeOK
<1>9. ASSUME NEW j \in Keys, j # k PROVE KeyInv(j)'
  <2>1. KeyKept(j)
    BY <1>1, <1>2, <1>4, <1>5, <1>9 DEF KeyKept, IInv, TypeOK
  <2>2. QED
    BY <2>1, KeptInv DEF IInv
<1>10. ASSUME NEW d \in Clients PROVE ClientInv(d)'
  <2>1. CASE p[1].kind = "load" /\ d = c
    <3>1. /\ client'[d].at = "answered" /\ client'[d].key = k /\ client'[d].data = row[k]
          /\ k # NoKey /\ load_lock[k] /\ k \notin deleted
      BY <1>4, <1>6, <2>1, ClientParts, Constants DEF ClientInv
    <3>2. QED
      BY <1>2, <1>3, <1>4, <2>1, <3>1 DEF ClientInv
  <2>2. CASE p[1].kind # "load" \/ d # c
    <3>1. client'[d] = client[d]
      BY <1>4, <1>5, <2>2
    <3>2. client[d].at = "answered" => client[d].key # k /\ client[d].key \in Keys
      BY <1>1, Answered
    <3>3. QED
      BY <1>1, <1>2, <3>1, <3>2, ClientParts DEF ClientInv
  <2>3. QED
    BY <2>1, <2>2
<1>11. OneLoader'
  <2>1. \A d \in Clients :
          /\ client'[d].key = client[d].key
          /\ client'[d].at \in {"loading", "answered"} => client[d].at \in {"loading", "answered"}
    BY <1>4, <1>5, <1>6
  <2>2. QED
    BY <2>1 DEF IInv, OneLoader
<1>12. QED
  BY <1>8, <1>9, <1>10, <1>11, ExecutedKey DEF IInv

(* After a crash the memory is empty or has what the rows have.            *)
LEMMA CrashStep ==
  ASSUME IInv, Crash
  PROVE  IInv'
<1>1. PICK S \in SUBSET Keys : cache' = [k \in Keys |-> IF k \in S THEN row[k] ELSE Absent]
  BY DEF Crash
<1>2. /\ op' = [k \in Keys |-> "none"]
      /\ load_lock' = [k \in Keys |-> FALSE]
      /\ client' = [c \in Clients |-> Idle]
      /\ pipe' = [k \in Keys |-> <<>>]
      /\ current' = row /\ row' = row
      /\ deleted' = {k \in deleted : DurablyGone(k)}
  BY DEF Crash
<1>3. Idle \in ClientState /\ Idle.at = "idle" /\ Idle.key = NoKey
  BY Constants DEF Idle, ClientState
<1>4. TypeOK'
  BY <1>1, <1>2, <1>3, Constants DEF IInv, TypeOK
<1>5. ASSUME NEW k \in Keys PROVE KeyInv(k)'
  <2>1. /\ pipe'[k] = <<>> /\ row'[k] = row[k] /\ current'[k] = row[k] /\ op'[k] = "none"
        /\ load_lock'[k] = FALSE
        /\ cache'[k] = row[k] \/ cache'[k] = Absent
        /\ row[k] \in Values
    BY <1>1, <1>2, Parts
  <2>2. k \in deleted' => row[k] = Absent
    BY <1>2 DEF DurablyGone
  <2>3. Final(k)' = row[k]
    BY <2>1 DEF Final, After
  <2>4. MarkInv(k)'
    BY <2>1, <2>2, <2>3 DEF MarkInv
  <2>5. Chained(pipe[k], row[k], current[k])' /\ LoadInv(k)' /\ CacheInv(k)'
    BY <2>1, <2>2 DEF Chained, LoadInv, CacheInv
  <2>6. (row[k] <= current[k])'
    BY <2>1, Constants
  <2>7. QED
    BY <2>4, <2>5, <2>6 DEF KeyInv
<1>6. ASSUME NEW c \in Clients PROVE ClientInv(c)'
  <2>1. NoKey \notin deleted'
    BY <1>4, Constants DEF TypeOK
  <2>2. QED
    BY <1>2, <1>3, <2>1 DEF ClientInv
<1>7. OneLoader'
  BY <1>2, <1>3 DEF OneLoader
<1>8. QED
  BY <1>4, <1>5, <1>6, <1>7 DEF IInv

LEMMA InitIInv == Init => IInv
<1> SUFFICES ASSUME Init PROVE IInv
  OBVIOUS
<1>1. Idle \in ClientState /\ Idle.at = "idle" /\ Idle.key = NoKey
  BY Constants DEF Idle, ClientState
<1>2. TypeOK
  BY <1>1, Constants DEF Init, TypeOK
<1>3. ASSUME NEW k \in Keys PROVE KeyInv(k)
  <2>1. row[k] \in Values /\ row[k] <= row[k]
    BY <1>2, Constants DEF TypeOK
  <2>2. QED
    BY <2>1 DEF Init, KeyInv, Chained, MarkInv, LoadInv, CacheInv, Final, After
<1>4. \A c \in Clients : ClientInv(c)
  BY <1>1 DEF Init, ClientInv
<1>5. OneLoader
  BY <1>1 DEF Init, OneLoader
<1>6. QED
  BY <1>2, <1>3, <1>4, <1>5 DEF IInv

LEMMA NextIInv == IInv /\ [Next]_vars => IInv'
<1> SUFFICES ASSUME IInv, [Next]_vars PROVE IInv'
  OBVIOUS
<1>1. ASSUME NEW c \in Clients, ClientStep(c) PROVE IInv'
  BY <1>1, AskStep, AgainStep, LoadDoneStep, LoadFailStep DEF ClientStep
<1>2. ASSUME NEW k \in Keys, Set(k) \/ Delete(k) \/ DbApply(k) PROVE IInv'
  BY <1>2, SetStep, DeleteStep, DbApplyStep
<1>3. ASSUME NEW s \in Savers, NEW k \in Keys, Evict(s, k) \/ Flush(s, k) PROVE IInv'
  BY <1>3, EvictStep, FlushStep
<1>4. CASE UNCHANGED vars
  <2>1. TypeOK'
    BY <1>4 DEF IInv, TypeOK, vars, callVars
  <2>2. ASSUME NEW k \in Keys PROVE KeyInv(k)'
    <3>1. KeyKept(k)
      BY <1>4 DEF KeyKept, vars, callVars
    <3>2. QED
      BY <3>1, KeptInv DEF IInv
  <2>3. (\A c \in Clients : ClientInv(c))' /\ OneLoader'
    BY <1>4 DEF IInv, ClientInv, OneLoader, vars, callVars
  <2>4. QED
    BY <2>1, <2>2, <2>3 DEF IInv
<1>5. QED
  BY <1>1, <1>2, <1>3, <1>4, CrashStep DEF Next

LEMMA SpecIInv == Spec => []IInv
BY InitIInv, NextIInv, PTL DEF Spec
-----------------------------------------------------------------------------
(* The cache, the marks, the locks and the requests keep their forms.      *)
THEOREM TypeCorrect == Spec => []TypeOK
<1>1. IInv => TypeOK
  BY DEF IInv
<1>2. QED
  BY <1>1, SpecIInv, PTL

(* For any number of objects, callers and savers nobody ever gets an       *)
(* outdated object (_load and save_once).                                  *)
THEOREM CacheIsCurrent == Spec => []CacheCurrent
<1>1. IInv => CacheCurrent
  BY Parts DEF KeyInv, CacheInv, CacheCurrent
<1>2. QED
  BY <1>1, SpecIInv, PTL

(* For any number of objects, callers and savers a change without a mark   *)
(* is on its way to the database (__check_save).                           *)
THEOREM NothingIsForgotten == Spec => []NothingForgotten
<1>1. ASSUME IInv, NEW k \in Keys, op[k] = "none"
      PROVE  Reaches(k, IF k \in deleted THEN Absent ELSE current[k])
  <2> DEFINE p == pipe[k]
             n == Len(pipe[k])
             v == Final(k)
  <2>1. v = IF k \in deleted THEN Absent ELSE current[k]
    BY <1>1, Parts DEF KeyInv, MarkInv
  <2>2. /\ n \in Nat /\ DOMAIN p = 1 .. n
        /\ \A i \in 1 .. n : p[i].kind = "load" => i = n
    BY <1>1, Parts DEF KeyInv, Chained, ChainedAt
  <2>3. CASE n = 0 \/ (n = 1 /\ p[n].kind = "load")
    <3>1. v = row[k]
      BY <2>3 DEF Final, After
    <3>2. \A i \in DOMAIN p : p[i].kind = "load"
      BY <2>2, <2>3
    <3>3. QED
      BY <2>1, <3>1, <3>2 DEF Reaches
  <2>4. CASE n # 0 /\ p[n].kind # "load"
    <3>1. v = p[n].value
      BY <2>4 DEF Final, After
    <3>2. n \in DOMAIN p /\ \A j \in DOMAIN p : n < j => p[j].kind = "load"
      BY <2>2, <2>4
    <3>3. QED
      BY <2>1, <2>4, <3>1, <3>2 DEF Reaches
  <2>5. CASE n # 0 /\ n # 1 /\ p[n].kind = "load"
    <3>1. v = p[n - 1].value
      BY <2>5 DEF Final, After
    <3>2. n - 1 \in DOMAIN p /\ n - 1 # n
      <4> HIDE DEF p, n
      <4>1. n \in Nat /\ n # 0 /\ n # 1 /\ DOMAIN p = 1 .. n
        BY <2>2, <2>5
      <4>2. QED
        BY <4>1
    <3>3. p[n - 1].kind # "load" /\ \A j \in DOMAIN p : n - 1 < j => p[j].kind = "load"
      <4> HIDE DEF p, n
      <4>1. p[n - 1].kind # "load"
        BY <2>2, <3>2
      <4>2. \A j \in DOMAIN p : n - 1 < j => j = n
        BY <2>2
      <4>3. QED
        BY <2>5, <4>1, <4>2
    <3>4. QED
      BY <2>1, <3>1, <3>2, <3>3 DEF Reaches
  <2>6. QED
    BY <2>3, <2>4, <2>5
<1>2. IInv => NothingForgotten
  BY <1>1 DEF NothingForgotten
<1>3. QED
  BY <1>2, SpecIInv, PTL

(* For any number of objects, callers and savers an insert finds no row, a *)
(* save or delete its row (set and delete).                                *)
THEOREM EveryWriteTakesEffect == Spec => []WritesTakeEffect
<1>1. ASSUME IInv, NEW k \in Keys, pipe[k] # <<>>
      PROVE  CASE Head(pipe[k]).kind = "load"   -> TRUE
               [] Head(pipe[k]).kind = "insert" -> row[k] = Absent
               [] OTHER -> row[k] # Absent
  <2>1. Head(pipe[k]) = pipe[k][1] /\ 1 \in DOMAIN pipe[k]
    BY <1>1, Parts
  <2>2. ChainedAt(pipe[k], row[k], current[k], 1)
    BY <1>1, <2>1, Parts DEF KeyInv, Chained
  <2>3. After(pipe[k], row[k], 1 - 1) = row[k]
    BY DEF After
  <2>4. pipe[k][1].kind \in {"load", "insert", "save", "delete"}
    BY <1>1, <2>1, Parts, RequestValue
  <2>5. QED
    BY <2>1, <2>2, <2>3, <2>4 DEF ChainedAt
<1>2. IInv => WritesTakeEffect
  BY <1>1 DEF WritesTakeEffect
<1>3. QED
  BY <1>2, SpecIInv, PTL
-----------------------------------------------------------------------------
(* The values the abstract store sees.                                     *)
Gone == MaxVersion + 1
Cur(k) == IF k \in deleted THEN Gone ELSE current[k]
Dur(k) == IF DurablyGone(k) THEN Gone ELSE row[k]

(* A step that changes what the store sees of at most the object k.        *)
OthersKeep(k) == \A j \in Keys : j # k => Cur(j)' = Cur(j) /\ Dur(j)' = Dur(j)

LEMMA MapVars ==
  /\ Store!vars = <<[k \in Keys |-> Cur(k)], [k \in Keys |-> Dur(k)]>>
  /\ Store!vars' = <<[k \in Keys |-> Cur(k)'], [k \in Keys |-> Dur(k)']>>
BY DEF Store!vars, Cur, Dur, Gone

LEMMA MapStutter ==
  ASSUME \A k \in Keys : Cur(k)' = Cur(k) /\ Dur(k)' = Dur(k)
  PROVE  UNCHANGED Store!vars
<1>1. /\ [k \in Keys |-> Cur(k)'] = [k \in Keys |-> Cur(k)]
      /\ [k \in Keys |-> Dur(k)'] = [k \in Keys |-> Dur(k)]
  OBVIOUS
<1>2. QED
  BY <1>1, MapVars

LEMMA MapWrite ==
  ASSUME NEW k \in Keys, OthersKeep(k), Cur(k)' \in Cur(k) + 1 .. Gone - 1, Dur(k)' = Dur(k)
  PROVE  Store!Write(k)
<1>1. [j \in Keys |-> Dur(j)'] = [j \in Keys |-> Dur(j)]
  BY DEF OthersKeep
<1>2. [j \in Keys |-> Cur(j)'] = [[j \in Keys |-> Cur(j)] EXCEPT ![k] = Cur(k)']
  BY DEF OthersKeep
<1>3. [j \in Keys |-> Cur(j)][k] = Cur(k)
  OBVIOUS
<1>4. \E v \in [j \in Keys |-> Cur(j)][k] + 1 .. Gone - 1 :
        [j \in Keys |-> Cur(j)'] = [[j \in Keys |-> Cur(j)] EXCEPT ![k] = v]
  BY <1>2, <1>3
<1>5. QED
  BY <1>1, <1>4 DEF Store!Write, Cur, Dur, Gone

LEMMA MapPersist ==
  ASSUME NEW k \in Keys, OthersKeep(k), Cur(k)' = Cur(k), Dur(k)' \in Dur(k) + 1 .. Cur(k)
  PROVE  Store!Persist(k)
<1>1. [j \in Keys |-> Cur(j)'] = [j \in Keys |-> Cur(j)]
  BY DEF OthersKeep
<1>2. [j \in Keys |-> Dur(j)'] = [[j \in Keys |-> Dur(j)] EXCEPT ![k] = Dur(k)']
  BY DEF OthersKeep
<1>3. [j \in Keys |-> Dur(j)][k] = Dur(k) /\ [j \in Keys |-> Cur(j)][k] = Cur(k)
  OBVIOUS
<1>4. \E v \in [j \in Keys |-> Dur(j)][k] + 1 .. [j \in Keys |-> Cur(j)][k] :
        [j \in Keys |-> Dur(j)'] = [[j \in Keys |-> Dur(j)] EXCEPT ![k] = v]
  BY <1>2, <1>3
<1>5. QED
  BY <1>1, <1>4 DEF Store!Persist, Cur, Dur, Gone

LEMMA MapDelete ==
  ASSUME NEW k \in Keys, OthersKeep(k), Cur(k) \in 1 .. Gone - 1, Cur(k)' = Gone,
         Dur(k)' = Dur(k) \/ (Dur(k) = 0 /\ Dur(k)' = Gone)
  PROVE  Store!Delete(k)
<1> DEFINE cur == [j \in Keys |-> Cur(j)]
           dur == [j \in Keys |-> Dur(j)]
<1>1. [j \in Keys |-> Cur(j)'] = [cur EXCEPT ![k] = Gone]
  BY DEF OthersKeep
<1>2. cur[k] \in 1 .. Gone - 1
  OBVIOUS
<1>3. \/ [j \in Keys |-> Dur(j)'] = dur
      \/ dur[k] = 0 /\ [j \in Keys |-> Dur(j)'] = [dur EXCEPT ![k] = Gone]
  <2>1. CASE Dur(k)' = Dur(k)
    BY <2>1 DEF OthersKeep
  <2>2. CASE Dur(k) = 0 /\ Dur(k)' = Gone
    BY <2>2 DEF OthersKeep
  <2>3. QED
    BY <2>1, <2>2
<1>4. QED
  BY <1>1, <1>2, <1>3 DEF Store!Delete, Cur, Dur, Gone

(* What an object is to the store depends on few parts of the state: a     *)
(* request that is sent never brings a deleted object back.                *)
LEMMA SeenKept ==
  ASSUME NEW k \in Keys, row'[k] = row[k], current'[k] = current[k],
         k \in deleted' <=> k \in deleted,
         k \in deleted => ((\A i \in DOMAIN pipe'[k] : pipe'[k][i].kind # "insert") <=>
                           (\A i \in DOMAIN pipe[k] : pipe[k][i].kind # "insert"))
  PROVE  Cur(k)' = Cur(k) /\ Dur(k)' = Dur(k)
BY DEF Cur, Dur, DurablyGone, Gone

LEMMA SentSeen ==
  ASSUME IInv, NEW k \in Keys, NEW m \in Request, m.kind # "insert" \/ k \notin deleted,
         pipe' = [pipe EXCEPT ![k] = Append(pipe[k], m)],
         UNCHANGED <<row, current, deleted>>
  PROVE  UNCHANGED Store!vars
<1>1. /\ DOMAIN pipe'[k] = 1 .. Len(pipe[k]) + 1
      /\ \A i \in 1 .. Len(pipe[k]) : pipe'[k][i] = pipe[k][i]
      /\ pipe'[k][Len(pipe[k]) + 1] = m
      /\ Len(pipe[k]) \in Nat /\ DOMAIN pipe[k] = 1 .. Len(pipe[k])
  <2>1. pipe'[k] = Append(pipe[k], m)
    BY DEF IInv, TypeOK
  <2>2. QED
    BY <2>1, Parts, AfterAppend
<1>2. k \in deleted => ((\A i \in DOMAIN pipe'[k] : pipe'[k][i].kind # "insert") <=>
                        (\A i \in DOMAIN pipe[k] : pipe[k][i].kind # "insert"))
  BY <1>1
<1>3. \A j \in Keys : j # k => pipe'[j] = pipe[j]
  BY DEF IInv, TypeOK
<1>4. \A j \in Keys : Cur(j)' = Cur(j) /\ Dur(j)' = Dur(j)
  BY <1>2, <1>3, SeenKept
<1>5. QED
  BY <1>4, MapStutter

LEMMA StartLoadSeen ==
  ASSUME IInv, NEW c \in Clients, NEW k \in Keys, NEW auto, StartLoad(c, k, auto),
         UNCHANGED <<cache, op, row, callVars>>
  PROVE  UNCHANGED Store!vars
<1> DEFINE m == [kind |-> "load", value |-> Absent, by |-> c]
<1>1. m \in Request /\ m.kind # "insert"
  BY Constants DEF Request
<1>2. pipe' = [pipe EXCEPT ![k] = Append(pipe[k], m)]
  BY DEF StartLoad, Send
<1> HIDE DEF m
<1>3. QED
  BY <1>1, <1>2, SentSeen DEF callVars

LEMMA PipeKeptSeen ==
  ASSUME IInv, UNCHANGED <<pipe, row, current, deleted>>
  PROVE  UNCHANGED Store!vars
<1>1. \A k \in Keys : Cur(k)' = Cur(k) /\ Dur(k)' = Dur(k)
  BY SeenKept
<1>2. QED
  BY <1>1, MapStutter

LEMMA LoadDoneSeen ==
  ASSUME IInv, NEW c \in Clients, LoadDone(c)
  PROVE  Store!Next \/ UNCHANGED Store!vars
<1>1. PICK k \in Keys :
        /\ k = client[c].key /\ k \notin deleted
        /\ client[c].data = row[k] /\ row[k] = current[k]
  BY Answered DEF LoadDone
<1>2. UNCHANGED <<pipe, row, deleted>>
  BY DEF LoadDone
<1>3. CASE client[c].data # Absent \/ ~client[c].auto
  BY <1>2, <1>3, PipeKeptSeen DEF LoadDone
<1>4. CASE client[c].data = Absent /\ client[c].auto
  <2>1. current' = [current EXCEPT ![k] = First] /\ current \in [Keys -> Values]
    BY <1>1, <1>4 DEF LoadDone, IInv, TypeOK
  <2>2. \A j \in Keys : j # k => current'[j] = current[j]
    BY <2>1
  <2>3. OthersKeep(k)
    BY <1>2, <2>2, SeenKept DEF OthersKeep
  <2>4. Cur(k) = 0 /\ Cur(k)' = 1
    BY <1>1, <1>2, <1>4, <2>1, Constants DEF Cur
  <2>5. Dur(k)' = Dur(k)
    BY <1>1, <1>2 DEF Dur, DurablyGone, Gone
  <2>6. Cur(k)' \in Cur(k) + 1 .. Gone - 1
    BY <2>4, Constants DEF Gone
  <2>7. QED
    BY <1>1, <2>3, <2>5, <2>6, MapWrite DEF Store!Next
<1>5. QED
  BY <1>3, <1>4

LEMMA SetSeen ==
  ASSUME IInv, NEW k \in Keys, Set(k)
  PROVE  Store!Next
<1>1. /\ current[k] \in Values /\ k \notin deleted
      /\ current[k] + 1 \in Versions
      /\ current' = [current EXCEPT ![k] = current[k] + 1] /\ current \in [Keys -> Values]
      /\ UNCHANGED <<pipe, row, deleted>>
  BY DEF Set, Has, IInv, TypeOK
<1>2. \A j \in Keys : j # k => current'[j] = current[j]
  BY <1>1
<1>3. OthersKeep(k)
  BY <1>1, <1>2, SeenKept DEF OthersKeep
<1>4. Cur(k) = current[k] /\ Cur(k)' = current[k] + 1
  BY <1>1 DEF Cur
<1>5. Dur(k)' = Dur(k)
  BY <1>1 DEF Dur, DurablyGone, Gone
<1>6. Cur(k)' \in Cur(k) + 1 .. Gone - 1
  BY <1>1, <1>4, Constants DEF Gone
<1>7. QED
  BY <1>3, <1>5, <1>6, MapWrite DEF Store!Next

LEMMA DeleteSeen ==
  ASSUME IInv, NEW k \in Keys, Delete(k)
  PROVE  Store!Next
<1>1. /\ k \notin deleted /\ deleted' = deleted \cup {k}
      /\ current[k] # Absent /\ current[k] \in Values
      /\ UNCHANGED <<pipe, row, current>>
  BY Parts DEF Delete, Has
<1>2. OthersKeep(k)
  BY <1>1, SeenKept DEF OthersKeep
<1>3. Cur(k) = current[k] /\ Cur(k)' = Gone
  BY <1>1 DEF Cur, Gone
<1>4. Dur(k) = row[k] /\ (Dur(k)' = row[k] \/ (row[k] = Absent /\ Dur(k)' = Gone))
  BY <1>1 DEF Dur, DurablyGone, Gone
<1>5. Cur(k) \in 1 .. Gone - 1
  BY <1>1, <1>3, Constants DEF Gone
<1>6. Dur(k)' = Dur(k) \/ (Dur(k) = 0 /\ Dur(k)' = Gone)
  BY <1>4, Constants
<1>7. QED
  BY <1>2, <1>3, <1>5, <1>6, MapDelete DEF Store!Next

LEMMA CheckSaveSeen ==
  ASSUME IInv, NEW s \in Savers, NEW k \in Keys, CheckSave(s, k, cache[k]),
         UNCHANGED <<row, current, deleted>>
  PROVE  UNCHANGED Store!vars
<1> DEFINE m == [kind |-> op[k], value |-> IF op[k] = "delete" THEN Absent ELSE cache[k], by |-> s]
<1>1. CASE op[k] = "delete" \/ (op[k] # "none" /\ cache[k] # Absent)
  <2>1. Send(k, m)
    BY <1>1 DEF CheckSave
  <2>2. m \in Request /\ m.kind = op[k]
    BY <1>1, Parts, Constants DEF Request
  <2>3. op[k] = "insert" => k \notin deleted
    BY Parts DEF KeyInv, MarkInv, CacheInv
  <2> HIDE DEF m
  <2>4. QED
    BY <2>1, <2>2, <2>3, SentSeen DEF Send
<1>2. CASE ~(op[k] = "delete" \/ (op[k] # "none" /\ cache[k] # Absent))
  BY <1>2, PipeKeptSeen DEF CheckSave
<1>3. QED
  BY <1>1, <1>2

LEMMA DbApplySeen ==
  ASSUME IInv, NEW k \in Keys, DbApply(k)
  PROVE  Store!Next \/ UNCHANGED Store!vars
<1> DEFINE p == pipe[k]
           m == p[1]
<1>1. /\ p # <<>> /\ p \in Seq(Request) /\ pipe'[k] = Tail(p)
      /\ row'[k] = After(p, row[k], 1)
      /\ \A j \in Keys : j # k => pipe'[j] = pipe[j] /\ row'[j] = row[j]
      /\ UNCHANGED <<current, deleted>>
      /\ row[k] \in Values /\ current[k] \in Values /\ row[k] <= current[k]
  BY Executed, Parts DEF DbApply, callVars, KeyInv
<1>2. /\ Len(p) \in Nat \ {0} /\ DOMAIN p = 1 .. Len(p) /\ 1 \in DOMAIN p
      /\ m.kind = "load" => row'[k] = row[k]
      /\ m.kind # "load" => row'[k] = m.value
      /\ m.kind \in {"load", "insert", "save", "delete"} /\ m.value \in Values
  BY <1>1, AfterTail, RequestValue
<1>3. /\ ChainedAt(p, row[k], current[k], 1)
      /\ After(p, row[k], 0) = row[k]
  BY <1>2, Parts DEF KeyInv, Chained, After
<1>4. OthersKeep(k)
  BY <1>1, SeenKept DEF OthersKeep
<1>5. Cur(k)' = Cur(k) /\ (k \in deleted' <=> k \in deleted)
  BY <1>1 DEF Cur, Gone
<1> HIDE DEF p, m
<1>6. CASE m.kind = "load"
  <2>1. k \notin deleted
    <3>1. client[m.by].key = k /\ m.by \in Clients
      BY <1>2, <1>6, Parts DEF KeyInv, LoadInv, p, m
    <3>2. QED
      BY <3>1, ClientParts DEF ClientInv
  <2>2. Dur(k)' = Dur(k)
    BY <1>1, <1>2, <1>6, <2>1 DEF Dur, DurablyGone, Gone
  <2>3. QED
    BY <1>4, <1>5, <2>2, MapStutter DEF OthersKeep
<1>7. CASE m.kind = "insert"
  <2>1. row[k] = Absent /\ row'[k] = m.value /\ m.value \in First .. current[k]
    BY <1>2, <1>3, <1>7 DEF ChainedAt, m
  <2>2. Dur(k) = 0 /\ Dur(k)' = m.value
    <3>1. ~DurablyGone(k)
      BY <1>2, <1>7 DEF DurablyGone, p, m
    <3>2. ~DurablyGone(k)'
      BY <2>1, <1>2, Constants DEF DurablyGone
    <3>3. QED
      BY <2>1, <3>1, <3>2, Constants DEF Dur
  <2>3. Dur(k)' \in Dur(k) + 1 .. Cur(k)
    BY <1>1, <1>2, <2>1, <2>2, Constants DEF Cur, Gone
  <2>4. QED
    BY <1>4, <1>5, <2>3, MapPersist DEF Store!Next
<1>8. CASE m.kind = "save"
  <2>1. /\ row[k] # Absent /\ row'[k] = m.value
        /\ m.value \in First .. current[k] /\ row[k] <= m.value
    BY <1>2, <1>3, <1>8 DEF ChainedAt, m
  <2>2. Dur(k) = row[k] /\ Dur(k)' = m.value
    BY <1>2, <2>1, Constants DEF Dur, DurablyGone
  <2>3. CASE m.value = row[k]
    <3>1. Dur(k)' = Dur(k)
      BY <2>2, <2>3
    <3>2. QED
      BY <1>4, <1>5, <3>1, MapStutter DEF OthersKeep
  <2>4. CASE m.value # row[k]
    <3>1. Dur(k)' \in Dur(k) + 1 .. Cur(k)
      BY <1>1, <1>2, <2>1, <2>2, <2>4, Constants DEF Cur, Gone
    <3>2. QED
      BY <1>4, <1>5, <3>1, MapPersist DEF Store!Next
  <2>5. QED
    BY <2>3, <2>4
<1>9. CASE m.kind = "delete"
  <2>1. row[k] # Absent /\ row'[k] = Absent /\ Len(p) = 1
    <3>1. m.kind \in {"load", "delete"} /\ m.kind \in {"save", "delete"} /\ m.kind # "load"
      BY <1>9
    <3>2. m.value = Absent /\ 1 = Len(p) /\ After(p, row[k], 1 - 1) # Absent
      BY <1>3, <3>1 DEF ChainedAt, m
    <3>3. 1 - 1 = 0
      OBVIOUS
    <3>4. QED
      BY <1>2, <1>3, <3>1, <3>2, <3>3
  <2>2. k \in deleted
    BY <1>2, <1>9, Parts DEF KeyInv, LoadInv, p, m
  <2>3. pipe'[k] = <<>>
    BY <1>1, <2>1
  <2>4. Dur(k) = row[k] /\ Dur(k)' = Gone /\ Cur(k) = Gone
    BY <1>5, <2>1, <2>2, <2>3 DEF Dur, DurablyGone, Cur, Gone
  <2>5. Dur(k)' \in Dur(k) + 1 .. Cur(k)
    BY <1>1, <2>4, Constants DEF Gone
  <2>6. QED
    BY <1>4, <1>5, <2>5, MapPersist DEF Store!Next
<1>10. QED
  BY <1>2, <1>6, <1>7, <1>8, <1>9

LEMMA CrashSeen ==
  ASSUME IInv, Crash
  PROVE  Store!Next
<1>1. ASSUME NEW k \in Keys PROVE Cur(k)' = Dur(k) /\ Dur(k)' = Dur(k)
  <2>1. /\ pipe'[k] = <<>> /\ row'[k] = row[k] /\ current'[k] = row[k]
        /\ k \in deleted' <=> k \in deleted /\ DurablyGone(k)
    BY DEF Crash
  <2>2. (k \in deleted' <=> DurablyGone(k)) /\ (DurablyGone(k)' <=> DurablyGone(k))
    BY <2>1 DEF DurablyGone
  <2>3. QED
    BY <2>1, <2>2 DEF Cur, Dur, Gone
<1>2. /\ [k \in Keys |-> Cur(k)'] = [k \in Keys |-> Dur(k)]
      /\ [k \in Keys |-> Dur(k)'] = [k \in Keys |-> Dur(k)]
  BY <1>1
<1>3. Store!Crash
  BY <1>2 DEF Store!Crash, Cur, Dur, Gone
<1>4. QED
  BY <1>3 DEF Store!Next

LEMMA InitSeen == Init => Store!Init
<1> SUFFICES ASSUME Init PROVE Store!Init
  OBVIOUS
<1>1. ASSUME NEW k \in Keys
      PROVE  /\ Cur(k) = row[k] /\ Dur(k) = row[k]
             /\ row[k] \in 0 .. Gone
  BY Constants DEF Init, Cur, Dur, DurablyGone, Gone
<1>2. /\ [k \in Keys |-> Cur(k)] \in [Keys -> 0 .. Gone]
      /\ [k \in Keys |-> Dur(k)] = [k \in Keys |-> Cur(k)]
  BY <1>1
<1>3. QED
  BY <1>2 DEF Store!Init, Cur, Dur, Gone

LEMMA NextSeen == IInv /\ [Next]_vars => [Store!Next]_Store!vars
<1> SUFFICES ASSUME IInv, [Next]_vars PROVE Store!Next \/ UNCHANGED Store!vars
  OBVIOUS
<1>1. ASSUME NEW c \in Clients, ClientStep(c) PROVE Store!Next \/ UNCHANGED Store!vars
  <2>1. ASSUME NEW k \in Keys, NEW auto \in BOOLEAN, Ask(c, k, auto) PROVE UNCHANGED Store!vars
    BY <2>1, StartLoadSeen, PipeKeptSeen DEF Ask, callVars
  <2>2. ASSUME Again(c) PROVE UNCHANGED Store!vars
    <3>1. client[c].key \in Keys
      BY <2>2, ClientParts DEF Again
    <3>2. QED
      BY <2>2, <3>1, StartLoadSeen, PipeKeptSeen DEF Again, callVars
  <2>3. ASSUME LoadFail(c) PROVE UNCHANGED Store!vars
    BY <2>3, PipeKeptSeen DEF LoadFail, callVars
  <2>4. QED
    BY <1>1, <2>1, <2>2, <2>3, LoadDoneSeen DEF ClientStep
<1>2. ASSUME NEW k \in Keys, Set(k) \/ Delete(k) \/ DbApply(k)
      PROVE  Store!Next \/ UNCHANGED Store!vars
  BY <1>2, SetSeen, DeleteSeen, DbApplySeen
<1>3. ASSUME NEW s \in Savers, NEW k \in Keys, Evict(s, k) \/ Flush(s, k)
      PROVE  UNCHANGED Store!vars
  <2>1. CheckSave(s, k, cache[k]) /\ UNCHANGED <<row, current, deleted>>
    BY <1>3 DEF Evict, Evicted, Flush, callVars
  <2>2. QED
    BY <2>1, CheckSaveSeen
<1>4. CASE UNCHANGED vars
  BY <1>4, PipeKeptSeen DEF vars, callVars
<1>5. QED
  BY <1>1, <1>2, <1>3, <1>4, CrashSeen DEF Next

(* For any number of objects, callers and savers the manager behaves as an *)
(* object store whose durable values follow the current ones without going *)
(* back (offline_db.lua).                                                  *)
THEOREM IsObjectStore == Spec => ImplementsStore
BY InitSeen, NextSeen, SpecIInv, PTL DEF Spec, ImplementsStore, Store!Spec
=============================================================================
