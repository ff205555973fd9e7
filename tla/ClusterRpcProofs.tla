-------------------------- MODULE ClusterRpcProofs --------------------------
(***************************************************************************)
(* The inductive invariant of ClusterRpc: of one call there is never more  *)
(* than one message or coroutine on its way (Single), and as long as the   *)
(* caller has not crashed the session it was sent with still belongs to it *)
(* (Asked).                                                                *)
(***************************************************************************)
EXTENDS ClusterRpc, TLAPS, WellFoundedInduction

(* A call whose session the caller still has, if it has not crashed.       *)
Asked(c, id) ==
  /\ state[c] # "new"
  /\ Caller[c] \notin crashed => [id |-> id, call |-> c] \in sessions[To(c)]

(* A message on its way from one node of the pair p to the other.          *)
Good(msg, p) ==
  /\ Asked(msg.call, msg.id)
  /\ IF msg.kind = "call" THEN p = To(msg.call) /\ executions[msg.call] = 0
     ELSE p = Back(msg.call)

(* The message is in the queue w[p], or in a connection of p in l.         *)
Flies(w, l, p, msg) ==
  \/ msg \in w[p]
  \/ \E k \in 1 .. MaxConns : \E i \in DOMAIN l[<<p, k>>] : l[<<p, k>>][i] = msg

MessagesGood ==
  /\ \A p \in Pairs, msg \in Message : Flies(waiting, wire, p, msg) => Good(msg, p)
  /\ \A r \in running : Asked(r.call, r.id)

(* Of one call there is one message, or one coroutine that works on it.    *)
Single(w, l, r) ==
  /\ \A p, q \in Pairs : \A x \in w[p], y \in w[q] : x.call = y.call => p = q /\ x = y
  /\ \A k, m \in Conns : \A i \in DOMAIN l[k], j \in DOMAIN l[m] :
       l[k][i].call = l[m][j].call => k = m /\ i = j
  /\ \A x, y \in r : x.call = y.call => x = y
  /\ \A p \in Pairs, k \in Conns : \A x \in w[p], i \in DOMAIN l[k] : x.call # l[k][i].call
  /\ \A p \in Pairs : \A x \in w[p], y \in r : x.call # y.call
  /\ \A k \in Conns : \A i \in DOMAIN l[k], y \in r : l[k][i].call # y.call

(* Nothing is on its way of the call c.                                    *)
Nothing(w, l, r, c) ==
  /\ \A p \in Pairs : \A x \in w[p] : x.call # c
  /\ \A k \in Conns : \A i \in DOMAIN l[k] : l[k][i].call # c
  /\ \A x \in r : x.call # c

SessionsGood == \A p \in Pairs : \A s \in sessions[p] : To(s.call) = p /\ state[s.call] # "new"

ConnectInv == \A p \in connecting : sock[p] = 0 /\ opened[p] < MaxConns

NewUntouched == \A c \in Calls : state[c] = "new" => executions[c] = 0

IInv ==
  /\ TypeOK /\ ConnectInv /\ OneConnection
  /\ SessionsGood /\ MessagesGood /\ Single(waiting, wire, running)
  /\ NewUntouched /\ ExecutedOnce /\ AnswersMatch
-----------------------------------------------------------------------------
(* What the messages do, for queues w, connections l and coroutines r.     *)
Pool(w, l, r) ==
  /\ w \in [Pairs -> SUBSET Message]
  /\ l \in [Conns -> Seq(Message)]
  /\ r \subseteq [id : Ids, call : Calls]

(* Connections lose messages at their beginning, or all of them.           *)
Shorter(l, l2) ==
  \A k \in Conns : \E n \in {0, 1} : \A i \in DOMAIN l2[k] : i + n \in DOMAIN l[k] /\ l2[k][i] = l[k][i + n]

Lost(w, l, r, w2, l2, r2) ==
  /\ Pool(w, l, r) /\ Pool(w2, l2, r2)
  /\ \A p \in Pairs : w2[p] \subseteq w[p]
  /\ Shorter(l, l2)
  /\ r2 \subseteq r

LEMMA Fewer ==
  ASSUME NEW w, NEW l, NEW r, NEW w2, NEW l2, NEW r2, Lost(w, l, r, w2, l2, r2)
  PROVE  /\ Single(w, l, r) => Single(w2, l2, r2)
         /\ \A c : Nothing(w, l, r, c) => Nothing(w2, l2, r2, c)
         /\ \A p \in Pairs : \A msg : Flies(w2, l2, p, msg) => Flies(w, l, p, msg)
<1>1. \A k \in Conns : \A i \in DOMAIN l2[k] : i \in Nat
  <2>1. \A k \in Conns : l2[k] \in Seq(Message)
    BY DEF Lost, Pool
  <2>2. QED
    BY <2>1
<1>2. ASSUME Single(w, l, r) PROVE Single(w2, l2, r2)
  <2>1. ASSUME NEW k \in Conns, NEW m \in Conns, NEW i \in DOMAIN l2[k], NEW j \in DOMAIN l2[m],
               l2[k][i].call = l2[m][j].call
        PROVE  k = m /\ i = j
    <3>1. PICK n \in {0, 1} : \A x \in DOMAIN l2[k] : x + n \in DOMAIN l[k] /\ l2[k][x] = l[k][x + n]
      BY DEF Lost, Shorter
    <3>2. PICK o \in {0, 1} : \A x \in DOMAIN l2[m] : x + o \in DOMAIN l[m] /\ l2[m][x] = l[m][x + o]
      BY DEF Lost, Shorter
    <3>3. k = m
      BY <1>2, <2>1, <3>1, <3>2 DEF Single
    <3>4. l2[k][i] = l[k][i + n] /\ l2[k][j] = l[k][j + n] /\ i + n \in DOMAIN l[k] /\ j + n \in DOMAIN l[k]
      BY <3>1, <3>3
    <3>5. i + n = j + n
      BY <1>2, <2>1, <3>3, <3>4 DEF Single
    <3>6. QED
      BY <1>1, <3>3, <3>5
  <2>2. \A k \in Conns : \A i \in DOMAIN l2[k] : \E j \in DOMAIN l[k] : l2[k][i] = l[k][j]
    BY DEF Lost, Shorter
  <2>3. QED
    BY <1>2, <2>1, <2>2 DEF Lost, Single
<1>3. \A k \in Conns : \A i \in DOMAIN l2[k] : \E j \in DOMAIN l[k] : l2[k][i] = l[k][j]
  BY DEF Lost, Shorter
<1>4. ASSUME NEW c, Nothing(w, l, r, c) PROVE Nothing(w2, l2, r2, c)
  BY <1>3, <1>4 DEF Lost, Nothing
<1>5. \A p \in Pairs, k \in 1 .. MaxConns : <<p, k>> \in Conns
  BY DEF Conns
<1>6. ASSUME NEW p \in Pairs, NEW msg, Flies(w2, l2, p, msg) PROVE Flies(w, l, p, msg)
  BY <1>3, <1>5, <1>6 DEF Lost, Flies
<1>7. QED
  BY <1>2, <1>4, <1>6

LEMMA Unchanged ==
  ASSUME NEW w, NEW l, NEW r, Pool(w, l, r) PROVE Shorter(l, l)
<1>1. \A k \in Conns : l[k] \in Seq(Message)
  BY DEF Pool
<1>2. \A k \in Conns : \A i \in DOMAIN l[k] : i \in Nat /\ i + 0 = i
  BY <1>1
<1>3. QED
  BY <1>2 DEF Shorter

(* The elementary changes.                                                 *)
Without(w, p, msg) == [w EXCEPT ![p] = @ \ {msg}]
With(w, p, msg) == [w EXCEPT ![p] = @ \cup {msg}]
Beheaded(l, k) == [l EXCEPT ![k] = Tail(@)]
Extended(l, p, n, s, msg) == [l EXCEPT ![<<p, n>>] = Append(s, msg)]

(* What is on its way comes from one place.                                *)
LEMMA TakeWaiting ==
  ASSUME NEW w, NEW l, NEW r, Pool(w, l, r), Single(w, l, r),
         NEW p \in Pairs, NEW msg \in w[p], NEW w2, w2 = Without(w, p, msg)
  PROVE  /\ Pool(w2, l, r) /\ Single(w2, l, r) /\ Nothing(w2, l, r, msg.call)
         /\ \A q \in Pairs : \A x : Flies(w2, l, q, x) => Flies(w, l, q, x)
<1>1. /\ w2 \in [Pairs -> SUBSET Message]
      /\ \A q \in Pairs : w2[q] \subseteq w[q] /\ (q = p => msg \notin w2[q])
  BY DEF Pool, Without
<1>2. Pool(w2, l, r)
  BY <1>1 DEF Pool
<1>3. Single(w2, l, r) /\ \A q \in Pairs : \A x : Flies(w2, l, q, x) => Flies(w, l, q, x)
  <2>1. Lost(w, l, r, w2, l, r)
    BY <1>1, <1>2, Unchanged DEF Lost
  <2>2. QED
    BY <2>1, Fewer
<1>4. Nothing(w2, l, r, msg.call)
  BY <1>1 DEF Single, Nothing
<1>5. QED
  BY <1>2, <1>3, <1>4

LEMMA TakeRunning ==
  ASSUME NEW w, NEW l, NEW r, Pool(w, l, r), Single(w, l, r), NEW x \in r, NEW r2, r2 = r \ {x}
  PROVE  Pool(w, l, r2) /\ Single(w, l, r2) /\ Nothing(w, l, r2, x.call)
<1>1. Pool(w, l, r2)
  BY DEF Pool
<1>2. Single(w, l, r2)
  <2>1. Lost(w, l, r, w, l, r2)
    BY <1>1, Unchanged DEF Lost
  <2>2. QED
    BY <2>1, Fewer
<1>3. Nothing(w, l, r2, x.call)
  BY DEF Single, Nothing
<1>4. QED
  BY <1>1, <1>2, <1>3

LEMMA TakeHead ==
  ASSUME NEW w, NEW l, NEW r, Pool(w, l, r), Single(w, l, r),
         NEW k \in Conns, l[k] # <<>>, NEW msg, msg = Head(l[k]),
         NEW l2, l2 = Beheaded(l, k)
  PROVE  /\ Pool(w, l2, r) /\ Single(w, l2, r) /\ Nothing(w, l2, r, msg.call) /\ msg \in Message
         /\ \A q \in Pairs : \A x : Flies(w, l2, q, x) => Flies(w, l, q, x)
         /\ Flies(w, l, k[1], msg)
<1>1. l \in [Conns -> Seq(Message)] /\ l[k] \in Seq(Message)
  BY DEF Pool
<1>2. PICK q : q = l[k]
  OBVIOUS
<1>3. PICK t : t = Tail(q)
  OBVIOUS
<1>4. PICK n \in Nat : Len(q) = n + 1
  <2>1. Len(q) \in Nat /\ Len(q) # 0
    BY <1>1, <1>2
  <2>2. Len(q) - 1 \in Nat /\ Len(q) = (Len(q) - 1) + 1
    BY <2>1
  <2>3. QED
    BY <2>2
<1>5. /\ q \in Seq(Message) /\ t \in Seq(Message) /\ Len(t) = n
      /\ DOMAIN q = 1 .. (n + 1) /\ DOMAIN t = 1 .. n
      /\ msg = q[1] /\ msg \in Message
      /\ \A i \in 1 .. n : t[i] = q[i + 1] /\ i + 1 \in 1 .. (n + 1) /\ i + 1 # 1
  BY <1>1, <1>2, <1>3, <1>4
<1>6. 1 \in 1 .. (n + 1)
  OBVIOUS
<1>7. /\ l2 \in [Conns -> Seq(Message)] /\ l2[k] = t
      /\ \A m \in Conns : m # k => l2[m] = l[m]
  BY <1>1, <1>2, <1>3, <1>5 DEF Beheaded
<1>8. Pool(w, l2, r)
  BY <1>7 DEF Pool
<1>9. Shorter(l, l2)
  <2>1. ASSUME NEW m \in Conns
        PROVE  \E o \in {0, 1} : \A i \in DOMAIN l2[m] : i + o \in DOMAIN l[m] /\ l2[m][i] = l[m][i + o]
    <3>1. CASE m = k
      <4>1. \A i \in DOMAIN l2[m] : i + 1 \in DOMAIN l[m] /\ l2[m][i] = l[m][i + 1]
        BY <1>2, <1>5, <1>7, <3>1
      <4>2. QED
        BY <4>1
    <3>2. CASE m # k
      <4>1. Shorter(l, l) /\ l2[m] = l[m]
        BY <1>7, <3>2, Unchanged
      <4>2. QED
        BY <4>1 DEF Shorter
    <3>3. QED
      BY <3>1, <3>2
  <2>2. QED
    BY <2>1 DEF Shorter
<1>10. Single(w, l2, r) /\ \A p \in Pairs : \A x : Flies(w, l2, p, x) => Flies(w, l, p, x)
  <2>1. Lost(w, l, r, w, l2, r)
    BY <1>8, <1>9 DEF Lost
  <2>2. QED
    BY <2>1, Fewer
<1>11. Nothing(w, l2, r, msg.call)
  <2>1. 1 \in DOMAIN l[k] /\ l[k][1] = msg
    BY <1>2, <1>5, <1>6
  <2>2. \A p \in Pairs : \A x \in w[p] : x.call # msg.call
    BY <2>1 DEF Single
  <2>3. \A x \in r : x.call # msg.call
    BY <2>1 DEF Single
  <2>4. \A m \in Conns : m # k => \A i \in DOMAIN l2[m] : l2[m][i].call # msg.call
    BY <1>7, <2>1 DEF Single
  <2>5. \A i \in DOMAIN l[k] : i # 1 => l[k][i].call # msg.call
    BY <2>1 DEF Single
  <2>6. ASSUME NEW i \in DOMAIN l2[k] PROVE l2[k][i].call # msg.call
    <3>1. i \in 1 .. n
      BY <1>5, <1>7
    <3>2. l2[k][i] = l[k][i + 1] /\ i + 1 \in DOMAIN l[k] /\ i + 1 # 1
      BY <1>2, <1>5, <1>7, <3>1
    <3>3. QED
      BY <2>5, <3>2
  <2>7. QED
    BY <2>2, <2>3, <2>4, <2>6 DEF Nothing
<1>12. Flies(w, l, k[1], msg)
  <2>1. k[2] \in 1 .. MaxConns /\ k = <<k[1], k[2]>>
    BY DEF Conns
  <2>2. 1 \in DOMAIN l[<<k[1], k[2]>>] /\ l[<<k[1], k[2]>>][1] = msg
    BY <1>2, <1>5, <1>6, <2>1
  <2>3. QED
    BY <2>1, <2>2 DEF Flies
<1>13. QED
  BY <1>5, <1>8, <1>10, <1>11, <1>12

(* It goes to another one.                                                 *)
LEMMA PutWaiting ==
  ASSUME NEW w, NEW l, NEW r, Pool(w, l, r), Single(w, l, r),
         NEW msg \in Message, Nothing(w, l, r, msg.call),
         NEW p \in Pairs, NEW w2, w2 = With(w, p, msg)
  PROVE  /\ Pool(w2, l, r) /\ Single(w2, l, r)
         /\ \A q \in Pairs : \A x : Flies(w2, l, q, x) => Flies(w, l, q, x) \/ (q = p /\ x = msg)
<1>1. /\ w2 \in [Pairs -> SUBSET Message]
      /\ \A q \in Pairs : \A x \in w2[q] : x \in w[q] \/ (q = p /\ x = msg)
  BY DEF Pool, With
<1>2. Pool(w2, l, r)
  BY <1>1 DEF Pool
<1>3. Single(w2, l, r)
  BY <1>1 DEF Single, Nothing
<1>4. QED
  BY <1>1, <1>2, <1>3 DEF Flies

LEMMA PutRunning ==
  ASSUME NEW w, NEW l, NEW r, Pool(w, l, r), Single(w, l, r),
         NEW x \in [id : Ids, call : Calls], Nothing(w, l, r, x.call),
         NEW r2, r2 = r \cup {x}
  PROVE  Pool(w, l, r2) /\ Single(w, l, r2)
<1>1. Pool(w, l, r2)
  BY DEF Pool
<1>2. Single(w, l, r2)
  BY DEF Single, Nothing
<1>3. QED
  BY <1>1, <1>2

LEMMA PutWire ==
  ASSUME NEW w, NEW l, NEW r, Pool(w, l, r), Single(w, l, r),
         NEW msg \in Message, Nothing(w, l, r, msg.call),
         NEW p \in Pairs, NEW n \in 1 .. MaxConns,
         NEW s, s \in {<<>>, l[<<p, n>>]},
         NEW l2, l2 = Extended(l, p, n, s, msg)
  PROVE  /\ Pool(w, l2, r) /\ Single(w, l2, r)
         /\ \A q \in Pairs : \A x : Flies(w, l2, q, x) => Flies(w, l, q, x) \/ (q = p /\ x = msg)
<1>1. PICK k \in Conns : k = <<p, n>>
  BY DEF Conns
<1>2. l \in [Conns -> Seq(Message)] /\ s \in Seq(Message) /\ l[k] \in Seq(Message)
  <2>1. l \in [Conns -> Seq(Message)] /\ l[k] \in Seq(Message)
    BY DEF Pool
  <2>2. s = <<>> \/ s = l[k]
    BY <1>1
  <2>3. <<>> \in Seq(Message)
    OBVIOUS
  <2>4. CASE s = <<>>
    BY <2>1, <2>3, <2>4
  <2>5. CASE s = l[k]
    BY <2>1, <2>5
  <2>6. QED
    BY <2>2, <2>4, <2>5
<1>3. PICK t : t = Append(s, msg)
  OBVIOUS
<1>4. PICK z \in Nat : z = Len(s)
  BY <1>2
<1>5. /\ t \in Seq(Message) /\ DOMAIN t = 1 .. (z + 1) /\ t[z + 1] = msg
      /\ \A i \in 1 .. z : t[i] = s[i] /\ i \in DOMAIN s
  BY <1>2, <1>3, <1>4
<1>6. /\ l2 \in [Conns -> Seq(Message)] /\ l2[k] = t
      /\ \A m \in Conns : m # k => l2[m] = l[m]
  BY <1>1, <1>2, <1>3, <1>5 DEF Extended
<1>7. Pool(w, l2, r)
  BY <1>6 DEF Pool
<1>8. \A i \in 1 .. (z + 1) : i \in 1 .. z \/ i = z + 1
  OBVIOUS
<1>9. \A i \in 1 .. z : i \in DOMAIN l[k] /\ t[i] = l[k][i]
  <2>1. CASE s = <<>>
    BY <1>4, <2>1
  <2>2. CASE s = l[k]
    BY <1>5, <2>2
  <2>3. QED
    BY <1>1, <2>1, <2>2
<1>10. \A m \in Conns : \A i \in DOMAIN l2[m] :
         \/ i \in DOMAIN l[m] /\ l2[m][i] = l[m][i]
         \/ m = k /\ i = z + 1 /\ l2[m][i] = msg
  BY <1>5, <1>6, <1>8, <1>9
<1>11. Single(w, l2, r)
  <2>1. ASSUME NEW m \in Conns, NEW o \in Conns, NEW i \in DOMAIN l2[m], NEW j \in DOMAIN l2[o],
               l2[m][i].call = l2[o][j].call
        PROVE  m = o /\ i = j
    BY <1>10, <2>1 DEF Single, Nothing
  <2>2. \A m \in Conns : \A i \in DOMAIN l2[m], x \in r : l2[m][i].call # x.call
    BY <1>10 DEF Single, Nothing
  <2>3. \A q \in Pairs, m \in Conns : \A x \in w[q], i \in DOMAIN l2[m] : x.call # l2[m][i].call
    BY <1>10 DEF Single, Nothing
  <2>4. QED
    BY <2>1, <2>2, <2>3 DEF Single
<1>12. ASSUME NEW q \in Pairs, NEW x, Flies(w, l2, q, x)
       PROVE  Flies(w, l, q, x) \/ (q = p /\ x = msg)
  <2>1. CASE x \in w[q]
    BY <2>1 DEF Flies
  <2>2. ASSUME NEW m \in 1 .. MaxConns, NEW i \in DOMAIN l2[<<q, m>>], l2[<<q, m>>][i] = x
        PROVE  Flies(w, l, q, x) \/ (q = p /\ x = msg)
    <3>1. <<q, m>> \in Conns
      BY DEF Conns
    <3>2. \/ i \in DOMAIN l[<<q, m>>] /\ l2[<<q, m>>][i] = l[<<q, m>>][i]
          \/ <<q, m>> = k /\ l2[<<q, m>>][i] = msg
      BY <1>10, <3>1
    <3>3. QED
      BY <1>1, <2>2, <3>2 DEF Flies
  <2>3. QED
    BY <1>12, <2>1, <2>2 DEF Flies
<1>13. QED
  BY <1>7, <1>11, <1>12
-----------------------------------------------------------------------------
LEMMA Directions ==
  ASSUME NEW c \in Calls
  PROVE  /\ To(c) \in Pairs /\ Back(c) \in Pairs
         /\ To(c) = <<Back(c)[2], Back(c)[1]>> /\ To(c)[1] = Caller[c]
BY ClusterRpcAssumption DEF To, Back, Pairs

LEMMA MessageFields ==
  ASSUME NEW msg \in Message
  PROVE  msg.kind \in {"call", "resp", "err"} /\ msg.call \in Calls /\ msg.id \in Ids
BY DEF Message

(* Natural numbers have a least one, so new_session finds an id.           *)
LEMMA LessIs == OpToRel(<, Nat) = {x \in Nat \X Nat : x[1] < x[2]}
BY DEF OpToRel

LEMMA LeastMember ==
  ASSUME NEW S, S \subseteq Nat, S # {}
  PROVE  Min(S) \in S
<1>1. PICK x \in S : \A y \in S : <<y, x>> \notin OpToRel(<, Nat)
  BY NatLessThanWellFounded, WFMin
<1>2. ASSUME NEW y \in S PROVE x <= y
  <2>1. <<y, x>> \notin {z \in Nat \X Nat : z[1] < z[2]}
    BY <1>1, LessIs
  <2>2. QED
    BY <2>1
<1>3. QED
  BY <1>2 DEF Min

LEMMA Wrap ==
  ASSUME NEW n \in Nat, n > 0, NEW x \in 0 .. (n - 1)
  PROVE  x % n = x /\ (x + n) % n = x
OBVIOUS

LEMMA Remainder ==
  ASSUME NEW n \in Nat, n > 0, NEW x \in Nat
  PROVE  x % n \in 0 .. (n - 1)
OBVIOUS

LEMMA NewIdIsFree ==
  ASSUME NEW p, last_id[p] \in Ids, Used(p) \subseteq Ids, Used(p) # Ids
  PROVE  NewId(p) \in Ids \ Used(p)
<1>1. PICK n \in Nat : n = SessionLimit - 1 /\ n > 0
  BY ClusterRpcAssumption
<1>2. Ids = 1 .. n
  BY <1>1 DEF Ids
<1>3. PICK z : z = last_id[p]
  OBVIOUS
<1>4. z \in 1 .. n
  BY <1>2, <1>3
<1>5. PICK S : S = {k \in Ids : ((z - 1 + k) % n) + 1 \notin Used(p)}
  OBVIOUS
<1>6. NewId(p) = ((z - 1 + Min(S)) % n) + 1
  BY <1>1, <1>3, <1>5 DEF NewId
<1>7. PICK f \in Ids : f \notin Used(p)
  OBVIOUS
<1>8. PICK k \in Ids : ((z - 1 + k) % n) + 1 = f
  <2>1. f \in 1 .. n /\ f - 1 \in 0 .. (n - 1)
    BY <1>2, <1>7
  <2>2. CASE f > z
    <3>1. PICK k \in Ids : z - 1 + k = f - 1
      <4>1. f - z \in Ids /\ z - 1 + (f - z) = f - 1
        BY <1>2, <1>4, <2>1, <2>2
      <4>2. QED
        BY <4>1
    <3>2. (f - 1) % n = f - 1
      BY <1>1, <2>1, Wrap
    <3>3. ((z - 1 + k) % n) + 1 = (f - 1) + 1
      BY <3>1, <3>2
    <3>4. QED
      BY <2>1, <3>3
  <2>3. CASE f <= z
    <3>1. PICK k \in Ids : z - 1 + k = (f - 1) + n
      <4>1. (f - z) + n \in Ids /\ z - 1 + ((f - z) + n) = (f - 1) + n
        BY <1>1, <1>2, <1>4, <2>1, <2>3
      <4>2. QED
        BY <4>1
    <3>2. ((f - 1) + n) % n = f - 1
      BY <1>1, <2>1, Wrap
    <3>3. ((z - 1 + k) % n) + 1 = (f - 1) + 1
      BY <3>1, <3>2
    <3>4. QED
      BY <2>1, <3>3
  <2>4. QED
    BY <1>4, <2>1, <2>2, <2>3
<1>9. S \subseteq Nat /\ S # {}
  BY <1>2, <1>5, <1>7, <1>8
<1>10. Min(S) \in S
  BY <1>9, LeastMember
<1>11. NewId(p) \notin Used(p) /\ Min(S) \in 1 .. n
  BY <1>2, <1>5, <1>6, <1>10
<1>12. z - 1 + Min(S) \in Nat
  BY <1>4, <1>11
<1>13. (z - 1 + Min(S)) % n \in 0 .. (n - 1)
  BY <1>1, <1>12, Remainder
<1>14. NewId(p) \in Ids
  BY <1>1, <1>2, <1>6, <1>13
<1>15. QED
  BY <1>11, <1>14
-----------------------------------------------------------------------------
(* The invariant has parts: the connections, the calls, what is lost.      *)
LinkInv ==
  /\ sock \in [Pairs -> 0..MaxConns] /\ opened \in [Pairs -> 0..MaxConns]
  /\ connecting \subseteq Pairs /\ live \subseteq Conns
  /\ faults \in 0..MaxFaults /\ crashed \subseteq Restarting
  /\ ConnectInv /\ OneConnection

CallTypes ==
  /\ sessions \in [Pairs -> SUBSET [id : Ids, call : Calls]]
  /\ \A p \in Pairs : \A s, t \in sessions[p] : s.id = t.id => s = t
  /\ last_id \in [Pairs -> Ids]
  /\ state \in [Calls -> {"new", "called", "done", "failed", "gone"}]
  /\ result \in [Calls -> Calls \cup {NoCall}]
  /\ executions \in [Calls -> Nat]

CallInv ==
  /\ CallTypes /\ Pool(waiting, wire, running)
  /\ SessionsGood /\ MessagesGood /\ Single(waiting, wire, running)
  /\ NewUntouched /\ ExecutedOnce /\ AnswersMatch

LostInv == lost \subseteq Calls

LEMMA Parts == IInv <=> LinkInv /\ CallInv /\ LostInv
BY DEF IInv, TypeOK, LinkInv, CallInv, CallTypes, Pool, LostInv

LEMMA LinkStep ==
  ASSUME LinkInv, [Next]_vars
  PROVE  LinkInv'
<1>1. CASE UNCHANGED vars
  BY <1>1 DEF LinkInv, ConnectInv, OneConnection, vars, link, net
<1>2. ASSUME NEW p \in Pairs, Connect(p) PROVE LinkInv'
  BY <1>2 DEF LinkInv, ConnectInv, OneConnection, Connect, MustConnect, net
<1>3. ASSUME NEW p \in Pairs, Connected(p) PROVE LinkInv'
  <2>1. PICK k : k = opened[p] + 1
    OBVIOUS
  <2>2. /\ sock[p] = 0 /\ k \in 1 .. MaxConns /\ <<p, k>> \in Conns
    BY <1>3, <2>1, ClusterRpcAssumption DEF LinkInv, ConnectInv, Connected, Conns
  <2>3. /\ opened' = [opened EXCEPT ![p] = k] /\ sock' = [sock EXCEPT ![p] = k]
        /\ live' = live \cup {<<p, k>>} /\ connecting' = connecting \ {p}
        /\ faults' = faults /\ crashed' = crashed
    BY <1>3, <2>1 DEF Connected
  <2>4. OneConnection'
    <3>1. ASSUME NEW q \in Pairs, NEW m \in 1 .. MaxConns, <<q, m>> \in live', q[1] \notin crashed'
          PROVE  sock'[q] = m
      <4>1. CASE <<q, m>> \in live
        <5>1. sock[q] = m
          BY <2>3, <3>1, <4>1 DEF LinkInv, OneConnection
        <5>2. q # p
          BY <2>2, <5>1
        <5>3. QED
          BY <2>3, <5>1, <5>2
      <4>2. CASE q = p /\ m = k
        BY <2>3, <4>2 DEF LinkInv
      <4>3. QED
        BY <2>3, <3>1, <4>1, <4>2
    <3>2. QED
      BY <3>1 DEF OneConnection
  <2>5. ConnectInv'
    BY <2>3 DEF LinkInv, ConnectInv
  <2>6. QED
    BY <2>2, <2>3, <2>4, <2>5 DEF LinkInv
<1>4. ASSUME NEW p \in Pairs, ConnectFails(p) PROVE LinkInv'
  BY <1>4, ClusterRpcAssumption DEF LinkInv, ConnectInv, OneConnection, ConnectFails
<1>5. ASSUME NEW p \in Pairs, SendWaiting(p) PROVE LinkInv'
  BY <1>5 DEF LinkInv, ConnectInv, OneConnection, SendWaiting
<1>6. ASSUME NEW p \in Pairs, OnClose(p) PROVE LinkInv'
  <2>1. /\ <<p, sock[p]>> \notin live /\ sock' = [sock EXCEPT ![p] = 0]
        /\ UNCHANGED <<connecting, opened, live, faults, crashed>>
    BY <1>6 DEF OnClose, net
  <2>2. OneConnection'
    BY <2>1 DEF LinkInv, OneConnection
  <2>3. ConnectInv'
    BY <2>1 DEF LinkInv, ConnectInv
  <2>4. QED
    BY <2>1, <2>2, <2>3, ClusterRpcAssumption DEF LinkInv
<1>7. ASSUME NEW p \in Pairs, NEW k \in 1 .. MaxConns, Receive(p, k) PROVE LinkInv'
  BY <1>7 DEF LinkInv, ConnectInv, OneConnection, Receive, link
<1>8. ASSUME NEW p \in Pairs, NEW k \in 1 .. MaxConns, Break(p, k) PROVE LinkInv'
  BY <1>8, ClusterRpcAssumption DEF LinkInv, ConnectInv, OneConnection, Break, link
<1>9. ASSUME NEW c \in Calls, Call(c) PROVE LinkInv'
  BY <1>9 DEF LinkInv, ConnectInv, OneConnection, Call
<1>10. ASSUME NEW r \in running, Answer(r) PROVE LinkInv'
  BY <1>10 DEF LinkInv, ConnectInv, OneConnection, Answer
<1>11. ASSUME NEW n \in Nodes, Restart(n) PROVE LinkInv'
  <2>1. /\ crashed' = crashed \cup {n} /\ n \in Restarting
        /\ sock' = [p \in Pairs |-> IF p[1] = n THEN 0 ELSE sock[p]]
        /\ connecting' \subseteq connecting /\ \A p \in connecting' : p[1] # n
        /\ live' \subseteq live /\ UNCHANGED <<opened, faults>>
    BY <1>11 DEF Restart, LinkInv
  <2>2. sock' \in [Pairs -> 0..MaxConns]
    BY <2>1, ClusterRpcAssumption DEF LinkInv
  <2>3. OneConnection'
    BY <2>1 DEF LinkInv, OneConnection
  <2>4. ConnectInv'
    BY <2>1 DEF LinkInv, ConnectInv
  <2>5. QED
    BY <2>1, <2>2, <2>3, <2>4 DEF LinkInv
<1>12. QED
  BY <1>1, <1>2, <1>3, <1>4, <1>5, <1>6, <1>7, <1>8, <1>9, <1>10, <1>11 DEF Next
-----------------------------------------------------------------------------
LEMMA NothingFlies ==
  ASSUME NEW w, NEW l, NEW r, NEW c, Nothing(w, l, r, c),
         NEW p \in Pairs, NEW msg, Flies(w, l, p, msg)
  PROVE  msg.call # c
<1>1. \A k \in 1 .. MaxConns : <<p, k>> \in Conns
  BY DEF Conns
<1>2. QED
  BY <1>1 DEF Nothing, Flies

(* What is on its way of a new call: nothing.                              *)
LEMMA NewHasNothing ==
  ASSUME CallInv, NEW c \in Calls, state[c] = "new"
  PROVE  Nothing(waiting, wire, running, c)
<1>1. ASSUME NEW p \in Pairs, NEW x \in waiting[p] PROVE x.call # c
  <2>1. x \in Message
    BY DEF CallInv, Pool
  <2>2. Flies(waiting, wire, p, x)
    BY DEF Flies
  <2>3. QED
    BY <2>1, <2>2 DEF CallInv, MessagesGood, Good, Asked
<1>2. ASSUME NEW k \in Conns, NEW i \in DOMAIN wire[k] PROVE wire[k][i].call # c
  <2>1. wire[k] \in Seq(Message)
    BY DEF CallInv, Pool
  <2>2. wire[k][i] \in Message
    BY <2>1
  <2>3. k[1] \in Pairs /\ k[2] \in 1 .. MaxConns /\ k = <<k[1], k[2]>>
    BY DEF Conns
  <2>4. Flies(waiting, wire, k[1], wire[k][i])
    BY <2>3 DEF Flies
  <2>5. QED
    BY <2>2, <2>3, <2>4 DEF CallInv, MessagesGood, Good, Asked
<1>3. \A x \in running : x.call # c
  BY DEF CallInv, MessagesGood, Asked
<1>4. QED
  BY <1>1, <1>2, <1>3 DEF Nothing

(* A message is put into a queue or a connection, or lost at once.         *)
Sent(w, l, w2, l2, p, msg) ==
  \/ w2 = w /\ l2 = l
  \/ w2 = w /\ \E n \in 1 .. MaxConns : l2 = Extended(l, p, n, l[<<p, n>>], msg)
  \/ l2 = l /\ w2 = With(w, p, msg)

LEMMA SentOk ==
  ASSUME NEW w, NEW l, NEW r, Pool(w, l, r), Single(w, l, r),
         NEW msg \in Message, Nothing(w, l, r, msg.call), NEW p \in Pairs,
         NEW w2, NEW l2, Sent(w, l, w2, l2, p, msg)
  PROVE  /\ Pool(w2, l2, r) /\ Single(w2, l2, r)
         /\ \A q \in Pairs : \A x : Flies(w2, l2, q, x) => Flies(w, l, q, x) \/ (q = p /\ x = msg)
<1>1. CASE w2 = w /\ l2 = l
  BY <1>1
<1>2. ASSUME NEW n \in 1 .. MaxConns, w2 = w, l2 = Extended(l, p, n, l[<<p, n>>], msg)
      PROVE  /\ Pool(w2, l2, r) /\ Single(w2, l2, r)
             /\ \A q \in Pairs : \A x : Flies(w2, l2, q, x) => Flies(w, l, q, x) \/ (q = p /\ x = msg)
  <2>1. PICK s : s = l[<<p, n>>]
    OBVIOUS
  <2>2. s \in {<<>>, l[<<p, n>>]} /\ l2 = Extended(l, p, n, s, msg)
    BY <1>2, <2>1
  <2>3. QED
    BY <1>2, <2>2, PutWire
<1>3. CASE l2 = l /\ w2 = With(w, p, msg)
  BY <1>3, PutWaiting
<1>4. QED
  BY <1>1, <1>2, <1>3 DEF Sent

LEMMA TransmitIs ==
  ASSUME wire \in [Conns -> Seq(Message)], NEW p \in Pairs, NEW k \in 1 .. MaxConns, NEW msg,
         Transmit(p, k, msg)
  PROVE  wire' = wire \/ wire' = Extended(wire, p, k, wire[<<p, k>>], msg)
<1>1. CASE <<p, k>> \in live
  BY <1>1 DEF Transmit, Extended
<1>2. CASE <<p, k>> \notin live
  <2>1. wire' = [wire EXCEPT ![<<p, k>>] = wire[<<p, k>>]]
    BY <1>2 DEF Transmit
  <2>2. QED
    BY <2>1
<1>3. QED
  BY <1>1, <1>2

LEMMA SendIs ==
  ASSUME LinkInv, CallInv, NEW p \in Pairs, NEW msg, Send(p, msg)
  PROVE  Sent(waiting, wire, waiting', wire', p, msg)
<1>1. CASE sock[p] # 0
  <2>1. sock[p] \in 1 .. MaxConns
    BY <1>1, ClusterRpcAssumption DEF LinkInv
  <2>2. wire \in [Conns -> Seq(Message)]
    BY DEF CallInv, Pool
  <2>3. Transmit(p, sock[p], msg) /\ waiting' = waiting
    BY <1>1 DEF Send
  <2>4. wire' = wire \/ wire' = Extended(wire, p, sock[p], wire[<<p, sock[p]>>], msg)
    BY <2>1, <2>2, <2>3, TransmitIs
  <2>5. QED
    BY <2>1, <2>3, <2>4 DEF Sent
<1>2. CASE sock[p] = 0
  BY <1>2 DEF Send, Sent, With
<1>3. QED
  BY <1>1, <1>2

(* Steps that change no session and begin no call.                         *)
LEMMA Quiet ==
  ASSUME CallInv, Pool(waiting', wire', running'), Single(waiting', wire', running'),
         \A p \in Pairs, msg \in Message : Flies(waiting', wire', p, msg) => Good(msg, p),
         \A r \in running' : Asked(r.call, r.id),
         UNCHANGED <<sessions, last_id, result, executions, crashed>>,
         state' \in [Calls -> {"new", "called", "done", "failed", "gone"}],
         \A c \in Calls : state'[c] = "new" <=> state[c] = "new"
  PROVE  CallInv'
<1>1. CallTypes'
  BY DEF CallInv, CallTypes
<1>2. \A c \in Calls : \A id : Asked(c, id) => Asked(c, id)'
  BY DEF Asked
<1>3. \A msg \in Message : \A p : Good(msg, p) => Good(msg, p)'
  BY <1>2, MessageFields DEF Good
<1>4. \A r \in running' : r.call \in Calls
  BY DEF Pool
<1>5. MessagesGood'
  BY <1>2, <1>3, <1>4 DEF MessagesGood
<1>6. SessionsGood'
  BY DEF CallInv, CallTypes, SessionsGood
<1>7. NewUntouched' /\ ExecutedOnce' /\ AnswersMatch'
  BY DEF CallInv, NewUntouched, ExecutedOnce, AnswersMatch
<1>8. QED
  BY <1>1, <1>5, <1>6, <1>7 DEF CallInv

(* Messages and coroutines that were on their way already are good.        *)
LEMMA OldGood ==
  ASSUME CallInv, NEW w, NEW l, NEW r,
         \A p \in Pairs : \A x : Flies(w, l, p, x) => Flies(waiting, wire, p, x),
         r \subseteq running
  PROVE  /\ \A p \in Pairs, x \in Message : Flies(w, l, p, x) => Good(x, p)
         /\ \A x \in r : Asked(x.call, x.id)
BY DEF CallInv, MessagesGood

LEMMA CallParts ==
  ASSUME CallInv
  PROVE  /\ Pool(waiting, wire, running) /\ Single(waiting, wire, running)
         /\ state \in [Calls -> {"new", "called", "done", "failed", "gone"}]
         /\ wire \in [Conns -> Seq(Message)] /\ waiting \in [Pairs -> SUBSET Message]
BY DEF CallInv, CallTypes, Pool

LEMMA CallsStutter ==
  ASSUME CallInv, UNCHANGED <<waiting, wire, running, sessions, last_id, state, result, executions, crashed>>
  PROVE  CallInv'
<1>1. Pool(waiting', wire', running') /\ Single(waiting', wire', running')
  BY CallParts
<1>2. /\ \A p \in Pairs, x \in Message : Flies(waiting', wire', p, x) => Good(x, p)
      /\ \A x \in running' : Asked(x.call, x.id)
  BY DEF CallInv, MessagesGood
<1>3. QED
  BY <1>1, <1>2, CallParts, Quiet

LEMMA CallsConnected ==
  ASSUME LinkInv, CallInv, NEW p \in Pairs, Connected(p)
  PROVE  CallInv'
<1>1. PICK k : k = opened[p] + 1
  OBVIOUS
<1>2. k \in 1 .. MaxConns
  BY <1>1, ClusterRpcAssumption DEF LinkInv, ConnectInv, Connected
<1>3. PICK msg \in waiting[p] :
        wire' = [wire EXCEPT ![<<p, k>>] = <<msg>>] /\ waiting' = Without(waiting, p, msg)
  BY <1>1 DEF Connected, Without
<1>4. /\ UNCHANGED <<sessions, last_id, running, state, result, executions, crashed>>
  BY DEF Connected
<1>5. PICK w : w = waiting'
  OBVIOUS
<1>6. /\ Pool(w, wire, running) /\ Single(w, wire, running) /\ Nothing(w, wire, running, msg.call)
      /\ \A q \in Pairs : \A x : Flies(w, wire, q, x) => Flies(waiting, wire, q, x)
  BY <1>3, <1>5, CallParts, TakeWaiting
<1>7. msg \in Message /\ Flies(waiting, wire, p, msg)
  BY <1>3, CallParts DEF Flies
<1>8. PICK l : l = wire'
  OBVIOUS
<1>9. PICK s : s = <<>>
  OBVIOUS
<1>10. l = Extended(wire, p, k, s, msg)
  <2>1. Append(s, msg) = <<msg>>
    BY <1>9
  <2>2. QED
    BY <1>3, <1>8, <2>1 DEF Extended
<1>11. s \in {<<>>, wire[<<p, k>>]}
  BY <1>9
<1>12. /\ Pool(w, l, running) /\ Single(w, l, running)
       /\ \A q \in Pairs : \A x : Flies(w, l, q, x) => Flies(w, wire, q, x) \/ (q = p /\ x = msg)
  BY <1>2, <1>6, <1>7, <1>10, <1>11, PutWire
<1>13. \A q \in Pairs : \A x : Flies(w, l, q, x) => Flies(waiting, wire, q, x)
  BY <1>6, <1>7, <1>12
<1>14. /\ \A q \in Pairs, x \in Message : Flies(w, l, q, x) => Good(x, q)
       /\ \A x \in running : Asked(x.call, x.id)
  BY <1>13, OldGood
<1>15. QED
  BY <1>4, <1>5, <1>8, <1>12, <1>14, CallParts, Quiet

LEMMA CallsSendWaiting ==
  ASSUME LinkInv, CallInv, NEW p \in Pairs, SendWaiting(p)
  PROVE  CallInv'
<1>1. PICK msg \in waiting[p] : waiting' = Without(waiting, p, msg) /\ Transmit(p, sock[p], msg)
  BY DEF SendWaiting, Without
<1>2. /\ UNCHANGED <<sessions, last_id, running, state, result, executions, crashed>>
      /\ sock[p] \in 1 .. MaxConns
  BY ClusterRpcAssumption DEF SendWaiting, LinkInv
<1>3. PICK w : w = waiting'
  OBVIOUS
<1>4. /\ Pool(w, wire, running) /\ Single(w, wire, running) /\ Nothing(w, wire, running, msg.call)
      /\ \A q \in Pairs : \A x : Flies(w, wire, q, x) => Flies(waiting, wire, q, x)
  BY <1>1, <1>3, CallParts, TakeWaiting
<1>5. msg \in Message /\ Flies(waiting, wire, p, msg)
  BY <1>1, CallParts DEF Flies
<1>6. PICK l : l = wire'
  OBVIOUS
<1>7. wire' = wire \/ wire' = Extended(wire, p, sock[p], wire[<<p, sock[p]>>], msg)
  BY <1>1, <1>2, CallParts, TransmitIs
<1>8. Sent(w, wire, w, l, p, msg)
  BY <1>2, <1>6, <1>7 DEF Sent
<1>9. /\ Pool(w, l, running) /\ Single(w, l, running)
      /\ \A q \in Pairs : \A x : Flies(w, l, q, x) => Flies(w, wire, q, x) \/ (q = p /\ x = msg)
  BY <1>4, <1>5, <1>8, SentOk
<1>10. \A q \in Pairs : \A x : Flies(w, l, q, x) => Flies(waiting, wire, q, x)
  BY <1>4, <1>5, <1>9
<1>11. /\ \A q \in Pairs, x \in Message : Flies(w, l, q, x) => Good(x, q)
       /\ \A x \in running : Asked(x.call, x.id)
  BY <1>10, OldGood
<1>12. QED
  BY <1>2, <1>3, <1>6, <1>9, <1>11, CallParts, Quiet

LEMMA CallsConnectFails ==
  ASSUME LinkInv, CallInv, NEW p \in Pairs, ConnectFails(p)
  PROVE  CallInv'
<1>1. PICK msg \in waiting[p] :
        /\ waiting' = [waiting EXCEPT ![p] = (waiting[p] \ {msg}) \cup
                         (IF msg.kind = "resp" THEN {[msg EXCEPT !.kind = "err"]} ELSE {})]
        /\ state' = IF msg.kind = "call" THEN [state EXCEPT ![msg.call] = "failed"] ELSE state
  BY DEF ConnectFails
<1>2. UNCHANGED <<wire, sessions, last_id, running, result, executions, crashed>>
  BY DEF ConnectFails
<1>3. PICK w : w = Without(waiting, p, msg)
  OBVIOUS
<1>4. /\ Pool(w, wire, running) /\ Single(w, wire, running) /\ Nothing(w, wire, running, msg.call)
      /\ \A q \in Pairs : \A x : Flies(w, wire, q, x) => Flies(waiting, wire, q, x)
  BY <1>1, <1>3, CallParts, TakeWaiting
<1>5. msg \in Message /\ Flies(waiting, wire, p, msg) /\ msg.call \in Calls
  BY <1>1, CallParts, MessageFields DEF Flies
<1>6. Good(msg, p)
  BY <1>5 DEF CallInv, MessagesGood
<1>7. /\ state' \in [Calls -> {"new", "called", "done", "failed", "gone"}]
      /\ \A c \in Calls : state'[c] = "new" <=> state[c] = "new"
  BY <1>1, <1>5, <1>6, CallParts DEF Good, Asked
<1>8. w = [waiting EXCEPT ![p] = waiting[p] \ {msg}] /\ waiting[p] \ {msg} \subseteq Message
  BY <1>3, CallParts DEF Without
<1>9. CASE msg.kind = "resp"
  <2>1. PICK e : e = [msg EXCEPT !.kind = "err"]
    OBVIOUS
  <2>2. e \in Message /\ e.kind = "err" /\ e.call = msg.call /\ e.id = msg.id
    BY <1>5, <2>1 DEF Message
  <2>3. Good(e, p)
    BY <1>6, <1>9, <2>2 DEF Good
  <2>4. PICK w2 : w2 = waiting'
    OBVIOUS
  <2>5. w2 = With(w, p, e)
    <3>1. w2 = [waiting EXCEPT ![p] = (waiting[p] \ {msg}) \cup {e}]
      BY <1>1, <1>9, <2>1, <2>4
    <3>2. QED
      BY <1>8, <3>1, CallParts DEF With
  <2>6. /\ Pool(w2, wire, running) /\ Single(w2, wire, running)
        /\ \A q \in Pairs : \A x : Flies(w2, wire, q, x) => Flies(w, wire, q, x) \/ (q = p /\ x = e)
    BY <1>4, <2>2, <2>5, PutWaiting
  <2>7. /\ \A q \in Pairs, x \in Message : Flies(w, wire, q, x) => Good(x, q)
        /\ \A x \in running : Asked(x.call, x.id)
    BY <1>4, OldGood
  <2>8. \A q \in Pairs, x \in Message : Flies(w2, wire, q, x) => Good(x, q)
    BY <2>3, <2>6, <2>7
  <2>9. QED
    BY <1>2, <1>7, <2>4, <2>6, <2>7, <2>8, Quiet
<1>10. CASE msg.kind # "resp"
  <2>1. waiting' = w
    BY <1>1, <1>8, <1>10, CallParts
  <2>2. /\ \A q \in Pairs, x \in Message : Flies(w, wire, q, x) => Good(x, q)
        /\ \A x \in running : Asked(x.call, x.id)
    BY <1>4, OldGood
  <2>3. QED
    BY <1>2, <1>4, <1>7, <2>1, <2>2, Quiet
<1>11. QED
  BY <1>9, <1>10

LEMMA CallsAnswer ==
  ASSUME LinkInv, CallInv, NEW r \in running, Answer(r)
  PROVE  CallInv'
<1>1. PICK kind \in {"resp", "err"} :
        Send(Back(r.call), [kind |-> kind, call |-> r.call, id |-> r.id])
  BY DEF Answer
<1>2. running' = running \ {r} /\ UNCHANGED <<sessions, last_id, state, result, executions, crashed>>
  BY DEF Answer
<1>3. PICK msg : msg = [kind |-> kind, call |-> r.call, id |-> r.id]
  OBVIOUS
<1>4. r.call \in Calls /\ r.id \in Ids
  BY DEF CallInv, Pool
<1>5. msg \in Message /\ msg.call = r.call /\ msg.id = r.id /\ msg.kind # "call"
  BY <1>3, <1>4 DEF Message
<1>6. PICK p \in Pairs : p = Back(r.call)
  BY <1>4, Directions
<1>7. Good(msg, p)
  BY <1>5, <1>6 DEF Good, CallInv, MessagesGood
<1>8. PICK x : x = running'
  OBVIOUS
<1>9. Pool(waiting, wire, x) /\ Single(waiting, wire, x) /\ Nothing(waiting, wire, x, r.call)
  BY <1>2, <1>8, CallParts, TakeRunning
<1>10. PICK w, l : w = waiting' /\ l = wire'
  OBVIOUS
<1>11. Sent(waiting, wire, w, l, p, msg)
  BY <1>1, <1>3, <1>6, <1>10, SendIs
<1>12. /\ Pool(w, l, x) /\ Single(w, l, x)
       /\ \A q \in Pairs : \A y : Flies(w, l, q, y) => Flies(waiting, wire, q, y) \/ (q = p /\ y = msg)
  BY <1>5, <1>9, <1>11, SentOk
<1>13. \A q \in Pairs, y \in Message : Flies(w, l, q, y) => Good(y, q)
  BY <1>7, <1>12 DEF CallInv, MessagesGood
<1>14. \A y \in x : Asked(y.call, y.id)
  BY <1>2, <1>8 DEF CallInv, MessagesGood
<1>15. QED
  BY <1>2, <1>8, <1>10, <1>12, <1>13, <1>14, CallParts, Quiet

LEMMA NoMessages == \E e \in Seq(Message) : e = <<>>
<1>1. <<>> \in Seq(Message)
  OBVIOUS
<1>2. QED
  BY <1>1, Zenon

(* Messages are only lost.                                                 *)
LEMMA OnlyLost ==
  ASSUME CallInv, NEW w, NEW l, NEW r, Pool(w, l, r),
         \A q \in Pairs : w[q] \subseteq waiting[q],
         \A k \in Conns : l[k] \in {<<>>, wire[k]}, r \subseteq running
  PROVE  /\ Single(w, l, r)
         /\ \A q \in Pairs, x \in Message : Flies(w, l, q, x) => Good(x, q)
         /\ \A x \in r : Asked(x.call, x.id)
<1>1. Shorter(wire, wire)
  BY CallParts, Unchanged
<1>2. Shorter(wire, l)
  <2>1. ASSUME NEW k \in Conns
        PROVE  \E n \in {0, 1} : \A i \in DOMAIN l[k] : i + n \in DOMAIN wire[k] /\ l[k][i] = wire[k][i + n]
    <3>1. CASE l[k] = wire[k]
      BY <1>1, <3>1 DEF Shorter
    <3>2. CASE l[k] = <<>>
      BY <3>2
    <3>3. QED
      BY <3>1, <3>2
  <2>2. QED
    BY <2>1 DEF Shorter
<1>3. Lost(waiting, wire, running, w, l, r)
  BY <1>2, CallParts DEF Lost
<1>4. /\ Single(w, l, r)
      /\ \A q \in Pairs : \A x : Flies(w, l, q, x) => Flies(waiting, wire, q, x)
  BY <1>3, CallParts, Fewer
<1>5. QED
  BY <1>4, OldGood

LEMMA CallsBreak ==
  ASSUME CallInv, NEW p \in Pairs, NEW k \in 1 .. MaxConns, Break(p, k)
  PROVE  CallInv'
<1>1. wire' = [wire EXCEPT ![<<p, k>>] = <<>>]
  BY DEF Break
<1>2. UNCHANGED <<waiting, sessions, last_id, running, state, result, executions, crashed>>
  BY DEF Break, link
<1>3. PICK l : l = wire'
  OBVIOUS
<1>4. l \in [Conns -> Seq(Message)] /\ \A m \in Conns : l[m] \in {<<>>, wire[m]}
  <2>1. PICK e \in Seq(Message) : e = <<>>
    BY NoMessages
  <2>2. wire \in [Conns -> Seq(Message)] /\ l = [wire EXCEPT ![<<p, k>>] = e]
    BY <1>1, <1>3, <2>1, CallParts
  <2>3. l \in [Conns -> Seq(Message)]
    BY <2>2
  <2>4. \A m \in Conns : l[m] = e \/ l[m] = wire[m]
    BY <2>2
  <2>5. QED
    BY <2>1, <2>3, <2>4
<1>5. Pool(waiting, l, running)
  BY <1>4, CallParts DEF Pool
<1>6. /\ Single(waiting, l, running)
      /\ \A q \in Pairs, x \in Message : Flies(waiting, l, q, x) => Good(x, q)
      /\ \A x \in running : Asked(x.call, x.id)
  BY <1>4, <1>5, OnlyLost
<1>7. QED
  BY <1>2, <1>3, <1>5, <1>6, CallParts, Quiet

LEMMA CallsOnClose ==
  ASSUME CallInv, NEW p \in Pairs, OnClose(p)
  PROVE  CallInv'
<1>1. waiting' = waiting
  BY CallParts DEF OnClose, Unsent
<1>2. QED
  BY <1>1, CallsStutter DEF OnClose, net

LEMMA CallsRestart ==
  ASSUME CallInv, NEW n \in Nodes, Restart(n)
  PROVE  CallInv'
<1>1. /\ crashed' = crashed \cup {n}
      /\ waiting' = [p \in Pairs |-> IF p[1] = n THEN {} ELSE waiting[p]]
      /\ sessions' = [p \in Pairs |-> IF p[1] = n THEN {} ELSE sessions[p]]
      /\ last_id' = [p \in Pairs |-> IF p[1] = n THEN 1 ELSE last_id[p]]
      /\ wire' = [c \in Conns |-> IF c[1][2] = n THEN <<>> ELSE wire[c]]
      /\ running' = {r \in running : Callee[r.call] # n}
      /\ state' = [c \in Calls |-> IF Caller[c] = n /\ state[c] = "called" THEN "gone" ELSE state[c]]
      /\ result' = result /\ executions' = executions
  BY DEF Restart
<1>2. PICK w, l, r : w = waiting' /\ l = wire' /\ r = running'
  OBVIOUS
<1>3. Pool(w, l, r)
  <2>1. w \in [Pairs -> SUBSET Message]
    BY <1>1, <1>2, CallParts
  <2>2. l \in [Conns -> Seq(Message)]
    BY <1>1, <1>2, CallParts
  <2>3. r \subseteq [id : Ids, call : Calls]
    BY <1>1, <1>2 DEF CallInv, Pool
  <2>4. QED
    BY <2>1, <2>2, <2>3 DEF Pool
<1>4. /\ \A q \in Pairs : w[q] \subseteq waiting[q]
      /\ \A k \in Conns : l[k] \in {<<>>, wire[k]}
      /\ r \subseteq running
  BY <1>1, <1>2
<1>5. /\ Single(w, l, r)
      /\ \A q \in Pairs, x \in Message : Flies(w, l, q, x) => Good(x, q)
      /\ \A x \in r : Asked(x.call, x.id)
  BY <1>3, <1>4, OnlyLost
<1>6. \A c \in Calls : state'[c] = "new" <=> state[c] = "new"
  BY <1>1, CallParts
<1>7. \A c \in Calls : \A id : Asked(c, id) => Asked(c, id)'
  <2>1. ASSUME NEW c \in Calls, NEW id, Asked(c, id), Caller[c] \notin crashed'
        PROVE  [id |-> id, call |-> c] \in sessions'[To(c)]
    <3>1. [id |-> id, call |-> c] \in sessions[To(c)] /\ Caller[c] # n
      BY <1>1, <2>1 DEF Asked
    <3>2. To(c) \in Pairs /\ To(c)[1] # n
      BY <3>1, Directions
    <3>3. QED
      BY <1>1, <3>1, <3>2
  <2>2. QED
    BY <1>6, <2>1 DEF Asked
<1>8. MessagesGood'
  <2>1. \A x \in Message : \A p : Good(x, p) => Good(x, p)'
    BY <1>1, <1>7, MessageFields DEF Good
  <2>2. \A x \in r : x.call \in Calls
    BY <1>3 DEF Pool
  <2>3. QED
    BY <1>2, <1>5, <1>7, <2>1, <2>2 DEF MessagesGood
<1>9. CallTypes'
  <2>1. 1 \in Ids
    BY ClusterRpcAssumption DEF Ids
  <2>2. sessions' \in [Pairs -> SUBSET [id : Ids, call : Calls]]
    BY <1>1 DEF CallInv, CallTypes
  <2>3. \A p \in Pairs : \A s, t \in sessions'[p] : s.id = t.id => s = t
    BY <1>1 DEF CallInv, CallTypes
  <2>4. last_id' \in [Pairs -> Ids]
    BY <1>1, <2>1 DEF CallInv, CallTypes
  <2>5. state' \in [Calls -> {"new", "called", "done", "failed", "gone"}]
    BY <1>1, CallParts
  <2>6. QED
    BY <1>1, <2>2, <2>3, <2>4, <2>5 DEF CallInv, CallTypes
<1>10. SessionsGood'
  <2>1. \A p \in Pairs : sessions'[p] \subseteq sessions[p] /\ \A s \in sessions[p] : s.call \in Calls
    BY <1>1 DEF CallInv, CallTypes
  <2>2. QED
    BY <1>6, <2>1 DEF CallInv, SessionsGood
<1>11. NewUntouched' /\ ExecutedOnce' /\ AnswersMatch'
  BY <1>1, <1>6 DEF CallInv, NewUntouched, ExecutedOnce, AnswersMatch
<1>12. QED
  BY <1>2, <1>3, <1>5, <1>8, <1>9, <1>10, <1>11 DEF CallInv

LEMMA CallsCall ==
  ASSUME LinkInv, CallInv, NEW c \in Calls, Call(c)
  PROVE  CallInv'
<1>1. PICK p \in Pairs : p = To(c)
  BY Directions
<1>2. PICK id : id = NewId(p)
  OBVIOUS
<1>3. /\ state[c] = "new" /\ Used(p) # Ids
      /\ last_id' = [last_id EXCEPT ![p] = id]
      /\ sessions' = [sessions EXCEPT ![p] = @ \cup {[id |-> id, call |-> c]}]
      /\ Send(p, [kind |-> "call", call |-> c, id |-> id])
      /\ state' = [state EXCEPT ![c] = "called"]
      /\ UNCHANGED <<running, result, executions, crashed>>
  BY <1>1, <1>2 DEF Call
<1>4. id \in Ids \ Used(p)
  <2>1. last_id[p] \in Ids /\ Used(p) \subseteq Ids
    BY DEF CallInv, CallTypes, Used
  <2>2. QED
    BY <1>2, <1>3, <2>1, NewIdIsFree
<1>5. PICK msg : msg = [kind |-> "call", call |-> c, id |-> id]
  OBVIOUS
<1>6. msg \in Message /\ msg.kind = "call" /\ msg.call = c /\ msg.id = id
  BY <1>4, <1>5 DEF Message
<1>7. Nothing(waiting, wire, running, c)
  BY <1>3, NewHasNothing
<1>8. PICK w, l : w = waiting' /\ l = wire'
  OBVIOUS
<1>9. Sent(waiting, wire, w, l, p, msg)
  BY <1>3, <1>5, <1>8, SendIs
<1>10. /\ Pool(w, l, running) /\ Single(w, l, running)
       /\ \A q \in Pairs : \A x : Flies(w, l, q, x) => Flies(waiting, wire, q, x) \/ (q = p /\ x = msg)
  BY <1>6, <1>7, <1>9, CallParts, SentOk
<1>11. /\ \A q \in Pairs : sessions[q] \subseteq sessions'[q]
       /\ [id |-> id, call |-> c] \in sessions'[p]
       /\ \A q \in Pairs : \A s \in sessions'[q] :
            s \in sessions[q] \/ (q = p /\ s = [id |-> id, call |-> c])
  BY <1>3 DEF CallInv, CallTypes
<1>12. \A d \in Calls : state'[d] = IF d = c THEN "called" ELSE state[d]
  BY <1>3, CallParts
<1>13. \A d \in Calls : \A i : Asked(d, i) => Asked(d, i)'
  BY <1>3, <1>11, <1>12, Directions DEF Asked
<1>14. Good(msg, p)'
  <2>1. executions[c] = 0
    BY <1>3 DEF CallInv, NewUntouched
  <2>2. QED
    BY <1>1, <1>3, <1>6, <1>11, <1>12, <2>1 DEF Good, Asked
<1>15. MessagesGood'
  <2>1. \A x \in Message : \A q : Good(x, q) => Good(x, q)'
    BY <1>3, <1>13, MessageFields DEF Good
  <2>2. \A x \in running : x.call \in Calls
    BY <1>10 DEF Pool
  <2>3. QED
    BY <1>3, <1>8, <1>10, <1>13, <1>14, <2>1, <2>2 DEF CallInv, MessagesGood
<1>16. CallTypes'
  <2>1. [id |-> id, call |-> c] \in [id : Ids, call : Calls]
    BY <1>4
  <2>2. sessions' \in [Pairs -> SUBSET [id : Ids, call : Calls]]
    BY <1>3, <2>1 DEF CallInv, CallTypes
  <2>3. ASSUME NEW q \in Pairs, NEW s \in sessions'[q], NEW t \in sessions'[q], s.id = t.id
        PROVE  s = t
    <3>1. \A x \in sessions[p] : x.id # id
      BY <1>4 DEF Used
    <3>2. QED
      BY <1>11, <2>3, <3>1 DEF CallInv, CallTypes
  <2>4. last_id' \in [Pairs -> Ids]
    BY <1>3, <1>4 DEF CallInv, CallTypes
  <2>5. state' \in [Calls -> {"new", "called", "done", "failed", "gone"}]
    BY <1>3, CallParts
  <2>6. QED
    BY <1>3, <2>2, <2>3, <2>4, <2>5 DEF CallInv, CallTypes
<1>17. SessionsGood'
  <2>1. \A q \in Pairs : \A s \in sessions[q] : s.call \in Calls
    BY DEF CallInv, CallTypes
  <2>2. QED
    BY <1>1, <1>11, <1>12, <2>1 DEF CallInv, SessionsGood
<1>18. NewUntouched' /\ ExecutedOnce' /\ AnswersMatch'
  BY <1>3, <1>12 DEF CallInv, NewUntouched, ExecutedOnce, AnswersMatch
<1>19. QED
  BY <1>3, <1>8, <1>10, <1>15, <1>16, <1>17, <1>18 DEF CallInv

(* The call is refused: nothing is left of it.                             *)
LEMMA CallsRefused ==
  ASSUME CallInv, NEW p \in Pairs, NEW k \in 1 .. MaxConns, Receive(p, k),
         UNCHANGED <<running, executions, sessions, state, result>>
  PROVE  CallInv'
<1>1. PICK m \in Conns : m = <<p, k>>
  BY DEF Conns
<1>2. PICK msg : msg = Head(wire[m])
  OBVIOUS
<1>3. PICK l : l = wire'
  OBVIOUS
<1>4. wire[m] # <<>> /\ l = Beheaded(wire, m)
  BY <1>1, <1>3 DEF Receive, Beheaded
<1>5. /\ Pool(waiting, l, running) /\ Single(waiting, l, running)
      /\ \A q \in Pairs : \A x : Flies(waiting, l, q, x) => Flies(waiting, wire, q, x)
  BY <1>2, <1>4, CallParts, TakeHead
<1>6. UNCHANGED <<waiting, last_id, crashed>>
  BY DEF Receive, link
<1>7. /\ \A q \in Pairs, x \in Message : Flies(waiting, l, q, x) => Good(x, q)
      /\ \A x \in running : Asked(x.call, x.id)
  BY <1>5, OldGood
<1>8. QED
  BY <1>3, <1>5, <1>6, <1>7, CallParts, Quiet

(* The service begins a call: it had not begun it before.                  *)
LEMMA CallsOnCall ==
  ASSUME CallInv, NEW p \in Pairs, NEW k \in 1 .. MaxConns, Receive(p, k),
         NEW msg, msg = Head(wire[<<p, k>>]), msg.kind = "call",
         running' = running \cup {[id |-> msg.id, call |-> msg.call]},
         executions' = [executions EXCEPT ![msg.call] = @ + 1],
         UNCHANGED <<sessions, state, result>>
  PROVE  CallInv'
<1>1. PICK m \in Conns : m = <<p, k>>
  BY DEF Conns
<1>2. msg = Head(wire[m])
  BY <1>1
<1>3. PICK l : l = wire'
  OBVIOUS
<1>4. wire[m] # <<>> /\ l = Beheaded(wire, m)
  BY <1>1, <1>3 DEF Receive, Beheaded
<1>5. /\ Pool(waiting, l, running) /\ Single(waiting, l, running)
      /\ Nothing(waiting, l, running, msg.call) /\ msg \in Message
      /\ \A q \in Pairs : \A x : Flies(waiting, l, q, x) => Flies(waiting, wire, q, x)
      /\ Flies(waiting, wire, m[1], msg)
  BY <1>2, <1>4, CallParts, TakeHead
<1>6. PICK x : x = [id |-> msg.id, call |-> msg.call]
  OBVIOUS
<1>7. /\ running' = running \cup {x}
      /\ executions' = [executions EXCEPT ![msg.call] = @ + 1]
      /\ UNCHANGED <<waiting, sessions, last_id, state, result, crashed>>
  BY <1>6 DEF Receive, link
<1>8. /\ x \in [id : Ids, call : Calls] /\ x.call = msg.call /\ x.id = msg.id
      /\ msg.kind = "call" /\ msg.call \in Calls
  BY <1>1, <1>2, <1>5, <1>6, MessageFields
<1>9. Good(msg, m[1])
  BY <1>1, <1>5 DEF CallInv, MessagesGood
<1>10. executions[msg.call] = 0 /\ Asked(x.call, x.id) /\ state[msg.call] # "new"
  BY <1>8, <1>9 DEF Good, Asked
<1>11. PICK r : r = running'
  OBVIOUS
<1>12. Pool(waiting, l, r) /\ Single(waiting, l, r)
  <2>1. r = running \cup {x} /\ Nothing(waiting, l, running, x.call)
    BY <1>5, <1>7, <1>8, <1>11
  <2>2. QED
    BY <1>5, <1>8, <2>1, PutRunning
<1>13. /\ executions' \in [Calls -> Nat] /\ executions'[msg.call] = 1
       /\ \A c \in Calls : c # msg.call => executions'[c] = executions[c]
  BY <1>7, <1>8, <1>10 DEF CallInv, CallTypes
<1>14. \A c : \A id : Asked(c, id) => Asked(c, id)'
  BY <1>7 DEF Asked
<1>15. ASSUME NEW q \in Pairs, NEW y \in Message, Flies(waiting, l, q, y)
       PROVE  Good(y, q)'
  <2>1. y.call # msg.call
    BY <1>5, <1>15, NothingFlies
  <2>2. Good(y, q)
    BY <1>5, <1>15 DEF CallInv, MessagesGood
  <2>3. y.call \in Calls
    BY MessageFields
  <2>4. QED
    BY <1>13, <1>14, <2>1, <2>2, <2>3 DEF Good
<1>16. MessagesGood'
  <2>1. \A y \in running' : Asked(y.call, y.id)
    BY <1>7, <1>10 DEF CallInv, MessagesGood
  <2>2. \A y \in running' : Asked(y.call, y.id)'
    BY <1>14, <2>1
  <2>3. QED
    BY <1>3, <1>7, <1>15, <2>2 DEF MessagesGood
<1>17. CallTypes' /\ SessionsGood' /\ AnswersMatch'
  BY <1>7, <1>13 DEF CallInv, CallTypes, SessionsGood, AnswersMatch
<1>18. NewUntouched' /\ ExecutedOnce'
  BY <1>7, <1>10, <1>13 DEF CallInv, NewUntouched, ExecutedOnce
<1>19. QED
  BY <1>3, <1>7, <1>11, <1>12, <1>16, <1>17, <1>18 DEF CallInv

(* An answer ends the call it was made for, if the caller has not crashed. *)
LEMMA CallsOnResp ==
  ASSUME CallInv, NEW p \in Pairs, NEW k \in 1 .. MaxConns, Receive(p, k),
         Head(wire[<<p, k>>]).kind # "call"
  PROVE  CallInv'
<1>1. PICK m \in Conns : m = <<p, k>>
  BY DEF Conns
<1>2. PICK msg : msg = Head(wire[m])
  OBVIOUS
<1>3. PICK l : l = wire'
  OBVIOUS
<1>4. wire[m] # <<>> /\ l = Beheaded(wire, m)
  BY <1>1, <1>3 DEF Receive, Beheaded
<1>5. /\ Pool(waiting, l, running) /\ Single(waiting, l, running)
      /\ Nothing(waiting, l, running, msg.call) /\ msg \in Message
      /\ \A q \in Pairs : \A x : Flies(waiting, l, q, x) => Flies(waiting, wire, q, x)
      /\ Flies(waiting, wire, m[1], msg)
  BY <1>2, <1>4, CallParts, TakeHead
<1>6. PICK o : o = <<p[2], p[1]>>
  OBVIOUS
<1>7. /\ OnResp(o, msg)
      /\ UNCHANGED <<waiting, running, last_id, executions, crashed>>
  BY <1>1, <1>2, <1>6 DEF Receive, OnResp, link
<1>8. msg.kind # "call" /\ msg.call \in Calls
  BY <1>1, <1>2, <1>5, MessageFields
<1>9. p = Back(msg.call) /\ Asked(msg.call, msg.id)
  BY <1>1, <1>5, <1>8 DEF CallInv, MessagesGood, Good
<1>10. o = To(msg.call) /\ o \in Pairs
  BY <1>6, <1>8, <1>9, Directions
<1>11. /\ \A q \in Pairs, x \in Message : Flies(waiting, l, q, x) => Good(x, q)
       /\ \A x \in running : Asked(x.call, x.id)
  BY <1>5, OldGood
<1>12. CASE UNCHANGED <<sessions, state, result>>
  BY <1>3, <1>5, <1>7, <1>11, <1>12, CallParts, Quiet
<1>13. ASSUME NEW s \in sessions[o], s.id = msg.id,
              sessions' = [sessions EXCEPT ![o] = @ \ {s}],
              state' = [state EXCEPT ![s.call] = "done"],
              result' = [result EXCEPT ![s.call] = msg.call]
       PROVE  CallInv'
  <2>1. s \in [id : Ids, call : Calls] /\ s.call \in Calls
    BY <1>10 DEF CallInv, CallTypes
  <2>2. state[s.call] # "new"
    BY <1>10 DEF CallInv, SessionsGood
  <2>3. ASSUME Caller[msg.call] \notin crashed PROVE s.call = msg.call
    <3>1. PICK t : t = [id |-> msg.id, call |-> msg.call]
      OBVIOUS
    <3>2. t \in sessions[o] /\ t.id = msg.id /\ t.call = msg.call
      BY <1>9, <1>10, <2>3, <3>1 DEF Asked
    <3>3. s = t
      BY <1>10, <1>13, <3>2 DEF CallInv, CallTypes
    <3>4. QED
      BY <3>2, <3>3
  <2>4. Caller[s.call] = Caller[msg.call]
    <3>1. To(s.call) = o
      BY <1>10 DEF CallInv, SessionsGood
    <3>2. QED
      BY <1>8, <1>10, <2>1, <3>1, Directions
  <2>5. /\ \A q \in Pairs : sessions'[q] \subseteq sessions[q]
        /\ \A q \in Pairs : \A x \in sessions[q] : x # s => x \in sessions'[q]
    BY <1>13 DEF CallInv, CallTypes
  <2>6. \A c \in Calls : state'[c] = "new" <=> state[c] = "new"
    BY <1>13, <2>1, <2>2, CallParts
  <2>7. ASSUME NEW c \in Calls, NEW id, Asked(c, id), c # msg.call
        PROVE  Asked(c, id)'
    <3>1. ASSUME Caller[c] \notin crashed
          PROVE  [id |-> id, call |-> c] \in sessions'[To(c)]
      <4>1. PICK t : t = [id |-> id, call |-> c]
        OBVIOUS
      <4>2. t \in sessions[To(c)] /\ t.call = c
        BY <2>7, <3>1, <4>1 DEF Asked
      <4>3. t # s
        <5>1. ASSUME t = s PROVE FALSE
          <6>1. Caller[msg.call] = Caller[c]
            BY <2>4, <4>2, <5>1
          <6>2. c = msg.call
            BY <2>3, <3>1, <4>2, <5>1, <6>1
          <6>3. QED
            BY <2>7, <6>2
        <5>2. QED
          BY <5>1
      <4>4. QED
        BY <2>5, <4>1, <4>2, <4>3, Directions
    <3>2. QED
      BY <1>7, <2>6, <2>7, <3>1 DEF Asked
  <2>8. ASSUME NEW q \in Pairs, NEW y \in Message, Flies(waiting, l, q, y)
        PROVE  Good(y, q)'
    <3>1. y.call # msg.call /\ y.call \in Calls
      BY <1>5, <2>8, NothingFlies, MessageFields
    <3>2. Good(y, q)
      BY <1>11, <2>8
    <3>3. QED
      BY <1>7, <2>7, <3>1, <3>2 DEF Good
  <2>9. ASSUME NEW y \in running PROVE Asked(y.call, y.id)'
    <3>1. y.call \in Calls /\ y.call # msg.call
      BY <1>5 DEF Pool, Nothing
    <3>2. QED
      BY <1>11, <2>7, <3>1
  <2>10. MessagesGood'
    BY <1>3, <1>7, <2>8, <2>9 DEF MessagesGood
  <2>11. CallTypes'
    <3>1. sessions' \in [Pairs -> SUBSET [id : Ids, call : Calls]]
      BY <1>13 DEF CallInv, CallTypes
    <3>2. \A q \in Pairs : \A x, y \in sessions'[q] : x.id = y.id => x = y
      BY <2>5 DEF CallInv, CallTypes
    <3>3. state' \in [Calls -> {"new", "called", "done", "failed", "gone"}]
      BY <1>13, CallParts
    <3>4. result' \in [Calls -> Calls \cup {NoCall}]
      BY <1>8, <1>13 DEF CallInv, CallTypes
    <3>5. QED
      BY <1>7, <3>1, <3>2, <3>3, <3>4 DEF CallInv, CallTypes
  <2>12. SessionsGood'
    <3>1. \A q \in Pairs : \A x \in sessions[q] : x.call \in Calls
      BY DEF CallInv, CallTypes
    <3>2. QED
      BY <2>5, <2>6, <3>1 DEF CallInv, SessionsGood
  <2>13. AnswersMatch'
    <3>1. ASSUME NEW c \in Calls, Caller[c] \notin crashed
          PROVE  result'[c] \in {NoCall, c}
      <4>1. result[c] \in {NoCall, c}
        BY <3>1 DEF CallInv, AnswersMatch
      <4>2. CASE c = s.call
        <5>1. s.call = msg.call
          BY <2>3, <2>4, <3>1, <4>2
        <5>2. QED
          BY <1>13, <4>2, <5>1 DEF CallInv, CallTypes
      <4>3. CASE c # s.call
        BY <1>13, <4>1, <4>3 DEF CallInv, CallTypes
      <4>4. QED
        BY <4>2, <4>3
    <3>2. QED
      BY <1>7, <3>1 DEF AnswersMatch
  <2>14. NewUntouched' /\ ExecutedOnce'
    BY <1>7, <2>6 DEF CallInv, NewUntouched, ExecutedOnce
  <2>15. QED
    BY <1>3, <1>5, <1>7, <2>10, <2>11, <2>12, <2>13, <2>14 DEF CallInv
<1>14. QED
  BY <1>7, <1>12, <1>13 DEF OnResp
-----------------------------------------------------------------------------
LEMMA InitOk == Init => IInv
<1>1. SUFFICES ASSUME Init PROVE IInv
  OBVIOUS
<1>2. /\ sock = [p \in Pairs |-> 0] /\ opened = [p \in Pairs |-> 0] /\ connecting = {}
      /\ waiting = [p \in Pairs |-> {}] /\ live = {} /\ wire = [c \in Conns |-> <<>>]
      /\ faults = 0 /\ sessions = [p \in Pairs |-> {}] /\ last_id = [p \in Pairs |-> 1]
      /\ running = {} /\ state = [c \in Calls |-> "new"] /\ result = [c \in Calls |-> NoCall]
      /\ executions = [c \in Calls |-> 0] /\ crashed = {} /\ lost = {}
  BY <1>1 DEF Init
<1>3. 1 \in Ids /\ 0 \in 0 .. MaxConns /\ 0 \in 0 .. MaxFaults
  BY ClusterRpcAssumption DEF Ids
<1>4. LinkInv
  BY <1>2, <1>3 DEF LinkInv, ConnectInv, OneConnection
<1>5. CallTypes
  BY <1>2, <1>3 DEF CallTypes
<1>6. Pool(waiting, wire, running)
  <2>1. PICK e \in Seq(Message) : e = <<>>
    BY NoMessages
  <2>2. wire = [c \in Conns |-> e]
    BY <1>2, <2>1
  <2>3. wire \in [Conns -> Seq(Message)]
    BY <2>2
  <2>4. QED
    BY <1>2, <2>3 DEF Pool
<1>7. \A c \in Conns : DOMAIN wire[c] = {}
  <2>1. DOMAIN <<>> = {}
    OBVIOUS
  <2>2. QED
    BY <1>2, <2>1
<1>8. Single(waiting, wire, running)
  BY <1>2, <1>7 DEF Single
<1>9. MessagesGood
  <2>1. \A p \in Pairs, k \in 1 .. MaxConns : <<p, k>> \in Conns
    BY DEF Conns
  <2>2. \A p \in Pairs, msg \in Message : ~Flies(waiting, wire, p, msg)
    BY <1>2, <1>7, <2>1 DEF Flies
  <2>3. QED
    BY <1>2, <2>2 DEF MessagesGood
<1>10. SessionsGood /\ NewUntouched /\ ExecutedOnce /\ AnswersMatch
  BY <1>2 DEF SessionsGood, NewUntouched, ExecutedOnce, AnswersMatch
<1>11. QED
  BY <1>2, <1>4, <1>5, <1>6, <1>8, <1>9, <1>10, Parts DEF CallInv, LostInv

LEMMA CallsStep ==
  ASSUME LinkInv, CallInv, [Next]_vars
  PROVE  CallInv'
<1>1. CASE UNCHANGED vars
  BY <1>1, CallsStutter DEF vars, link, net
<1>2. ASSUME NEW c \in Calls, Call(c) PROVE CallInv'
  BY <1>2, CallsCall
<1>3. ASSUME NEW p \in Pairs, Connect(p) PROVE CallInv'
  BY <1>3, CallsStutter DEF Connect, net
<1>4. ASSUME NEW p \in Pairs, Connected(p) PROVE CallInv'
  BY <1>4, CallsConnected
<1>5. ASSUME NEW p \in Pairs, ConnectFails(p) PROVE CallInv'
  BY <1>5, CallsConnectFails
<1>6. ASSUME NEW p \in Pairs, SendWaiting(p) PROVE CallInv'
  BY <1>6, CallsSendWaiting
<1>7. ASSUME NEW p \in Pairs, OnClose(p) PROVE CallInv'
  BY <1>7, CallsOnClose
<1>8. ASSUME NEW p \in Pairs, NEW k \in 1 .. MaxConns, Receive(p, k) PROVE CallInv'
  <2>1. CASE Head(wire[<<p, k>>]).kind = "call"
    <3>1. PICK msg : msg = Head(wire[<<p, k>>])
      OBVIOUS
    <3>2. OnCall(msg)
      BY <1>8, <2>1, <3>1 DEF Receive
    <3>3. CASE UNCHANGED <<running, executions>>
      BY <1>8, <3>2, <3>3, CallsRefused DEF OnCall
    <3>4. CASE /\ running' = running \cup {[id |-> msg.id, call |-> msg.call]}
               /\ executions' = [executions EXCEPT ![msg.call] = @ + 1]
      BY <1>8, <2>1, <3>1, <3>2, <3>4, CallsOnCall DEF OnCall
    <3>5. QED
      BY <3>2, <3>3, <3>4 DEF OnCall
  <2>2. CASE Head(wire[<<p, k>>]).kind # "call"
    BY <1>8, <2>2, CallsOnResp
  <2>3. QED
    BY <2>1, <2>2
<1>9. ASSUME NEW p \in Pairs, NEW k \in 1 .. MaxConns, Break(p, k) PROVE CallInv'
  BY <1>9, CallsBreak
<1>10. ASSUME NEW r \in running, Answer(r) PROVE CallInv'
  BY <1>10, CallsAnswer
<1>11. ASSUME NEW n \in Nodes, Restart(n) PROVE CallInv'
  BY <1>11, CallsRestart
<1>12. QED
  BY <1>1, <1>2, <1>3, <1>4, <1>5, <1>6, <1>7, <1>8, <1>9, <1>10, <1>11 DEF Next

LEMMA CallsOf ==
  ASSUME NEW S, S \subseteq Message \cup [id : Ids, call : Calls]
  PROVE  CallsIn(S) \subseteq Calls
BY DEF CallsIn, Message

LEMMA SendLoses ==
  ASSUME NEW p, NEW msg, msg.call \in Calls, Send(p, msg), LostInv
  PROVE  LostInv'
BY DEF Send, Transmit, LostInv

(* What is lost was a call.                                                *)
LEMMA LostStep ==
  ASSUME CallInv, LostInv, [Next]_vars
  PROVE  LostInv'
<1>0. /\ \A p \in Pairs : waiting[p] \subseteq Message
      /\ \A k \in Conns : wire[k] \in Seq(Message)
      /\ \A k \in Conns : ToSet(wire[k]) \subseteq Message
      /\ running \subseteq [id : Ids, call : Calls]
      /\ \A msg \in Message : msg.call \in Calls
      /\ \A p \in Pairs, k \in 1 .. MaxConns : <<p, k>> \in Conns
  <2>1. \A k \in Conns : wire[k] \in Seq(Message)
    BY CallParts
  <2>2. \A k \in Conns : ToSet(wire[k]) \subseteq Message
    BY <2>1 DEF ToSet
  <2>3. QED
    BY <2>1, <2>2, CallParts, MessageFields DEF Pool, Conns
<1>1. CASE UNCHANGED lost
  BY <1>1 DEF LostInv
<1>2. ASSUME NEW c \in Calls, Call(c) PROVE LostInv'
  <2>1. PICK msg : msg.call = c /\ Send(To(c), msg)
    <3>1. PICK id : id = NewId(To(c))
      OBVIOUS
    <3>2. PICK x : x = [kind |-> "call", call |-> c, id |-> id]
      OBVIOUS
    <3>3. x.call = c /\ Send(To(c), x)
      BY <1>2, <3>1, <3>2 DEF Call
    <3>4. QED
      BY <3>3
  <2>2. QED
    BY <2>1, SendLoses
<1>3. ASSUME NEW p \in Pairs, ConnectFails(p) PROVE LostInv'
  BY <1>0, <1>3 DEF ConnectFails, LostInv
<1>4. ASSUME NEW p \in Pairs, SendWaiting(p) PROVE LostInv'
  BY <1>0, <1>4 DEF SendWaiting, Transmit, LostInv
<1>5. ASSUME NEW p \in Pairs, NEW k \in 1 .. MaxConns, Receive(p, k) PROVE LostInv'
  <2>1. wire[<<p, k>>] \in Seq(Message) /\ wire[<<p, k>>] # <<>>
    BY <1>0, <1>5 DEF Receive
  <2>2. Head(wire[<<p, k>>]).call \in Calls
    BY <1>0, <2>1
  <2>3. QED
    BY <1>5, <2>2 DEF Receive, OnCall, OnResp, LostInv
<1>6. ASSUME NEW r \in running, Answer(r) PROVE LostInv'
  <2>1. PICK msg : msg.call = r.call /\ Send(Back(r.call), msg)
    <3>1. PICK kind \in {"resp", "err"} : Send(Back(r.call), [kind |-> kind, call |-> r.call, id |-> r.id])
      BY <1>6 DEF Answer
    <3>2. PICK x : x = [kind |-> kind, call |-> r.call, id |-> r.id]
      OBVIOUS
    <3>3. x.call = r.call /\ Send(Back(r.call), x)
      BY <3>1, <3>2
    <3>4. QED
      BY <3>3
  <2>2. r.call \in Calls
    BY <1>0
  <2>3. QED
    BY <2>1, <2>2, SendLoses
<1>7. ASSUME NEW p \in Pairs, NEW k \in 1 .. MaxConns, Break(p, k) PROVE LostInv'
  <2>1. CallsIn(ToSet(wire[<<p, k>>])) \subseteq Calls
    BY <1>0, CallsOf
  <2>2. QED
    BY <1>7, <2>1 DEF Break, LostInv
<1>8. ASSUME NEW n \in Nodes, Restart(n) PROVE LostInv'
  <2>1. PICK mine : mine = {p \in Pairs : p[1] = n}
    OBVIOUS
  <2>2. PICK toMe : toMe = {c \in Conns : c[1][2] = n}
    OBVIOUS
  <2>3. CallsIn(UNION {waiting[p] : p \in mine}) \subseteq Calls
    <3>1. UNION {waiting[p] : p \in mine} \subseteq Message
      BY <1>0, <2>1
    <3>2. QED
      BY <3>1, CallsOf
  <2>4. CallsIn(UNION {ToSet(wire[c]) : c \in toMe}) \subseteq Calls
    <3>1. UNION {ToSet(wire[c]) : c \in toMe} \subseteq Message
      BY <1>0, <2>2
    <3>2. QED
      BY <3>1, CallsOf
  <2>5. CallsIn({r \in running : Callee[r.call] = n}) \subseteq Calls
    BY <1>0, CallsOf
  <2>6. lost' = lost \cup CallsIn(UNION {waiting[p] : p \in mine})
                     \cup CallsIn(UNION {ToSet(wire[c]) : c \in toMe})
                     \cup CallsIn({r \in running : Callee[r.call] = n})
    BY <1>8, <2>1, <2>2 DEF Restart
  <2>7. QED
    BY <2>3, <2>4, <2>5, <2>6 DEF LostInv
<1>9. ASSUME NEW p \in Pairs, Connect(p) \/ Connected(p) \/ OnClose(p) PROVE LostInv'
  BY <1>1, <1>9 DEF Connect, Connected, OnClose, net
<1>10. QED
  BY <1>1, <1>2, <1>3, <1>4, <1>5, <1>6, <1>7, <1>8, <1>9 DEF Next, vars, net

LEMMA Invariant == Spec => []IInv
<1>1. Init => IInv
  BY InitOk
<1>2. IInv /\ [Next]_vars => IInv'
  <2>1. SUFFICES ASSUME IInv, [Next]_vars PROVE IInv'
    OBVIOUS
  <2>2. LinkInv /\ CallInv /\ LostInv
    BY <2>1, Parts
  <2>3. LinkInv' /\ CallInv' /\ LostInv'
    BY <2>1, <2>2, LinkStep, CallsStep, LostStep
  <2>4. IInv' <=> LinkInv' /\ CallInv' /\ LostInv'
    BY Parts, PTL
  <2>5. QED
    BY <2>3, <2>4
<1>3. QED
  BY <1>1, <1>2, PTL DEF Spec

(* The variables of the two ends keep their types: session ids stay below  *)
(* SessionLimit and of the outstanding calls to one node no two have one   *)
(* id (NodeCls.new_session), whatever the limit.                           *)
THEOREM TypeCorrect == Spec => []TypeOK
<1>1. IInv => TypeOK
  BY DEF IInv
<1>2. QED
  BY Invariant, <1>1, PTL

(* However often connections break and nodes crash, a service never        *)
(* executes a call twice: on_close sends nothing again, and of every call  *)
(* there is one message (Single).                                          *)
THEOREM ExecutedAtMostOnce == Spec => []ExecutedOnce
<1>1. IInv => ExecutedOnce
  BY DEF IInv
<1>2. QED
  BY Invariant, <1>1, PTL

(* A node that has not crashed sends over every connection it opened that  *)
(* still works: the second check of sock_id under the lock (__connect).    *)
THEOREM ConnectionUnique == Spec => []OneConnection
<1>1. IInv => OneConnection
  BY DEF IInv
<1>2. QED
  BY Invariant, <1>1, PTL

(* An answer ends the call it was made for, for every number of ids and    *)
(* also when they have come round (on_call_result looks up the id only).   *)
THEOREM AnswersMatched == Spec => []AnswersMatch
<1>1. IInv => AnswersMatch
  BY DEF IInv
<1>2. QED
  BY Invariant, <1>1, PTL
=============================================================================
