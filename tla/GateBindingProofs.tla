-------------------------- MODULE GateBindingProofs --------------------------
(***************************************************************************)
(* The inductive invariant of GateBinding.  Its core describes the "bind"  *)
(* commands under way: carried out in order, they lead the C table to the  *)
(* Lua table (FlightSettles) and never bind a user that another connection *)
(* still has at that moment (FlightExclusive).                             *)
(***************************************************************************)
EXTENDS GateBinding, FiniteSetTheorems, SequenceTheorems, TLAPS

Bindings == [uuid : [Socks -> Users \cup {NoUser}], mapper : [Users -> Socks \cup {NoSock}],
             count : Int, ctrl : Seq(Bind)]

(* A command about s waits at one of the positions lo .. hi.               *)
Concerns(c, s, lo, hi) == \E i \in DOMAIN c : lo <= i /\ i <= hi /\ c[i].sock = s

(* The last command about a connection gives it what Lua has; without one  *)
(* the C side has it already.                                              *)
FlightSettles(g) ==
  /\ \A i \in DOMAIN g.ctrl :
       g.ctrl[i].user = g.uuid[g.ctrl[i].sock] \/ Concerns(g.ctrl, g.ctrl[i].sock, i + 1, Len(g.ctrl))
  /\ \A s \in hash : user_id[s] = g.uuid[s] \/ Concerns(g.ctrl, s, 1, Len(g.ctrl))

(* Before a user is bound, whoever else has it or is to get it loses it.   *)
FlightExclusive(g) ==
  \A j \in DOMAIN g.ctrl : g.ctrl[j].user # NoUser =>
    /\ \A s \in Socks : (s # g.ctrl[j].sock /\ user_id[s] = g.ctrl[j].user) =>
         Concerns(g.ctrl, s, 1, j - 1)
    /\ \A i \in DOMAIN g.ctrl :
         (i < j /\ g.ctrl[i].sock # g.ctrl[j].sock /\ g.ctrl[i].user = g.ctrl[j].user) =>
           Concerns(g.ctrl, g.ctrl[i].sock, i + 1, j - 1)

TablesInverse(g) ==
  /\ \A s \in Socks : \A u \in Users : g.mapper[u] = s <=> g.uuid[s] = u
  /\ \A s \in Socks : s \notin socks => g.uuid[s] = NoUser

Counted(g) == g.count = Cardinality({u \in Users : g.mapper[u] # NoSock})

BindingInv(g) ==
  /\ g \in Bindings
  /\ TablesInverse(g)
  /\ Counted(g)
  /\ FlightSettles(g)
  /\ FlightExclusive(g)

(* Nobody is bound while closed; an accept not handled yet is the only one *)
(* of its id, which Lua does not know.                                     *)
ClosedInv == \A s \in Socks : s \notin hash => user_id[s] = NoUser

AcceptInv ==
  \A i \in DOMAIN report : report[i].kind = "accept" =>
    /\ report[i].sock \notin socks
    /\ \A j \in DOMAIN report :
         (report[j].kind = "accept" /\ report[j].sock = report[i].sock) => j = i

IInv == TypeOK /\ BindingInv(Binding) /\ IndexExact /\ ClosedInv /\ AcceptInv
-----------------------------------------------------------------------------

(* Sending a command is right if nobody else has the user in Lua.          *)
LEMMA Sent ==
  ASSUME TypeOK, ClosedInv,
         NEW g \in Bindings, FlightSettles(g), FlightExclusive(g),
         NEW s \in Socks, NEW v \in Users \cup {NoUser},
         v # NoUser => \A r \in Socks : r # s => g.uuid[r] # v,
         NEW h \in Bindings,
         h.uuid = [g.uuid EXCEPT ![s] = v],
         h.ctrl = Send(g, s, v)
  PROVE  FlightSettles(h) /\ FlightExclusive(h)
<1> DEFINE n == Len(g.ctrl)
           cmd == [sock |-> s, user |-> v]
<1>0. /\ g.ctrl \in Seq(Bind) /\ n \in Nat /\ DOMAIN g.ctrl = 1 .. n
      /\ g.uuid \in [Socks -> Users \cup {NoUser}] /\ cmd \in Bind
  BY DEF Bindings, Bind
<1>1. /\ Len(h.ctrl) = n + 1
      /\ DOMAIN h.ctrl = 1 .. n + 1
      /\ h.ctrl[n + 1] = cmd
      /\ \A i \in 1 .. n : h.ctrl[i] = g.ctrl[i] /\ g.ctrl[i].sock \in Socks
  <2>1. h.ctrl = Append(g.ctrl, cmd)
    BY DEF Send
  <2>2. \A i \in 1 .. n : g.ctrl[i] \in Bind
    BY <1>0, ElementOfSeq
  <2>3. \A i \in 1 .. n : g.ctrl[i].sock \in Socks
    BY <2>2 DEF Bind
  <2>4. /\ Len(Append(g.ctrl, cmd)) = n + 1
        /\ \A i \in 1 .. n : Append(g.ctrl, cmd)[i] = g.ctrl[i]
        /\ Append(g.ctrl, cmd)[n + 1] = cmd
        /\ DOMAIN Append(g.ctrl, cmd) = 1 .. n + 1
    BY <1>0
  <2>5. QED
    BY <2>1, <2>3, <2>4
<1>2. \A r \in Socks : h.uuid[r] = IF r = s THEN v ELSE g.uuid[r]
  BY <1>0
<1>3. \A r \in Socks : \A lo, hi \in Nat : hi <= n =>
        (Concerns(h.ctrl, r, lo, hi) <=> Concerns(g.ctrl, r, lo, hi))
  BY <1>0, <1>1 DEF Concerns
<1>4. \A lo \in Nat : lo <= n + 1 => Concerns(h.ctrl, s, lo, n + 1)
  BY <1>0, <1>1 DEF Concerns
<1>5. \A r \in Socks : \A lo \in Nat : Concerns(g.ctrl, r, lo, n) => Concerns(h.ctrl, r, lo, n + 1)
  BY <1>0, <1>1 DEF Concerns
<1>6. FlightSettles(h)
  <2>1. ASSUME NEW i \in DOMAIN h.ctrl
        PROVE  \/ h.ctrl[i].user = h.uuid[h.ctrl[i].sock]
               \/ Concerns(h.ctrl, h.ctrl[i].sock, i + 1, Len(h.ctrl))
    <3>1. CASE i = n + 1
      BY <1>1, <1>2, <3>1
    <3>2. CASE i \in 1 .. n /\ g.ctrl[i].sock = s
      BY <1>0, <1>1, <1>4, <3>2
    <3>3. CASE i \in 1 .. n /\ g.ctrl[i].sock # s
      <4>1. h.ctrl[i] = g.ctrl[i] /\ g.ctrl[i].sock \in Socks
        BY <1>1, <3>3
      <4>2. \/ g.ctrl[i].user = g.uuid[g.ctrl[i].sock]
            \/ Concerns(g.ctrl, g.ctrl[i].sock, i + 1, n)
        BY <1>0, <3>3 DEF FlightSettles
      <4>3. QED
        BY <1>0, <1>1, <1>2, <1>5, <3>3, <4>1, <4>2
    <3>4. QED
      BY <1>0, <1>1, <3>1, <3>2, <3>3
  <2>2. ASSUME NEW r \in hash
        PROVE  user_id[r] = h.uuid[r] \/ Concerns(h.ctrl, r, 1, Len(h.ctrl))
    <3>1. r \in Socks
      BY DEF TypeOK
    <3>2. CASE r = s
      BY <1>0, <1>1, <1>4, <3>2
    <3>3. CASE r # s
      BY <1>0, <1>1, <1>2, <1>5, <3>1, <3>3 DEF FlightSettles
    <3>4. QED
      BY <3>2, <3>3
  <2>3. QED
    BY <2>1, <2>2 DEF FlightSettles
<1>7. FlightExclusive(h)
  <2> SUFFICES ASSUME NEW j \in DOMAIN h.ctrl, h.ctrl[j].user # NoUser
               PROVE  /\ \A r \in Socks : (r # h.ctrl[j].sock /\ user_id[r] = h.ctrl[j].user) =>
                           Concerns(h.ctrl, r, 1, j - 1)
                      /\ \A i \in DOMAIN h.ctrl :
                           (i < j /\ h.ctrl[i].sock # h.ctrl[j].sock /\ h.ctrl[i].user = h.ctrl[j].user)
                             => Concerns(h.ctrl, h.ctrl[i].sock, i + 1, j - 1)
    BY DEF FlightExclusive
  <2>1. CASE j \in 1 .. n
    <3>1. h.ctrl[j] = g.ctrl[j] /\ j \in DOMAIN g.ctrl /\ j - 1 \in Nat /\ j - 1 <= n
      BY <1>0, <1>1, <2>1
    <3>2. ASSUME NEW r \in Socks, r # h.ctrl[j].sock, user_id[r] = h.ctrl[j].user
          PROVE  Concerns(h.ctrl, r, 1, j - 1)
      BY <1>3, <3>1, <3>2 DEF FlightExclusive
    <3>3. ASSUME NEW i \in DOMAIN h.ctrl,
                 i < j, h.ctrl[i].sock # h.ctrl[j].sock, h.ctrl[i].user = h.ctrl[j].user
          PROVE  Concerns(h.ctrl, h.ctrl[i].sock, i + 1, j - 1)
      <4>1. i \in 1 .. n /\ h.ctrl[i] = g.ctrl[i] /\ i + 1 \in Nat /\ g.ctrl[i].sock \in Socks
        BY <1>0, <1>1, <2>1, <3>3
      <4>2. Concerns(g.ctrl, g.ctrl[i].sock, i + 1, j - 1)
        BY <1>0, <3>1, <3>3, <4>1 DEF FlightExclusive
      <4>3. QED
        BY <1>3, <3>1, <4>1, <4>2
    <3>4. QED
      BY <3>2, <3>3
  <2>2. CASE j = n + 1
    <3>0. h.ctrl[j].sock = s /\ h.ctrl[j].user = v /\ v # NoUser /\ j - 1 = n
      BY <1>0, <1>1, <2>2
    <3>1. ASSUME NEW r \in Socks, r # s, user_id[r] = v
          PROVE  Concerns(h.ctrl, r, 1, n)
      <4>1. r \in hash
        BY <3>0, <3>1 DEF ClosedInv
      <4>2. g.uuid[r] # v
        BY <3>0, <3>1
      <4>3. Concerns(g.ctrl, r, 1, n)
        BY <3>1, <4>1, <4>2 DEF FlightSettles
      <4>4. QED
        BY <1>0, <1>3, <3>1, <4>3
    <3>2. ASSUME NEW i \in DOMAIN h.ctrl, i < j, h.ctrl[i].sock # s, h.ctrl[i].user = v
          PROVE  Concerns(h.ctrl, h.ctrl[i].sock, i + 1, n)
      <4>1. i \in 1 .. n /\ h.ctrl[i] = g.ctrl[i] /\ i + 1 \in Nat /\ g.ctrl[i].sock \in Socks
        BY <1>0, <1>1, <2>2, <3>2
      <4>2. g.uuid[g.ctrl[i].sock] # v
        BY <3>0, <3>2, <4>1
      <4>3. Concerns(g.ctrl, g.ctrl[i].sock, i + 1, n)
        BY <1>0, <3>2, <4>1, <4>2 DEF FlightSettles
      <4>4. QED
        BY <1>0, <1>3, <4>1, <4>3
    <3>3. QED
      BY <3>0, <3>1, <3>2
  <2>3. QED
    BY <1>0, <1>1, <2>1, <2>2
<1>8. QED
  BY <1>6, <1>7

(* The number of bound roles when one is unbound, and when one is bound.   *)
LEMMA CountDown ==
  ASSUME NEW m \in [Users -> Socks \cup {NoSock}], NEW u \in Users, m[u] # NoSock
  PROVE  Cardinality({v \in Users : [m EXCEPT ![u] = NoSock][v] # NoSock})
           = Cardinality({v \in Users : m[v] # NoSock}) - 1
<1> DEFINE S == {v \in Users : m[v] # NoSock}
<1>1. IsFiniteSet(S)
  BY GateAssumption, FS_Subset
<1>2. {v \in Users : [m EXCEPT ![u] = NoSock][v] # NoSock} = S \ {u}
  OBVIOUS
<1>3. u \in S
  OBVIOUS
<1>4. QED
  BY <1>1, <1>2, <1>3, FS_RemoveElement

LEMMA CountUp ==
  ASSUME NEW m \in [Users -> Socks \cup {NoSock}], NEW u \in Users, NEW s \in Socks, m[u] = NoSock
  PROVE  Cardinality({v \in Users : [m EXCEPT ![u] = s][v] # NoSock})
           = Cardinality({v \in Users : m[v] # NoSock}) + 1
<1> DEFINE S == {v \in Users : m[v] # NoSock}
<1>1. IsFiniteSet(S)
  BY GateAssumption, FS_Subset
<1>2. {v \in Users : [m EXCEPT ![u] = s][v] # NoSock} = S \cup {u}
  BY GateAssumption
<1>3. u \notin S
  OBVIOUS
<1>4. QED
  BY <1>1, <1>2, <1>3, FS_AddElement

LEMMA SendType ==
  ASSUME NEW g \in Bindings, NEW s \in Socks, NEW v \in Users \cup {NoUser}
  PROVE  Send(g, s, v) \in Seq(Bind)
<1>1. g.ctrl \in Seq(Bind) /\ [sock |-> s, user |-> v] \in Bind
  BY DEF Bindings, Bind
<1>2. QED
  BY <1>1 DEF Send

(* unbind_sock and unbind_role do the same to a bound pair.                *)
LEMMA Unbound ==
  ASSUME TypeOK, ClosedInv, NEW g, BindingInv(g),
         NEW s \in Socks, NEW u \in Users, g.uuid[s] = u,
         NEW h, h = [uuid |-> [g.uuid EXCEPT ![s] = NoUser],
                     mapper |-> [g.mapper EXCEPT ![u] = NoSock],
                     count |-> g.count - 1,
                     ctrl |-> Send(g, s, NoUser)]
  PROVE  BindingInv(h)
<1>0. /\ g \in Bindings
      /\ g.uuid \in [Socks -> Users \cup {NoUser}]
      /\ g.mapper \in [Users -> Socks \cup {NoSock}]
      /\ g.count \in Int
      /\ g.mapper[u] = s
      /\ u # NoUser /\ s # NoSock
  BY GateAssumption DEF BindingInv, Bindings, TablesInverse
<1>1. h \in Bindings
  BY <1>0, SendType DEF Bindings
<1>2. TablesInverse(h)
  BY <1>0, GateAssumption DEF BindingInv, TablesInverse
<1>3. Counted(h)
  BY <1>0, CountDown DEF BindingInv, Counted
<1>4. FlightSettles(h) /\ FlightExclusive(h)
  BY <1>0, <1>1, Sent DEF BindingInv
<1>5. QED
  BY <1>1, <1>2, <1>3, <1>4 DEF BindingInv

LEMMA UnbindSockInv ==
  ASSUME TypeOK, ClosedInv, NEW g, BindingInv(g), NEW s \in Socks
  PROVE  /\ BindingInv(UnbindSock(g, s))
         /\ UnbindSock(g, s).uuid[s] = NoUser
<1>0. g.uuid \in [Socks -> Users \cup {NoUser}]
  BY DEF BindingInv, Bindings
<1>1. CASE s \in socks /\ g.uuid[s] # NoUser
  <2>1. g.uuid[s] \in Users
    BY <1>0, <1>1
  <2>2. UnbindSock(g, s) = [uuid |-> [g.uuid EXCEPT ![s] = NoUser],
                            mapper |-> [g.mapper EXCEPT ![g.uuid[s]] = NoSock],
                            count |-> g.count - 1,
                            ctrl |-> Send(g, s, NoUser)]
    BY <1>1 DEF UnbindSock
  <2>3. BindingInv(UnbindSock(g, s))
    BY <2>1, <2>2, Unbound
  <2>4. UnbindSock(g, s).uuid[s] = NoUser
    BY <1>0, <2>2
  <2>5. QED
    BY <2>3, <2>4
<1>2. CASE ~(s \in socks /\ g.uuid[s] # NoUser)
  BY <1>2 DEF UnbindSock, BindingInv, TablesInverse
<1>3. QED
  BY <1>1, <1>2

LEMMA UnbindRoleInv ==
  ASSUME TypeOK, ClosedInv, NEW g, BindingInv(g), NEW u \in Users
  PROVE  /\ BindingInv(UnbindRole(g, u))
         /\ UnbindRole(g, u).mapper[u] = NoSock
         /\ \A s \in Socks : g.uuid[s] = NoUser => UnbindRole(g, u).uuid[s] = NoUser
<1>0. /\ g.uuid \in [Socks -> Users \cup {NoUser}]
      /\ g.mapper \in [Users -> Socks \cup {NoSock}]
  BY DEF BindingInv, Bindings
<1>1. CASE g.mapper[u] # NoSock
  <2> DEFINE s == g.mapper[u]
  <2>1. s \in Socks /\ g.uuid[s] = u
    BY <1>0, <1>1 DEF BindingInv, TablesInverse
  <2>2. s \in socks
    BY <2>1, GateAssumption DEF BindingInv, TablesInverse
  <2>3. UnbindRole(g, u) = [uuid |-> [g.uuid EXCEPT ![s] = NoUser],
                            mapper |-> [g.mapper EXCEPT ![u] = NoSock],
                            count |-> g.count - 1,
                            ctrl |-> Send(g, s, NoUser)]
    BY <1>1, <2>2 DEF UnbindRole
  <2>4. BindingInv(UnbindRole(g, u))
    BY <2>1, <2>3, Unbound
  <2>5. QED
    BY <1>0, <2>1, <2>3, <2>4
<1>2. CASE g.mapper[u] = NoSock
  BY <1>2 DEF UnbindRole
<1>3. QED
  BY <1>1, <1>2

LEMMA SetRoleInv ==
  ASSUME TypeOK, ClosedInv, NEW g, BindingInv(g), NEW s \in Socks, NEW u \in Users,
         g.uuid[s] = NoUser, g.mapper[u] = NoSock
  PROVE  BindingInv(SetRole(g, s, u))
<1>1. CASE s \in socks
  <2> DEFINE h == [uuid |-> [g.uuid EXCEPT ![s] = u],
                   mapper |-> [g.mapper EXCEPT ![u] = s],
                   count |-> g.count + 1,
                   ctrl |-> Send(g, s, u)]
  <2>0. /\ g \in Bindings
        /\ g.uuid \in [Socks -> Users \cup {NoUser}]
        /\ g.mapper \in [Users -> Socks \cup {NoSock}]
        /\ g.count \in Int
        /\ u # NoUser /\ s # NoSock
        /\ SetRole(g, s, u) = h
    BY <1>1, GateAssumption DEF BindingInv, Bindings, SetRole
  <2>1. h \in Bindings
    BY <2>0, SendType DEF Bindings
  <2>2. TablesInverse(h)
    BY <1>1, <2>0, GateAssumption DEF BindingInv, TablesInverse
  <2>3. Counted(h)
    BY <2>0, CountUp DEF BindingInv, Counted
  <2>4. \A r \in Socks : r # s => g.uuid[r] # u
    BY <2>0, GateAssumption DEF BindingInv, TablesInverse
  <2>5. FlightSettles(h) /\ FlightExclusive(h)
    BY <2>0, <2>1, <2>4, Sent DEF BindingInv
  <2>6. QED
    BY <2>0, <2>1, <2>2, <2>3, <2>5 DEF BindingInv
<1>2. CASE s \notin socks
  BY <1>2 DEF SetRole
<1>3. QED
  BY <1>1, <1>2

LEMMA CountNat ==
  ASSUME NEW m \in [Users -> Socks \cup {NoSock}]
  PROVE  Cardinality({v \in Users : m[v] # NoSock}) \in Nat
<1>1. IsFiniteSet({v \in Users : m[v] # NoSock})
  BY GateAssumption, FS_Subset
<1>2. QED
  BY <1>1, FS_CardinalityType

LEMMA InitIInv == Init => IInv
<1> SUFFICES ASSUME Init PROVE IInv
  OBVIOUS
<1>1. TypeOK
  BY DEF Init, TypeOK
<1>2. Binding \in Bindings
  BY DEF Init, Binding, Bindings
<1>3. TablesInverse(Binding)
  BY GateAssumption DEF Init, Binding, TablesInverse
<1>4. Counted(Binding)
  <2>1. {u \in Users : Binding.mapper[u] # NoSock} = {}
    BY DEF Init, Binding
  <2>2. QED
    BY <2>1, FS_EmptySet DEF Init, Binding, Counted
<1>5. FlightSettles(Binding) /\ FlightExclusive(Binding)
  BY DEF Init, Binding, FlightSettles, FlightExclusive
<1>6. IndexExact /\ ClosedInv /\ AcceptInv
  BY GateAssumption DEF Init, IndexExact, ClosedInv, AcceptInv
<1>7. QED
  BY <1>1, <1>2, <1>3, <1>4, <1>5, <1>6 DEF IInv, BindingInv

(* A request of the agent changes nothing but the binding.                 *)
LEMMA BecomeInv ==
  ASSUME TypeOK, NEW g, BindingInv(g), Become(g), UNCHANGED <<hash, user_id>>,
         \A s \in Socks : s \notin socks' => g.uuid[s] = NoUser
  PROVE  /\ BindingInv(Binding)'
         /\ uuid' \in [Socks -> Users \cup {NoUser}]
         /\ role_sock_mapper' \in [Users -> Socks \cup {NoSock}]
         /\ role_count' \in Nat
         /\ ctrl' \in Seq(Bind)
<1>1. /\ g = [uuid |-> g.uuid, mapper |-> g.mapper, count |-> g.count, ctrl |-> g.ctrl]
      /\ g.uuid \in [Socks -> Users \cup {NoUser}]
      /\ g.mapper \in [Users -> Socks \cup {NoSock}]
      /\ g.ctrl \in Seq(Bind)
  BY DEF BindingInv, Bindings
<1>2. Binding' = g
  BY <1>1 DEF Binding, Become
<1>3. g.count \in Nat
  BY <1>1, CountNat DEF BindingInv, Counted
<1>4. (Binding \in Bindings)' /\ Counted(Binding)'
  BY <1>2 DEF BindingInv, Bindings, Counted, Bind
<1>5. TablesInverse(Binding)'
  BY <1>2 DEF BindingInv, TablesInverse
<1>6. FlightSettles(Binding)'
  BY <1>2 DEF BindingInv, FlightSettles, Concerns
<1>7. FlightExclusive(Binding)'
  BY <1>2 DEF BindingInv, FlightExclusive, Concerns
<1>8. QED
  BY <1>1, <1>3, <1>4, <1>5, <1>6, <1>7 DEF BindingInv, Become

LEMMA AgentStep ==
  ASSUME IInv, NEW g, BindingInv(g), Become(g), UNCHANGED <<socks, report, coreVars>>
  PROVE  IInv'
<1>1. \A s \in Socks : s \notin socks' => g.uuid[s] = NoUser
  BY DEF BindingInv, TablesInverse
<1>2. /\ BindingInv(Binding)'
      /\ uuid' \in [Socks -> Users \cup {NoUser}]
      /\ role_sock_mapper' \in [Users -> Socks \cup {NoSock}]
      /\ role_count' \in Nat
      /\ ctrl' \in Seq(Bind)
  BY <1>1, BecomeInv DEF IInv, coreVars
<1>3. TypeOK'
  BY <1>2 DEF IInv, TypeOK, coreVars
<1>4. IndexExact' /\ ClosedInv' /\ AcceptInv'
  BY DEF IInv, IndexExact, ClosedInv, AcceptInv, coreVars
<1>5. QED
  BY <1>2, <1>3, <1>4 DEF IInv

LEMMA BindRoleStep ==
  ASSUME IInv, NEW s \in Socks, NEW u \in Users, LsBindRole(s, u)
  PROVE  IInv'
<1> DEFINE g1 == UnbindSock(Binding, s)
           g2 == UnbindRole(g1, u)
<1>1. TypeOK /\ ClosedInv /\ BindingInv(Binding)
  BY DEF IInv
<1>2. BindingInv(g1) /\ g1.uuid[s] = NoUser
  BY <1>1, UnbindSockInv
<1>3. BindingInv(g2) /\ g2.uuid[s] = NoUser /\ g2.mapper[u] = NoSock
  BY <1>1, <1>2, UnbindRoleInv
<1>4. BindingInv(SetRole(g2, s, u))
  BY <1>1, <1>3, SetRoleInv
<1>5. Become(SetRole(g2, s, u)) /\ UNCHANGED <<socks, report, coreVars>>
  BY DEF LsBindRole
<1>6. QED
  BY <1>4, <1>5, AgentStep

LEMMA UnbindStep ==
  ASSUME IInv,
         \/ \E u \in Users : LsUnbindRole(u)
         \/ \E s \in Socks : LsUnbindSock(s)
  PROVE  IInv'
<1>1. TypeOK /\ ClosedInv /\ BindingInv(Binding)
  BY DEF IInv
<1>2. ASSUME NEW u \in Users, LsUnbindRole(u) PROVE IInv'
  <2>1. BindingInv(UnbindRole(Binding, u))
    BY <1>1, UnbindRoleInv
  <2>2. QED
    BY <1>2, <2>1, AgentStep DEF LsUnbindRole
<1>3. ASSUME NEW s \in Socks, LsUnbindSock(s) PROVE IInv'
  <2>1. BindingInv(UnbindSock(Binding, s))
    BY <1>1, UnbindSockInv
  <2>2. QED
    BY <1>3, <2>1, AgentStep DEF LsUnbindSock
<1>4. QED
  BY <1>2, <1>3

(* What is left of the reports when the first one has been handled.        *)
LEMMA NextReport ==
  ASSUME TypeOK, report # <<>>, AcceptInv, report' = Tail(report)
  PROVE  /\ report' \in Seq(Report)
         /\ Head(report) \in Report /\ Head(report).sock \in Socks
         /\ \A i \in DOMAIN report' : report'[i] \in Report
         /\ \A i \in DOMAIN report' : report'[i].kind = "accept" =>
              /\ report'[i].sock \notin socks
              /\ \A j \in DOMAIN report' :
                   (report'[j].kind = "accept" /\ report'[j].sock = report'[i].sock) => j = i
              /\ Head(report).kind = "accept" => report'[i].sock # Head(report).sock
         /\ Head(report).kind = "accept" => Head(report).sock \notin socks
<1> DEFINE n == Len(report)
<1>1. /\ report \in Seq(Report) /\ n \in Nat \ {0} /\ DOMAIN report = 1 .. n
      /\ Head(report) = report[1] /\ Head(report) \in Report
  BY EmptySeq, LenProperties, HeadTailProperties DEF TypeOK
<1>2. /\ report' \in Seq(Report) /\ Len(report') = n - 1 /\ DOMAIN report' = 1 .. n - 1
      /\ \A i \in 1 .. n - 1 : report'[i] = report[i + 1]
  BY <1>1, HeadTailProperties, LenProperties
<1>3. \A i \in DOMAIN report' : report'[i] \in Report
  BY <1>2, ElementOfSeq
<1>4. Head(report).sock \in Socks
  BY <1>1 DEF Report
<1>5. \A i \in DOMAIN report' : report'[i].kind = "accept" =>
        /\ report'[i].sock \notin socks
        /\ \A j \in DOMAIN report' :
             (report'[j].kind = "accept" /\ report'[j].sock = report'[i].sock) => j = i
  BY <1>1, <1>2 DEF AcceptInv
<1>6. \A i \in DOMAIN report' : (report'[i].kind = "accept" /\ Head(report).kind = "accept") =>
        report'[i].sock # Head(report).sock
  BY <1>1, <1>2 DEF AcceptInv
<1>7. Head(report).kind = "accept" => Head(report).sock \notin socks
  BY <1>1 DEF AcceptInv
<1>8. QED
  BY <1>1, <1>2, <1>3, <1>4, <1>5, <1>6, <1>7

LEMMA AcceptStep ==
  ASSUME IInv, HandleAcceptSock
  PROVE  IInv'
<1> DEFINE s == Head(report).sock
<1>1. TypeOK /\ AcceptInv /\ BindingInv(Binding) /\ report # <<>> /\ report' = Tail(report)
  BY DEF IInv, HandleAcceptSock
<1>2. s \in Socks /\ s \notin socks /\ report' \in Seq(Report)
  BY <1>1, NextReport DEF HandleAcceptSock
<1>3. uuid' = uuid
  <2>1. uuid[s] = NoUser
    BY <1>1, <1>2 DEF BindingInv, TablesInverse, Binding
  <2>2. QED
    BY <1>2, <2>1 DEF IInv, TypeOK, HandleAcceptSock
<1>4. UNCHANGED <<role_sock_mapper, role_count, ctrl, hash, user_id, user_id_hash>>
      /\ socks' = socks \cup {s}
  BY DEF HandleAcceptSock, coreVars
<1>5. TypeOK'
  BY <1>1, <1>2, <1>3, <1>4 DEF TypeOK
<1>6. Binding' = Binding
  BY <1>3, <1>4 DEF Binding
<1>7. BindingInv(Binding)'
  <2>1. (Binding \in Bindings)' /\ Counted(Binding)'
    BY <1>1, <1>6 DEF BindingInv, Bindings, Bind, Counted
  <2>2. TablesInverse(Binding)'
    BY <1>1, <1>4, <1>6 DEF BindingInv, TablesInverse
  <2>3. FlightSettles(Binding)'
    BY <1>1, <1>4, <1>6 DEF BindingInv, FlightSettles, Concerns
  <2>4. FlightExclusive(Binding)'
    BY <1>1, <1>4, <1>6 DEF BindingInv, FlightExclusive, Concerns
  <2>5. QED
    BY <2>1, <2>2, <2>3, <2>4 DEF BindingInv
<1>8. AcceptInv'
  <2>1. Head(report).kind = "accept"
    BY DEF HandleAcceptSock
  <2>2. QED
    BY <1>1, <1>4, <2>1, NextReport DEF AcceptInv
<1>9. IndexExact' /\ ClosedInv'
  BY <1>4 DEF IInv, IndexExact, ClosedInv
<1>10. QED
  BY <1>5, <1>7, <1>8, <1>9 DEF IInv

LEMMA CloseStep ==
  ASSUME IInv, HandleCloseSock
  PROVE  IInv'
<1> DEFINE s == Head(report).sock
           g == UnbindSock(Binding, s)
<1>1. /\ TypeOK /\ ClosedInv /\ AcceptInv /\ BindingInv(Binding)
      /\ report # <<>> /\ report' = Tail(report)
      /\ Become(g) /\ socks' = socks \ {s} /\ UNCHANGED <<hash, user_id, user_id_hash>>
  BY DEF IInv, HandleCloseSock, coreVars
<1>2. s \in Socks /\ report' \in Seq(Report)
  BY <1>1, NextReport
<1>3. BindingInv(g) /\ g.uuid[s] = NoUser
  BY <1>1, <1>2, UnbindSockInv
<1>4. \A r \in Socks : r \notin socks' => g.uuid[r] = NoUser
  BY <1>1, <1>3 DEF BindingInv, TablesInverse
<1>5. /\ BindingInv(Binding)'
      /\ uuid' \in [Socks -> Users \cup {NoUser}]
      /\ role_sock_mapper' \in [Users -> Socks \cup {NoSock}]
      /\ role_count' \in Nat
      /\ ctrl' \in Seq(Bind)
  BY <1>1, <1>3, <1>4, BecomeInv
<1>6. TypeOK'
  BY <1>1, <1>2, <1>5 DEF TypeOK
<1>7. AcceptInv'
  BY <1>1, NextReport DEF AcceptInv
<1>8. IndexExact' /\ ClosedInv'
  BY <1>1 DEF IInv, IndexExact, ClosedInv
<1>9. QED
  BY <1>5, <1>6, <1>7, <1>8 DEF IInv

(* A new report behind the others.                                         *)
LEMMA ReportMore ==
  ASSUME TypeOK, NEW s \in Socks, NEW k \in {"accept", "close"},
         report' = Append(report, [kind |-> k, sock |-> s])
  PROVE  /\ report' \in Seq(Report)
         /\ Len(report) \in Nat
         /\ DOMAIN report = 1 .. Len(report)
         /\ DOMAIN report' = 1 .. Len(report) + 1
         /\ \A i \in DOMAIN report : report'[i] = report[i]
         /\ report'[Len(report) + 1] = [kind |-> k, sock |-> s]
<1>1. report \in Seq(Report) /\ [kind |-> k, sock |-> s] \in Report
  BY DEF TypeOK, Report
<1>2. QED
  BY <1>1, AppendProperties, LenProperties

LEMMA SocketAcceptStep ==
  ASSUME IInv, NEW s \in Socks, SocketAccept(s)
  PROVE  IInv'
<1>1. /\ TypeOK /\ ClosedInv /\ AcceptInv /\ BindingInv(Binding)
      /\ s \notin hash /\ s \notin socks /\ hash' = hash \cup {s}
      /\ report' = Append(report, [kind |-> "accept", sock |-> s])
      /\ \A i \in DOMAIN report : report[i].sock # s
      /\ UNCHANGED <<socks, uuid, role_sock_mapper, role_count, ctrl, user_id_hash>>
  BY DEF IInv, SocketAccept, Unused, luaVars
<1>2. user_id' = user_id
  BY <1>1 DEF SocketAccept, TypeOK, ClosedInv
<1>3. TypeOK'
  BY <1>1, <1>2, ReportMore DEF TypeOK
<1>4. Binding' = Binding
  BY <1>1 DEF Binding
<1>5. BindingInv(Binding)'
  <2>1. (Binding \in Bindings)' /\ Counted(Binding)'
    BY <1>1, <1>4 DEF BindingInv, Bindings, Bind, Counted
  <2>2. TablesInverse(Binding)'
    BY <1>1, <1>4 DEF BindingInv, TablesInverse
  <2>3. user_id[s] = NoUser /\ Binding.uuid[s] = NoUser
    BY <1>1 DEF ClosedInv, BindingInv, TablesInverse
  <2>4. FlightSettles(Binding)'
    BY <1>1, <1>2, <1>4, <2>3 DEF BindingInv, FlightSettles, Concerns
  <2>5. FlightExclusive(Binding)'
    BY <1>1, <1>2, <1>4 DEF BindingInv, FlightExclusive, Concerns
  <2>6. QED
    BY <2>1, <2>2, <2>4, <2>5 DEF BindingInv
<1>6. AcceptInv'
  BY <1>1, ReportMore DEF AcceptInv
<1>7. IndexExact'
  <2>1. \A u \in Users : \A r \in hash : r \in hash'
    BY <1>1
  <2>2. QED
    BY <1>1, <1>2, <2>1 DEF IInv, IndexExact
<1>8. ClosedInv'
  BY <1>1, <1>2 DEF ClosedInv
<1>9. QED
  BY <1>3, <1>5, <1>6, <1>7, <1>8 DEF IInv

(* Taking the entry of an open connection out of the index takes its own.  *)
LEMMA ReleasedExact ==
  ASSUME TypeOK, IndexExact, NEW s \in Socks
  PROVE  /\ Released(s) \in [Users -> Seq(Socks)]
         /\ \A u \in Users : Released(s)[u] = IF user_id[s] = u THEN <<>> ELSE user_id_hash[u]
<1>1. CASE user_id[s] = NoUser
  BY <1>1, GateAssumption DEF TypeOK, Released
<1>2. CASE user_id[s] # NoUser
  <2> DEFINE v == user_id[s]
  <2>1. v \in Users /\ user_id_hash[v] = <<s>>
    BY <1>2 DEF TypeOK, IndexExact
  <2>2. Tail(<<s>>) = <<>> /\ <<s>> # <<>> /\ <<>> \in Seq(Socks)
    OBVIOUS
  <2>3. Released(s) = [user_id_hash EXCEPT ![v] = <<>>]
    BY <1>2, <2>1, <2>2 DEF Released, HashidRemove
  <2>4. QED
    BY <2>1, <2>2, <2>3 DEF TypeOK
<1>3. QED
  BY <1>1, <1>2

LEMMA SocketCloseStep ==
  ASSUME IInv, NEW s \in Socks, SocketClose(s)
  PROVE  IInv'
<1>1. /\ TypeOK /\ ClosedInv /\ AcceptInv /\ IndexExact /\ BindingInv(Binding)
      /\ s \in hash /\ hash' = hash \ {s}
      /\ user_id' = [user_id EXCEPT ![s] = NoUser]
      /\ user_id_hash' = Released(s)
      /\ report' = Append(report, [kind |-> "close", sock |-> s])
      /\ UNCHANGED <<socks, uuid, role_sock_mapper, role_count, ctrl>>
  BY DEF IInv, SocketClose, luaVars
<1>2. \A r \in Socks : user_id'[r] = IF r = s THEN NoUser ELSE user_id[r]
  BY <1>1 DEF TypeOK
<1>3. TypeOK'
  BY <1>1, ReportMore, ReleasedExact DEF TypeOK
<1>4. Binding' = Binding
  BY <1>1 DEF Binding
<1>5. BindingInv(Binding)'
  <2>1. (Binding \in Bindings)' /\ Counted(Binding)'
    BY <1>1, <1>4 DEF BindingInv, Bindings, Bind, Counted
  <2>2. TablesInverse(Binding)'
    BY <1>1, <1>4 DEF BindingInv, TablesInverse
  <2>3. hash \subseteq Socks
    BY <1>1 DEF TypeOK
  <2>4. FlightSettles(Binding)'
    BY <1>1, <1>2, <1>4, <2>3 DEF BindingInv, FlightSettles, Concerns
  <2>5. FlightExclusive(Binding)'
    BY <1>1, <1>2, <1>4 DEF BindingInv, FlightExclusive, Concerns
  <2>6. QED
    BY <2>1, <2>2, <2>4, <2>5 DEF BindingInv
<1>6. AcceptInv'
  BY <1>1, ReportMore DEF AcceptInv
<1>7. IndexExact'
  <2> SUFFICES ASSUME NEW u \in Users
               PROVE  \/ /\ user_id_hash'[u] = <<>>
                         /\ \A r \in Socks : user_id'[r] # u
                      \/ \E r \in hash' : /\ user_id_hash'[u] = <<r>>
                                          /\ \A q \in Socks : user_id'[q] = u <=> q = r
    BY DEF IndexExact
  <2>1. user_id_hash'[u] = IF user_id[s] = u THEN <<>> ELSE user_id_hash[u]
    BY <1>1, ReleasedExact
  <2>2. u # NoUser
    BY GateAssumption
  <2>3. CASE user_id[s] = u
    BY <1>1, <1>2, <2>1, <2>2, <2>3 DEF IndexExact
  <2>4. CASE user_id[s] # u
    BY <1>1, <1>2, <2>1, <2>2, <2>4 DEF IndexExact
  <2>5. QED
    BY <2>3, <2>4
<1>8. ClosedInv'
  BY <1>1, <1>2 DEF ClosedInv
<1>9. QED
  BY <1>3, <1>5, <1>6, <1>7, <1>8 DEF IInv

(* The first command is carried out; the others move up.                   *)
LEMMA CtrlStep ==
  ASSUME IInv, CtrlBind
  PROVE  IInv'
<1> DEFINE n == Len(ctrl)
           s == Head(ctrl).sock
           v == Head(ctrl).user
<1>1. /\ TypeOK /\ ClosedInv /\ AcceptInv /\ IndexExact /\ BindingInv(Binding)
      /\ ctrl # <<>> /\ ctrl' = Tail(ctrl)
      /\ IF s \in hash THEN Rebind(s, v) ELSE UNCHANGED <<user_id, user_id_hash>>
      /\ UNCHANGED <<socks, uuid, role_sock_mapper, role_count, report, hash>>
  BY DEF IInv, CtrlBind, luaVars
<1>2. /\ ctrl \in Seq(Bind) /\ n \in Nat \ {0} /\ DOMAIN ctrl = 1 .. n
      /\ Head(ctrl) = ctrl[1]
      /\ \A i \in 1 .. n : ctrl[i] \in Bind
      /\ ctrl' \in Seq(Bind) /\ Len(ctrl') = n - 1 /\ DOMAIN ctrl' = 1 .. n - 1
      /\ \A i \in 1 .. n - 1 : ctrl'[i] = ctrl[i + 1]
  <2>1. ctrl \in Seq(Bind) /\ n \in Nat \ {0} /\ DOMAIN ctrl = 1 .. n
    BY <1>1, EmptySeq, LenProperties DEF TypeOK
  <2>2. QED
    BY <1>1, <2>1, ElementOfSeq, HeadTailProperties, LenProperties
<1>3. s \in Socks /\ v \in Users \cup {NoUser} /\ s = ctrl[1].sock /\ v = ctrl[1].user
  BY <1>2 DEF Bind
<1>4. \A r \in Socks : user_id'[r] = IF r = s /\ s \in hash THEN v ELSE user_id[r]
  BY <1>1, <1>3 DEF TypeOK, Rebind
<1>5. /\ Binding.ctrl = ctrl /\ Binding.uuid = uuid
      /\ Binding'.ctrl = ctrl' /\ Binding'.uuid = uuid
      /\ Binding'.mapper = Binding.mapper /\ Binding'.count = Binding.count
  BY <1>1 DEF Binding
<1>6. \A r \in Socks : \A lo, hi \in Nat :
        (Concerns(ctrl, r, lo + 1, hi + 1) /\ lo >= 1 /\ hi < n) => Concerns(ctrl', r, lo, hi)
  <2> SUFFICES ASSUME NEW r \in Socks, NEW lo \in Nat, NEW hi \in Nat,
                      Concerns(ctrl, r, lo + 1, hi + 1), lo >= 1, hi < n
               PROVE  Concerns(ctrl', r, lo, hi)
    OBVIOUS
  <2>1. PICK i \in 1 .. n : lo + 1 <= i /\ i <= hi + 1 /\ ctrl[i].sock = r
    BY <1>2 DEF Concerns
  <2>2. /\ i - 1 \in 1 .. n - 1 /\ lo <= i - 1 /\ i - 1 <= hi
        /\ ctrl'[i - 1] = ctrl[(i - 1) + 1] /\ (i - 1) + 1 = i
    BY <1>2, <2>1
  <2>3. QED
    BY <1>2, <2>1, <2>2 DEF Concerns
<1>7. \A r \in Socks : \A hi \in Nat :
        (Concerns(ctrl, r, 1, hi) /\ r # s) => Concerns(ctrl, r, 2, hi)
  BY <1>2, <1>3 DEF Concerns
<1>8. FlightSettles(Binding)'
  <2>1. ASSUME NEW i \in DOMAIN ctrl'
        PROVE  ctrl'[i].user = uuid[ctrl'[i].sock] \/ Concerns(ctrl', ctrl'[i].sock, i + 1, n - 1)
    <3>1. /\ i \in Nat /\ i + 1 \in 1 .. n /\ ctrl'[i] = ctrl[i + 1] /\ ctrl'[i].sock \in Socks
          /\ (i + 1) + 1 = i + 2
      BY <1>2 DEF Bind
    <3>2. \/ ctrl[i + 1].user = uuid[ctrl[i + 1].sock]
          \/ Concerns(ctrl, ctrl[i + 1].sock, (i + 1) + 1, n)
      BY <1>1, <1>2, <1>5, <3>1 DEF BindingInv, FlightSettles
    <3>3. n - 1 \in Nat /\ (n - 1) + 1 = n /\ i + 1 \in Nat /\ i + 1 >= 1 /\ n - 1 < n
      BY <1>2, <3>1
    <3>4. QED
      BY <1>6, <3>1, <3>2, <3>3
  <2>2. ASSUME NEW r \in hash'
        PROVE  user_id'[r] = uuid[r] \/ Concerns(ctrl', r, 1, n - 1)
    <3>1. r \in Socks /\ r \in hash
      BY <1>1 DEF TypeOK
    <3>2. Concerns(ctrl, r, 2, n) => Concerns(ctrl', r, 1, n - 1)
      <4>1. n - 1 \in Nat /\ (n - 1) + 1 = n /\ 1 + 1 = 2 /\ 1 >= 1 /\ n - 1 < n
        BY <1>2
      <4>2. QED
        BY <1>6, <3>1, <4>1
    <3>3. CASE r = s
      <4>1. v = uuid[s] \/ Concerns(ctrl, s, 1 + 1, n)
        BY <1>1, <1>2, <1>3, <1>5 DEF BindingInv, FlightSettles
      <4>2. QED
        BY <1>4, <3>1, <3>2, <3>3, <4>1
    <3>4. CASE r # s
      <4>1. user_id[r] = uuid[r] \/ Concerns(ctrl, r, 1, n)
        BY <1>1, <1>5, <3>1 DEF BindingInv, FlightSettles
      <4>2. QED
        BY <1>2, <1>4, <1>7, <3>1, <3>2, <3>4, <4>1
    <3>5. QED
      BY <3>3, <3>4
  <2>3. QED
    BY <1>2, <1>5, <2>1, <2>2 DEF FlightSettles
<1>9. FlightExclusive(Binding)'
  <2> SUFFICES ASSUME NEW j \in DOMAIN ctrl', ctrl'[j].user # NoUser
               PROVE  /\ \A r \in Socks : (r # ctrl'[j].sock /\ user_id'[r] = ctrl'[j].user) =>
                           Concerns(ctrl', r, 1, j - 1)
                      /\ \A i \in DOMAIN ctrl' :
                           (i < j /\ ctrl'[i].sock # ctrl'[j].sock /\ ctrl'[i].user = ctrl'[j].user) =>
                             Concerns(ctrl', ctrl'[i].sock, i + 1, j - 1)
    BY <1>5 DEF FlightExclusive
  <2>1. /\ j \in Nat /\ j + 1 \in 1 .. n /\ ctrl'[j] = ctrl[j + 1] /\ (j + 1) - 1 = j
        /\ j - 1 \in Nat /\ (j - 1) + 1 = j /\ j - 1 < n
    BY <1>2
  <2>2. /\ \A r \in Socks : (r # ctrl[j + 1].sock /\ user_id[r] = ctrl[j + 1].user) =>
             Concerns(ctrl, r, 1, j)
        /\ \A i \in DOMAIN ctrl :
             (i < j + 1 /\ ctrl[i].sock # ctrl[j + 1].sock /\ ctrl[i].user = ctrl[j + 1].user) =>
               Concerns(ctrl, ctrl[i].sock, i + 1, j)
    BY <1>1, <1>2, <1>5, <2>1 DEF BindingInv, FlightExclusive
  <2>3. \A r \in Socks : Concerns(ctrl, r, 2, j) => Concerns(ctrl', r, 1, j - 1)
    BY <1>6, <2>1
  <2>4. ASSUME NEW r \in Socks, r # ctrl'[j].sock, user_id'[r] = ctrl'[j].user
        PROVE  Concerns(ctrl', r, 1, j - 1)
    <3>1. CASE r = s /\ s \in hash
      <4>1. ctrl[1].user = ctrl[j + 1].user /\ ctrl[1].sock # ctrl[j + 1].sock
        BY <1>3, <1>4, <2>1, <2>4, <3>1
      <4>2. Concerns(ctrl, ctrl[1].sock, 1 + 1, j)
        BY <1>2, <2>1, <2>2, <4>1
      <4>3. QED
        BY <1>3, <2>3, <3>1, <4>2
    <3>2. CASE r = s /\ s \notin hash
      BY <1>1, <1>4, <2>1, <2>4, <3>2 DEF ClosedInv
    <3>3. CASE r # s
      <4>1. Concerns(ctrl, r, 1, j)
        BY <1>4, <2>1, <2>2, <2>4, <3>3
      <4>2. QED
        BY <1>7, <2>1, <2>3, <3>3, <4>1
    <3>4. QED
      BY <3>1, <3>2, <3>3
  <2>5. ASSUME NEW i \in DOMAIN ctrl',
               i < j, ctrl'[i].sock # ctrl'[j].sock, ctrl'[i].user = ctrl'[j].user
        PROVE  Concerns(ctrl', ctrl'[i].sock, i + 1, j - 1)
    <3>1. /\ i \in Nat /\ i + 1 \in 1 .. n /\ i + 1 < j + 1
          /\ ctrl'[i] = ctrl[i + 1] /\ ctrl'[i].sock \in Socks
          /\ i + 1 \in Nat /\ i + 1 >= 1
      BY <1>2, <2>1, <2>5 DEF Bind
    <3>2. Concerns(ctrl, ctrl[i + 1].sock, (i + 1) + 1, j)
      BY <1>2, <2>1, <2>2, <2>5, <3>1
    <3>3. QED
      BY <1>6, <2>1, <3>1, <3>2
  <2>6. QED
    BY <2>4, <2>5
<1>10. IndexExact' /\ TypeOK'
  <2>1. CASE s \notin hash
    BY <1>1, <1>2, <2>1 DEF IndexExact, TypeOK
  <2>2. CASE s \in hash
    <3>1. /\ user_id_hash' = IF v # NoUser THEN HashidInsert(Released(s), v, s) ELSE Released(s)
          /\ user_id' = [user_id EXCEPT ![s] = v]
      BY <1>1, <2>2 DEF Rebind
    <3>2. /\ Released(s) \in [Users -> Seq(Socks)]
          /\ \A u \in Users : Released(s)[u] = IF user_id[s] = u THEN <<>> ELSE user_id_hash[u]
      BY <1>1, <1>3, ReleasedExact
    <3>3. v # NoUser => \A r \in Socks : r # s => user_id[r] # v
      <4>1. \A r \in Socks : ~Concerns(ctrl, r, 1, 0)
        BY <1>2 DEF Concerns
      <4>2. ASSUME NEW r \in Socks, r # s, v # NoUser, user_id[r] = v
            PROVE  Concerns(ctrl, r, 1, 1 - 1)
        <5>1. 1 \in DOMAIN Binding.ctrl
          BY <1>2, <1>5
        <5>2. QED
          BY <1>1, <1>3, <1>5, <4>2, <5>1 DEF BindingInv, FlightExclusive
      <4>3. QED
        BY <4>1, <4>2
    <3>4. v # NoUser => Released(s)[v] = <<>>
      BY <1>1, <1>3, <3>2, <3>3 DEF IndexExact
    <3>5. \A u \in Users : user_id_hash'[u] =
            IF u = v THEN <<s>> ELSE IF user_id[s] = u THEN <<>> ELSE user_id_hash[u]
      <4>1. <<s>> \o <<>> = <<s>>
        BY <1>3
      <4>2. CASE v = NoUser
        BY <3>1, <3>2, <4>2, GateAssumption
      <4>3. CASE v # NoUser
        <5>1. user_id_hash' = [Released(s) EXCEPT ![v] = <<s>>]
          BY <3>1, <3>4, <4>1, <4>3 DEF HashidInsert
        <5>2. QED
          BY <1>3, <3>2, <4>3, <5>1
      <4>4. QED
        BY <4>2, <4>3
    <3>6. user_id_hash' \in [Users -> Seq(Socks)]
      <4>1. <<s>> \o <<>> = <<s>> /\ <<s>> \in Seq(Socks)
        BY <1>3
      <4>2. QED
        BY <3>1, <3>2, <3>4, <4>1 DEF HashidInsert
    <3>7. TypeOK'
      BY <1>1, <1>2, <1>3, <3>1, <3>6 DEF TypeOK
    <3>8. ASSUME NEW u \in Users
          PROVE  \/ /\ user_id_hash'[u] = <<>>
                    /\ \A r \in Socks : user_id'[r] # u
                 \/ \E r \in hash' : /\ user_id_hash'[u] = <<r>>
                                     /\ \A q \in Socks : user_id'[q] = u <=> q = r
      <4>0. u # NoUser
        BY GateAssumption
      <4>1. CASE u = v
        BY <1>1, <1>4, <2>2, <3>3, <3>5, <4>0, <4>1
      <4>2. CASE u # v /\ user_id[s] = u
        BY <1>1, <1>3, <1>4, <2>2, <3>5, <4>2 DEF IndexExact
      <4>3. CASE u # v /\ user_id[s] # u
        BY <1>1, <1>3, <1>4, <2>2, <3>5, <4>3 DEF IndexExact
      <4>4. QED
        BY <4>1, <4>2, <4>3
    <3>9. QED
      BY <3>7, <3>8 DEF IndexExact
  <2>3. QED
    BY <2>1, <2>2
<1>11. BindingInv(Binding)'
  <2>1. (Binding \in Bindings)'
    BY <1>10 DEF TypeOK, Binding, Bindings, Bind
  <2>2. TablesInverse(Binding)' /\ Counted(Binding)'
    BY <1>1, <1>5 DEF BindingInv, TablesInverse, Counted
  <2>3. QED
    BY <1>8, <1>9, <2>1, <2>2 DEF BindingInv
<1>12. ClosedInv' /\ AcceptInv'
  BY <1>1, <1>4 DEF ClosedInv, AcceptInv
<1>13. QED
  BY <1>10, <1>11, <1>12 DEF IInv

LEMMA NextIInv == IInv /\ [Next]_vars => IInv'
<1> SUFFICES ASSUME IInv, [Next]_vars PROVE IInv'
  OBVIOUS
<1>1. ASSUME NEW s \in Socks, NEW u \in Users, LsBindRole(s, u) PROVE IInv'
  BY <1>1, BindRoleStep
<1>2. ASSUME NEW u \in Users, LsUnbindRole(u) PROVE IInv'
  BY <1>2, UnbindStep
<1>3. ASSUME NEW s \in Socks, LsUnbindSock(s) PROVE IInv'
  BY <1>3, UnbindStep
<1>4. CASE HandleAcceptSock
  BY <1>4, AcceptStep
<1>5. CASE HandleCloseSock
  BY <1>5, CloseStep
<1>6. CASE CtrlBind
  BY <1>6, CtrlStep
<1>7. ASSUME NEW s \in Socks, SocketAccept(s) PROVE IInv'
  BY <1>7, SocketAcceptStep
<1>8. ASSUME NEW s \in Socks, SocketClose(s) PROVE IInv'
  BY <1>8, SocketCloseStep
<1>9. CASE UNCHANGED vars
  <2>1. /\ UNCHANGED <<socks, uuid, role_sock_mapper, role_count, ctrl, report, hash>>
        /\ UNCHANGED <<user_id, user_id_hash>>
        /\ Binding' = Binding
    BY <1>9 DEF vars, luaVars, coreVars, Binding
  <2>2. TypeOK' /\ IndexExact' /\ ClosedInv' /\ AcceptInv'
    BY <2>1 DEF IInv, TypeOK, IndexExact, ClosedInv, AcceptInv
  <2>3. (Binding \in Bindings)' /\ TablesInverse(Binding)' /\ Counted(Binding)'
    BY <2>1 DEF IInv, BindingInv, Bindings, Bind, TablesInverse, Counted
  <2>4. FlightSettles(Binding)' /\ FlightExclusive(Binding)'
    BY <2>1 DEF IInv, BindingInv, FlightSettles, FlightExclusive, Concerns
  <2>5. QED
    BY <2>2, <2>3, <2>4 DEF IInv, BindingInv
<1>10. QED
  BY <1>1, <1>2, <1>3, <1>4, <1>5, <1>6, <1>7, <1>8, <1>9 DEF Next

LEMMA Invariance == Spec => []IInv
<1>1. QED
  BY InitIInv, NextIInv, PTL DEF Spec
-----------------------------------------------------------------------------
(* The types hold for any number of connections and users; in particular   *)
(* role_count never becomes negative (gate_global.lua).                    *)
THEOREM TypeCorrect == Spec => []TypeOK
<1>1. IInv => TypeOK
  BY DEF IInv
<1>2. QED
  BY <1>1, Invariance, PTL

(* sock.uuid and role_sock_mapper are each other's inverse in every        *)
(* reachable state (gate_global.lua, bind_role and its helpers).           *)
THEOREM LuaTablesInverse == Spec => []LuaBijection
<1>1. IInv => LuaBijection
  BY GateAssumption DEF IInv, BindingInv, TablesInverse, Binding, LuaBijection
<1>2. QED
  BY <1>1, Invariance, PTL

(* role_count is exact in every reachable state (gate_global.lua).         *)
THEOREM CountExact == Spec => []RoleCountExact
<1>1. IInv => RoleCountExact
  BY DEF IInv, BindingInv, Counted, Binding, RoleCountExact
<1>2. QED
  BY <1>1, Invariance, PTL

(* The C index is exact in every reachable state, however far it runs      *)
(* behind the Lua table (service_gate.c, "bind").                          *)
THEOREM BroadcastIndexExact == Spec => []IndexExact
<1>1. IInv => IndexExact
  BY DEF IInv
<1>2. QED
  BY <1>1, Invariance, PTL

(* Without commands under way the C table agrees with the Lua table        *)
(* (gate_utils.bind).                                                      *)
THEOREM TablesSettle == Spec => []Settled
<1>1. IInv => Settled
  <2> SUFFICES ASSUME IInv, ctrl = <<>>, NEW s \in socks \cap hash
               PROVE  user_id[s] = uuid[s]
    BY DEF Settled
  <2>1. DOMAIN ctrl = {}
    OBVIOUS
  <2>2. ~Concerns(ctrl, s, 1, Len(ctrl))
    BY <2>1 DEF Concerns
  <2>3. QED
    BY <2>2 DEF IInv, BindingInv, FlightSettles, Binding
<1>2. QED
  BY <1>1, Invariance, PTL
=============================================================================
