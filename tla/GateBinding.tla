----------------------------- MODULE GateBinding -----------------------------
(***************************************************************************)
(* Which client connection stands for which role.  The table exists twice: *)
(* in the Lua service agent_gate (gate_global.lua: sock_dict,              *)
(* role_sock_mapper, role_count) and in the C service it drives            *)
(* (service_gate.c: connection.user_id, user_id_hash, user_id_map), which  *)
(* fans broadcasts out.  The two run in parallel and talk through skynet   *)
(* messages, in order in each direction: the Lua side sends "bind", the C  *)
(* side reports "accept_sock" and "close_sock".  So the Lua side binds      *)
(* connections that are already gone, and the C side carries out bindings  *)
(* that are already revoked.                                               *)
(*                                                                         *)
(* The requests of the agent (ls_bind_role, ls_unbind_role,                *)
(* ls_unbind_sock) are arbitrary here.                                     *)
(***************************************************************************)
EXTENDS Integers, Sequences, FiniteSets

CONSTANTS
  Socks,       (* socket ids; an id is reused only when nothing mentions it *)
  Users,       (* role uuids                                               *)
  NoSock, NoUser,
  MaxCtrl      (* bound: "bind" commands on their way to the C service     *)

ASSUME GateAssumption ==
  /\ NoSock \notin Socks
  /\ NoUser \notin Users
  /\ IsFiniteSet(Users)
  /\ MaxCtrl \in Nat

VARIABLES
  socks,              (* Lua: DOMAIN sock_dict                             *)
  uuid,               (* Lua: sock_dict[s].uuid                            *)
  role_sock_mapper,   (* Lua                                               *)
  role_count,         (* Lua                                               *)
  ctrl,               (* "bind" commands, Lua -> C                         *)
  report,             (* "accept_sock", "close_sock", C -> Lua             *)
  hash,               (* C: the open connections                           *)
  user_id,            (* C: connection.user_id                             *)
  user_id_hash        (* C: for each user its entries, the first found first *)

luaVars == <<socks, uuid, role_sock_mapper, role_count>>
coreVars == <<hash, user_id, user_id_hash>>
vars == <<luaVars, ctrl, report, coreVars>>

Bind == [sock : Socks, user : Users \cup {NoUser}]
Report == [kind : {"accept", "close"}, sock : Socks]

-----------------------------------------------------------------------------
(***************************************************************************)
(* gate_global.lua.  The binding part of its state, with the commands it   *)
(* sends, is a record: bind_role is unbind_sock, then unbind_role, then    *)
(* the binding itself, within one message.                                 *)
(***************************************************************************)
Binding == [uuid |-> uuid, mapper |-> role_sock_mapper, count |-> role_count, ctrl |-> ctrl]

(* gate_utils.bind                                                         *)
Send(g, s, u) == Append(g.ctrl, [sock |-> s, user |-> u])

(* Mutant: role_count is left as it is.                                    *)
MutUnbindSock(g, s) ==
  IF s \in socks /\ g.uuid[s] # NoUser
  THEN [uuid |-> [g.uuid EXCEPT ![s] = NoUser],
        mapper |-> [g.mapper EXCEPT ![g.uuid[s]] = NoSock],
        count |-> g.count,
        ctrl |-> Send(g, s, NoUser)]
  ELSE g

UnbindSock(g, s) ==
  IF s \in socks /\ g.uuid[s] # NoUser
  THEN [uuid |-> [g.uuid EXCEPT ![s] = NoUser],
        mapper |-> [g.mapper EXCEPT ![g.uuid[s]] = NoSock],
        count |-> g.count - 1,
        ctrl |-> Send(g, s, NoUser)]
  ELSE g

(* Mutant: the old connection keeps its binding in the C service.          *)
MutUnbindRoleSilent(g, u) ==
  LET s == g.mapper[u] IN
  IF s # NoSock
  THEN [uuid |-> IF s \in socks THEN [g.uuid EXCEPT ![s] = NoUser] ELSE g.uuid,
        mapper |-> [g.mapper EXCEPT ![u] = NoSock],
        count |-> g.count - 1,
        ctrl |-> g.ctrl]
  ELSE g

(* Mutant: the old connection keeps its sock.uuid.                         *)
MutUnbindRole(g, u) ==
  IF g.mapper[u] # NoSock
  THEN [uuid |-> g.uuid,
        mapper |-> [g.mapper EXCEPT ![u] = NoSock],
        count |-> g.count - 1,
        ctrl |-> Send(g, g.mapper[u], NoUser)]
  ELSE g

UnbindRole(g, u) ==
  LET s == g.mapper[u] IN
  IF s # NoSock
  THEN [uuid |-> IF s \in socks THEN [g.uuid EXCEPT ![s] = NoUser] ELSE g.uuid,
        mapper |-> [g.mapper EXCEPT ![u] = NoSock],
        count |-> g.count - 1,
        ctrl |-> Send(g, s, NoUser)]
  ELSE g

(* What bind_role does once neither side is bound.                         *)
(* Mutant: role_count is left as it is.                                    *)
MutSetRole(g, s, u) ==
  IF s \in socks
  THEN [uuid |-> [g.uuid EXCEPT ![s] = u],
        mapper |-> [g.mapper EXCEPT ![u] = s],
        count |-> g.count,
        ctrl |-> Send(g, s, u)]
  ELSE g

SetRole(g, s, u) ==
  IF s \in socks
  THEN [uuid |-> [g.uuid EXCEPT ![s] = u],
        mapper |-> [g.mapper EXCEPT ![u] = s],
        count |-> g.count + 1,
        ctrl |-> Send(g, s, u)]
  ELSE g

Become(g) ==
  /\ uuid' = g.uuid
  /\ role_sock_mapper' = g.mapper
  /\ role_count' = g.count
  /\ ctrl' = g.ctrl

LsBindRole(s, u) ==
  /\ Len(ctrl) + 3 <= MaxCtrl
  /\ Become(SetRole(UnbindRole(UnbindSock(Binding, s), u), s, u))
  /\ UNCHANGED <<socks, report, coreVars>>

LsUnbindRole(u) ==
  /\ Len(ctrl) < MaxCtrl
  /\ Become(UnbindRole(Binding, u))
  /\ UNCHANGED <<socks, report, coreVars>>

LsUnbindSock(s) ==
  /\ Len(ctrl) < MaxCtrl
  /\ Become(UnbindSock(Binding, s))
  /\ UNCHANGED <<socks, report, coreVars>>

(* msg_handles.handle_accept_sock                                          *)
HandleAcceptSock ==
  /\ report # <<>>
  /\ Head(report).kind = "accept"
  /\ report' = Tail(report)
  /\ socks' = socks \cup {Head(report).sock}
  /\ uuid' = [uuid EXCEPT ![Head(report).sock] = NoUser]
  /\ UNCHANGED <<role_sock_mapper, role_count, ctrl, coreVars>>

(* msg_handles.handle_close_sock                                           *)
HandleCloseSock ==
  /\ report # <<>>
  /\ Head(report).kind = "close"
  /\ Len(ctrl) < MaxCtrl
  /\ report' = Tail(report)
  /\ Become(UnbindSock(Binding, Head(report).sock))
  /\ socks' = socks \ {Head(report).sock}
  /\ UNCHANGED coreVars

-----------------------------------------------------------------------------
(***************************************************************************)
(* service_gate.c.  hashid_insert puts an entry in front of those of the   *)
(* same id; hashid_remove takes the first one away and hashid_lookup finds *)
(* the first one.                                                          *)
(***************************************************************************)
HashidRemove(h, u) == IF h[u] = <<>> THEN h ELSE [h EXCEPT ![u] = Tail(@)]

HashidInsert(h, u, s) == [h EXCEPT ![u] = <<s>> \o @]

(* The index without the entry of the connection s.                        *)
Released(s) ==
  IF user_id[s] # NoUser THEN HashidRemove(user_id_hash, user_id[s]) ELSE user_id_hash

(* _ctrl, command "bind"                                                   *)
(* Mutant: the old entry of the connection stays in the index.             *)
MutRebind(s, u) ==
  /\ user_id_hash' = IF u # NoUser THEN HashidInsert(user_id_hash, u, s) ELSE user_id_hash
  /\ user_id' = [user_id EXCEPT ![s] = u]

Rebind(s, u) ==
  /\ user_id_hash' = IF u # NoUser THEN HashidInsert(Released(s), u, s) ELSE Released(s)
  /\ user_id' = [user_id EXCEPT ![s] = u]

CtrlBind ==
  LET s == Head(ctrl).sock IN
  /\ ctrl # <<>>
  /\ ctrl' = Tail(ctrl)
  /\ IF s \in hash THEN Rebind(s, Head(ctrl).user) ELSE UNCHANGED <<user_id, user_id_hash>>
  /\ UNCHANGED <<luaVars, report, hash>>

(* An id nothing mentions any more.                                        *)
Unused(s) ==
  /\ s \notin hash
  /\ s \notin socks
  /\ \A i \in DOMAIN ctrl : ctrl[i].sock # s
  /\ \A i \in DOMAIN report : report[i].sock # s

(* SKYNET_SOCKET_TYPE_ACCEPT                                               *)
SocketAccept(s) ==
  /\ Unused(s)
  /\ hash' = hash \cup {s}
  /\ user_id' = [user_id EXCEPT ![s] = NoUser]
  /\ report' = Append(report, [kind |-> "accept", sock |-> s])
  /\ UNCHANGED <<luaVars, ctrl, user_id_hash>>

(* SKYNET_SOCKET_TYPE_CLOSE and SKYNET_SOCKET_TYPE_ERROR: the client went  *)
(* away, or a "kick" took effect.                                          *)
SocketClose(s) ==
  /\ s \in hash
  /\ hash' = hash \ {s}
  /\ user_id' = [user_id EXCEPT ![s] = NoUser]
  /\ user_id_hash' = Released(s)
  /\ report' = Append(report, [kind |-> "close", sock |-> s])
  /\ UNCHANGED <<luaVars, ctrl>>

-----------------------------------------------------------------------------
Init ==
  /\ socks = {}
  /\ uuid = [s \in Socks |-> NoUser]
  /\ role_sock_mapper = [u \in Users |-> NoSock]
  /\ role_count = 0
  /\ ctrl = <<>>
  /\ report = <<>>
  /\ hash = {}
  /\ user_id = [s \in Socks |-> NoUser]
  /\ user_id_hash = [u \in Users |-> <<>>]

Next ==
  \/ \E s \in Socks, u \in Users : LsBindRole(s, u)
  \/ \E u \in Users : LsUnbindRole(u)
  \/ \E s \in Socks : LsUnbindSock(s)
  \/ HandleAcceptSock
  \/ HandleCloseSock
  \/ CtrlBind
  \/ \E s \in Socks : SocketAccept(s) \/ SocketClose(s)

Spec == Init /\ [][Next]_vars

-----------------------------------------------------------------------------
TypeOK ==
  /\ socks \subseteq Socks
  /\ uuid \in [Socks -> Users \cup {NoUser}]
  /\ role_sock_mapper \in [Users -> Socks \cup {NoSock}]
  /\ role_count \in Nat
  /\ ctrl \in Seq(Bind)
  /\ report \in Seq(Report)
  /\ hash \subseteq Socks
  /\ user_id \in [Socks -> Users \cup {NoUser}]
  /\ user_id_hash \in [Users -> Seq(Socks)]

(* The two Lua tables are each other's inverse: a role is reached through  *)
(* the connection that acts for it and through no other, whatever order    *)
(* bindings, revocations and closes come in (gate_global.lua).             *)
LuaBijection ==
  \A s \in Socks : \A u \in Users :
    role_sock_mapper[u] = s <=> (s \in socks /\ uuid[s] = u)

(* role_count, which is only ever counted up and down, is the number of    *)
(* bound roles: no path decrements twice or forgets to (gate_global.lua).  *)
RoleCountExact == role_count = Cardinality({u \in Users : role_sock_mapper[u] # NoSock})

(* The index of the C service is exact at every moment, although it runs   *)
(* behind: a broadcast to a user reaches the open connection bound to it   *)
(* and no other, and closing one connection never unbinds another          *)
(* (service_gate.c, "bind").                                               *)
IndexExact ==
  \A u \in Users :
    \/ /\ user_id_hash[u] = <<>>
       /\ \A s \in Socks : user_id[s] # u
    \/ \E s \in hash : /\ user_id_hash[u] = <<s>>
                       /\ \A r \in Socks : user_id[r] = u <=> r = s

(* When all commands have been carried out, both tables agree on every     *)
(* connection both sides know (gate_utils.bind).                           *)
Settled ==
  ctrl = <<>> => \A s \in socks \cap hash : user_id[s] = uuid[s]
=============================================================================
