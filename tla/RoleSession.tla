---------------------------- MODULE RoleSession -----------------------------
(***************************************************************************)
(* Players logging in, reconnecting, losing their connection and logging   *)
(* out in the agent service (sock.lua, role_cls.lua, msg_handles/login.lua,*)
(* role_db.lua).  Coroutines yield at the database, at the lock of a role  *)
(* and in on_online; one action is the code between two such points.       *)
(*                                                                         *)
(* The role lock is the lock manager of CoLock: a free lock may be taken   *)
(* by anybody, the head of its queue is woken otherwise.  Its 10 s timeout *)
(* is left out: the database answers sooner here.                          *)
(***************************************************************************)
EXTENDS Integers, Sequences, FiniteSets

CONSTANTS
  Uuids, Socks, Threads,
  Roles,              (* role objects (reused once garbage)                *)
  NoSock, NoRole, NoThread, NoUuid

ASSUME RoleSessionAssumption ==
  /\ NoSock \notin Socks /\ NoRole \notin Roles
  /\ NoThread \notin Threads /\ NoUuid \notin Uuids

VARIABLES
  sock_dict,      (* the connections known to the agent                    *)
  sock_role,      (* sock.role                                             *)
  role_dict,      (* role_cls.role_dict                                    *)
  uuid, sock_id, timer_logout,          (* of the role objects             *)
  db_dict,        (* role_db: the role whose db is the entry of the uuid   *)
  owner, queue,   (* the lock of each uuid                                 *)
  closing,        (* connections the gate is, or is about to be, told to   *)
                  (* close                                                 *)
  job             (* what each coroutine is doing                          *)

sockVars == <<sock_dict, sock_role, closing>>
roleVars == <<role_dict, uuid, sock_id, timer_logout, db_dict>>
vars == <<sockVars, roleVars, owner, queue, job>>

(* pc: where the coroutine waits; sock and role: of the login it runs; obj *)
(* and clear: the role it saves, and whether the entry is dropped and the  *)
(* role removed; then: what follows the save.                              *)
Job == [pc : {"idle", "player", "loadLock", "loading", "saveLock", "saving", "online"},
        uuid : Uuids \cup {NoUuid}, sock : Socks \cup {NoSock},
        role : Roles \cup {NoRole}, obj : Roles \cup {NoRole},
        clear : BOOLEAN, then : {"end", "takeover", "bind"}]

Idle == [pc |-> "idle", uuid |-> NoUuid, sock |-> NoSock, role |-> NoRole, obj |-> NoRole,
         clear |-> FALSE, then |-> "end"]

-----------------------------------------------------------------------------
(***************************************************************************)
(* What a step changes, as a record: role_cls calls itself several times   *)
(* between two yields.                                                     *)
(***************************************************************************)
State == [sock_role |-> sock_role, role_dict |-> role_dict, uuid |-> uuid, sock_id |-> sock_id,
          timer |-> timer_logout, db |-> db_dict,
          owner |-> owner, queue |-> queue, closing |-> closing, job |-> job]

Become(st) ==
  /\ sock_role' = st.sock_role /\ role_dict' = st.role_dict /\ uuid' = st.uuid
  /\ sock_id' = st.sock_id /\ timer_logout' = st.timer /\ db_dict' = st.db /\ owner' = st.owner /\ queue' = st.queue /\ job' = st.job
  /\ closing' = st.closing \cap sock_dict
  /\ UNCHANGED sock_dict

Goto(st, t, j) == [st EXCEPT !.job[t] = j]

Unlock(st, u) == [st EXCEPT !.owner[u] = NoThread]

(* Mutant: the lock is taken from its owner.                               *)
MutVacant(st, u) == TRUE

(* The lock of u has no owner.                                             *)
Vacant(st, u) == st.owner[u] = NoThread

(* lock_run: the function begins, or the coroutine waits for the lock.     *)
Lock(st, t, u) == [st EXCEPT !.owner[u] = t]

WaitLock(st, t, u, j) == Goto([st EXCEPT !.queue[u] = Append(@, t)], t, j)

(* role_cls.remove                                                         *)
Remove(st, o) == [st EXCEPT !.timer[o] = FALSE, !.role_dict[st.uuid[o]] = NoRole]

(* logout and save behind the lock.                                        *)
AfterSave(st, j) == IF j.clear THEN Remove(st, j.obj) ELSE st

(* Mutant: the entry is dropped by a logout that keeps the role.           *)
MutDrops(j) == j.then = "bind"

(* save_role drops the entry, is_save_clear.                               *)
Drops(j) == j.clear

(* save_role with the lock.  Without an entry there is nothing to save and *)
(* the coroutine goes on at once.                                          *)
SaveLocked(st, t, j) ==
  LET u == st.uuid[j.obj] IN
  IF st.db[u] = NoRole
  THEN Goto(AfterSave(Unlock(st, u), j), t, [j EXCEPT !.pc = "saved"])
  ELSE Goto([st EXCEPT !.db[u] = IF Drops(j) THEN NoRole ELSE @], t, [j EXCEPT !.pc = "saving"])

End(st, t, j) == Goto(st, t, Idle)

(* The end of login: the new connection is bound, on_online begins.        *)
Bind(st, t, j) ==
  Goto([st EXCEPT !.sock_id[j.role] = j.sock, !.sock_role[j.sock] = j.role],
       t, [j EXCEPT !.pc = "online", !.obj = NoRole, !.clear = FALSE, !.then = "end"])

Save(st, t, j) ==
  LET u == st.uuid[j.obj] IN
  IF Vacant(st, u)
  THEN SaveLocked(Lock(st, t, u), t, j)
  ELSE WaitLock(st, t, u, [j EXCEPT !.pc = "saveLock"])

(* logout: the role leaves its connection and is saved.                    *)
Logout(st, t, j) ==
  LET s == st.sock_id[j.obj] IN
  Save([st EXCEPT !.sock_role = IF s \in sock_dict THEN [@ EXCEPT ![s] = NoRole] ELSE @,
                  !.sock_id[j.obj] = NoSock],
       t, j)

(* ls_close_sock for the connection of the role                            *)
CloseSock(st, o) == [st EXCEPT !.closing = @ \cup {st.sock_id[o]}]

(* login from the second test on: a role that has another connection is    *)
(* logged out without being removed.                                       *)
Takeover(st, t, j) ==
  IF st.sock_id[j.role] \in Socks \ {j.sock}
  THEN LET out == Logout(CloseSock(st, j.role), t,
                         [j EXCEPT !.obj = j.role, !.clear = FALSE, !.then = "bind"]) IN
       IF out.job[t].pc = "saved" THEN Bind(out, t, out.job[t]) ELSE out
  ELSE Bind(st, t, j)

(* What follows a save that did not wait, or waited long enough.           *)
Resume(st, t) ==
  LET j == st.job[t] IN
  IF j.pc # "saved" THEN st
  ELSE CASE j.then = "end"      -> End(st, t, j)
         [] j.then = "takeover" -> Takeover(st, t, j)
         [] j.then = "bind"     -> Bind(st, t, j)

(* login: another role of the same connection is logged out first.         *)
Login(st, t, j) ==
  LET other == st.sock_role[j.sock]
      cancelled == [st EXCEPT !.timer[j.role] = FALSE] IN
  IF other \notin {NoRole, j.role}
  THEN Resume(Logout(cancelled, t,
                     [j EXCEPT !.obj = other, !.clear = TRUE, !.then = "takeover"]), t)
  ELSE Takeover(cancelled, t, j)

(* Mutant: login runs before the lock is released, not after.              *)
MutLoggedIn(st, t, j) == Login(st, t, j)

(* load is over, c_login goes on with login.                               *)
LoggedIn(st, t, j) == Login(Unlock(st, j.uuid), t, j)

(* A role object nobody can reach any more.                                *)
Unused(o) ==
  /\ \A u \in Uuids : role_dict[u] # o /\ db_dict[u] # o
  /\ \A s \in Socks : sock_role[s] # o
  /\ \A t \in Threads : job[t].role # o /\ job[t].obj # o
  /\ ~timer_logout[o]

(* role_cls.new with the db, and its entry in role_dict.                   *)
NewRole(st, u, o) ==
  [st EXCEPT !.uuid[o] = u, !.sock_id[o] = NoSock, !.timer[o] = FALSE,
             !.db[u] = o, !.role_dict[u] = o]

(* Mutant: the role is looked up before the lock is taken, not after.      *)
MutLoadLocked(st, t, j) == Goto(st, t, [j EXCEPT !.pc = "loading"])

(* _load with the lock.  It waits for the database unless the role is      *)
(* there.                                                                  *)
LoadLocked(st, t, j) ==
  LET u == j.uuid
      o == st.role_dict[u] IN
  IF o # NoRole
  THEN LoggedIn(st, t, [j EXCEPT !.role = o])
  ELSE Goto(st, t, [j EXCEPT !.pc = "loading"])

-----------------------------------------------------------------------------
(* A connection runs one handler at a time (sock.lock).                    *)
Free(t) == job[t].pc = "idle"
Quiet(s) == s \in sock_dict /\ \A t \in Threads : job[t].sock # s

(* ls_on_accept_sock                                                       *)
Accept(s) ==
  /\ s \notin sock_dict
  /\ \A t \in Threads : job[t].sock # s
  /\ \A o \in Roles : sock_id[o] # s
  /\ sock_dict' = sock_dict \cup {s}
  /\ sock_role' = [sock_role EXCEPT ![s] = NoRole]
  /\ UNCHANGED <<roleVars, closing, owner, queue, job>>

(* ls_on_close_sock and on_disconnect                                      *)
Close(s) ==
  LET o == sock_role[s] IN
  /\ s \in sock_dict
  /\ sock_dict' = sock_dict \ {s}
  /\ closing' = closing \ {s}
  /\ sock_role' = [sock_role EXCEPT ![s] = NoRole]
  /\ IF o # NoRole
     THEN /\ sock_id' = [sock_id EXCEPT ![o] = NoSock]
          /\ timer_logout' = [timer_logout EXCEPT ![o] = TRUE]
     ELSE UNCHANGED <<sock_id, timer_logout>>
  /\ UNCHANGED <<role_dict, uuid, db_dict, owner, queue, job>>

(* c_login                                                                 *)
CLogin(t, s, u) ==
  /\ Free(t) /\ Quiet(s)
  /\ job' = [job EXCEPT ![t] = [Idle EXCEPT !.pc = "player", !.sock = s, !.uuid = u]]
  /\ UNCHANGED <<sockVars, roleVars, owner, queue>>

(* The player of the account is there, or there is none yet.               *)
PlayerLoaded(t) ==
  /\ job[t].pc = "player"
  /\ \/ Become(IF Vacant(State, job[t].uuid)
                THEN LoadLocked(Lock(State, t, job[t].uuid), t, job[t])
                ELSE WaitLock(State, t, job[t].uuid, [job[t] EXCEPT !.pc = "loadLock"]))
     \/ Become(End(State, t, job[t]))

(* The database has the role, or the load fails: it has not, or there is   *)
(* an error.  Bound: it fails when all role objects are in use.            *)
RoleLoaded(t) ==
  LET u == job[t].uuid IN
  /\ job[t].pc = "loading"
  /\ \/ \E o \in Roles :
          /\ Unused(o)
          /\ Become(LoggedIn(NewRole(State, u, o), t, [job[t] EXCEPT !.role = o]))
     \/ Become(End(Unlock(State, u), t, job[t]))

(* The rest of login.                                                      *)
OnlineDone(t) ==
  /\ job[t].pc = "online"
  /\ job' = [job EXCEPT ![t] = Idle]
  /\ UNCHANGED <<sockVars, roleVars, owner, queue>>

(* c_reconnect with the token of the role: the one of its last login, none *)
(* before the first has ended.  The gate is told to close the old          *)
(* connection.                                                             *)
CReconnect(s, u) ==
  LET o == role_dict[u]
      old == sock_id[o] IN
  /\ Quiet(s)
  /\ o # NoRole
  /\ timer_logout' = [timer_logout EXCEPT ![o] = FALSE]
  /\ sock_role' = [[r \in Socks |-> IF r = old /\ r \in sock_dict THEN NoRole ELSE sock_role[r]]
                     EXCEPT ![s] = o]
  /\ sock_id' = [sock_id EXCEPT ![o] = s]
  /\ closing' = closing \cup ({old} \cap sock_dict)
  /\ UNCHANGED <<sock_dict, role_dict, uuid, db_dict, owner, queue, job>>

LogoutJob(o, s) == [Idle EXCEPT !.obj = o, !.clear = TRUE, !.sock = s]

(* c_client_quit                                                           *)
CClientQuit(t, s, u) ==
  /\ Free(t) /\ Quiet(s)
  /\ role_dict[u] # NoRole
  /\ Become(Resume(Logout(State, t, LogoutJob(role_dict[u], s)), t))

(* kick, by a game master or at shutdown                                   *)
Kick(t, u) ==
  /\ Free(t)
  /\ role_dict[u] # NoRole
  /\ Become(Resume(Logout(CloseSock(State, role_dict[u]), t, LogoutJob(role_dict[u], NoSock)), t))

(* half an hour after on_disconnect                                        *)
LogoutTimer(t, o) ==
  /\ Free(t)
  /\ timer_logout[o]
  /\ Become(Resume(Logout([State EXCEPT !.timer[o] = FALSE], t, LogoutJob(o, NoSock)), t))

(* timer_auto_save                                                         *)
AutoSave(t, u) ==
  /\ Free(t)
  /\ role_dict[u] # NoRole
  /\ Become(Resume(Save(State, t, [Idle EXCEPT !.obj = role_dict[u]]), t))

(* The lock is free and the first of its queue gets it.                    *)
Grant(u) ==
  LET t == Head(queue[u])
      st == [State EXCEPT !.queue[u] = Tail(@), !.owner[u] = t] IN
  /\ queue[u] # <<>>
  /\ Vacant(State, u)
  /\ Become(IF job[t].pc = "loadLock"
            THEN LoadLocked(st, t, job[t])
            ELSE Resume(SaveLocked(st, t, job[t]), t))

(* The database has the role; the lock is released.                        *)
Saved(t) ==
  LET j == job[t] IN
  /\ j.pc = "saving"
  /\ Become(Resume(Goto(AfterSave(Unlock(State, uuid[j.obj]), j), t, [j EXCEPT !.pc = "saved"]), t))

-----------------------------------------------------------------------------
Init ==
  /\ sock_dict = {}
  /\ sock_role = [s \in Socks |-> NoRole]
  /\ role_dict = [u \in Uuids |-> NoRole]
  /\ uuid = [o \in Roles |-> NoUuid]
  /\ sock_id = [o \in Roles |-> NoSock]
  /\ timer_logout = [o \in Roles |-> FALSE]
  /\ db_dict = [u \in Uuids |-> NoRole]
  /\ owner = [u \in Uuids |-> NoThread]
  /\ queue = [u \in Uuids |-> <<>>]
  /\ closing = {}
  /\ job = [t \in Threads |-> Idle]

ThreadStep(t) == PlayerLoaded(t) \/ RoleLoaded(t) \/ OnlineDone(t) \/ Saved(t)

Next ==
  \/ \E s \in Socks : Accept(s) \/ Close(s)
  \/ \E s \in Socks, u \in Uuids : CReconnect(s, u)
  \/ \E t \in Threads, s \in Socks, u \in Uuids : CLogin(t, s, u) \/ CClientQuit(t, s, u)
  \/ \E t \in Threads, u \in Uuids : Kick(t, u) \/ AutoSave(t, u)
  \/ \E t \in Threads, o \in Roles : LogoutTimer(t, o)
  \/ \E t \in Threads : ThreadStep(t)
  \/ \E u \in Uuids : Grant(u)

Spec == Init /\ [][Next]_vars

-----------------------------------------------------------------------------
TypeOK ==
  /\ sock_dict \subseteq Socks
  /\ sock_role \in [Socks -> Roles \cup {NoRole}]
  /\ role_dict \in [Uuids -> Roles \cup {NoRole}]
  /\ uuid \in [Roles -> Uuids \cup {NoUuid}]
  /\ sock_id \in [Roles -> Socks \cup {NoSock}]
  /\ timer_logout \in [Roles -> BOOLEAN]
  /\ db_dict \in [Uuids -> Roles \cup {NoRole}]
  /\ owner \in [Uuids -> Threads \cup {NoThread}]
  /\ queue \in [Uuids -> Seq(Threads)]
  /\ closing \subseteq sock_dict
  /\ job \in [Threads -> Job]
  /\ \A t \in Threads : job[t].pc = "loading" => owner[job[t].uuid] = t
  /\ \A t \in Threads : job[t].pc = "saving" => owner[uuid[job[t].obj]] = t

(* A loaded role is saved under its uuid and an unloaded one leaves no     *)
(* entry behind, whoever logs it in and out at the same time (role_db.lua, *)
(* role_cls.lua: load, logout).                                            *)
EntryMatchesRole ==
  \A u \in Uuids : owner[u] = NoThread => db_dict[u] = role_dict[u]

(* No role object is replaced by another one: two logins never load the    *)
(* same role twice (role_cls.load).                                        *)
NeverReplaced ==
  [][\A u \in Uuids : role_dict[u] # NoRole => role_dict'[u] \in {role_dict[u], NoRole}]_vars

(* Who owns the lock of a role waits for the database, never for another   *)
(* lock: two logins that cross, each on a connection that has the role the *)
(* other wants, never wait for each other (role_cls._load, login, logout). *)
OwnersDoNotWait ==
  \A u \in Uuids, t \in Threads : owner[u] = t => job[t].pc \in {"loading", "saving"}

(* Nobody is in the middle of a handler that concerns o.                   *)
Undisturbed(o) == \A t \in Threads : job[t].role # o /\ job[t].obj # o

(* A role without a connection will be logged out ("half an hour later",   *)
(* role_cls.lua, on_disconnect).                                           *)
LogoutScheduled ==
  \A u \in Uuids :
    (role_dict[u] # NoRole /\ Undisturbed(role_dict[u])) =>
      \/ sock_id[role_dict[u]] \in sock_dict
      \/ timer_logout[role_dict[u]]

(* A login displaces the other connection of the role (role_cls.lua,       *)
(* login) and so does a reconnection: when no handler is at it any more,   *)
(* at most one connection acts for a role, not counting those the gate is  *)
(* to close.                                                               *)
LoginDisplaces ==
  \A r, s \in sock_dict \ closing :
    (sock_role[r] # NoRole /\ sock_role[r] = sock_role[s] /\ Undisturbed(sock_role[r])) => r = s
=============================================================================
