------------------------- MODULE RoleSessionProofs -------------------------
(***************************************************************************)
(* The inductive invariant of RoleSession.  It is stated for the state in  *)
(* the middle of a step of one coroutine, whose own job it leaves out, so  *)
(* that role_cls's functions can be followed one call at a time: what      *)
(* makes logins, logouts and saves safe is that only the owner of a role   *)
(* lock touches the entry and the role of its account (EntryInv).          *)
(***************************************************************************)
EXTENDS RoleSession, TLAPS

(* A job in the middle of a step has also the program counter "saved".     *)
JobX == [pc : {"idle", "player", "loadLock", "loading", "saveLock", "saving", "online", "saved"},
         uuid : Uuids \cup {NoUuid}, sock : Socks \cup {NoSock},
         role : Roles \cup {NoRole}, obj : Roles \cup {NoRole},
         clear : BOOLEAN, then : {"end", "takeover", "bind"}]

States == [sock_role : [Socks -> Roles \cup {NoRole}],
           role_dict : [Uuids -> Roles \cup {NoRole}],
           uuid      : [Roles -> Uuids \cup {NoUuid}],
           sock_id   : [Roles -> Socks \cup {NoSock}],
           timer     : [Roles -> BOOLEAN],
           db        : [Uuids -> Roles \cup {NoRole}],
           owner     : [Uuids -> Threads \cup {NoThread}],
           queue     : [Uuids -> Seq(Threads)],
           closing   : SUBSET (Socks \cup {NoSock}),
           job       : [Threads -> JobX]]

(* A role object that was made for an account.                             *)
Known(st, o) == o \in Roles /\ st.uuid[o] \in Uuids

(* What the functions of role_cls find in their arguments.                 *)
JobRefs(st, j) ==
  /\ j \in JobX
  /\ j.role # NoRole => Known(st, j.role)
  /\ j.obj # NoRole => Known(st, j.obj)
  /\ j.then # "end" => j.sock \in Socks /\ j.role # NoRole

(* What a coroutine that waits has at hand.                                *)
JobInv(st, j) ==
  /\ j \in Job
  /\ JobRefs(st, j)
  /\ j.pc \in {"player", "loadLock", "loading"} => j.uuid \in Uuids /\ j.sock \in Socks
  /\ j.pc \in {"saveLock", "saving"} => j.obj # NoRole
  /\ j.pc = "online" => j.role # NoRole

(* A coroutine with the job j waits for the lock of u, or works under it.  *)
Wants(st, j, u) ==
  \/ j.pc = "loadLock" /\ j.uuid = u
  \/ j.pc = "saveLock" /\ st.uuid[j.obj] = u

Works(st, j, u) ==
  \/ j.pc = "loading" /\ j.uuid = u
  \/ j.pc = "saving" /\ st.uuid[j.obj] = u

(* Without the lock of u the entry of u is that of its role; under it a    *)
(* load has found neither, and a save has dropped the entry or kept it.    *)
EntryInv(st, u) ==
  LET x == st.owner[u] IN
  /\ x = NoThread => st.db[u] = st.role_dict[u]
  /\ x # NoThread =>
       /\ st.job[x].pc = "loading" => st.db[u] = NoRole /\ st.role_dict[u] = NoRole
       /\ st.job[x].pc = "saving" => st.db[u] = IF st.job[x].clear THEN NoRole ELSE st.role_dict[u]

OwnerInv(st, t) ==
  /\ \A u \in Uuids : st.owner[u] # NoThread =>
       st.owner[u] # t /\ Works(st, st.job[st.owner[u]], u)
  /\ \A x \in Threads, u \in Uuids : (x # t /\ Works(st, st.job[x], u)) => st.owner[u] = x

QueueInv(st, t) ==
  \A u \in Uuids : \A i \in 1 .. Len(st.queue[u]) :
    /\ st.queue[u][i] # t
    /\ Wants(st, st.job[st.queue[u][i]], u)
    /\ \A j \in 1 .. Len(st.queue[u]) : st.queue[u][j] = st.queue[u][i] => j = i

RefInv(st) ==
  /\ \A u \in Uuids : st.role_dict[u] # NoRole => st.uuid[st.role_dict[u]] = u
  /\ \A u \in Uuids : st.db[u] # NoRole => st.uuid[st.db[u]] = u
  /\ \A s \in Socks : st.sock_role[s] # NoRole => Known(st, st.sock_role[s])
  /\ \A o \in Roles : st.timer[o] => Known(st, o)

(* The state while the coroutine t runs (NoThread: none does); no role of  *)
(* d has been replaced.                                                    *)
SInv(st, t, d) ==
  /\ st \in States
  /\ \A x \in Threads : x # t => JobInv(st, st.job[x])
  /\ OwnerInv(st, t)
  /\ QueueInv(st, t)
  /\ RefInv(st)
  /\ \A u \in Uuids : EntryInv(st, u)
  /\ \A u \in Uuids : st.role_dict[u] \in {d[u], NoRole}

IInv == sock_dict \subseteq Socks /\ closing \subseteq sock_dict /\ SInv(State, NoThread, role_dict)
-----------------------------------------------------------------------------
LEMMA FieldTypes ==
  ASSUME NEW st \in States
  PROVE  /\ st.sock_role \in [Socks -> Roles \cup {NoRole}]
         /\ st.role_dict \in [Uuids -> Roles \cup {NoRole}]
         /\ st.uuid \in [Roles -> Uuids \cup {NoUuid}]
         /\ st.sock_id \in [Roles -> Socks \cup {NoSock}]
         /\ st.timer \in [Roles -> BOOLEAN]
         /\ st.db \in [Uuids -> Roles \cup {NoRole}]
         /\ st.owner \in [Uuids -> Threads \cup {NoThread}]
         /\ st.queue \in [Uuids -> Seq(Threads)]
         /\ st.closing \in SUBSET (Socks \cup {NoSock})
         /\ st.job \in [Threads -> JobX]
BY DEF States

LEMMA JobTypes ==
  ASSUME NEW j \in JobX
  PROVE  /\ j.uuid \in Uuids \cup {NoUuid} /\ j.sock \in Socks \cup {NoSock}
         /\ j.role \in Roles \cup {NoRole} /\ j.obj \in Roles \cup {NoRole}
         /\ j.clear \in BOOLEAN /\ j.then \in {"end", "takeover", "bind"}
BY DEF JobX

LEMMA JobIsJobX == ASSUME NEW j \in Job PROVE j \in JobX
BY DEF Job, JobX

SameLocks(st, st2) ==
  /\ \A u \in Uuids : st2.owner[u] = st.owner[u] /\ st2.queue[u] = st.queue[u]
  /\ \A o \in Roles : st2.uuid[o] = st.uuid[o]

SameEntries(st, st2) ==
  \A u \in Uuids : st2.role_dict[u] = st.role_dict[u] /\ st2.db[u] = st.db[u]

SameJobs(st, st2, t) == \A x \in Threads : x # t => st2.job[x] = st.job[x]

(* Connections and timers may only point to known roles.                   *)
GoodLinks(st, st2) ==
  /\ \A s \in Socks : \/ st2.sock_role[s] \in {NoRole, st.sock_role[s]}
                       \/ Known(st, st2.sock_role[s])
  /\ \A o \in Roles : st2.timer[o] => (st.timer[o] \/ Known(st, o))

LEMMA InQueue ==
  ASSUME NEW st \in States, NEW u \in Uuids
  PROVE  /\ st.queue[u] \in Seq(Threads)
         /\ Len(st.queue[u]) \in Nat
         /\ \A i \in 1 .. Len(st.queue[u]) : st.queue[u][i] \in Threads
<1>1. st.queue[u] \in Seq(Threads)
  BY FieldTypes
<1>2. QED
  BY <1>1

(* Steps that change no lock, no entry and no role of an account.          *)
LEMMA Frame ==
  ASSUME NEW st, NEW st2 \in States, NEW t, NEW d, SInv(st, t, d),
         SameLocks(st, st2), SameEntries(st, st2), SameJobs(st, st2, t), GoodLinks(st, st2)
  PROVE  SInv(st2, t, d)
<1>1. st \in States
  BY DEF SInv
<1>2. \A o : Known(st2, o) <=> Known(st, o)
  BY DEF SameLocks, Known
<1>3. \A x \in Threads : x # t => JobInv(st2, st2.job[x])
  BY <1>2 DEF SInv, JobInv, JobRefs, SameJobs
<1>4. \A u \in Uuids : st.owner[u] # NoThread => st.owner[u] # t /\ st.owner[u] \in Threads
  BY <1>1, FieldTypes DEF SInv, OwnerInv
<1>5. \A x \in Threads, u \in Uuids : x # t =>
        /\ Works(st2, st2.job[x], u) <=> Works(st, st.job[x], u)
        /\ Wants(st2, st2.job[x], u) <=> Wants(st, st.job[x], u)
  BY <1>3 DEF SameJobs, SameLocks, Works, Wants, JobInv, JobRefs, Known
<1>6. OwnerInv(st2, t)
  BY <1>4, <1>5 DEF SInv, OwnerInv, SameLocks
<1>7. QueueInv(st2, t)
  BY <1>1, <1>5, InQueue DEF SInv, QueueInv, SameLocks
<1>8. RefInv(st2)
  <2>1. \A u \in Uuids : st.role_dict[u] \in Roles \cup {NoRole} /\ st.db[u] \in Roles \cup {NoRole}
    BY <1>1, FieldTypes
  <2>2. QED
    BY <1>2, <2>1 DEF SInv, RefInv, SameLocks, SameEntries, GoodLinks
<1>9. \A u \in Uuids : EntryInv(st2, u)
  BY <1>4 DEF SInv, EntryInv, SameLocks, SameEntries, SameJobs
<1>10. QED
  BY <1>3, <1>6, <1>7, <1>8, <1>9 DEF SInv, SameEntries

(* What the elementary updates leave alone.                                *)
LEMMA GotoFields ==
  ASSUME NEW st \in States, NEW t \in Threads, NEW j \in JobX, NEW st2, st2 = Goto(st, t, j)
  PROVE  /\ st2 \in States
         /\ st2.job[t] = j
         /\ \A x \in Threads : x # t => st2.job[x] = st.job[x]
         /\ st2.sock_role = st.sock_role /\ st2.role_dict = st.role_dict /\ st2.uuid = st.uuid
         /\ st2.sock_id = st.sock_id /\ st2.timer = st.timer
         /\ st2.db = st.db /\ st2.owner = st.owner /\ st2.queue = st.queue
         /\ st2.closing = st.closing
BY DEF Goto, States

LEMMA GotoMid ==
  ASSUME NEW st, NEW t \in Threads, NEW d, SInv(st, t, d), NEW j \in JobX
  PROVE  SInv(Goto(st, t, j), t, d)
<1>1. st \in States
  BY DEF SInv
<1>2. PICK st2 : st2 = Goto(st, t, j)
  OBVIOUS
<1>3. /\ st2 \in States
      /\ SameLocks(st, st2) /\ SameEntries(st, st2) /\ SameJobs(st, st2, t) /\ GoodLinks(st, st2)
  BY <1>1, <1>2, GotoFields DEF SameLocks, SameEntries, SameJobs, GoodLinks
<1>4. QED
  BY <1>2, <1>3, Frame

(* The coroutine begins to wait for something that is no lock.             *)
LEMMA Settle ==
  ASSUME NEW st, NEW t \in Threads, NEW d, SInv(st, t, d),
         JobInv(st, st.job[t]), st.job[t].pc \in {"idle", "player", "online"}
  PROVE  SInv(st, NoThread, d)
<1>1. st \in States
  BY DEF SInv
<1>2. \A u \in Uuids : ~Works(st, st.job[t], u)
  BY DEF Works
<1>3. \A u \in Uuids : \A i \in 1 .. Len(st.queue[u]) : st.queue[u][i] \in Threads
  BY <1>1, InQueue
<1>4. NoThread \notin Threads
  BY RoleSessionAssumption
<1>5. OwnerInv(st, NoThread)
  BY <1>2, <1>4 DEF SInv, OwnerInv
<1>6. QueueInv(st, NoThread)
  BY <1>3, <1>4 DEF SInv, QueueInv
<1>7. QED
  BY <1>5, <1>6 DEF SInv
-----------------------------------------------------------------------------
(* Taking, giving back and removing: pointwise.                            *)
SameLinks(st, st2) ==
  /\ st2.sock_role = st.sock_role /\ st2.sock_id = st.sock_id
  /\ st2.closing = st.closing

LEMMA LockFields ==
  ASSUME NEW st \in States, NEW t \in Threads, NEW u \in Uuids, NEW st2, st2 = Lock(st, t, u)
  PROVE  /\ st2 \in States
         /\ st2.owner[u] = t
         /\ \A v \in Uuids : v # u => st2.owner[v] = st.owner[v]
         /\ st2.role_dict = st.role_dict /\ st2.uuid = st.uuid /\ st2.timer = st.timer
         /\ st2.db = st.db /\ st2.queue = st.queue /\ st2.job = st.job
         /\ SameLinks(st, st2)
BY DEF Lock, States, SameLinks

LEMMA UnlockFields ==
  ASSUME NEW st \in States, NEW u \in Uuids, NEW st2, st2 = Unlock(st, u)
  PROVE  /\ st2 \in States
         /\ st2.owner[u] = NoThread
         /\ \A v \in Uuids : v # u => st2.owner[v] = st.owner[v]
         /\ st2.role_dict = st.role_dict /\ st2.uuid = st.uuid /\ st2.timer = st.timer
         /\ st2.db = st.db /\ st2.queue = st.queue /\ st2.job = st.job
         /\ SameLinks(st, st2)
BY DEF Unlock, States, SameLinks

LEMMA RemoveFields ==
  ASSUME NEW st \in States, NEW o \in Roles, NEW u \in Uuids, st.uuid[o] = u,
         NEW st2, st2 = Remove(st, o)
  PROVE  /\ st2 \in States
         /\ st2.role_dict[u] = NoRole
         /\ \A v \in Uuids : v # u => st2.role_dict[v] = st.role_dict[v]
         /\ \A x \in Roles : st2.timer[x] => st.timer[x]
         /\ st2.owner = st.owner /\ st2.uuid = st.uuid
         /\ st2.db = st.db /\ st2.queue = st.queue /\ st2.job = st.job
         /\ SameLinks(st, st2)
<1>1. st.role_dict \in [Uuids -> Roles \cup {NoRole}] /\ st.timer \in [Roles -> BOOLEAN]
  BY FieldTypes
<1>2. st2 = [st EXCEPT !.timer = [st.timer EXCEPT ![o] = FALSE],
                       !.role_dict = [st.role_dict EXCEPT ![u] = NoRole]]
  BY DEF Remove, States
<1>3. /\ [st.timer EXCEPT ![o] = FALSE] \in [Roles -> BOOLEAN]
      /\ [st.role_dict EXCEPT ![u] = NoRole] \in [Uuids -> Roles \cup {NoRole}]
  BY <1>1
<1>4. st2 \in States
  BY <1>2, <1>3 DEF States
<1>5. /\ st2.timer = [st.timer EXCEPT ![o] = FALSE]
      /\ st2.role_dict = [st.role_dict EXCEPT ![u] = NoRole]
      /\ st2.owner = st.owner /\ st2.uuid = st.uuid
      /\ st2.db = st.db /\ st2.queue = st.queue /\ st2.job = st.job
      /\ SameLinks(st, st2)
  BY <1>2 DEF States, SameLinks
<1>6. QED
  BY <1>1, <1>4, <1>5

LEMMA AfterSaveFields ==
  ASSUME NEW st \in States, NEW j \in JobX, j.obj \in Roles, NEW u \in Uuids, st.uuid[j.obj] = u,
         NEW st2, st2 = AfterSave(st, j)
  PROVE  /\ st2 \in States
         /\ st2.role_dict[u] = IF j.clear THEN NoRole ELSE st.role_dict[u]
         /\ \A v \in Uuids : v # u => st2.role_dict[v] = st.role_dict[v]
         /\ \A x \in Roles : st2.timer[x] => st.timer[x]
         /\ st2.owner = st.owner /\ st2.uuid = st.uuid
         /\ st2.db = st.db /\ st2.queue = st.queue /\ st2.job = st.job
         /\ SameLinks(st, st2)
<1>1. CASE j.clear
  BY <1>1, RemoveFields DEF AfterSave
<1>2. CASE ~j.clear
  BY <1>2 DEF AfterSave, SameLinks
<1>3. QED
  BY <1>1, <1>2

(* The entry of u is dropped, or not.                                      *)
Drop(st, u, b) == [st EXCEPT !.db[u] = IF b THEN NoRole ELSE @]

LEMMA DropFields ==
  ASSUME NEW st \in States, NEW u \in Uuids, NEW b \in BOOLEAN,
         NEW st2, st2 = Drop(st, u, b)
  PROVE  /\ st2 \in States
         /\ st2.db[u] = IF b THEN NoRole ELSE st.db[u]
         /\ \A v \in Uuids : v # u => st2.db[v] = st.db[v]
         /\ st2.role_dict = st.role_dict /\ st2.uuid = st.uuid /\ st2.timer = st.timer
         /\ st2.owner = st.owner /\ st2.queue = st.queue /\ st2.job = st.job
         /\ SameLinks(st, st2)
<1>1. st.db \in [Uuids -> Roles \cup {NoRole}]
  BY FieldTypes
<1>2. PICK w \in Roles \cup {NoRole} : w = IF b THEN NoRole ELSE st.db[u]
  BY <1>1
<1>3. PICK db2 : db2 = [st.db EXCEPT ![u] = w]
  OBVIOUS
<1>4. /\ db2 \in [Uuids -> Roles \cup {NoRole}]
      /\ db2[u] = w
      /\ \A v \in Uuids : v # u => db2[v] = st.db[v]
  BY <1>1, <1>3
<1>5. st2 = [st EXCEPT !.db = db2]
  BY <1>2, <1>3 DEF Drop
<1>6. /\ st2 \in States
      /\ st2.db = db2
      /\ st2.role_dict = st.role_dict /\ st2.uuid = st.uuid /\ st2.timer = st.timer
      /\ st2.owner = st.owner /\ st2.queue = st.queue /\ st2.job = st.job
      /\ SameLinks(st, st2)
  BY <1>4, <1>5 DEF States, SameLinks
<1>7. QED
  BY <1>2, <1>4, <1>6
-----------------------------------------------------------------------------
(* What a function leaves behind: its coroutine waits, or goes on after a  *)
(* save.                                                                   *)
Mid(st, t, d, then) ==
  /\ SInv(st, t, d)
  /\ st.job[t].pc = "saved"
  /\ st.job[t].then = then
  /\ JobRefs(st, st.job[t])

Ok(st, t, d, then) == SInv(st, NoThread, d) \/ Mid(st, t, d, then)

LEMMA JobPc ==
  ASSUME NEW st, NEW j, JobRefs(st, j),
         NEW p \in {"idle", "player", "loadLock", "loading", "saveLock", "saving", "online", "saved"},
         NEW k, k = [j EXCEPT !.pc = p]
  PROVE  /\ k \in JobX /\ JobRefs(st, k) /\ k.pc = p
         /\ k.uuid = j.uuid /\ k.sock = j.sock /\ k.role = j.role /\ k.obj = j.obj
         /\ k.clear = j.clear /\ k.then = j.then
         /\ p # "saved" => k \in Job
<1>1. j \in JobX
  BY DEF JobRefs
<1>2. /\ k \in JobX /\ k.pc = p
      /\ k.uuid = j.uuid /\ k.sock = j.sock /\ k.role = j.role /\ k.obj = j.obj
      /\ k.clear = j.clear /\ k.then = j.then
      /\ p # "saved" => k \in Job
  BY <1>1 DEF JobX, Job
<1>3. QED
  BY <1>2 DEF JobRefs

(* The coroutine takes the free lock of u and waits for the database.      *)
LEMMA Taken ==
  ASSUME NEW st, NEW t \in Threads, NEW d, SInv(st, t, d),
         NEW u \in Uuids, st.owner[u] = NoThread,
         NEW st2 \in States, st2.owner[u] = t, st2.uuid = st.uuid, st2.queue = st.queue,
         \A v \in Uuids : v # u => st2.owner[v] = st.owner[v] /\ st2.db[v] = st.db[v],
         st2.role_dict = st.role_dict, st2.db[u] \in {NoRole, st.db[u]},
         SameJobs(st, st2, t), GoodLinks(st, st2),
         Works(st2, st2.job[t], u), JobInv(st2, st2.job[t]), EntryInv(st2, u)
  PROVE  SInv(st2, NoThread, d)
<1>1. st \in States /\ NoThread \notin Threads
  BY RoleSessionAssumption DEF SInv
<1>2. \A o : Known(st2, o) <=> Known(st, o)
  BY DEF Known
<1>3. \A x \in Threads : JobInv(st2, st2.job[x])
  BY <1>2 DEF SInv, JobInv, JobRefs, SameJobs
<1>4. \A v \in Uuids : st.owner[v] # NoThread => st.owner[v] # t /\ st.owner[v] \in Threads
  BY <1>1, FieldTypes DEF SInv, OwnerInv
<1>5. \A x \in Threads, v \in Uuids : x # t =>
        /\ Works(st2, st2.job[x], v) <=> Works(st, st.job[x], v)
        /\ Wants(st2, st2.job[x], v) <=> Wants(st, st.job[x], v)
  BY DEF SameJobs, Works, Wants
<1>6. \A v \in Uuids : Works(st2, st2.job[t], v) => v = u
  BY DEF Works
<1>7. OwnerInv(st2, NoThread)
  <2>1. ASSUME NEW v \in Uuids, st2.owner[v] # NoThread
        PROVE  Works(st2, st2.job[st2.owner[v]], v)
    BY <1>4, <1>5, <2>1 DEF SInv, OwnerInv
  <2>2. ASSUME NEW x \in Threads, NEW v \in Uuids, Works(st2, st2.job[x], v)
        PROVE  st2.owner[v] = x
    <3>1. CASE x = t
      BY <1>6, <2>2, <3>1
    <3>2. CASE x # t
      <4>1. st.owner[v] = x
        BY <1>5, <2>2, <3>2 DEF SInv, OwnerInv
      <4>2. v # u
        BY <1>1, <4>1
      <4>3. QED
        BY <4>1, <4>2
    <3>3. QED
      BY <3>1, <3>2
  <2>3. QED
    BY <2>1, <2>2 DEF OwnerInv
<1>8. QueueInv(st2, NoThread)
  BY <1>1, <1>5, InQueue DEF SInv, QueueInv
<1>9. RefInv(st2)
  <2>1. \A v \in Uuids : st2.db[v] \in {NoRole, st.db[v]}
    OBVIOUS
  <2>2. QED
    BY <1>2, <2>1 DEF SInv, RefInv, GoodLinks
<1>10. ASSUME NEW v \in Uuids, v # u PROVE EntryInv(st2, v)
  BY <1>4, <1>10 DEF SInv, EntryInv, SameJobs
<1>11. QED
  BY <1>3, <1>7, <1>8, <1>9, <1>10 DEF SInv

LEMMA SaveLockedOk ==
  ASSUME NEW st, NEW t \in Threads, NEW d, SInv(st, t, d),
         NEW u \in Uuids, st.owner[u] = NoThread,
         NEW j, JobRefs(st, j), j.obj \in Roles, st.uuid[j.obj] = u
  PROVE  Ok(SaveLocked(Lock(st, t, u), t, j), t, d, j.then)
<1>1. st \in States /\ j \in JobX /\ NoRole \notin Roles
  BY RoleSessionAssumption DEF SInv, JobRefs
<1>2. PICK lk : lk = Lock(st, t, u)
  OBVIOUS
<1>3. /\ lk \in States /\ lk.owner[u] = t
      /\ \A v \in Uuids : v # u => lk.owner[v] = st.owner[v]
      /\ lk.role_dict = st.role_dict /\ lk.uuid = st.uuid /\ lk.timer = st.timer
      /\ lk.db = st.db /\ lk.queue = st.queue /\ lk.job = st.job
      /\ SameLinks(st, lk)
  BY <1>1, <1>2, LockFields
<1>4. st.db[u] = st.role_dict[u]
  BY DEF SInv, EntryInv
<1>5. CASE lk.db[u] = NoRole
  <2>1. PICK ul : ul = Unlock(lk, u)
    OBVIOUS
  <2>2. PICK sv : sv = AfterSave(ul, j)
    OBVIOUS
  <2>3. PICK k : k = [j EXCEPT !.pc = "saved"]
    OBVIOUS
  <2>4. PICK st2 : st2 = Goto(sv, t, k)
    OBVIOUS
  <2>5. SaveLocked(lk, t, j) = st2
    BY <1>3, <1>5, <2>1, <2>2, <2>3, <2>4 DEF SaveLocked
  <2>6. /\ ul \in States /\ ul.owner[u] = NoThread
        /\ \A v \in Uuids : v # u => ul.owner[v] = st.owner[v]
        /\ ul.role_dict = st.role_dict /\ ul.uuid = st.uuid /\ ul.timer = st.timer
        /\ ul.db = st.db /\ ul.queue = st.queue /\ ul.job = st.job
        /\ SameLinks(st, ul)
    BY <1>3, <2>1, UnlockFields DEF SameLinks
  <2>7. /\ sv \in States
        /\ \A v \in Uuids : sv.role_dict[v] = st.role_dict[v]
        /\ \A x \in Roles : sv.timer[x] => st.timer[x]
        /\ sv.owner = ul.owner /\ sv.uuid = st.uuid
        /\ sv.db = st.db /\ sv.queue = st.queue /\ sv.job = st.job
        /\ SameLinks(st, sv)
    <3>1. /\ sv \in States
          /\ sv.role_dict[u] = IF j.clear THEN NoRole ELSE ul.role_dict[u]
          /\ \A v \in Uuids : v # u => sv.role_dict[v] = ul.role_dict[v]
          /\ \A x \in Roles : sv.timer[x] => ul.timer[x]
          /\ sv.owner = ul.owner /\ sv.uuid = ul.uuid
          /\ sv.db = ul.db /\ sv.queue = ul.queue /\ sv.job = ul.job
          /\ SameLinks(ul, sv)
      <4>1. ul.uuid[j.obj] = u
        BY <2>6
      <4>2. QED
        BY <1>1, <2>2, <2>6, <4>1, AfterSaveFields
    <3>2. sv.role_dict[u] = st.role_dict[u]
      BY <1>3, <1>4, <1>5, <2>6, <3>1
    <3>3. QED
      BY <2>6, <3>1, <3>2 DEF SameLinks
  <2>8. k \in JobX /\ JobRefs(st, k) /\ k.pc = "saved" /\ k.then = j.then
    BY <2>3, JobPc
  <2>9. /\ st2 \in States /\ st2.job[t] = k /\ SameJobs(st, st2, t)
        /\ st2.sock_role = st.sock_role /\ st2.timer = sv.timer
        /\ st2.role_dict = sv.role_dict /\ st2.db = st.db /\ st2.uuid = st.uuid
        /\ st2.owner = ul.owner /\ st2.queue = st.queue
    <3>1. /\ st2 \in States /\ st2.job[t] = k
          /\ \A x \in Threads : x # t => st2.job[x] = sv.job[x]
          /\ st2.sock_role = sv.sock_role /\ st2.timer = sv.timer
          /\ st2.role_dict = sv.role_dict /\ st2.db = sv.db /\ st2.uuid = sv.uuid
          /\ st2.owner = sv.owner /\ st2.queue = sv.queue
      <4>1. sv \in States /\ k \in JobX
        BY <2>7, <2>8
      <4>2. QED
        BY <2>4, <4>1, GotoFields
    <3>2. QED
      BY <2>7, <3>1 DEF SameLinks, SameJobs
  <2>10. SameLocks(st, st2) /\ SameEntries(st, st2) /\ GoodLinks(st, st2)
    BY <2>6, <2>7, <2>9 DEF SameLocks, SameEntries, GoodLinks
  <2>11. SInv(st2, t, d)
    BY <2>9, <2>10, Frame
  <2>12. JobRefs(st2, k)
    BY <2>8, <2>9 DEF JobRefs, Known
  <2>13. QED
    BY <1>2, <2>5, <2>8, <2>9, <2>11, <2>12 DEF Ok, Mid
<1>6. CASE lk.db[u] # NoRole
  <2>1. PICK dr : dr = Drop(lk, u, j.clear)
    OBVIOUS
  <2>2. PICK k : k = [j EXCEPT !.pc = "saving"]
    OBVIOUS
  <2>3. PICK st2 : st2 = Goto(dr, t, k)
    OBVIOUS
  <2>4. SaveLocked(lk, t, j) = st2
    BY <1>3, <1>6, <2>1, <2>2, <2>3 DEF SaveLocked, Drops, Drop
  <2>5. j.clear \in BOOLEAN
    BY <1>1, JobTypes
  <2>6. /\ dr \in States
        /\ dr.db[u] = IF j.clear THEN NoRole ELSE lk.db[u]
        /\ \A v \in Uuids : v # u => dr.db[v] = lk.db[v]
        /\ dr.role_dict = lk.role_dict /\ dr.uuid = lk.uuid /\ dr.timer = lk.timer
        /\ dr.owner = lk.owner /\ dr.queue = lk.queue /\ dr.job = lk.job
        /\ SameLinks(lk, dr)
    BY <1>3, <2>1, <2>5, DropFields
  <2>7. /\ k \in JobX /\ k \in Job /\ JobRefs(st, k) /\ k.pc = "saving"
        /\ k.obj = j.obj /\ k.clear = j.clear
    BY <2>2, JobPc
  <2>8. /\ st2 \in States /\ st2.job[t] = k /\ SameJobs(st, st2, t)
        /\ st2.sock_role = st.sock_role /\ st2.timer = st.timer
        /\ st2.role_dict = st.role_dict /\ st2.db = dr.db /\ st2.uuid = st.uuid
        /\ st2.owner = lk.owner /\ st2.queue = st.queue
    BY <1>3, <2>3, <2>6, <2>7, GotoFields DEF SameLinks, SameJobs
  <2>9. Works(st2, st2.job[t], u) /\ JobInv(st2, st2.job[t])
    BY <1>1, <2>7, <2>8 DEF Works, JobInv, JobRefs, Known
  <2>10. EntryInv(st2, u)
    <3>1. st2.owner[u] = t /\ t # NoThread
      BY <1>3, <2>8, RoleSessionAssumption
    <3>2. QED
      BY <1>3, <1>4, <2>6, <2>7, <2>8, <3>1 DEF EntryInv
  <2>11. GoodLinks(st, st2)
    BY <2>8 DEF GoodLinks
  <2>12. SInv(st2, NoThread, d)
    BY <1>3, <2>6, <2>8, <2>9, <2>10, <2>11, Taken
  <2>13. QED
    BY <1>2, <2>4, <2>12 DEF Ok
<1>7. QED
  BY <1>5, <1>6
-----------------------------------------------------------------------------
(* The coroutine joins the queue of a lock.                                *)
LEMMA WaitLockFields ==
  ASSUME NEW st \in States, NEW t \in Threads, NEW u \in Uuids, NEW k \in JobX,
         NEW st2, st2 = WaitLock(st, t, u, k)
  PROVE  /\ st2 \in States
         /\ st2.queue[u] = Append(st.queue[u], t)
         /\ \A v \in Uuids : v # u => st2.queue[v] = st.queue[v]
         /\ st2.job[t] = k /\ SameJobs(st, st2, t)
         /\ st2.role_dict = st.role_dict /\ st2.uuid = st.uuid /\ st2.timer = st.timer
         /\ st2.db = st.db /\ st2.owner = st.owner
         /\ SameLinks(st, st2)
<1>1. st.queue \in [Uuids -> Seq(Threads)] /\ Append(st.queue[u], t) \in Seq(Threads)
  BY FieldTypes
<1>2. PICK q : q = [st.queue EXCEPT ![u] = Append(st.queue[u], t)]
  OBVIOUS
<1>3. /\ q \in [Uuids -> Seq(Threads)] /\ q[u] = Append(st.queue[u], t)
      /\ \A v \in Uuids : v # u => q[v] = st.queue[v]
  BY <1>1, <1>2
<1>4. PICK st1 : st1 = [st EXCEPT !.queue = q]
  OBVIOUS
<1>5. /\ st1 \in States /\ st1.queue = q /\ st1.job = st.job
      /\ st1.role_dict = st.role_dict /\ st1.uuid = st.uuid /\ st1.timer = st.timer
      /\ st1.db = st.db /\ st1.owner = st.owner
      /\ SameLinks(st, st1)
  BY <1>3, <1>4 DEF States, SameLinks
<1>6. st2 = Goto(st1, t, k)
  BY <1>2, <1>4 DEF WaitLock
<1>7. /\ st2 \in States /\ st2.job[t] = k
      /\ \A x \in Threads : x # t => st2.job[x] = st1.job[x]
      /\ st2.sock_role = st1.sock_role /\ st2.role_dict = st1.role_dict /\ st2.uuid = st1.uuid
      /\ st2.sock_id = st1.sock_id /\ st2.timer = st1.timer
      /\ st2.db = st1.db /\ st2.owner = st1.owner /\ st2.queue = st1.queue
      /\ st2.closing = st1.closing
  <2>1. st1 \in States
    BY <1>5
  <2>2. QED
    BY <1>6, <2>1, GotoFields
<1>8. QED
  BY <1>3, <1>5, <1>7 DEF SameLinks, SameJobs

LEMMA Parked ==
  ASSUME NEW st, NEW t \in Threads, NEW d, SInv(st, t, d), NEW u \in Uuids,
         NEW k, JobInv(st, k), Wants(st, k, u)
  PROVE  SInv(WaitLock(st, t, u, k), NoThread, d)
<1>1. st \in States /\ k \in JobX /\ NoThread \notin Threads
  BY RoleSessionAssumption DEF SInv, JobInv, JobRefs
<1>2. PICK st2 : st2 = WaitLock(st, t, u, k)
  OBVIOUS
<1>3. /\ st2 \in States
      /\ st2.queue[u] = Append(st.queue[u], t)
      /\ \A v \in Uuids : v # u => st2.queue[v] = st.queue[v]
      /\ st2.job[t] = k /\ SameJobs(st, st2, t)
      /\ st2.role_dict = st.role_dict /\ st2.uuid = st.uuid /\ st2.timer = st.timer
      /\ st2.db = st.db /\ st2.owner = st.owner
      /\ SameLinks(st, st2)
  BY <1>1, <1>2, WaitLockFields
<1>4. \A o : Known(st2, o) <=> Known(st, o)
  BY <1>3 DEF Known
<1>5. \A x \in Threads : JobInv(st2, st2.job[x])
  BY <1>3, <1>4 DEF SInv, JobInv, JobRefs, SameJobs
<1>6. \A x \in Threads, v \in Uuids : x # t =>
        /\ Works(st2, st2.job[x], v) <=> Works(st, st.job[x], v)
        /\ Wants(st2, st2.job[x], v) <=> Wants(st, st.job[x], v)
  BY <1>3 DEF SameJobs, Works, Wants
<1>7. \A v \in Uuids : ~Works(st2, k, v)
  BY DEF Works, Wants
<1>8. \A v \in Uuids : st.owner[v] # NoThread => st.owner[v] # t /\ st.owner[v] \in Threads
  BY <1>1, FieldTypes DEF SInv, OwnerInv
<1>9. OwnerInv(st2, NoThread)
  BY <1>1, <1>3, <1>6, <1>7, <1>8 DEF SInv, OwnerInv
<1>10. QueueInv(st2, NoThread)
  <2>1. ASSUME NEW v \in Uuids, v # u, NEW i \in 1 .. Len(st2.queue[v])
        PROVE  /\ st2.queue[v][i] # NoThread
               /\ Wants(st2, st2.job[st2.queue[v][i]], v)
               /\ \A j \in 1 .. Len(st2.queue[v]) : st2.queue[v][j] = st2.queue[v][i] => j = i
    <3>1. st2.queue[v] = st.queue[v]
      BY <1>3, <2>1
    <3>2. \A n \in 1 .. Len(st.queue[v]) : st.queue[v][n] \in Threads
      BY <1>1, InQueue
    <3>3. \A n \in 1 .. Len(st.queue[v]) :
            /\ st.queue[v][n] # t
            /\ Wants(st, st.job[st.queue[v][n]], v)
            /\ \A j \in 1 .. Len(st.queue[v]) : st.queue[v][j] = st.queue[v][n] => j = n
      BY DEF SInv, QueueInv
    <3>4. QED
      BY <1>1, <1>6, <3>1, <3>2, <3>3
  <2>2. /\ Len(st.queue[u]) \in Nat
        /\ Len(st2.queue[u]) = Len(st.queue[u]) + 1
        /\ st2.queue[u][Len(st.queue[u]) + 1] = t
        /\ \A i \in 1 .. Len(st.queue[u]) :
             /\ st2.queue[u][i] = st.queue[u][i]
             /\ st.queue[u][i] \in Threads /\ st.queue[u][i] # t
             /\ Wants(st, st.job[st.queue[u][i]], u)
             /\ \A j \in 1 .. Len(st.queue[u]) : st.queue[u][j] = st.queue[u][i] => j = i
    <3>1. st.queue[u] \in Seq(Threads) /\ Len(st.queue[u]) \in Nat
      BY <1>1, InQueue
    <3>2. /\ Len(st2.queue[u]) = Len(st.queue[u]) + 1
          /\ st2.queue[u][Len(st.queue[u]) + 1] = t
          /\ \A i \in 1 .. Len(st.queue[u]) : st2.queue[u][i] = st.queue[u][i]
      BY <1>3, <3>1
    <3>3. QED
      BY <1>1, <3>1, <3>2, InQueue DEF SInv, QueueInv
  <2>3. Wants(st2, k, u)
    BY <1>3 DEF Wants
  <2>4. PICK n \in Nat : n = Len(st.queue[u])
    BY <2>2
  <2>5. PICK q : q = st2.queue[u]
    OBVIOUS
  <2>6. PICK p : p = st.queue[u]
    OBVIOUS
  <2>7. /\ Len(q) = n + 1 /\ q[n + 1] = t
        /\ \A i \in 1 .. n :
             /\ q[i] = p[i] /\ p[i] \in Threads /\ p[i] # t
             /\ Wants(st2, st2.job[p[i]], u)
             /\ \A j \in 1 .. n : p[j] = p[i] => j = i
    BY <1>6, <2>2, <2>4, <2>5, <2>6
  <2>8. 1 .. (n + 1) = (1 .. n) \cup {n + 1}
    OBVIOUS
  <2>9. ASSUME NEW i \in 1 .. Len(q)
        PROVE  /\ q[i] # NoThread
               /\ Wants(st2, st2.job[q[i]], u)
               /\ \A j \in 1 .. Len(q) : q[j] = q[i] => j = i
    <3>1. CASE i \in 1 .. n
      <4>1. q[i] = p[i] /\ q[i] # t /\ q[i] \in Threads /\ Wants(st2, st2.job[q[i]], u)
        BY <2>7, <3>1
      <4>2. \A j \in 1 .. n : q[j] = q[i] => j = i
        BY <2>7, <3>1
      <4>3. QED
        BY <1>1, <2>7, <2>8, <4>1, <4>2
    <3>2. CASE i = n + 1
      <4>1. q[i] = t
        BY <2>7, <3>2
      <4>2. \A j \in 1 .. n : q[j] # q[i]
        BY <2>7, <4>1
      <4>3. \A j \in 1 .. Len(q) : q[j] = q[i] => j = i
        BY <2>7, <2>8, <3>2, <4>2
      <4>4. QED
        BY <1>1, <1>3, <2>3, <4>1, <4>3
    <3>3. QED
      BY <2>7, <2>8, <3>1, <3>2
  <2>10. QED
    BY <2>1, <2>5, <2>9 DEF QueueInv
<1>11. RefInv(st2)
  BY <1>3, <1>4 DEF SInv, RefInv, SameLinks
<1>12. \A v \in Uuids : EntryInv(st2, v)
  BY <1>3, <1>8 DEF SInv, EntryInv, SameJobs
<1>13. SInv(st2, NoThread, d)
  BY <1>3, <1>5, <1>9, <1>10, <1>11, <1>12 DEF SInv
<1>14. QED
  BY <1>2, <1>13

LEMMA SaveOk ==
  ASSUME NEW st, NEW t \in Threads, NEW d, SInv(st, t, d),
         NEW j, JobRefs(st, j), j.obj # NoRole
  PROVE  Ok(Save(st, t, j), t, d, j.then)
<1>1. PICK u \in Uuids : st.uuid[j.obj] = u /\ j.obj \in Roles
  BY DEF JobRefs, Known
<1>2. CASE st.owner[u] = NoThread
  <2>1. Save(st, t, j) = SaveLocked(Lock(st, t, u), t, j)
    BY <1>1, <1>2 DEF Save, Vacant
  <2>2. QED
    BY <1>1, <1>2, <2>1, SaveLockedOk
<1>3. CASE st.owner[u] # NoThread
  <2>1. PICK k : k = [j EXCEPT !.pc = "saveLock"]
    OBVIOUS
  <2>2. Save(st, t, j) = WaitLock(st, t, u, k)
    BY <1>1, <1>3, <2>1 DEF Save, Vacant
  <2>3. k \in Job /\ JobRefs(st, k) /\ k.pc = "saveLock" /\ k.obj = j.obj
    BY <2>1, JobPc
  <2>4. JobInv(st, k) /\ Wants(st, k, u)
    BY <1>1, <2>3 DEF JobInv, Wants
  <2>5. QED
    BY <2>2, <2>4, Parked DEF Ok
<1>4. QED
  BY <1>2, <1>3
-----------------------------------------------------------------------------
(* The functions of role_cls, one call at a time.                          *)
LEMMA CloseOk ==
  ASSUME NEW st, NEW t, NEW d, SInv(st, t, d), NEW o \in Roles,
         NEW st2, st2 = CloseSock(st, o)
  PROVE  SInv(st2, t, d) /\ st2.uuid = st.uuid /\ st2.job = st.job
<1>1. st \in States
  BY DEF SInv
<1>2. st.sock_id[o] \in Socks \cup {NoSock} /\ st.closing \in SUBSET (Socks \cup {NoSock})
  BY <1>1, FieldTypes
<1>3. PICK c : c = st.closing \cup {st.sock_id[o]}
  OBVIOUS
<1>4. st2 = [st EXCEPT !.closing = c] /\ c \in SUBSET (Socks \cup {NoSock})
  BY <1>2, <1>3 DEF CloseSock
<1>5. /\ st2 \in States
      /\ st2.owner = st.owner /\ st2.queue = st.queue /\ st2.uuid = st.uuid
      /\ st2.role_dict = st.role_dict /\ st2.db = st.db /\ st2.job = st.job
      /\ st2.sock_role = st.sock_role /\ st2.timer = st.timer
  BY <1>1, <1>4 DEF States
<1>6. SameLocks(st, st2) /\ SameEntries(st, st2) /\ SameJobs(st, st2, t) /\ GoodLinks(st, st2)
  BY <1>5 DEF SameLocks, SameEntries, SameJobs, GoodLinks
<1>7. QED
  BY <1>5, <1>6, Frame

(* The role leaves its connection.                                         *)
Leave(st, o) ==
  LET s == st.sock_id[o] IN
  [st EXCEPT !.sock_role = IF s \in sock_dict THEN [@ EXCEPT ![s] = NoRole] ELSE @,
             !.sock_id[o] = NoSock]

LEMMA LeaveOk ==
  ASSUME NEW st, NEW t, NEW d, SInv(st, t, d), NEW o \in Roles, sock_dict \subseteq Socks,
         NEW st2, st2 = Leave(st, o)
  PROVE  SInv(st2, t, d) /\ st2.uuid = st.uuid /\ st2.job = st.job
<1>1. st \in States
  BY DEF SInv
<1>2. /\ st.sock_id \in [Roles -> Socks \cup {NoSock}]
      /\ st.sock_role \in [Socks -> Roles \cup {NoRole}]
  BY <1>1, FieldTypes
<1>3. PICK s : s = st.sock_id[o]
  OBVIOUS
<1>4. PICK r : r = IF s \in sock_dict THEN [st.sock_role EXCEPT ![s] = NoRole] ELSE st.sock_role
  OBVIOUS
<1>5. PICK i : i = [st.sock_id EXCEPT ![o] = NoSock]
  OBVIOUS
<1>6. r \in [Socks -> Roles \cup {NoRole}] /\ \A x \in Socks : r[x] \in {NoRole, st.sock_role[x]}
  <2>1. CASE s \in sock_dict
    BY <1>2, <1>4, <2>1
  <2>2. CASE s \notin sock_dict
    BY <1>2, <1>4, <2>2
  <2>3. QED
    BY <2>1, <2>2
<1>7. i \in [Roles -> Socks \cup {NoSock}]
  BY <1>2, <1>5
<1>8. st2 = [st EXCEPT !.sock_role = r, !.sock_id = i]
  BY <1>3, <1>4, <1>5 DEF Leave
<1>9. /\ st2 \in States
      /\ st2.owner = st.owner /\ st2.queue = st.queue /\ st2.uuid = st.uuid
      /\ st2.role_dict = st.role_dict /\ st2.db = st.db /\ st2.job = st.job
      /\ st2.sock_role = r /\ st2.timer = st.timer
  BY <1>1, <1>6, <1>7, <1>8 DEF States
<1>10. SameLocks(st, st2) /\ SameEntries(st, st2) /\ SameJobs(st, st2, t) /\ GoodLinks(st, st2)
  BY <1>6, <1>9 DEF SameLocks, SameEntries, SameJobs, GoodLinks
<1>11. QED
  BY <1>9, <1>10, Frame

LEMMA LogoutOk ==
  ASSUME NEW st, NEW t \in Threads, NEW d, SInv(st, t, d), sock_dict \subseteq Socks,
         NEW j, JobRefs(st, j), j.obj # NoRole
  PROVE  Ok(Logout(st, t, j), t, d, j.then)
<1>1. PICK o \in Roles : o = j.obj
  BY DEF JobRefs, Known
<1>2. PICK st2 : st2 = Leave(st, o)
  OBVIOUS
<1>3. SInv(st2, t, d) /\ st2.uuid = st.uuid
  BY <1>2, LeaveOk
<1>4. Logout(st, t, j) = Save(st2, t, j)
  BY <1>1, <1>2 DEF Logout, Leave
<1>5. JobRefs(st2, j)
  BY <1>3 DEF JobRefs, Known
<1>6. QED
  BY <1>3, <1>4, <1>5, SaveOk

LEMMA BindOk ==
  ASSUME NEW st, NEW t \in Threads, NEW d, SInv(st, t, d),
         NEW j, JobRefs(st, j), j.sock \in Socks, j.role # NoRole
  PROVE  SInv(Bind(st, t, j), NoThread, d)
<1>1. st \in States /\ j \in JobX /\ Known(st, j.role) /\ NoRole \notin Roles
  BY RoleSessionAssumption DEF SInv, JobRefs
<1>2. /\ st.sock_id \in [Roles -> Socks \cup {NoSock}]
      /\ st.sock_role \in [Socks -> Roles \cup {NoRole}]
  BY <1>1, FieldTypes
<1>3. PICK i : i = [st.sock_id EXCEPT ![j.role] = j.sock]
  OBVIOUS
<1>4. PICK r : r = [st.sock_role EXCEPT ![j.sock] = j.role]
  OBVIOUS
<1>5. i \in [Roles -> Socks \cup {NoSock}]
  BY <1>1, <1>2, <1>3 DEF Known
<1>6. /\ r \in [Socks -> Roles \cup {NoRole}]
      /\ \A x \in Socks : r[x] \in {st.sock_role[x], j.role}
  BY <1>1, <1>2, <1>4 DEF Known
<1>7. PICK st1 : st1 = [st EXCEPT !.sock_id = i, !.sock_role = r]
  OBVIOUS
<1>8. PICK k : k = [j EXCEPT !.pc = "online", !.obj = NoRole, !.clear = FALSE, !.then = "end"]
  OBVIOUS
<1>9. PICK st2 : st2 = Goto(st1, t, k)
  OBVIOUS
<1>10. Bind(st, t, j) = st2
  BY <1>3, <1>4, <1>7, <1>8, <1>9 DEF Bind
<1>11. /\ st1 \in States
       /\ st1.owner = st.owner /\ st1.queue = st.queue /\ st1.uuid = st.uuid
       /\ st1.role_dict = st.role_dict /\ st1.db = st.db /\ st1.job = st.job
       /\ st1.sock_role = r /\ st1.timer = st.timer
  BY <1>1, <1>5, <1>6, <1>7 DEF States
<1>12. SameLocks(st, st1) /\ SameEntries(st, st1) /\ SameJobs(st, st1, t) /\ GoodLinks(st, st1)
  BY <1>1, <1>6, <1>11 DEF SameLocks, SameEntries, SameJobs, GoodLinks
<1>13. SInv(st1, t, d)
  BY <1>11, <1>12, Frame
<1>14. /\ k \in Job /\ k.pc = "online" /\ k.role = j.role /\ k.obj = NoRole /\ k.then = "end"
  BY <1>1, <1>8 DEF JobX, Job
<1>15. SInv(st2, t, d) /\ st2.job[t] = k /\ st2.uuid = st.uuid
  BY <1>9, <1>11, <1>13, <1>14, GotoMid, GotoFields, JobIsJobX
<1>16. JobInv(st2, k)
  BY <1>1, <1>14, <1>15, JobIsJobX DEF JobInv, JobRefs, Known
<1>17. SInv(st2, NoThread, d)
  BY <1>14, <1>15, <1>16, Settle
<1>18. QED
  BY <1>10, <1>17

(* A state in which no coroutine is in the middle of a step shows no       *)
(* "saved".                                                                *)
LEMMA NotSaved ==
  ASSUME NEW st, NEW d, SInv(st, NoThread, d), NEW t \in Threads
  PROVE  st.job[t].pc # "saved"
BY RoleSessionAssumption DEF SInv, JobInv, Job

LEMMA TakeoverOk ==
  ASSUME NEW st, NEW t \in Threads, NEW d, SInv(st, t, d), sock_dict \subseteq Socks,
         NEW j, JobRefs(st, j), j.sock \in Socks, j.role # NoRole
  PROVE  SInv(Takeover(st, t, j), NoThread, d)
<1>1. st \in States /\ j \in JobX /\ Known(st, j.role)
  BY DEF SInv, JobRefs
<1>2. CASE st.sock_id[j.role] \in Socks \ {j.sock}
  <2>1. PICK cl : cl = CloseSock(st, j.role)
    OBVIOUS
  <2>2. PICK k : k = [j EXCEPT !.obj = j.role, !.clear = FALSE, !.then = "bind"]
    OBVIOUS
  <2>3. PICK out : out = Logout(cl, t, k)
    OBVIOUS
  <2>4. Takeover(st, t, j) = IF out.job[t].pc = "saved" THEN Bind(out, t, out.job[t]) ELSE out
    BY <1>2, <2>1, <2>2, <2>3 DEF Takeover
  <2>5. SInv(cl, t, d) /\ cl.uuid = st.uuid
    BY <1>1, <2>1, CloseOk DEF Known
  <2>6. /\ k \in JobX /\ k.obj = j.role /\ k.role = j.role /\ k.then = "bind" /\ k.sock = j.sock
    BY <1>1, <2>2 DEF JobX, Known
  <2>7. JobRefs(cl, k)
    BY <1>1, <2>5, <2>6 DEF JobRefs, Known
  <2>8. Ok(out, t, d, "bind")
    BY <2>3, <2>5, <2>6, <2>7, LogoutOk
  <2>9. CASE SInv(out, NoThread, d)
    BY <2>4, <2>9, NotSaved
  <2>10. CASE Mid(out, t, d, "bind")
    <3>1. PICK m : m = out.job[t]
      OBVIOUS
    <3>2. SInv(out, t, d) /\ JobRefs(out, m) /\ m.sock \in Socks /\ m.role # NoRole
      BY <2>10, <3>1 DEF Mid, JobRefs
    <3>3. SInv(Bind(out, t, m), NoThread, d)
      BY <3>2, BindOk
    <3>4. QED
      BY <2>4, <2>10, <3>1, <3>3 DEF Mid
  <2>11. QED
    BY <2>8, <2>9, <2>10 DEF Ok
<1>3. CASE st.sock_id[j.role] \notin Socks \ {j.sock}
  BY <1>3, BindOk DEF Takeover
<1>4. QED
  BY <1>2, <1>3

LEMMA IdleJob ==
  ASSUME NEW st
  PROVE  Idle \in Job /\ Idle \in JobX /\ JobRefs(st, Idle) /\ JobInv(st, Idle)
<1>1. /\ Idle \in Job /\ Idle \in JobX /\ Idle.pc = "idle" /\ Idle.role = NoRole
      /\ Idle.obj = NoRole /\ Idle.then = "end"
  BY DEF Idle, Job, JobX
<1>2. QED
  BY <1>1 DEF JobRefs, JobInv

LEMMA EndOk ==
  ASSUME NEW st, NEW t \in Threads, NEW d, SInv(st, t, d), NEW j
  PROVE  SInv(End(st, t, j), NoThread, d)
<1>1. PICK st2 : st2 = Goto(st, t, Idle)
  OBVIOUS
<1>2. Idle \in JobX /\ Idle.pc = "idle"
  BY IdleJob DEF Idle
<1>3. st \in States
  BY DEF SInv
<1>4. SInv(st2, t, d)
  BY <1>1, <1>2, GotoMid
<1>5. st2.job[t] = Idle
  BY <1>1, <1>2, <1>3, GotoFields
<1>6. JobInv(st2, st2.job[t])
  BY <1>5, IdleJob
<1>7. SInv(st2, NoThread, d)
  BY <1>2, <1>4, <1>5, <1>6, Settle
<1>8. QED
  BY <1>1, <1>7 DEF End

LEMMA ResumeOk ==
  ASSUME NEW st, NEW t \in Threads, NEW d, NEW then, Ok(st, t, d, then), sock_dict \subseteq Socks
  PROVE  SInv(Resume(st, t), NoThread, d)
<1>1. CASE SInv(st, NoThread, d)
  <2>1. st.job[t].pc # "saved"
    BY <1>1, NotSaved
  <2>2. Resume(st, t) = st
    BY <2>1 DEF Resume
  <2>3. QED
    BY <1>1, <2>2
<1>2. CASE Mid(st, t, d, then)
  <2>1. PICK j : j = st.job[t]
    OBVIOUS
  <2>2. /\ SInv(st, t, d) /\ JobRefs(st, j) /\ j.pc = "saved"
        /\ j.then \in {"end", "takeover", "bind"}
        /\ j.then # "end" => j.sock \in Socks /\ j.role # NoRole
    BY <1>2, <2>1, JobTypes DEF Mid, JobRefs
  <2>3. CASE j.then = "end"
    <3>1. Resume(st, t) = End(st, t, j)
      BY <2>1, <2>2, <2>3 DEF Resume
    <3>2. QED
      BY <2>2, <3>1, EndOk
  <2>4. CASE j.then = "takeover"
    <3>1. Resume(st, t) = Takeover(st, t, j)
      BY <2>1, <2>2, <2>4 DEF Resume
    <3>2. QED
      BY <2>2, <2>4, <3>1, TakeoverOk
  <2>5. CASE j.then = "bind"
    <3>1. Resume(st, t) = Bind(st, t, j)
      BY <2>1, <2>2, <2>5 DEF Resume
    <3>2. QED
      BY <2>2, <2>5, <3>1, BindOk
  <2>6. QED
    BY <2>2, <2>3, <2>4, <2>5
<1>3. QED
  BY <1>1, <1>2 DEF Ok

LEMMA LoginOk ==
  ASSUME NEW st, NEW t \in Threads, NEW d, SInv(st, t, d), sock_dict \subseteq Socks,
         NEW j, JobRefs(st, j), j.sock \in Socks, j.role # NoRole
  PROVE  SInv(Login(st, t, j), NoThread, d)
<1>1. st \in States /\ j \in JobX /\ Known(st, j.role)
  BY DEF SInv, JobRefs
<1>2. PICK tm : tm = [st.timer EXCEPT ![j.role] = FALSE]
  OBVIOUS
<1>3. PICK cn : cn = [st EXCEPT !.timer = tm]
  OBVIOUS
<1>4. tm \in [Roles -> BOOLEAN] /\ \A o \in Roles : tm[o] => st.timer[o]
  <2>1. st.timer \in [Roles -> BOOLEAN]
    BY <1>1, FieldTypes
  <2>2. QED
    BY <1>2, <2>1
<1>5. /\ cn \in States
      /\ cn.owner = st.owner /\ cn.queue = st.queue /\ cn.uuid = st.uuid
      /\ cn.role_dict = st.role_dict /\ cn.db = st.db /\ cn.job = st.job
      /\ cn.sock_role = st.sock_role /\ cn.timer = tm
  BY <1>1, <1>3, <1>4 DEF States
<1>6. SameLocks(st, cn) /\ SameEntries(st, cn) /\ SameJobs(st, cn, t) /\ GoodLinks(st, cn)
  BY <1>4, <1>5 DEF SameLocks, SameEntries, SameJobs, GoodLinks
<1>7. SInv(cn, t, d)
  BY <1>5, <1>6, Frame
<1>8. PICK other : other = st.sock_role[j.sock]
  OBVIOUS
<1>9. JobRefs(cn, j)
  BY <1>5 DEF JobRefs, Known
<1>10. CASE other \notin {NoRole, j.role}
  <2>1. PICK k : k = [j EXCEPT !.obj = other, !.clear = TRUE, !.then = "takeover"]
    OBVIOUS
  <2>2. Login(st, t, j) = Resume(Logout(cn, t, k), t)
    BY <1>2, <1>3, <1>8, <1>10, <2>1 DEF Login
  <2>3. Known(st, other)
    BY <1>8, <1>10 DEF SInv, RefInv
  <2>4. /\ k \in JobX /\ k.obj = other /\ k.role = j.role /\ k.then = "takeover"
        /\ k.sock = j.sock
    BY <1>1, <2>1, <2>3 DEF JobX, Known
  <2>5. JobRefs(cn, k)
    BY <1>1, <1>5, <2>3, <2>4 DEF JobRefs, Known
  <2>6. Ok(Logout(cn, t, k), t, d, k.then)
    BY <1>7, <1>10, <2>4, <2>5, LogoutOk
  <2>7. QED
    BY <2>2, <2>6, ResumeOk
<1>11. CASE other \in {NoRole, j.role}
  <2>1. Login(st, t, j) = Takeover(cn, t, j)
    BY <1>2, <1>3, <1>8, <1>11 DEF Login
  <2>2. QED
    BY <1>7, <1>9, <2>1, TakeoverOk
<1>12. QED
  BY <1>10, <1>11

LEMMA LoadLockedOk ==
  ASSUME NEW st, NEW t \in Threads, NEW d, SInv(st, t, d), sock_dict \subseteq Socks,
         NEW u \in Uuids, st.owner[u] = NoThread,
         NEW j, JobRefs(st, j), j.sock \in Socks, j.uuid = u
  PROVE  SInv(LoadLocked(Lock(st, t, u), t, j), NoThread, d)
<1>1. st \in States /\ j \in JobX /\ NoRole \notin Roles /\ t # NoThread
  BY RoleSessionAssumption DEF SInv, JobRefs
<1>2. PICK lk : lk = Lock(st, t, u)
  OBVIOUS
<1>3. /\ lk \in States /\ lk.owner[u] = t
      /\ \A v \in Uuids : v # u => lk.owner[v] = st.owner[v]
      /\ lk.role_dict = st.role_dict /\ lk.uuid = st.uuid /\ lk.timer = st.timer
      /\ lk.db = st.db /\ lk.queue = st.queue /\ lk.job = st.job
      /\ SameLinks(st, lk)
  BY <1>1, <1>2, LockFields
<1>4. PICK o : o = lk.role_dict[u]
  OBVIOUS
<1>5. CASE o # NoRole
  <2>1. PICK ul : ul = Unlock(lk, u)
    OBVIOUS
  <2>2. PICK k : k = [j EXCEPT !.role = o]
    OBVIOUS
  <2>3. LoadLocked(lk, t, j) = Login(ul, t, k)
    BY <1>1, <1>4, <1>5, <2>1, <2>2, JobTypes DEF LoadLocked, LoggedIn, JobX
  <2>4. /\ ul \in States /\ ul.owner[u] = NoThread
        /\ \A v \in Uuids : v # u => ul.owner[v] = st.owner[v]
        /\ ul.role_dict = st.role_dict /\ ul.uuid = st.uuid /\ ul.timer = st.timer
        /\ ul.db = st.db /\ ul.queue = st.queue /\ ul.job = st.job
        /\ SameLinks(st, ul)
    BY <1>3, <2>1, UnlockFields DEF SameLinks
  <2>5. SameLocks(st, ul) /\ SameEntries(st, ul) /\ SameJobs(st, ul, t) /\ GoodLinks(st, ul)
    BY <2>4 DEF SameLocks, SameEntries, SameJobs, GoodLinks, SameLinks
  <2>6. SInv(ul, t, d)
    BY <2>4, <2>5, Frame
  <2>7. o \in Roles /\ st.uuid[o] = u
    <3>1. st.role_dict[u] \in Roles \cup {NoRole}
      BY <1>1, FieldTypes
    <3>2. QED
      BY <1>3, <1>4, <1>5, <3>1 DEF SInv, RefInv
  <2>8. /\ k \in JobX /\ k.role = o /\ k.obj = j.obj /\ k.then = j.then /\ k.sock = j.sock
    BY <1>1, <2>2, <2>7 DEF JobX
  <2>9. JobRefs(ul, k)
    BY <1>1, <2>4, <2>7, <2>8 DEF JobRefs, Known
  <2>10. QED
    BY <1>2, <1>5, <2>3, <2>6, <2>8, <2>9, LoginOk
<1>6. CASE o = NoRole
  <2>1. PICK k : k = [j EXCEPT !.pc = "loading"]
    OBVIOUS
  <2>2. PICK st2 : st2 = Goto(lk, t, k)
    OBVIOUS
  <2>3. LoadLocked(lk, t, j) = st2
    BY <1>4, <1>6, <2>1, <2>2 DEF LoadLocked
  <2>4. /\ k \in JobX /\ k \in Job /\ JobRefs(st, k) /\ k.pc = "loading"
        /\ k.uuid = u /\ k.sock = j.sock
    BY <2>1, JobPc
  <2>5. /\ st2 \in States /\ st2.job[t] = k /\ SameJobs(st, st2, t)
        /\ st2.sock_role = st.sock_role /\ st2.timer = st.timer
        /\ st2.role_dict = st.role_dict /\ st2.db = st.db /\ st2.uuid = st.uuid
        /\ st2.owner = lk.owner /\ st2.queue = st.queue
    BY <1>3, <2>2, <2>4, GotoFields DEF SameLinks, SameJobs
  <2>6. Works(st2, st2.job[t], u) /\ JobInv(st2, st2.job[t])
    BY <2>4, <2>5 DEF Works, JobInv, JobRefs, Known
  <2>7. st.db[u] = NoRole
    BY <1>3, <1>4, <1>6 DEF SInv, EntryInv
  <2>8. EntryInv(st2, u)
    BY <1>1, <1>3, <1>4, <1>6, <2>4, <2>5, <2>7 DEF EntryInv
  <2>9. GoodLinks(st, st2)
    BY <2>5 DEF GoodLinks
  <2>10. SInv(st2, NoThread, d)
    BY <1>3, <2>5, <2>6, <2>8, <2>9, Taken
  <2>11. QED
    BY <1>2, <2>3, <2>10
<1>7. QED
  BY <1>5, <1>6
-----------------------------------------------------------------------------
(* How a coroutine begins a step: it has no lock, ...                      *)
LEMMA Begin ==
  ASSUME NEW st, NEW d, SInv(st, NoThread, d),
         NEW t \in Threads, st.job[t].pc \in {"idle", "player", "online"}
  PROVE  SInv(st, t, d) /\ JobInv(st, st.job[t])
<1>1. st \in States /\ NoThread \notin Threads
  BY RoleSessionAssumption DEF SInv
<1>2. \A u \in Uuids : ~Works(st, st.job[t], u) /\ ~Wants(st, st.job[t], u)
  BY DEF Works, Wants
<1>3. OwnerInv(st, t)
  BY <1>1, <1>2 DEF SInv, OwnerInv
<1>4. QueueInv(st, t)
  BY <1>1, <1>2, InQueue DEF SInv, QueueInv
<1>5. QED
  BY <1>1, <1>3, <1>4 DEF SInv

(* ... it gives the lock back, with an entry and a role that match, ...    *)
LEMMA Released ==
  ASSUME NEW st, NEW d, SInv(st, NoThread, d),
         NEW t \in Threads, NEW u \in Uuids, Works(st, st.job[t], u),
         NEW st2 \in States, st2.owner[u] = NoThread, st2.uuid = st.uuid, st2.queue = st.queue,
         \A v \in Uuids : v # u => /\ st2.owner[v] = st.owner[v] /\ st2.db[v] = st.db[v]
                                   /\ st2.role_dict[v] = st.role_dict[v],
         st2.role_dict[u] \in {NoRole, st.role_dict[u]}, st2.db[u] = st2.role_dict[u],
         SameJobs(st, st2, t), GoodLinks(st, st2)
  PROVE  SInv(st2, t, d)
<1>1. st \in States /\ NoThread \notin Threads
  BY RoleSessionAssumption DEF SInv
<1>2. \A o : Known(st2, o) <=> Known(st, o)
  BY DEF Known
<1>3. \A x \in Threads : x # t => JobInv(st2, st2.job[x])
  BY <1>1, <1>2 DEF SInv, JobInv, JobRefs, SameJobs
<1>4. \A x \in Threads, v \in Uuids : x # t =>
        /\ Works(st2, st2.job[x], v) <=> Works(st, st.job[x], v)
        /\ Wants(st2, st2.job[x], v) <=> Wants(st, st.job[x], v)
  BY DEF SameJobs, Works, Wants
<1>5. st.owner[u] = t
  BY <1>1 DEF SInv, OwnerInv
<1>6. \A v \in Uuids : st.owner[v] # NoThread =>
        st.owner[v] \in Threads /\ Works(st, st.job[st.owner[v]], v)
  BY <1>1, FieldTypes DEF SInv, OwnerInv
<1>7. \A v \in Uuids : Works(st, st.job[t], v) => v = u
  BY DEF Works
<1>8. OwnerInv(st2, t)
  <2>1. ASSUME NEW v \in Uuids, st2.owner[v] # NoThread
        PROVE  st2.owner[v] # t /\ Works(st2, st2.job[st2.owner[v]], v)
    <3>1. v # u /\ st2.owner[v] = st.owner[v]
      BY <2>1
    <3>2. st.owner[v] # t
      BY <1>6, <1>7, <2>1, <3>1
    <3>3. QED
      BY <1>4, <1>6, <2>1, <3>1, <3>2
  <2>2. ASSUME NEW x \in Threads, NEW v \in Uuids, x # t, Works(st2, st2.job[x], v)
        PROVE  st2.owner[v] = x
    <3>1. st.owner[v] = x
      BY <1>1, <1>4, <2>2 DEF SInv, OwnerInv
    <3>2. v # u
      BY <1>5, <2>2, <3>1
    <3>3. QED
      BY <3>1, <3>2
  <2>3. QED
    BY <2>1, <2>2 DEF OwnerInv
<1>9. QueueInv(st2, t)
  <2>1. \A v \in Uuids : ~Wants(st, st.job[t], v)
    BY DEF Works, Wants
  <2>2. QED
    BY <1>1, <1>4, <2>1, InQueue DEF SInv, QueueInv
<1>10. RefInv(st2)
  <2>1. \A v \in Uuids : st2.role_dict[v] \in {NoRole, st.role_dict[v]}
    OBVIOUS
  <2>2. \A v \in Uuids : st2.db[v] \in {NoRole, st.role_dict[v], st.db[v]}
    OBVIOUS
  <2>3. QED
    BY <1>2, <2>1, <2>2 DEF SInv, RefInv, GoodLinks
<1>11. \A v \in Uuids : EntryInv(st2, v)
  <2>1. EntryInv(st2, u)
    BY DEF EntryInv
  <2>2. ASSUME NEW v \in Uuids, v # u PROVE EntryInv(st2, v)
    <3>1. st.owner[v] # t
      BY <1>1, <1>6, <1>7, <2>2
    <3>2. QED
      BY <1>6, <2>2, <3>1 DEF SInv, EntryInv, SameJobs
  <2>3. QED
    BY <2>1, <2>2
<1>12. \A v \in Uuids : st2.role_dict[v] \in {d[v], NoRole}
  BY DEF SInv
<1>13. QED
  BY <1>3, <1>8, <1>9, <1>10, <1>11, <1>12 DEF SInv

(* ... or it was woken with a lock.                                        *)
Woken(st, u) == [st EXCEPT !.queue[u] = Tail(@)]

LEMMA Granted ==
  ASSUME NEW st, NEW d, SInv(st, NoThread, d),
         NEW u \in Uuids, st.queue[u] # <<>>, st.owner[u] = NoThread,
         NEW t, t = Head(st.queue[u]), NEW st2, st2 = Woken(st, u)
  PROVE  /\ t \in Threads /\ Wants(st, st.job[t], u)
         /\ SInv(st2, t, d) /\ st2.owner = st.owner /\ st2.uuid = st.uuid /\ st2.job = st.job
         /\ JobInv(st2, st.job[t])
<1>1. st \in States /\ NoThread \notin Threads
  BY RoleSessionAssumption DEF SInv
<1>2. /\ st.queue \in [Uuids -> Seq(Threads)] /\ st.queue[u] \in Seq(Threads)
      /\ Tail(st.queue[u]) \in Seq(Threads)
  BY <1>1, FieldTypes
<1>3. PICK q : q = st.queue[u]
  OBVIOUS
<1>4. PICK r : r = Tail(q)
  OBVIOUS
<1>5. PICK n \in Nat : Len(q) = n + 1
  <2>1. Len(q) \in Nat /\ Len(q) # 0
    BY <1>2, <1>3
  <2>2. Len(q) - 1 \in Nat /\ Len(q) = (Len(q) - 1) + 1
    BY <2>1
  <2>3. QED
    BY <2>2
<1>6. /\ q[1] = t /\ Len(r) = n
      /\ \A i \in 1 .. n : r[i] = q[i + 1] /\ i + 1 \in 1 .. (n + 1) /\ i + 1 # 1
  BY <1>2, <1>3, <1>4, <1>5
<1>7. \A i \in 1 .. (n + 1) :
        /\ q[i] \in Threads /\ Wants(st, st.job[q[i]], u)
        /\ \A j \in 1 .. (n + 1) : q[j] = q[i] => j = i
  BY <1>1, <1>3, <1>5, InQueue DEF SInv, QueueInv
<1>8. 1 \in 1 .. (n + 1)
  BY <1>5
<1>9. t \in Threads /\ Wants(st, st.job[t], u)
  BY <1>6, <1>7, <1>8
<1>10. PICK qs : qs = [st.queue EXCEPT ![u] = r]
  OBVIOUS
<1>11. /\ qs \in [Uuids -> Seq(Threads)] /\ qs[u] = r
       /\ \A v \in Uuids : v # u => qs[v] = st.queue[v]
  BY <1>2, <1>3, <1>4, <1>10
<1>12. st2 = [st EXCEPT !.queue = qs]
  BY <1>3, <1>4, <1>10 DEF Woken
<1>13. /\ st2 \in States
       /\ st2.queue = qs /\ st2.owner = st.owner /\ st2.uuid = st.uuid
       /\ st2.role_dict = st.role_dict /\ st2.db = st.db /\ st2.job = st.job
       /\ st2.sock_role = st.sock_role /\ st2.timer = st.timer
  BY <1>1, <1>11, <1>12 DEF States
<1>14. \A o : Known(st2, o) <=> Known(st, o)
  BY <1>13 DEF Known
<1>15. \A x \in Threads : JobInv(st2, st2.job[x])
  BY <1>1, <1>13, <1>14 DEF SInv, JobInv, JobRefs
<1>16. \A x \in Threads, v \in Uuids :
         /\ Works(st2, st2.job[x], v) <=> Works(st, st.job[x], v)
         /\ Wants(st2, st2.job[x], v) <=> Wants(st, st.job[x], v)
  BY <1>13 DEF Works, Wants
<1>17. \A v \in Uuids : ~Works(st, st.job[t], v) /\ (Wants(st, st.job[t], v) => v = u)
  BY <1>9 DEF Works, Wants
<1>18. OwnerInv(st2, t)
  <2>1. \A v \in Uuids : st.owner[v] # NoThread => st.owner[v] \in Threads
    BY <1>1, FieldTypes
  <2>2. \A v \in Uuids : st.owner[v] # NoThread =>
          st.owner[v] # t /\ Works(st, st.job[st.owner[v]], v)
    BY <1>17 DEF SInv, OwnerInv
  <2>3. QED
    BY <1>1, <1>13, <1>16, <2>1, <2>2 DEF SInv, OwnerInv
<1>19. QueueInv(st2, t)
  <2>1. ASSUME NEW i \in 1 .. n
        PROVE  /\ r[i] # t /\ r[i] \in Threads /\ Wants(st2, st2.job[r[i]], u)
               /\ \A j \in 1 .. n : r[j] = r[i] => j = i
    <3>1. r[i] = q[i + 1] /\ i + 1 \in 1 .. (n + 1) /\ i + 1 # 1
      BY <1>6
    <3>2. r[i] # t
      BY <1>6, <1>7, <1>8, <3>1
    <3>3. r[i] \in Threads /\ Wants(st2, st2.job[r[i]], u)
      BY <1>7, <1>16, <3>1
    <3>4. ASSUME NEW j \in 1 .. n, r[j] = r[i] PROVE j = i
      <4>1. q[j + 1] = q[i + 1] /\ j + 1 \in 1 .. (n + 1)
        BY <1>6, <3>1, <3>4
      <4>2. j + 1 = i + 1
        BY <1>7, <3>1, <4>1
      <4>3. QED
        BY <4>2
    <3>5. QED
      BY <3>2, <3>3, <3>4
  <2>2. ASSUME NEW v \in Uuids, v # u, NEW i \in 1 .. Len(st.queue[v])
        PROVE  /\ st.queue[v][i] # t
               /\ Wants(st2, st2.job[st.queue[v][i]], v)
               /\ \A j \in 1 .. Len(st.queue[v]) : st.queue[v][j] = st.queue[v][i] => j = i
    <3>1. st.queue[v][i] \in Threads
      BY <1>1, InQueue
    <3>2. /\ Wants(st, st.job[st.queue[v][i]], v)
          /\ \A j \in 1 .. Len(st.queue[v]) : st.queue[v][j] = st.queue[v][i] => j = i
      BY DEF SInv, QueueInv
    <3>3. QED
      BY <1>16, <1>17, <2>2, <3>1, <3>2
  <2>3. ASSUME NEW v \in Uuids, NEW i \in 1 .. Len(st2.queue[v])
        PROVE  /\ st2.queue[v][i] # t
               /\ Wants(st2, st2.job[st2.queue[v][i]], v)
               /\ \A j \in 1 .. Len(st2.queue[v]) : st2.queue[v][j] = st2.queue[v][i] => j = i
    <3>1. CASE v = u
      <4>1. st2.queue[v] = r
        BY <1>11, <1>13, <3>1
      <4>2. QED
        BY <1>6, <2>1, <3>1, <4>1
    <3>2. CASE v # u
      <4>1. st2.queue[v] = st.queue[v]
        BY <1>11, <1>13, <3>2
      <4>2. QED
        BY <2>2, <3>2, <4>1
    <3>3. QED
      BY <3>1, <3>2
  <2>4. QED
    BY <2>3 DEF QueueInv
<1>20. RefInv(st2)
  BY <1>13, <1>14 DEF SInv, RefInv
<1>21. \A v \in Uuids : EntryInv(st2, v)
  BY <1>13 DEF SInv, EntryInv
<1>22. SInv(st2, t, d)
  BY <1>13, <1>15, <1>18, <1>19, <1>20, <1>21 DEF SInv
<1>23. QED
  BY <1>9, <1>13, <1>15, <1>22

(* A new role and its entry.                                               *)
LEMMA NewRoleOk ==
  ASSUME NEW st, NEW t, NEW d, SInv(st, t, d),
         NEW u \in Uuids, st.owner[u] = NoThread, st.role_dict[u] = NoRole,
         NEW o \in Roles,
         \A v \in Uuids : st.role_dict[v] # o /\ st.db[v] # o,
         \A s \in Socks : st.sock_role[s] # o,
         \A x \in Threads : st.job[x].role # o /\ st.job[x].obj # o,
         NEW st2 \in States, st2.uuid[o] = u,
         \A x \in Roles : x # o => st2.uuid[x] = st.uuid[x] /\ st2.timer[x] = st.timer[x],
         st2.db[u] = o, st2.role_dict[u] = o,
         \A v \in Uuids : v # u => st2.db[v] = st.db[v] /\ st2.role_dict[v] = st.role_dict[v],
         st2.owner = st.owner, st2.queue = st.queue, st2.job = st.job,
         st2.sock_role = st.sock_role,
         NEW d2, d2[u] = o, \A v \in Uuids : v # u => d2[v] = d[v]
  PROVE  SInv(st2, t, d2)
<1>1. st \in States
  BY DEF SInv
<1>2. \A x : Known(st, x) => Known(st2, x)
  BY DEF Known
<1>3. \A x \in Threads : x # t => JobInv(st2, st2.job[x])
  BY <1>2 DEF SInv, JobInv, JobRefs
<1>4. \A x \in Threads, v \in Uuids : x # t =>
        /\ Works(st2, st2.job[x], v) <=> Works(st, st.job[x], v)
        /\ Wants(st2, st2.job[x], v) <=> Wants(st, st.job[x], v)
  <2>1. ASSUME NEW x \in Threads, x # t, st.job[x].pc \in {"saveLock", "saving"}
        PROVE  st2.uuid[st2.job[x].obj] = st.uuid[st.job[x].obj]
    <3>1. st.job[x].obj \in Roles /\ st.job[x].obj # o
      BY <2>1 DEF SInv, JobInv, JobRefs, Known
    <3>2. QED
      BY <3>1
  <2>2. QED
    BY <2>1 DEF Works, Wants
<1>5. \A v \in Uuids : st.owner[v] # NoThread => st.owner[v] # t /\ st.owner[v] \in Threads
  BY <1>1, FieldTypes DEF SInv, OwnerInv
<1>6. OwnerInv(st2, t)
  BY <1>4, <1>5 DEF SInv, OwnerInv
<1>7. QueueInv(st2, t)
  BY <1>1, <1>4, InQueue DEF SInv, QueueInv
<1>8. RefInv(st2)
  <2>1. \A v \in Uuids : st.role_dict[v] \in Roles \cup {NoRole} /\ st.db[v] \in Roles \cup {NoRole}
    BY <1>1, FieldTypes
  <2>2. Known(st2, o)
    BY DEF Known
  <2>3. \A v \in Uuids : st2.role_dict[v] # NoRole => st2.uuid[st2.role_dict[v]] = v
    BY <2>1 DEF SInv, RefInv
  <2>4. \A v \in Uuids : st2.db[v] # NoRole => st2.uuid[st2.db[v]] = v
    BY <2>1 DEF SInv, RefInv
  <2>5. QED
    BY <1>2, <2>2, <2>3, <2>4 DEF SInv, RefInv
<1>9. \A v \in Uuids : EntryInv(st2, v)
  <2>1. EntryInv(st2, u)
    BY DEF EntryInv
  <2>2. ASSUME NEW v \in Uuids, v # u PROVE EntryInv(st2, v)
    BY <1>5, <2>2 DEF SInv, EntryInv
  <2>3. QED
    BY <2>1, <2>2
<1>10. \A v \in Uuids : st2.role_dict[v] \in {d2[v], NoRole}
  BY DEF SInv
<1>11. QED
  BY <1>3, <1>6, <1>7, <1>8, <1>9, <1>10 DEF SInv
-----------------------------------------------------------------------------
(* The record State has the variables in its fields.                       *)
LEMMA StateFields ==
  /\ State.sock_role = sock_role /\ State.role_dict = role_dict /\ State.uuid = uuid
  /\ State.sock_id = sock_id /\ State.timer = timer_logout
  /\ State.db = db_dict /\ State.owner = owner /\ State.queue = queue
  /\ State.closing = closing /\ State.job = job
BY DEF State

(* The invariant after a step: no role is replaced from d on.              *)
After(d) == IInv' /\ \A u \in Uuids : role_dict'[u] \in {d[u], NoRole}

LEMMA AfterIs ==
  ASSUME NEW d, sock_dict' \subseteq Socks, closing' \subseteq sock_dict', SInv(State', NoThread, d)
  PROVE  After(d)
<1>1. \A u \in Uuids : role_dict'[u] \in {d[u], NoRole}
  BY DEF SInv, State
<1>2. \A u \in Uuids : State'.role_dict[u] \in {role_dict'[u], NoRole}
  BY DEF State
<1>3. SInv(State', NoThread, role_dict')
  BY <1>2 DEF SInv
<1>4. QED
  BY <1>1, <1>3 DEF After, IInv

LEMMA BecomeOk ==
  ASSUME NEW g, NEW d, SInv(g, NoThread, d), Become(g), sock_dict \subseteq Socks
  PROVE  After(d)
<1>1. g \in States
  BY DEF SInv
<1>2. PICK h : h = State'
  OBVIOUS
<1>3. /\ h.sock_role = g.sock_role /\ h.role_dict = g.role_dict /\ h.uuid = g.uuid
      /\ h.timer = g.timer /\ h.db = g.db /\ h.owner = g.owner /\ h.queue = g.queue
      /\ h.job = g.job
  BY <1>2 DEF State, Become
<1>4. h \in States
  BY <1>1, <1>2 DEF State, Become, States
<1>5. SameLocks(g, h) /\ SameEntries(g, h) /\ SameJobs(g, h, NoThread) /\ GoodLinks(g, h)
  BY <1>3 DEF SameLocks, SameEntries, SameJobs, GoodLinks
<1>6. SInv(h, NoThread, d)
  BY <1>4, <1>5, Frame
<1>7. sock_dict' \subseteq Socks /\ closing' \subseteq sock_dict'
  BY DEF Become
<1>8. QED
  BY <1>2, <1>6, <1>7, AfterIs

LEMMA Before ==
  ASSUME IInv
  PROVE  /\ State \in States /\ SInv(State, NoThread, role_dict)
         /\ sock_dict \subseteq Socks /\ closing \subseteq sock_dict
         /\ \A t \in Threads : job[t] \in Job /\ JobInv(State, job[t])
<1>1. \A t \in Threads : JobInv(State, job[t])
  <2>1. \A t \in Threads : JobInv(State, State.job[t])
    BY RoleSessionAssumption DEF IInv, SInv
  <2>2. QED
    BY <2>1, StateFields
<1>2. QED
  BY <1>1 DEF IInv, SInv, JobInv

(* A role of the table is known.                                           *)
LEMMA RoleThere ==
  ASSUME IInv, NEW u \in Uuids, role_dict[u] # NoRole
  PROVE  role_dict[u] \in Roles /\ Known(State, role_dict[u])
<1>1. State.role_dict[u] \in Roles \cup {NoRole}
  BY Before, FieldTypes
<1>2. State.role_dict[u] \in Roles /\ State.uuid[State.role_dict[u]] = u
  BY <1>1, StateFields DEF IInv, SInv, RefInv
<1>3. QED
  BY <1>2, StateFields DEF Known

LEMMA StepAccept ==
  ASSUME IInv, NEW s \in Socks, Accept(s)
  PROVE  After(role_dict)
<1>1. PICK d : d = role_dict
  OBVIOUS
<1>2. PICK g : g = State
  OBVIOUS
<1>3. PICK h : h = State'
  OBVIOUS
<1>4. g \in States /\ SInv(g, NoThread, d)
  BY <1>1, <1>2, Before
<1>5. /\ h.role_dict = g.role_dict /\ h.uuid = g.uuid /\ h.timer = g.timer /\ h.db = g.db
      /\ h.owner = g.owner /\ h.queue = g.queue /\ h.job = g.job
      /\ h.sock_role = [sock_role EXCEPT ![s] = NoRole] /\ g.sock_role = sock_role
  BY <1>2, <1>3 DEF State, Accept, roleVars
<1>6. sock_role \in [Socks -> Roles \cup {NoRole}]
  BY <1>2, <1>4, FieldTypes, StateFields
<1>7. h \in States
  BY <1>2, <1>3, <1>4, <1>6 DEF State, Accept, roleVars, States
<1>8. SameLocks(g, h) /\ SameEntries(g, h) /\ SameJobs(g, h, NoThread)
  BY <1>5 DEF SameLocks, SameEntries, SameJobs
<1>9. GoodLinks(g, h)
  BY <1>5, <1>6 DEF GoodLinks
<1>10. SInv(h, NoThread, d)
  BY <1>4, <1>7, <1>8, <1>9, Frame
<1>11. sock_dict' \subseteq Socks /\ closing' \subseteq sock_dict'
  BY Before DEF Accept
<1>12. QED
  BY <1>1, <1>3, <1>10, <1>11, AfterIs

LEMMA StepClose ==
  ASSUME IInv, NEW s \in Socks, Close(s)
  PROVE  After(role_dict)
<1>1. PICK d : d = role_dict
  OBVIOUS
<1>2. PICK g : g = State
  OBVIOUS
<1>3. PICK h : h = State'
  OBVIOUS
<1>4. g \in States /\ SInv(g, NoThread, d)
  BY <1>1, <1>2, Before
<1>5. /\ h.role_dict = g.role_dict /\ h.uuid = g.uuid /\ h.db = g.db
      /\ h.owner = g.owner /\ h.queue = g.queue /\ h.job = g.job
      /\ h.sock_role = [sock_role EXCEPT ![s] = NoRole] /\ g.sock_role = sock_role
      /\ h.timer = timer_logout' /\ g.timer = timer_logout
      /\ h.sock_id = sock_id'
  BY <1>2, <1>3 DEF State, Close
<1>6. /\ sock_role \in [Socks -> Roles \cup {NoRole}]
      /\ timer_logout \in [Roles -> BOOLEAN]
      /\ sock_id \in [Roles -> Socks \cup {NoSock}]
  BY <1>2, <1>4, FieldTypes, StateFields
<1>7. sock_role[s] # NoRole => Known(g, sock_role[s])
  BY <1>2, <1>4, <1>5 DEF SInv, RefInv
<1>8. /\ timer_logout' \in [Roles -> BOOLEAN]
      /\ sock_id' \in [Roles -> Socks \cup {NoSock}]
      /\ \A o \in Roles : timer_logout'[o] => (timer_logout[o] \/ Known(g, o))
  <2>1. CASE sock_role[s] # NoRole
    BY <1>6, <1>7, <2>1 DEF Close
  <2>2. CASE sock_role[s] = NoRole
    BY <1>6, <2>2 DEF Close
  <2>3. QED
    BY <2>1, <2>2
<1>9. h \in States
  <2>1. closing' \in SUBSET (Socks \cup {NoSock})
    BY Before DEF Close
  <2>2. sock_role' \in [Socks -> Roles \cup {NoRole}]
    BY <1>6 DEF Close
  <2>3. QED
    BY <1>2, <1>3, <1>4, <1>8, <2>1, <2>2 DEF State, Close, States
<1>10. SameLocks(g, h) /\ SameEntries(g, h) /\ SameJobs(g, h, NoThread)
  BY <1>5 DEF SameLocks, SameEntries, SameJobs
<1>11. GoodLinks(g, h)
  BY <1>5, <1>6, <1>8 DEF GoodLinks
<1>12. SInv(h, NoThread, d)
  BY <1>4, <1>9, <1>10, <1>11, Frame
<1>13. sock_dict' \subseteq Socks /\ closing' \subseteq sock_dict'
  BY Before DEF Close
<1>14. QED
  BY <1>1, <1>3, <1>12, <1>13, AfterIs

LEMMA StepReconnect ==
  ASSUME IInv, NEW s \in Socks, NEW u \in Uuids, CReconnect(s, u)
  PROVE  After(role_dict)
<1>1. PICK d : d = role_dict
  OBVIOUS
<1>2. PICK g : g = State
  OBVIOUS
<1>3. PICK h : h = State'
  OBVIOUS
<1>4. PICK o : o = role_dict[u]
  OBVIOUS
<1>5. g \in States /\ SInv(g, NoThread, d)
  BY <1>1, <1>2, Before
<1>6. o \in Roles /\ Known(g, o)
  BY <1>2, <1>4, RoleThere DEF CReconnect
<1>7. /\ sock_role \in [Socks -> Roles \cup {NoRole}]
      /\ timer_logout \in [Roles -> BOOLEAN]
      /\ sock_id \in [Roles -> Socks \cup {NoSock}]
  BY <1>2, <1>5, FieldTypes, StateFields
<1>8. /\ h.role_dict = g.role_dict /\ h.uuid = g.uuid /\ h.db = g.db
      /\ h.owner = g.owner /\ h.queue = g.queue /\ h.job = g.job
      /\ h.sock_role = sock_role' /\ g.sock_role = sock_role
      /\ h.timer = timer_logout' /\ g.timer = timer_logout
  BY <1>2, <1>3 DEF State, CReconnect
<1>9. PICK old : old = sock_id[o]
  OBVIOUS
<1>10. PICK q : q = [r \in Socks |-> IF r = old /\ r \in sock_dict THEN NoRole ELSE sock_role[r]]
  OBVIOUS
<1>11. /\ q \in [Socks -> Roles \cup {NoRole}]
       /\ \A r \in Socks : q[r] \in {NoRole, sock_role[r]}
  BY <1>7, <1>10
<1>12. sock_role' = [q EXCEPT ![s] = o]
  BY <1>4, <1>9, <1>10 DEF CReconnect
<1>13. /\ sock_role' \in [Socks -> Roles \cup {NoRole}]
       /\ \A r \in Socks : sock_role'[r] \in {NoRole, sock_role[r], o}
  BY <1>6, <1>11, <1>12
<1>14. /\ timer_logout' \in [Roles -> BOOLEAN]
       /\ sock_id' \in [Roles -> Socks \cup {NoSock}]
       /\ \A x \in Roles : timer_logout'[x] => timer_logout[x]
  BY <1>4, <1>6, <1>7 DEF CReconnect
<1>15. closing' \subseteq sock_dict /\ sock_dict' = sock_dict /\ sock_dict \subseteq Socks
  BY Before DEF CReconnect
<1>16. h \in States
  BY <1>2, <1>3, <1>5, <1>13, <1>14, <1>15 DEF State, CReconnect, States
<1>17. SameLocks(g, h) /\ SameEntries(g, h) /\ SameJobs(g, h, NoThread)
  BY <1>8 DEF SameLocks, SameEntries, SameJobs
<1>18. GoodLinks(g, h)
  BY <1>6, <1>8, <1>13, <1>14 DEF GoodLinks
<1>19. SInv(h, NoThread, d)
  BY <1>5, <1>16, <1>17, <1>18, Frame
<1>20. QED
  BY <1>1, <1>3, <1>15, <1>19, AfterIs

(* A step that only gives its coroutine a job without a lock.              *)
LEMMA StepJob ==
  ASSUME IInv, NEW t \in Threads, job[t].pc \in {"idle", "player", "online"},
         NEW k \in Job, k.pc \in {"idle", "player", "online"}, JobInv(State, k),
         job' = [job EXCEPT ![t] = k],
         UNCHANGED <<sock_dict, sock_role, closing, role_dict, uuid, sock_id, timer_logout,
                     db_dict, owner, queue>>
  PROVE  After(role_dict)
<1>1. PICK d : d = role_dict
  OBVIOUS
<1>2. PICK g : g = State
  OBVIOUS
<1>3. PICK h : h = State'
  OBVIOUS
<1>4. g \in States /\ SInv(g, NoThread, d)
  BY <1>1, <1>2, Before
<1>5. g.job = job /\ job \in [Threads -> JobX]
  BY <1>2, <1>4, StateFields, FieldTypes
<1>6. SInv(g, t, d)
  BY <1>4, <1>5, Begin
<1>7. /\ h.role_dict = g.role_dict /\ h.uuid = g.uuid /\ h.timer = g.timer /\ h.db = g.db
      /\ h.owner = g.owner /\ h.queue = g.queue /\ h.sock_role = g.sock_role
      /\ h.job = job'
  BY <1>2, <1>3 DEF State
<1>8. /\ job' \in [Threads -> JobX] /\ job'[t] = k
      /\ \A x \in Threads : x # t => job'[x] = job[x]
  BY <1>5, JobIsJobX
<1>9. h \in States
  BY <1>2, <1>3, <1>4, <1>8 DEF State, States
<1>10. SameLocks(g, h) /\ SameEntries(g, h) /\ SameJobs(g, h, t) /\ GoodLinks(g, h)
  BY <1>5, <1>7, <1>8 DEF SameLocks, SameEntries, SameJobs, GoodLinks
<1>11. SInv(h, t, d)
  BY <1>6, <1>9, <1>10, Frame
<1>12. JobInv(h, k)
  BY <1>2, <1>7 DEF JobInv, JobRefs, Known
<1>13. SInv(h, NoThread, d)
  BY <1>7, <1>8, <1>11, <1>12, Settle
<1>14. sock_dict' \subseteq Socks /\ closing' \subseteq sock_dict'
  BY Before
<1>15. QED
  BY <1>1, <1>3, <1>13, <1>14, AfterIs

LEMMA StepCLogin ==
  ASSUME IInv, NEW t \in Threads, NEW s \in Socks, NEW u \in Uuids, CLogin(t, s, u)
  PROVE  After(role_dict)
<1>1. PICK k : k = [Idle EXCEPT !.pc = "player", !.sock = s, !.uuid = u]
  OBVIOUS
<1>2. /\ k \in Job /\ k.pc = "player" /\ k.role = NoRole /\ k.obj = NoRole /\ k.then = "end"
      /\ k.sock = s /\ k.uuid = u
  BY <1>1 DEF Idle, Job
<1>3. JobInv(State, k)
  BY <1>2, JobIsJobX DEF JobInv, JobRefs
<1>4. QED
  BY <1>1, <1>2, <1>3, StepJob DEF CLogin, Free, sockVars, roleVars

LEMMA StepOnlineDone ==
  ASSUME IInv, NEW t \in Threads, OnlineDone(t)
  PROVE  After(role_dict)
<1>1. Idle \in Job /\ Idle.pc = "idle" /\ JobInv(State, Idle)
  BY IdleJob DEF Idle
<1>2. QED
  BY <1>1, StepJob DEF OnlineDone, sockVars, roleVars

LEMMA StepPlayerLoaded ==
  ASSUME IInv, NEW t \in Threads, PlayerLoaded(t)
  PROVE  After(role_dict)
<1>1. PICK d : d = role_dict
  OBVIOUS
<1>2. PICK g : g = State
  OBVIOUS
<1>3. PICK j : j = job[t]
  OBVIOUS
<1>4. g \in States /\ SInv(g, NoThread, d) /\ g.job = job /\ sock_dict \subseteq Socks
  BY <1>1, <1>2, Before, StateFields
<1>5. j.pc = "player" /\ j.pc \in {"idle", "player", "online"}
  BY <1>3 DEF PlayerLoaded
<1>6. SInv(g, t, d)
  BY <1>3, <1>4, <1>5, Begin
<1>7. JobInv(g, j)
  BY <1>2, <1>3, Before
<1>8. PICK u \in Uuids : u = j.uuid
  BY <1>5, <1>7 DEF JobInv
<1>9. JobRefs(g, j) /\ j.sock \in Socks
  BY <1>5, <1>7 DEF JobInv
<1>10. CASE Become(End(State, t, job[t]))
  <2>1. PICK e : e = End(g, t, j)
    OBVIOUS
  <2>2. SInv(e, NoThread, d)
    BY <1>6, <2>1, EndOk
  <2>3. Become(e)
    BY <1>2, <1>3, <1>10, <2>1
  <2>4. QED
    BY <1>1, <1>4, <2>2, <2>3, BecomeOk
<1>11. CASE Vacant(State, u) /\ Become(LoadLocked(Lock(State, t, u), t, j))
  <2>1. PICK e : e = LoadLocked(Lock(g, t, u), t, j)
    OBVIOUS
  <2>2. g.owner[u] = NoThread
    BY <1>2, <1>11 DEF Vacant
  <2>3. SInv(e, NoThread, d)
    BY <1>4, <1>6, <1>8, <1>9, <2>1, <2>2, LoadLockedOk
  <2>4. Become(e)
    BY <1>2, <1>11, <2>1
  <2>5. QED
    BY <1>1, <1>4, <2>3, <2>4, BecomeOk
<1>12. CASE Become(WaitLock(State, t, u, [j EXCEPT !.pc = "loadLock"]))
  <2>1. PICK k : k = [j EXCEPT !.pc = "loadLock"]
    OBVIOUS
  <2>2. PICK e : e = WaitLock(g, t, u, k)
    OBVIOUS
  <2>3. k \in Job /\ JobRefs(g, k) /\ k.pc = "loadLock" /\ k.uuid = u /\ k.sock = j.sock
    BY <1>8, <1>9, <2>1, JobPc
  <2>4. JobInv(g, k) /\ Wants(g, k, u)
    BY <1>9, <2>3 DEF JobInv, Wants
  <2>5. SInv(e, NoThread, d)
    BY <1>6, <2>2, <2>4, Parked
  <2>6. Become(e)
    BY <1>2, <1>12, <2>1, <2>2
  <2>7. QED
    BY <1>1, <1>4, <2>5, <2>6, BecomeOk
<1>13. QED
  BY <1>3, <1>8, <1>10, <1>11, <1>12 DEF PlayerLoaded

(* A logout or a save of a role that a coroutine without a lock begins.    *)
LEMMA StepLogout ==
  ASSUME IInv, NEW t \in Threads, Free(t), NEW d, d = role_dict,
         NEW g, SInv(g, t, d),
         NEW j, JobRefs(g, j), j.obj # NoRole, Become(Resume(Logout(g, t, j), t))
  PROVE  After(role_dict)
<1>1. sock_dict \subseteq Socks
  BY Before
<1>2. PICK e : e = Resume(Logout(g, t, j), t)
  OBVIOUS
<1>3. PICK m : m = Logout(g, t, j)
  OBVIOUS
<1>4. Ok(m, t, d, j.then)
  BY <1>1, <1>3, LogoutOk
<1>5. SInv(Resume(m, t), NoThread, d)
  BY <1>1, <1>4, ResumeOk
<1>6. QED
  BY <1>1, <1>2, <1>3, <1>5, BecomeOk

LEMMA FreeBegins ==
  ASSUME IInv, NEW t \in Threads, Free(t)
  PROVE  SInv(State, t, role_dict)
<1>1. PICK d : d = role_dict
  OBVIOUS
<1>2. PICK g : g = State
  OBVIOUS
<1>3. SInv(g, NoThread, d) /\ g.job[t].pc \in {"idle", "player", "online"}
  BY <1>1, <1>2, Before, StateFields DEF Free
<1>4. SInv(g, t, d)
  BY <1>3, Begin
<1>5. QED
  BY <1>1, <1>2, <1>4

LEMMA LogoutJobRefs ==
  ASSUME NEW st, NEW o, Known(st, o), NEW s \in Socks \cup {NoSock}, NEW j, j = LogoutJob(o, s)
  PROVE  JobRefs(st, j) /\ j.obj # NoRole
<1>1. o \in Roles /\ NoRole \notin Roles
  BY RoleSessionAssumption DEF Known
<1>2. j \in JobX /\ j.obj = o /\ j.role = NoRole /\ j.then = "end"
  BY <1>1 DEF LogoutJob, Idle, JobX
<1>3. QED
  BY <1>1, <1>2 DEF JobRefs

LEMMA StepCClientQuit ==
  ASSUME IInv, NEW t \in Threads, NEW s \in Socks, NEW u \in Uuids, CClientQuit(t, s, u)
  PROVE  After(role_dict)
<1>1. PICK d : d = role_dict
  OBVIOUS
<1>2. PICK g : g = State
  OBVIOUS
<1>3. PICK j : j = LogoutJob(role_dict[u], s)
  OBVIOUS
<1>4. SInv(g, t, d)
  BY <1>1, <1>2, FreeBegins DEF CClientQuit
<1>5. JobRefs(g, j) /\ j.obj # NoRole
  BY <1>2, <1>3, RoleThere, LogoutJobRefs DEF CClientQuit
<1>6. Become(Resume(Logout(g, t, j), t)) /\ Free(t)
  BY <1>2, <1>3 DEF CClientQuit
<1>7. QED
  BY <1>1, <1>4, <1>5, <1>6, StepLogout

LEMMA StepKick ==
  ASSUME IInv, NEW t \in Threads, NEW u \in Uuids, Kick(t, u)
  PROVE  After(role_dict)
<1>1. PICK d : d = role_dict
  OBVIOUS
<1>2. PICK g : g = State
  OBVIOUS
<1>3. PICK o : o = role_dict[u]
  OBVIOUS
<1>4. PICK cl : cl = CloseSock(g, o)
  OBVIOUS
<1>5. PICK j : j = LogoutJob(o, NoSock)
  OBVIOUS
<1>6. SInv(g, t, d)
  BY <1>1, <1>2, FreeBegins DEF Kick
<1>7. o \in Roles /\ Known(g, o)
  BY <1>2, <1>3, RoleThere DEF Kick
<1>8. SInv(cl, t, d) /\ cl.uuid = g.uuid
  BY <1>4, <1>6, <1>7, CloseOk
<1>9. Known(cl, o)
  BY <1>7, <1>8 DEF Known
<1>10. JobRefs(cl, j) /\ j.obj # NoRole
  BY <1>5, <1>9, LogoutJobRefs
<1>11. Become(Resume(Logout(cl, t, j), t)) /\ Free(t)
  BY <1>2, <1>3, <1>4, <1>5 DEF Kick
<1>12. QED
  BY <1>1, <1>8, <1>10, <1>11, StepLogout

LEMMA StepLogoutTimer ==
  ASSUME IInv, NEW t \in Threads, NEW o \in Roles, LogoutTimer(t, o)
  PROVE  After(role_dict)
<1>1. PICK d : d = role_dict
  OBVIOUS
<1>2. PICK g : g = State
  OBVIOUS
<1>3. PICK tm : tm = [g.timer EXCEPT ![o] = FALSE]
  OBVIOUS
<1>4. PICK cn : cn = [g EXCEPT !.timer = tm]
  OBVIOUS
<1>5. PICK j : j = LogoutJob(o, NoSock)
  OBVIOUS
<1>6. SInv(g, t, d)
  BY <1>1, <1>2, FreeBegins DEF LogoutTimer
<1>7. g \in States
  BY <1>6 DEF SInv
<1>8. tm \in [Roles -> BOOLEAN] /\ \A x \in Roles : tm[x] => g.timer[x]
  <2>1. g.timer \in [Roles -> BOOLEAN]
    BY <1>7, FieldTypes
  <2>2. QED
    BY <1>3, <2>1
<1>9. /\ cn \in States
      /\ cn.owner = g.owner /\ cn.queue = g.queue /\ cn.uuid = g.uuid
      /\ cn.role_dict = g.role_dict /\ cn.db = g.db /\ cn.job = g.job
      /\ cn.sock_role = g.sock_role /\ cn.timer = tm
  BY <1>4, <1>7, <1>8 DEF States
<1>10. SameLocks(g, cn) /\ SameEntries(g, cn) /\ SameJobs(g, cn, t) /\ GoodLinks(g, cn)
  BY <1>8, <1>9 DEF SameLocks, SameEntries, SameJobs, GoodLinks
<1>11. SInv(cn, t, d)
  BY <1>6, <1>9, <1>10, Frame
<1>12. g.timer[o]
  BY <1>2, StateFields DEF LogoutTimer
<1>13. Known(cn, o)
  BY <1>6, <1>9, <1>12 DEF SInv, RefInv, Known
<1>14. JobRefs(cn, j) /\ j.obj # NoRole
  BY <1>5, <1>13, LogoutJobRefs
<1>15. Become(Resume(Logout(cn, t, j), t)) /\ Free(t)
  BY <1>2, <1>3, <1>4, <1>5 DEF LogoutTimer
<1>16. QED
  BY <1>1, <1>11, <1>14, <1>15, StepLogout

LEMMA StepAutoSave ==
  ASSUME IInv, NEW t \in Threads, NEW u \in Uuids, AutoSave(t, u)
  PROVE  After(role_dict)
<1>1. PICK d : d = role_dict
  OBVIOUS
<1>2. PICK g : g = State
  OBVIOUS
<1>3. PICK o : o = role_dict[u]
  OBVIOUS
<1>4. PICK j : j = [Idle EXCEPT !.obj = o]
  OBVIOUS
<1>5. SInv(g, t, d) /\ sock_dict \subseteq Socks
  BY <1>1, <1>2, Before, FreeBegins DEF AutoSave
<1>6. o \in Roles /\ Known(g, o) /\ NoRole \notin Roles
  BY <1>2, <1>3, RoleThere, RoleSessionAssumption DEF AutoSave
<1>7. j \in JobX /\ j.obj = o /\ j.role = NoRole /\ j.then = "end"
  BY <1>4, <1>6 DEF Idle, JobX
<1>8. JobRefs(g, j) /\ j.obj # NoRole
  BY <1>6, <1>7 DEF JobRefs
<1>9. PICK m : m = Save(g, t, j)
  OBVIOUS
<1>10. PICK e : e = Resume(m, t)
  OBVIOUS
<1>11. Ok(m, t, d, j.then)
  BY <1>5, <1>8, <1>9, SaveOk
<1>12. SInv(e, NoThread, d)
  BY <1>5, <1>10, <1>11, ResumeOk
<1>13. Become(e)
  BY <1>2, <1>3, <1>4, <1>9, <1>10 DEF AutoSave
<1>14. QED
  BY <1>1, <1>5, <1>12, <1>13, BecomeOk

LEMMA StepSaved ==
  ASSUME IInv, NEW t \in Threads, Saved(t)
  PROVE  After(role_dict)
<1>1. PICK d : d = role_dict
  OBVIOUS
<1>2. PICK g : g = State
  OBVIOUS
<1>3. PICK j : j = job[t]
  OBVIOUS
<1>4. /\ g \in States /\ SInv(g, NoThread, d) /\ g.job = job /\ sock_dict \subseteq Socks
      /\ j.pc = "saving" /\ JobInv(g, j)
  BY <1>1, <1>2, <1>3, Before, StateFields DEF Saved
<1>5. PICK u \in Uuids : u = g.uuid[j.obj]
  BY <1>4 DEF JobInv, JobRefs, Known
<1>6. j.obj \in Roles /\ JobRefs(g, j) /\ j \in JobX /\ t # NoThread
  BY <1>4, RoleSessionAssumption DEF JobInv, JobRefs, Known
<1>7. Works(g, g.job[t], u)
  BY <1>3, <1>4, <1>5 DEF Works
<1>8. g.owner[u] = t
  BY <1>4, <1>6, <1>7 DEF SInv, OwnerInv
<1>9. g.db[u] = IF j.clear THEN NoRole ELSE g.role_dict[u]
  BY <1>3, <1>4, <1>6, <1>8 DEF SInv, EntryInv
<1>10. PICK ul : ul = Unlock(g, u)
  OBVIOUS
<1>11. PICK sv : sv = AfterSave(ul, j)
  OBVIOUS
<1>12. PICK k : k = [j EXCEPT !.pc = "saved"]
  OBVIOUS
<1>13. PICK st2 : st2 = Goto(sv, t, k)
  OBVIOUS
<1>14. /\ ul \in States /\ ul.owner[u] = NoThread
       /\ \A v \in Uuids : v # u => ul.owner[v] = g.owner[v]
       /\ ul.role_dict = g.role_dict /\ ul.uuid = g.uuid /\ ul.timer = g.timer
       /\ ul.db = g.db /\ ul.queue = g.queue /\ ul.job = g.job
       /\ SameLinks(g, ul)
  BY <1>4, <1>10, UnlockFields
<1>15. /\ sv \in States
       /\ sv.role_dict[u] = IF j.clear THEN NoRole ELSE ul.role_dict[u]
       /\ \A v \in Uuids : v # u => sv.role_dict[v] = ul.role_dict[v]
       /\ \A x \in Roles : sv.timer[x] => ul.timer[x]
       /\ sv.owner = ul.owner /\ sv.uuid = ul.uuid
       /\ sv.db = ul.db /\ sv.queue = ul.queue /\ sv.job = ul.job
       /\ SameLinks(ul, sv)
  <2>1. ul.uuid[j.obj] = u
    BY <1>5, <1>14
  <2>2. QED
    BY <1>6, <1>11, <1>14, <2>1, AfterSaveFields
<1>16. k \in JobX /\ JobRefs(g, k) /\ k.pc = "saved" /\ k.then = j.then
  BY <1>6, <1>12, JobPc
<1>17. /\ st2 \in States /\ st2.job[t] = k
       /\ \A x \in Threads : x # t => st2.job[x] = sv.job[x]
       /\ st2.sock_role = sv.sock_role /\ st2.timer = sv.timer
       /\ st2.role_dict = sv.role_dict /\ st2.db = sv.db /\ st2.uuid = sv.uuid
       /\ st2.owner = sv.owner /\ st2.queue = sv.queue
  <2>1. sv \in States /\ k \in JobX
    BY <1>15, <1>16
  <2>2. QED
    BY <1>13, <2>1, GotoFields
<1>18. /\ st2.owner[u] = NoThread /\ st2.uuid = g.uuid /\ st2.queue = g.queue
       /\ \A v \in Uuids : v # u => /\ st2.owner[v] = g.owner[v] /\ st2.db[v] = g.db[v]
                                    /\ st2.role_dict[v] = g.role_dict[v]
       /\ st2.role_dict[u] \in {NoRole, g.role_dict[u]} /\ st2.db[u] = st2.role_dict[u]
       /\ SameJobs(g, st2, t)
  BY <1>9, <1>14, <1>15, <1>17 DEF SameJobs
<1>19. GoodLinks(g, st2)
  BY <1>14, <1>15, <1>17 DEF GoodLinks, SameLinks
<1>20. SInv(st2, t, d)
  BY <1>4, <1>7, <1>17, <1>18, <1>19, Released
<1>21. JobRefs(st2, k)
  BY <1>16, <1>18 DEF JobRefs, Known
<1>22. Ok(st2, t, d, j.then)
  BY <1>16, <1>17, <1>20, <1>21 DEF Ok, Mid
<1>23. PICK e : e = Resume(st2, t)
  OBVIOUS
<1>24. SInv(e, NoThread, d)
  BY <1>4, <1>22, <1>23, ResumeOk
<1>25. Become(e)
  <2>1. Become(Resume(Goto(AfterSave(Unlock(State, uuid[j.obj]), j), t, [j EXCEPT !.pc = "saved"]), t))
    BY <1>3 DEF Saved
  <2>2. uuid[j.obj] = u
    BY <1>2, <1>5, StateFields
  <2>3. QED
    BY <1>2, <1>10, <1>11, <1>12, <1>13, <1>23, <2>1, <2>2
<1>26. QED
  BY <1>1, <1>4, <1>24, <1>25, BecomeOk

LEMMA StepGrant ==
  ASSUME IInv, NEW u \in Uuids, Grant(u)
  PROVE  After(role_dict)
<1>1. PICK d : d = role_dict
  OBVIOUS
<1>2. PICK g : g = State
  OBVIOUS
<1>3. PICK t : t = Head(queue[u])
  OBVIOUS
<1>4. PICK j : j = job[t]
  OBVIOUS
<1>5. /\ g \in States /\ SInv(g, NoThread, d) /\ g.job = job /\ sock_dict \subseteq Socks
      /\ g.queue = queue
  BY <1>1, <1>2, Before, StateFields
<1>6. g.queue[u] # <<>> /\ g.owner[u] = NoThread /\ t = Head(g.queue[u])
  BY <1>2, <1>3, <1>5 DEF Grant, Vacant
<1>7. PICK wk : wk = Woken(g, u)
  OBVIOUS
<1>8. /\ t \in Threads /\ Wants(g, g.job[t], u)
      /\ SInv(wk, t, d) /\ wk.owner = g.owner /\ wk.uuid = g.uuid /\ wk.job = g.job
      /\ JobInv(wk, g.job[t])
  BY <1>5, <1>6, <1>7, Granted
<1>9. j = g.job[t] /\ JobRefs(wk, j) /\ wk.owner[u] = NoThread
  BY <1>4, <1>5, <1>6, <1>8 DEF JobInv
<1>10. PICK lk : lk = Lock(wk, t, u)
  OBVIOUS
<1>11. lk = [State EXCEPT !.queue[u] = Tail(@), !.owner[u] = t]
  BY <1>2, <1>7, <1>10 DEF Woken, Lock
<1>12. Become(IF j.pc = "loadLock" THEN LoadLocked(lk, t, j) ELSE Resume(SaveLocked(lk, t, j), t))
  BY <1>3, <1>4, <1>11 DEF Grant
<1>13. CASE j.pc = "loadLock"
  <2>1. PICK e : e = LoadLocked(lk, t, j)
    OBVIOUS
  <2>2. j.uuid = u /\ j.sock \in Socks
    BY <1>8, <1>9, <1>13 DEF Wants, JobInv
  <2>3. SInv(e, NoThread, d)
    BY <1>5, <1>8, <1>9, <1>10, <2>1, <2>2, LoadLockedOk
  <2>4. Become(e)
    BY <1>12, <1>13, <2>1
  <2>5. QED
    BY <1>1, <1>5, <2>3, <2>4, BecomeOk
<1>14. CASE j.pc # "loadLock"
  <2>1. PICK m : m = SaveLocked(lk, t, j)
    OBVIOUS
  <2>2. PICK e : e = Resume(m, t)
    OBVIOUS
  <2>3. j.pc = "saveLock" /\ wk.uuid[j.obj] = u /\ j.obj \in Roles
    BY <1>8, <1>9, <1>14 DEF Wants, JobInv, JobRefs, Known
  <2>4. Ok(m, t, d, j.then)
    BY <1>8, <1>9, <1>10, <2>1, <2>3, SaveLockedOk
  <2>5. SInv(e, NoThread, d)
    BY <1>5, <1>8, <2>2, <2>4, ResumeOk
  <2>6. Become(e)
    BY <1>12, <1>14, <2>1, <2>2
  <2>7. QED
    BY <1>1, <1>5, <2>5, <2>6, BecomeOk
<1>15. QED
  BY <1>13, <1>14

LEMMA NewRoleFields ==
  ASSUME NEW st \in States, NEW u \in Uuids, NEW o \in Roles,
         NEW st2, st2 = Unlock(NewRole(st, u, o), u)
  PROVE  /\ st2 \in States /\ st2.uuid[o] = u
         /\ \A x \in Roles : x # o => st2.uuid[x] = st.uuid[x] /\ st2.timer[x] = st.timer[x]
         /\ st2.db[u] = o /\ st2.role_dict[u] = o /\ st2.owner[u] = NoThread
         /\ \A v \in Uuids : v # u => /\ st2.db[v] = st.db[v] /\ st2.role_dict[v] = st.role_dict[v]
                                      /\ st2.owner[v] = st.owner[v]
         /\ st2.queue = st.queue /\ st2.job = st.job /\ st2.sock_role = st.sock_role
<1>1. PICK nr : nr = NewRole(st, u, o)
  OBVIOUS
<1>2. /\ st.uuid \in [Roles -> Uuids \cup {NoUuid}] /\ st.sock_id \in [Roles -> Socks \cup {NoSock}]
      /\ st.timer \in [Roles -> BOOLEAN]
      /\ st.db \in [Uuids -> Roles \cup {NoRole}] /\ st.role_dict \in [Uuids -> Roles \cup {NoRole}]
  BY FieldTypes
<1>3. PICK a1, a2, a3, a4, a5 :
        /\ a1 = [st.uuid EXCEPT ![o] = u] /\ a2 = [st.sock_id EXCEPT ![o] = NoSock]
        /\ a3 = [st.timer EXCEPT ![o] = FALSE]
        /\ a4 = [st.db EXCEPT ![u] = o] /\ a5 = [st.role_dict EXCEPT ![u] = o]
  OBVIOUS
<1>4. nr = [st EXCEPT !.uuid = a1, !.sock_id = a2, !.timer = a3, !.db = a4,
                      !.role_dict = a5]
  BY <1>1, <1>3 DEF NewRole
<1>5. /\ a1 \in [Roles -> Uuids \cup {NoUuid}] /\ a2 \in [Roles -> Socks \cup {NoSock}]
      /\ a3 \in [Roles -> BOOLEAN]
      /\ a4 \in [Uuids -> Roles \cup {NoRole}] /\ a5 \in [Uuids -> Roles \cup {NoRole}]
  BY <1>2, <1>3
<1>6. /\ nr \in States
      /\ nr.uuid = a1 /\ nr.timer = a3 /\ nr.db = a4 /\ nr.role_dict = a5
      /\ nr.owner = st.owner /\ nr.queue = st.queue /\ nr.job = st.job
      /\ nr.sock_role = st.sock_role
  BY <1>4, <1>5 DEF States
<1>7. /\ st2 \in States /\ st2.owner[u] = NoThread
      /\ \A v \in Uuids : v # u => st2.owner[v] = nr.owner[v]
      /\ st2.role_dict = nr.role_dict /\ st2.uuid = nr.uuid /\ st2.timer = nr.timer
      /\ st2.db = nr.db /\ st2.queue = nr.queue /\ st2.job = nr.job
      /\ SameLinks(nr, st2)
  BY <1>1, <1>6, UnlockFields
<1>8. /\ a1[o] = u /\ a4[u] = o /\ a5[u] = o
      /\ \A x \in Roles : x # o => a1[x] = st.uuid[x] /\ a3[x] = st.timer[x]
      /\ \A v \in Uuids : v # u => a4[v] = st.db[v] /\ a5[v] = st.role_dict[v]
  BY <1>2, <1>3
<1>9. QED
  BY <1>6, <1>7, <1>8 DEF SameLinks

(* What is true of every step: no role is replaced by another one.         *)
Kept == IInv' /\ \A u \in Uuids : role_dict[u] # NoRole => role_dict'[u] \in {role_dict[u], NoRole}

LEMMA AfterIsKept == ASSUME After(role_dict) PROVE Kept
BY DEF After, Kept

LEMMA StepRoleLoaded ==
  ASSUME IInv, NEW t \in Threads, RoleLoaded(t)
  PROVE  Kept
<1>1. PICK d : d = role_dict
  OBVIOUS
<1>2. PICK g : g = State
  OBVIOUS
<1>3. PICK j : j = job[t]
  OBVIOUS
<1>4. /\ g \in States /\ SInv(g, NoThread, d) /\ sock_dict \subseteq Socks
      /\ g.job = job /\ g.role_dict = role_dict /\ g.db = db_dict /\ g.sock_role = sock_role
      /\ j.pc = "loading" /\ JobInv(g, j)
  BY <1>1, <1>2, <1>3, Before, StateFields DEF RoleLoaded
<1>5. PICK u \in Uuids : u = j.uuid
  BY <1>4 DEF JobInv
<1>6. PICK ul : ul = Unlock(g, u)
  OBVIOUS
<1>7. t # NoThread /\ NoRole \notin Roles
  BY RoleSessionAssumption
<1>8. Works(g, g.job[t], u) /\ g.owner[u] = t
  BY <1>3, <1>4, <1>5, <1>7 DEF Works, SInv, OwnerInv
<1>9. g.db[u] = NoRole /\ g.role_dict[u] = NoRole
  BY <1>3, <1>4, <1>7, <1>8 DEF SInv, EntryInv
<1>10. /\ ul \in States /\ ul.owner[u] = NoThread
       /\ \A v \in Uuids : v # u => ul.owner[v] = g.owner[v]
       /\ ul.role_dict = g.role_dict /\ ul.uuid = g.uuid /\ ul.timer = g.timer
       /\ ul.db = g.db /\ ul.queue = g.queue /\ ul.job = g.job
       /\ SameLinks(g, ul)
  BY <1>4, <1>6, UnlockFields
<1>11. SameJobs(g, ul, t) /\ GoodLinks(g, ul)
  BY <1>10 DEF SameJobs, GoodLinks, SameLinks
<1>12. SInv(ul, t, d)
  BY <1>4, <1>8, <1>9, <1>10, <1>11, Released
<1>13. CASE Become(End(Unlock(State, u), t, j))
  <2>1. PICK e : e = End(ul, t, j)
    OBVIOUS
  <2>2. SInv(e, NoThread, d)
    BY <1>12, <2>1, EndOk
  <2>3. Become(e)
    BY <1>2, <1>6, <1>13, <2>1
  <2>4. QED
    BY <1>1, <1>4, <2>2, <2>3, BecomeOk, AfterIsKept
<1>14. CASE \E o \in Roles :
              Unused(o) /\ Become(LoggedIn(NewRole(g, u, o), t, [j EXCEPT !.role = o]))
  <2>1. PICK o \in Roles :
          Unused(o) /\ Become(LoggedIn(NewRole(g, u, o), t, [j EXCEPT !.role = o]))
    BY <1>14
  <2>2. PICK nr : nr = Unlock(NewRole(g, u, o), u)
    OBVIOUS
  <2>3. PICK k : k = [j EXCEPT !.role = o]
    OBVIOUS
  <2>4. /\ nr \in States /\ nr.uuid[o] = u
        /\ \A x \in Roles : x # o => nr.uuid[x] = g.uuid[x] /\ nr.timer[x] = g.timer[x]
        /\ nr.db[u] = o /\ nr.role_dict[u] = o /\ nr.owner[u] = NoThread
        /\ \A v \in Uuids : v # u => /\ nr.db[v] = g.db[v] /\ nr.role_dict[v] = g.role_dict[v]
                                     /\ nr.owner[v] = g.owner[v]
        /\ nr.queue = g.queue /\ nr.job = g.job /\ nr.sock_role = g.sock_role
    BY <1>4, <2>2, NewRoleFields
  <2>5. nr.owner = ul.owner
    <3>1. nr.owner \in [Uuids -> Threads \cup {NoThread}] /\ ul.owner \in [Uuids -> Threads \cup {NoThread}]
      BY <1>10, <2>4, FieldTypes
    <3>2. \A v \in Uuids : nr.owner[v] = ul.owner[v]
      BY <1>10, <2>4
    <3>3. QED
      BY <3>1, <3>2
  <2>6. /\ \A v \in Uuids : ul.role_dict[v] # o /\ ul.db[v] # o
        /\ \A s \in Socks : ul.sock_role[s] # o
        /\ \A x \in Threads : ul.job[x].role # o /\ ul.job[x].obj # o
    BY <1>4, <2>1, <1>10 DEF Unused, SameLinks
  <2>7. PICK d2 : d2 = [v \in Uuids |-> IF v = u THEN o ELSE d[v]]
    OBVIOUS
  <2>8. d2[u] = o /\ \A v \in Uuids : v # u => d2[v] = d[v]
    BY <2>7
  <2>9. SInv(nr, t, d2)
    <3>1. /\ ul.role_dict[u] = NoRole
          /\ \A x \in Roles : x # o => nr.uuid[x] = ul.uuid[x] /\ nr.timer[x] = ul.timer[x]
          /\ \A v \in Uuids : v # u => nr.db[v] = ul.db[v] /\ nr.role_dict[v] = ul.role_dict[v]
          /\ nr.queue = ul.queue /\ nr.job = ul.job /\ nr.sock_role = ul.sock_role
      BY <1>9, <1>10, <2>4 DEF SameLinks
    <3>2. QED
      BY <1>10, <1>12, <2>4, <2>5, <2>6, <2>8, <3>1, NewRoleOk
  <2>10. JobRefs(nr, k) /\ k.sock \in Socks /\ k.role # NoRole
    <3>1. j \in JobX /\ j.sock \in Socks /\ JobRefs(g, j)
      BY <1>4 DEF JobInv, JobRefs
    <3>2. k \in JobX /\ k.role = o /\ k.obj = j.obj /\ k.then = j.then /\ k.sock = j.sock
      BY <2>3, <3>1 DEF JobX
    <3>3. j.obj # NoRole => Known(nr, j.obj)
      BY <2>4, <3>1 DEF JobRefs, Known
    <3>4. QED
      BY <1>7, <2>4, <3>1, <3>2, <3>3 DEF JobRefs, Known
  <2>11. PICK e : e = Login(nr, t, k)
    OBVIOUS
  <2>12. SInv(e, NoThread, d2)
    BY <1>4, <2>9, <2>10, <2>11, LoginOk
  <2>13. Become(e)
    <3>1. k.uuid = u
      BY <1>4, <1>5, <2>3 DEF JobInv, Job
    <3>2. QED
      BY <2>1, <2>2, <2>3, <2>11, <3>1 DEF LoggedIn
  <2>14. After(d2)
    BY <1>4, <2>12, <2>13, BecomeOk
  <2>15. QED
    BY <1>1, <1>4, <1>9, <2>8, <2>14 DEF After, Kept
<1>15. QED
  BY <1>2, <1>3, <1>5, <1>13, <1>14 DEF RoleLoaded
-----------------------------------------------------------------------------
LEMMA InitOk == ASSUME Init PROVE IInv
<1>1. PICK g : g = State
  OBVIOUS
<1>2. /\ Idle \in JobX /\ Idle.pc = "idle" /\ \A st : JobInv(st, Idle)
      /\ NoThread \notin Threads
  BY IdleJob, RoleSessionAssumption DEF Idle
<1>3. g \in States
  BY <1>1, <1>2 DEF Init, State, States
<1>4. /\ \A t \in Threads : g.job[t] = Idle
      /\ \A u \in Uuids : /\ g.owner[u] = NoThread /\ g.queue[u] = <<>>
                          /\ g.db[u] = NoRole /\ g.role_dict[u] = NoRole
      /\ \A s \in Socks : g.sock_role[s] = NoRole
      /\ \A o \in Roles : ~g.timer[o]
  BY <1>1 DEF Init, State
<1>5. \A t \in Threads : JobInv(g, g.job[t])
  BY <1>2, <1>4
<1>6. OwnerInv(g, NoThread)
  BY <1>2, <1>4 DEF OwnerInv, Works
<1>7. QueueInv(g, NoThread)
  BY <1>4 DEF QueueInv
<1>8. RefInv(g)
  BY <1>4 DEF RefInv
<1>9. \A u \in Uuids : EntryInv(g, u)
  BY <1>4 DEF EntryInv
<1>10. \A u \in Uuids : g.role_dict[u] \in {role_dict[u], NoRole}
  BY <1>4
<1>11. SInv(g, NoThread, role_dict)
  BY <1>3, <1>5, <1>6, <1>7, <1>8, <1>9, <1>10 DEF SInv
<1>12. QED
  BY <1>1, <1>11 DEF Init, IInv

LEMMA NextOk == ASSUME IInv, [Next]_vars PROVE Kept
<1>1. CASE UNCHANGED vars
  <2>1. /\ sock_dict' = sock_dict /\ closing' = closing /\ role_dict' = role_dict
        /\ State' = State
    BY <1>1 DEF vars, sockVars, roleVars, State
  <2>2. IInv'
    BY <2>1 DEF IInv
  <2>3. QED
    BY <2>1, <2>2 DEF Kept
<1>2. CASE Next
  <2>1. ASSUME NEW s \in Socks, Accept(s) PROVE Kept
    BY <2>1, StepAccept, AfterIsKept
  <2>2. ASSUME NEW s \in Socks, Close(s) PROVE Kept
    BY <2>2, StepClose, AfterIsKept
  <2>3. ASSUME NEW s \in Socks, NEW u \in Uuids, CReconnect(s, u) PROVE Kept
    BY <2>3, StepReconnect, AfterIsKept
  <2>4. ASSUME NEW t \in Threads, NEW s \in Socks, NEW u \in Uuids, CLogin(t, s, u) PROVE Kept
    BY <2>4, StepCLogin, AfterIsKept
  <2>5. ASSUME NEW t \in Threads, NEW s \in Socks, NEW u \in Uuids, CClientQuit(t, s, u) PROVE Kept
    BY <2>5, StepCClientQuit, AfterIsKept
  <2>6. ASSUME NEW t \in Threads, NEW u \in Uuids, Kick(t, u) PROVE Kept
    BY <2>6, StepKick, AfterIsKept
  <2>7. ASSUME NEW t \in Threads, NEW u \in Uuids, AutoSave(t, u) PROVE Kept
    BY <2>7, StepAutoSave, AfterIsKept
  <2>8. ASSUME NEW t \in Threads, NEW o \in Roles, LogoutTimer(t, o) PROVE Kept
    BY <2>8, StepLogoutTimer, AfterIsKept
  <2>9. ASSUME NEW t \in Threads, PlayerLoaded(t) PROVE Kept
    BY <2>9, StepPlayerLoaded, AfterIsKept
  <2>10. ASSUME NEW t \in Threads, RoleLoaded(t) PROVE Kept
    BY <2>10, StepRoleLoaded
  <2>11. ASSUME NEW t \in Threads, OnlineDone(t) PROVE Kept
    BY <2>11, StepOnlineDone, AfterIsKept
  <2>12. ASSUME NEW t \in Threads, Saved(t) PROVE Kept
    BY <2>12, StepSaved, AfterIsKept
  <2>13. ASSUME NEW u \in Uuids, Grant(u) PROVE Kept
    BY <2>13, StepGrant, AfterIsKept
  <2>14. QED
    BY <1>2, <2>1, <2>2, <2>3, <2>4, <2>5, <2>6, <2>7, <2>8, <2>9, <2>10, <2>11, <2>12, <2>13
       DEF Next, ThreadStep
<1>3. QED
  BY <1>1, <1>2

LEMMA Invariant == Spec => []IInv
<1>1. Init => IInv
  BY InitOk
<1>2. IInv /\ [Next]_vars => IInv'
  BY NextOk DEF Kept
<1>3. QED
  BY <1>1, <1>2, PTL DEF Spec

(* The variables have their types, every known connection to be closed is  *)
(* there, and who loads or saves a role holds the lock of its account      *)
(* (role_cls._load, role_db.save_role).                                    *)
THEOREM TypeCorrect == Spec => []TypeOK
<1>1. IInv => TypeOK
  <2>1. SUFFICES ASSUME IInv PROVE TypeOK
    OBVIOUS
  <2>2. PICK g : g = State
    OBVIOUS
  <2>3. g \in States /\ SInv(g, NoThread, role_dict)
    BY <2>1, <2>2, Before
  <2>4. /\ sock_role \in [Socks -> Roles \cup {NoRole}]
        /\ role_dict \in [Uuids -> Roles \cup {NoRole}]
        /\ uuid \in [Roles -> Uuids \cup {NoUuid}]
        /\ sock_id \in [Roles -> Socks \cup {NoSock}]
        /\ timer_logout \in [Roles -> BOOLEAN]
        /\ db_dict \in [Uuids -> Roles \cup {NoRole}]
        /\ owner \in [Uuids -> Threads \cup {NoThread}]
        /\ queue \in [Uuids -> Seq(Threads)]
        /\ job \in [Threads -> JobX]
    BY <2>2, <2>3, FieldTypes, StateFields
  <2>5. sock_dict \subseteq Socks /\ closing \subseteq sock_dict /\ \A t \in Threads : job[t] \in Job
    BY <2>1, Before
  <2>6. ASSUME NEW t \in Threads, job[t].pc = "loading" PROVE owner[job[t].uuid] = t
    <3>1. JobInv(g, job[t]) /\ NoThread \notin Threads
      BY <2>1, <2>2, Before, RoleSessionAssumption
    <3>2. job[t].uuid \in Uuids /\ Works(g, g.job[t], job[t].uuid)
      BY <2>2, <2>6, <3>1, StateFields DEF JobInv, Works
    <3>3. g.owner[job[t].uuid] = t
      BY <2>3, <3>1, <3>2 DEF SInv, OwnerInv
    <3>4. QED
      BY <2>2, <3>3, StateFields
  <2>7. ASSUME NEW t \in Threads, job[t].pc = "saving" PROVE owner[uuid[job[t].obj]] = t
    <3>1. JobInv(g, job[t]) /\ NoThread \notin Threads
      BY <2>1, <2>2, Before, RoleSessionAssumption
    <3>2. g.uuid[job[t].obj] \in Uuids /\ Works(g, g.job[t], g.uuid[job[t].obj])
      BY <2>2, <2>7, <3>1, StateFields DEF JobInv, JobRefs, Known, Works
    <3>3. g.owner[g.uuid[job[t].obj]] = t
      BY <2>3, <3>1, <3>2 DEF SInv, OwnerInv
    <3>4. QED
      BY <2>2, <3>3, StateFields
  <2>8. QED
    BY <2>4, <2>5, <2>6, <2>7 DEF TypeOK
<1>2. QED
  BY <1>1, Invariant, PTL

(* While nobody holds the lock of an account, its entry of role_db is that *)
(* of its role: a loaded role is saved under its uuid, an unloaded one     *)
(* leaves no entry behind (role_cls.load, logout, role_db.save_role).      *)
THEOREM EntryIsRole == Spec => []EntryMatchesRole
<1>1. IInv => EntryMatchesRole
  BY Before, StateFields DEF SInv, EntryInv, EntryMatchesRole
<1>2. QED
  BY <1>1, Invariant, PTL

(* Who owns the lock of a role waits for the database, never for another   *)
(* role lock: logins that cross on two connections cannot wait for each    *)
(* other (role_cls._load, login, logout).                                  *)
THEOREM OwnersOnlyWork == Spec => []OwnersDoNotWait
<1>1. IInv => OwnersDoNotWait
  <2>1. SUFFICES ASSUME IInv, NEW u \in Uuids, NEW t \in Threads, owner[u] = t
                 PROVE  job[t].pc \in {"loading", "saving"}
    BY DEF OwnersDoNotWait
  <2>2. State.owner[u] = t /\ t # NoThread
    BY <2>1, StateFields, RoleSessionAssumption
  <2>3. Works(State, State.job[t], u)
    BY <2>1, <2>2, Before DEF SInv, OwnerInv
  <2>4. QED
    BY <2>3, StateFields DEF Works
<1>2. QED
  BY <1>1, Invariant, PTL

(* No step replaces a role object that is in role_dict by another one: the *)
(* lock lets only one login load a role (role_cls.load).                   *)
THEOREM RolesNeverReplaced == Spec => NeverReplaced
<1>1. IInv /\ [Next]_vars =>
        [\A u \in Uuids : role_dict[u] # NoRole => role_dict'[u] \in {role_dict[u], NoRole}]_vars
  BY NextOk DEF Kept
<1>2. QED
  BY <1>1, Invariant, PTL DEF Spec, NeverReplaced
=============================================================================
