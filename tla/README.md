# A TLA+ development of UEserver's core

UEserver is a Lua game server on skynet: many services per node, several nodes
per game, one MySQL database. A service runs one coroutine at a time and a
coroutine gives up control only where it waits (a call to another service, a
database query, `skynet.sleep`, `skynet.wait`, a lock). What is hard about the
code is what happens between such points: a handler reads something, waits, and
acts on it when other handlers, a closed connection or a timer have changed it.
Around the services, scripts start and stop the nodes of a game server and the
nodes call each other and die independently. The modules here model that, and
only that; game rules are left out.

Paths below are relative to `src/server/`.

## 1. Inventory

### Components modelled

| component | state | operations | what makes it correct |
|---|---|---|---|
| `co_lock` (`lualib/srv_utils/co_lock.lua`) | per lock: owner, `ref`, queue, timeout, destroyed; per manager: `lock_dict` | `run`, `_wait`, `_unlock`, `_wake_next`, the forked `_wake_waiting`, `on_timeout`, `destroy` | exclusion per key although lock objects come and go; no waiter forgotten; waiters run |
| gate binding (`gamelogic/service/agent_gate`, `skynet/service-src/service_gate.c`) | Lua: `sock_dict`, `role_sock_mapper`, `role_count`; C: `connection.user_id`, `user_id_hash`, `user_id_map`; two message queues | `bind_role`, `unbind_role`, `unbind_sock`, accept and close on both sides, the `bind` command | both tables exact at every moment, equal when the queues are empty; broadcasts reach the right connection |
| `offline_db` (`lualib/db/offline_db.lua`) | `_db_lru`, `_save_lru`, `_load_lock`; requests on their way; the rows | `get`, `find_one`, `_load`, `set`, `delete`, `save_once`, `save_all`, restart | no stale object, no lost change, writes hit their row; what is set becomes durable |
| role sessions (`agent/sock.lua`, `role_cls.lua`, `role_db.lua`, `msg_handles/login.lua`) | `sock_dict`, `sock.role`, `role_dict`, `role.sock_id`, `timer_logout`, `_db_dict`, the role locks | accept, close, `c_login`, `c_reconnect`, `c_client_quit`, `kick`, logout timer, auto save | one role object per loaded role and its entry saved under the same uuid; logins that cross never wait for each other's locks; a role without a connection is logged out; a login displaces the other connection |
| scripts and launchers (`server_mgr.py`, `_shut_utils.py`, `reload_watcher`, the launchers) | the processes of three nodes, the files under `status/`, `_agent_correlate_node`, the running shutdowns | start, shutdown, `shutdown_kill`, boot handshake, shutdown of the game and of the nodes it takes along, crash, interrupted script | what a shutdown finds unsaved is saved before a node aborts; scripts end; no process is left in the way of the next start |
| agent shutdown (`agent/agent_utils.lua`) | `role_list`, `_shutdown_uuid_dict`, the position of the loop, the entries of `_db_dict`, the logouts under way, unsaved roles | the kick loop, the kicks, logouts and late logins beside it, `save_all` | every earlier change is written or in the hands of a logout, few roles are passed over; the shutdown ends |
| `clusterd` calls (`service/clusterd/clusterd_utils.lua`) | per node pair: connection, lock, waiting messages, sessions, `last_session_id` | `call`, `probe`, connect, receive, answer, `on_close_sock`, restart | an answer reaches its call; a call is executed at most once and ends unless it was lost |
| address book (`addr_mgr.lua`, the heartbeats of `clusterd`) | router: `node_dict`, `down_dict`, the addresses it connects to; node: `router_map`, `refresh_all_count` | heartbeat, check, shutdown message, updates, `show_self`, start, crash | no running node is declared dead; all books converge |
| gift keys (`world/gift_key.lua`, `agent/gift_key_utils.lua`) | cache of counts, `lock_dict`, the queries under way, the rows, a role's used keys | use, load, periodic save, deletion, reconnect | no use too many and none forgotten, one key of a batch per role, keys unlocked |

How they interact: `service_gate.c` owns the client sockets and reports accepts
and closes to `agent_gate`, which keeps the binding and passes requests on to
`agent`. The agent serialises the requests of a connection with the lock of the
connection (`sock.lock`, `co_lock.new(10)`), loads, saves and removes a role
under the role's lock (`role_cls._lock_mgr`), and tells the gate which role a
connection acts for. Roles are read and written through `game_database`;
everything shared between roles (dynasties, parties, bosses) through an
`OfflineObjMgr`. The operator's scripts start the nodes game, chat and dynasty
and ask the game node to stop through a file that its `reload_watcher` looks for;
the game node kicks its roles (`agent_utils.shutdown`), asks the other nodes to
shut down through `clusterd`, and all of them abort. `clusterd` connects to the
address the `cluster_router` has told it; a service such as the agent uses it to
call the world (gift keys).

### Components not modelled

`PROJECT.json` lists them with the reason. In short:

* **with behaviour of their own, not modelled**: `timer`, offline commands, pay
  orders with `CoQueue`, parties, salons, traitor bosses, `child_marry`, rank
  lists, chat channels, LRU and Deque, `mysql_db` transactions, `auto_reload` of
  the scripts (see "Not modelled");
* **input and output**: login lists, gm_router, gamelog, tools;
* **sequential game rules**: `agent/meta_table` (18 700 lines) and most of the
  dynasty service: arithmetic on one role's or one guild's own data;
* **third party**: skynet and the C libraries. The models rest on its scheduling
  (one coroutine at a time per service, messages between two services in order,
  every woken or forked coroutine runs) and on socket ids not being reused while
  something mentions them.

### Hard behaviours

`PROJECT.json` has each with its line and the property that would catch it. The
recurring ones:

* a value tested before a wait and used after it (`login` and `self.sock_id`,
  `c_login` and its `sock`, the loaded role and its entry);
* objects with a life of their own behind a name (locks of a manager, role
  objects): a late holder meets the successor;
* two services that keep the same table and inform each other late;
* a cache that is ahead of its database, with requests on their way;
* processes that restart with their numbers, books and handshakes begun anew
  while others still refer to the old ones;
* a list that shrinks while a loop that sleeps walks over it;
* timeouts that take a lock from a coroutine which does not notice.

## 2. Modules

| module | what it is |
|---|---|
| `CoLock` | the lock and its managers |
| `CoLockProofs` | inductive invariant and five theorems |
| `GateBinding` | the two binding tables and the queues between them |
| `GateBindingProofs` | inductive invariant and five theorems |
| `ObjectStore` | abstract: an object has a current and a durable value |
| `OfflineDb` | the cache; implements `ObjectStore` |
| `OfflineDbProofs` | inductive invariant, four theorems and the refinement |
| `RoleSession` | connections, roles, logins and logouts |
| `RoleSessionProofs` | inductive invariant and four theorems |
| `ServerLife` | processes, scripts, boot and shutdown of a game server |
| `ServerLifeProofs` | two inductive invariants and three theorems |
| `AgentShutdown` | the loop that kicks everybody, in detail |
| `AgentShutdownProofs` | inductive invariant and three theorems |
| `ClusterRpc` | calls between nodes over connections that break |
| `ClusterRpcProofs` | inductive invariant and four theorems |
| `ClusterAddr` | router, heartbeats and address books |
| `GiftKey` | agent, world and database of the gift keys |
| `GiftKeyProofs` | inductive invariant and four theorems |
| `MC...` | model values for TLC |

An operator whose name begins with `Mut` is the definition that follows it with
a plausible mistake; each property is known to fail for one of them, so no
property holds by the shape of the model alone. They are not part of the
specification.

### CoLock

A lock manager creates a lock object for a key on demand and drops it (`cb_free`)
when nobody waits, so objects (`Locks`) and the names callers use (`LockIds`) are
distinct; a permanent lock (`co_lock.new`) is a name that is not `Managed`.
Actions: `New`, `RunFresh` (a manager creates the object and enters), `RunEnter`
(free or re-entrant), `RunWait`, `Resume` (after `_wait`, with the coroutine's
assertion), `Unlock` (the end of `f`, with `_wake_next`), `WakeWaiting` (the
fork), `OnTimeout`, `Destroy`. History in the frames of `stack` says whether a
coroutine has lost the lock it believes to hold.

### GateBinding

`ctrl` carries the `bind` commands from Lua to C and `report` the accepts and
closes from C to Lua. The Lua operations are functions of a record (`UnbindSock`,
`UnbindRole`, `SetRole`), because `bind_role` runs three of them within one
message. The index of the C side keeps, as `hashid.h` does, a list of entries per
user of which the first is found and removed. The requests of the agent are
arbitrary: what is shown holds for any agent. Bound: `MaxCtrl` commands under way.

### OfflineDb and ObjectStore

A value of an object is a number that grows with every `set`; 0 is "no row".
`client` says what a caller waits for in `_load` (spinning on `_load_lock`, or for
the answer), `pipe` holds the requests of a key the database has not executed:
`get_db_client` chooses the connection by the key, so they are executed in order.
Eviction (`Evict`) and flushing (`Flush`) are one iteration of the loops of
`save_once`; `save_all` is the same without the delay, and times are
nondeterministic (any object may be the oldest, and be due). `Crash` loses the
memory and the pipe; `load_all` may read any of the rows afterwards.

Assumptions on the callers and the database, each of which the code relies on and
does not check:

1. an id is not asked for again once it is deleted (dynasty and party ids are
   fresh; `child_marry` does not keep to it, see the hazards);
2. `set` and `delete` come from a coroutine that has the object, when nobody is
   loading it, and nobody waits for an object that is deleted;
3. writes do not raise an error;
4. requests of a dead process are not executed after the restart has read.

`ObjectStore` is what a caller is promised: a current value per object, a durable
one that follows it and never goes back, and crashes that return to the durable
value. `OfflineDb` implements it with `current` from the last `set` and `durable`
from the row (`ImplementsStore`): the caches, marks, loads and the requests under
way are all stuttering.

### RoleSession

One action is the code between two waits. `c_login` waits for the player, for
the role lock, for the role, in `logout` for the lock and for the save, and in
`on_online`; `job[t]` says where a coroutine is and what follows. Within a step
`role_cls` calls itself (`login`, `logout`, `save`), so a step is a function of
the state as a record; `then` in `job[t]` says what follows a save (`Resume`). Role objects are modelled apart from uuids: a
removed role may live on in a coroutine, a connection or a timer. A connection
runs one handler at a time (`Quiet`, from `sock.lock`). The role lock is that of
`CoLock`, without the timeout: free, or owned; the first in the queue is woken
when it is free (`Grant`), and a newcomer may come first. `closing` is history:
connections the gate has been told to close, used by `LoginDisplaces` only.
A load may fail (`RoleLoaded`): the lock is released and the handler ends. It
also fails when all `Roles` objects are in use, which is the bound of the model.
The token of a reconnect is left out: any client of a loaded role may have it,
also the nil of a role whose first login has not ended (`role_cls.lua:469`).

`OwnersDoNotWait` is why crossing logins cannot deadlock: two roles, each held by
a connection that wants the other one, make two coroutines each wait for a save
of the other's role, but neither owns a lock while it waits for one. The run has
the two connections, two roles and three coroutines this needs; with `login`
before the end of `lock_run` (`MutLoggedIn`) it fails.

Left out: `c_new_role` and `role_cls.create`, accounts that are forbidden to log
in (a load followed by a kick), `write_db` and `read_db`, the 10 s timeouts of the
role lock and the connection lock, the requests still queued at the lock of a
connection that closes.
The status of the component is therefore "partly".

### ServerLife

`proc[n]` is how far the process of a node has come in its launcher: spawned,
`reload_watcher` runs, `.agent` registered, gate open (players can come in while
`child_marry` starts and the shutdown callback is not registered yet), and so on.
`dup` are second processes, which touch the status files and cannot listen on the
port of the first; where the first is on its way out they may get the port after
all (`Slow`). `starting` and `shuting` are the files; `op` is where each
operator's script is in `server_mgr.py`. A shutdown of the game is `inv`: it waits
for the roles, asks each other node that `probe` finds (`ProbeOther`, `asked`),
waits for the answers, and sets the abort timer (`dying`). Two such shutdowns may
overlap, because a second request touches the file again. `calm` is history.

`due` is the data that a shutdown finds unsaved when it calls the registered
callback: the roles and what else `.agent` has, the database of `.child_marry`
(in the game node too) and that of `.dynasty`. `CallbackSaves` says of the first
and the last that they are written before their node aborts. `DataSaved` says it
of all three, as the comment of `agent_utils.shutdown` does, and is false: see the
findings. Nothing is said of a shutdown that comes before the callback is
registered (`Callback`): whatever players have changed by then is lost, and the
same goes for what roles that the kick loop passed over do after `save_all`.
`RolesSaved` is one step here; what it does is in `AgentShutdown`.

Assumed: the abort timers (10 ms) of the other nodes, which were set before, fire
before the game's; `kill` is immediate death; the three nodes are launched in one
step of the script; only the game node crashes in the run (`Crashes`), and only a
second process of dynasty outlives the first (`Slow`).

### AgentShutdown

`ipairs` over the live `role_cls.role_list` is `index`; a role that leaves
(`Leaves`) moves the rest up. The loop gives up control in its sleeps, at the end
and while `save_all` writes (`Yielded`): only then may kicks run, clients quit and
a login that was accepted before load its role.

A logout is three things apart: it drops the entry of the role from `_db_dict`
(`LogoutBegins`), waits for the database, and removes the role from the list
(`LogoutEnds`); `logout[u]` says whether a kick or the client (or the timer) runs
it, and another logout of the role waits for the role lock meanwhile. Logouts may
be under way when the shutdown begins (`Init`). `save_all` takes the roles that
have an entry then (`Entries`), and writes them one after the other (`SaveRole`,
`SaveWritten`); a role whose entry went meanwhile is skipped. What the node saves
and waits for afterwards is `rest`. `unsaved` are roles with changes older than
the shutdown, at first those of `Changed` (in the run all, which is the worst case: no
step depends on it). `Batch` and `MaxSaving` scale 3 and 800 down.

`FewPassedOver` says what the walk over a live list costs: of the roles online at
the beginning, at most as many are not kicked as left while the loop slept. They
are still written by `save_all`. `EarlierChangesSaved` says that the changes are
written when the shutdown is over, or belong to a logout whose write is under way
(`Leaving`). That exception is real: the client of a role the loop passed over may
quit while the last kicks run; its entry is gone when `save_all` looks, and
`_shutdown_uuid_dict` does not know of it, so nobody waits for its write before
the node aborts. Kicked roles are waited for.

### ClusterRpc

A node sends over its own connection to another node and receives over the
others', so a call and its answer take different connections (`Pairs`). `wire`
holds what is in a connection, `live` whether its receiver still reads it: a break
loses what is in it, and the sender notices later (`OnClose`). `waiting` are the
messages of coroutines that wait for the connection. Ids come round at
`SessionLimit`. `Restart` ends a process with its sessions, connections and the
calls it executes. `lost` is history: the calls of which a message was lost with a
connection or a process, or given up, or which `on_call` refused. It refuses a
call to a service that does not exist, or from a node it has no address of, with
an error outside its `xpcall` (`clusterd_utils.lua:329-333`): nothing is answered.

Assumed: a connection carries the names of its nodes (the code sends `show_self`
first), a restarted process has its address, no message is split (above 7 MB).

### ClusterAddr

`mail[n]` is what the router has sent to `n` and is under way, merged entry by
entry, since delivery is in order. `cut` are nodes whose connection from the
router still leads to a dead process: what is sent there is lost, which is why a
node asks for the whole book with its first `RefreshCount` heartbeats. A late
heartbeat is a check that comes before it (`pauses`). `address` is where the router
connects to: a heartbeat from another address gives the old connection up, one from
the same address does not, also of a node that was taken for down
(`update_node_addr`).

Assumed about time: every running node beats between two checks (1 s against 3 s)
unless `pauses` counts one that did not; the router has noticed that the old
process died before the new one's last asking heartbeat; the services of a node
start after its first heartbeat. A node nobody has heard of starts with its
initial address, which is no restriction because all addresses are alike.

### GiftKey

A request is a use of a key by a role; it goes through the agent (`Use`,
`Answered`), the world (`UseCached`, `UseLoad`, `Loaded`) and the database
(`Execute`). `queries` is the one connection of the world, executed in order
(`MAX_DB_CONN_COUNT` is 1): `Save` puts the counts into it and forgets them,
before the rows are written. `current` is the request that holds the lock of the
role's connection; `Reconnect` gives the role a new connection and lock while the
old request goes on.

Assumed: the world process goes on and no query fails. The guarantees hold for one
life of that process: a crash loses the counts since the last save, and its orderly
stop as well, because the callback of its launcher does nothing
(`world_launcher.lua:21`) and `MOD.save` only runs from its timer.

### Conditional properties

Some properties hold only under a condition, which is part of the formula and
marks a limit of the code that the unconditional form would run into:

* `NoneLeftBehind`, `ScriptsEnd` (`calm`): after a crash of the game
  alone, the new agent waits for ever for chat and dynasty, which report once,
  when they start (`agent/main.lua:23`); a script of a second operator, or after
  an interruption, may wait for a file a second process has eaten
  (`_shut_utils.py:34`).
* `CallsEnd` (`lost`): a connection that closes ends no session
  (`clusterd_utils.lua:97`) and a refused call is not answered (line 329), so a
  caller whose call or answer was lost waits for ever. All others get an answer or
  an error, also when connections break and answers are tried again.
* `CallbackSaves` (not `.child_marry`): see `ServerLife` above and the findings.
* `EarlierChangesSaved` (`Leaving`): nobody waits for a logout that the kick loop
  did not start.
* `AnswersMatch` (caller not restarted): sessions are numbered from the beginning
  in every process (`clusterd_utils.lua:81`), and an answer to the old process
  can end a call of the new one (line 203).
* `BooksConverge`, `DeadForgotten`, `DownMeansSilent` (`Prompt`): a node that was
  too slow once is announced again but is not sent what it missed
  (`addr_mgr.lua:26`); a node that has said it leaves goes on beating.
* `OnePerBatch` (no reconnect): the used keys of a role are read before the call
  of the world and written after it (`gift_key_utils.lua:26`); a player on a new
  connection can use a second key of the batch in between. The 10 s timeout of the
  connection's lock (`sock.lua:19`), which is not modelled, would let a second
  request in likewise while the world takes longer to answer.
* `CountsKept` (no deletion): a deleted key whose count is cached goes on working,
  and the next write of several keys inserts its row again
  (`world/gift_key.lua:136`).

## 3. Runs

Every run is exhaustive for its constants. `TypeOK` is checked where it says more
than types or is the base of a proof (locks, binding, cache, sessions, gift keys);
in the other modules it documents the state. Several properties share a run where
one instance is enough for all of them.

| run | instance | question | result |
|---|---|---|---|
| `colock` | 3 coroutines, a permanent and a managed lock, 2 lock objects, no nesting | type, exclusion, the `_wait` assertion, owner present, no forgotten waiter; every waiter runs | holds |
| `gate_binding` | 3 connections, 2 roles, 7 commands under way | both tables, the counter, the broadcast index, agreement | holds |
| `offline_db` | 2 objects, 2 callers, 2 savers, cache size 1, values up to 3 | cache current, nothing forgotten, writes take effect, refinement; what is set becomes durable | holds |
| `role_session` | 2 roles, 2 connections, 3 coroutines, 2 role objects | entry follows role, no role replaced, owners of role locks do not wait for locks | holds |
| `role_session_timer` | 1 role, 1 connection, 2 coroutines | a role without a connection is logged out | **violated** |
| `role_session_displace` | 1 role, 3 connections, 2 coroutines | a login displaces the other connection | **violated** |
| `server_life` | 1 operator who may interrupt, 2 overlapping shutdowns, the game may crash | what the callback finds unsaved in `.agent` and `.dynasty` is saved before an abort; nothing left behind, scripts end | holds |
| `server_life_data` | the same | all data of the server is saved before an abort | **violated** |
| `agent_shutdown` | 4 roles, any of them logging out already, 1 late login, batches of 3, 2 kicks at once | earlier changes written or in a logout's write, few roles passed over; the shutdown ends | holds |
| `cluster_rpc` | 3 calls from one node to another, ids 1 and 2, 2 faults, 5 connections, both nodes may restart | answers match, executed once, one connection; calls that are not lost end | holds |
| `cluster_addr` | 2 nodes, 2 addresses, one leaves in order, 3 starts, 1 late heartbeat, 2 asking heartbeats | nobody who beats is declared down; books and router converge | holds |
| `gift_key` | 2 keys of a batch, 3 roles, 4 uses, 2 allowed per key, 1 reconnect, 1 deletion | no use too many, none forgotten, one per batch; keys unlocked | holds |

Why the bounds are enough to be interesting. A lock needs three coroutines for an
owner, a first waiter and one that barges in, and two objects per key for one to
be dropped while another is made. The lock run has no nested runs, because two
coroutines that take two locks in opposite order wait for each other until a
timeout, and `WaiterRuns` is claimed without one; what nesting and re-entrance do
to exclusion, the assertion, the owner and the waiters is proved instead, for
every depth. Moving a role from one connection to another
while a third is opened needs three connections and a second role; one `bind_role`
sends up to three commands, so seven let two of them overlap with a close. A cache
of size 1 with two objects evicts all the time; three values leave room for a set
while the save of an earlier one and the reload of the object are under way. Three
coroutines and two connections make two logins of one role overlap with a logout;
two objects let a removed one linger beside the loaded one; the second role is
needed for a connection that changes roles, for a chain of locks, and for two
logins that cross on two connections. Two overlapping
shutdowns are the case a second request makes, and a crash of the game with the
others alive is the partial failure of a boot. Four roles in batches of three let
the loop sleep in the middle of the list with kicks behind it. Two session ids for
three calls make an id come round while its first use may be outstanding; two
faults can break each direction once. Two nodes suffice for the books, whose
entries do not interact; three starts give a restart at another address beside a
first start. Three roles exhaust a key of two uses while the fourth request tries
the batch's other key.

`CHECK_DEADLOCK FALSE` is set where the instance may really stop: `offline_db`
when all ids are deleted or all values used up, `role_session` when no role
object is left, `cluster_rpc` when every call has been made, `gift_key` when every
request is answered. Processes of `ServerLife` and `ClusterAddr` and the bounded
runs of the others never stop, or stutter when they are over (`Done` of
`AgentShutdown`).

### Findings

* `role_session_timer`: a connection closes while its `c_login` waits for the
  database. `SockCls.on_close` finds no role and schedules nothing; `login` then
  binds the closed connection (`role_cls.lua:521`). The role stays loaded with
  the id of a dead connection and without the logout timer of
  `role_cls.lua:461`, until somebody logs in again or the server stops.
* `role_session_displace`: a login on a second connection waits in
  `logout(true)`, which has set `self.sock_id` to nil; the client of the role
  reconnects on a third connection, finds no old connection to close, and is
  bound. The login goes on to bind the second one: two open connections act for
  the role and the gate is told to close neither (`role_cls.lua:503-522`).
* `server_life_data`: the game node runs `.child_marry`, which has an
  `OfflineObjMgr` and a `lc_x_shutdown` that saves it (`child_marry/main.lua:20`).
  The callback that the launcher registers only calls `agent_utils.shutdown`
  (`game_launcher.lua:20-25`; `cross_launcher.lua:28` does call the one of
  `child_marry`), so an orderly shutdown aborts the node with that database
  unsaved, while `agent_utils.lua:60` announces the saving of the server's data.

## 4. Fairness

* `CoLock`: skynet runs woken and forked coroutines (weak fairness of `Resume` and
  `WakeWaiting`). A body under a lock returns, so a coroutine cannot make nested
  runs for ever (strong fairness of the return from each depth), and it cannot
  take a lock again and again in the instant between its release and the fork
  (strong fairness of `HandOver`). No timeout is assumed to fire.
* `OfflineDb`: the database executes what it has (weak). `Flush` of a key is
  strongly fair: `save_once` runs every 10 s, takes the marks in the order they
  were made (`LRU.peek`), and a later `set` leaves the mark in its place, so other
  keys cannot overtake for ever. The order of the marks is thus assumed here, not
  checked. Callers need not do anything and crashes may
  happen; `EventuallyDurable` says "or a crash came first".
* `RoleSession`: none; its properties are safety properties.
* `ServerLife`: the operating system runs every process and script (weak fairness
  of the steps of each); operators, interrupts and crashes need not happen.
* `AgentShutdown`: the loop is resumed, and every kick begins and ends: it runs
  under `xpcall` and waits for the database, or for the role lock of a logout that
  waits for the database, and such a logout ends (weak, `KickStep`). Logouts and late
  logins need not begin.
* `ClusterRpc`: waiting coroutines are resumed, the network delivers or reports a
  break, the called services return (weak). Nothing is assumed about restarts.
* `ClusterAddr`: timers fire, messages arrive, broken connections are noticed, a
  process told to exit exits (weak).
* `GiftKey`: messages are handled and the database executes what it has (weak);
  the periodic save need not happen.

## 5. Proofs

Every theorem is about `Spec` (initial states and steps, no fairness) and holds
for every value of the constants that satisfies the assumption its module names
(`ConstantsAssumption`, `GateAssumption`, `OfflineDbAssumption` and so on: "no"
values outside the sets, sets that are counted are finite, bounds are numbers).
The runs check `FairSpec`, which implies `Spec`. `PROJECT.json` lists the theorems;
each proof module has one invariant `IInv`, its lemmas, one lemma per action or
per call the actions share, and the theorems at the end. Each invariant was first
checked by TLC on the instance of the run.

**CoLockProofs**: `TypeCorrect`, `Exclusion`, `AssertionHolds`, `WaitersKept`,
`OwnersPresent`. Exclusion is not inductive: that no second object of a key is in
use follows from `DictInv` and `LiveInv` (a frame that has not lost its lock is of
an object in `lock_dict`, and its owner is the frame's coroutine). That `ref`
never becomes negative, nor the assertion of `_wait` false, needs that an owner
has one live frame for every value `ref` went through (`OwnerInv`) and that frames
lose the lock from some depth on upwards, not with holes (`NestInv`). `QueueInv`
and `WaitInv` tie the queues to the parked coroutines. The proof has one lemma per
action.

**GateBindingProofs**: `TypeCorrect`, `LuaTablesInverse`, `CountExact`,
`BroadcastIndexExact`, `TablesSettle`. The two Lua facts follow from the steps of
one record. The index of the C side is exact only because of what is under way:
`FlightSettles` says that the last command about a connection, or its state in C
when there is none, is what Lua has; `FlightExclusive` that before a command binds
a user, every other connection which has the user, or gets it from an earlier
command, is unbound by a command in between. A close in C at any moment keeps
both. The invariant is the conjunction `IInv`; `Sent` is the one lemma about
appending a command, used by every Lua operation, and `CtrlStep` carries one out.

**OfflineDbProofs**: `TypeCorrect`, `CacheIsCurrent`, `NothingIsForgotten`,
`EveryWriteTakesEffect`, `IsObjectStore`. The invariant describes, per object, the
requests under way: executed one after the other, each finds the row as it expects
it (`Chained`), and the mark in `_save_lru` says what is missing behind the last of
them (`MarkInv`). That is what makes `CacheCurrent` hold after an eviction: the
load that fetches the object again is behind every write of it. `OneLoader` and
`LoadInv` say that nobody writes what somebody loads. `IsObjectStore` proves the
refinement: a `set` is `Write` of the abstract store and a `delete` its `Delete`, a
request that the database executes is `Persist`, a crash is `Crash`, and all else
stutters.

**RoleSessionProofs**: `TypeCorrect`, `EntryIsRole`, `RolesNeverReplaced`,
`OwnersOnlyWork`. The
functions of `role_cls` call each other within one step, so the invariant `SInv` is
stated for a record in the middle of a step of one coroutine, whose own job it
leaves out; each function is shown to keep it, and each action is the function its
handler begins with. Its core: a coroutine that loads or saves owns the lock
(`OwnerInv`), and while nobody owns the lock of an account, its entry is that of
its role (`EntryInv`). `NeverReplaced` needs that a load found neither entry nor
role, and that nobody else could put one there meanwhile. `OwnersOnlyWork` is
`OwnerInv` at the end of a step.

**ClusterRpcProofs**: `TypeCorrect`, `ExecutedAtMostOnce`, `ConnectionUnique`,
`AnswersMatched`. A call is in one place at a time (`Single`: one message, or one
coroutine at the callee), which carries executed-once; and as long as its caller
has not crashed, the session its message names is still its own (`Asked`), which
carries `AnswersMatch`. That an id which comes round is not one that is still
outstanding (`NewIdIsFree`) is proved for every limit, from the least free id of
the search; the code's search would not end if all were taken, which the action's
guard excludes. A refused call (`CallsRefused`) is like a lost message to all of
this.

**GiftKeyProofs**: `TypeCorrect`, `KeysNeverOverused`, `CountsAreKept`,
`OneKeyPerBatch`. The cache, or the last save of a key under way, or the row has
the number of uses allowed (`KeyInv`, by the greatest position of a save in
`queries`); a load is behind all saves of its key (`LoadInv`), so what it brings
back is that number too (`LoadedInv`). `RoleInv` follows one request at a time
through the lock of the connection, as long as the player does not reconnect.

**ServerLifeProofs**: `TypeCorrect`, `CallbackHasSaved`, `NoNodeLeftBehind`. The
roles are due only while the game node is up and no shutdown is beyond their
saving, the dynasties only while their node is up (`DueInv`): that is enough for
any number of operators and overlapping shutdowns. About `.child_marry` there is
nothing to prove: it is not saved.
`NoNodeLeftBehind` assumes one operator (`OneOperator`, an explicit
hypothesis of the theorem, as in the run): as long as `calm` holds, the server is
in one of six situations that belong to what the script is doing (`CalmInv`), and
each action leads from a situation to itself or to the next.

**AgentShutdownProofs**: `TypeCorrect`, `ChangesAreSaved`, `LoopPassesOverFew`.
`SavedInv`: an unsaved role has its entry, or is being written by a logout
(`Leaving`) or by `save_all` (`Written`); from `save_all` on, those that have their
entry are among the ones it has still to write, and in the end there are none.
`ListInv` ties entries and logouts to the list: a role is in it as long as it has
either, and one that left does not come back.
`PassedInv` counts the online roles that
are neither kicked, nor being kicked, nor ahead of the loop (`ToTake`): a role that
leaves while the loop sleeps moves at most one other from ahead to behind
(`BehindLess`), and a role leaves once (`ListInv`). The model begins with at least
one online role; the list lemmas (`RemoveAtEntries`, `DeleteList`) are about
`table.delete` for any list without repetitions.

**Only model-checked**: `DownMeansSilent` of `ClusterAddr` (an action property; its
invariant, about who has beaten since the last check, is not written yet), and all
liveness: `WaiterRuns`, `EventuallyDurable`, `ScriptsEnd`,
`ShutdownEnds`, `CallsEnd`, `KeysUnlocked`, `BooksConverge`, `DeadForgotten`,
`RouterConverges`. A proof of these needs ENABLED and fairness, which the provers at
hand do not support. The properties of the three runs with a finding are refuted, not
proved.

## 6. Not modelled

* `timer`: the models take a timer as an action that may fire at any time. The
  wheel itself (a callback that yields longer than its period loses its slot) is
  listed as a hazard without a property.
* `mysql_db`: every query is a step of its own; transactions are left out, and
  with them a query that slips into another coroutine's transaction.
* Offline commands, pay orders and `CoQueue`, parties, salons, traitor bosses,
  `child_marry`, chat channels: each is a protocol over `offline_db` or `clusterd`
  with rules of its own. They are within TLC's reach and not written.
* `auto_reload` of `reload_watcher`: code replaced while it runs changes the
  program, which a fixed specification cannot express.
* The IP filter, payload forwarding and heartbeat kick of the gate; `c_new_role`,
  banned accounts and the timeouts of the role and connection locks; batches of
  gift keys and the closing of channels; messages above 7 MB; the list of login
  servers and a restart of the router.
* Failing writes to the database in `OfflineDb`, a crash or stop of the world in
  `GiftKey`, auto saves and the timeout of the role lock during the kick loop of
  `AgentShutdown`.
* Data that changes in the game node before its shutdown callback is registered, or
  after `save_all`: it is lost when the node aborts, which the modules show in
  their steps (`Callback`, `QuitsLate`) and no property denies.
* Rank lists, LRU and Deque are pure data structures; the game rules of a role are
  sequential arithmetic on one object, driven by generated tables.
* HTTP services, operator tools, gamelog, skynet itself: input and output, or
  third-party code. Most of the Python files of the repository are vendored
  libraries and export tools.

## 7. Plan

Written: all modules of section 2. Of the safety properties the runs check, those
of every module but `ClusterAddr` are proved.

Left: an inductive invariant for `DownMeansSilent` of `ClusterAddr`; a composition
of `RoleSession` with the gate that replaces the "any agent" of `GateBinding`.
