----------------------------- MODULE OfflineDb ------------------------------
(***************************************************************************)
(* The cache of database objects of lualib/db/offline_db.lua (dynasties,   *)
(* parties, bosses, ...).  Objects are loaded on demand, changed in        *)
(* memory, marked in _save_lru and written back later, when they are due,  *)
(* when the cache is too large, or at shutdown.  A coroutine yields only   *)
(* while it waits for the database or for the load of another coroutine;   *)
(* one action is the code between two such points.                         *)
(*                                                                         *)
(* The database executes the requests for one key in the order they were   *)
(* sent: the key chooses the connection.                                   *)
(*                                                                         *)
(* The callers' side of the contract: the coroutine that sets or deletes   *)
(* an object has just got it from the manager or keeps it from before      *)
(* (nobody else then loads it), and an id is not asked for again once it   *)
(* is deleted (dynasty_id, party_id).                                      *)
(***************************************************************************)
EXTENDS Integers, Sequences, FiniteSets

CONSTANTS
  Keys, Clients,
  Savers,        (* coroutines inside save_once or save_all                *)
  MaxSize,       (* _max_size                                              *)
  Expires,       (* _duration is given: an object may become too old       *)
  MaxVersion,    (* bound: values of one object                            *)
  NoKey

ASSUME OfflineDbAssumption ==
  /\ MaxVersion \in Nat \ {0}
  /\ MaxSize \in Nat
  /\ Expires \in BOOLEAN
  /\ NoKey \notin Keys

VARIABLES
  cache,         (* _db_lru: key -> value, Absent if it is not there       *)
  op,            (* _save_lru                                              *)
  load_lock,     (* _load_lock                                             *)
  client,        (* what the coroutines of the callers wait for            *)
  pipe,          (* key -> requests the database has not executed          *)
  row,           (* key -> the row of the database                         *)
  current,       (* history: the value of the last new_obj or set          *)
  deleted        (* history: the keys that were deleted                    *)

callVars == <<current, deleted>>
vars == <<cache, op, load_lock, client, pipe, row, callVars>>

Absent == 0
First == 1
Versions == First .. MaxVersion
Values == {Absent} \cup Versions

Idle == [at |-> "idle", key |-> NoKey, auto |-> FALSE, data |-> Absent]
ClientState == [at : {"idle", "spin", "loading", "answered"}, key : Keys \cup {NoKey},
                auto : BOOLEAN, data : Values]
Request == [kind : {"load", "insert", "save", "delete"}, value : Values, by : Clients \cup Savers]

(* The DB request m about k; the coroutine m.by waits for it.              *)
Send(k, m) == pipe' = [pipe EXCEPT ![k] = Append(@, m)]

-----------------------------------------------------------------------------
(***************************************************************************)
(* get, find_one and _load.  A hit in the cache changes nothing.           *)
(***************************************************************************)

StartLoad(c, k, auto) ==
  /\ load_lock' = [load_lock EXCEPT ![k] = TRUE]
  /\ client' = [client EXCEPT ![c] = [at |-> "loading", key |-> k, auto |-> auto, data |-> Absent]]
  /\ Send(k, [kind |-> "load", value |-> Absent, by |-> c])

(* Mutant: a key that is being loaded is loaded again.                     *)
MutLocked(k) == FALSE

Locked(k) == load_lock[k]

(* A miss: get (auto) or find_one calls _load.                             *)
Ask(c, k, auto) ==
  /\ client[c].at = "idle"
  /\ cache[k] = Absent
  /\ k \notin deleted
  /\ IF Locked(k)
     THEN /\ client' = [client EXCEPT ![c] =
                          [at |-> "spin", key |-> k, auto |-> auto, data |-> Absent]]
          /\ UNCHANGED <<load_lock, pipe>>
     ELSE StartLoad(c, k, auto)
  /\ UNCHANGED <<cache, op, row, callVars>>

(* After a sleep the load of the other coroutine is over.                  *)
Again(c) ==
  LET k == client[c].key IN
  /\ client[c].at = "spin"
  /\ ~Locked(k)
  /\ IF cache[k] # Absent
     THEN client' = [client EXCEPT ![c] = Idle] /\ UNCHANGED <<load_lock, pipe>>
     ELSE StartLoad(c, k, client[c].auto)
  /\ UNCHANGED <<cache, op, row, callVars>>

(* _load goes on with the answer.                                          *)
LoadDone(c) ==
  LET k == client[c].key IN
  /\ client[c].at = "answered"
  /\ IF client[c].data # Absent
     THEN cache' = [cache EXCEPT ![k] = client[c].data] /\ UNCHANGED <<op, current>>
     ELSE IF client[c].auto
     THEN /\ op' = [op EXCEPT ![k] = "insert"]
          /\ cache' = [cache EXCEPT ![k] = First]
          /\ current' = [current EXCEPT ![k] = First]
     ELSE UNCHANGED <<cache, op, current>>
  /\ load_lock' = [load_lock EXCEPT ![k] = FALSE]
  /\ client' = [client EXCEPT ![c] = Idle]
  /\ UNCHANGED <<pipe, row, deleted>>

(* The query raises an error; _load catches it.                            *)
LoadFail(c) ==
  /\ client[c].at = "answered"
  /\ load_lock' = [load_lock EXCEPT ![client[c].key] = FALSE]
  /\ client' = [client EXCEPT ![c] = Idle]
  /\ UNCHANGED <<cache, op, pipe, row, callVars>>

-----------------------------------------------------------------------------
(* The caller has the object: from the cache, or kept since it was there.  *)
Has(k) ==
  /\ k \notin deleted
  /\ current[k] # Absent
  /\ ~load_lock[k]

(* Mutant: only an object that is in the cache is marked.                  *)
MutMark(k) == IF op[k] = "none" /\ cache[k] # Absent THEN "save" ELSE op[k]

Mark(k) == IF op[k] = "none" THEN "save" ELSE op[k]

Set(k) ==
  /\ Has(k)
  /\ current[k] + 1 \in Versions
  /\ cache' = [cache EXCEPT ![k] = current[k] + 1]
  /\ op' = [op EXCEPT ![k] = Mark(k)]
  /\ current' = [current EXCEPT ![k] = current[k] + 1]
  /\ UNCHANGED <<load_lock, client, pipe, row, deleted>>

(* Mutant: the database is told in any case.                               *)
MutUnmark(k) == "delete"

(* An object that is not in the database yet need not be deleted there.    *)
Unmark(k) == IF op[k] = "insert" THEN "none" ELSE "delete"

Delete(k) ==
  /\ Has(k)
  /\ \A c \in Clients : client[c].key # k
  /\ cache' = [cache EXCEPT ![k] = Absent]
  /\ op' = [op EXCEPT ![k] = Unmark(k)]
  /\ deleted' = deleted \cup {k}
  /\ UNCHANGED <<load_lock, client, pipe, row, current>>

-----------------------------------------------------------------------------
(* A saver waits for the answer to its last request.                       *)
Saving(s) == \E k \in Keys : \E i \in DOMAIN pipe[k] : pipe[k][i].by = s

(* Mutant: an object without a mark is written too.                        *)
MutCheckSave(s, k, value) ==
  /\ op' = [op EXCEPT ![k] = "none"]
  /\ Send(k, [kind |-> op[k], value |-> IF op[k] = "delete" THEN Absent ELSE value, by |-> s])

(* __check_save: the mark is taken away and the request sent before the    *)
(* coroutine yields.                                                       *)
CheckSave(s, k, value) ==
  /\ op' = [op EXCEPT ![k] = "none"]
  /\ IF op[k] = "delete" \/ (op[k] # "none" /\ value # Absent)
     THEN Send(k, [kind |-> op[k], value |-> IF op[k] = "delete" THEN Absent ELSE value, by |-> s])
     ELSE UNCHANGED pipe

(* Mutant: the value is read from the cache it was just taken out of.      *)
MutEvicted(k) == Absent

Evicted(k) == cache[k]

(* save_once, more than _max_size objects or an object unused for          *)
(* _duration.  LRU.pop takes the oldest one: any one here.                 *)
Evict(s, k) ==
  /\ ~Saving(s)
  /\ Expires \/ Cardinality({j \in Keys : cache[j] # Absent}) > MaxSize
  /\ cache[k] # Absent
  /\ cache' = [cache EXCEPT ![k] = Absent]
  /\ CheckSave(s, k, Evicted(k))
  /\ UNCHANGED <<load_lock, client, row, callVars>>

(* save_once and save_all, a marked object that is due.                    *)
Flush(s, k) ==
  /\ ~Saving(s)
  /\ op[k] # "none"
  /\ CheckSave(s, k, cache[k])
  /\ UNCHANGED <<cache, load_lock, client, row, callVars>>

-----------------------------------------------------------------------------
(* The database executes the first request of k and answers it.  An update *)
(* or a delete of a row that is not there has no effect.                   *)
DbApply(k) ==
  LET m == Head(pipe[k]) IN
  /\ pipe[k] # <<>>
  /\ pipe' = [pipe EXCEPT ![k] = Tail(@)]
  /\ row' = [row EXCEPT ![k] =
       CASE m.kind = "load"   -> @
         [] m.kind = "insert" -> IF @ = Absent THEN m.value ELSE @
         [] m.kind = "save"   -> IF @ = Absent THEN @ ELSE m.value
         [] m.kind = "delete" -> Absent]
  /\ client' = IF m.kind = "load"
               THEN [client EXCEPT ![m.by].at = "answered", ![m.by].data = row[k]]
               ELSE client
  /\ UNCHANGED <<cache, op, load_lock, callVars>>

(* No row is left of a deleted object, and none will appear.               *)
DurablyGone(k) ==
  /\ k \in deleted
  /\ row[k] = Absent
  /\ \A i \in DOMAIN pipe[k] : pipe[k][i].kind # "insert"

(* The process dies with its memory and its requests.  At the next start   *)
(* load_all may read the rows.                                             *)
Crash ==
  /\ \E S \in SUBSET Keys : cache' = [k \in Keys |-> IF k \in S THEN row[k] ELSE Absent]
  /\ op' = [k \in Keys |-> "none"]
  /\ load_lock' = [k \in Keys |-> FALSE]
  /\ client' = [c \in Clients |-> Idle]
  /\ pipe' = [k \in Keys |-> <<>>]
  /\ current' = row
  /\ deleted' = {k \in deleted : DurablyGone(k)}
  /\ UNCHANGED row

-----------------------------------------------------------------------------
Init ==
  /\ cache = [k \in Keys |-> Absent]
  /\ op = [k \in Keys |-> "none"]
  /\ load_lock = [k \in Keys |-> FALSE]
  /\ client = [c \in Clients |-> Idle]
  /\ pipe = [k \in Keys |-> <<>>]
  /\ row \in [Keys -> {Absent, 1}]
  /\ current = row
  /\ deleted = {}

ClientStep(c) ==
  \/ \E k \in Keys, auto \in BOOLEAN : Ask(c, k, auto)
  \/ Again(c) \/ LoadDone(c) \/ LoadFail(c)

Next ==
  \/ \E c \in Clients : ClientStep(c)
  \/ \E k \in Keys : Set(k) \/ Delete(k) \/ DbApply(k)
  \/ \E s \in Savers, k \in Keys : Evict(s, k) \/ Flush(s, k)
  \/ Crash

Spec == Init /\ [][Next]_vars

-----------------------------------------------------------------------------
TypeOK ==
  /\ cache \in [Keys -> Values]
  /\ op \in [Keys -> {"none", "insert", "save", "delete"}]
  /\ load_lock \in [Keys -> BOOLEAN]
  /\ client \in [Clients -> ClientState]
  /\ pipe \in [Keys -> Seq(Request)]
  /\ row \in [Keys -> Values]
  /\ current \in [Keys -> Values]
  /\ deleted \subseteq Keys

(* Nobody ever gets an outdated object: what the cache has is what the     *)
(* last set left, across evictions, reloads and overlapping loads          *)
(* (offline_db.lua, _load and save_once).                                  *)
CacheCurrent ==
  \A k \in Keys : cache[k] # Absent => cache[k] = current[k] /\ k \notin deleted

(* When the requests under way are executed, the row of k has value v.     *)
Reaches(k, v) ==
  \/ /\ row[k] = v
     /\ \A i \in DOMAIN pipe[k] : pipe[k][i].kind = "load"
  \/ \E i \in DOMAIN pipe[k] :
       /\ pipe[k][i].kind # "load"
       /\ pipe[k][i].value = v
       /\ \A j \in DOMAIN pipe[k] : i < j => pipe[k][j].kind = "load"

(* A change without a mark in _save_lru is already on its way: no set or   *)
(* delete between two yields of a saver is forgotten (__check_save).       *)
NothingForgotten ==
  \A k \in Keys : op[k] = "none" => Reaches(k, IF k \in deleted THEN Absent ELSE current[k])

(* Every write finds the database as it expects: an insert no row, a save  *)
(* or delete its row, although the marks change while earlier requests     *)
(* are on their way (set and delete).                                      *)
WritesTakeEffect ==
  \A k \in Keys : pipe[k] # <<>> =>
    CASE Head(pipe[k]).kind = "load"   -> TRUE
      [] Head(pipe[k]).kind = "insert" -> row[k] = Absent
      [] OTHER -> row[k] # Absent

(* The manager behaves as an object store whose durable values follow the  *)
(* current ones and never go back, and a crash returns to the durable ones *)
(* (offline_db.lua).                                                       *)
Store == INSTANCE ObjectStore WITH
  Gone    <- MaxVersion + 1,
  current <- [k \in Keys |-> IF k \in deleted THEN MaxVersion + 1 ELSE current[k]],
  durable <- [k \in Keys |-> IF DurablyGone(k) THEN MaxVersion + 1 ELSE row[k]]

ImplementsStore == Store!Spec

(* Due objects are flushed in the order of their marks, and a later set    *)
(* leaves the mark in its place: every marked key gets its turn.           *)
Fairness ==
  /\ \A k \in Keys : /\ WF_vars(DbApply(k))
                     /\ SF_vars(\E s \in Savers : Flush(s, k))

LiveSpec == Spec /\ Fairness

(* What was set becomes durable, unless a crash comes first (save_once).   *)
EventuallyDurable ==
  \A k \in Keys : \A v \in Versions :
    (current[k] = v /\ k \notin deleted)
      ~> (row[k] >= v \/ current[k] < v \/ k \in deleted)
=============================================================================
