------------------------------- MODULE GiftKey ------------------------------
(***************************************************************************)
(* Gift keys.  Roles use keys through the agent; the world counts the uses *)
(* of a key in a cache, loads the row of a key that is not in it, and      *)
(* every ten seconds writes the cache out and forgets it.  The world has   *)
(* one connection to the database (MAX_DB_CONN_COUNT in game_database), so *)
(* what it asks is executed in the order in which it was asked.            *)
(***************************************************************************)
EXTENDS Naturals, Sequences, FiniteSets

CONSTANTS
  Keys, Roles, Requests,
  RoleOf, KeyOf,   (* who uses which key                                   *)
  BatchOf,         (* the first three characters of a key                  *)
  Total,           (* total_use_count of a key                             *)
  MaxReconnects,   (* bound: times a role gets a new socket                *)
  MaxDeletes,      (* bound: keys an operator deletes                      *)
  None,
  NoRow            (* a key without a row                                  *)

ASSUME GiftKeyAssumption ==
  /\ RoleOf \in [Requests -> Roles] /\ KeyOf \in [Requests -> Keys]
  /\ Total \in Nat \ {0} /\ MaxReconnects \in Nat /\ MaxDeletes \in Nat
  /\ None \notin Nat \cup Requests \cup {NoRow} /\ NoRow \notin Nat
  /\ IsFiniteSet(Keys) /\ IsFiniteSet(Requests)

Count == 0..Cardinality(Requests)

VARIABLES
  state,      (* how far a request is                                      *)
  current,    (* the request the socket of a role works on: it holds its   *)
              (* lock                                                      *)
  used,       (* yw_gift_key: the keys a role has used                     *)
  granted,    (* requests the world has said yes to                        *)
  lock,       (* lock_dict: the request that has the key, or None          *)
  cache,      (* use counts in the cache, None for a key that is not in it *)
  queries,    (* what the database connection has still to execute         *)
  db,         (* use_count of the rows                                     *)
  loaded,     (* what a request was given by the database                  *)
  reconnects, deletes

agent == <<current, used, reconnects>>
vars == <<state, agent, granted, lock, cache, queries, db, loaded, deletes>>

Query ==
  [op : {"load"}, req : Requests] \cup [op : {"delete"}, key : Keys]
    \cup [op : {"save"}, values : [Keys -> Count \cup {None}]]

TypeOK ==
  /\ state \in [Requests -> {"new", "called", "loading", "answered", "over"}]
  /\ current \in [Roles -> Requests \cup {None}]
  /\ used \in [Roles -> SUBSET Keys]
  /\ granted \subseteq Requests
  /\ lock \in [Keys -> Requests \cup {None}]
  /\ cache \in [Keys -> Count \cup {None}] /\ db \in [Keys -> Count \cup {NoRow}]
  /\ queries \in Seq(Query)
  /\ loaded \in [Requests -> Count \cup {None, NoRow}]
  /\ \A q \in Requests : state[q] = "loading" => lock[KeyOf[q]] = q /\ cache[KeyOf[q]] = None
  /\ reconnects \in 0..MaxReconnects /\ deletes \in 0..MaxDeletes

Init ==
  /\ state = [q \in Requests |-> "new"]
  /\ current = [r \in Roles |-> None] /\ used = [r \in Roles |-> {}]
  /\ granted = {} /\ lock = [k \in Keys |-> None]
  /\ cache = lock /\ queries = <<>> /\ db = [k \in Keys |-> 0]
  /\ loaded = [q \in Requests |-> None]
  /\ reconnects = 0 /\ deletes = 0

-----------------------------------------------------------------------------
(* Mutant: requests of one socket are not kept apart.                      *)
MutSockFree(r) == TRUE

(* The lock of the role's socket is free.                                  *)
SockFree(r) == current[r] = None

(* gift_key_utils.use_gift_key in the agent, under the lock of the socket: *)
(* a role uses one key of a batch.                                         *)
Use(q) ==
  LET r == RoleOf[q]
      same == \E k \in used[r] : BatchOf[k] = BatchOf[KeyOf[q]]
  IN /\ state[q] = "new" /\ SockFree(r)
     /\ state' = [state EXCEPT ![q] = IF same THEN "over" ELSE "called"]
     /\ current' = IF same THEN current ELSE [current EXCEPT ![r] = q]
     /\ UNCHANGED <<used, granted, lock, cache, queries, db, loaded, reconnects, deletes>>

(* The socket closes with its lock, the role comes back on a new one; the  *)
(* request goes on.                                                        *)
Reconnect(r) ==
  /\ current[r] # None /\ reconnects < MaxReconnects
  /\ reconnects' = reconnects + 1
  /\ current' = [current EXCEPT ![r] = None]
  /\ UNCHANGED <<state, used, granted, lock, cache, queries, db, loaded, deletes>>

(* The world's answer: the key is noted and the items are added.           *)
Answered(q) ==
  LET r == RoleOf[q] IN
  /\ state[q] = "answered"
  /\ state' = [state EXCEPT ![q] = "over"]
  /\ current' = [current EXCEPT ![r] = IF @ = q THEN None ELSE @]
  /\ used' = [used EXCEPT ![r] = IF q \in granted THEN @ \cup {KeyOf[q]} ELSE @]
  /\ UNCHANGED <<granted, lock, cache, queries, db, loaded, reconnects, deletes>>

-----------------------------------------------------------------------------
(* Mutant: nobody looks whether the key is locked.                         *)
MutFree(k) == TRUE

Free(k) == lock[k] = None

(* Mutant: a refused use leaves the key locked.                            *)
MutUnlock(k, ok) == IF ok THEN None ELSE lock[k]

Unlock(k, ok) == None

(* The use count is checked and increased, and the key unlocked.           *)
Decide(q, count) ==
  LET k == KeyOf[q]
      ok == count # NoRow /\ ~(count >= Total)
  IN /\ cache' = IF ok THEN [cache EXCEPT ![k] = count + 1] ELSE cache
     /\ granted' = IF ok THEN granted \cup {q} ELSE granted
     /\ lock' = [lock EXCEPT ![k] = Unlock(k, ok)]
     /\ state' = [state EXCEPT ![q] = "answered"]

(* world's use_gift_key of a cached key.                                   *)
UseCached(q) ==
  LET k == KeyOf[q] IN
  /\ state[q] = "called" /\ Free(k) /\ cache[k] # None
  /\ Decide(q, cache[k])
  /\ UNCHANGED <<agent, queries, db, loaded, deletes>>

(* ... of one that must be loaded.                                         *)
UseLoad(q) ==
  LET k == KeyOf[q] IN
  /\ state[q] = "called" /\ Free(k) /\ cache[k] = None
  /\ lock' = [lock EXCEPT ![k] = q]
  /\ state' = [state EXCEPT ![q] = "loading"]
  /\ queries' = Append(queries, [op |-> "load", req |-> q])
  /\ UNCHANGED <<agent, granted, cache, db, loaded, deletes>>

(* ... of a locked one: skynet.sleep(0.2) raises an error, as the command  *)
(* it gives its argument to takes integers.                                *)
UseLocked(q) ==
  /\ state[q] = "called" /\ lock[KeyOf[q]] # None
  /\ state' = [state EXCEPT ![q] = "answered"]
  /\ UNCHANGED <<agent, granted, lock, cache, queries, db, loaded, deletes>>

(* The row has arrived.                                                    *)
Loaded(q) ==
  /\ state[q] = "loading" /\ loaded[q] # None
  /\ Decide(q, loaded[q])
  /\ loaded' = [loaded EXCEPT ![q] = None]
  /\ UNCHANGED <<agent, queries, db, deletes>>

(* save: one row is updated, several are inserted or updated.              *)
Save ==
  /\ \E k \in Keys : cache[k] # None
  /\ queries' = Append(queries, [op |-> "save", values |-> cache])
  /\ cache' = [k \in Keys |-> None]
  /\ UNCHANGED <<state, agent, granted, lock, db, loaded, deletes>>

(* delete_gift_key: the row goes, the cache and the batch stay.            *)
Delete(k) ==
  /\ deletes < MaxDeletes
  /\ deletes' = deletes + 1
  /\ queries' = Append(queries, [op |-> "delete", key |-> k])
  /\ UNCHANGED <<state, agent, granted, lock, cache, db, loaded>>

-----------------------------------------------------------------------------
(* Mutant: the queries of the world go over several connections.           *)
MutExecutable == 1..Len(queries)

(* The query the one connection executes next.                             *)
Executable == {1} \cap DOMAIN queries

Inserts(values) == Cardinality({k \in Keys : values[k] # None}) > 1

Written(values) ==
  [k \in Keys |-> IF values[k] # None /\ (db[k] # NoRow \/ Inserts(values)) THEN values[k] ELSE db[k]]

Execute ==
  /\ \E i \in Executable :
       LET query == queries[i] IN
       /\ queries' = SubSeq(queries, 1, i - 1) \o SubSeq(queries, i + 1, Len(queries))
       /\ \/ /\ query.op = "load"
             /\ loaded' = [loaded EXCEPT ![query.req] = db[KeyOf[query.req]]]
             /\ UNCHANGED db
          \/ query.op = "save" /\ db' = Written(query.values) /\ UNCHANGED loaded
          \/ query.op = "delete" /\ db' = [db EXCEPT ![query.key] = NoRow] /\ UNCHANGED loaded
  /\ UNCHANGED <<state, agent, granted, lock, cache, deletes>>

WorldUse(q) == UseCached(q) \/ UseLoad(q) \/ UseLocked(q)

Next ==
  \/ \E q \in Requests : Use(q) \/ Answered(q) \/ WorldUse(q) \/ Loaded(q)
  \/ \E r \in Roles : Reconnect(r)
  \/ \E k \in Keys : Delete(k)
  \/ Save \/ Execute

Spec == Init /\ [][Next]_vars

(* Messages are handled and the database answers.                          *)
FairSpec ==
  /\ Spec /\ WF_vars(Execute)
  /\ \A q \in Requests : WF_vars(Answered(q)) /\ WF_vars(WorldUse(q)) /\ WF_vars(Loaded(q))

-----------------------------------------------------------------------------
GrantsOf(k) == Cardinality({q \in granted : KeyOf[q] = k})

(* A key is never used more often than its batch allows, although its      *)
(* count leaves the cache before it is in the database.                    *)
NeverOverused == \A k \in Keys : GrantsOf(k) <= Total

SavesOf(k) == {i \in DOMAIN queries : queries[i].op = "save" /\ queries[i].values[k] # None}
DeletesOf(k) == {i \in DOMAIN queries : queries[i].op = "delete" /\ queries[i].key = k}

(* The count a use that begins now will find: in the cache, in the last    *)
(* write that is under way, or in the row.                                 *)
FoundBy(k) ==
  IF cache[k] # None THEN cache[k]
  ELSE IF SavesOf(k) # {} THEN queries[CHOOSE i \in SavesOf(k) : \A j \in SavesOf(k) : j <= i].values[k]
  ELSE db[k]

(* No use is forgotten on the way between cache, connection and database,  *)
(* unless the key is deleted.                                              *)
CountsKept == \A k \in Keys : deletes = 0 => FoundBy(k) = GrantsOf(k)

(* A key does not stay locked, whether its use is allowed or not.          *)
KeysUnlocked == \A k \in Keys : lock[k] # None ~> lock[k] = None

(* tips.lua:17 "您已经用过此类礼包码了" (you have already used a gift code *)
(* of this kind): a role gets the items of one key per batch, as long as   *)
(* the lock of its socket keeps its requests apart.  A player who comes    *)
(* back on a new socket while a use is under way may use a second key.     *)
OnePerBatch ==
  \A p, q \in granted :
    (reconnects = 0 /\ RoleOf[p] = RoleOf[q] /\ BatchOf[KeyOf[p]] = BatchOf[KeyOf[q]]) => p = q

=============================================================================
