------------------------------- MODULE CoLock -------------------------------
(***************************************************************************)
(* The reentrant coroutine lock of lualib/srv_utils/co_lock.lua: LockCls   *)
(* objects and the lock managers that create them on demand and drop them  *)
(* again.  A skynet service runs one coroutine at a time; a coroutine       *)
(* gives up control only where it waits, so one action is the code between *)
(* two such points.                                                        *)
(*                                                                         *)
(* A lock of co_lock.new_lock_mgr exists only while somebody uses it:      *)
(* cb_free removes it from lock_dict.  A lock of co_lock.new is permanent. *)
(* Object identities are therefore modelled (Locks), apart from the names  *)
(* by which callers reach them (LockIds).                                  *)
(***************************************************************************)
EXTENDS Integers, Sequences, FiniteSets

CONSTANTS
  Threads,     (* coroutines                                               *)
  Locks,       (* LockCls objects (reused once garbage)                    *)
  LockIds,     (* what callers lock: a lock_mgr key, or a permanent lock   *)
  Managed,     (* the LockIds that belong to a lock_mgr (cb_free is set)   *)
  Timed,       (* the LockIds whose locks were created with a timeout      *)
  MaxDepth,    (* bound: nested runs of one coroutine                      *)
  NoThread, NoLock, NoId

ASSUME ConstantsAssumption ==
  /\ Managed \subseteq LockIds
  /\ Timed \subseteq LockIds
  /\ NoThread \notin Threads
  /\ NoLock \notin Locks
  /\ NoId \notin LockIds
  /\ MaxDepth \in Nat

VARIABLES
  lock_dict,          (* id -> the lock object it reaches now              *)
  lock_id,            (* lock -> the id captured by its cb_free            *)
  current_thread, ref, thread_queue, destroyed,     (* fields of LockCls   *)
  timeout_ts,         (* "nil"; "armed": also in _timeout_lock_dict;       *)
                      (* "fired": set, but no longer in that table         *)
  waiting_wake_list,  (* co_lock._waiting_wake_list; a fork of             *)
                      (* _wake_waiting is pending iff it is not empty      *)
  stack,              (* thread -> the runs it is inside of, innermost last*)
  waiting,            (* thread -> the lock in whose _wait it is parked    *)
  woken               (* parked threads that skynet.wakeup made runnable   *)

lockVars == <<current_thread, ref, thread_queue, destroyed, timeout_ts>>
vars == <<lock_dict, lock_id, lockVars, waiting_wake_list, stack, waiting, woken>>

-----------------------------------------------------------------------------
(***************************************************************************)
(* A frame stands for one call of f inside LockCls:run.  lock is what the  *)
(* code remembers; kind and n are history: a frame is "live" until a       *)
(* timeout or destroy takes the lock away ("stale"), "free" if f ran       *)
(* without the lock because it was destroyed; n is the value ref got when  *)
(* the frame was entered.                                                  *)
(***************************************************************************)
Frame == [lock : Locks, kind : {"live", "stale", "free"}, n : Nat]

Top(t) == stack[t][Len(stack[t])]

Pop(s) == SubSeq(s, 1, Len(s) - 1)

Running(t) == waiting[t] = NoLock

Expropriate(l) ==
  stack' = [t \in Threads |-> [i \in DOMAIN stack[t] |->
              IF stack[t][i].lock = l /\ stack[t][i].kind = "live"
              THEN [stack[t][i] EXCEPT !.kind = "stale"]
              ELSE stack[t][i]]]

(* A lock object nobody can reach any more: what Lua may collect.          *)
Garbage(l) ==
  /\ \A id \in LockIds : lock_dict[id] # l
  /\ l \notin waiting_wake_list
  /\ \A t \in Threads : /\ waiting[t] # l
                        /\ \A i \in DOMAIN stack[t] : stack[t][i].lock # l

-----------------------------------------------------------------------------
Init ==
  /\ lock_dict = [id \in LockIds |-> NoLock]
  /\ lock_id = [l \in Locks |-> NoId]
  /\ current_thread = [l \in Locks |-> NoThread]
  /\ ref = [l \in Locks |-> 0]
  /\ thread_queue = [l \in Locks |-> <<>>]
  /\ destroyed = [l \in Locks |-> FALSE]
  /\ timeout_ts = [l \in Locks |-> "nil"]
  /\ waiting_wake_list = {}
  /\ stack = [t \in Threads |-> <<>>]
  /\ waiting = [t \in Threads |-> NoLock]
  /\ woken = {}

(* co_lock.new: a permanent lock (of a sock, of a cluster node, ...).      *)
New(id, l) ==
  /\ id \notin Managed
  /\ lock_dict[id] = NoLock
  /\ Garbage(l)
  /\ lock_dict' = [lock_dict EXCEPT ![id] = l]
  /\ lock_id' = [lock_id EXCEPT ![l] = id]
  /\ current_thread' = [current_thread EXCEPT ![l] = NoThread]
  /\ ref' = [ref EXCEPT ![l] = 0]
  /\ thread_queue' = [thread_queue EXCEPT ![l] = <<>>]
  /\ destroyed' = [destroyed EXCEPT ![l] = FALSE]
  /\ timeout_ts' = [timeout_ts EXCEPT ![l] = "nil"]
  /\ UNCHANGED <<waiting_wake_list, stack, waiting, woken>>

(* lock_mgr.run on a key that has no lock: create it and enter it.         *)
RunFresh(t, id, l) ==
  /\ Running(t)
  /\ Len(stack[t]) < MaxDepth
  /\ id \in Managed
  /\ lock_dict[id] = NoLock
  /\ Garbage(l)
  /\ lock_dict' = [lock_dict EXCEPT ![id] = l]
  /\ lock_id' = [lock_id EXCEPT ![l] = id]
  /\ current_thread' = [current_thread EXCEPT ![l] = t]
  /\ ref' = [ref EXCEPT ![l] = 1]
  /\ thread_queue' = [thread_queue EXCEPT ![l] = <<>>]
  /\ destroyed' = [destroyed EXCEPT ![l] = FALSE]
  /\ timeout_ts' = [timeout_ts EXCEPT ![l] = IF id \in Timed THEN "armed" ELSE "nil"]
  /\ stack' = [stack EXCEPT ![t] = Append(@, [lock |-> l, kind |-> "live", n |-> 1])]
  /\ UNCHANGED <<waiting_wake_list, waiting, woken>>

(* A run may take the lock without waiting.                                *)
Available(t, l) == current_thread[l] \in {NoThread, t}

(* The part of LockCls:run behind the wait: take the lock and call f; on a *)
(* destroyed lock call f all the same.                                     *)
Enter(t, l) ==
  IF destroyed[l]
  THEN /\ stack' = [stack EXCEPT ![t] = Append(@, [lock |-> l, kind |-> "free", n |-> 0])]
       /\ UNCHANGED <<current_thread, ref, timeout_ts>>
  ELSE /\ current_thread' = [current_thread EXCEPT ![l] = t]
       /\ ref' = [ref EXCEPT ![l] = @ + 1]
       /\ timeout_ts' = [timeout_ts EXCEPT ![l] =
                           IF lock_id[l] \in Timed /\ @ = "nil" THEN "armed" ELSE @]
       /\ stack' = [stack EXCEPT ![t] =
                      Append(@, [lock |-> l, kind |-> "live", n |-> ref[l] + 1])]

(* LockCls:run on a lock that is free or already this thread's.            *)
RunEnter(t, id) ==
  LET l == lock_dict[id] IN
  /\ Running(t)
  /\ Len(stack[t]) < MaxDepth
  /\ l # NoLock
  /\ Available(t, l)
  /\ Enter(t, l)
  /\ UNCHANGED <<lock_dict, lock_id, thread_queue, destroyed, waiting_wake_list,
                 waiting, woken>>

(* LockCls:run on a lock another thread has: _wait up to skynet.wait.      *)
RunWait(t, id) ==
  LET l == lock_dict[id] IN
  /\ Running(t)
  /\ Len(stack[t]) < MaxDepth
  /\ l # NoLock
  /\ ~Available(t, l)
  /\ thread_queue' = [thread_queue EXCEPT ![l] = Append(@, t)]
  /\ waiting' = [waiting EXCEPT ![t] = l]
  /\ UNCHANGED <<lock_dict, lock_id, current_thread, ref, destroyed, timeout_ts,
                 waiting_wake_list, stack, woken>>

(* A woken thread leaves skynet.wait: the assertion at the end of _wait,   *)
(* then the rest of run.                                                   *)
Resume(t) ==
  LET l == waiting[t] IN
  /\ t \in woken
  /\ ref[l] = 0 \/ destroyed[l]
  /\ waiting' = [waiting EXCEPT ![t] = NoLock]
  /\ woken' = woken \ {t}
  /\ Enter(t, l)
  /\ UNCHANGED <<lock_dict, lock_id, thread_queue, destroyed, waiting_wake_list>>

(* Somebody is queued: what _wake_next asks before it schedules the fork.  *)
(* Mutant: a queue of one is overlooked.                                   *)
MutWanted(l) == Len(thread_queue[l]) > 1

Wanted(l) == thread_queue[l] # <<>>

(* Schedule _wake_waiting for a lock somebody wants, or cb_free it.        *)
WakeOrFree(l) ==
  IF Wanted(l)
  THEN /\ waiting_wake_list' = waiting_wake_list \cup {l}
       /\ UNCHANGED lock_dict
  ELSE /\ lock_dict' = IF lock_id[l] \in Managed
                       THEN [lock_dict EXCEPT ![lock_id[l]] = NoLock]
                       ELSE lock_dict
       /\ UNCHANGED waiting_wake_list

(* Mutant: _wake_next leaves current_thread as it is.                      *)
MutWakeNext(l) == WakeOrFree(l) /\ UNCHANGED current_thread

(* LockCls:_wake_next for the lock l.                                      *)
WakeNext(l) ==
  /\ current_thread' = [current_thread EXCEPT ![l] = NoThread]
  /\ WakeOrFree(l)

(* _unlock finds that the lock is not this thread's any more.              *)
(* Mutant: it does not look.                                               *)
MutLost(t, l) == FALSE

Lost(t, l) == current_thread[l] # t

(* f returned or raised an error: LockCls:_unlock of the innermost frame.  *)
(* Nothing is done for a lock that is not this thread's any more.          *)
Unlock(t) ==
  LET l == Top(t).lock IN
  /\ Running(t)
  /\ stack[t] # <<>>
  /\ stack' = [stack EXCEPT ![t] = Pop(@)]
  /\ IF Top(t).kind = "free" \/ Lost(t, l)
     THEN UNCHANGED <<lock_dict, current_thread, ref, timeout_ts, waiting_wake_list>>
     ELSE /\ timeout_ts' = [timeout_ts EXCEPT ![l] = "nil"]
          /\ ref' = [ref EXCEPT ![l] = @ - 1]
          /\ IF ref[l] = 1
             THEN WakeNext(l)
             ELSE UNCHANGED <<lock_dict, current_thread, waiting_wake_list>>
  /\ UNCHANGED <<lock_id, thread_queue, destroyed, waiting, woken>>

(* A listed lock can be handed over: nobody took it meanwhile.             *)
(* Mutant: that test is missing.                                           *)
MutGrantable(l) == thread_queue[l] # <<>>

Grantable(l) == current_thread[l] = NoThread /\ thread_queue[l] # <<>>

(* The forked co_lock._wake_waiting: hand every listed lock that is still  *)
(* free to the first thread of its queue.                                  *)
WakeWaiting ==
  LET granted == {l \in waiting_wake_list : Grantable(l)}
      next == [l \in granted |-> Head(thread_queue[l])]
  IN
  /\ waiting_wake_list # {}
  /\ waiting_wake_list' = {}
  /\ current_thread' = [l \in Locks |-> IF l \in granted THEN next[l] ELSE current_thread[l]]
  /\ thread_queue' = [l \in Locks |-> IF l \in granted THEN Tail(thread_queue[l])
                                                       ELSE thread_queue[l]]
  /\ woken' = woken \cup {t \in Threads : waiting[t] # NoLock /\ \E l \in granted : t = next[l]}
  /\ UNCHANGED <<lock_dict, lock_id, ref, destroyed, timeout_ts, stack, waiting>>

(* co_lock.check_timeout reaches the second for which l was armed.         *)
OnTimeout(l) ==
  /\ timeout_ts[l] = "armed"
  /\ timeout_ts' = [timeout_ts EXCEPT ![l] = "fired"]
  /\ ref' = [ref EXCEPT ![l] = 0]
  /\ WakeNext(l)
  /\ Expropriate(l)
  /\ UNCHANGED <<lock_id, thread_queue, destroyed, waiting, woken>>

(* LockCls:destroy.  Its only caller, SockCls.on_close, forgets the lock   *)
(* in the same step (sock.lock = nil, sock_dict[sock_id] = nil), and runs  *)
(* from a message of its own, hence after the forks of earlier messages.   *)
Destroy(id) ==
  LET l == lock_dict[id] IN
  /\ id \notin Managed
  /\ l # NoLock
  /\ ~destroyed[l]
  /\ l \notin waiting_wake_list
  /\ destroyed' = [destroyed EXCEPT ![l] = TRUE]
  /\ timeout_ts' = [timeout_ts EXCEPT ![l] = "nil"]
  /\ current_thread' = [current_thread EXCEPT ![l] = NoThread]
  /\ woken' = woken \cup {t \in Threads : \E i \in DOMAIN thread_queue[l] :
                                             thread_queue[l][i] = t}
  /\ lock_dict' = [lock_dict EXCEPT ![id] = NoLock]
  /\ Expropriate(l)
  /\ UNCHANGED <<lock_id, ref, thread_queue, waiting_wake_list, waiting>>

Next ==
  \/ \E id \in LockIds, l \in Locks : New(id, l)
  \/ \E t \in Threads, id \in LockIds, l \in Locks : RunFresh(t, id, l)
  \/ \E t \in Threads, id \in LockIds : RunEnter(t, id) \/ RunWait(t, id)
  \/ \E t \in Threads : Resume(t) \/ Unlock(t)
  \/ WakeWaiting
  \/ \E l \in Locks : OnTimeout(l)
  \/ \E id \in LockIds : Destroy(id)

Spec == Init /\ [][Next]_vars

(***************************************************************************)
(* skynet runs every forked and every woken coroutine.  Strong fairness    *)
(* says of two loops the model could make that the code does not: a body   *)
(* run under a lock returns, so it makes finitely many nested runs         *)
(* (Return); and the fork of _wake_waiting, which runs as soon as the      *)
(* coroutine that released the lock yields, finds it taken again only if   *)
(* that coroutine took it again at once, which a handler does finitely     *)
(* often (HandOver).  Nobody has to take a lock, and a timeout need not    *)
(* fire.                                                                   *)
(***************************************************************************)
Return(t, depth) == Len(stack[t]) = depth /\ Unlock(t)

HandOver(l) == l \in waiting_wake_list /\ current_thread[l] = NoThread /\ WakeWaiting

Fairness ==
  /\ WF_vars(WakeWaiting)
  /\ \A l \in Locks : SF_vars(HandOver(l))
  /\ \A t \in Threads : WF_vars(Resume(t))
  /\ \A t \in Threads : \A depth \in 1 .. MaxDepth : SF_vars(Return(t, depth))

FairSpec == Spec /\ Fairness

-----------------------------------------------------------------------------
(* The state has its type: queues hold threads, ref counts the re-entries. *)
TypeOK ==
  /\ lock_dict \in [LockIds -> Locks \cup {NoLock}]
  /\ lock_id \in [Locks -> LockIds \cup {NoId}]
  /\ current_thread \in [Locks -> Threads \cup {NoThread}]
  /\ ref \in [Locks -> Nat]
  /\ thread_queue \in [Locks -> Seq(Threads)]
  /\ destroyed \in [Locks -> BOOLEAN]
  /\ timeout_ts \in [Locks -> {"nil", "armed", "fired"}]
  /\ waiting_wake_list \subseteq Locks
  /\ stack \in [Threads -> Seq(Frame)]
  /\ waiting \in [Threads -> Locks \cup {NoLock}]
  /\ woken \subseteq Threads

(* A thread is inside f of a lock it has not lost.                         *)
Holds(t, l) == \E i \in DOMAIN stack[t] : stack[t][i].lock = l /\ stack[t][i].kind = "live"

(* Mutual exclusion per name, not per object (co_lock.lua run, lock_mgr):  *)
(* two coroutines are never both inside a run of the same lock_id unless a *)
(* timeout or destroy took the lock from one of them; dropping the lock    *)
(* object from lock_dict never lets a second one in beside the first.      *)
MutualExclusion ==
  \A t, u \in Threads : \A l, m \in Locks :
    (Holds(t, l) /\ Holds(u, m) /\ lock_id[l] = lock_id[m]) => t = u

(* The assertion at the end of LockCls:_wait (ref == 0 or destroyed) never *)
(* fails, whatever timeouts, barging runs and handovers came before.       *)
WaitAssertion == \A t \in woken : ref[waiting[t]] = 0 \/ destroyed[waiting[t]]

(* No waiter is forgotten: a parked thread is either already woken, or in  *)
(* the queue of a lock that has an owner or is due for _wake_waiting, and  *)
(* which a newcomer still finds in lock_dict.                              *)
NoLostWaiter ==
  \A t \in Threads :
    LET l == waiting[t] IN
    (l # NoLock /\ t \notin woken) =>
      /\ \E i \in DOMAIN thread_queue[l] : thread_queue[l][i] = t
      /\ lock_dict[lock_id[l]] = l
      /\ current_thread[l] # NoThread \/ l \in waiting_wake_list

(* An owner is never a coroutine that has left: current_thread of a usable *)
(* lock is inside a live run of it or is about to resume into one.         *)
OwnerPresent ==
  \A l \in Locks : \A t \in Threads :
    (current_thread[l] = t /\ ~destroyed[l]) =>
      Holds(t, l) \/ (t \in woken /\ waiting[t] = l)

(* Every coroutine that waits for a lock gets to run its function, if the  *)
(* functions run under the lock return.                                    *)
WaiterRuns == \A t \in Threads : (waiting[t] # NoLock) ~> (waiting[t] = NoLock)
=============================================================================
