---------------------------- MODULE CoLockProofs ----------------------------
(***************************************************************************)
(* The inductive invariant of CoLock.                                      *)
(***************************************************************************)
EXTENDS CoLock, SequenceTheorems, TLAPS

IsFrame(t, i, l) == i \in DOMAIN stack[t] /\ stack[t][i].lock = l

IsLive(t, i, l) == IsFrame(t, i, l) /\ stack[t][i].kind = "live"

Queued(t, l) == \E i \in DOMAIN thread_queue[l] : thread_queue[l][i] = t

(* A usable lock is where lock_dict says it is.                            *)
InDict(l) == lock_id[l] \in LockIds /\ lock_dict[lock_id[l]] = l

(* What lock_dict reaches is not destroyed and knows its id.               *)
DictInv ==
  \A id \in LockIds : lock_dict[id] # NoLock =>
    /\ lock_id[lock_dict[id]] = id
    /\ ~destroyed[lock_dict[id]]

(* A live frame belongs to the owner, and its n is within ref.             *)
LiveInv ==
  \A t \in Threads, l \in Locks : \A i \in DOMAIN stack[t] : IsLive(t, i, l) =>
    /\ InDict(l)
    /\ current_thread[l] = t
    /\ stack[t][i].n \in 1 .. ref[l]

(* Above a live frame of a lock all its frames are live, with larger n.    *)
NestInv ==
  \A t \in Threads, l \in Locks : \A i, j \in DOMAIN stack[t] :
    (IsLive(t, i, l) /\ IsFrame(t, j, l) /\ i < j) =>
      IsLive(t, j, l) /\ stack[t][i].n < stack[t][j].n

(* An owner has one live frame for every value ref went through, or, when  *)
(* ref is 0, it has been woken and has not resumed yet.                    *)
OwnerInv ==
  \A l \in Locks, t \in Threads : current_thread[l] = t =>
    /\ InDict(l)
    /\ \A k \in 1 .. ref[l] : \E i \in DOMAIN stack[t] : IsLive(t, i, l) /\ stack[t][i].n = k
    /\ ref[l] = 0 => t \in woken /\ waiting[t] = l

FreeInv ==
  \A l \in Locks :
    /\ (current_thread[l] = NoThread /\ ~destroyed[l]) => ref[l] = 0
    /\ timeout_ts[l] = "armed" => ref[l] > 0 /\ ~destroyed[l]

(* Queues are those of the parked threads that were not woken.             *)
QueueInv ==
  \A l \in Locks :
    /\ ~destroyed[l] =>
         \A i \in DOMAIN thread_queue[l] :
           /\ InDict(l)
           /\ waiting[thread_queue[l][i]] = l
           /\ thread_queue[l][i] \notin woken
           /\ \A j \in DOMAIN thread_queue[l] : i # j => thread_queue[l][i] # thread_queue[l][j]
    /\ (thread_queue[l] # <<>> /\ ~destroyed[l]) =>
         current_thread[l] # NoThread \/ l \in waiting_wake_list
    /\ l \in waiting_wake_list => ~destroyed[l] /\ thread_queue[l] # <<>>

WaitInv ==
  \A t \in Threads :
    /\ waiting[t] \in Locks /\ t \in woken => 
         \/ destroyed[waiting[t]]
         \/ current_thread[waiting[t]] = t /\ ref[waiting[t]] = 0
    /\ waiting[t] \in Locks /\ t \notin woken => 
         ~destroyed[waiting[t]] /\ Queued(t, waiting[t])
    /\ t \in woken => waiting[t] \in Locks

IInv == /\ TypeOK
        /\ DictInv
        /\ LiveInv
        /\ NestInv
        /\ OwnerInv
        /\ FreeInv
        /\ QueueInv
        /\ WaitInv
-----------------------------------------------------------------------------
(* What a push does to a stack of frames.                                  *)
LEMMA PushFrame ==
  ASSUME NEW s \in Seq(Frame), NEW f \in Frame
  PROVE  /\ Append(s, f) \in Seq(Frame)
         /\ DOMAIN Append(s, f) = 1 .. Len(s) + 1
         /\ \A i \in DOMAIN s : Append(s, f)[i] = s[i]
         /\ Append(s, f)[Len(s) + 1] = f
         /\ DOMAIN s = 1 .. Len(s)
         /\ Len(s) \in Nat
<1>1. Len(s) \in Nat /\ DOMAIN s = 1 .. Len(s)
  BY LenProperties
<1>2. Append(s, f) \in Seq(Frame) /\ Len(Append(s, f)) = Len(s) + 1
  BY AppendProperties
<1>3. DOMAIN Append(s, f) = 1 .. Len(Append(s, f))
  BY <1>2, LenProperties
<1>4. QED
  BY <1>1, <1>2, <1>3, AppendProperties

(* What a pop does to a stack of frames.                                   *)
LEMMA PopFrame ==
  ASSUME NEW s \in Seq(Frame), s # <<>>
  PROVE  /\ Pop(s) \in Seq(Frame)
         /\ Len(s) \in Nat \ {0}
         /\ DOMAIN s = 1 .. Len(s)
         /\ DOMAIN Pop(s) = 1 .. Len(s) - 1
         /\ \A i \in DOMAIN Pop(s) : Pop(s)[i] = s[i]
         /\ s[Len(s)] \in Frame
<1>1. Len(s) \in Nat \ {0} /\ DOMAIN s = 1 .. Len(s)
  BY EmptySeq, LenProperties
<1>2. \A i \in 1 .. Len(s) : s[i] \in Frame
  BY ElementOfSeq
<1>3. /\ Pop(s) \in Seq(Frame)
      /\ Len(Pop(s)) = Len(s) - 1
      /\ \A i \in 1 .. Len(s) - 1 : Pop(s)[i] = s[i]
  BY <1>1, SubSeqProperties DEF Pop
<1>4. DOMAIN Pop(s) = 1 .. Len(s) - 1
  BY <1>3, LenProperties
<1>5. QED
  BY <1>1, <1>2, <1>3, <1>4

(* Expropriation keeps every frame where it is and changes only its kind.  *)
LEMMA ExpropriateFrames ==
  ASSUME TypeOK, NEW l \in Locks, Expropriate(l)
  PROVE  /\ stack' \in [Threads -> Seq(Frame)]
         /\ \A t \in Threads :
              /\ DOMAIN stack'[t] = DOMAIN stack[t]
              /\ \A i \in DOMAIN stack[t] :
                   /\ stack'[t][i].lock = stack[t][i].lock
                   /\ stack'[t][i].n = stack[t][i].n
                   /\ stack'[t][i].kind = "live" <=>
                        stack[t][i].kind = "live" /\ stack[t][i].lock # l
<1>1. ASSUME NEW t \in Threads
      PROVE  /\ stack'[t] \in Seq(Frame)
             /\ DOMAIN stack'[t] = DOMAIN stack[t]
             /\ \A i \in DOMAIN stack[t] :
                   /\ stack'[t][i].lock = stack[t][i].lock
                   /\ stack'[t][i].n = stack[t][i].n
                   /\ stack'[t][i].kind = "live" <=>
                        stack[t][i].kind = "live" /\ stack[t][i].lock # l
  <2>1. stack[t] \in Seq(Frame)
    BY DEF TypeOK
  <2>2. Len(stack[t]) \in Nat /\ DOMAIN stack[t] = 1 .. Len(stack[t])
    BY <2>1, LenProperties
  <2>3. \A i \in 1 .. Len(stack[t]) : stack[t][i] \in Frame
    BY <2>1, ElementOfSeq
  <2>4. stack'[t] = [i \in DOMAIN stack[t] |->
                       IF stack[t][i].lock = l /\ stack[t][i].kind = "live"
                       THEN [stack[t][i] EXCEPT !.kind = "stale"]
                       ELSE stack[t][i]]
    BY DEF Expropriate
  <2>5. \A i \in 1 .. Len(stack[t]) : stack'[t][i] \in Frame
    BY <2>2, <2>3, <2>4 DEF Frame
  <2>6. stack'[t] \in [1 .. Len(stack[t]) -> Frame]
    BY <2>2, <2>4, <2>5
  <2>7. stack'[t] \in Seq(Frame)
    BY <2>2, <2>6, SeqDef
  <2>8. QED
    BY <2>2, <2>3, <2>4, <2>7 DEF Frame
<1>2. DOMAIN stack' = Threads /\ stack' = [t \in DOMAIN stack' |-> stack'[t]]
  BY DEF Expropriate
<1>3. QED
  BY <1>1, <1>2

LEMMA InitIInv == Init => IInv
<1> SUFFICES ASSUME Init PROVE IInv
  OBVIOUS
<1> USE ConstantsAssumption
<1>1. TypeOK
  BY DEF Init, TypeOK
<1>2. \A t \in Threads : DOMAIN stack[t] = {}
  BY DEF Init
<1>3. QED
  BY <1>1, <1>2 DEF Init, IInv, DictInv, LiveInv, NestInv, OwnerInv, FreeInv, QueueInv, WaitInv,
     IsLive, IsFrame, InDict, Queued

(* A run that has to wait.                                                 *)
LEMMA RunWaitIInv ==
  ASSUME IInv, NEW t \in Threads, NEW id \in LockIds, RunWait(t, id)
  PROVE  IInv'
<1> USE ConstantsAssumption DEF IInv
<1> DEFINE l == lock_dict[id]
<1>1. /\ l \in Locks
      /\ lock_id[l] = id
      /\ ~destroyed[l]
      /\ waiting[t] = NoLock
      /\ t \notin woken
      /\ current_thread[l] # NoThread
  BY DEF RunWait, Running, Available, TypeOK, DictInv, WaitInv
<1>2. /\ thread_queue' = [thread_queue EXCEPT ![l] = Append(@, t)]
      /\ waiting' = [waiting EXCEPT ![t] = l]
      /\ UNCHANGED <<lock_dict, lock_id, current_thread, ref, destroyed, timeout_ts,
                     waiting_wake_list, stack, woken>>
  BY DEF RunWait
<1>3. /\ thread_queue[l] \in Seq(Threads)
      /\ thread_queue' \in [Locks -> Seq(Threads)]
      /\ Len(thread_queue[l]) \in Nat
      /\ DOMAIN thread_queue[l] = 1 .. Len(thread_queue[l])
      /\ DOMAIN thread_queue'[l] = 1 .. Len(thread_queue[l]) + 1
      /\ \A i \in DOMAIN thread_queue[l] : thread_queue'[l][i] = thread_queue[l][i]
      /\ thread_queue'[l][Len(thread_queue[l]) + 1] = t
      /\ thread_queue'[l] # <<>>
  <2>1. thread_queue[l] \in Seq(Threads)
    BY <1>1 DEF TypeOK
  <2>2. thread_queue'[l] = Append(thread_queue[l], t)
    BY <1>1, <1>2 DEF TypeOK
  <2>3. /\ Append(thread_queue[l], t) \in Seq(Threads)
        /\ Len(Append(thread_queue[l], t)) = Len(thread_queue[l]) + 1
        /\ Append(thread_queue[l], t)[Len(thread_queue[l]) + 1] = t
        /\ \A i \in 1 .. Len(thread_queue[l]) :
             Append(thread_queue[l], t)[i] = thread_queue[l][i]
    BY <2>1, AppendProperties
  <2>4. /\ Len(thread_queue[l]) \in Nat
        /\ DOMAIN thread_queue[l] = 1 .. Len(thread_queue[l])
        /\ DOMAIN Append(thread_queue[l], t) = 1 .. Len(Append(thread_queue[l], t))
    BY <2>1, <2>3, LenProperties
  <2>5. Append(thread_queue[l], t) # <<>>
    BY <2>3, <2>4, EmptySeq
  <2>6. thread_queue' \in [Locks -> Seq(Threads)]
    BY <1>1, <1>2, <2>3 DEF TypeOK
  <2>7. QED
    BY <2>1, <2>2, <2>3, <2>4, <2>5, <2>6
<1>4. \A m \in Locks : m # l => thread_queue'[m] = thread_queue[m]
  BY <1>1, <1>2 DEF TypeOK
<1>5. waiting'[t] = l /\ \A u \in Threads : u # t => waiting'[u] = waiting[u]
  BY <1>2 DEF TypeOK
<1> HIDE DEF l
<1>6. TypeOK'
  BY <1>1, <1>2, <1>3 DEF TypeOK
<1>7. DictInv' /\ LiveInv' /\ NestInv' /\ FreeInv'
  BY <1>2 DEF DictInv, LiveInv, NestInv, FreeInv, IsLive, IsFrame, InDict
<1>8. OwnerInv'
  BY <1>1, <1>2, <1>5 DEF OwnerInv, IsLive, IsFrame, InDict
<1>9. QueueInv'
  <2>0. InDict(l)
    BY <1>1 DEF InDict, l
  <2> SUFFICES ASSUME NEW m \in Locks PROVE QueueInv!(m)'
    BY DEF QueueInv
  <2>1. QueueInv!(m)
    BY DEF QueueInv
  <2>2. CASE m # l
    BY <1>1, <1>2, <1>4, <1>5, <2>1, <2>2 DEF InDict, TypeOK
  <2>3. CASE m = l
    BY <1>1, <1>2, <1>3, <1>5, <2>0, <2>1, <2>3 DEF InDict, TypeOK
  <2>4. QED
    BY <2>2, <2>3
<1>10. WaitInv'
  BY <1>1, <1>2, <1>3, <1>4, <1>5 DEF WaitInv, Queued
<1>11. QED
  BY <1>6, <1>7, <1>8, <1>9, <1>10

(* The stacks after a step in which t entered one more run.                *)
LEMMA PushStack ==
  ASSUME TypeOK, NEW t \in Threads, NEW f \in Frame,
         stack' = [stack EXCEPT ![t] = Append(@, f)]
  PROVE  /\ stack' \in [Threads -> Seq(Frame)]
         /\ \A u \in Threads : u # t => stack'[u] = stack[u]
         /\ Len(stack[t]) \in Nat
         /\ DOMAIN stack[t] = 1 .. Len(stack[t])
         /\ DOMAIN stack'[t] = 1 .. Len(stack[t]) + 1
         /\ \A i \in DOMAIN stack[t] : stack'[t][i] = stack[t][i]
         /\ stack'[t][Len(stack[t]) + 1] = f
<1>1. stack[t] \in Seq(Frame) /\ stack'[t] = Append(stack[t], f)
  BY DEF TypeOK
<1>2. QED
  BY <1>1, PushFrame DEF TypeOK

(* Entering a usable lock that is free or already this thread's, whether   *)
(* at once or after a wait: live frames stay with the owner, one per ref.  *)
LEMMA EnterLive ==
  ASSUME IInv, NEW t \in Threads, NEW l \in Locks, InDict(l), ~destroyed[l],
         current_thread[l] \in {NoThread, t}, Enter(t, l),
         UNCHANGED <<lock_dict, lock_id, destroyed>>,
         \A u \in Threads : \A m \in Locks :
            (m # l /\ u \in woken /\ waiting[u] = m) => u \in woken' /\ waiting'[u] = m,
         \A m \in Locks : m # l => (ref[m] = 0 => ref'[m] = 0),
         (current_thread[l] = t /\ ref[l] = 0) \/ Running(t)
  PROVE  /\ stack' \in [Threads -> Seq(Frame)]
         /\ current_thread' = [current_thread EXCEPT ![l] = t]
         /\ ref' = [ref EXCEPT ![l] = @ + 1]
         /\ ref[l] \in Nat
         /\ timeout_ts' \in [Locks -> {"nil", "armed", "fired"}]
         /\ \A m \in Locks : m # l => timeout_ts'[m] = timeout_ts[m]
         /\ LiveInv' /\ NestInv' /\ OwnerInv'
<1> USE ConstantsAssumption DEF IInv
<1> DEFINE f == [lock |-> l, kind |-> "live", n |-> ref[l] + 1]
<1>0. PICK k : k = Len(stack[t]) + 1
  OBVIOUS
<1>1. /\ current_thread' = [current_thread EXCEPT ![l] = t]
      /\ ref' = [ref EXCEPT ![l] = @ + 1]
      /\ stack' = [stack EXCEPT ![t] = Append(@, f)]
      /\ timeout_ts' = [timeout_ts EXCEPT ![l] =
                          IF lock_id[l] \in Timed /\ @ = "nil" THEN "armed" ELSE @]
  BY DEF Enter
<1>2. ref[l] \in Nat
  BY DEF TypeOK
<1>3. f \in Frame
  BY <1>2 DEF Frame
<1>4. /\ stack' \in [Threads -> Seq(Frame)]
      /\ \A u \in Threads : u # t => stack'[u] = stack[u]
      /\ Len(stack[t]) \in Nat
      /\ DOMAIN stack[t] = 1 .. Len(stack[t])
      /\ DOMAIN stack'[t] = 1 .. k
      /\ \A i \in DOMAIN stack[t] : stack'[t][i] = stack[t][i]
      /\ stack'[t][k] = f
  BY <1>0, <1>1, <1>3, PushStack
<1>5. /\ f.lock = l /\ f.kind = "live" /\ f.n = ref[l] + 1
      /\ k \in Nat /\ k \in DOMAIN stack'[t] /\ k \notin DOMAIN stack[t]
      /\ \A i \in DOMAIN stack'[t] : i = k \/ (i \in DOMAIN stack[t] /\ i < k)
      /\ \A i \in DOMAIN stack[t] : i \in DOMAIN stack'[t]
  BY <1>0, <1>4
<1> HIDE DEF f
<1>6. timeout_ts' \in [Locks -> {"nil", "armed", "fired"}] /\ \A m \in Locks : m # l => timeout_ts'[m] = timeout_ts[m]
  BY <1>1 DEF TypeOK
<1>7. /\ current_thread'[l] = t
      /\ ref'[l] = ref[l] + 1
      /\ \A m \in Locks : m # l => current_thread'[m] = current_thread[m] /\ ref'[m] = ref[m]
  BY <1>1 DEF TypeOK
<1>8. \A m \in Locks : InDict(m) => InDict(m)'
  BY DEF InDict
<1>9. LiveInv'
  <2> SUFFICES ASSUME NEW u \in Threads, NEW m \in Locks, NEW i \in DOMAIN stack'[u],
                      IsLive(u, i, m)'
               PROVE  InDict(m)' /\ current_thread'[m] = u /\ stack'[u][i].n \in 1 .. ref'[m]
    BY DEF LiveInv
  <2>1. CASE u = t /\ i = k
    <3>1. m = l
      BY <1>4, <1>5, <2>1 DEF IsLive, IsFrame
    <3>2. QED
      BY <1>2, <1>4, <1>5, <1>7, <1>8, <2>1, <3>1
  <2>2. CASE ~(u = t /\ i = k)
    <3>1. i \in DOMAIN stack[u] /\ stack'[u][i] = stack[u][i] /\ IsLive(u, i, m)
      BY <1>4, <1>5, <2>2 DEF IsLive, IsFrame
    <3>2. InDict(m) /\ current_thread[m] = u /\ stack[u][i].n \in 1 .. ref[m]
      BY <3>1 DEF LiveInv
    <3>3. m = l => u = t
      BY <3>2
    <3>4. QED
      BY <1>2, <1>7, <1>8, <3>1, <3>2, <3>3
  <2>3. QED
    BY <2>1, <2>2
<1>10. NestInv'
  <2> SUFFICES ASSUME NEW u \in Threads, NEW m \in Locks,
                      NEW i \in DOMAIN stack'[u], NEW j \in DOMAIN stack'[u],
                      IsLive(u, i, m)', IsFrame(u, j, m)', i < j
               PROVE  IsLive(u, j, m)' /\ stack'[u][i].n < stack'[u][j].n
    BY DEF NestInv
  <2>1. CASE u # t
    BY <1>4, <2>1 DEF NestInv, IsLive, IsFrame
  <2>2. CASE u = t /\ j # k
    <3>1. i \in DOMAIN stack[u] /\ j \in DOMAIN stack[u]
      BY <1>4, <1>5, <2>2
    <3>2. QED
      BY <1>4, <2>2, <3>1 DEF NestInv, IsLive, IsFrame
  <2>3. CASE u = t /\ j = k
    <3>1. i \in DOMAIN stack[u] /\ stack'[u][i] = stack[u][i] /\ IsLive(u, i, m)
      BY <1>4, <1>5, <2>3 DEF IsLive, IsFrame
    <3>2. m = l /\ stack'[u][j] = f
      BY <1>4, <1>5, <2>3 DEF IsLive, IsFrame
    <3>3. stack[u][i].n \in 1 .. ref[l]
      BY <3>1, <3>2 DEF LiveInv
    <3>4. QED
      BY <1>2, <1>5, <2>3, <3>1, <3>2, <3>3 DEF IsLive, IsFrame
  <2>4. QED
    BY <2>1, <2>2, <2>3
<1>11. OwnerInv'
  <2> SUFFICES ASSUME NEW m \in Locks, NEW u \in Threads, current_thread'[m] = u
               PROVE  /\ InDict(m)'
                      /\ \A q \in 1 .. ref'[m] : \E i \in DOMAIN stack'[u] :
                           IsLive(u, i, m)' /\ stack'[u][i].n = q
                      /\ ref'[m] = 0 => u \in woken' /\ waiting'[u] = m
    BY DEF OwnerInv
  <2>1. CASE m # l
    <3>1. /\ InDict(m)
          /\ \A q \in 1 .. ref[m] : \E i \in DOMAIN stack[u] : IsLive(u, i, m) /\ stack[u][i].n = q
          /\ ref[m] = 0 => u \in woken /\ waiting[u] = m
      BY <1>7, <2>1 DEF OwnerInv
    <3>2. \A i \in DOMAIN stack[u] :
             i \in DOMAIN stack'[u] /\ stack'[u][i] = stack[u][i]
      BY <1>4, <1>5
    <3>3. \A i \in DOMAIN stack[u] : IsLive(u, i, m) => IsLive(u, i, m)'
      BY <3>2 DEF IsLive, IsFrame
    <3>4. \A q \in 1 .. ref[m] : \E i \in DOMAIN stack'[u] : IsLive(u, i, m)' /\ stack'[u][i].n = q
      BY <3>1, <3>2, <3>3
    <3>5. ref'[m] = ref[m]
      BY <1>7, <2>1
    <3>6. ref'[m] = 0 => u \in woken' /\ waiting'[u] = m
      BY <2>1, <3>1, <3>5
    <3>7. QED
      BY <1>8, <3>1, <3>4, <3>5, <3>6
  <2>2. CASE m = l
    <3>1. u = t
      BY <1>7, <2>2
    <3>2. \A q \in 1 .. ref[l] : \E i \in DOMAIN stack[t] : IsLive(t, i, l) /\ stack[t][i].n = q
      BY <1>2 DEF OwnerInv, FreeInv
    <3>3. \A i \in DOMAIN stack[t] : /\ i \in DOMAIN stack'[t]
                                     /\ stack'[t][i] = stack[t][i]
                                     /\ IsLive(t, i, l) => IsLive(t, i, l)'
      BY <1>4, <1>5 DEF IsLive, IsFrame
    <3>4. IsLive(t, k, l)' /\ stack'[t][k].n = ref[l] + 1
      BY <1>4, <1>5 DEF IsLive, IsFrame
    <3>5. \A q \in 1 .. ref[l] + 1 : \E i \in DOMAIN stack'[t] :
             IsLive(t, i, l)' /\ stack'[t][i].n = q
      <4> SUFFICES ASSUME NEW q \in 1 .. ref[l] + 1
                   PROVE  \E i \in DOMAIN stack'[t] : IsLive(t, i, l)' /\ stack'[t][i].n = q
        OBVIOUS
      <4>1. CASE q = ref[l] + 1
        BY <1>5, <3>4, <4>1
      <4>2. CASE q # ref[l] + 1
        <5>1. q \in 1 .. ref[l]
          BY <1>2, <4>2
        <5>2. PICK i \in DOMAIN stack[t] : IsLive(t, i, l) /\ stack[t][i].n = q
          BY <3>2, <5>1
        <5>3. QED
          BY <3>3, <5>2
      <4>3. QED
        BY <4>1, <4>2
    <3>6. QED
      BY <1>2, <1>7, <1>8, <2>2, <3>1, <3>5
  <2>3. QED
    BY <2>1, <2>2
<1>12. QED
  BY <1>1, <1>2, <1>4, <1>6, <1>9, <1>10, <1>11

(* A run that finds the lock available.                                    *)
LEMMA RunEnterIInv ==
  ASSUME IInv, NEW t \in Threads, NEW id \in LockIds, RunEnter(t, id)
  PROVE  IInv'
<1> USE ConstantsAssumption DEF IInv
<1>1. PICK l \in Locks : l = lock_dict[id]
  BY DEF RunEnter, TypeOK
<1>2. /\ lock_id[l] = id /\ InDict(l) /\ ~destroyed[l]
      /\ Running(t) /\ t \notin woken
      /\ current_thread[l] \in {NoThread, t}
      /\ Enter(t, l)
      /\ UNCHANGED <<lock_dict, lock_id, thread_queue, destroyed, waiting_wake_list,
                     waiting, woken>>
  BY <1>1 DEF RunEnter, Available, DictInv, InDict, WaitInv, Running
<1>3. \A m \in Locks : m # l => (ref[m] = 0 => ref'[m] = 0)
  BY <1>2 DEF Enter, TypeOK
<1>4. /\ stack' \in [Threads -> Seq(Frame)]
      /\ current_thread' = [current_thread EXCEPT ![l] = t]
      /\ ref' = [ref EXCEPT ![l] = @ + 1]
      /\ ref[l] \in Nat
      /\ timeout_ts' \in [Locks -> {"nil", "armed", "fired"}]
      /\ \A m \in Locks : m # l => timeout_ts'[m] = timeout_ts[m]
      /\ LiveInv' /\ NestInv' /\ OwnerInv'
  BY <1>2, <1>3, EnterLive
<1>5. TypeOK'
  BY <1>2, <1>4 DEF TypeOK
<1>6. DictInv'
  BY <1>2 DEF DictInv
<1>7. FreeInv'
  BY <1>2, <1>4 DEF FreeInv, TypeOK
<1>8. QueueInv'
  BY <1>2, <1>4 DEF QueueInv, InDict, TypeOK
<1>9. WaitInv'
  <2>1. \A u \in woken : waiting[u] # l
    BY <1>2 DEF WaitInv, TypeOK, Running
  <2>2. QED
    BY <1>2, <1>4, <2>1 DEF WaitInv, Queued, TypeOK
<1>10. QED
  BY <1>4, <1>5, <1>6, <1>7, <1>8, <1>9

(* A woken waiter goes on: it finds the lock its own, or destroyed.        *)
LEMMA ResumeIInv ==
  ASSUME IInv, NEW t \in Threads, Resume(t)
  PROVE  IInv'
<1> USE ConstantsAssumption DEF IInv
<1>1. PICK l \in Locks : l = waiting[t]
  BY DEF Resume, WaitInv
<1>2. /\ t \in woken
      /\ waiting' = [waiting EXCEPT ![t] = NoLock]
      /\ woken' = woken \ {t}
      /\ Enter(t, l)
      /\ UNCHANGED <<lock_dict, lock_id, thread_queue, destroyed, waiting_wake_list>>
  BY <1>1 DEF Resume
<1>3. waiting'[t] = NoLock /\ \A u \in Threads : u # t => waiting'[u] = waiting[u]
  BY <1>2 DEF TypeOK
<1>4. DictInv'
  BY <1>2 DEF DictInv
<1>5. \A m \in Locks : \A i \in DOMAIN thread_queue[m] :
        ~destroyed[m] => thread_queue[m][i] # t
  BY <1>2 DEF QueueInv
<1>6. CASE ~destroyed[l]
  <2>1. current_thread[l] = t /\ ref[l] = 0 /\ InDict(l)
    BY <1>1, <1>2, <1>6 DEF WaitInv, OwnerInv
  <2>2. \A m \in Locks : m # l => (ref[m] = 0 => ref'[m] = 0)
    BY <1>2, <1>6 DEF Enter, TypeOK
  <2>3. \A u \in Threads : \A m \in Locks :
          (m # l /\ u \in woken /\ waiting[u] = m) => u \in woken' /\ waiting'[u] = m
    BY <1>1, <1>2, <1>3
  <2>4. /\ stack' \in [Threads -> Seq(Frame)]
        /\ current_thread' = [current_thread EXCEPT ![l] = t]
        /\ ref' = [ref EXCEPT ![l] = @ + 1]
        /\ ref[l] \in Nat
        /\ timeout_ts' \in [Locks -> {"nil", "armed", "fired"}]
        /\ \A m \in Locks : m # l => timeout_ts'[m] = timeout_ts[m]
        /\ LiveInv' /\ NestInv' /\ OwnerInv'
    BY <1>2, <1>6, <2>1, <2>2, <2>3, EnterLive
  <2>5. TypeOK'
    <3>1. waiting' \in [Threads -> Locks \cup {NoLock}] /\ woken' \subseteq Threads
      BY <1>2 DEF TypeOK
    <3>2. current_thread' \in [Locks -> Threads \cup {NoThread}] /\ ref' \in [Locks -> Nat]
      BY <2>4 DEF TypeOK
    <3>3. QED
      BY <1>2, <2>4, <3>1, <3>2 DEF TypeOK
  <2>6. FreeInv'
    BY <1>2, <1>6, <2>4 DEF FreeInv, TypeOK
  <2>7. QueueInv'
    <3> SUFFICES ASSUME NEW m \in Locks PROVE QueueInv!(m)'
      BY DEF QueueInv
    <3>1. QueueInv!(m)
      BY DEF QueueInv
    <3>2. thread_queue[m] \in [DOMAIN thread_queue[m] -> Threads]
      BY LenProperties DEF TypeOK
    <3>3. QED
      BY <1>2, <1>3, <1>5, <2>4, <3>1, <3>2 DEF InDict, TypeOK
  <2>8. WaitInv'
    <3> SUFFICES ASSUME NEW u \in Threads PROVE WaitInv!(u)'
      BY DEF WaitInv
    <3>1. WaitInv!(u)
      BY DEF WaitInv
    <3>2. CASE u = t
      BY <1>2, <1>3, <3>2
    <3>3. CASE u # t
      <4>1. u \in woken => waiting[u] # l
        BY <1>6, <2>1, <3>1, <3>3
      <4>2. QED
        BY <1>2, <1>3, <2>4, <3>1, <3>3, <4>1 DEF Queued, TypeOK
    <3>4. QED
      BY <3>2, <3>3
  <2>9. QED
    BY <1>4, <2>4, <2>5, <2>6, <2>7, <2>8
<1>7. CASE destroyed[l]
  <2> DEFINE f == [lock |-> l, kind |-> "free", n |-> 0]
  <2>1. /\ stack' = [stack EXCEPT ![t] = Append(@, f)]
        /\ UNCHANGED <<current_thread, ref, timeout_ts>>
    BY <1>2, <1>7 DEF Enter
  <2>2. f \in Frame /\ f.kind = "free" /\ f.lock = l
    BY DEF Frame
  <2> HIDE DEF f
  <2>3. /\ stack' \in [Threads -> Seq(Frame)]
        /\ \A u \in Threads : u # t => stack'[u] = stack[u]
        /\ Len(stack[t]) \in Nat
        /\ DOMAIN stack[t] = 1 .. Len(stack[t])
        /\ DOMAIN stack'[t] = 1 .. Len(stack[t]) + 1
        /\ \A i \in DOMAIN stack[t] : stack'[t][i] = stack[t][i]
        /\ stack'[t][Len(stack[t]) + 1] = f
    BY <2>1, <2>2, PushStack
  <2>a. \A u \in Threads : \A i \in DOMAIN stack[u] :
          i \in DOMAIN stack'[u] /\ stack'[u][i] = stack[u][i]
    BY <2>3
  <2>b. \A u \in Threads : \A i \in DOMAIN stack'[u] :
          \/ i \in DOMAIN stack[u]
          \/ u = t /\ stack'[u][i] = f /\ \A j \in DOMAIN stack'[u] : ~(i < j)
    BY <2>3
  <2>4. \A u \in Threads, m \in Locks : \A i \in DOMAIN stack'[u] :
          IsLive(u, i, m)' => IsLive(u, i, m) /\ stack'[u][i] = stack[u][i] /\ i \in DOMAIN stack[u]
    BY <2>2, <2>a, <2>b DEF IsLive, IsFrame
  <2>5. \A u \in Threads, m \in Locks : \A i \in DOMAIN stack[u] :
          /\ i \in DOMAIN stack'[u] /\ stack'[u][i] = stack[u][i]
          /\ IsLive(u, i, m) => IsLive(u, i, m)'
    BY <2>a DEF IsLive, IsFrame
  <2>6. LiveInv'
    BY <1>2, <2>1, <2>4 DEF LiveInv, InDict
  <2>7. \A u \in Threads : \A i \in DOMAIN stack[u] : ~IsLive(u, i, l)
    BY <1>7 DEF LiveInv, DictInv, InDict
  <2>8. NestInv'
    <3> SUFFICES ASSUME NEW u \in Threads, NEW m \in Locks,
                        NEW i \in DOMAIN stack'[u], NEW j \in DOMAIN stack'[u],
                        IsLive(u, i, m)', IsFrame(u, j, m)', i < j
                 PROVE  IsLive(u, j, m)' /\ stack'[u][i].n < stack'[u][j].n
      BY DEF NestInv
    <3>1. IsLive(u, i, m) /\ stack'[u][i] = stack[u][i] /\ i \in DOMAIN stack[u] /\ m # l
      BY <2>4, <2>7
    <3>2. j \in DOMAIN stack[u] /\ stack'[u][j] = stack[u][j]
      BY <2>2, <2>a, <2>b, <3>1 DEF IsFrame
    <3>3. IsFrame(u, j, m)
      BY <3>2 DEF IsFrame
    <3>4. QED
      BY <2>5, <3>1, <3>2, <3>3 DEF NestInv
  <2>9. OwnerInv'
    <3> SUFFICES ASSUME NEW m \in Locks, NEW u \in Threads, current_thread'[m] = u
                 PROVE  /\ InDict(m)'
                        /\ \A q \in 1 .. ref'[m] : \E i \in DOMAIN stack'[u] :
                             IsLive(u, i, m)' /\ stack'[u][i].n = q
                        /\ ref'[m] = 0 => u \in woken' /\ waiting'[u] = m
      BY DEF OwnerInv
    <3>1. /\ InDict(m)
          /\ \A q \in 1 .. ref[m] : \E i \in DOMAIN stack[u] : IsLive(u, i, m) /\ stack[u][i].n = q
          /\ ref[m] = 0 => u \in woken /\ waiting[u] = m
      BY <2>1 DEF OwnerInv
    <3>2. m # l
      BY <1>7, <3>1 DEF InDict, DictInv
    <3>3. \A q \in 1 .. ref[m] : \E i \in DOMAIN stack'[u] : IsLive(u, i, m)' /\ stack'[u][i].n = q
      BY <2>5, <3>1
    <3>4. ref'[m] = 0 => u \in woken' /\ waiting'[u] = m
      BY <1>1, <1>2, <1>3, <2>1, <3>1, <3>2
    <3>5. QED
      BY <1>2, <2>1, <3>1, <3>3, <3>4 DEF InDict
  <2>10. TypeOK'
    BY <1>2, <2>1, <2>3 DEF TypeOK
  <2>11. FreeInv'
    BY <1>2, <2>1 DEF FreeInv
  <2>12. QueueInv'
    <3> SUFFICES ASSUME NEW m \in Locks PROVE QueueInv!(m)'
      BY DEF QueueInv
    <3>1. QueueInv!(m)
      BY DEF QueueInv
    <3>2. thread_queue[m] \in [DOMAIN thread_queue[m] -> Threads]
      BY LenProperties DEF TypeOK
    <3>3. QED
      BY <1>2, <1>3, <1>5, <2>1, <3>1, <3>2 DEF InDict, TypeOK
  <2>13. WaitInv'
    BY <1>2, <1>3, <2>1 DEF WaitInv, Queued, TypeOK
  <2>14. QED
    BY <1>4, <2>6, <2>8, <2>9, <2>10, <2>11, <2>12, <2>13
<1>8. QED
  BY <1>6, <1>7

(* Creating a lock object for an id that has none.                         *)
LEMMA FreshLock ==
  ASSUME IInv, NEW id \in LockIds, NEW l \in Locks,
         lock_dict[id] = NoLock, Garbage(l),
         lock_dict' = [lock_dict EXCEPT ![id] = l],
         lock_id' = [lock_id EXCEPT ![l] = id],
         destroyed' = [destroyed EXCEPT ![l] = FALSE]
  PROVE  /\ DictInv'
         /\ InDict(l)'
         /\ \A m \in Locks : InDict(m) => m # l /\ InDict(m)'
         /\ \A t \in Threads : waiting[t] # l /\ \A i \in DOMAIN stack[t] : ~IsFrame(t, i, l)
         /\ \A t \in Threads : current_thread[l] # t
         /\ l \notin waiting_wake_list
         /\ \A m \in Locks : m # l => lock_id'[m] = lock_id[m] /\ destroyed'[m] = destroyed[m]
         /\ lock_dict' \in [LockIds -> Locks \cup {NoLock}]
         /\ lock_id' \in [Locks -> LockIds \cup {NoId}]
         /\ destroyed' \in [Locks -> BOOLEAN]
<1> USE ConstantsAssumption DEF IInv
<1>1. ~InDict(l)
  BY DEF Garbage, InDict
<1>2. lock_dict'[id] = l /\ \A j \in LockIds : j # id => lock_dict'[j] = lock_dict[j]
  BY DEF TypeOK
<1>3. /\ lock_id'[l] = id
      /\ destroyed'[l] = FALSE
      /\ \A m \in Locks : m # l => lock_id'[m] = lock_id[m] /\ destroyed'[m] = destroyed[m]
  BY DEF TypeOK
<1>4. \A j \in LockIds : lock_dict[j] # l
  BY DEF Garbage
<1>5. DictInv'
  <2> SUFFICES ASSUME NEW j \in LockIds, lock_dict'[j] # NoLock
               PROVE  lock_id'[lock_dict'[j]] = j /\ ~destroyed'[lock_dict'[j]]
    BY DEF DictInv
  <2>1. CASE j = id
    BY <1>2, <1>3, <2>1
  <2>2. CASE j # id
    <3>1. /\ lock_dict'[j] = lock_dict[j] /\ lock_dict[j] \in Locks /\ lock_dict[j] # l
      BY <1>2, <1>4, <2>2 DEF TypeOK
    <3>2. lock_id[lock_dict[j]] = j /\ ~destroyed[lock_dict[j]]
      BY <3>1 DEF DictInv
    <3>3. QED
      BY <1>3, <3>1, <3>2
  <2>3. QED
    BY <2>1, <2>2
<1>6. \A m \in Locks : InDict(m) => m # l /\ InDict(m)'
  BY <1>1, <1>2, <1>3 DEF InDict
<1>7. InDict(l)'
  BY <1>2, <1>3 DEF InDict
<1>8. \A t \in Threads : current_thread[l] # t
  BY <1>1 DEF OwnerInv
<1>9. /\ lock_dict' \in [LockIds -> Locks \cup {NoLock}]
      /\ lock_id' \in [Locks -> LockIds \cup {NoId}]
      /\ destroyed' \in [Locks -> BOOLEAN]
  BY DEF TypeOK
<1>10. /\ \A t \in Threads : waiting[t] # l /\ \A i \in DOMAIN stack[t] : ~IsFrame(t, i, l)
       /\ l \notin waiting_wake_list
  BY DEF Garbage, IsFrame
<1>11. QED
  BY <1>3, <1>5, <1>6, <1>7, <1>8, <1>9, <1>10

LEMMA NewIInv ==
  ASSUME IInv, NEW id \in LockIds, NEW l \in Locks, New(id, l)
  PROVE  IInv'
<1> USE ConstantsAssumption DEF IInv
<1>1. /\ lock_dict[id] = NoLock
      /\ Garbage(l)
      /\ lock_dict' = [lock_dict EXCEPT ![id] = l]
      /\ lock_id' = [lock_id EXCEPT ![l] = id]
      /\ current_thread' = [current_thread EXCEPT ![l] = NoThread]
      /\ ref' = [ref EXCEPT ![l] = 0]
      /\ thread_queue' = [thread_queue EXCEPT ![l] = <<>>]
      /\ destroyed' = [destroyed EXCEPT ![l] = FALSE]
      /\ timeout_ts' = [timeout_ts EXCEPT ![l] = "nil"]
      /\ UNCHANGED <<waiting_wake_list, stack, waiting, woken>>
  BY DEF New
<1>2. /\ DictInv'
      /\ \A m \in Locks : InDict(m) => m # l /\ InDict(m)'
      /\ \A t \in Threads : waiting[t] # l /\ \A i \in DOMAIN stack[t] : ~IsFrame(t, i, l)
      /\ l \notin waiting_wake_list
      /\ \A m \in Locks : m # l => lock_id'[m] = lock_id[m] /\ destroyed'[m] = destroyed[m]
      /\ lock_dict' \in [LockIds -> Locks \cup {NoLock}]
      /\ lock_id' \in [Locks -> LockIds \cup {NoId}]
      /\ destroyed' \in [Locks -> BOOLEAN]
  BY <1>1, FreshLock
<1>3. /\ current_thread'[l] = NoThread /\ ref'[l] = 0 /\ thread_queue'[l] = <<>>
      /\ timeout_ts'[l] = "nil"
      /\ \A m \in Locks : m # l => /\ current_thread'[m] = current_thread[m]
                                   /\ ref'[m] = ref[m]
                                   /\ thread_queue'[m] = thread_queue[m]
                                   /\ timeout_ts'[m] = timeout_ts[m]
  BY <1>1 DEF TypeOK
<1>4. TypeOK'
  <2>1. thread_queue' \in [Locks -> Seq(Threads)]
    BY <1>1, EmptySeq DEF TypeOK
  <2>2. QED
    BY <1>1, <1>2, <2>1 DEF TypeOK
<1>5. LiveInv'
  BY <1>1, <1>2, <1>3 DEF LiveInv, IsLive, IsFrame
<1>6. NestInv'
  BY <1>1 DEF NestInv, IsLive, IsFrame
<1>7. OwnerInv'
  BY <1>1, <1>2, <1>3 DEF OwnerInv, IsLive, IsFrame
<1>8. FreeInv'
  BY <1>1, <1>2, <1>3 DEF FreeInv
<1>9. QueueInv'
  <2> SUFFICES ASSUME NEW m \in Locks PROVE QueueInv!(m)'
    BY DEF QueueInv
  <2>1. CASE m = l
    BY <1>1, <1>2, <1>3, <2>1, DOMAIN << >> = {}
  <2>2. CASE m # l
    BY <1>1, <1>2, <1>3, <2>2 DEF QueueInv
  <2>3. QED
    BY <2>1, <2>2
<1>10. WaitInv'
  BY <1>1, <1>2, <1>3 DEF WaitInv, Queued
<1>11. QED
  BY <1>2, <1>4, <1>5, <1>6, <1>7, <1>8, <1>9, <1>10

LEMMA RunFreshIInv ==
  ASSUME IInv, NEW t \in Threads, NEW id \in LockIds, NEW l \in Locks, RunFresh(t, id, l)
  PROVE  IInv'
<1> USE ConstantsAssumption DEF IInv
<1> DEFINE f == [lock |-> l, kind |-> "live", n |-> 1]
<1>1. /\ Running(t)
      /\ lock_dict[id] = NoLock
      /\ Garbage(l)
      /\ lock_dict' = [lock_dict EXCEPT ![id] = l]
      /\ lock_id' = [lock_id EXCEPT ![l] = id]
      /\ current_thread' = [current_thread EXCEPT ![l] = t]
      /\ ref' = [ref EXCEPT ![l] = 1]
      /\ thread_queue' = [thread_queue EXCEPT ![l] = <<>>]
      /\ destroyed' = [destroyed EXCEPT ![l] = FALSE]
      /\ timeout_ts' = [timeout_ts EXCEPT ![l] = IF id \in Timed THEN "armed" ELSE "nil"]
      /\ stack' = [stack EXCEPT ![t] = Append(@, f)]
      /\ UNCHANGED <<waiting_wake_list, waiting, woken>>
  BY DEF RunFresh
<1>2. /\ DictInv'
      /\ InDict(l)'
      /\ \A m \in Locks : InDict(m) => m # l /\ InDict(m)'
      /\ \A u \in Threads : waiting[u] # l /\ \A i \in DOMAIN stack[u] : ~IsFrame(u, i, l)
      /\ l \notin waiting_wake_list
      /\ \A m \in Locks : m # l => lock_id'[m] = lock_id[m] /\ destroyed'[m] = destroyed[m]
      /\ lock_dict' \in [LockIds -> Locks \cup {NoLock}]
      /\ lock_id' \in [Locks -> LockIds \cup {NoId}]
      /\ destroyed' \in [Locks -> BOOLEAN]
  BY <1>1, FreshLock
<1>3. /\ current_thread'[l] = t /\ ref'[l] = 1 /\ thread_queue'[l] = <<>>
      /\ destroyed'[l] = FALSE
      /\ \A m \in Locks : m # l => /\ current_thread'[m] = current_thread[m]
                                   /\ ref'[m] = ref[m]
                                   /\ thread_queue'[m] = thread_queue[m]
                                   /\ timeout_ts'[m] = timeout_ts[m]
  BY <1>1 DEF TypeOK
<1>4. f \in Frame /\ f.lock = l /\ f.kind = "live" /\ f.n = 1
  BY DEF Frame
<1> HIDE DEF f
<1>5. PICK k : k = Len(stack[t]) + 1
  OBVIOUS
<1>6. /\ stack' \in [Threads -> Seq(Frame)]
      /\ \A u \in Threads : u # t => stack'[u] = stack[u]
      /\ Len(stack[t]) \in Nat
      /\ DOMAIN stack[t] = 1 .. Len(stack[t])
      /\ DOMAIN stack'[t] = 1 .. k
      /\ \A i \in DOMAIN stack[t] : stack'[t][i] = stack[t][i]
      /\ stack'[t][k] = f
  BY <1>1, <1>4, <1>5, PushStack
<1>7. /\ k \in DOMAIN stack'[t]
      /\ \A u \in Threads : \A i \in DOMAIN stack[u] :
           i \in DOMAIN stack'[u] /\ stack'[u][i] = stack[u][i]
      /\ \A u \in Threads : \A i \in DOMAIN stack'[u] :
           \/ i \in DOMAIN stack[u]
           \/ u = t /\ i = k
  BY <1>5, <1>6
<1>8. /\ \A u \in Threads : \A i \in DOMAIN stack'[u] : IsFrame(u, i, l)' <=> (u = t /\ i = k)
      /\ \A u \in Threads : \A m \in Locks : m # l => \A i \in DOMAIN stack'[u] :
           /\ IsFrame(u, i, m)' => IsFrame(u, i, m)
           /\ IsLive(u, i, m)' => IsLive(u, i, m)
      /\ \A u \in Threads : \A m \in Locks : \A i \in DOMAIN stack[u] :
           IsLive(u, i, m) => IsLive(u, i, m)'
      /\ IsLive(t, k, l)' /\ stack'[t][k].n = 1
  BY <1>2, <1>4, <1>6, <1>7 DEF IsLive, IsFrame
<1>9. TypeOK'
  <2>1. /\ thread_queue' \in [Locks -> Seq(Threads)]
        /\ timeout_ts' \in [Locks -> {"nil", "armed", "fired"}]
    BY <1>1, EmptySeq DEF TypeOK
  <2>2. /\ current_thread' \in [Locks -> Threads \cup {NoThread}] 
        /\ ref' \in [Locks -> Nat]
    BY <1>1 DEF TypeOK
  <2>3. QED
    BY <1>1, <1>2, <1>6, <2>1, <2>2 DEF TypeOK
<1>10. LiveInv'
  <2> SUFFICES ASSUME NEW u \in Threads, NEW m \in Locks, NEW i \in DOMAIN stack'[u],
                      IsLive(u, i, m)'
               PROVE  InDict(m)' /\ current_thread'[m] = u /\ stack'[u][i].n \in 1 .. ref'[m]
    BY DEF LiveInv
  <2>1. CASE m = l
    BY <1>2, <1>3, <1>8, <2>1 DEF IsLive
  <2>2. CASE m # l
    <3>1. IsLive(u, i, m) /\ i \in DOMAIN stack[u] /\ stack'[u][i] = stack[u][i]
      BY <1>7, <1>8, <2>2 DEF IsLive, IsFrame
    <3>2. QED
      BY <1>2, <1>3, <2>2, <3>1 DEF LiveInv
  <2>3. QED
    BY <2>1, <2>2
<1>11. NestInv'
  <2> SUFFICES ASSUME NEW u \in Threads, NEW m \in Locks,
                      NEW i \in DOMAIN stack'[u], NEW j \in DOMAIN stack'[u],
                      IsLive(u, i, m)', IsFrame(u, j, m)', i < j
               PROVE  IsLive(u, j, m)' /\ stack'[u][i].n < stack'[u][j].n
    BY DEF NestInv
  <2>1. CASE m = l
    BY <1>5, <1>6, <1>8, <2>1 DEF IsLive
  <2>2. CASE m # l
    <3>1. /\ IsLive(u, i, m) /\ i \in DOMAIN stack[u] /\ stack'[u][i] = stack[u][i]
          /\ IsFrame(u, j, m) /\ j \in DOMAIN stack[u] /\ stack'[u][j] = stack[u][j]
      BY <1>7, <1>8, <2>2 DEF IsLive, IsFrame
    <3>2. QED
      BY <1>8, <3>1 DEF NestInv
  <2>3. QED
    BY <2>1, <2>2
<1>12. OwnerInv'
  <2> SUFFICES ASSUME NEW m \in Locks, NEW u \in Threads, current_thread'[m] = u
               PROVE  /\ InDict(m)'
                      /\ \A q \in 1 .. ref'[m] : \E i \in DOMAIN stack'[u] :
                           IsLive(u, i, m)' /\ stack'[u][i].n = q
                      /\ ref'[m] = 0 => u \in woken' /\ waiting'[u] = m
    BY DEF OwnerInv
  <2>1. CASE m = l
    <3>1. u = t /\ ref'[m] = 1
      BY <1>3, <2>1
    <3>2. QED
      BY <1>2, <1>7, <1>8, <2>1, <3>1
  <2>2. CASE m # l
    <3>1. /\ InDict(m)
          /\ \A q \in 1 .. ref[m] : \E i \in DOMAIN stack[u] : IsLive(u, i, m) /\ stack[u][i].n = q
          /\ ref[m] = 0 => u \in woken /\ waiting[u] = m
      BY <1>3, <2>2 DEF OwnerInv
    <3>2. \A q \in 1 .. ref[m] : \E i \in DOMAIN stack'[u] : IsLive(u, i, m)' /\ stack'[u][i].n = q
      BY <1>7, <1>8, <3>1
    <3>3. QED
      BY <1>1, <1>2, <1>3, <2>2, <3>1, <3>2
  <2>3. QED
    BY <2>1, <2>2
<1>13. FreeInv'
  BY <1>2, <1>3 DEF FreeInv
<1>14. QueueInv'
  <2> SUFFICES ASSUME NEW m \in Locks PROVE QueueInv!(m)'
    BY DEF QueueInv
  <2>1. CASE m = l
    BY <1>1, <1>2, <1>3, <2>1, DOMAIN << >> = {}
  <2>2. CASE m # l
    BY <1>1, <1>2, <1>3, <2>2 DEF QueueInv
  <2>3. QED
    BY <2>1, <2>2
<1>15. WaitInv'
  BY <1>1, <1>2, <1>3 DEF WaitInv, Queued
<1>16. QED
  BY <1>2, <1>9, <1>10, <1>11, <1>12, <1>13, <1>14, <1>15

(* Taking the innermost run off a stack.                                   *)
LEMMA PopStack ==
  ASSUME TypeOK, NEW t \in Threads, stack[t] # <<>>,
         stack' = [stack EXCEPT ![t] = Pop(@)]
  PROVE  /\ stack' \in [Threads -> Seq(Frame)]
         /\ Len(stack[t]) \in Nat \ {0}
         /\ Len(stack[t]) \in DOMAIN stack[t]
         /\ DOMAIN stack[t] = 1 .. Len(stack[t])
         /\ Top(t) \in Frame
         /\ \A u \in Threads : \A i \in DOMAIN stack'[u] :
              i \in DOMAIN stack[u] /\ stack'[u][i] = stack[u][i]
         /\ \A u \in Threads : \A i \in DOMAIN stack[u] :
              \/ i \in DOMAIN stack'[u]
              \/ u = t /\ i = Len(stack[t])
         /\ Len(stack[t]) \notin DOMAIN stack'[t]
<1>1. stack[t] \in Seq(Frame) /\ stack'[t] = Pop(stack[t])
  BY DEF TypeOK
<1>2. \A u \in Threads : u # t => stack'[u] = stack[u]
  BY DEF TypeOK
<1>3. /\ Pop(stack[t]) \in Seq(Frame)
      /\ Len(stack[t]) \in Nat \ {0}
      /\ DOMAIN stack[t] = 1 .. Len(stack[t])
      /\ DOMAIN stack'[t] = 1 .. Len(stack[t]) - 1
      /\ \A i \in DOMAIN stack'[t] : stack'[t][i] = stack[t][i]
      /\ Top(t) \in Frame
  BY <1>1, PopFrame DEF Top
<1>4. stack' \in [Threads -> Seq(Frame)]
  BY <1>3 DEF TypeOK
<1>5. QED
  BY <1>2, <1>3, <1>4

(* Giving up a lock for good (last unlock, or a timeout): it is either     *)
(* scheduled for _wake_waiting or, when nobody is queued, forgotten.       *)
LEMMA ReleaseIInv ==
  ASSUME IInv, NEW l \in Locks, InDict(l), ~destroyed[l], ref[l] > 0,
         WakeNext(l),
         ref' = [ref EXCEPT ![l] = 0],
         NEW v \in {"nil", "fired"}, timeout_ts' = [timeout_ts EXCEPT ![l] = v],
         UNCHANGED <<lock_id, thread_queue, destroyed, waiting, woken>>,
         stack' \in [Threads -> Seq(Frame)],
         \A u \in Threads : \A i \in DOMAIN stack'[u] : \A m \in Locks :
            IsLive(u, i, m)' => /\ m # l
                                /\ i \in DOMAIN stack[u]
                                /\ IsLive(u, i, m)
                                /\ stack'[u][i].n = stack[u][i].n,
         \A u \in Threads : \A i \in DOMAIN stack[u] : \A m \in Locks :
            IsLive(u, i, m) /\ m # l => /\ i \in DOMAIN stack'[u]
                                        /\ IsLive(u, i, m)'
                                        /\ stack'[u][i].n = stack[u][i].n,
         NestInv'
  PROVE  IInv'
<1> USE ConstantsAssumption DEF IInv
<1>1. /\ current_thread'[l] = NoThread
      /\ ref'[l] = 0
      /\ timeout_ts'[l] # "armed"
      /\ \A m \in Locks : m # l => /\ current_thread'[m] = current_thread[m]
                                   /\ ref'[m] = ref[m]
                                   /\ timeout_ts'[m] = timeout_ts[m]
  BY DEF WakeNext, TypeOK
<1>2. CASE thread_queue[l] # <<>>
  <2>1. waiting_wake_list' = waiting_wake_list \cup {l} /\ UNCHANGED lock_dict
    BY <1>2 DEF WakeNext, WakeOrFree, Wanted
  <2>2. TypeOK'
    BY <2>1 DEF TypeOK, WakeNext
  <2>3. DictInv'
    BY <2>1 DEF DictInv
  <2>4. LiveInv'
    <3> SUFFICES ASSUME NEW u \in Threads, NEW m \in Locks, NEW i \in DOMAIN stack'[u],
                        IsLive(u, i, m)'
                 PROVE  InDict(m)' /\ current_thread'[m] = u /\ stack'[u][i].n \in 1 .. ref'[m]
      BY DEF LiveInv
    <3>1. m # l /\ i \in DOMAIN stack[u] /\ IsLive(u, i, m) /\ stack'[u][i].n = stack[u][i].n
      OBVIOUS
    <3>2. QED
      BY <1>1, <2>1, <3>1 DEF LiveInv, InDict
  <2>5. OwnerInv'
    <3> SUFFICES ASSUME NEW m \in Locks, NEW u \in Threads, current_thread'[m] = u
                 PROVE  /\ InDict(m)'
                        /\ \A q \in 1 .. ref'[m] : \E i \in DOMAIN stack'[u] :
                             IsLive(u, i, m)' /\ stack'[u][i].n = q
                        /\ ref'[m] = 0 => u \in woken' /\ waiting'[u] = m
      BY DEF OwnerInv
    <3>1. m # l /\ current_thread[m] = u /\ ref'[m] = ref[m]
      BY <1>1
    <3>2. /\ InDict(m)
          /\ \A q \in 1 .. ref[m] : \E i \in DOMAIN stack[u] : IsLive(u, i, m) /\ stack[u][i].n = q
          /\ ref[m] = 0 => u \in woken /\ waiting[u] = m
      BY <3>1 DEF OwnerInv
    <3>0. \A i \in DOMAIN stack[u] : IsLive(u, i, m) =>
             i \in DOMAIN stack'[u] /\ IsLive(u, i, m)' /\ stack'[u][i].n = stack[u][i].n
      BY <3>1
    <3>3. \A q \in 1 .. ref[m] : \E i \in DOMAIN stack'[u] : IsLive(u, i, m)' /\ stack'[u][i].n = q
      BY <3>0, <3>2
    <3>4. QED
      BY <2>1, <3>1, <3>2, <3>3 DEF InDict
  <2>6. FreeInv'
    BY <1>1 DEF FreeInv
  <2>7. QueueInv'
    BY <1>1, <1>2, <2>1 DEF QueueInv, InDict
  <2>8. WaitInv'
    BY <1>1 DEF WaitInv, Queued
  <2>9. QED
    BY <2>2, <2>3, <2>4, <2>5, <2>6, <2>7, <2>8
<1>3. CASE thread_queue[l] = <<>>
  <2>1. /\ UNCHANGED waiting_wake_list
        /\ \/ UNCHANGED lock_dict
           \/ lock_dict' = [lock_dict EXCEPT ![lock_id[l]] = NoLock]
    BY <1>3 DEF WakeNext, WakeOrFree, Wanted
  <2>2. /\ lock_dict' \in [LockIds -> Locks \cup {NoLock}]
        /\ \A id \in LockIds : lock_dict'[id] # NoLock => lock_dict'[id] = lock_dict[id]
        /\ \A m \in Locks : m # l /\ InDict(m) => InDict(m)'
    BY <2>1 DEF TypeOK, InDict
  <2>3. TypeOK'
    BY <2>1, <2>2 DEF TypeOK, WakeNext
  <2>4. DictInv'
    BY <2>2 DEF DictInv
  <2>5. LiveInv'
    <3> SUFFICES ASSUME NEW u \in Threads, NEW m \in Locks, NEW i \in DOMAIN stack'[u],
                        IsLive(u, i, m)'
                 PROVE  InDict(m)' /\ current_thread'[m] = u /\ stack'[u][i].n \in 1 .. ref'[m]
      BY DEF LiveInv
    <3>1. m # l /\ i \in DOMAIN stack[u] /\ IsLive(u, i, m) /\ stack'[u][i].n = stack[u][i].n
      OBVIOUS
    <3>2. QED
      BY <1>1, <2>2, <3>1 DEF LiveInv
  <2>6. OwnerInv'
    <3> SUFFICES ASSUME NEW m \in Locks, NEW u \in Threads, current_thread'[m] = u
                 PROVE  /\ InDict(m)'
                        /\ \A q \in 1 .. ref'[m] : \E i \in DOMAIN stack'[u] :
                             IsLive(u, i, m)' /\ stack'[u][i].n = q
                        /\ ref'[m] = 0 => u \in woken' /\ waiting'[u] = m
      BY DEF OwnerInv
    <3>1. m # l /\ current_thread[m] = u /\ ref'[m] = ref[m]
      BY <1>1
    <3>2. /\ InDict(m)
          /\ \A q \in 1 .. ref[m] : \E i \in DOMAIN stack[u] : IsLive(u, i, m) /\ stack[u][i].n = q
          /\ ref[m] = 0 => u \in woken /\ waiting[u] = m
      BY <3>1 DEF OwnerInv
    <3>0. \A i \in DOMAIN stack[u] : IsLive(u, i, m) =>
             i \in DOMAIN stack'[u] /\ IsLive(u, i, m)' /\ stack'[u][i].n = stack[u][i].n
      BY <3>1
    <3>3. \A q \in 1 .. ref[m] : \E i \in DOMAIN stack'[u] : IsLive(u, i, m)' /\ stack'[u][i].n = q
      BY <3>0, <3>2
    <3>4. QED
      BY <2>2, <3>1, <3>2, <3>3
  <2>7. FreeInv'
    BY <1>1 DEF FreeInv
  <2>8. QueueInv'
    <3> SUFFICES ASSUME NEW m \in Locks PROVE QueueInv!(m)'
      BY DEF QueueInv
    <3>1. CASE m = l
      <4>1. l \notin waiting_wake_list
        BY <1>3 DEF QueueInv
      <4>2. QED
        BY <1>3, <2>1, <3>1, <4>1, DOMAIN << >> = {}
    <3>2. CASE m # l
      BY <1>1, <2>1, <2>2, <3>2 DEF QueueInv
    <3>3. QED
      BY <3>1, <3>2
  <2>9. WaitInv'
    BY <1>1 DEF WaitInv, Queued
  <2>10. QED
    BY <2>3, <2>4, <2>5, <2>6, <2>7, <2>8, <2>9
<1>4. QED
  BY <1>2, <1>3

LEMMA OnTimeoutIInv ==
  ASSUME IInv, NEW l \in Locks, OnTimeout(l)
  PROVE  IInv'
<1> USE ConstantsAssumption DEF IInv
<1>1. /\ timeout_ts[l] = "armed"
      /\ timeout_ts' = [timeout_ts EXCEPT ![l] = "fired"]
      /\ ref' = [ref EXCEPT ![l] = 0]
      /\ WakeNext(l)
      /\ Expropriate(l)
      /\ UNCHANGED <<lock_id, thread_queue, destroyed, waiting, woken>>
  BY DEF OnTimeout
<1>2. ref[l] > 0 /\ ~destroyed[l]
  BY <1>1 DEF FreeInv
<1>3. InDict(l)
  <2>1. ref[l] # 0
    BY <1>2 DEF TypeOK
  <2>2. current_thread[l] \in Threads
    BY <1>2, <2>1 DEF FreeInv, TypeOK
  <2>3. QED
    BY <2>2 DEF OwnerInv
<1>4. /\ stack' \in [Threads -> Seq(Frame)]
      /\ \A t \in Threads :
           /\ DOMAIN stack'[t] = DOMAIN stack[t]
           /\ \A i \in DOMAIN stack[t] :
                /\ stack'[t][i].lock = stack[t][i].lock
                /\ stack'[t][i].n = stack[t][i].n
                /\ stack'[t][i].kind = "live" <=>
                     stack[t][i].kind = "live" /\ stack[t][i].lock # l
  BY <1>1, ExpropriateFrames
<1>5. \A u \in Threads : \A i \in DOMAIN stack'[u] : \A m \in Locks :
        IsLive(u, i, m)' <=> IsLive(u, i, m) /\ m # l
  BY <1>4 DEF IsLive, IsFrame
<1>6. NestInv'
  <2> SUFFICES ASSUME NEW u \in Threads, NEW m \in Locks,
                      NEW i \in DOMAIN stack'[u], NEW j \in DOMAIN stack'[u],
                      IsLive(u, i, m)', IsFrame(u, j, m)', i < j
               PROVE  IsLive(u, j, m)' /\ stack'[u][i].n < stack'[u][j].n
    BY DEF NestInv
  <2>1. /\ IsLive(u, i, m) /\ m # l
        /\ i \in DOMAIN stack[u] /\ j \in DOMAIN stack[u] /\ IsFrame(u, j, m)
    BY <1>4, <1>5 DEF IsFrame
  <2>2. IsLive(u, j, m) /\ stack[u][i].n < stack[u][j].n
    BY <2>1 DEF NestInv
  <2>3. QED
    BY <1>4, <1>5, <2>1, <2>2
<1>7. \A u \in Threads : \A i \in DOMAIN stack'[u] : \A m \in Locks :
        IsLive(u, i, m)' => /\ m # l
                            /\ i \in DOMAIN stack[u]
                            /\ IsLive(u, i, m)
                            /\ stack'[u][i].n = stack[u][i].n
  BY <1>4, <1>5
<1>8. \A u \in Threads : \A i \in DOMAIN stack[u] : \A m \in Locks :
        IsLive(u, i, m) /\ m # l => /\ i \in DOMAIN stack'[u]
                                    /\ IsLive(u, i, m)'
                                    /\ stack'[u][i].n = stack[u][i].n
  BY <1>4, <1>5
<1>9. QED
  BY <1>1, <1>2, <1>3, <1>4, <1>6, <1>7, <1>8, ReleaseIInv

LEMMA UnlockIInv ==
  ASSUME IInv, NEW t \in Threads, Unlock(t)
  PROVE  IInv'
<1> USE ConstantsAssumption DEF IInv
<1>1. PICK k : k = Len(stack[t])
  OBVIOUS
<1>2. PICK l : l = Top(t).lock
  OBVIOUS
<1>3. /\ waiting[t] = NoLock
      /\ stack[t] # <<>>
      /\ stack' = [stack EXCEPT ![t] = Pop(@)]
      /\ UNCHANGED <<lock_id, thread_queue, destroyed, waiting, woken>>
  BY DEF Unlock, Running
<1>4. /\ stack' \in [Threads -> Seq(Frame)]
      /\ k \in Nat \ {0}
      /\ k \in DOMAIN stack[t]
      /\ k \notin DOMAIN stack'[t]
      /\ DOMAIN stack[t] = 1 .. k
      /\ Top(t) = stack[t][k] /\ Top(t) \in Frame
      /\ \A u \in Threads : \A i \in DOMAIN stack'[u] :
           i \in DOMAIN stack[u] /\ stack'[u][i] = stack[u][i]
      /\ \A u \in Threads : \A i \in DOMAIN stack[u] :
           \/ i \in DOMAIN stack'[u]
           \/ u = t /\ i = k
  BY <1>1, <1>3, PopStack DEF Top
<1>5. l \in Locks /\ IsFrame(t, k, l)
  BY <1>2, <1>4 DEF Frame, IsFrame
<1>6. \A u \in Threads : \A i \in DOMAIN stack'[u] : \A m \in Locks :
        (IsLive(u, i, m)' <=> IsLive(u, i, m)) /\ (IsFrame(u, i, m)' <=> IsFrame(u, i, m))
  BY <1>4 DEF IsLive, IsFrame
<1>7. NestInv'
  BY <1>4, <1>6 DEF NestInv
<1>8. CASE Top(t).kind = "free" \/ Lost(t, l)
  <2>1. UNCHANGED <<lock_dict, current_thread, ref, timeout_ts, waiting_wake_list>>
    BY <1>2, <1>8 DEF Unlock
  <2>2. \A m \in Locks : ~IsLive(t, k, m)
    <3> SUFFICES ASSUME NEW m \in Locks, IsLive(t, k, m) PROVE FALSE
      OBVIOUS
    <3>1. m = l /\ Top(t).kind = "live"
      BY <1>4, <1>5 DEF IsLive, IsFrame
    <3>2. current_thread[l] = t
      BY <1>4, <3>1 DEF LiveInv
    <3>3. QED
      BY <1>8, <3>1, <3>2 DEF Lost
  <2>3. TypeOK'
    BY <1>3, <1>4, <2>1 DEF TypeOK
  <2>4. LiveInv'
    BY <1>3, <1>4, <1>6, <2>1 DEF LiveInv, InDict
  <2>5. OwnerInv'
    <3> SUFFICES ASSUME NEW m \in Locks, NEW u \in Threads, current_thread'[m] = u
                 PROVE  /\ InDict(m)'
                        /\ \A q \in 1 .. ref'[m] : \E i \in DOMAIN stack'[u] :
                             IsLive(u, i, m)' /\ stack'[u][i].n = q
                        /\ ref'[m] = 0 => u \in woken' /\ waiting'[u] = m
      BY DEF OwnerInv
    <3>1. /\ InDict(m)
          /\ \A q \in 1 .. ref[m] : \E i \in DOMAIN stack[u] : IsLive(u, i, m) /\ stack[u][i].n = q
          /\ ref[m] = 0 => u \in woken /\ waiting[u] = m
      BY <2>1 DEF OwnerInv
    <3>2. \A i \in DOMAIN stack[u] : IsLive(u, i, m) =>
            i \in DOMAIN stack'[u] /\ IsLive(u, i, m)' /\ stack'[u][i] = stack[u][i]
      BY <1>4, <1>6, <2>2
    <3>3. \A q \in 1 .. ref[m] : \E i \in DOMAIN stack'[u] : IsLive(u, i, m)' /\ stack'[u][i].n = q
      BY <3>1, <3>2
    <3>4. QED
      BY <1>3, <2>1, <3>1, <3>3 DEF InDict
  <2>6. DictInv' /\ FreeInv' /\ QueueInv' /\ WaitInv'
    BY <1>3, <2>1 DEF DictInv, FreeInv, QueueInv, WaitInv, InDict, Queued
  <2>7. QED
    BY <1>7, <2>3, <2>4, <2>5, <2>6
<1>9. CASE Top(t).kind # "free" /\ ~Lost(t, l)
  <2>1. /\ timeout_ts' = [timeout_ts EXCEPT ![l] = "nil"]
        /\ ref' = [ref EXCEPT ![l] = @ - 1]
        /\ IF ref[l] = 1 THEN WakeNext(l)
                         ELSE UNCHANGED <<lock_dict, current_thread, waiting_wake_list>>
    BY <1>2, <1>9 DEF Unlock
  <2>2. /\ current_thread[l] = t
        /\ InDict(l)
        /\ \A q \in 1 .. ref[l] : \E i \in DOMAIN stack[t] : IsLive(t, i, l) /\ stack[t][i].n = q
        /\ ref[l] # 0
        /\ ref[l] \in Nat
    <3>1. current_thread[l] = t /\ ref[l] \in Nat
      BY <1>5, <1>9 DEF Lost, TypeOK
    <3>2. /\ InDict(l)
          /\ \A q \in 1 .. ref[l] : \E i \in DOMAIN stack[t] : IsLive(t, i, l) /\ stack[t][i].n = q
          /\ ref[l] = 0 => waiting[t] = l
      BY <1>5, <3>1 DEF OwnerInv
    <3>3. QED
      BY <1>3, <1>5, <3>1, <3>2
  <2>3. ~destroyed[l]
    BY <1>5, <2>2 DEF InDict, DictInv
  <2>4. IsLive(t, k, l) /\ stack[t][k].n = ref[l]
    <3>1. ref[l] \in 1 .. ref[l]
      BY <2>2
    <3>2. PICK i \in DOMAIN stack[t] : IsLive(t, i, l) /\ stack[t][i].n = ref[l]
      BY <2>2, <3>1
    <3>3. i = k \/ i < k
      BY <1>4
    <3>4. IsLive(t, k, l) /\ (i # k => ref[l] < stack[t][k].n)
      BY <1>4, <1>5, <3>2, <3>3 DEF NestInv
    <3>5. stack[t][k].n \in 1 .. ref[l]
      BY <1>4, <1>5, <3>4 DEF LiveInv
    <3>6. QED
      BY <2>2, <3>2, <3>4, <3>5
  <2>5. \A u \in Threads : \A i \in DOMAIN stack'[u] :
          IsLive(u, i, l) => u = t /\ stack[u][i].n \in 1 .. ref[l] - 1
    <3> SUFFICES ASSUME NEW u \in Threads, NEW i \in DOMAIN stack'[u], IsLive(u, i, l)
                 PROVE  u = t /\ stack[u][i].n \in 1 .. ref[l] - 1
      OBVIOUS
    <3>1. i \in DOMAIN stack[u] /\ u = t /\ stack[u][i].n \in 1 .. ref[l]
      BY <1>4, <1>5, <2>2 DEF LiveInv
    <3>2. i < k
      BY <1>4, <3>1
    <3>3. stack[t][i].n < stack[t][k].n
      BY <1>4, <1>5, <3>1, <3>2 DEF NestInv
    <3>4. QED
      BY <2>2, <2>4, <3>1, <3>3
  <2>6. \A u \in Threads : \A i \in DOMAIN stack[u] : \A m \in Locks :
          IsLive(u, i, m) /\ (m # l \/ stack[u][i].n # ref[l]) =>
            i \in DOMAIN stack'[u] /\ IsLive(u, i, m)' /\ stack'[u][i] = stack[u][i]
    <3>1. \A m \in Locks : IsLive(t, k, m) => m = l
      BY <1>5 DEF IsLive, IsFrame
    <3>2. QED
      BY <1>4, <1>6, <2>4, <3>1
  <2>7. CASE ref[l] = 1
    <3>1. ref' = [ref EXCEPT ![l] = 0] /\ WakeNext(l) /\ ref[l] > 0
      BY <2>1, <2>7 DEF TypeOK
    <3>2. \A u \in Threads : \A i \in DOMAIN stack'[u] : ~IsLive(u, i, l)
      BY <2>5, <2>7
    <3>3. \A u \in Threads : \A i \in DOMAIN stack'[u] : \A m \in Locks :
            IsLive(u, i, m)' => /\ m # l
                                /\ i \in DOMAIN stack[u]
                                /\ IsLive(u, i, m)
                                /\ stack'[u][i].n = stack[u][i].n
      BY <1>4, <1>6, <3>2
    <3>4. \A u \in Threads : \A i \in DOMAIN stack[u] : \A m \in Locks :
            IsLive(u, i, m) /\ m # l => /\ i \in DOMAIN stack'[u]
                                        /\ IsLive(u, i, m)'
                                        /\ stack'[u][i].n = stack[u][i].n
      BY <2>6
    <3>5. QED
      BY <1>3, <1>4, <1>5, <1>7, <2>1, <2>2, <2>3, <3>1, <3>3, <3>4, ReleaseIInv
  <2>8. CASE ref[l] # 1
    <3>1. UNCHANGED <<lock_dict, current_thread, waiting_wake_list>>
      BY <2>1, <2>8
    <3>2. /\ ref'[l] = ref[l] - 1 /\ ref'[l] \in Nat \ {0}
          /\ \A m \in Locks : m # l => ref'[m] = ref[m]
          /\ \A m \in Locks : timeout_ts'[m] = "armed" => m # l /\ timeout_ts[m] = "armed"
      BY <1>5, <2>1, <2>2, <2>8 DEF TypeOK
    <3>3. TypeOK'
      <4>1. ref' \in [Locks -> Nat] /\ timeout_ts' \in [Locks -> {"nil", "armed", "fired"}]
        BY <1>5, <2>1, <3>2 DEF TypeOK
      <4>2. QED
        BY <1>3, <1>4, <3>1, <4>1 DEF TypeOK
    <3>4. LiveInv'
      <4> SUFFICES ASSUME NEW u \in Threads, NEW m \in Locks, NEW i \in DOMAIN stack'[u],
                          IsLive(u, i, m)'
                   PROVE  InDict(m)' /\ current_thread'[m] = u /\ stack'[u][i].n \in 1 .. ref'[m]
        BY DEF LiveInv
      <4>1. i \in DOMAIN stack[u] /\ IsLive(u, i, m) /\ stack'[u][i] = stack[u][i]
        BY <1>4, <1>6
      <4>2. InDict(m) /\ current_thread[m] = u /\ stack[u][i].n \in 1 .. ref[m]
        BY <4>1 DEF LiveInv
      <4>3. InDict(m)' /\ current_thread'[m] = u
        BY <1>3, <3>1, <4>2 DEF InDict
      <4>4. stack'[u][i].n \in 1 .. ref'[m]
        BY <2>5, <3>2, <4>1, <4>2
      <4>5. QED
        BY <4>3, <4>4
    <3>5. OwnerInv'
      <4> SUFFICES ASSUME NEW m \in Locks, NEW u \in Threads, current_thread'[m] = u
                   PROVE  /\ InDict(m)'
                          /\ \A q \in 1 .. ref'[m] : \E i \in DOMAIN stack'[u] :
                               IsLive(u, i, m)' /\ stack'[u][i].n = q
                          /\ ref'[m] = 0 => u \in woken' /\ waiting'[u] = m
        BY DEF OwnerInv
      <4>1. /\ InDict(m)
            /\ \A q \in 1 .. ref[m] : \E i \in DOMAIN stack[u] : IsLive(u, i, m) /\ stack[u][i].n = q
            /\ ref[m] = 0 => u \in woken /\ waiting[u] = m
        BY <3>1 DEF OwnerInv
      <4>2. InDict(m)' /\ (ref'[m] = 0 => u \in woken' /\ waiting'[u] = m)
        BY <1>3, <3>1, <3>2, <4>1 DEF InDict
      <4>3. ASSUME NEW q \in 1 .. ref'[m]
            PROVE  \E i \in DOMAIN stack'[u] : IsLive(u, i, m)' /\ stack'[u][i].n = q
        <5>1. q \in 1 .. ref[m] /\ (m = l => q # ref[l])
          BY <2>2, <3>2
        <5>2. PICK i \in DOMAIN stack[u] : IsLive(u, i, m) /\ stack[u][i].n = q
          BY <4>1, <5>1
        <5>3. QED
          BY <2>6, <5>1, <5>2
      <4>4. QED
        BY <4>2, <4>3
    <3>6. FreeInv'
      <4>1. current_thread'[l] # NoThread
        BY <2>2, <3>1
      <4>2. QED
        BY <1>3, <3>1, <3>2, <4>1 DEF FreeInv
    <3>7. WaitInv'
      <4>1. \A u \in woken : waiting[u] # l
        BY <1>5, <2>2, <2>3 DEF WaitInv, TypeOK
      <4>2. QED
        BY <1>3, <3>1, <3>2, <4>1 DEF WaitInv, Queued, TypeOK
    <3>8. DictInv' /\ QueueInv'
      BY <1>3, <3>1 DEF DictInv, QueueInv, InDict
    <3>9. QED
      BY <1>7, <3>3, <3>4, <3>5, <3>6, <3>7, <3>8
  <2>9. QED
    BY <2>7, <2>8
<1>10. QED
  BY <1>8, <1>9

LEMMA WakeWaitingIInv ==
  ASSUME IInv, WakeWaiting
  PROVE  IInv'
<1> USE ConstantsAssumption DEF IInv
<1> DEFINE granted == {l \in waiting_wake_list : Grantable(l)}
           h(l) == Head(thread_queue[l])
<1>1. /\ waiting_wake_list' = {}
      /\ current_thread' = [l \in Locks |-> IF l \in granted THEN h(l) ELSE current_thread[l]]
      /\ thread_queue' = [l \in Locks |-> IF l \in granted THEN Tail(thread_queue[l])
                                                           ELSE thread_queue[l]]
      /\ woken' = woken \cup {t \in Threads : waiting[t] # NoLock /\ \E l \in granted : t = h(l)}
      /\ UNCHANGED <<lock_dict, lock_id, ref, destroyed, timeout_ts, stack, waiting>>
  BY DEF WakeWaiting
<1>2. \A l \in granted :
        /\ l \in Locks
        /\ l \in waiting_wake_list
        /\ current_thread[l] = NoThread
        /\ thread_queue[l] # <<>>
        /\ ~destroyed[l]
        /\ ref[l] = 0
  BY DEF Grantable, TypeOK, QueueInv, FreeInv
<1>3. \A l \in Locks :
        /\ l \in waiting_wake_list /\ thread_queue[l] # <<>> /\ current_thread[l] = NoThread
             => l \in granted
  BY DEF Grantable
<1> HIDE DEF granted
<1>4. \A l \in granted :
        /\ 1 \in DOMAIN thread_queue[l]
        /\ h(l) = thread_queue[l][1] /\ h(l) \in Threads
        /\ Tail(thread_queue[l]) \in Seq(Threads)
        /\ \A i \in DOMAIN Tail(thread_queue[l]) :
             /\ i + 1 \in DOMAIN thread_queue[l]
             /\ i + 1 # 1
             /\ Tail(thread_queue[l])[i] = thread_queue[l][i + 1]
             /\ \A j \in DOMAIN Tail(thread_queue[l]) : i # j => i + 1 # j + 1
        /\ \A i \in DOMAIN thread_queue[l] :
             i = 1 \/ \E j \in DOMAIN Tail(thread_queue[l]) :
                        Tail(thread_queue[l])[j] = thread_queue[l][i]
  <2> SUFFICES ASSUME NEW l \in granted
               PROVE  <1>4!(l)
    OBVIOUS
  <2> DEFINE q == thread_queue[l]
  <2>1. q \in Seq(Threads) /\ q # <<>>
    BY <1>2 DEF TypeOK
  <2>2. Len(q) \in Nat \ {0} /\ DOMAIN q = 1 .. Len(q)
    BY <2>1, EmptySeq, LenProperties
  <2>3. /\ Head(q) \in Threads
        /\ Tail(q) \in Seq(Threads)
        /\ Len(Tail(q)) = Len(q) - 1
        /\ \A i \in 1 .. Len(Tail(q)) : Tail(q)[i] = q[i + 1]
    BY <2>1, HeadTailProperties
  <2>4. DOMAIN Tail(q) = 1 .. Len(q) - 1
    BY <2>3, LenProperties
  <2>5. Head(q) = q[1]
    BY <2>1
  <2> HIDE DEF q
  <2>6. \A i \in DOMAIN q : i = 1 \/ (i - 1 \in DOMAIN Tail(q) /\ Tail(q)[i - 1] = q[i])
    BY <2>2, <2>3, <2>4
  <2>7. \A i \in DOMAIN Tail(q) :
             /\ i + 1 \in DOMAIN q
             /\ i + 1 # 1
             /\ Tail(q)[i] = q[i + 1]
             /\ \A j \in DOMAIN Tail(q) : i # j => i + 1 # j + 1
    BY <2>2, <2>3, <2>4
  <2>8. 1 \in DOMAIN q
    BY <2>2
  <2>9. QED
    BY <2>3, <2>5, <2>6, <2>7, <2>8 DEF q
<1>5. \A l \in granted : /\ InDict(l)
                         /\ waiting[h(l)] = l
                         /\ h(l) \notin woken
  BY <1>2, <1>4 DEF QueueInv
<1> HIDE DEF h
<1>6. /\ \A l \in granted : current_thread'[l] = h(l) /\ thread_queue'[l] = Tail(thread_queue[l])
      /\ \A l \in Locks : l \notin granted => /\ current_thread'[l] = current_thread[l]
                                              /\ thread_queue'[l] = thread_queue[l]
  BY <1>1, <1>2
<1>7. /\ \A l \in granted : h(l) \in woken'
      /\ \A t \in Threads : t \in woken' <=> t \in woken \/ (waiting[t] \in granted /\ t = h(waiting[t]))
  <2>1. \A l \in granted : l # NoLock
    BY <1>2
  <2>2. QED
    BY <1>1, <1>4, <1>5, <2>1
<1>8. TypeOK'
  <2>1. /\ thread_queue' \in [Locks -> Seq(Threads)]
        /\ current_thread' \in [Locks -> Threads \cup {NoThread}]
    BY <1>1, <1>4 DEF TypeOK
  <2>2. QED
    BY <1>1, <2>1 DEF TypeOK
<1>9. LiveInv'
  <2> SUFFICES ASSUME NEW u \in Threads, NEW m \in Locks, NEW i \in DOMAIN stack[u],
                      IsLive(u, i, m)
               PROVE  InDict(m)' /\ current_thread'[m] = u /\ stack'[u][i].n \in 1 .. ref'[m]
    BY <1>1 DEF LiveInv, IsLive, IsFrame
  <2>1. InDict(m) /\ current_thread[m] = u /\ stack[u][i].n \in 1 .. ref[m]
    BY DEF LiveInv
  <2>2. m \notin granted
    BY <1>2, <2>1
  <2>3. QED
    BY <1>1, <1>6, <2>1, <2>2 DEF InDict
<1>10. OwnerInv'
  <2> SUFFICES ASSUME NEW m \in Locks, NEW u \in Threads, current_thread'[m] = u
               PROVE  /\ InDict(m)'
                      /\ \A q \in 1 .. ref'[m] : \E i \in DOMAIN stack'[u] :
                           IsLive(u, i, m)' /\ stack'[u][i].n = q
                      /\ ref'[m] = 0 => u \in woken' /\ waiting'[u] = m
    BY DEF OwnerInv
  <2>1. CASE m \in granted
    <3>1. u = h(m) /\ ref'[m] = 0
      BY <1>1, <1>2, <1>6, <2>1
    <3>2. QED
      BY <1>1, <1>5, <1>7, <2>1, <3>1 DEF InDict
  <2>2. CASE m \notin granted
    BY <1>1, <1>6, <1>7, <2>2 DEF OwnerInv, InDict, IsLive, IsFrame
  <2>3. QED
    BY <2>1, <2>2
<1>11. DictInv' /\ NestInv'
  BY <1>1 DEF DictInv, NestInv, IsLive, IsFrame
<1>12. FreeInv'
  BY <1>1, <1>2, <1>6 DEF FreeInv
<1>13. QueueInv'
  <2> SUFFICES ASSUME NEW m \in Locks PROVE QueueInv!(m)'
    BY DEF QueueInv
  <2>1. QueueInv!(m)
    BY DEF QueueInv
  <2>2. \A i \in DOMAIN thread_queue[m] : thread_queue[m][i] \in Threads
    BY ElementOfSeq, LenProperties DEF TypeOK
  <2>3. CASE m \in granted
    <3>a. thread_queue'[m] = Tail(thread_queue[m])
      BY <1>6, <2>3
    <3>1. \A i \in DOMAIN thread_queue'[m] :
            /\ InDict(m)
            /\ waiting[thread_queue'[m][i]] = m
            /\ thread_queue'[m][i] \in Threads
            /\ thread_queue'[m][i] \notin woken
            /\ thread_queue'[m][i] # h(m)
      BY <1>2, <1>4, <2>1, <2>2, <2>3, <3>a
    <3>2. \A i, j \in DOMAIN thread_queue'[m] :
            i # j => thread_queue'[m][i] # thread_queue'[m][j]
      <4> SUFFICES ASSUME NEW i \in DOMAIN thread_queue'[m], NEW j \in DOMAIN thread_queue'[m],
                          i # j
                   PROVE  thread_queue'[m][i] # thread_queue'[m][j]
        OBVIOUS
      <4>1. i + 1 \in DOMAIN thread_queue[m] /\ j + 1 \in DOMAIN thread_queue[m] /\ i + 1 # j + 1
        BY <1>4, <2>3, <3>a
      <4>2. thread_queue[m][i + 1] # thread_queue[m][j + 1]
        BY <1>2, <2>1, <2>3, <4>1
      <4>3. QED
        BY <1>4, <2>3, <3>a, <4>2
    <3>3. current_thread'[m] # NoThread
      BY <1>4, <1>6, <2>3
    <3>4. \A i \in DOMAIN thread_queue'[m] : thread_queue'[m][i] \notin woken'
      BY <1>7, <3>1
    <3>5. QED
      BY <1>1, <3>1, <3>2, <3>3, <3>4 DEF InDict
  <2>4. CASE m \notin granted
    <3>1. \A i \in DOMAIN thread_queue[m] : ~destroyed[m] => thread_queue[m][i] \notin woken'
      BY <1>7, <2>1, <2>2, <2>4
    <3>2. thread_queue[m] # <<>> /\ ~destroyed[m] => current_thread[m] # NoThread
      BY <1>3, <2>1, <2>4
    <3>3. QED
      BY <1>1, <1>6, <2>1, <2>4, <3>1, <3>2 DEF InDict
  <2>5. QED
    BY <2>3, <2>4
<1>14. WaitInv'
  <2> SUFFICES ASSUME NEW u \in Threads PROVE WaitInv!(u)'
    BY DEF WaitInv
  <2>1. WaitInv!(u)
    BY DEF WaitInv
  <2>2. waiting'[u] = waiting[u]
    BY <1>1
  <2>3. CASE u \in woken
    <3>1. waiting[u] \notin granted \/ destroyed[waiting[u]]
      BY <1>2, <2>1, <2>3
    <3>2. u \in woken' /\ waiting[u] \in Locks
      BY <1>7, <2>1, <2>3
    <3>3. QED
      BY <1>1, <1>6, <2>1, <2>2, <2>3, <3>1, <3>2
  <2>4. CASE u \notin woken /\ u \in woken'
    <3>1. waiting[u] \in granted /\ u = h(waiting[u])
      BY <1>7, <2>4
    <3>2. QED
      BY <1>1, <1>2, <1>6, <2>2, <2>4, <3>1
  <2>5. CASE u \notin woken'
    <3>1. u \notin woken
      BY <1>7, <2>5
    <3>2. SUFFICES ASSUME waiting[u] \in Locks
                   PROVE  ~destroyed'[waiting[u]] /\ Queued(u, waiting[u])'
      BY <2>2, <2>5
    <3>3. ~destroyed[waiting[u]] /\ Queued(u, waiting[u])
      BY <2>1, <3>1, <3>2
    <3>4. PICK i \in DOMAIN thread_queue[waiting[u]] : thread_queue[waiting[u]][i] = u
      BY <3>3 DEF Queued
    <3>5. CASE waiting[u] \notin granted
      BY <1>1, <1>6, <3>2, <3>3, <3>4, <3>5 DEF Queued
    <3>6. CASE waiting[u] \in granted
      <4>1. i # 1
        <5>1. thread_queue[waiting[u]][1] = h(waiting[u]) /\ h(waiting[u]) \in woken'
          BY <1>4, <1>7, <3>6
        <5>2. QED
          BY <2>5, <3>4, <5>1
      <4>2. PICK j \in DOMAIN Tail(thread_queue[waiting[u]]) : Tail(thread_queue[waiting[u]])[j] = u
        BY <1>4, <3>4, <3>6, <4>1
      <4>3. thread_queue'[waiting[u]] = Tail(thread_queue[waiting[u]])
        BY <1>6, <3>6
      <4>4. Queued(u, waiting[u])'
        BY <1>1, <4>2, <4>3 DEF Queued
      <4>5. QED
        BY <1>1, <3>3, <4>4
    <3>7. QED
      BY <3>5, <3>6
  <2>6. QED
    BY <2>3, <2>4, <2>5
<1>15. QED
  BY <1>8, <1>9, <1>10, <1>11, <1>12, <1>13, <1>14

LEMMA DestroyIInv ==
  ASSUME IInv, NEW id \in LockIds, Destroy(id)
  PROVE  IInv'
<1> USE ConstantsAssumption DEF IInv
<1>1. PICK l \in Locks : l = lock_dict[id]
  BY DEF Destroy, TypeOK
<1>2. /\ ~destroyed[l]
      /\ l \notin waiting_wake_list
      /\ destroyed' = [destroyed EXCEPT ![l] = TRUE]
      /\ timeout_ts' = [timeout_ts EXCEPT ![l] = "nil"]
      /\ current_thread' = [current_thread EXCEPT ![l] = NoThread]
      /\ woken' = woken \cup {t \in Threads : Queued(t, l)}
      /\ lock_dict' = [lock_dict EXCEPT ![id] = NoLock]
      /\ Expropriate(l)
      /\ UNCHANGED <<lock_id, ref, thread_queue, waiting_wake_list, waiting>>
  BY <1>1 DEF Destroy, Queued
<1>3. lock_id[l] = id /\ InDict(l)
  BY <1>1 DEF DictInv, InDict
<1>4. /\ stack' \in [Threads -> Seq(Frame)]
      /\ \A t \in Threads :
           /\ DOMAIN stack'[t] = DOMAIN stack[t]
           /\ \A i \in DOMAIN stack[t] :
                /\ stack'[t][i].lock = stack[t][i].lock
                /\ stack'[t][i].n = stack[t][i].n
                /\ stack'[t][i].kind = "live" <=>
                     stack[t][i].kind = "live" /\ stack[t][i].lock # l
  BY <1>2, ExpropriateFrames
<1>5. \A u \in Threads : \A i \in DOMAIN stack[u] : \A m \in Locks :
        /\ IsLive(u, i, m)' <=> IsLive(u, i, m) /\ m # l
        /\ IsFrame(u, i, m)' <=> IsFrame(u, i, m)
  BY <1>4 DEF IsLive, IsFrame
<1>6. \A m \in Locks : InDict(m) /\ m # l => InDict(m)'
  <2> SUFFICES ASSUME NEW m \in Locks, InDict(m), m # l PROVE InDict(m)'
    OBVIOUS
  <2>1. lock_id[m] # id
    BY <1>1 DEF InDict
  <2>2. QED
    BY <1>2, <2>1 DEF InDict, TypeOK
<1>7. /\ current_thread'[l] = NoThread /\ destroyed'[l] /\ timeout_ts'[l] = "nil"
      /\ \A m \in Locks : m # l => /\ current_thread'[m] = current_thread[m]
                                   /\ destroyed'[m] = destroyed[m]
                                   /\ timeout_ts'[m] = timeout_ts[m]
  BY <1>2 DEF TypeOK
<1>8. \A t \in Threads : Queued(t, l) => waiting[t] = l
  BY <1>2 DEF QueueInv, Queued
<1>9. TypeOK'
  <2>1. woken' \subseteq Threads
    BY <1>2 DEF TypeOK
  <2>2. QED
    BY <1>2, <1>4, <2>1 DEF TypeOK
<1>10. DictInv'
  <2> SUFFICES ASSUME NEW j \in LockIds, lock_dict'[j] # NoLock
               PROVE  lock_id'[lock_dict'[j]] = j /\ ~destroyed'[lock_dict'[j]]
    BY DEF DictInv
  <2>1. j # id /\ lock_dict'[j] = lock_dict[j] /\ lock_dict[j] \in Locks
    BY <1>2 DEF TypeOK
  <2>2. lock_id[lock_dict[j]] = j /\ ~destroyed[lock_dict[j]]
    BY <2>1 DEF DictInv
  <2>3. lock_dict[j] # l
    BY <1>3, <2>1, <2>2
  <2>4. QED
    BY <1>2, <1>7, <2>1, <2>2, <2>3
<1>11. LiveInv'
  <2> SUFFICES ASSUME NEW u \in Threads, NEW m \in Locks, NEW i \in DOMAIN stack'[u],
                      IsLive(u, i, m)'
               PROVE  InDict(m)' /\ current_thread'[m] = u /\ stack'[u][i].n \in 1 .. ref'[m]
    BY DEF LiveInv
  <2>1. i \in DOMAIN stack[u] /\ IsLive(u, i, m) /\ m # l
    BY <1>4, <1>5
  <2>2. QED
    BY <1>2, <1>4, <1>6, <1>7, <2>1 DEF LiveInv
<1>12. NestInv'
  <2> SUFFICES ASSUME NEW u \in Threads, NEW m \in Locks,
                      NEW i \in DOMAIN stack'[u], NEW j \in DOMAIN stack'[u],
                      IsLive(u, i, m)', IsFrame(u, j, m)', i < j
               PROVE  IsLive(u, j, m)' /\ stack'[u][i].n < stack'[u][j].n
    BY DEF NestInv
  <2>1. /\ i \in DOMAIN stack[u] /\ j \in DOMAIN stack[u]
        /\ IsLive(u, i, m) /\ m # l /\ IsFrame(u, j, m)
    BY <1>4, <1>5
  <2>2. IsLive(u, j, m) /\ stack[u][i].n < stack[u][j].n
    BY <2>1 DEF NestInv
  <2>3. QED
    BY <1>4, <1>5, <2>1, <2>2
<1>13. OwnerInv'
  <2> SUFFICES ASSUME NEW m \in Locks, NEW u \in Threads, current_thread'[m] = u
               PROVE  /\ InDict(m)'
                      /\ \A q \in 1 .. ref'[m] : \E i \in DOMAIN stack'[u] :
                           IsLive(u, i, m)' /\ stack'[u][i].n = q
                      /\ ref'[m] = 0 => u \in woken' /\ waiting'[u] = m
    BY DEF OwnerInv
  <2>1. m # l /\ current_thread[m] = u
    BY <1>7
  <2>2. /\ InDict(m)
        /\ \A q \in 1 .. ref[m] : \E i \in DOMAIN stack[u] : IsLive(u, i, m) /\ stack[u][i].n = q
        /\ ref[m] = 0 => u \in woken /\ waiting[u] = m
    BY <2>1 DEF OwnerInv
  <2>3. \A i \in DOMAIN stack[u] : IsLive(u, i, m) =>
           i \in DOMAIN stack'[u] /\ IsLive(u, i, m)' /\ stack'[u][i].n = stack[u][i].n
    BY <1>4, <1>5, <2>1
  <2>4. \A q \in 1 .. ref[m] : \E i \in DOMAIN stack'[u] : IsLive(u, i, m)' /\ stack'[u][i].n = q
    BY <2>2, <2>3
  <2>5. QED
    BY <1>2, <1>6, <2>1, <2>2, <2>4
<1>14. FreeInv'
  BY <1>2, <1>7 DEF FreeInv
<1>15. QueueInv'
  <2> SUFFICES ASSUME NEW m \in Locks PROVE QueueInv!(m)'
    BY DEF QueueInv
  <2>1. QueueInv!(m)
    BY DEF QueueInv
  <2>2. CASE m = l
    BY <1>2, <1>7, <2>2
  <2>3. CASE m # l
    <3>1. \A i \in DOMAIN thread_queue[m] : thread_queue[m][i] \in Threads
      BY ElementOfSeq, LenProperties DEF TypeOK
    <3>2. \A i \in DOMAIN thread_queue[m] : ~destroyed[m] => thread_queue[m][i] \notin woken'
      BY <1>2, <1>8, <2>1, <2>3, <3>1
    <3>3. QED
      BY <1>2, <1>6, <1>7, <2>1, <2>3, <3>2
  <2>4. QED
    BY <2>2, <2>3
<1>16. WaitInv'
  <2> SUFFICES ASSUME NEW u \in Threads PROVE WaitInv!(u)'
    BY DEF WaitInv
  <2>1. WaitInv!(u)
    BY DEF WaitInv
  <2>2. waiting'[u] = waiting[u] /\ (u \in woken' <=> u \in woken \/ Queued(u, l))
    BY <1>2
  <2>3. Queued(u, waiting[u])' <=> Queued(u, waiting[u])
    BY <1>2 DEF Queued
  <2>4. CASE waiting[u] = l
    BY <1>7, <2>1, <2>2, <2>4
  <2>5. CASE waiting[u] # l
    BY <1>2, <1>7, <1>8, <2>1, <2>2, <2>3, <2>5
  <2>6. QED
    BY <2>4, <2>5
<1>17. QED
  BY <1>9, <1>10, <1>11, <1>12, <1>13, <1>14, <1>15, <1>16

-----------------------------------------------------------------------------
(* IInv is inductive.                                                      *)
LEMMA NextIInv == IInv /\ [Next]_vars => IInv'
<1> SUFFICES ASSUME IInv, [Next]_vars PROVE IInv'
  OBVIOUS
<1>1. ASSUME NEW id \in LockIds, NEW l \in Locks, New(id, l) PROVE IInv'
  BY <1>1, NewIInv
<1>2. ASSUME NEW t \in Threads, NEW id \in LockIds, NEW l \in Locks, RunFresh(t, id, l)
      PROVE  IInv'
  BY <1>2, RunFreshIInv
<1>3. ASSUME NEW t \in Threads, NEW id \in LockIds, RunEnter(t, id) PROVE IInv'
  BY <1>3, RunEnterIInv
<1>4. ASSUME NEW t \in Threads, NEW id \in LockIds, RunWait(t, id) PROVE IInv'
  BY <1>4, RunWaitIInv
<1>5. ASSUME NEW t \in Threads, Resume(t) PROVE IInv'
  BY <1>5, ResumeIInv
<1>6. ASSUME NEW t \in Threads, Unlock(t) PROVE IInv'
  BY <1>6, UnlockIInv
<1>7. CASE WakeWaiting
  BY <1>7, WakeWaitingIInv
<1>8. ASSUME NEW l \in Locks, OnTimeout(l) PROVE IInv'
  BY <1>8, OnTimeoutIInv
<1>9. ASSUME NEW id \in LockIds, Destroy(id) PROVE IInv'
  BY <1>9, DestroyIInv
<1>10. CASE UNCHANGED vars
  BY <1>10 DEF vars, lockVars, IInv, TypeOK, DictInv, LiveInv, NestInv, OwnerInv, FreeInv,
     QueueInv, WaitInv, IsLive, IsFrame, InDict, Queued
<1>11. QED
  BY <1>1, <1>2, <1>3, <1>4, <1>5, <1>6, <1>7, <1>8, <1>9, <1>10 DEF Next

LEMMA Invariance == Spec => []IInv
<1>1. Init => IInv
  BY InitIInv
<1>2. IInv /\ [Next]_vars => IInv'
  BY NextIInv
<1>3. QED
  BY <1>1, <1>2, PTL DEF Spec

(* The state of the locks always has its type; ref in particular is never  *)
(* negative, however timeouts and unlocks are interleaved.                 *)
THEOREM TypeCorrect == Spec => []TypeOK
<1>1. IInv => TypeOK
  BY DEF IInv
<1>2. QED
  BY <1>1, Invariance, PTL

(* For any number of coroutines, locks and names: two coroutines are never *)
(* both inside a run of the same lock_id with the lock still theirs.       *)
THEOREM Exclusion == Spec => []MutualExclusion
<1>1. IInv => MutualExclusion
  <2> SUFFICES ASSUME IInv,
                      NEW t \in Threads, NEW u \in Threads, NEW l \in Locks, NEW m \in Locks,
                      Holds(t, l), Holds(u, m), lock_id[l] = lock_id[m]
               PROVE  t = u
    BY DEF MutualExclusion
  <2>1. PICK i \in DOMAIN stack[t] : IsLive(t, i, l)
    BY DEF Holds, IsLive, IsFrame
  <2>2. PICK j \in DOMAIN stack[u] : IsLive(u, j, m)
    BY DEF Holds, IsLive, IsFrame
  <2>3. /\ InDict(l) /\ current_thread[l] = t
        /\ InDict(m) /\ current_thread[m] = u
    BY <2>1, <2>2 DEF IInv, LiveInv
  <2>4. l = m
    BY <2>3 DEF InDict
  <2>5. QED
    BY <2>3, <2>4
<1>2. QED
  BY <1>1, Invariance, PTL

(* The assertion in LockCls:_wait never fails.                             *)
THEOREM AssertionHolds == Spec => []WaitAssertion
<1>1. IInv => WaitAssertion
  <2> SUFFICES ASSUME IInv, NEW t \in woken
               PROVE  ref[waiting[t]] = 0 \/ destroyed[waiting[t]]
    BY DEF WaitAssertion
  <2>1. t \in Threads /\ waiting[t] \in Locks
    BY DEF IInv, TypeOK, WaitInv
  <2>2. QED
    BY <2>1 DEF IInv, WaitInv
<1>2. QED
  BY <1>1, Invariance, PTL

(* A waiter is woken, or queued at the lock newcomers find, which has an   *)
(* owner or is due for _wake_waiting.                                      *)
THEOREM WaitersKept == Spec => []NoLostWaiter
<1>1. IInv => NoLostWaiter
  <2> SUFFICES ASSUME IInv, NEW t \in Threads, waiting[t] # NoLock, t \notin woken
               PROVE  /\ \E i \in DOMAIN thread_queue[waiting[t]] :
                            thread_queue[waiting[t]][i] = t
                      /\ lock_dict[lock_id[waiting[t]]] = waiting[t]
                      /\ current_thread[waiting[t]] # NoThread \/ waiting[t] \in waiting_wake_list
    BY DEF NoLostWaiter
  <2>1. waiting[t] \in Locks
    BY DEF IInv, TypeOK
  <2>2. ~destroyed[waiting[t]] /\ Queued(t, waiting[t])
    BY <2>1 DEF IInv, WaitInv
  <2>3. PICK i \in DOMAIN thread_queue[waiting[t]] : thread_queue[waiting[t]][i] = t
    BY <2>2 DEF Queued
  <2>4. InDict(waiting[t])
    BY <2>1, <2>2, <2>3 DEF IInv, QueueInv
  <2>5. thread_queue[waiting[t]] # <<>>
    BY <2>3, DOMAIN << >> = {}
  <2>6. current_thread[waiting[t]] # NoThread \/ waiting[t] \in waiting_wake_list
    BY <2>1, <2>2, <2>5 DEF IInv, QueueInv
  <2>7. QED
    BY <2>3, <2>4, <2>6 DEF InDict
<1>2. QED
  BY <1>1, Invariance, PTL

(* The owner of a usable lock is inside a run of it or about to resume.    *)
THEOREM OwnersPresent == Spec => []OwnerPresent
<1>1. IInv => OwnerPresent
  <2> SUFFICES ASSUME IInv, NEW l \in Locks, NEW t \in Threads, current_thread[l] = t
               PROVE  Holds(t, l) \/ (t \in woken /\ waiting[t] = l)
    BY DEF OwnerPresent
  <2>1. /\ \A k \in 1 .. ref[l] : \E i \in DOMAIN stack[t] : IsLive(t, i, l) /\ stack[t][i].n = k
        /\ ref[l] = 0 => t \in woken /\ waiting[t] = l
        /\ ref[l] \in Nat
    BY DEF IInv, OwnerInv, TypeOK
  <2>2. CASE ref[l] = 0
    BY <2>1, <2>2
  <2>3. CASE ref[l] # 0
    <3>1. 1 \in 1 .. ref[l]
      BY <2>1, <2>3
    <3>2. PICK i \in DOMAIN stack[t] : IsLive(t, i, l)
      BY <2>1, <3>1
    <3>3. QED
      BY <3>2 DEF Holds, IsLive, IsFrame
  <2>4. QED
    BY <2>2, <2>3
<1>2. QED
  BY <1>1, Invariance, PTL
=============================================================================
