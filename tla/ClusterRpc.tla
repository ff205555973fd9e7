----------------------------- MODULE ClusterRpc -----------------------------
(***************************************************************************)
(* Calls between two nodes through their clusterd services.  A node sends  *)
(* over a connection of its own to each other node (NodeCls) and receives  *)
(* over the connections the others opened (ConnCls), so a call and its     *)
(* answer use different connections.  A connection may break with messages *)
(* in it, a node may crash and start again.                                *)
(* The first message of a connection, show_self, tells the receiver who    *)
(* sends; here a connection carries its pair of nodes.                     *)
(***************************************************************************)
EXTENDS Integers, Sequences, FiniteSets, FiniteSetsExt, SequencesExt

CONSTANTS
  Nodes,
  Calls,           (* numbered in the order in which a node makes them     *)
  Caller, Callee,  (* the nodes of a call                                  *)
  SessionLimit,    (* session ids are below it: 0x7fffffff in the code     *)
  MaxConns,        (* bound: connections a node opens to another           *)
  MaxFaults,       (* bound: connections that break or cannot be made      *)
  Restarting       (* bound: nodes that crash, each once                   *)

ASSUME ClusterRpcAssumption ==
  /\ Calls \subseteq Nat \ {0}
  /\ Caller \in [Calls -> Nodes] /\ Callee \in [Calls -> Nodes]
  /\ \A c \in Calls : Caller[c] # Callee[c]
  /\ SessionLimit \in Nat \ 0..2 /\ MaxConns \in Nat /\ MaxFaults \in Nat
  /\ Restarting \subseteq Nodes

Pairs == {p \in Nodes \X Nodes : p[1] # p[2]}
Conns == Pairs \X (1..MaxConns)
Ids == 1..(SessionLimit - 1)
To(c) == <<Caller[c], Callee[c]>>
Back(c) == <<Callee[c], Caller[c]>>
Message == [kind : {"call", "resp", "err"}, call : Calls, id : Ids]

VARIABLES
  sock,       (* NodeCls.sock_id: the connection a pair sends over, or 0   *)
  connecting, (* pairs whose lock is held by a coroutine that connects     *)
  waiting,    (* messages of coroutines that wait for the connection       *)
  opened,     (* how many connections a pair has opened                    *)
  live,       (* connections whose receiver still reads them               *)
  wire,       (* the messages in them                                      *)
  sessions,   (* NodeCls.session_dict                                      *)
  last_id,    (* NodeCls.last_session_id                                   *)
  running,    (* calls the called service works on                         *)
  state,      (* what the caller of a call has seen                        *)
  result,     (* the call whose result it was given                        *)
  executions, (* how often the service has begun a call                    *)
  lost,       (* history: calls that were, or whose answer was, lost       *)
  faults, crashed

link == <<sock, connecting, waiting, opened>>
net == <<live, wire, faults, lost>>
vars == <<link, net, sessions, last_id, running, state, result, executions, crashed>>

NoCall == 0

TypeOK ==
  /\ sock \in [Pairs -> 0..MaxConns] /\ opened \in [Pairs -> 0..MaxConns]
  /\ connecting \subseteq Pairs
  /\ waiting \in [Pairs -> SUBSET Message]
  /\ live \subseteq Conns /\ wire \in [Conns -> Seq(Message)]
  /\ sessions \in [Pairs -> SUBSET [id : Ids, call : Calls]]
  /\ \A p \in Pairs : \A s, t \in sessions[p] : s.id = t.id => s = t
  /\ last_id \in [Pairs -> Ids]
  /\ running \subseteq [id : Ids, call : Calls]
  /\ state \in [Calls -> {"new", "called", "done", "failed", "gone"}]
  /\ result \in [Calls -> Calls \cup {NoCall}]
  /\ executions \in [Calls -> Nat] /\ lost \subseteq Calls
  /\ faults \in 0..MaxFaults /\ crashed \subseteq Restarting

Init ==
  /\ sock = [p \in Pairs |-> 0] /\ opened = sock /\ connecting = {}
  /\ waiting = [p \in Pairs |-> {}]
  /\ live = {} /\ wire = [c \in Conns |-> <<>>] /\ faults = 0
  /\ sessions = [p \in Pairs |-> {}] /\ last_id = [p \in Pairs |-> 1]
  /\ running = {}
  /\ state = [c \in Calls |-> "new"] /\ result = [c \in Calls |-> NoCall]
  /\ executions = [c \in Calls |-> 0] /\ lost = {} /\ crashed = {}

-----------------------------------------------------------------------------
(* gate_utils.send_sock_data: what goes into a broken connection is lost.  *)
Transmit(p, k, msg) ==
  IF <<p, k>> \in live
  THEN wire' = [wire EXCEPT ![<<p, k>>] = Append(@, msg)] /\ UNCHANGED lost
  ELSE lost' = lost \cup {msg.call} /\ UNCHANGED wire

(* NodeCls._send: without a connection the coroutine goes for the lock.    *)
Send(p, msg) ==
  IF sock[p] # 0
  THEN Transmit(p, sock[p], msg) /\ UNCHANGED waiting
  ELSE waiting' = [waiting EXCEPT ![p] = @ \cup {msg}] /\ UNCHANGED <<wire, lost>>

Used(p) == {s.id : s \in sessions[p]}

(* Mutant: an id that is in use is taken again.                            *)
MutNewId(p) == IF last_id[p] + 1 >= SessionLimit THEN 1 ELSE last_id[p] + 1

(* NodeCls.new_session: the next free id.                                  *)
NewId(p) ==
  LET after(k) == ((last_id[p] - 1 + k) % (SessionLimit - 1)) + 1
  IN after(Min({k \in Ids : after(k) \notin Used(p)}))

(* NodeCls.call and probe                                                  *)
Call(c) ==
  /\ state[c] = "new" /\ Used(To(c)) # Ids
  /\ \A d \in Calls : d < c /\ Caller[d] = Caller[c] => state[d] # "new"
  /\ LET id == NewId(To(c)) IN
       /\ last_id' = [last_id EXCEPT ![To(c)] = id]
       /\ sessions' = [sessions EXCEPT ![To(c)] = @ \cup {[id |-> id, call |-> c]}]
       /\ Send(To(c), [kind |-> "call", call |-> c, id |-> id])
  /\ state' = [state EXCEPT ![c] = "called"]
  /\ UNCHANGED <<sock, connecting, opened, live, faults, running, result, executions, crashed>>

(* Mutant: whoever gets the lock connects.                                 *)
MutMustConnect(p) == TRUE

(* The second check of sock_id, under the lock.                            *)
MustConnect(p) == sock[p] = 0

(* NodeCls.__connect: one of the waiting coroutines has the lock.          *)
Connect(p) ==
  /\ waiting[p] # {} /\ p \notin connecting /\ MustConnect(p) /\ opened[p] < MaxConns
  /\ connecting' = connecting \cup {p}
  /\ UNCHANGED <<sock, waiting, opened, net, sessions, last_id, running, state, result, executions, crashed>>

(* It is connected, and its own message is the first after show_self.      *)
Connected(p) ==
  /\ p \in connecting
  /\ \E msg \in waiting[p] :
       LET k == opened[p] + 1 IN
       /\ opened' = [opened EXCEPT ![p] = k]
       /\ sock' = [sock EXCEPT ![p] = k]
       /\ live' = live \cup {<<p, k>>}
       /\ wire' = [wire EXCEPT ![<<p, k>>] = <<msg>>]
       /\ waiting' = [waiting EXCEPT ![p] = @ \ {msg}]
  /\ connecting' = connecting \ {p}
  /\ UNCHANGED <<faults, lost, sessions, last_id, running, state, result, executions, crashed>>

(* The error reaches the coroutine of the message: a call fails and leaves *)
(* its session behind, an answer is tried once more as an error, an error  *)
(* is given up.                                                            *)
ConnectFails(p) ==
  /\ p \in connecting /\ faults < MaxFaults
  /\ faults' = faults + 1
  /\ \E msg \in waiting[p] :
       LET others == waiting[p] \ {msg}
           again == IF msg.kind = "resp" THEN {[msg EXCEPT !.kind = "err"]} ELSE {}
       IN /\ waiting' = [waiting EXCEPT ![p] = others \cup again]
          /\ state' = IF msg.kind = "call" THEN [state EXCEPT ![msg.call] = "failed"] ELSE state
          /\ lost' = IF msg.kind = "err" THEN lost \cup {msg.call} ELSE lost
  /\ connecting' = connecting \ {p}
  /\ UNCHANGED <<sock, opened, live, wire, sessions, last_id, running, result, executions, crashed>>

(* A coroutine that waited for the lock finds the connection.              *)
SendWaiting(p) ==
  /\ p \notin connecting /\ sock[p] # 0
  /\ \E msg \in waiting[p] :
       /\ waiting' = [waiting EXCEPT ![p] = @ \ {msg}]
       /\ Transmit(p, sock[p], msg)
  /\ UNCHANGED <<sock, connecting, opened, live, faults, sessions, last_id, running, state, result, executions, crashed>>

-----------------------------------------------------------------------------
(* ConnCls.on_call: a coroutine calls the service.  When no service has    *)
(* the name, or the caller is in no address book, the error is raised      *)
(* before xpcall and nothing is answered.                                  *)
OnCall(msg) ==
  /\ \/ /\ running' = running \cup {[id |-> msg.id, call |-> msg.call]}
        /\ executions' = [executions EXCEPT ![msg.call] = @ + 1]
        /\ UNCHANGED lost
     \/ /\ lost' = lost \cup {msg.call}
        /\ UNCHANGED <<running, executions>>
  /\ UNCHANGED <<sessions, state, result>>

(* Mutant: an error wakes nobody.                                          *)
MutOnResp(p, msg) ==
  /\ \/ /\ msg.kind = "err" \/ msg.id \notin Used(p)
        /\ UNCHANGED <<sessions, state, result>>
     \/ \E s \in sessions[p] :
          /\ msg.kind = "resp" /\ s.id = msg.id
          /\ sessions' = [sessions EXCEPT ![p] = @ \ {s}]
          /\ state' = [state EXCEPT ![s.call] = "done"]
          /\ result' = [result EXCEPT ![s.call] = msg.call]
  /\ UNCHANGED <<running, executions, lost>>

(* NodeCls.on_call_result: the answer goes to the call of the session with *)
(* that id; without one it is refused ("unknown resp").  wait_session      *)
(* removes the session once more, before anything can take its id again.   *)
OnResp(p, msg) ==
  /\ \/ /\ msg.id \notin Used(p)
        /\ UNCHANGED <<sessions, state, result>>
     \/ \E s \in sessions[p] :
          /\ s.id = msg.id
          /\ sessions' = [sessions EXCEPT ![p] = @ \ {s}]
          /\ state' = [state EXCEPT ![s.call] = "done"]
          /\ result' = [result EXCEPT ![s.call] = msg.call]
  /\ UNCHANGED <<running, executions, lost>>

(* The receiver reads the next message of a connection.                    *)
Receive(p, k) ==
  /\ <<p, k>> \in live /\ wire[<<p, k>>] # <<>>
  /\ wire' = [wire EXCEPT ![<<p, k>>] = Tail(@)]
  /\ LET msg == Head(wire[<<p, k>>]) IN
       IF msg.kind = "call" THEN OnCall(msg) ELSE OnResp(<<p[2], p[1]>>, msg)
  /\ UNCHANGED <<link, live, faults, last_id, crashed>>

(* The service returns, or raises an error.                                *)
Answer(r) ==
  /\ r \in running
  /\ running' = running \ {r}
  /\ \E kind \in {"resp", "err"} : Send(Back(r.call), [kind |-> kind, call |-> r.call, id |-> r.id])
  /\ UNCHANGED <<sock, connecting, opened, live, faults, sessions, last_id, state, result, executions, crashed>>

-----------------------------------------------------------------------------
CallsIn(messages) == {msg.call : msg \in messages}

(* A connection faults: what is in it is lost, both ends learn it later.   *)
Break(p, k) ==
  /\ <<p, k>> \in live /\ faults < MaxFaults
  /\ faults' = faults + 1
  /\ live' = live \ {<<p, k>>}
  /\ wire' = [wire EXCEPT ![<<p, k>>] = <<>>]
  /\ lost' = lost \cup CallsIn(ToSet(wire[<<p, k>>]))
  /\ UNCHANGED <<link, sessions, last_id, running, state, result, executions, crashed>>

(* Mutant: a pending call is sent again over the next connection.          *)
MutUnsent(p) ==
  {[kind |-> "call", call |-> s.call, id |-> s.id] : s \in {t \in sessions[p] : state[t.call] = "called"}}

(* What NodeCls.on_close sends again of what the connection lost.          *)
Unsent(p) == {}

(* M.on_close_sock, NodeCls.on_close                                       *)
OnClose(p) ==
  /\ sock[p] # 0 /\ <<p, sock[p]>> \notin live
  /\ sock' = [sock EXCEPT ![p] = 0]
  /\ waiting' = [waiting EXCEPT ![p] = @ \cup Unsent(p)]
  /\ UNCHANGED <<connecting, opened, net, sessions, last_id, running, state, result, executions, crashed>>

(* The process of n ends and starts again at the same address: its calls   *)
(* are gone, what it sent before still arrives.                            *)
Restart(n) ==
  /\ n \in Restarting \ crashed
  /\ crashed' = crashed \cup {n}
  /\ LET mine == {p \in Pairs : p[1] = n}
         reset(f, v) == [p \in Pairs |-> IF p \in mine THEN v ELSE f[p]]
         toMe == {c \in Conns : c[1][2] = n}
     IN /\ sock' = reset(sock, 0) /\ waiting' = reset(waiting, {})
        /\ connecting' = connecting \ mine
        /\ sessions' = reset(sessions, {}) /\ last_id' = reset(last_id, 1)
        /\ live' = live \ toMe
        /\ wire' = [c \in Conns |-> IF c \in toMe THEN <<>> ELSE wire[c]]
        /\ lost' = lost \cup CallsIn(UNION {waiting[p] : p \in mine})
                        \cup CallsIn(UNION {ToSet(wire[c]) : c \in toMe})
                        \cup CallsIn({r \in running : Callee[r.call] = n})
  /\ running' = {r \in running : Callee[r.call] # n}
  /\ state' = [c \in Calls |-> IF Caller[c] = n /\ state[c] = "called" THEN "gone" ELSE state[c]]
  /\ UNCHANGED <<opened, faults, result, executions>>

Next ==
  \/ \E c \in Calls : Call(c)
  \/ \E p \in Pairs : \/ Connect(p) \/ Connected(p) \/ ConnectFails(p) \/ SendWaiting(p) \/ OnClose(p)
                      \/ \E k \in 1..MaxConns : Receive(p, k) \/ Break(p, k)
  \/ \E r \in running : Answer(r)
  \/ \E n \in Nodes : Restart(n)

Spec == Init /\ [][Next]_vars

(* Coroutines are resumed, the network delivers what a connection carries  *)
(* and reports one that broke, and the called services return.             *)
FairSpec ==
  /\ Spec
  /\ \A p \in Pairs :
       /\ WF_vars(Connect(p)) /\ WF_vars(Connected(p) \/ ConnectFails(p))
       /\ WF_vars(SendWaiting(p)) /\ WF_vars(OnClose(p))
       /\ \A k \in 1..MaxConns : WF_vars(Receive(p, k))
  /\ \A c \in Calls, i \in Ids : WF_vars(Answer([id |-> i, call |-> c]))

-----------------------------------------------------------------------------
(* An answer reaches the call it was made for, also when the session ids   *)
(* have come round and while answers to other calls are outstanding, as    *)
(* long as the caller's process is the first: the ids of a new one begin   *)
(* anew, and an answer to the old one ends a call of the new one.          *)
AnswersMatch == \A c \in Calls : Caller[c] \notin crashed => result[c] \in {NoCall, c}

(* A service never executes a call twice, however often connections break. *)
ExecutedOnce == \A c \in Calls : executions[c] <= 1

(* A node keeps one connection to another: one that it opened and that     *)
(* still works is the one it sends over, unless it has crashed since.      *)
OneConnection ==
  \A p \in Pairs, k \in 1..MaxConns : <<p, k>> \in live /\ p[1] \notin crashed => sock[p] = k

(* Who has made a call gets an answer or an error, whatever happens to     *)
(* other calls, unless this call or its answer was lost: nobody answers a  *)
(* call to a service that is not there (clusterd_utils.lua:328), and who   *)
(* waits over a connection or for a process that ended is never told; then *)
(* the caller waits for ever, also agent_utils.shutdown.                   *)
CallsEnd == \A c \in Calls : state[c] = "called" ~> (state[c] # "called" \/ c \in lost)

=============================================================================
