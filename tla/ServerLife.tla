----------------------------- MODULE ServerLife -----------------------------
(***************************************************************************)
(* The processes of one game server and the scripts that start and stop    *)
(* them: server_mgr.py, start_server.py, shutdown_server.py and            *)
(* _shut_utils.py, the files under status/ through which they talk to      *)
(* reload_watcher, the launchers of the nodes game, chat and dynasty, and  *)
(* the shutdown of the game node, which shuts the other two down.          *)
(***************************************************************************)
EXTENDS Naturals, FiniteSets

CONSTANTS
  Operators,   (* people who run a script                                  *)
  Invs,        (* calls of agent_utils.shutdown that may overlap           *)
  Crashes,     (* nodes that may crash                                     *)
  Slow,        (* nodes whose second process may outlive the first         *)
  Patient      (* operators who never interrupt a script                   *)

(* agent_utils._agent_correlate_node                                       *)
Others == {"chat", "dynasty"}
Nodes == {"game"} \cup Others

ASSUME ServerLifeAssumption ==
  /\ Crashes \subseteq Nodes /\ Slow \subseteq Nodes /\ Patient \subseteq Operators
  /\ Invs # {}

VARIABLES
  proc,      (* how far the process of each node is                        *)
  dup,       (* nodes with a second process that is about to fail          *)
  starting,  (* the nodes whose file .starting exists                      *)
  shuting,   (* game.shuting: its time is new, or the one handled last     *)
  reported,  (* _agent_correlate_node of the running game process          *)
  due,       (* data that a shutdown has found unsaved, and not saved yet  *)
  inv,       (* the overlapping shutdowns of the game process              *)
  asked,     (* lc_do_shutdown calls waiting in each other node            *)
  op,        (* what each operator's script does                           *)
  calm       (* history: nothing has crashed, no script was interrupted    *)

vars == <<proc, dup, starting, shuting, reported, due, inv, asked, op, calm>>

(* down; boot: spawned; watch: reload_watcher runs; agent: .agent is       *)
(* registered and waits for the others; gate: players can come in, but     *)
(* child_marry and the shutdown callback are still to follow; ready: the   *)
(* callback is registered, the service of the node is not there yet or is  *)
(* being initialised; service: it has the handle lc_x_shutdown; up;        *)
(* dying: the abort timer is set.                                          *)
Stage == [n \in Nodes |-> {"down", "boot", "up", "dying"} \cup
                          IF n = "game" THEN {"watch", "agent", "gate"} ELSE {"ready", "service"}]

(* What players change, from the opening of the gate to the abort: roles   *)
(* stands for all that agent_utils.shutdown saves, marry for the database  *)
(* of .child_marry, which is in the game node, too, dynasty for that of    *)
(* .dynasty.                                                               *)
Data == {"roles", "marry", "dynasty"}
Home(d) == IF d = "dynasty" THEN "dynasty" ELSE "game"

NoInv == [pc |-> "idle", todo |-> {}, left |-> {}]
Script == [cmd : {"start", "shutdown", "kill"}, pc : {"idle", "find", "gone", "launch", "booting"}]

TypeOK ==
  /\ proc \in [Nodes -> UNION {Stage[n] : n \in Nodes}] /\ \A n \in Nodes : proc[n] \in Stage[n]
  /\ dup \subseteq Nodes /\ starting \subseteq Nodes
  /\ shuting \in {"none", "new", "seen"}
  /\ reported \subseteq Others /\ due \subseteq Data
  /\ inv \in [Invs -> [pc : {"idle", "roles", "others", "last"},
                       todo : SUBSET Others, left : SUBSET Others]]
  /\ asked \in [Others -> SUBSET Invs]
  /\ op \in [Operators -> Script] /\ calm \in BOOLEAN

Init ==
  /\ proc = [n \in Nodes |-> "down"] /\ dup = {}
  /\ starting = {} /\ shuting = "none" /\ reported = {} /\ due = {}
  /\ inv = [i \in Invs |-> NoInv] /\ asked = [o \in Others |-> {}]
  /\ op = [k \in Operators |-> [cmd |-> "shutdown", pc |-> "idle"]]
  /\ calm = TRUE

nodeVars == <<dup, starting, shuting, reported, due, inv, asked>>

-----------------------------------------------------------------------------
(* The process of node n is gone, with everything in its memory; calls     *)
(* that wait in it are never answered.                                     *)
Gone(N) ==
  /\ proc' = [n \in Nodes |-> IF n \in N THEN "down" ELSE proc[n]]
  /\ due' = {d \in due : Home(d) \notin N}
  /\ reported' = IF "game" \in N THEN {} ELSE reported
  /\ inv' = IF "game" \in N THEN [i \in Invs |-> NoInv] ELSE inv
  /\ asked' = [o \in Others |-> IF o \in N THEN {} ELSE asked[o]]

(* ps aux | grep skynet | grep config_file                                 *)
Found == proc["game"] # "down" \/ "game" \in dup

Step(k, pc) == op' = [op EXCEPT ![k].pc = pc]

(* What follows shutdown_server.                                           *)
Stopped(k) == Step(k, IF op[k].cmd = "start" THEN "launch" ELSE "idle")

(* An operator runs server_mgr.py.                                         *)
Command(k, c) ==
  /\ op[k].pc = "idle"
  /\ op' = [op EXCEPT ![k] = [cmd |-> c, pc |-> "find"]]
  /\ UNCHANGED <<proc, nodeVars, calm>>

(* shutdown_skynet(config, kill=True) for game, chat and dynasty.  ps      *)
(* names both processes of a node one below the other, kill gets the first.*)
KillServer(k) ==
  /\ op[k].pc = "find" /\ op[k].cmd = "kill"
  /\ Gone(Nodes) /\ dup' = {n \in dup : proc[n] # "down"}
  /\ Step(k, "idle")
  /\ UNCHANGED <<starting, shuting, calm>>

(* shutdown_skynet of the game node.  Files have times of one second: the  *)
(* request may look like the one reload_watcher handled last.              *)
RequestShutdown(k) ==
  /\ op[k].pc = "find" /\ op[k].cmd # "kill"
  /\ IF Found
     THEN /\ shuting' \in {"new"} \cup IF \E i \in Invs : inv[i].pc # "idle" THEN {"seen"} ELSE {}
          /\ Step(k, "gone")
     ELSE /\ UNCHANGED shuting
          /\ Stopped(k)
  /\ UNCHANGED <<proc, dup, starting, reported, due, inv, asked, calm>>

ProcessGone(k) ==
  /\ op[k].pc = "gone" /\ ~Found
  /\ Stopped(k)
  /\ UNCHANGED <<proc, nodeVars, calm>>

(* Both ports of a node that runs already are taken.                       *)
Launch(k) ==
  /\ op[k].pc = "launch"
  /\ starting' = Nodes
  /\ proc' = [n \in Nodes |-> IF proc[n] = "down" THEN "boot" ELSE proc[n]]
  /\ dup' = dup \cup {n \in Nodes : proc[n] # "down"}
  /\ Step(k, "booting")
  /\ UNCHANGED <<shuting, reported, due, inv, asked, calm>>

Started(k) ==
  /\ op[k].pc = "booting" /\ starting = {}
  /\ Step(k, "idle")
  /\ UNCHANGED <<proc, nodeVars, calm>>

Interrupt(k) ==
  /\ k \notin Patient
  /\ op[k].pc \in {"gone", "booting"}
  /\ Step(k, "idle")
  /\ calm' = FALSE
  /\ UNCHANGED <<proc, nodeVars>>

-----------------------------------------------------------------------------
(* reload_watcher starts and removes a request that is older than it.  No  *)
(* script touches the file of another node.                                *)
WatchStart ==
  /\ proc["game"] = "boot"
  /\ proc' = [proc EXCEPT !["game"] = "watch"]
  /\ shuting' = "none"
  /\ UNCHANGED <<dup, starting, reported, due, inv, asked, op, calm>>

(* So does the second process of a node, which then fails to listen, or    *)
(* goes on if the first has gone by then (only in Slow: the others listen  *)
(* at once, what is left of them is on its way out).                       *)
SecondListens(n) ==
  /\ n \in dup
  /\ dup' = dup \ {n}
  /\ proc' = IF proc[n] = "down" /\ n \in Slow THEN [proc EXCEPT ![n] = "boot"] ELSE proc
  /\ shuting' = IF n = "game" THEN "none" ELSE shuting
  /\ UNCHANGED <<starting, reported, due, inv, asked, op, calm>>

AgentStart ==
  /\ proc["game"] = "watch"
  /\ proc' = [proc EXCEPT !["game"] = "agent"]
  /\ UNCHANGED <<nodeVars, op, calm>>

(* The other launchers register their callback before they wait for .agent *)
Register(o) ==
  /\ proc[o] = "boot"
  /\ proc' = [proc EXCEPT ![o] = "ready"]
  /\ UNCHANGED <<nodeVars, op, calm>>

AgentAlive == proc["game"] \in {"agent", "gate", "up", "dying"}

ServiceStart(o) ==
  /\ proc[o] = "ready" /\ AgentAlive
  /\ proc' = [proc EXCEPT ![o] = "service"]
  /\ UNCHANGED <<nodeVars, op, calm>>

(* Mutant: a report replaces the one before.                               *)
MutReported(o) == {o}

Reported(o) == reported \cup {o}

(* lc_set_agent_start                                                      *)
Report(o) ==
  /\ proc[o] = "service" /\ AgentAlive
  /\ proc' = [proc EXCEPT ![o] = "up"]
  /\ reported' = Reported(o)
  /\ starting' = starting \ {o}
  /\ UNCHANGED <<dup, shuting, due, inv, asked, op, calm>>

(* not check_agent_correlate_node                                          *)
Correlated == reported = Others

(* The agent opens the gate at the end of its start.                       *)
GateOpens ==
  /\ proc["game"] = "agent" /\ Correlated
  /\ proc' = [proc EXCEPT !["game"] = "gate"]
  /\ UNCHANGED <<nodeVars, op, calm>>

(* Then child_marry is started, and the callback registered.               *)
GameUp ==
  /\ proc["game"] = "gate"
  /\ proc' = [proc EXCEPT !["game"] = "up"]
  /\ starting' = starting \ {"game"}
  /\ UNCHANGED <<dup, shuting, reported, due, inv, asked, op, calm>>

-----------------------------------------------------------------------------
(* Mutant: the callback is never called.                                   *)
MutCallback == "last"

(* COMMAND.shutdown: a process whose callback is not registered yet saves  *)
(* nothing.                                                                *)
Callback == IF proc["game"] = "up" THEN "roles" ELSE "last"

(* check_shutdown of reload_watcher.  When the first of the overlapping    *)
(* shutdowns begins any data may have changed; what changes later, also by *)
(* a role that its loop passes over, is not due.                           *)
CheckShutdown(i) ==
  /\ proc["game"] \in {"watch", "agent", "gate", "up"}
  /\ shuting = "new" /\ inv[i].pc = "idle"
  /\ shuting' = "none"
  /\ inv' = [inv EXCEPT ![i].pc = Callback]
  /\ due' = IF proc["game"] = "up" /\ \A j \in Invs : inv[j].pc = "idle"
            THEN {d \in Data : proc[Home(d)] = "up"}
            ELSE due
  /\ UNCHANGED <<proc, dup, starting, reported, asked, op, calm>>

(* agent_utils.shutdown kicks the roles and saves the data of .agent;      *)
(* nobody calls lc_x_shutdown of .child_marry.                             *)
RolesSaved(i) ==
  /\ inv[i].pc = "roles"
  /\ inv' = [inv EXCEPT ![i] = [pc |-> "others", todo |-> Others, left |-> Others]]
  /\ due' = due \ {"roles"}
  /\ UNCHANGED <<proc, dup, starting, shuting, reported, asked, op, calm>>

(* A node that does not answer the probe is left alone.                    *)
ProbeOther(i, o) ==
  /\ inv[i].pc = "others" /\ o \in inv[i].todo
  /\ \/ /\ proc[o] \in {"ready", "service", "up", "dying"}
        /\ asked' = [asked EXCEPT ![o] = @ \cup {i}]
        /\ inv' = [inv EXCEPT ![i].todo = @ \ {o}]
     \/ /\ proc[o] \in {"down", "boot", "dying"}
        /\ inv' = [inv EXCEPT ![i].todo = @ \ {o}, ![i].left = @ \ {o}]
        /\ UNCHANGED asked
  /\ UNCHANGED <<proc, dup, starting, shuting, reported, due, op, calm>>

(* Mutant: the dynasty node answers before it has saved.                   *)
MutUnsaved(o) == due

Unsaved(o) == due \ {o}

(* lc_do_shutdown in another node.  The callback of dynasty fails as long  *)
(* as its service has no lc_x_shutdown: the caller gets an error and keeps *)
(* the node in its list.                                                   *)
OtherShutdown(i, o) ==
  /\ i \in asked[o] /\ proc[o] \in {"ready", "service", "up", "dying"}
  /\ asked' = [asked EXCEPT ![o] = @ \ {i}]
  /\ IF o = "dynasty" /\ proc[o] = "ready"
     THEN UNCHANGED <<proc, due, inv>>
     ELSE /\ proc' = [proc EXCEPT ![o] = "dying"]
          /\ due' = Unsaved(o)
          /\ inv' = [inv EXCEPT ![i].left = @ \ {o}]
  /\ UNCHANGED <<dup, starting, shuting, reported, op, calm>>

(* Mutant: the game does not wait for the nodes it has asked.              *)
MutAllAnswered(i) == inv[i].todo = {}

AllAnswered(i) == inv[i].left = {}

ShutdownOver(i) ==
  /\ \/ inv[i].pc = "others" /\ AllAnswered(i)
     \/ inv[i].pc = "last"
  /\ inv' = [inv EXCEPT ![i] = NoInv]
  /\ proc' = [proc EXCEPT !["game"] = "dying"]
  /\ UNCHANGED <<dup, starting, shuting, reported, due, asked, op, calm>>

(* skynet.abort 10 ms later.  The timers of the other nodes were set       *)
(* before the one of the game.                                             *)
Exit(n) ==
  /\ proc[n] = "dying"
  /\ n = "game" => \A o \in Others : proc[o] # "dying"
  /\ Gone({n})
  /\ UNCHANGED <<dup, starting, shuting, op, calm>>

Crash(n) ==
  /\ n \in Crashes /\ proc[n] # "down"
  /\ Gone({n})
  /\ calm' = FALSE
  /\ UNCHANGED <<dup, starting, shuting, op>>

ScriptStep(k) == KillServer(k) \/ RequestShutdown(k) \/ ProcessGone(k) \/ Launch(k) \/ Started(k)

GameStep ==
  \/ WatchStart \/ AgentStart \/ GateOpens \/ GameUp
  \/ \E i \in Invs : CheckShutdown(i) \/ RolesSaved(i) \/ ShutdownOver(i)
  \/ \E i \in Invs, o \in Others : ProbeOther(i, o)

OtherStep(o) ==
  \/ Register(o) \/ ServiceStart(o) \/ Report(o)
  \/ \E i \in Invs : OtherShutdown(i, o)

Next ==
  \/ \E k \in Operators, c \in {"start", "shutdown", "kill"} : Command(k, c)
  \/ \E k \in Operators : ScriptStep(k) \/ Interrupt(k)
  \/ \E n \in Nodes : SecondListens(n) \/ Exit(n) \/ Crash(n)
  \/ GameStep \/ \E o \in Others : OtherStep(o)

Spec == Init /\ [][Next]_vars

(* The operating system runs every process and every script.               *)
Fairness ==
  /\ \A k \in Operators : WF_vars(ScriptStep(k))
  /\ \A n \in Nodes : WF_vars(SecondListens(n)) /\ WF_vars(Exit(n))
  /\ WF_vars(GameStep)
  /\ \A o \in Others : WF_vars(OtherStep(o))

FairSpec == Spec /\ Fairness

-----------------------------------------------------------------------------
(* What a shutdown finds unsaved when it calls the callback is in the      *)
(* database before the game or the dynasty node aborts, however many       *)
(* shutdowns overlap: the roles are saved first, the dynasties before      *)
(* their node answers.  The callback does not reach .child_marry.          *)
CallbackSaves == \A d \in due \ {"marry"} : proc[Home(d)] # "dying"

(* The same of all data of the game server, as agent_utils.lua:60 (save    *)
(* the data of the server) and child_marry/main.lua:20 have it.            *)
DataSaved == \A d \in due : proc[Home(d)] # "dying"

(* When no script runs and the game node is down, no chat or dynasty       *)
(* process is left that would be in the way of the next start (one         *)
(* operator who waits for each script, no crash).                          *)
NoneLeftBehind ==
  (calm /\ proc["game"] = "down" /\ \A k \in Operators : op[k].pc = "idle")
    => \A n \in Nodes : proc[n] = "down" /\ n \notin dup

(* Every script comes to its end, unless a process crashes or a script is  *)
(* interrupted.  So the agent, which waits for the other nodes before it   *)
(* opens the gate (main.lua:23), opens it: the script waits for the file   *)
(* that the game node removes then.  After a crash of the game alone a new *)
(* one would wait for ever for nodes that have reported to the old one.    *)
ScriptsEnd == \A k \in Operators : (calm /\ op[k].pc # "idle") ~> (~calm \/ op[k].pc = "idle")

=============================================================================
