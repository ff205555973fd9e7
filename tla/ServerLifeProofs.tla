-------------------------- MODULE ServerLifeProofs --------------------------
(***************************************************************************)
(* The inductive invariants of ServerLife: for any number of operators,    *)
(* what a shutdown has yet to save is in a node that is up and has no      *)
(* shutdown beyond the saving of the roles (DueInv); for one operator and as long as nothing *)
(* crashes and no script is interrupted, the nodes are in one of six       *)
(* situations that belong to what the script does (CalmInv).               *)
(***************************************************************************)
EXTENDS ServerLife, TLAPS

DueInv ==
  /\ "roles" \in due => proc["game"] = "up" /\ \A i \in Invs : inv[i].pc \in {"idle", "roles"}
  /\ "dynasty" \in due => proc["dynasty"] = "up"

Doing(P) == \A k \in Operators : op[k].pc \in P

AllAre(stage) == \A n \in Nodes : proc[n] = stage

(* No shutdown has begun.                                                  *)
Unasked ==
  /\ \A i \in Invs : inv[i].pc = "idle"
  /\ \A o \in Others : asked[o] = {}

Down == Doing({"idle", "find", "gone", "launch"}) /\ AllAre("down") /\ Unasked /\ shuting = "none"

Booting ==
  /\ Doing({"booting"}) /\ Unasked /\ shuting = "none"
  /\ \A n \in Nodes : proc[n] \notin {"down", "dying"} /\ (n \notin starting => proc[n] = "up")

Running == Doing({"idle", "find"}) /\ AllAre("up") /\ Unasked /\ shuting = "none"

Requested == Doing({"gone"}) /\ AllAre("up") /\ Unasked

(* The shutdown i is the only one.                                         *)
ShutsDown(i) ==
  /\ Doing({"gone"}) /\ shuting = "none" /\ proc["game"] = "up"
  /\ \A j \in Invs : j # i => inv[j].pc = "idle"
  /\ \/ inv[i].pc = "roles" /\ AllAre("up") /\ \A o \in Others : asked[o] = {}
     \/ /\ inv[i].pc = "others" /\ inv[i].todo \subseteq inv[i].left
        /\ \A o \in Others :
             IF o \in inv[i].left THEN proc[o] = "up" /\ asked[o] \subseteq {i}
                                       /\ (o \in inv[i].todo => asked[o] = {})
             ELSE proc[o] \in {"dying", "down"} /\ asked[o] = {}

LastExit ==
  /\ Doing({"gone"}) /\ shuting = "none" /\ Unasked /\ proc["game"] = "dying"
  /\ \A o \in Others : proc[o] \in {"dying", "down"}

CalmInv ==
  calm =>
    /\ dup = {}
    /\ Down \/ Booting \/ Running \/ Requested \/ (\E i \in Invs : ShutsDown(i)) \/ LastExit
-----------------------------------------------------------------------------
ProcOK ==
  /\ proc \in [Nodes -> UNION {Stage[n] : n \in Nodes}]
  /\ \A n \in Nodes : proc[n] \in Stage[n]

Inv == [pc : {"idle", "roles", "others", "last"}, todo : SUBSET Others, left : SUBSET Others]

LEMMA Stages ==
  /\ \A n \in Nodes : {"down", "boot", "up", "dying"} \subseteq Stage[n]
  /\ {"watch", "agent", "gate"} \subseteq Stage["game"]
  /\ \A o \in Others : o \in Nodes /\ o # "game" /\ {"ready", "service"} \subseteq Stage[o]
  /\ "game" \in Nodes /\ \A n \in Nodes : n = "game" \/ n \in Others
BY DEF Stage, Nodes, Others

LEMMA SetStage ==
  ASSUME ProcOK, NEW n \in Nodes, NEW v \in Stage[n], proc' = [proc EXCEPT ![n] = v]
  PROVE  ProcOK' /\ proc'[n] = v /\ \A m \in Nodes : m # n => proc'[m] = proc[m]
<1>1. v \in UNION {Stage[m] : m \in Nodes}
  OBVIOUS
<1>2. /\ proc' \in [Nodes -> UNION {Stage[m] : m \in Nodes}]
      /\ proc'[n] = v /\ \A m \in Nodes : m # n => proc'[m] = proc[m]
  BY <1>1 DEF ProcOK
<1>3. \A m \in Nodes : proc'[m] \in Stage[m]
  BY <1>2 DEF ProcOK
<1>4. QED
  BY <1>2, <1>3 DEF ProcOK

LEMMA SetStages ==
  ASSUME ProcOK, NEW v, \A n \in Nodes : v \in Stage[n], NEW N,
         proc' = [n \in Nodes |-> IF n \in N THEN v ELSE proc[n]]
  PROVE  ProcOK' /\ \A n \in Nodes : proc'[n] = IF n \in N THEN v ELSE proc[n]
<1>1. \A n \in Nodes : proc'[n] = IF n \in N THEN v ELSE proc[n]
  OBVIOUS
<1>2. \A n \in Nodes : proc'[n] \in Stage[n]
  BY <1>1 DEF ProcOK
<1>3. \A n \in Nodes : proc'[n] \in UNION {Stage[m] : m \in Nodes}
  BY <1>2
<1>4. QED
  BY <1>1, <1>2, <1>3 DEF ProcOK

(* Processes end with all they know.                                       *)
LEMMA GoneIs ==
  ASSUME TypeOK, NEW N \in SUBSET Nodes, Gone(N)
  PROVE  /\ ProcOK' /\ \A n \in Nodes : proc'[n] = IF n \in N THEN "down" ELSE proc[n]
         /\ due' = {d \in due : Home(d) \notin N} /\ reported' \subseteq Others
         /\ inv' \in [Invs -> Inv]
         /\ inv' = IF "game" \in N THEN [i \in Invs |-> NoInv] ELSE inv
         /\ asked' \in [Others -> SUBSET Invs]
         /\ \A o \in Others : asked'[o] = IF o \in N THEN {} ELSE asked[o]
<1>1. ProcOK /\ \A n \in Nodes : "down" \in Stage[n]
  BY Stages DEF TypeOK, ProcOK
<1>2. ProcOK' /\ \A n \in Nodes : proc'[n] = IF n \in N THEN "down" ELSE proc[n]
  BY <1>1, SetStages DEF Gone
<1>3. NoInv \in Inv
  BY DEF NoInv, Inv
<1>4. inv' = (IF "game" \in N THEN [i \in Invs |-> NoInv] ELSE inv) /\ inv' \in [Invs -> Inv]
  BY <1>3 DEF Gone, TypeOK, Inv
<1>5. asked' \in [Others -> SUBSET Invs] /\ \A o \in Others : asked'[o] = IF o \in N THEN {} ELSE asked[o]
  BY DEF Gone, TypeOK
<1>6. due' = {d \in due : Home(d) \notin N} /\ reported' \subseteq Others
  BY DEF Gone, TypeOK
<1>7. QED
  BY <1>2, <1>4, <1>5, <1>6

(* A script goes on.                                                       *)
LEMMA StepIs ==
  ASSUME op \in [Operators -> Script], NEW k \in Operators,
         NEW pc \in {"idle", "find", "gone", "launch", "booting"}, Step(k, pc)
  PROVE  op' \in [Operators -> Script] /\ op'[k].pc = pc
<1>1. op[k] \in Script
  OBVIOUS
<1>2. PICK r : r = [op[k] EXCEPT !.pc = pc]
  OBVIOUS
<1>3. r \in Script /\ r.pc = pc
  BY <1>1, <1>2 DEF Script
<1>4. op' = [op EXCEPT ![k] = r]
  BY <1>2 DEF Step
<1>5. QED
  BY <1>3, <1>4

Rest ==
  /\ dup \subseteq Nodes /\ starting \subseteq Nodes
  /\ shuting \in {"none", "new", "seen"}
  /\ reported \subseteq Others /\ due \subseteq Data
  /\ inv \in [Invs -> Inv] /\ asked \in [Others -> SUBSET Invs]
  /\ op \in [Operators -> Script] /\ calm \in BOOLEAN

LEMMA TypeParts == TypeOK <=> ProcOK /\ Rest
BY DEF TypeOK, ProcOK, Rest, Inv

LEMMA TypePrime == TypeOK' <=> ProcOK' /\ Rest'
BY TypeParts, PTL

LEMMA TypeScripts ==
  ASSUME TypeOK, NEW k \in Operators
  PROVE  /\ (\E c \in {"start", "shutdown", "kill"} : Command(k, c)) => TypeOK'
         /\ ScriptStep(k) \/ Interrupt(k) => TypeOK'
<1>1. ProcOK /\ Rest
  BY TypeParts
<1>2. ASSUME NEW c \in {"start", "shutdown", "kill"}, Command(k, c) PROVE TypeOK'
  <2>1. PICK r : r = [cmd |-> c, pc |-> "find"]
    OBVIOUS
  <2>2. r \in Script
    BY <2>1 DEF Script
  <2>3. op' = [op EXCEPT ![k] = r] /\ UNCHANGED <<proc, dup, starting, shuting, reported, due, inv, asked, calm>>
    BY <1>2, <2>1 DEF Command, nodeVars
  <2>4. op' \in [Operators -> Script]
    BY <1>1, <2>2, <2>3 DEF Rest
  <2>5. QED
    BY <1>1, <2>3, <2>4, TypePrime DEF ProcOK, Rest
<1>3. CASE KillServer(k)
  <2>1. /\ Gone(Nodes) /\ dup' \subseteq dup /\ Step(k, "idle") /\ UNCHANGED <<starting, shuting, calm>>
    BY <1>3 DEF KillServer
  <2>2. op' \in [Operators -> Script]
    BY <1>1, <2>1, StepIs DEF Rest
  <2>3. /\ ProcOK' /\ due' \subseteq due /\ reported' \subseteq Others
        /\ inv' \in [Invs -> Inv] /\ asked' \in [Others -> SUBSET Invs]
    BY <2>1, GoneIs
  <2>4. QED
    BY <1>1, <2>1, <2>2, <2>3, TypePrime DEF Rest
<1>4. CASE RequestShutdown(k)
  <2>1. /\ shuting' \in {"none", "new", "seen"}
        /\ \E pc \in {"gone", "launch", "idle"} : Step(k, pc)
        /\ UNCHANGED <<proc, dup, starting, reported, due, inv, asked, calm>>
    BY <1>1, <1>4 DEF RequestShutdown, Stopped, Rest
  <2>2. op' \in [Operators -> Script]
    BY <1>1, <2>1, StepIs DEF Rest
  <2>3. QED
    BY <1>1, <2>1, <2>2, TypePrime DEF ProcOK, Rest
<1>5. CASE ProcessGone(k) \/ Started(k) \/ Interrupt(k)
  <2>1. /\ \E pc \in {"launch", "idle"} : Step(k, pc)
        /\ UNCHANGED <<proc, dup, starting, shuting, reported, due, inv, asked>>
        /\ calm' \in BOOLEAN
    BY <1>1, <1>5 DEF ProcessGone, Started, Interrupt, Stopped, nodeVars, Rest
  <2>2. op' \in [Operators -> Script]
    BY <1>1, <2>1, StepIs DEF Rest
  <2>3. QED
    BY <1>1, <2>1, <2>2, TypePrime DEF ProcOK, Rest
<1>6. CASE Launch(k)
  <2>1. PICK N : N = {n \in Nodes : proc[n] = "down"}
    OBVIOUS
  <2>2. /\ proc' = [n \in Nodes |-> IF n \in N THEN "boot" ELSE proc[n]]
        /\ starting' = Nodes /\ dup' \subseteq Nodes
        /\ Step(k, "booting") /\ UNCHANGED <<shuting, reported, due, inv, asked, calm>>
    BY <1>1, <1>6, <2>1 DEF Launch, Rest
  <2>3. \A n \in Nodes : "boot" \in Stage[n]
    BY Stages
  <2>4. ProcOK'
    BY <1>1, <2>2, <2>3, SetStages
  <2>5. op' \in [Operators -> Script]
    BY <1>1, <2>2, StepIs DEF Rest
  <2>6. QED
    BY <1>1, <2>2, <2>4, <2>5, TypePrime DEF Rest
<1>7. QED
  BY <1>2, <1>3, <1>4, <1>5, <1>6 DEF ScriptStep

LEMMA TypeNodes ==
  ASSUME TypeOK, NEW n \in Nodes, SecondListens(n) \/ Exit(n) \/ Crash(n)
  PROVE  TypeOK'
<1>1. ProcOK /\ Rest
  BY TypeParts
<1>3. CASE SecondListens(n)
  <2>1. CASE proc' = [proc EXCEPT ![n] = "boot"]
    <3>1. ProcOK'
      BY <1>1, <2>1, SetStage, Stages
    <3>2. QED
      BY <1>1, <1>3, <3>1, TypePrime DEF SecondListens, Rest
  <2>2. CASE proc' = proc
    BY <1>1, <1>3, <2>2, TypePrime DEF SecondListens, Rest, ProcOK
  <2>3. QED
    BY <1>3, <2>1, <2>2 DEF SecondListens
<1>4. CASE Exit(n) \/ Crash(n)
  <2>1. Gone({n}) /\ UNCHANGED <<dup, starting, shuting, op>> /\ calm' \in BOOLEAN
    BY <1>1, <1>4 DEF Exit, Crash, Rest
  <2>2. {n} \in SUBSET Nodes
    OBVIOUS
  <2>3. /\ ProcOK' /\ due' \subseteq due /\ reported' \subseteq Others
        /\ inv' \in [Invs -> Inv] /\ asked' \in [Others -> SUBSET Invs]
    BY <2>1, <2>2, GoneIs
  <2>4. QED
    BY <1>1, <2>1, <2>3, TypePrime DEF Rest
<1>5. QED
  BY <1>3, <1>4

LEMMA SetInv ==
  ASSUME inv \in [Invs -> Inv], NEW i \in Invs, NEW v \in Inv, inv' = [inv EXCEPT ![i] = v]
  PROVE  inv' \in [Invs -> Inv] /\ inv'[i] = v /\ \A j \in Invs : j # i => inv'[j] = inv[j]
OBVIOUS

(* One shutdown goes a step further.                                       *)
LEMMA CheckShutdownIs ==
  ASSUME Rest, NEW i \in Invs, CheckShutdown(i)
  PROVE  /\ inv' \in [Invs -> Inv] /\ \A j \in Invs : j # i => inv'[j] = inv[j]
         /\ inv'[i].pc = Callback
<1>1. inv[i] \in Inv /\ inv \in [Invs -> Inv] /\ Callback \in {"roles", "last"}
  BY DEF Rest, Callback
<1>2. PICK v : v = [inv[i] EXCEPT !.pc = Callback]
  OBVIOUS
<1>3. v \in Inv /\ v.pc = Callback
  BY <1>1, <1>2 DEF Inv
<1>4. inv' = [inv EXCEPT ![i] = v]
  BY <1>2 DEF CheckShutdown
<1>5. QED
  BY <1>1, <1>3, <1>4, SetInv

LEMMA RolesSavedIs ==
  ASSUME Rest, NEW i \in Invs, RolesSaved(i)
  PROVE  /\ inv' \in [Invs -> Inv] /\ \A j \in Invs : j # i => inv'[j] = inv[j]
         /\ inv'[i].pc = "others" /\ inv'[i].todo = Others /\ inv'[i].left = Others
<1>1. PICK v : v = [pc |-> "others", todo |-> Others, left |-> Others]
  OBVIOUS
<1>2. v \in Inv /\ v.pc = "others" /\ v.todo = Others /\ v.left = Others
  BY <1>1 DEF Inv
<1>3. inv' = [inv EXCEPT ![i] = v] /\ inv \in [Invs -> Inv]
  BY <1>1 DEF RolesSaved, Rest
<1>4. QED
  BY <1>2, <1>3, SetInv

LEMMA ProbeOtherIs ==
  ASSUME Rest, NEW i \in Invs, NEW o \in Others, ProbeOther(i, o)
  PROVE  /\ inv' \in [Invs -> Inv] /\ \A j \in Invs : j # i => inv'[j] = inv[j]
         /\ asked' \in [Others -> SUBSET Invs] /\ \A n \in Others : n # o => asked'[n] = asked[n]
         /\ inv'[i].pc = "others" /\ inv'[i].todo = inv[i].todo \ {o}
         /\ \/ /\ proc[o] \in {"ready", "service", "up", "dying"}
               /\ asked'[o] = asked[o] \cup {i} /\ inv'[i].left = inv[i].left
            \/ /\ proc[o] \in {"down", "boot", "watch", "dying"}
               /\ asked'[o] = asked[o] /\ inv'[i].left = inv[i].left \ {o}
<1>1. inv \in [Invs -> Inv] /\ asked \in [Others -> SUBSET Invs] /\ inv[i] \in Inv /\ inv[i].pc = "others"
  BY DEF Rest, ProbeOther
<1>2. PICK v : v = [inv[i] EXCEPT !.todo = @ \ {o}]
  OBVIOUS
<1>3. PICK u : u = [inv[i] EXCEPT !.todo = @ \ {o}, !.left = @ \ {o}]
  OBVIOUS
<1>4. /\ v \in Inv /\ v.pc = "others" /\ v.todo = inv[i].todo \ {o} /\ v.left = inv[i].left
      /\ u \in Inv /\ u.pc = "others" /\ u.todo = inv[i].todo \ {o} /\ u.left = inv[i].left \ {o}
  BY <1>1, <1>2, <1>3 DEF Inv
<1>5. CASE proc[o] \in {"ready", "service", "up", "dying"}
           /\ asked' = [asked EXCEPT ![o] = @ \cup {i}] /\ inv' = [inv EXCEPT ![i].todo = @ \ {o}]
  <2>1. inv' = [inv EXCEPT ![i] = v]
    BY <1>2, <1>5
  <2>2. inv' \in [Invs -> Inv] /\ inv'[i] = v /\ \A j \in Invs : j # i => inv'[j] = inv[j]
    BY <1>1, <1>4, <2>1, SetInv
  <2>3. QED
    BY <1>1, <1>4, <1>5, <2>2
<1>6. CASE proc[o] \in {"down", "boot", "watch", "dying"} /\ asked' = asked
           /\ inv' = [inv EXCEPT ![i].todo = @ \ {o}, ![i].left = @ \ {o}]
  <2>1. inv' = [inv EXCEPT ![i] = u]
    BY <1>1, <1>3, <1>6
  <2>2. inv' \in [Invs -> Inv] /\ inv'[i] = u /\ \A j \in Invs : j # i => inv'[j] = inv[j]
    BY <1>1, <1>4, <2>1, SetInv
  <2>3. QED
    BY <1>1, <1>4, <1>6, <2>2
<1>7. QED
  BY <1>5, <1>6 DEF ProbeOther

LEMMA OtherShutdownIs ==
  ASSUME ProcOK, Rest, NEW i \in Invs, NEW o \in Others, OtherShutdown(i, o)
  PROVE  /\ ProcOK' /\ \A n \in Nodes : n # o => proc'[n] = proc[n]
         /\ asked' \in [Others -> SUBSET Invs] /\ asked'[o] = asked[o] \ {i}
         /\ \A n \in Others : n # o => asked'[n] = asked[n]
         /\ inv' \in [Invs -> Inv] /\ \A j \in Invs : j # i => inv'[j] = inv[j]
         /\ inv'[i].pc = inv[i].pc /\ inv'[i].todo = inv[i].todo
         /\ \/ proc' = proc /\ due' = due /\ inv' = inv /\ proc[o] = "ready"
            \/ proc'[o] = "dying" /\ due' = due \ {o} /\ inv'[i].left = inv[i].left \ {o}
<1>1. inv \in [Invs -> Inv] /\ asked \in [Others -> SUBSET Invs] /\ inv[i] \in Inv
  BY DEF Rest
<1>2. asked' = [asked EXCEPT ![o] = @ \ {i}]
  BY DEF OtherShutdown
<1>3. CASE o = "dynasty" /\ proc[o] = "ready"
  BY <1>1, <1>2, <1>3 DEF OtherShutdown, ProcOK
<1>4. CASE ~(o = "dynasty" /\ proc[o] = "ready")
  <2>1. PICK v : v = [inv[i] EXCEPT !.left = @ \ {o}]
    OBVIOUS
  <2>2. v \in Inv /\ v.pc = inv[i].pc /\ v.todo = inv[i].todo /\ v.left = inv[i].left \ {o}
    BY <1>1, <2>1 DEF Inv
  <2>3. /\ proc' = [proc EXCEPT ![o] = "dying"] /\ due' = due \ {o}
        /\ inv' = [inv EXCEPT ![i].left = @ \ {o}]
    BY <1>4 DEF OtherShutdown, Unsaved
  <2>4. inv' = [inv EXCEPT ![i] = v]
    BY <2>1, <2>3
  <2>5. inv' \in [Invs -> Inv] /\ inv'[i] = v /\ \A j \in Invs : j # i => inv'[j] = inv[j]
    BY <1>1, <2>2, <2>4, SetInv
  <2>6. "dying" \in Stage[o] /\ o \in Nodes
    BY Stages
  <2>7. ProcOK' /\ proc'[o] = "dying" /\ \A n \in Nodes : n # o => proc'[n] = proc[n]
    BY <2>3, <2>6, SetStage
  <2>8. QED
    BY <1>1, <1>2, <2>2, <2>3, <2>5, <2>7
<1>5. QED
  BY <1>3, <1>4

LEMMA ShutdownOverIs ==
  ASSUME ProcOK, Rest, NEW i \in Invs, ShutdownOver(i)
  PROVE  /\ ProcOK' /\ proc'["game"] = "dying" /\ \A n \in Others : proc'[n] = proc[n]
         /\ inv' \in [Invs -> Inv] /\ inv'[i].pc = "idle"
         /\ \A j \in Invs : j # i => inv'[j] = inv[j]
<1>1. NoInv \in Inv /\ NoInv.pc = "idle"
  BY DEF NoInv, Inv
<1>2. inv' = [inv EXCEPT ![i] = NoInv] /\ proc' = [proc EXCEPT !["game"] = "dying"] /\ inv \in [Invs -> Inv]
  BY DEF ShutdownOver, Rest
<1>3. inv' \in [Invs -> Inv] /\ inv'[i] = NoInv /\ \A j \in Invs : j # i => inv'[j] = inv[j]
  BY <1>1, <1>2, SetInv
<1>4. "dying" \in Stage["game"] /\ "game" \in Nodes
  BY Stages
<1>5. ProcOK' /\ proc'["game"] = "dying" /\ \A n \in Nodes : n # "game" => proc'[n] = proc[n]
  BY <1>2, <1>4, SetStage
<1>6. QED
  BY <1>1, <1>3, <1>5, Stages

LEMMA TypeGame ==
  ASSUME TypeOK, GameStep
  PROVE  TypeOK'
<1>1. ProcOK /\ Rest
  BY TypeParts
<1>2. CASE WatchStart \/ AgentStart \/ GateOpens
  <2>1. ProcOK'
    BY <1>1, <1>2, SetStage, Stages DEF WatchStart, AgentStart, GateOpens
  <2>2. QED
    BY <1>1, <1>2, <2>1, TypePrime DEF WatchStart, AgentStart, GateOpens, nodeVars, Rest
<1>3. CASE GameUp
  <2>1. ProcOK'
    BY <1>1, <1>3, SetStage, Stages DEF GameUp
  <2>2. QED
    BY <1>1, <1>3, <2>1, TypePrime DEF GameUp, Rest
<1>4. ASSUME NEW i \in Invs, CheckShutdown(i) PROVE TypeOK'
  <2>1. inv' \in [Invs -> Inv]
    BY <1>1, <1>4, CheckShutdownIs
  <2>2. QED
    BY <1>1, <1>4, <2>1, TypePrime DEF CheckShutdown, Rest, ProcOK
<1>5. ASSUME NEW i \in Invs, RolesSaved(i) PROVE TypeOK'
  <2>1. inv' \in [Invs -> Inv]
    BY <1>1, <1>5, RolesSavedIs
  <2>2. QED
    BY <1>1, <1>5, <2>1, TypePrime DEF RolesSaved, Rest, ProcOK
<1>6. ASSUME NEW i \in Invs, ShutdownOver(i) PROVE TypeOK'
  <2>1. ProcOK' /\ inv' \in [Invs -> Inv]
    BY <1>1, <1>6, ShutdownOverIs
  <2>2. QED
    BY <1>1, <1>6, <2>1, TypePrime DEF ShutdownOver, Rest
<1>7. ASSUME NEW i \in Invs, NEW o \in Others, ProbeOther(i, o) PROVE TypeOK'
  <2>1. inv' \in [Invs -> Inv] /\ asked' \in [Others -> SUBSET Invs]
    BY <1>1, <1>7, ProbeOtherIs
  <2>2. QED
    BY <1>1, <1>7, <2>1, TypePrime DEF ProbeOther, Rest, ProcOK
<1>8. QED
  BY <1>2, <1>3, <1>4, <1>5, <1>6, <1>7 DEF GameStep

LEMMA TypeOthers ==
  ASSUME TypeOK, NEW o \in Others, OtherStep(o)
  PROVE  TypeOK'
<1>1. ProcOK /\ Rest /\ o \in Nodes
  BY TypeParts, Stages
<1>2. CASE Register(o)
  <2>1. ProcOK'
    BY <1>1, <1>2, SetStage, Stages DEF Register
  <2>2. QED
    BY <1>1, <1>2, <2>1, TypePrime DEF Register, nodeVars, Rest
<1>3. CASE ServiceStart(o)
  <2>1. ProcOK'
    BY <1>1, <1>3, SetStage, Stages DEF ServiceStart
  <2>2. QED
    BY <1>1, <1>3, <2>1, TypePrime DEF ServiceStart, nodeVars, Rest
<1>4. CASE Report(o)
  <2>1. ProcOK'
    BY <1>1, <1>4, SetStage, Stages DEF Report
  <2>2. QED
    BY <1>1, <1>4, <2>1, TypePrime DEF Report, Reported, Rest
<1>5. ASSUME NEW i \in Invs, OtherShutdown(i, o) PROVE TypeOK'
  <2>1. ProcOK' /\ inv' \in [Invs -> Inv] /\ asked' \in [Others -> SUBSET Invs] /\ due' \subseteq due
    BY <1>1, <1>5, OtherShutdownIs
  <2>2. QED
    BY <1>1, <1>5, <2>1, TypePrime DEF OtherShutdown, Rest
<1>6. QED
  BY <1>2, <1>3, <1>4, <1>5 DEF OtherStep
-----------------------------------------------------------------------------
(* A shutdown only finds something due in a node that is up; the node goes *)
(* down with that saved, or crashes and has no data any more.              *)
LEMMA DueStep ==
  ASSUME TypeOK, DueInv, [Next]_vars
  PROVE  DueInv'
<1>1. /\ ProcOK /\ Rest /\ due \subseteq Data
      /\ "game" \in Nodes /\ "dynasty" \in Nodes /\ "dynasty" \in Others /\ "game" \notin Others
  BY TypeParts DEF Rest, Nodes, Others
<1>2. ASSUME due' \subseteq due,
             "roles" \in due' => proc'["game"] = proc["game"] /\ \A i \in Invs : inv'[i].pc \in {inv[i].pc, "idle", "roles"},
             "dynasty" \in due' => proc'["dynasty"] = proc["dynasty"]
      PROVE  DueInv'
  BY <1>2 DEF DueInv
<1>3. CASE UNCHANGED vars
  BY <1>2, <1>3 DEF vars
<1>4. ASSUME NEW k \in Operators, NEW c \in {"start", "shutdown", "kill"}, Command(k, c) PROVE DueInv'
  BY <1>2, <1>4 DEF Command, nodeVars
<1>5. ASSUME NEW N \in SUBSET Nodes, Gone(N) PROVE DueInv'
  <2>1. due' = {d \in due : Home(d) \notin N} /\ \A n \in Nodes \ N : proc'[n] = proc[n]
    BY <1>5, GoneIs
  <2>2. "game" \notin N => inv' = inv
    BY <1>5, GoneIs
  <2>3. QED
    BY <1>1, <1>2, <2>1, <2>2 DEF Home
<1>6. ASSUME NEW k \in Operators, ScriptStep(k) \/ Interrupt(k) PROVE DueInv'
  <2>1. CASE KillServer(k)
    BY <1>5, <2>1 DEF KillServer
  <2>2. CASE RequestShutdown(k) \/ ProcessGone(k) \/ Started(k) \/ Interrupt(k)
    BY <1>2, <2>2 DEF RequestShutdown, ProcessGone, Started, Interrupt, nodeVars
  <2>3. CASE Launch(k)
    <3>1. \A n \in Nodes : proc[n] = "up" => proc'[n] = proc[n]
      BY <2>3 DEF Launch
    <3>2. due' = due /\ inv' = inv
      BY <2>3 DEF Launch
    <3>3. QED
      BY <1>1, <3>1, <3>2 DEF DueInv
  <2>4. QED
    BY <1>6, <2>1, <2>2, <2>3 DEF ScriptStep
<1>7. ASSUME NEW n \in Nodes, SecondListens(n) PROVE DueInv'
  <2>1. \A m \in Nodes : proc[m] = "up" => proc'[m] = proc[m]
    BY <1>1, <1>7 DEF SecondListens, ProcOK
  <2>2. due' = due /\ inv' = inv
    BY <1>7 DEF SecondListens
  <2>3. QED
    BY <1>1, <2>1, <2>2 DEF DueInv
<1>8. ASSUME NEW n \in Nodes, Exit(n) \/ Crash(n) PROVE DueInv'
  BY <1>5, <1>8 DEF Exit, Crash
<1>9. CASE WatchStart \/ AgentStart \/ GateOpens \/ GameUp
  <2>1. \A m \in Nodes : proc[m] = "up" => proc'[m] = proc[m]
    BY <1>1, <1>9 DEF WatchStart, AgentStart, GateOpens, GameUp, ProcOK
  <2>2. due' = due /\ inv' = inv
    BY <1>9 DEF WatchStart, AgentStart, GateOpens, GameUp, nodeVars
  <2>3. QED
    BY <1>1, <2>1, <2>2 DEF DueInv
<1>10. ASSUME NEW i \in Invs, CheckShutdown(i) PROVE DueInv'
  <2>1. /\ inv'[i].pc = Callback /\ \A j \in Invs : j # i => inv'[j] = inv[j]
        /\ proc' = proc
        /\ \/ due' = due
           \/ /\ proc["game"] = "up" /\ \A j \in Invs : inv[j].pc = "idle"
              /\ due' = {d \in Data : proc[Home(d)] = "up"}
    BY <1>1, <1>10, CheckShutdownIs DEF CheckShutdown
  <2>2. CASE due' = due
    BY <2>1, <2>2 DEF DueInv, Callback
  <2>3. CASE /\ proc["game"] = "up" /\ \A j \in Invs : inv[j].pc = "idle"
             /\ due' = {d \in Data : proc[Home(d)] = "up"}
    <3>1. inv'[i].pc = "roles"
      BY <2>1, <2>3 DEF Callback
    <3>2. "dynasty" \in due' => proc["dynasty"] = "up"
      BY <2>3 DEF Home
    <3>3. QED
      BY <2>1, <2>3, <3>1, <3>2 DEF DueInv
  <2>4. QED
    BY <2>1, <2>2, <2>3
<1>11. ASSUME NEW i \in Invs, RolesSaved(i) PROVE DueInv'
  BY <1>2, <1>11 DEF RolesSaved
<1>12. ASSUME NEW i \in Invs, ShutdownOver(i) PROVE DueInv'
  <2>1. \A n \in Others : proc'[n] = proc[n]
    BY <1>1, <1>12, ShutdownOverIs
  <2>2. due' = due /\ inv[i].pc \in {"others", "last"}
    BY <1>12 DEF ShutdownOver
  <2>3. "roles" \notin due
    BY <2>2 DEF DueInv
  <2>4. QED
    BY <1>1, <1>2, <2>1, <2>2, <2>3
<1>13. ASSUME NEW i \in Invs, NEW o \in Others, ProbeOther(i, o) PROVE DueInv'
  <2>1. due' = due /\ proc' = proc /\ inv[i].pc = "others"
    BY <1>13 DEF ProbeOther
  <2>2. "roles" \notin due
    BY <2>1 DEF DueInv
  <2>3. QED
    BY <1>2, <2>1, <2>2
<1>15. ASSUME NEW o \in Others, Register(o) \/ ServiceStart(o) \/ Report(o) PROVE DueInv'
  <2>1. \A m \in Nodes : proc[m] = "up" => proc'[m] = proc[m]
    BY <1>1, <1>15 DEF Register, ServiceStart, Report, ProcOK
  <2>2. due' = due /\ inv' = inv
    BY <1>15 DEF Register, ServiceStart, Report, nodeVars
  <2>3. QED
    BY <1>1, <2>1, <2>2 DEF DueInv
<1>16. ASSUME NEW o \in Others, NEW i \in Invs, OtherShutdown(i, o) PROVE DueInv'
  <2>1. /\ \A n \in Nodes : n # o => proc'[n] = proc[n]
        /\ inv'[i].pc = inv[i].pc /\ \A j \in Invs : j # i => inv'[j] = inv[j]
        /\ \/ proc' = proc /\ due' = due
           \/ due' = due \ {o}
    BY <1>1, <1>16, OtherShutdownIs
  <2>2. QED
    BY <1>1, <1>2, <2>1
<1>17. QED
  BY <1>3, <1>4, <1>6, <1>7, <1>8, <1>9, <1>10, <1>11, <1>12, <1>13, <1>15, <1>16 DEF Next, GameStep, OtherStep
-----------------------------------------------------------------------------
(* One person runs the scripts.                                            *)
OneOperator == \A k, l \in Operators : k = l

Situation == Down \/ Booting \/ Running \/ Requested \/ (\E i \in Invs : ShutsDown(i)) \/ LastExit

LEMMA Alone ==
  ASSUME OneOperator, NEW k \in Operators
  PROVE  /\ \A P : Doing(P) <=> op[k].pc \in P
         /\ \A P : Doing(P)' <=> op'[k].pc \in P
BY DEF OneOperator, Doing

LEMMA CalmScripts ==
  ASSUME OneOperator, TypeOK, CalmInv, NEW k \in Operators, calm,
         \/ \E c \in {"start", "shutdown", "kill"} : Command(k, c)
         \/ ScriptStep(k)
  PROVE  dup' = {} /\ Situation'
<1>1. ProcOK /\ Rest /\ dup = {} /\ Situation /\ op \in [Operators -> Script]
  BY TypeParts DEF CalmInv, Situation, Rest
<1>2. op[k] \in Script
  BY <1>1
<1>3. ASSUME NEW c \in {"start", "shutdown", "kill"}, Command(k, c)
      PROVE  dup' = {} /\ Situation'
  <2>1. op[k].pc = "idle" /\ op'[k].pc = "find" /\ UNCHANGED <<proc, dup, shuting, inv, asked>>
    BY <1>1, <1>3 DEF Command, nodeVars
  <2>2. Down \/ Running
    BY <1>1, <2>1, Alone DEF Situation, Booting, Requested, ShutsDown, LastExit
  <2>3. Down' \/ Running'
    BY <2>1, <2>2, Alone DEF Down, Running, AllAre, Unasked
  <2>4. QED
    BY <1>1, <2>1, <2>3 DEF Situation
<1>4. CASE KillServer(k)
  <2>1. op[k].pc = "find" /\ Gone(Nodes) /\ dup' = {} /\ shuting' = shuting /\ Step(k, "idle")
    BY <1>1, <1>4 DEF KillServer
  <2>2. op'[k].pc = "idle"
    BY <1>1, <2>1, StepIs
  <2>3. shuting = "none"
    BY <1>1, <2>1, Alone DEF Situation, Down, Running, Booting, Requested, ShutsDown, LastExit
  <2>4. AllAre("down")' /\ Unasked'
    <3>1. /\ \A n \in Nodes : proc'[n] = "down"
          /\ inv' = [i \in Invs |-> NoInv] /\ \A o \in Others : asked'[o] = {}
      BY <2>1, GoneIs, Stages
    <3>2. QED
      BY <3>1 DEF AllAre, Unasked, NoInv
  <2>5. Down'
    BY <2>1, <2>2, <2>3, <2>4, Alone DEF Down
  <2>6. QED
    BY <2>1, <2>5 DEF Situation
<1>5. CASE RequestShutdown(k)
  <2>1. op[k].pc = "find" /\ UNCHANGED <<proc, dup, inv, asked>>
    BY <1>5 DEF RequestShutdown
  <2>2. Down \/ Running
    BY <1>1, <2>1, Alone DEF Situation, Booting, Requested, ShutsDown, LastExit
  <2>3. CASE Found
    <3>1. Running
      BY <1>1, <2>2, <2>3, Stages DEF Found, Down, AllAre
    <3>2. Step(k, "gone")
      BY <1>5, <2>3 DEF RequestShutdown
    <3>3. op'[k].pc = "gone"
      BY <1>1, <3>2, StepIs
    <3>4. Requested'
      BY <2>1, <3>1, <3>3, Alone DEF Running, Requested, AllAre, Unasked
    <3>5. QED
      BY <1>1, <2>1, <3>4 DEF Situation
  <2>4. CASE ~Found
    <3>1. Down
      BY <1>1, <2>2, <2>4, Stages DEF Found, Running, AllAre
    <3>2. shuting' = shuting /\ \E pc \in {"launch", "idle"} : Step(k, pc)
      BY <1>5, <2>4 DEF RequestShutdown, Stopped
    <3>3. op'[k].pc \in {"launch", "idle"}
      BY <1>1, <3>2, StepIs
    <3>4. Down'
      BY <2>1, <3>1, <3>2, <3>3, Alone DEF Down, AllAre, Unasked
    <3>5. QED
      BY <1>1, <2>1, <3>4 DEF Situation
  <2>5. QED
    BY <2>3, <2>4
<1>6. CASE ProcessGone(k)
  <2>1. /\ op[k].pc = "gone" /\ proc["game"] = "down"
        /\ \E pc \in {"launch", "idle"} : Step(k, pc)
        /\ UNCHANGED <<proc, dup, shuting, inv, asked>>
    BY <1>6 DEF ProcessGone, Found, Stopped, nodeVars
  <2>2. Down
    BY <1>1, <2>1, Alone, Stages DEF Situation, Booting, Running, Requested, ShutsDown, LastExit, AllAre
  <2>3. op'[k].pc \in {"launch", "idle"}
    BY <1>1, <2>1, StepIs
  <2>4. Down'
    BY <2>1, <2>2, <2>3, Alone DEF Down, AllAre, Unasked
  <2>5. QED
    BY <1>1, <2>1, <2>4 DEF Situation
<1>7. CASE Launch(k)
  <2>1. /\ op[k].pc = "launch" /\ starting' = Nodes /\ Step(k, "booting")
        /\ proc' = [n \in Nodes |-> IF proc[n] = "down" THEN "boot" ELSE proc[n]]
        /\ dup' = dup \cup {n \in Nodes : proc[n] # "down"}
        /\ UNCHANGED <<shuting, inv, asked>>
    BY <1>7 DEF Launch
  <2>2. Down
    BY <1>1, <2>1, Alone DEF Situation, Booting, Running, Requested, ShutsDown, LastExit
  <2>3. op'[k].pc = "booting"
    BY <1>1, <2>1, StepIs
  <2>4. dup' = {} /\ \A n \in Nodes : proc'[n] = "boot"
    BY <1>1, <2>1, <2>2 DEF Down, AllAre
  <2>5. Booting'
    BY <2>1, <2>2, <2>3, <2>4, Alone DEF Down, Booting, Unasked
  <2>6. QED
    BY <2>4, <2>5 DEF Situation
<1>8. CASE Started(k)
  <2>1. /\ op[k].pc = "booting" /\ starting = {} /\ Step(k, "idle")
        /\ UNCHANGED <<proc, dup, starting, shuting, inv, asked>>
    BY <1>8 DEF Started, nodeVars
  <2>2. Booting
    BY <1>1, <2>1, Alone DEF Situation, Down, Running, Requested, ShutsDown, LastExit
  <2>3. op'[k].pc = "idle"
    BY <1>1, <2>1, StepIs
  <2>4. Running'
    BY <2>1, <2>2, <2>3, Alone DEF Booting, Running, AllAre, Unasked
  <2>5. QED
    BY <1>1, <2>1, <2>4 DEF Situation
<1>9. QED
  BY <1>3, <1>4, <1>5, <1>6, <1>7, <1>8 DEF ScriptStep
(* A node that starts goes a step further.                                 *)
LEMMA CalmBoot ==
  ASSUME TypeOK, CalmInv, calm, NEW n \in Nodes, NEW v \in Stage[n],
         proc[n] \in {"boot", "watch", "agent", "gate", "ready", "service"},
         v \notin {"down", "dying"}, proc' = [proc EXCEPT ![n] = v],
         shuting' \in {"none", shuting}, starting' = starting \ (IF v = "up" THEN {n} ELSE {}),
         UNCHANGED <<dup, inv, asked, op>>
  PROVE  dup' = {} /\ Situation'
<1>1. ProcOK /\ dup = {} /\ Situation
  BY TypeParts DEF CalmInv, Situation
<1>2. Booting
  <2>1. n = "game" \/ n \in Others
    BY Stages
  <2>2. \A i \in Invs : ~ShutsDown(i)
    <3>1. ASSUME NEW i \in Invs, ShutsDown(i) PROVE FALSE
      <4>1. \A o \in Others : proc[o] \in {"up", "dying", "down"}
        BY <3>1, Stages DEF ShutsDown, AllAre
      <4>2. QED
        BY <2>1, <3>1, <4>1 DEF ShutsDown
    <3>2. QED
      BY <3>1
  <2>3. QED
    BY <1>1, <2>1, <2>2 DEF Situation, Down, Running, Requested, LastExit, AllAre
<1>3. /\ proc'[n] = v /\ \A m \in Nodes : m # n => proc'[m] = proc[m]
  BY <1>1, SetStage
<1>4. \A m \in Nodes : proc'[m] \notin {"down", "dying"} /\ (m \notin starting' => proc'[m] = "up")
  <2>1. proc[n] # "up"
    OBVIOUS
  <2>2. n \in starting
    BY <1>2, <2>1 DEF Booting
  <2>3. QED
    BY <1>2, <1>3, <2>2 DEF Booting
<1>5. Booting'
  BY <1>2, <1>4 DEF Booting, Doing, Unasked
<1>6. QED
  BY <1>1, <1>5 DEF Situation

(* Nothing happens that the situation is about.                            *)
LEMMA CalmStutter ==
  ASSUME CalmInv, calm, UNCHANGED <<proc, dup, starting, shuting, inv, asked, op>>
  PROVE  dup' = {} /\ Situation'
<1>1. dup = {} /\ Situation
  BY DEF CalmInv, Situation
<1>2. /\ (Down => Down') /\ (Booting => Booting') /\ (Running => Running')
      /\ (Requested => Requested') /\ (LastExit => LastExit')
  BY DEF Down, Booting, Running, Requested, LastExit, Doing, AllAre, Unasked
<1>3. \A i \in Invs : ShutsDown(i) => ShutsDown(i)'
  BY DEF ShutsDown, Doing, AllAre
<1>4. Situation'
  <2>1. CASE \E i \in Invs : ShutsDown(i)
    <3>1. PICK i \in Invs : ShutsDown(i)
      BY <2>1
    <3>2. ShutsDown(i)'
      BY <1>3, <3>1
    <3>3. QED
      BY <3>2 DEF Situation
  <2>2. CASE Down \/ Booting \/ Running \/ Requested \/ LastExit
    BY <1>2, <2>2 DEF Situation
  <2>3. QED
    BY <1>1, <2>1, <2>2 DEF Situation
<1>5. dup' = dup
  OBVIOUS
<1>6. QED
  BY <1>1, <1>4, <1>5

LEMMA CalmCheckShutdown ==
  ASSUME TypeOK, CalmInv, calm, NEW i \in Invs, CheckShutdown(i)
  PROVE  dup' = {} /\ Situation'
<1>1. ProcOK /\ Rest /\ dup = {} /\ Situation
  BY TypeParts DEF CalmInv, Situation
<1>2. shuting = "new" /\ shuting' = "none" /\ UNCHANGED <<proc, dup, asked, op>>
  BY DEF CheckShutdown
<1>3. Requested
  BY <1>1, <1>2 DEF Situation, Down, Booting, Running, ShutsDown, LastExit
<1>4. proc["game"] = "up"
  BY <1>3, Stages DEF Requested, AllAre
<1>5. inv'[i].pc = "roles" /\ \A j \in Invs : j # i => inv'[j] = inv[j]
  BY <1>1, <1>4, CheckShutdownIs DEF Callback
<1>6. ShutsDown(i)'
  BY <1>2, <1>3, <1>4, <1>5 DEF Requested, ShutsDown, Doing, AllAre, Unasked
<1>7. QED
  BY <1>1, <1>2, <1>6 DEF Situation

(* While a shutdown is under way there is no other situation.              *)
LEMMA TheShutdown ==
  ASSUME CalmInv, calm, NEW i \in Invs, inv[i].pc # "idle"
  PROVE  dup = {} /\ ShutsDown(i)
<1>1. dup = {} /\ Situation
  BY DEF CalmInv, Situation
<1>2. \E j \in Invs : ShutsDown(j)
  BY <1>1 DEF Situation, Down, Booting, Running, Requested, LastExit, Unasked
<1>3. QED
  BY <1>1, <1>2 DEF ShutsDown

LEMMA CalmRolesSaved ==
  ASSUME TypeOK, CalmInv, calm, NEW i \in Invs, RolesSaved(i)
  PROVE  dup' = {} /\ Situation'
<1>1. /\ inv[i].pc = "roles" /\ UNCHANGED <<proc, dup, shuting, asked, op>> /\ Rest
  BY TypeParts DEF RolesSaved
<1>2. dup = {} /\ ShutsDown(i)
  BY <1>1, TheShutdown
<1>3. /\ inv'[i].pc = "others" /\ inv'[i].todo = Others /\ inv'[i].left = Others
      /\ \A j \in Invs : j # i => inv'[j] = inv[j]
  BY <1>1, RolesSavedIs
<1>4. \A o \in Others : proc[o] = "up" /\ asked[o] = {}
  BY <1>1, <1>2, Stages DEF ShutsDown, AllAre
<1>5. ShutsDown(i)'
  BY <1>1, <1>2, <1>3, <1>4 DEF ShutsDown, Doing
<1>6. QED
  BY <1>1, <1>2, <1>5 DEF Situation

LEMMA CalmProbeOther ==
  ASSUME TypeOK, CalmInv, calm, NEW i \in Invs, NEW o \in Others, ProbeOther(i, o)
  PROVE  dup' = {} /\ Situation'
<1>1. /\ inv[i].pc = "others" /\ o \in inv[i].todo /\ UNCHANGED <<proc, dup, shuting, op>> /\ Rest
  BY TypeParts DEF ProbeOther
<1>2. dup = {} /\ ShutsDown(i)
  BY <1>1, TheShutdown
<1>3. /\ inv'[i].pc = "others" /\ inv'[i].todo = inv[i].todo \ {o}
      /\ \A j \in Invs : j # i => inv'[j] = inv[j]
      /\ \A n \in Others : n # o => asked'[n] = asked[n]
      /\ \/ asked'[o] = asked[o] \cup {i} /\ inv'[i].left = inv[i].left
         \/ proc[o] \in {"down", "boot", "watch", "dying"}
  BY <1>1, ProbeOtherIs
<1>4. o \in inv[i].left /\ proc[o] = "up" /\ asked[o] = {} /\ inv[i].todo \subseteq inv[i].left
  BY <1>1, <1>2 DEF ShutsDown
<1>5. asked'[o] = {i} /\ inv'[i].left = inv[i].left
  BY <1>3, <1>4
<1>6. inv'[i].todo \subseteq inv'[i].left
  BY <1>3, <1>4, <1>5
<1>7. ASSUME NEW n \in Others
      PROVE  IF n \in inv'[i].left THEN proc[n] = "up" /\ asked'[n] \subseteq {i}
                                        /\ (n \in inv'[i].todo => asked'[n] = {})
             ELSE proc[n] \in {"dying", "down"} /\ asked'[n] = {}
  <2>1. IF n \in inv[i].left THEN proc[n] = "up" /\ asked[n] \subseteq {i}
                                  /\ (n \in inv[i].todo => asked[n] = {})
        ELSE proc[n] \in {"dying", "down"} /\ asked[n] = {}
    BY <1>1, <1>2 DEF ShutsDown
  <2>2. CASE n = o
    BY <1>3, <1>4, <1>5, <2>2
  <2>3. CASE n # o
    BY <1>3, <1>5, <2>1, <2>3
  <2>4. QED
    BY <2>2, <2>3
<1>8. ShutsDown(i)'
  BY <1>1, <1>2, <1>3, <1>6, <1>7 DEF ShutsDown, Doing
<1>9. QED
  BY <1>1, <1>2, <1>8 DEF Situation

LEMMA CalmOtherShutdown ==
  ASSUME TypeOK, CalmInv, calm, NEW i \in Invs, NEW o \in Others, OtherShutdown(i, o)
  PROVE  dup' = {} /\ Situation'
<1>1. /\ i \in asked[o] /\ UNCHANGED <<dup, shuting, op>> /\ ProcOK /\ Rest
  BY TypeParts DEF OtherShutdown
<1>2. PICK j \in Invs : ShutsDown(j)
  BY <1>1 DEF CalmInv, Down, Booting, Running, Requested, LastExit, Unasked
<1>3. /\ j = i /\ inv[i].pc = "others" /\ o \in inv[i].left /\ o \notin inv[i].todo
      /\ proc[o] = "up" /\ asked[o] = {i} /\ inv[i].todo \subseteq inv[i].left
  BY <1>1, <1>2 DEF ShutsDown
<1>4. /\ \A n \in Nodes : n # o => proc'[n] = proc[n]
      /\ asked'[o] = asked[o] \ {i} /\ \A n \in Others : n # o => asked'[n] = asked[n]
      /\ \A m \in Invs : m # i => inv'[m] = inv[m]
      /\ inv'[i].pc = inv[i].pc /\ inv'[i].todo = inv[i].todo
      /\ proc'[o] = "dying" /\ inv'[i].left = inv[i].left \ {o}
  BY <1>1, <1>3, OtherShutdownIs
<1>5. proc'["game"] = "up"
  BY <1>2, <1>4, Stages DEF ShutsDown
<1>6. inv'[i].todo \subseteq inv'[i].left
  BY <1>3, <1>4
<1>7. ASSUME NEW n \in Others
      PROVE  IF n \in inv'[i].left THEN proc'[n] = "up" /\ asked'[n] \subseteq {i}
                                        /\ (n \in inv'[i].todo => asked'[n] = {})
             ELSE proc'[n] \in {"dying", "down"} /\ asked'[n] = {}
  <2>1. IF n \in inv[i].left THEN proc[n] = "up" /\ asked[n] \subseteq {i}
                                  /\ (n \in inv[i].todo => asked[n] = {})
        ELSE proc[n] \in {"dying", "down"} /\ asked[n] = {}
    BY <1>2, <1>3 DEF ShutsDown
  <2>2. CASE n = o
    BY <1>3, <1>4, <2>2
  <2>3. CASE n # o
    BY <1>4, <2>1, <2>3, Stages
  <2>4. QED
    BY <2>2, <2>3
<1>8. ShutsDown(i)'
  BY <1>1, <1>2, <1>3, <1>4, <1>5, <1>6, <1>7 DEF ShutsDown, Doing
<1>9. QED
  BY <1>1, <1>8 DEF Situation, CalmInv

LEMMA CalmShutdownOver ==
  ASSUME TypeOK, CalmInv, calm, NEW i \in Invs, ShutdownOver(i)
  PROVE  dup' = {} /\ Situation'
<1>1. /\ inv[i].pc \in {"others", "last"} /\ UNCHANGED <<dup, shuting, asked, op>> /\ ProcOK /\ Rest
  BY TypeParts DEF ShutdownOver
<1>2. dup = {} /\ ShutsDown(i)
  BY <1>1, TheShutdown
<1>3. inv[i].left = {}
  BY <1>2 DEF ShutdownOver, AllAnswered, ShutsDown
<1>4. \A o \in Others : proc[o] \in {"dying", "down"} /\ asked[o] = {}
  BY <1>1, <1>2, <1>3 DEF ShutsDown
<1>5. /\ proc'["game"] = "dying" /\ \A n \in Others : proc'[n] = proc[n]
      /\ inv'[i].pc = "idle" /\ \A j \in Invs : j # i => inv'[j] = inv[j]
  BY <1>1, ShutdownOverIs
<1>6. LastExit'
  BY <1>1, <1>2, <1>4, <1>5 DEF ShutsDown, LastExit, Doing, Unasked
<1>7. QED
  BY <1>1, <1>2, <1>6 DEF Situation

LEMMA CalmExit ==
  ASSUME TypeOK, CalmInv, calm, NEW n \in Nodes, Exit(n)
  PROVE  dup' = {} /\ Situation'
<1>1. /\ proc[n] = "dying" /\ Gone({n}) /\ UNCHANGED <<dup, shuting, op>>
      /\ n = "game" => \A o \in Others : proc[o] # "dying"
  BY DEF Exit
<1>2. dup = {} /\ Situation
  BY DEF CalmInv, Situation
<1>3. {n} \in SUBSET Nodes
  OBVIOUS
<1>4. /\ \A m \in Nodes : proc'[m] = IF m = n THEN "down" ELSE proc[m]
      /\ inv' = IF n = "game" THEN [i \in Invs |-> NoInv] ELSE inv
      /\ \A o \in Others : asked'[o] = IF o = n THEN {} ELSE asked[o]
  BY <1>1, <1>3, GoneIs
<1>5. ASSUME NEW i \in Invs, ShutsDown(i) PROVE ShutsDown(i)'
  <2>1. /\ n # "game" /\ n \in Others
        /\ inv[i].pc = "others" /\ proc["game"] = "up"
    BY <1>1, <1>5, Stages DEF ShutsDown, AllAre
  <2>2. inv' = inv /\ proc'["game"] = "up"
    BY <1>4, <2>1, Stages
  <2>3. ASSUME NEW o \in Others
        PROVE  IF o \in inv[i].left THEN proc'[o] = "up" /\ asked'[o] \subseteq {i}
                                         /\ (o \in inv[i].todo => asked'[o] = {})
               ELSE proc'[o] \in {"dying", "down"} /\ asked'[o] = {}
    <3>1. IF o \in inv[i].left THEN proc[o] = "up" /\ asked[o] \subseteq {i}
                                    /\ (o \in inv[i].todo => asked[o] = {})
          ELSE proc[o] \in {"dying", "down"} /\ asked[o] = {}
      BY <1>5, <2>1 DEF ShutsDown
    <3>2. o \in Nodes
      BY Stages
    <3>3. QED
      BY <1>1, <1>4, <3>1, <3>2
  <2>4. QED
    BY <1>1, <1>5, <2>1, <2>2, <2>3 DEF ShutsDown, Doing
<1>6. CASE LastExit /\ n = "game"
  <2>1. \A m \in Nodes : proc'[m] = "down"
    BY <1>1, <1>4, <1>6, Stages DEF LastExit
  <2>2. Unasked'
    BY <1>4, <1>6 DEF LastExit, Unasked, NoInv
  <2>3. Down'
    BY <1>1, <1>6, <2>1, <2>2 DEF LastExit, Down, Doing, AllAre
  <2>4. QED
    BY <1>1, <1>2, <2>3 DEF Situation
<1>7. CASE LastExit /\ n # "game"
  <2>1. proc'["game"] = "dying" /\ \A o \in Others : proc'[o] \in {"dying", "down"}
    BY <1>4, <1>7, Stages DEF LastExit
  <2>2. Unasked'
    BY <1>4, <1>7 DEF LastExit, Unasked
  <2>3. LastExit'
    BY <1>1, <1>7, <2>1, <2>2 DEF LastExit, Doing
  <2>4. QED
    BY <1>1, <1>2, <2>3 DEF Situation
<1>8. ~(Down \/ Booting \/ Running \/ Requested)
  BY <1>1 DEF Down, Booting, Running, Requested, AllAre
<1>9. QED
  BY <1>1, <1>2, <1>5, <1>6, <1>7, <1>8 DEF Situation

LEMMA CalmStep ==
  ASSUME OneOperator, TypeOK, CalmInv, [Next]_vars
  PROVE  CalmInv'
<1>1. SUFFICES ASSUME calm' PROVE dup' = {} /\ Situation'
  BY DEF CalmInv, Situation
<1>2. CASE UNCHANGED vars
  BY <1>1, <1>2, CalmStutter DEF vars
<1>3. ASSUME NEW k \in Operators, NEW c \in {"start", "shutdown", "kill"}, Command(k, c)
      PROVE  dup' = {} /\ Situation'
  BY <1>1, <1>3, CalmScripts DEF Command
<1>4. ASSUME NEW k \in Operators, ScriptStep(k) PROVE dup' = {} /\ Situation'
  <2>1. calm
    BY <1>1, <1>4 DEF ScriptStep, KillServer, RequestShutdown, ProcessGone, Launch, Started
  <2>2. QED
    BY <1>4, <2>1, CalmScripts
<1>5. ASSUME NEW k \in Operators, Interrupt(k) PROVE FALSE
  BY <1>1, <1>5 DEF Interrupt
<1>6. CASE WatchStart
  <2>1. /\ calm /\ proc["game"] = "boot" /\ proc' = [proc EXCEPT !["game"] = "watch"]
        /\ shuting' \in {"none", shuting} /\ starting' = starting
        /\ UNCHANGED <<dup, inv, asked, op>>
    BY <1>1, <1>6 DEF WatchStart
  <2>2. starting' = starting \ {}
    BY <2>1
  <2>3. QED
    BY <2>1, <2>2, Stages, CalmBoot
<1>7. ASSUME NEW n \in Nodes, SecondListens(n) PROVE dup' = {} /\ Situation'
  BY <1>1, <1>7 DEF SecondListens, CalmInv
<1>8. ASSUME NEW n \in Nodes, Exit(n) PROVE dup' = {} /\ Situation'
  BY <1>1, <1>8, CalmExit DEF Exit
<1>9. ASSUME NEW n \in Nodes, Crash(n) PROVE FALSE
  BY <1>1, <1>9 DEF Crash
<1>10. CASE AgentStart \/ GateOpens
  <2>1. /\ calm /\ shuting' = shuting /\ starting' = starting \ {}
        /\ UNCHANGED <<dup, inv, asked, op>>
        /\ \/ proc["game"] = "watch" /\ proc' = [proc EXCEPT !["game"] = "agent"]
           \/ proc["game"] = "agent" /\ proc' = [proc EXCEPT !["game"] = "gate"]
    BY <1>1, <1>10 DEF AgentStart, GateOpens, nodeVars
  <2>2. QED
    BY <2>1, Stages, CalmBoot
<1>11. CASE GameUp
  <2>1. /\ calm /\ proc["game"] = "gate" /\ proc' = [proc EXCEPT !["game"] = "up"]
        /\ shuting' = shuting /\ starting' = starting \ {"game"}
        /\ UNCHANGED <<dup, inv, asked, op>>
    BY <1>1, <1>11 DEF GameUp
  <2>2. QED
    BY <2>1, Stages, CalmBoot
<1>12. ASSUME NEW i \in Invs, CheckShutdown(i) PROVE dup' = {} /\ Situation'
  BY <1>1, <1>12, CalmCheckShutdown DEF CheckShutdown
<1>13. ASSUME NEW i \in Invs, RolesSaved(i) PROVE dup' = {} /\ Situation'
  BY <1>1, <1>13, CalmRolesSaved DEF RolesSaved
<1>14. ASSUME NEW i \in Invs, ShutdownOver(i) PROVE dup' = {} /\ Situation'
  BY <1>1, <1>14, CalmShutdownOver DEF ShutdownOver
<1>15. ASSUME NEW i \in Invs, NEW o \in Others, ProbeOther(i, o) PROVE dup' = {} /\ Situation'
  BY <1>1, <1>15, CalmProbeOther DEF ProbeOther
<1>17. ASSUME NEW o \in Others, Register(o) \/ ServiceStart(o) PROVE dup' = {} /\ Situation'
  <2>1. /\ calm /\ shuting' = shuting /\ starting' = starting \ {}
        /\ UNCHANGED <<dup, inv, asked, op>>
        /\ \/ proc[o] = "boot" /\ proc' = [proc EXCEPT ![o] = "ready"]
           \/ proc[o] = "ready" /\ proc' = [proc EXCEPT ![o] = "service"]
    BY <1>1, <1>17 DEF Register, ServiceStart, nodeVars
  <2>2. o \in Nodes /\ "ready" \in Stage[o] /\ "service" \in Stage[o]
    BY Stages
  <2>3. QED
    BY <2>1, <2>2, CalmBoot
<1>18. ASSUME NEW o \in Others, Report(o) PROVE dup' = {} /\ Situation'
  <2>1. /\ calm /\ shuting' = shuting /\ starting' = starting \ {o}
        /\ UNCHANGED <<dup, inv, asked, op>>
        /\ proc[o] = "service" /\ proc' = [proc EXCEPT ![o] = "up"]
    BY <1>1, <1>18 DEF Report
  <2>2. o \in Nodes /\ "up" \in Stage[o]
    BY Stages
  <2>3. QED
    BY <2>1, <2>2, CalmBoot
<1>19. ASSUME NEW o \in Others, NEW i \in Invs, OtherShutdown(i, o) PROVE dup' = {} /\ Situation'
  BY <1>1, <1>19, CalmOtherShutdown DEF OtherShutdown
<1>20. QED
  BY <1>2, <1>3, <1>4, <1>5, <1>6, <1>7, <1>8, <1>9, <1>10, <1>11, <1>12, <1>13, <1>14, <1>15,
     <1>17, <1>18, <1>19 DEF Next, GameStep, OtherStep
-----------------------------------------------------------------------------
LEMMA InitOk == Init => TypeOK /\ DueInv /\ CalmInv
<1>1. SUFFICES ASSUME Init PROVE TypeOK /\ DueInv /\ CalmInv
  OBVIOUS
<1>2. PICK c : c = [cmd |-> "shutdown", pc |-> "idle"]
  OBVIOUS
<1>3. c \in Script /\ c.pc = "idle" /\ NoInv \in Inv /\ NoInv.pc = "idle"
  BY <1>2 DEF Script, NoInv, Inv
<1>4. /\ proc = [n \in Nodes |-> "down"] /\ dup = {} /\ starting = {} /\ shuting = "none"
      /\ reported = {} /\ due = {} /\ inv = [i \in Invs |-> NoInv]
      /\ asked = [o \in Others |-> {}] /\ op = [k \in Operators |-> c] /\ calm = TRUE
  BY <1>1, <1>2 DEF Init
<1>5. ProcOK
  <2>1. \A n \in Nodes : "down" \in Stage[n] /\ "down" \in UNION {Stage[m] : m \in Nodes}
    BY Stages
  <2>2. QED
    BY <1>4, <2>1 DEF ProcOK
<1>6. Rest
  BY <1>3, <1>4 DEF Rest
<1>7. Down
  BY <1>3, <1>4 DEF Down, Doing, AllAre, Unasked
<1>8. QED
  BY <1>4, <1>5, <1>6, <1>7, TypeParts DEF DueInv, CalmInv

LEMMA Invariant == Spec => [](TypeOK /\ DueInv)
<1>1. Init => TypeOK /\ DueInv
  BY InitOk
<1>2. TypeOK /\ DueInv /\ [Next]_vars => (TypeOK /\ DueInv)'
  <2>1. ASSUME TypeOK, DueInv, [Next]_vars PROVE TypeOK'
    <3>1. CASE UNCHANGED vars
      BY <2>1, <3>1 DEF TypeOK, vars
    <3>2. ASSUME NEW k \in Operators, NEW c \in {"start", "shutdown", "kill"}, Command(k, c) PROVE TypeOK'
      BY <2>1, <3>2, TypeScripts
    <3>3. ASSUME NEW k \in Operators, ScriptStep(k) \/ Interrupt(k) PROVE TypeOK'
      BY <2>1, <3>3, TypeScripts
    <3>4. ASSUME NEW n \in Nodes, SecondListens(n) \/ Exit(n) \/ Crash(n) PROVE TypeOK'
      BY <2>1, <3>4, TypeNodes
    <3>5. CASE GameStep
      BY <2>1, <3>5, TypeGame
    <3>6. ASSUME NEW o \in Others, OtherStep(o) PROVE TypeOK'
      BY <2>1, <3>6, TypeOthers
    <3>7. QED
      BY <2>1, <3>1, <3>2, <3>3, <3>4, <3>5, <3>6 DEF Next
  <2>2. QED
    BY <2>1, DueStep
<1>3. QED
  BY <1>1, <1>2, PTL DEF Spec

(* The processes and scripts keep their types: only the game node has the  *)
(* stage of the agent, only the others wait for it.                        *)
THEOREM TypeCorrect == Spec => []TypeOK
BY Invariant, PTL

(* However many shutdowns of the game node overlap and whoever runs which  *)
(* script, what a shutdown finds unsaved in the service .agent and in the  *)
(* dynasty node is saved before either aborts (agent_utils.shutdown saves  *)
(* first and waits for the dynasty node); nothing is said of .child_marry, *)
(* whose data the shutdown does not save.                                  *)
THEOREM CallbackHasSaved == Spec => []CallbackSaves
<1>1. TypeOK /\ DueInv => CallbackSaves
  BY DEF TypeOK, DueInv, CallbackSaves, Home, Data
<1>2. QED
  BY Invariant, <1>1, PTL

(* One operator who waits for each script never finds a chat or dynasty    *)
(* process of an earlier server in the way of the next one: the game node  *)
(* is the last to exit, and shutdown_skynet waits for it.                  *)
THEOREM NoNodeLeftBehind ==
  ASSUME OneOperator
  PROVE  Spec => []NoneLeftBehind
<1>1. Init => CalmInv
  BY InitOk
<1>2. TypeOK /\ CalmInv /\ [Next]_vars => CalmInv'
  BY CalmStep
<1>3. TypeOK /\ CalmInv => NoneLeftBehind
  <2>1. SUFFICES ASSUME TypeOK, CalmInv, calm, proc["game"] = "down", \A k \in Operators : op[k].pc = "idle"
                 PROVE  \A n \in Nodes : proc[n] = "down" /\ n \notin dup
    BY DEF NoneLeftBehind
  <2>2. dup = {} /\ Situation
    BY <2>1 DEF CalmInv, Situation
  <2>3. Down
    BY <2>1, <2>2, Stages DEF Situation, Booting, Running, Requested, ShutsDown, LastExit, AllAre
  <2>4. QED
    BY <2>2, <2>3 DEF Down, AllAre
<1>4. QED
  BY <1>1, <1>2, <1>3, Invariant, PTL DEF Spec
=============================================================================
