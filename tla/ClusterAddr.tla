----------------------------- MODULE ClusterAddr ----------------------------
(***************************************************************************)
(* The address book of the cluster.  Every node tells the cluster_router   *)
(* its address with a heartbeat a second; the router tells all nodes of    *)
(* new addresses and, when a node was silent between two of its checks     *)
(* (every three seconds), that it is down.  What the router sends to one   *)
(* node arrives in order and is lost with the node's process.              *)
(***************************************************************************)
EXTENDS Naturals, FiniteSets

CONSTANTS
  Nodes, Addrs,
  Leaving,       (* nodes that are shut down in order; the others crash    *)
  RefreshCount,  (* heartbeats that ask for the whole book: 3 in the code  *)
  MaxStarts,     (* bound: starts of processes                             *)
  MaxPauses      (* bound: checks that come before a heartbeat is due      *)

ASSUME ClusterAddrAssumption ==
  Leaving \subseteq Nodes /\ RefreshCount \in Nat /\ MaxStarts \in Nat /\ MaxPauses \in Nat

Unknown == "unknown"   (* no entry                                         *)
Down == "down"         (* the empty address                                *)
Entry == Addrs \cup {Unknown, Down}

VARIABLES
  status,   (* the process of a node: off, up, or leaving after it has     *)
            (* told the router                                             *)
  addr,     (* the address of the process                                  *)
  refresh,  (* refresh_all_count                                           *)
  book,     (* clusterd's router_map in each node                          *)
  node_dict, down_dict,  (* the router: addresses, silent since the check  *)
  mail,     (* what the router has sent to a node and is under way         *)
  address,  (* the router's NodeCls.address: where it connects to         *)
  cut,      (* nodes whose router connection still leads to a dead process *)
  beaten,   (* nodes that have beaten since the last check                 *)
  starts, pauses

router == <<node_dict, down_dict, mail, address>>
vars == <<status, addr, refresh, book, router, cut, beaten, starts, pauses>>

TypeOK ==
  /\ status \in [Nodes -> {"off", "up", "leaving"}]
  /\ addr \in [Nodes -> Addrs] /\ refresh \in [Nodes -> 0..RefreshCount]
  /\ book \in [Nodes -> [Nodes -> Entry]] /\ mail \in [Nodes -> [Nodes -> Entry]]
  /\ node_dict \in [Nodes -> Entry] /\ address \in [Nodes -> Addrs \cup {Unknown}]
  /\ down_dict \subseteq {n \in Nodes : node_dict[n] \in Addrs}
  /\ cut \subseteq Nodes /\ beaten \subseteq Nodes /\ starts \in 0..MaxStarts /\ pauses \in 0..MaxPauses

Nothing == [n \in Nodes |-> Unknown]

Init ==
  /\ status = [n \in Nodes |-> "off"]
  /\ addr = [n \in Nodes |-> CHOOSE a \in Addrs : TRUE]
  /\ refresh = [n \in Nodes |-> RefreshCount]
  /\ book = [n \in Nodes |-> Nothing] /\ mail = book
  /\ node_dict = Nothing /\ down_dict = {} /\ address = Nothing
  /\ cut = {} /\ beaten = {} /\ starts = 0 /\ pauses = 0

Beating == {n \in Nodes : status[n] \in {"up", "leaving"}}

(* A message with the entries of new is put behind what is under way.      *)
Merge(old, new) == [m \in Nodes |-> IF new[m] = Unknown THEN old[m] ELSE new[m]]

(* cluster_utils.send of new[n] to every node n.                           *)
Post(new, broken) == mail' = [n \in Nodes |-> IF n \in broken THEN mail[n] ELSE Merge(mail[n], new[n])]

Only(n, entry) == [Nothing EXCEPT ![n] = entry]

Listed(dict) == {n \in Nodes : dict[n] \in Addrs}

(* addr_mgr.broadcast_node_addr                                            *)
Broadcast(dict, n, entry) ==
  [k \in Nodes |-> IF k \in Listed(dict) \ {n} THEN Only(n, entry) ELSE Nothing]

-----------------------------------------------------------------------------
(* A process starts, at the address of its predecessor or another one (any *)
(* will do as long as nobody has heard of the node).                       *)
Start(n, a) ==
  /\ status[n] = "off" /\ starts < MaxStarts
  /\ node_dict[n] = Unknown => a = addr[n]
  /\ starts' = starts + 1
  /\ status' = [status EXCEPT ![n] = "up"]
  /\ addr' = [addr EXCEPT ![n] = a]
  /\ refresh' = [refresh EXCEPT ![n] = RefreshCount]
  /\ book' = [book EXCEPT ![n] = Nothing]
  /\ UNCHANGED <<router, cut, beaten, pauses>>

(* The connection of the router is cut with the process.                   *)
Gone(n) ==
  /\ status' = [status EXCEPT ![n] = "off"]
  /\ mail' = [mail EXCEPT ![n] = Nothing]
  /\ cut' = cut \cup {n}
  /\ UNCHANGED <<addr, refresh, book, node_dict, down_dict, address, beaten, starts, pauses>>

Crash(n) == n \notin Leaving /\ status[n] = "up" /\ Gone(n)
Exit(n) == status[n] = "leaving" /\ Gone(n)

(* on_close_sock in the router's clusterd: the next message connects anew. *)
Notice(n) ==
  /\ n \in cut
  /\ cut' = cut \ {n}
  /\ UNCHANGED <<status, addr, refresh, book, router, beaten, starts, pauses>>

(* Mutant: the node asks for the whole book once.                          *)
MutWantsAll(n) == refresh[n] = RefreshCount

(* refresh_all_count > 0                                                   *)
WantsAll(n) == refresh[n] > 0

(* Mutant: the node stays among those the next check takes for down.       *)
MutHeard(n) == down_dict

Heard(n) == down_dict \ {n}

(* A node that is new, back, or at another address than before.            *)
News(n) == node_dict[n] # addr[n]

(* M.send_heartbreak and addr_mgr.on_node_heartbreak; update_node_addr in  *)
(* the router's clusterd gives up the connection of a node that has moved. *)
(* Timing: the router has noticed that an older process died before the    *)
(* last of the heartbeats that ask for everything.                         *)
Beat(n) ==
  /\ n \in Beating
  /\ refresh[n] = 1 => n \notin cut
  /\ refresh' = [refresh EXCEPT ![n] = IF @ > 0 THEN @ - 1 ELSE 0]
  /\ down_dict' = Heard(n)
  /\ beaten' = beaten \cup {n}
  /\ LET dict == [node_dict EXCEPT ![n] = addr[n]]
         moved == address[n] \notin {Unknown, addr[n]}
         all == WantsAll(n) \/ node_dict[n] = Unknown
         news == IF News(n) THEN Broadcast(dict, n, addr[n]) ELSE [k \in Nodes |-> Nothing]
         reconnected == IF moved THEN cut \ {n} ELSE cut
     IN /\ node_dict' = dict
        /\ address' = [address EXCEPT ![n] = addr[n]]
        /\ cut' = reconnected
        /\ Post([news EXCEPT ![n] = IF all THEN dict ELSE Nothing], reconnected)
  /\ UNCHANGED <<status, addr, book, starts, pauses>>

(* lua_handler.lc_shutdown and addr_mgr.on_node_shutdown: the node goes on *)
(* beating until its process exits.                                        *)
Leave(n) ==
  /\ n \in Leaving /\ status[n] = "up"
  /\ status' = [status EXCEPT ![n] = "leaving"]
  /\ down_dict' = down_dict \ {n}
  /\ node_dict' = [node_dict EXCEPT ![n] = Down]
  /\ Post(Broadcast(node_dict', n, Down), cut)
  /\ UNCHANGED <<addr, refresh, book, address, cut, beaten, starts, pauses>>

(* Mutant: the nodes found down are told to those that were found down.    *)
MutToldDown(dict) == down_dict

ToldDown(dict) == Listed(dict)

(* addr_mgr.check_down_node.  Timing: every running node has beaten since  *)
(* the last check, three times in fact, unless one was too slow.           *)
CheckDownNode ==
  /\ IF Beating \subseteq beaten THEN UNCHANGED pauses
     ELSE pauses < MaxPauses /\ pauses' = pauses + 1
  /\ beaten' = {}
  /\ LET dict == [n \in Nodes |-> IF n \in down_dict THEN Down ELSE node_dict[n]]
         dead == [n \in Nodes |-> IF n \in down_dict THEN Down ELSE Unknown]
     IN /\ node_dict' = dict
        /\ Post([k \in Nodes |-> IF k \in ToldDown(dict) THEN dead ELSE Nothing], cut)
        /\ down_dict' = Listed(dict)
  /\ UNCHANGED <<status, addr, refresh, book, address, cut, starts>>

(* lua_handler.ls_update_node_addr and update_node_addr                    *)
Deliver(n) ==
  /\ status[n] \in {"up", "leaving"} /\ mail[n] # Nothing
  /\ book' = [book EXCEPT ![n] = Merge(@, mail[n])]
  /\ mail' = [mail EXCEPT ![n] = Nothing]
  /\ UNCHANGED <<status, addr, refresh, node_dict, down_dict, address, cut, beaten, starts, pauses>>

(* show_self of a connection from m to n.  The services of m start after   *)
(* clusterd has sent the first heartbeat.                                  *)
ShowSelf(m, n) ==
  /\ {m, n} \subseteq Beating /\ m # n /\ book[m][n] = addr[n]
  /\ refresh[m] < RefreshCount
  /\ book' = [book EXCEPT ![n][m] = addr[m]]
  /\ UNCHANGED <<status, addr, refresh, router, cut, beaten, starts, pauses>>

Next ==
  \/ CheckDownNode
  \/ \E n \in Nodes : \/ Crash(n) \/ Exit(n) \/ Notice(n)
                      \/ Beat(n) \/ Leave(n) \/ Deliver(n)
                      \/ \E a \in Addrs : Start(n, a)
                      \/ \E m \in Nodes : ShowSelf(m, n)

Spec == Init /\ [][Next]_vars

(* Timers fire, messages arrive, broken connections are noticed, and a     *)
(* process that is told to exit exits.                                     *)
FairSpec ==
  /\ Spec /\ WF_vars(CheckDownNode)
  /\ \A n \in Nodes : /\ WF_vars(Beat(n)) /\ WF_vars(Deliver(n))
                      /\ WF_vars(Notice(n)) /\ WF_vars(Exit(n))

-----------------------------------------------------------------------------
(* No process has been too slow for its heartbeats.                        *)
Prompt == pauses = 0

(* addr_mgr.lua:58: a node is taken for down by a check only if it has     *)
(* not been heard since the check before; one that runs never is, unless   *)
(* it was too slow for its heartbeats.                                     *)
DownMeansSilent ==
  [][\A n \in Nodes : (Prompt' /\ node_dict[n] \in Addrs /\ node_dict'[n] = Down) =>
                         n \notin Beating \/ status'[n] = "leaving"]_vars

(* Two nodes that stay up: each ends with the address of the other.        *)
BooksConverge ==
  \A n, m \in Nodes :
    <>[](Prompt /\ status[n] = "up" /\ status[m] = "up") => <>[](book[n][m] = addr[m])

(* A node that has crashed for good disappears from every book.  (One that *)
(* left may open a connection after it said so and stay in a book.)        *)
DeadForgotten ==
  \A n \in Nodes, m \in Nodes \ Leaving :
    <>[](Prompt /\ status[n] = "up" /\ status[m] = "off") => <>[](book[n][m] \in {Down, Unknown})

(* The router's own list is right in the end, slow nodes or not.           *)
RouterConverges ==
  \A n \in Nodes : /\ <>[](status[n] = "up") => <>[](node_dict[n] = addr[n])
                   /\ <>[](status[n] = "off") => <>[](node_dict[n] \in {Down, Unknown})

=============================================================================
