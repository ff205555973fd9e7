---------------------------- MODULE AgentShutdown ---------------------------
(***************************************************************************)
(* agent_utils.shutdown: every online role is kicked in a coroutine of its *)
(* own, then role_db.save_all writes what is still in memory.  The list of *)
(* online roles is the live role_cls.role_list: a role that is gone makes  *)
(* the rest of the list move up while ipairs walks over it.  A logout      *)
(* drops the entry of the role, waits for the database and only then       *)
(* leaves the list; the role lock, whose 10 s timeout is left out, makes   *)
(* another logout of the role wait meanwhile.                              *)
(***************************************************************************)
EXTENDS Naturals, Sequences, FiniteSets, SequencesExt

CONSTANTS
  Online,     (* the roles that are loaded when the shutdown begins        *)
  Changed,    (* those of them that are not in the database as they are    *)
  Late,       (* roles whose login was accepted before and loads now       *)
  Batch,      (* the loop sleeps before every Batch-th role: 3 in the code *)
  MaxSaving   (* and while more kicks than this run: 800 in the code       *)

ASSUME AgentShutdownAssumption ==
  /\ Online # {} /\ Online \cap Late = {} /\ Changed \subseteq Online
  /\ IsFiniteSet(Online) /\ IsFiniteSet(Late)
  /\ Batch \in Nat \ {0} /\ MaxSaving \in Nat

Roles == Online \cup Late

VARIABLES
  phase,      (* where shutdown is                                         *)
  role_list,
  index,      (* the position ipairs looks at next                         *)
  uuid,       (* the role the loop sleeps on, or save_all writes           *)
  kicking,    (* _shutdown_uuid_dict                                       *)
  kicked,     (* the roles that have left the list                         *)
  entries,    (* the roles with an entry in role_db                        *)
  logout,     (* who runs the logout of a role that is being written       *)
  unsaved,    (* roles that changed before the shutdown and are not in the *)
              (* database as they were then                                *)
  saving,     (* the roles save_all has still to come to                   *)
  loading,    (* late roles that are not loaded yet                        *)
  left        (* history: the roles that left while the loop slept         *)

dbVars == <<entries, logout, unsaved>>
vars == <<phase, role_list, index, uuid, kicking, kicked, dbVars, saving, loading, left>>

TypeOK ==
  /\ phase \in {"loop", "sleep", "kick", "wait", "save", "write", "rest", "over"}
  /\ role_list \in Seq(Roles) /\ IsInjective(role_list)
  /\ index \in 1..(Cardinality(Roles) + 1)
  /\ uuid \in Roles
  /\ {kicking, kicked, entries, unsaved, saving, left} \subseteq SUBSET Roles
  /\ logout \in [Roles -> {"none", "quit", "kick"}]
  /\ loading \subseteq Late

(* The roles that are logging out: written, but not gone.                  *)
Leaving == {u \in Roles : logout[u] # "none"}

Init ==
  /\ phase = "loop"
  /\ role_list \in SetToSeqs(Online)
  /\ index = 1 /\ uuid = role_list[1]
  /\ kicking = {} /\ kicked = {}
  /\ entries \in SUBSET Online
  /\ logout = [u \in Roles |-> IF u \in Online \ entries THEN "quit" ELSE "none"]
  /\ unsaved = Changed
  /\ saving = {} /\ loading = Late /\ left = {}

(* table.delete: the first entry that is u goes, those behind it move up.  *)
FirstAt(list, u) ==
  CHOOSE k \in DOMAIN list : list[k] = u /\ \A m \in 1..(k - 1) : list[m] # u

Delete(list, u) == IF u \in ToSet(list) THEN RemoveAt(list, FirstAt(list, u)) ELSE list

(* Other coroutines run while shutdown sleeps or waits for the database.   *)
Yielded == phase \in {"sleep", "wait", "write", "rest"}

(* saving_count                                                            *)
Throttled == Cardinality(kicking) > MaxSaving

-----------------------------------------------------------------------------
(* The next role of the list: before every third one, and while too many   *)
(* kicks run, the loop sleeps.                                             *)
Iterate ==
  /\ phase = "loop" /\ index <= Len(role_list)
  /\ uuid' = role_list[index]
  /\ phase' = IF index % Batch = 0 \/ Throttled THEN "sleep" ELSE "kick"
  /\ UNCHANGED <<role_list, index, kicking, kicked, dbVars, saving, loading, left>>

(* Mutant: the role the loop slept on is forgotten.                        *)
MutTaken == IF phase = "sleep" THEN {} ELSE {uuid}

Taken == {uuid}

(* The kick is forked; it begins when the loop yields.  A sleeping loop    *)
(* goes on when few enough kicks run.                                      *)
ForkKick ==
  /\ phase \in {"kick", "sleep"} /\ ~Throttled
  /\ kicking' = kicking \cup Taken
  /\ index' = index + 1
  /\ phase' = "loop"
  /\ UNCHANGED <<role_list, uuid, kicked, dbVars, saving, loading, left>>

LoopEnds ==
  /\ phase = "loop" /\ index > Len(role_list)
  /\ phase' = "wait"
  /\ UNCHANGED <<role_list, index, uuid, kicking, kicked, dbVars, saving, loading, left>>

(* Mutant: only roles the loop did not start a kick for are written.       *)
MutEntries == entries \cap {role_list[k] : k \in {n \in DOMAIN role_list : n >= index}}

(* The roles in role_db: one whose logout has begun has no entry there.    *)
Entries == entries

(* Mutant: the end of the kicks is recognised by the empty list of roles.  *)
MutKicksDoneOnline == role_list = <<>>

(* not next(_shutdown_uuid_dict)                                           *)
KicksDone == kicking = {}

SaveAll ==
  /\ phase = "wait" /\ KicksDone
  /\ phase' = "save"
  /\ saving' = Entries
  /\ UNCHANGED <<role_list, index, uuid, kicking, kicked, dbVars, loading, left>>

(* save_role, without the role lock: the entry goes, then the role is      *)
(* written; nothing is done for a role whose entry went meanwhile.         *)
SaveRole(u) ==
  /\ phase = "save" /\ u \in saving
  /\ saving' = saving \ {u}
  /\ IF u \in entries THEN phase' = "write" /\ uuid' = u ELSE UNCHANGED <<phase, uuid>>
  /\ entries' = entries \ {u}
  /\ UNCHANGED <<role_list, index, kicking, kicked, logout, unsaved, loading, left>>

SaveWritten ==
  /\ phase = "write"
  /\ phase' = "save"
  /\ unsaved' = unsaved \ {uuid}
  /\ UNCHANGED <<role_list, index, uuid, kicking, kicked, entries, logout, saving, loading, left>>

(* What else the node saves, and its wait for the other nodes, follow.     *)
AllSaved ==
  /\ phase = "save" /\ saving = {}
  /\ phase' = "rest"
  /\ UNCHANGED <<role_list, index, uuid, kicking, kicked, dbVars, saving, loading, left>>

Over ==
  /\ phase = "rest"
  /\ phase' = "over"
  /\ UNCHANGED <<role_list, index, uuid, kicking, kicked, dbVars, saving, loading, left>>

-----------------------------------------------------------------------------
(* role_cls.logout with the role lock: the entry goes and the database is  *)
(* called.  While another logout of the role is under way this one waits.  *)
LogoutBegins(u, by) ==
  /\ Yielded /\ u \in entries /\ logout[u] = "none"
  /\ entries' = entries \ {u}
  /\ logout' = [logout EXCEPT ![u] = by]
  /\ UNCHANGED <<phase, role_list, index, uuid, kicking, kicked, unsaved, saving, loading, left>>

(* role_cls.remove                                                         *)
Leaves(u) ==
  /\ role_list' = Delete(role_list, u)
  /\ left' = IF phase = "sleep" THEN left \cup {u} ELSE left
  /\ kicked' = kicked \cup {u}

(* The role is written and leaves the list; the logout of a kick ends it.  *)
LogoutEnds(u) ==
  /\ Yielded /\ logout[u] # "none"
  /\ logout' = [logout EXCEPT ![u] = "none"]
  /\ unsaved' = unsaved \ {u}
  /\ Leaves(u)
  /\ kicking' = IF logout[u] = "kick" THEN kicking \ {u} ELSE kicking
  /\ UNCHANGED <<phase, index, uuid, entries, saving, loading>>

(* c_client_quit, or half an hour after a disconnection                    *)
ClientQuits(u) == LogoutBegins(u, "quit")

(* The same after save_all: the role has no entry any more and is removed. *)
QuitsLate(u) ==
  /\ Yielded /\ u \in ToSet(role_list) \ entries /\ logout[u] = "none"
  /\ Leaves(u)
  /\ UNCHANGED <<phase, index, uuid, kicking, dbVars, saving, loading>>

(* role:kick in its own coroutine                                          *)
KickBegins(u) == u \in kicking /\ LogoutBegins(u, "kick")

(* A kick whose role another logout has removed.                           *)
KickEnds(u) ==
  /\ Yielded /\ u \in kicking \ ToSet(role_list)
  /\ kicking' = kicking \ {u}
  /\ UNCHANGED <<phase, role_list, index, uuid, kicked, dbVars, saving, loading, left>>

(* role_cls._load of a login that was accepted before the shutdown.        *)
LateLoad(u) ==
  /\ Yielded /\ u \in loading
  /\ loading' = loading \ {u}
  /\ role_list' = Append(role_list, u)
  /\ entries' = entries \cup {u}
  /\ UNCHANGED <<phase, index, uuid, kicking, kicked, logout, unsaved, saving, left>>

Done == phase = "over" /\ UNCHANGED vars

ShutdownStep ==
  \/ Iterate \/ ForkKick \/ LoopEnds
  \/ SaveAll \/ SaveWritten \/ AllSaved \/ Over \/ \E u \in Roles : SaveRole(u)

KickStep(u) == KickBegins(u) \/ LogoutEnds(u) \/ KickEnds(u)

Next ==
  \/ ShutdownStep \/ Done
  \/ \E u \in Roles : KickStep(u) \/ ClientQuits(u) \/ QuitsLate(u) \/ LateLoad(u)

Spec == Init /\ [][Next]_vars

(* The coroutine of shutdown is resumed and every kick comes to an end:    *)
(* role.kick runs under xpcall, and it waits for the database, or for the  *)
(* role lock of a logout that waits for the database.                      *)
FairSpec ==
  /\ Spec
  /\ WF_vars(ShutdownStep)
  /\ \A u \in Roles : WF_vars(KickStep(u))

-----------------------------------------------------------------------------
(* Whatever a role had changed when the shutdown began is in the database  *)
(* when the node may abort, also for the roles the loop passed over; only  *)
(* the last write of a logout that nobody waits for may still be under way *)
(* (agent_utils.shutdown, role_db.save_all).                               *)
EarlierChangesSaved == phase = "over" => unsaved \subseteq Leaving

(* The shutdown ends, however many logins and logouts happen meanwhile.    *)
ShutdownEnds == <>(phase = "over")

(* agent_utils.lua:21 "所有玩家下线" (all players go offline).  The loop   *)
(* takes the roles that were online at its beginning, except that it       *)
(* passes over at most as many as left while it slept: the list is live.   *)
FewPassedOver ==
  phase \in {"save", "write", "rest", "over"} => Cardinality(Online \ kicked) <= Cardinality(left)

=============================================================================
