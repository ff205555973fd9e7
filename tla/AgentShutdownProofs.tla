------------------------ MODULE AgentShutdownProofs ------------------------
(***************************************************************************)
(* The inductive invariant of AgentShutdown.  What the loop has still to   *)
(* take are the roles behind its position and the one it sleeps on; a role *)
(* that leaves the list while the loop sleeps moves at most one other role *)
(* to a position the loop is past, and such a role is passed over.         *)
(***************************************************************************)
EXTENDS AgentShutdown, FiniteSetTheorems, SequenceTheorems, TLAPS

(* The roles from position k of the list on.                               *)
Behind(k) == {role_list[m] : m \in {n \in DOMAIN role_list : n >= k}}

(* The roles the loop has still to start a kick for.                       *)
ToTake ==
  IF phase = "loop" THEN Behind(index)
  ELSE IF phase \in {"sleep", "kick"} THEN {uuid} \cup Behind(index + 1) ELSE {}

(* The roles that were online and are not kicked: not yet, or never.       *)
Passed == Online \ (kicked \cup kicking \cup ToTake)

(* The loop does not get past the end of the list by more than one.        *)
LoopInv ==
  /\ phase \in {"sleep", "kick"} => index <= Cardinality(Roles)
  /\ phase \in {"save", "write", "rest", "over"} => kicking = {}

(* A role has its entry, or is written, only while it is in the list; one  *)
(* that left does not come back, one that still loads never was in.        *)
ListInv ==
  /\ entries \cup Leaving \subseteq ToSet(role_list) /\ entries \cap Leaving = {}
  /\ kicking \cup {uuid} \subseteq ToSet(role_list) \cup kicked
  /\ loading \cap (ToSet(role_list) \cup kicked) = {}
  /\ kicked \cap ToSet(role_list) = {} /\ left \subseteq kicked

(* The role that save_all waits for.                                       *)
Written == IF phase = "write" THEN {uuid} ELSE {}

(* What is not in the database belongs to a role that has its entry and    *)
(* that save_all has still to come to, or to one that is being written.    *)
SavedInv ==
  /\ unsaved \cap loading = {}
  /\ unsaved \subseteq entries \cup Leaving \cup Written
  /\ phase \in {"save", "write"} => unsaved \cap entries \subseteq saving
  /\ phase \in {"rest", "over"} => unsaved \cap entries = {}

PassedInv == Cardinality(Passed) <= Cardinality(left)

IInv == TypeOK /\ LoopInv /\ ListInv /\ SavedInv /\ PassedInv

-----------------------------------------------------------------------------
(* Lists                                                                    *)

LEMMA EntriesOf ==
  ASSUME NEW S, NEW s \in Seq(S)
  PROVE  /\ DOMAIN s = 1..Len(s) /\ Len(s) \in Nat
         /\ \A k \in 1..Len(s) : s[k] \in S
         /\ ToSet(s) = {s[k] : k \in 1..Len(s)}
  BY DEF ToSet

(* table.remove: the entries behind the position move up by one.           *)
LEMMA RemoveAtEntries ==
  ASSUME NEW S, NEW s \in Seq(S), NEW p \in 1..Len(s)
  PROVE  /\ RemoveAt(s, p) \in Seq(S)
         /\ Len(RemoveAt(s, p)) = Len(s) - 1
         /\ \A k \in 1..(Len(s) - 1) :
              RemoveAt(s, p)[k] = IF k < p THEN s[k] ELSE s[k + 1]
<1>1. Len(s) \in Nat /\ p \in Nat /\ p >= 1 /\ p <= Len(s) /\ \A k \in 1..Len(s) : s[k] \in S
  BY EntriesOf
<1>2. PICK a \in Seq(S) : /\ a = SubSeq(s, 1, p - 1) /\ Len(a) = p - 1
                          /\ \A k \in 1..(p - 1) : a[k] = s[k]
  <2>1. \A k \in 1..(p - 1) : s[k] \in S
    BY <1>1
  <2>2. PICK a : a = SubSeq(s, 1, p - 1)
    OBVIOUS
  <2>3. /\ a \in Seq(S) /\ Len(a) = (IF 1 <= p - 1 THEN (p - 1) - 1 + 1 ELSE 0)
        /\ \A k \in 1..((p - 1) - 1 + 1) : a[k] = s[1 + k - 1]
    BY <1>1, <2>1, <2>2, SubSeqProperties
  <2>4. Len(a) = p - 1 /\ \A k \in 1..(p - 1) : a[k] = s[k]
    BY <1>1, <2>3
  <2>5. QED
    BY <2>2, <2>3, <2>4
<1>3. PICK b \in Seq(S) : /\ b = SubSeq(s, p + 1, Len(s)) /\ Len(b) = Len(s) - p
                          /\ \A k \in 1..(Len(s) - p) : b[k] = s[p + k]
  <2>1. \A k \in (p + 1)..Len(s) : s[k] \in S
    BY <1>1
  <2>2. PICK b : b = SubSeq(s, p + 1, Len(s))
    OBVIOUS
  <2>3. /\ b \in Seq(S) /\ Len(b) = (IF p + 1 <= Len(s) THEN Len(s) - (p + 1) + 1 ELSE 0)
        /\ \A k \in 1..(Len(s) - (p + 1) + 1) : b[k] = s[(p + 1) + k - 1]
    BY <1>1, <2>1, <2>2, SubSeqProperties
  <2>4. Len(b) = Len(s) - p /\ \A k \in 1..(Len(s) - p) : b[k] = s[p + k]
    BY <1>1, <2>3
  <2>5. QED
    BY <2>2, <2>3, <2>4
<1>4. PICK c : c = a \o b
  OBVIOUS
<1>5. /\ c \in Seq(S) /\ Len(c) = Len(s) - 1
      /\ \A k \in 1..(Len(s) - 1) : c[k] = IF k <= p - 1 THEN a[k] ELSE b[k - (p - 1)]
  <2>1. /\ c \in Seq(S) /\ Len(c) = Len(a) + Len(b)
        /\ \A k \in 1..(Len(a) + Len(b)) : c[k] = IF k <= Len(a) THEN a[k] ELSE b[k - Len(a)]
    BY <1>4, ConcatProperties
  <2>2. Len(a) + Len(b) = Len(s) - 1
    <3>1. Len(a) = p - 1 /\ Len(b) = Len(s) - p
      BY <1>2, <1>3
    <3>2. \A n \in Nat : (p - 1) + (n - p) = n - 1
      BY <1>1
    <3>3. QED
      BY <1>1, <3>1, <3>2
  <2>3. QED
    BY <1>2, <2>1, <2>2
<1>6. RemoveAt(s, p) = c
  BY <1>2, <1>3, <1>4 DEF RemoveAt
<1>7. ASSUME NEW k \in 1..(Len(s) - 1)
      PROVE  c[k] = IF k < p THEN s[k] ELSE s[k + 1]
  <2>1. k \in Nat /\ k >= 1 /\ k <= Len(s) - 1
    BY <1>1
  <2>2. CASE k < p
    <3>1. k \in 1..(p - 1) /\ k <= p - 1
      BY <1>1, <2>1, <2>2
    <3>2. QED
      BY <1>2, <1>5, <2>2, <3>1
  <2>3. CASE k >= p
    <3>1. /\ k - (p - 1) \in 1..(Len(s) - p) /\ p + (k - (p - 1)) = k + 1
          /\ ~(k <= p - 1) /\ ~(k < p)
      BY <1>1, <2>1, <2>3
    <3>2. QED
      BY <1>3, <1>5, <3>1
  <2>4. QED
    BY <1>1, <2>1, <2>2, <2>3
<1>8. QED
  BY <1>5, <1>6, <1>7

(* table.delete of an entry that the list has once.                        *)
LEMMA DeleteEntry ==
  ASSUME NEW S, NEW s \in Seq(S), IsInjective(s), NEW p \in 1..Len(s)
  PROVE  Delete(s, s[p]) = RemoveAt(s, p)
<1>1. DOMAIN s = 1..Len(s) /\ Len(s) \in Nat /\ s[p] \in ToSet(s)
  BY EntriesOf
<1>2. \A k \in DOMAIN s : s[k] = s[p] => k = p
  BY <1>1 DEF IsInjective
<1>3. \A m \in 1..(p - 1) : s[m] # s[p]
  BY <1>1, <1>2
<1>4. FirstAt(s, s[p]) = p
  BY <1>1, <1>2, <1>3 DEF FirstAt
<1>5. QED
  BY <1>1, <1>4 DEF Delete

(* The list stays one without repetitions and loses u only.                *)
LEMMA DeleteList ==
  ASSUME NEW S, NEW s \in Seq(S), IsInjective(s), NEW u
  PROVE  /\ Delete(s, u) \in Seq(S) /\ IsInjective(Delete(s, u))
         /\ ToSet(Delete(s, u)) = ToSet(s) \ {u}
<1>1. CASE u \notin ToSet(s)
  BY <1>1 DEF Delete
<1>2. CASE u \in ToSet(s)
  <2>1. PICK p \in 1..Len(s) : u = s[p]
    BY <1>2, EntriesOf
  <2>2. PICK d : d = Delete(s, u)
    OBVIOUS
  <2>3. /\ d \in Seq(S) /\ Len(d) = Len(s) - 1
        /\ \A k \in 1..(Len(s) - 1) : d[k] = IF k < p THEN s[k] ELSE s[k + 1]
    BY <2>1, <2>2, DeleteEntry, RemoveAtEntries
  <2>4. Len(s) \in Nat /\ DOMAIN s = 1..Len(s) /\ ToSet(s) = {s[k] : k \in 1..Len(s)}
    BY EntriesOf
  <2>5. DOMAIN d = 1..(Len(s) - 1) /\ ToSet(d) = {d[k] : k \in 1..(Len(s) - 1)}
    BY <2>3, EntriesOf
  <2>6. \A j, k \in 1..Len(s) : s[j] = s[k] => j = k
    BY <2>4 DEF IsInjective
  <2>7. IsInjective(d)
    <3>1. ASSUME NEW j \in 1..(Len(s) - 1), NEW k \in 1..(Len(s) - 1), d[j] = d[k]
          PROVE  j = k
      BY <2>3, <2>4, <2>6, <3>1
    <3>2. QED
      BY <2>5, <3>1 DEF IsInjective
  <2>8. ASSUME NEW k \in 1..(Len(s) - 1)
        PROVE  d[k] \in ToSet(s) \ {u}
    BY <2>1, <2>3, <2>4, <2>6
  <2>9. ASSUME NEW k \in 1..Len(s), s[k] # u
        PROVE  s[k] \in ToSet(d)
    <3>1. CASE k < p
      BY <2>3, <2>4, <2>5, <3>1
    <3>2. CASE k > p
      <4>1. k - 1 \in 1..(Len(s) - 1) /\ ~(k - 1 < p) /\ (k - 1) + 1 = k
        BY <2>4, <3>2
      <4>2. d[k - 1] = s[k]
        BY <2>3, <4>1
      <4>3. QED
        BY <2>5, <4>1, <4>2
    <3>3. QED
      BY <2>1, <2>9, <3>1, <3>2
  <2>10. ToSet(d) = ToSet(s) \ {u}
    <3>1. ASSUME NEW x \in ToSet(s) \ {u} PROVE x \in ToSet(d)
      <4>1. PICK k \in 1..Len(s) : x = s[k]
        BY <2>4
      <4>2. QED
        BY <2>9, <4>1
    <3>2. ASSUME NEW x \in ToSet(d) PROVE x \in ToSet(s) \ {u}
      BY <2>5, <2>8
    <3>3. QED
      BY <3>1, <3>2
  <2>11. QED
    BY <2>2, <2>3, <2>7, <2>10
<1>3. QED
  BY <1>1, <1>2

(* A list without repetitions is not longer than there are roles.          *)
LEMMA ListLength ==
  ASSUME NEW S, IsFiniteSet(S), NEW s \in Seq(S), IsInjective(s)
  PROVE  Len(s) <= Cardinality(S)
<1>1. Len(s) \in Nat /\ DOMAIN s = 1..Len(s) /\ s \in [1..Len(s) -> S]
  BY EntriesOf
<1>2. s \in Injection(1..Len(s), S)
  BY <1>1 DEF Injection, IsInjective
<1>3. Cardinality(1..Len(s)) = Len(s)
  BY <1>1, FS_Interval
<1>4. QED
  BY <1>2, <1>3, FS_Injection

(* The list that the shutdown begins with has every role once.             *)
LEMMA FirstList ==
  ASSUME NEW S, IsFiniteSet(S), NEW s \in SetToSeqs(S)
  PROVE  s \in Seq(S) /\ IsInjective(s) /\ ToSet(s) = S
<1>1. PICK n \in Nat : n = Cardinality(S)
  BY FS_CardinalityType
<1>2. s \in [1..n -> S] /\ \A i, j \in 1..n : i # j => s[i] # s[j]
  BY <1>1 DEF SetToSeqs
<1>3. s \in Seq(S) /\ IsInjective(s) /\ s \in Injection(1..n, S)
  BY <1>2 DEF Injection, IsInjective
<1>4. Cardinality(1..n) = Cardinality(S)
  BY <1>1, FS_Interval
<1>5. s \in Surjection(1..n, S)
  BY <1>3, <1>4, FS_Injection
<1>6. ToSet(s) = S
  BY <1>2, <1>5 DEF ToSet, Surjection
<1>7. QED
  BY <1>3, <1>6

LEMMA FiniteRoles ==
  /\ IsFiniteSet(Online) /\ IsFiniteSet(Roles) /\ Online \subseteq Roles /\ Late \subseteq Roles
  /\ Cardinality(Roles) \in Nat /\ Online \cap Late = {}
<1>1. IsFiniteSet(Roles)
  BY AgentShutdownAssumption, FS_Union DEF Roles
<1>2. QED
  BY <1>1, AgentShutdownAssumption, FS_CardinalityType DEF Roles

-----------------------------------------------------------------------------
(* The list, the loop and the roles that left                              *)

LEMMA TypeParts ==
  TypeOK <=> /\ phase \in {"loop", "sleep", "kick", "wait", "save", "write", "rest", "over"}
             /\ role_list \in Seq(Roles) /\ IsInjective(role_list)
             /\ index \in 1..(Cardinality(Roles) + 1) /\ uuid \in Roles
             /\ kicking \subseteq Roles /\ kicked \subseteq Roles /\ unsaved \subseteq Roles
             /\ entries \subseteq Roles /\ logout \in [Roles -> {"none", "quit", "kick"}]
             /\ saving \subseteq Roles /\ left \subseteq Roles /\ loading \subseteq Late
  BY DEF TypeOK

LEMMA TypePartsNext ==
  TypeOK' <=> /\ phase' \in {"loop", "sleep", "kick", "wait", "save", "write", "rest", "over"}
              /\ role_list' \in Seq(Roles) /\ IsInjective(role_list')
              /\ index' \in 1..(Cardinality(Roles) + 1) /\ uuid' \in Roles
              /\ kicking' \subseteq Roles /\ kicked' \subseteq Roles /\ unsaved' \subseteq Roles
              /\ entries' \subseteq Roles /\ logout' \in [Roles -> {"none", "quit", "kick"}]
              /\ saving' \subseteq Roles /\ left' \subseteq Roles /\ loading' \subseteq Late
  BY DEF TypeOK

(* What happens to the list and to the marks when a role goes.             *)
LEMMA LeavesList ==
  ASSUME TypeOK, NEW u \in Roles, Leaves(u)
  PROVE  /\ role_list' \in Seq(Roles) /\ IsInjective(role_list')
         /\ ToSet(role_list') = ToSet(role_list) \ {u}
         /\ kicked' = kicked \cup {u}
         /\ left' = IF phase = "sleep" THEN left \cup {u} ELSE left
  BY TypeParts, DeleteList DEF Leaves

BaseInv == TypeOK /\ LoopInv /\ ListInv

LEMMA LeavesBase ==
  ASSUME BaseInv, NEW u \in Roles, Leaves(u), u \notin loading,
         kicking' \in {kicking, kicking \ {u}}, u \notin entries, entries' = entries, unsaved' \subseteq unsaved,
         logout' \in [Roles -> {"none", "quit", "kick"}], Leaving' = Leaving \ {u},
         UNCHANGED <<phase, index, uuid, saving, loading>>
  PROVE  BaseInv'
<1>1. TypeOK'
  BY LeavesList, TypeParts, TypePartsNext DEF BaseInv
<1>2. LoopInv'
  BY DEF BaseInv, LoopInv
<1>3. ListInv'
  BY LeavesList DEF BaseInv, ListInv
<1>4. QED
  BY <1>1, <1>2, <1>3 DEF BaseInv

(* A logout that begins makes its role one that is being written.          *)
LEMMA BeginsLeaving ==
  ASSUME TypeOK, NEW u \in Roles, NEW by \in {"quit", "kick"}, LogoutBegins(u, by)
  PROVE  /\ Leaving' = Leaving \cup {u} /\ logout' \in [Roles -> {"none", "quit", "kick"}]
         /\ entries' = entries \ {u} /\ u \in entries
  BY TypeParts DEF LogoutBegins, Leaving

(* The end of a logout, whoever began it.                                  *)
LEMMA EndsLeaving ==
  ASSUME TypeOK, NEW u \in Roles, LogoutEnds(u)
  PROVE  /\ Leaving' = Leaving \ {u} /\ u \in Leaving
         /\ logout' \in [Roles -> {"none", "quit", "kick"}]
         /\ kicking' \in {kicking, kicking \ {u}} /\ Leaves(u)
         /\ entries' = entries /\ unsaved' = unsaved \ {u}
         /\ UNCHANGED <<phase, index, uuid, saving, loading>>
  BY TypeParts DEF LogoutEnds, Leaving

LEMMA IterateBase ==
  ASSUME BaseInv, Iterate
  PROVE  BaseInv'
<1>1. /\ role_list \in Seq(Roles) /\ IsInjective(role_list)
      /\ index \in Nat /\ index >= 1 /\ index <= Len(role_list)
  BY TypeParts, FiniteRoles DEF BaseInv, Iterate
<1>2. Len(role_list) <= Cardinality(Roles)
  BY <1>1, FiniteRoles, ListLength
<1>3. uuid' \in Roles /\ uuid' \in ToSet(role_list)
  BY <1>1, EntriesOf DEF Iterate
<1>4. TypeOK'
  BY <1>3, TypeParts, TypePartsNext DEF BaseInv, Iterate, dbVars
<1>5. LoopInv'
  <2>1. Len(role_list) \in Nat
    BY <1>1, EntriesOf
  <2>2. index <= Cardinality(Roles)
    BY <1>1, <1>2, <2>1, FiniteRoles
  <2>3. QED
    BY <2>2 DEF BaseInv, LoopInv, Iterate
<1>6. ListInv'
  BY <1>3 DEF BaseInv, ListInv, Iterate, dbVars, Leaving
<1>7. QED
  BY <1>4, <1>5, <1>6 DEF BaseInv

LEMMA ForkKickBase ==
  ASSUME BaseInv, ForkKick
  PROVE  BaseInv'
<1>1. index \in 1..(Cardinality(Roles) + 1) /\ index <= Cardinality(Roles)
  BY TypeParts DEF BaseInv, LoopInv, ForkKick
<1>2. index + 1 \in 1..(Cardinality(Roles) + 1)
  BY <1>1, FiniteRoles
<1>3. TypeOK'
  BY <1>2, TypeParts, TypePartsNext DEF BaseInv, ForkKick, Taken, dbVars
<1>4. LoopInv'
  BY DEF BaseInv, LoopInv, ForkKick
<1>5. ListInv'
  BY DEF BaseInv, ListInv, ForkKick, Taken, dbVars, Leaving
<1>6. QED
  BY <1>3, <1>4, <1>5 DEF BaseInv

LEMMA LateLoadBase ==
  ASSUME BaseInv, NEW u \in Roles, LateLoad(u)
  PROVE  BaseInv'
<1>1. /\ role_list \in Seq(Roles) /\ IsInjective(role_list)
      /\ u \notin ToSet(role_list) /\ role_list' = Append(role_list, u)
  BY TypeParts DEF BaseInv, ListInv, LateLoad
<1>2. /\ Len(role_list) \in Nat /\ DOMAIN role_list = 1..Len(role_list)
      /\ ToSet(role_list) = {role_list[k] : k \in 1..Len(role_list)}
  BY <1>1, EntriesOf
<1>3. /\ role_list' \in Seq(Roles) /\ Len(role_list') = Len(role_list) + 1
      /\ \A k \in 1..Len(role_list) : role_list'[k] = role_list[k]
      /\ role_list'[Len(role_list) + 1] = u
  BY <1>1, AppendProperties
<1>4. DOMAIN role_list' = 1..(Len(role_list) + 1)
      /\ ToSet(role_list') = {role_list'[k] : k \in 1..(Len(role_list) + 1)}
  BY <1>3, EntriesOf
<1>5. IsInjective(role_list')
  <2>1. ASSUME NEW j \in 1..(Len(role_list) + 1), NEW k \in 1..(Len(role_list) + 1),
               role_list'[j] = role_list'[k]
        PROVE  j = k
    BY <1>1, <1>2, <1>3, <2>1 DEF IsInjective
  <2>2. QED
    BY <1>4, <2>1 DEF IsInjective
<1>6. ToSet(role_list') = ToSet(role_list) \cup {u}
  BY <1>2, <1>3, <1>4
<1>7. TypeOK'
  BY <1>3, <1>5, TypeParts, TypePartsNext DEF BaseInv, LateLoad
<1>8. LoopInv'
  BY DEF BaseInv, LoopInv, LateLoad
<1>9. ListInv'
  BY <1>6 DEF BaseInv, ListInv, LateLoad, Leaving
<1>10. QED
  BY <1>7, <1>8, <1>9 DEF BaseInv

LEMMA SaveRoleBase ==
  ASSUME BaseInv, NEW u \in Roles, SaveRole(u)
  PROVE  BaseInv'
<1>1. TypeOK'
  BY TypeParts, TypePartsNext DEF BaseInv, SaveRole
<1>2. LoopInv'
  BY DEF BaseInv, LoopInv, SaveRole
<1>3. ListInv'
  BY DEF BaseInv, ListInv, SaveRole, Leaving
<1>4. QED
  BY <1>1, <1>2, <1>3 DEF BaseInv

LEMMA LogoutBase ==
  ASSUME BaseInv, NEW u \in Roles, NEW by \in {"quit", "kick"}, LogoutBegins(u, by)
  PROVE  BaseInv'
<1>1. TypeOK'
  BY BeginsLeaving, TypeParts, TypePartsNext DEF BaseInv, LogoutBegins
<1>2. LoopInv'
  BY DEF BaseInv, LoopInv, LogoutBegins
<1>3. ListInv'
  BY BeginsLeaving DEF BaseInv, ListInv, LogoutBegins
<1>4. QED
  BY <1>1, <1>2, <1>3 DEF BaseInv

(* How a step of the shutdown or of another coroutine looks.               *)
LEMMA BaseStep ==
  ASSUME BaseInv, [Next]_vars
  PROVE  BaseInv'
<1>1. CASE Iterate
  BY <1>1, IterateBase
<1>2. CASE ForkKick
  BY <1>2, ForkKickBase
<1>3. CASE LoopEnds
  BY <1>3, TypeParts, TypePartsNext DEF BaseInv, LoopInv, ListInv, LoopEnds, dbVars, Leaving
<1>4. CASE SaveAll
  <2>1. Entries \subseteq Roles
    BY TypeParts DEF BaseInv, Entries
  <2>2. TypeOK'
    BY <1>4, <2>1, TypeParts, TypePartsNext DEF BaseInv, SaveAll, dbVars
  <2>3. QED
    BY <1>4, <2>2 DEF BaseInv, LoopInv, ListInv, SaveAll, KicksDone, dbVars, Leaving
<1>5. CASE AllSaved \/ Over
  BY <1>5, TypeParts, TypePartsNext
  DEF BaseInv, LoopInv, ListInv, AllSaved, Over, dbVars, Leaving
<1>6. CASE SaveWritten
  BY <1>6, TypeParts, TypePartsNext DEF BaseInv, LoopInv, ListInv, SaveWritten, Leaving
<1>7. ASSUME NEW u \in Roles, SaveRole(u) PROVE BaseInv'
  BY <1>7, SaveRoleBase
<1>8. ASSUME NEW u \in Roles, LogoutEnds(u) PROVE BaseInv'
  <2>1. u \notin loading /\ u \notin entries
    BY <1>8, EndsLeaving DEF BaseInv, ListInv
  <2>2. QED
    BY <1>8, <2>1, EndsLeaving, LeavesBase DEF BaseInv
<1>9. ASSUME NEW u \in Roles, QuitsLate(u) PROVE BaseInv'
  <2>1. /\ u \notin loading /\ u \notin entries /\ u \notin Leaving
        /\ Leaving' = Leaving
    BY <1>9 DEF BaseInv, ListInv, QuitsLate, Leaving, dbVars
  <2>2. logout' \in [Roles -> {"none", "quit", "kick"}]
    BY <1>9, TypeParts DEF BaseInv, QuitsLate, dbVars
  <2>3. QED
    BY <1>9, <2>1, <2>2, LeavesBase DEF QuitsLate, dbVars
<1>10. ASSUME NEW u \in Roles, NEW by \in {"quit", "kick"}, LogoutBegins(u, by) PROVE BaseInv'
  BY <1>10, LogoutBase
<1>11. ASSUME NEW u \in Roles, KickEnds(u) PROVE BaseInv'
  BY <1>11, TypeParts, TypePartsNext DEF BaseInv, LoopInv, ListInv, KickEnds, dbVars, Leaving
<1>12. ASSUME NEW u \in Roles, LateLoad(u) PROVE BaseInv'
  BY <1>12, LateLoadBase
<1>13. CASE UNCHANGED vars
  BY <1>13, TypeParts, TypePartsNext DEF BaseInv, LoopInv, ListInv, vars, dbVars, Leaving
<1>14. QED
  BY <1>1, <1>2, <1>3, <1>4, <1>5, <1>6, <1>7, <1>8, <1>9, <1>10, <1>11, <1>12, <1>13
  DEF Next, ShutdownStep, KickStep, KickBegins, ClientQuits, Done

-----------------------------------------------------------------------------
(* What is written                                                          *)

LEMMA SavedStep ==
  ASSUME BaseInv, SavedInv, [Next]_vars
  PROVE  SavedInv'
<1>1. CASE Iterate \/ ForkKick \/ LoopEnds
  BY <1>1 DEF SavedInv, Iterate, ForkKick, LoopEnds, dbVars, Leaving, Written
<1>2. CASE SaveAll
  BY <1>2 DEF SavedInv, SaveAll, Entries, dbVars, Leaving, Written
<1>3. CASE SaveWritten
  BY <1>3 DEF SavedInv, SaveWritten, Leaving, Written
<1>4. CASE AllSaved \/ Over
  BY <1>4 DEF SavedInv, AllSaved, Over, dbVars, Leaving, Written
<1>5. ASSUME NEW u \in Roles, SaveRole(u) PROVE SavedInv'
  BY <1>5 DEF SavedInv, SaveRole, Leaving, Written
<1>6. ASSUME NEW u \in Roles, NEW by \in {"quit", "kick"}, LogoutBegins(u, by) PROVE SavedInv'
  <2>1. /\ Leaving' = Leaving \cup {u} /\ entries' = entries \ {u}
        /\ UNCHANGED <<phase, uuid, unsaved, saving, loading>>
    BY <1>6, BeginsLeaving DEF BaseInv, LogoutBegins
  <2>2. QED
    BY <2>1 DEF SavedInv, Written
<1>7. ASSUME NEW u \in Roles, LogoutEnds(u) PROVE SavedInv'
  <2>1. /\ Leaving' = Leaving \ {u} /\ entries' = entries /\ unsaved' = unsaved \ {u}
        /\ UNCHANGED <<phase, uuid, saving, loading>>
    BY <1>7, EndsLeaving DEF BaseInv
  <2>2. QED
    BY <2>1 DEF SavedInv, Written
<1>8. ASSUME NEW u \in Roles, QuitsLate(u) \/ KickEnds(u) PROVE SavedInv'
  BY <1>8 DEF SavedInv, QuitsLate, KickEnds, dbVars, Leaving, Written
<1>9. ASSUME NEW u \in Roles, LateLoad(u) PROVE SavedInv'
  BY <1>9 DEF SavedInv, LateLoad, Leaving, Written
<1>10. CASE UNCHANGED vars
  BY <1>10 DEF SavedInv, vars, dbVars, Leaving, Written
<1>11. QED
  BY <1>1, <1>2, <1>3, <1>4, <1>5, <1>6, <1>7, <1>8, <1>9, <1>10
  DEF Next, ShutdownStep, KickStep, KickBegins, ClientQuits, Done

-----------------------------------------------------------------------------
(* What is passed over                                                      *)

(* The loop takes the role at its position and nothing else falls behind.  *)
LEMMA BehindNext ==
  ASSUME NEW s \in Seq(Roles), NEW k \in Nat, k >= 1
  PROVE  /\ k <= Len(s) => {s[m] : m \in {n \in DOMAIN s : n >= k}}
                             = {s[k]} \cup {s[m] : m \in {n \in DOMAIN s : n >= k + 1}}
         /\ k > Len(s) => {s[m] : m \in {n \in DOMAIN s : n >= k}} = {}
<1>1. DOMAIN s = 1..Len(s) /\ Len(s) \in Nat
  BY EntriesOf
<1>2. ASSUME k <= Len(s)
      PROVE  {n \in DOMAIN s : n >= k} = {k} \cup {n \in DOMAIN s : n >= k + 1}
  BY <1>1, <1>2
<1>3. ASSUME k > Len(s)
      PROVE  {n \in DOMAIN s : n >= k} = {}
  BY <1>1, <1>3
<1>4. QED
  BY <1>2, <1>3

(* A role that leaves makes at most one other role fall behind.            *)
LEMMA BehindLess ==
  ASSUME NEW s \in Seq(Roles), IsInjective(s), NEW u \in ToSet(s), NEW k \in Nat, k >= 1,
         NEW x \in {s[m] : m \in {n \in DOMAIN s : n >= k}}, x # u, x # s[k]
  PROVE  x \in {Delete(s, u)[m] : m \in {n \in DOMAIN Delete(s, u) : n >= k}}
<1>1. DOMAIN s = 1..Len(s) /\ Len(s) \in Nat
  BY EntriesOf
<1>2. PICK p \in 1..Len(s) : u = s[p]
  BY EntriesOf
<1>3. PICK m \in 1..Len(s) : m >= k /\ x = s[m]
  BY <1>1
<1>4. PICK d : d = Delete(s, u)
  OBVIOUS
<1>5. /\ d \in Seq(Roles) /\ Len(d) = Len(s) - 1
      /\ \A i \in 1..(Len(s) - 1) : d[i] = IF i < p THEN s[i] ELSE s[i + 1]
  <2>1. d = RemoveAt(s, p)
    BY <1>2, <1>4, DeleteEntry
  <2>2. QED
    BY <2>1, RemoveAtEntries
<1>6. DOMAIN d = 1..(Len(s) - 1)
  BY <1>5, EntriesOf
<1>7. m # p /\ m > k
  BY <1>1, <1>2, <1>3
<1>8. CASE m < p
  <2>1. m \in 1..(Len(s) - 1)
    BY <1>1, <1>8
  <2>2. QED
    BY <1>3, <1>4, <1>5, <1>6, <1>8, <2>1
<1>9. CASE m > p
  <2>1. m - 1 \in 1..(Len(s) - 1) /\ m - 1 >= k /\ ~(m - 1 < p) /\ (m - 1) + 1 = m
    BY <1>1, <1>7, <1>9
  <2>2. d[m - 1] = x
    BY <1>3, <1>5, <2>1
  <2>3. QED
    BY <1>4, <1>6, <2>1, <2>2
<1>10. QED
  BY <1>1, <1>7, <1>8, <1>9

LEMMA FewerPassed ==
  ASSUME TypeOK, TypeOK', PassedInv, Passed' \subseteq Passed, left \subseteq left'
  PROVE  PassedInv'
<1>1. IsFiniteSet(Passed) /\ IsFiniteSet(left') /\ IsFiniteSet(left) /\ IsFiniteSet(Passed')
  BY TypeParts, TypePartsNext, FiniteRoles, FS_Subset DEF Passed
<1>2. Cardinality(Passed') <= Cardinality(Passed) /\ Cardinality(left) <= Cardinality(left')
  BY <1>1, FS_Subset
<1>3. /\ Cardinality(Passed) \in Nat /\ Cardinality(Passed') \in Nat
      /\ Cardinality(left) \in Nat /\ Cardinality(left') \in Nat
  BY <1>1, FS_CardinalityType
<1>4. QED
  BY <1>2, <1>3 DEF PassedInv

(* A role leaves while the loop sleeps.                                    *)
LEMMA LeavesAsleep ==
  ASSUME BaseInv, BaseInv', PassedInv, NEW u \in Roles, Leaves(u), phase = "sleep",
         kicking' \in {kicking, kicking \ {u}}, UNCHANGED <<phase, index, uuid>>
  PROVE  PassedInv'
<1>1. /\ role_list \in Seq(Roles) /\ IsInjective(role_list) /\ index + 1 \in Nat /\ index + 1 >= 1
      /\ role_list' = Delete(role_list, u) /\ kicked' = kicked \cup {u} /\ left' = left \cup {u}
      /\ TypeOK /\ TypeOK'
  BY TypeParts, FiniteRoles DEF BaseInv, Leaves
<1>2. /\ Passed = Online \ (kicked \cup kicking \cup {uuid} \cup Behind(index + 1))
      /\ Passed' = Online \ (kicked' \cup kicking' \cup {uuid} \cup Behind(index + 1)')
  BY DEF Passed, ToTake
<1>3. CASE u \notin ToSet(role_list)
  <2>1. role_list' = role_list
    BY <1>1, <1>3 DEF Delete
  <2>2. Behind(index + 1)' = Behind(index + 1)
    BY <2>1 DEF Behind
  <2>3. Passed' \subseteq Passed
    BY <1>1, <1>2, <2>2
  <2>4. QED
    BY <1>1, <2>3, FewerPassed
<1>4. CASE u \in ToSet(role_list)
  <2>1. PICK y : y = role_list[index + 1]
    OBVIOUS
  <2>2. Behind(index + 1) \subseteq Behind(index + 1)' \cup {u, y}
    <3>1. ASSUME NEW x \in {role_list[m] : m \in {n \in DOMAIN role_list : n >= index + 1}},
                 x # u, x # role_list[index + 1]
          PROVE  x \in {Delete(role_list, u)[m] :
                          m \in {n \in DOMAIN Delete(role_list, u) : n >= index + 1}}
      BY <1>1, <1>4, <3>1, BehindLess
    <3>2. QED
      BY <1>1, <2>1, <3>1 DEF Behind
  <2>3. Passed' \subseteq Passed \cup {y}
    BY <1>1, <1>2, <2>2
  <2>4. u \notin left
    BY <1>4 DEF BaseInv, ListInv
  <2>5. IsFiniteSet(Passed) /\ IsFiniteSet(left)
    BY <1>1, TypeParts, FiniteRoles, FS_Subset DEF Passed
  <2>6. Cardinality(left') = Cardinality(left) + 1
    BY <1>1, <2>4, <2>5, FS_AddElement
  <2>7. /\ IsFiniteSet(Passed \cup {y})
        /\ Cardinality(Passed \cup {y}) \in {Cardinality(Passed), Cardinality(Passed) + 1}
    BY <2>5, FS_AddElement
  <2>8. IsFiniteSet(Passed') /\ Cardinality(Passed') <= Cardinality(Passed \cup {y})
    BY <2>3, <2>7, FS_Subset
  <2>9. /\ Cardinality(Passed) \in Nat /\ Cardinality(left) \in Nat
        /\ Cardinality(Passed') \in Nat
    BY <2>5, <2>8, FS_CardinalityType
  <2>10. QED
    BY <2>6, <2>7, <2>8, <2>9 DEF PassedInv
<1>5. QED
  BY <1>3, <1>4

LEMMA PassedStep ==
  ASSUME BaseInv, BaseInv', PassedInv, [Next]_vars
  PROVE  PassedInv'
<1>1. TypeOK /\ TypeOK'
  BY DEF BaseInv
<1>2. /\ role_list \in Seq(Roles) /\ IsInjective(role_list)
      /\ index \in Nat /\ index >= 1
  BY <1>1, TypeParts, FiniteRoles
<1>3. CASE Iterate
  <2>1. Behind(index) = {role_list[index]} \cup Behind(index + 1)
    BY <1>2, <1>3, BehindNext DEF Behind, Iterate
  <2>2. Passed' = Passed /\ left' = left
    <3>1. /\ ToTake = Behind(index) /\ ToTake' = {role_list[index]} \cup Behind(index + 1)'
          /\ UNCHANGED <<kicked, kicking, left>>
      BY <1>3 DEF Iterate, ToTake
    <3>2. Behind(index + 1)' = Behind(index + 1)
      BY <1>3 DEF Iterate, Behind
    <3>3. QED
      BY <2>1, <3>1, <3>2 DEF Passed
  <2>3. QED
    BY <2>2, <1>1, FewerPassed
<1>4. CASE ForkKick
  <2>1. /\ ToTake = {uuid} \cup Behind(index + 1) /\ ToTake' = Behind(index)'
        /\ kicking' = kicking \cup {uuid} /\ UNCHANGED <<kicked, left>>
    BY <1>4 DEF ForkKick, ToTake, Taken
  <2>2. Behind(index)' = Behind(index + 1)
    BY <1>4 DEF ForkKick, Behind
  <2>3. Passed' \subseteq Passed
    BY <2>1, <2>2 DEF Passed
  <2>4. QED
    BY <1>1, <2>1, <2>3, FewerPassed
<1>5. CASE LoopEnds
  <2>1. Behind(index) = {}
    <3>1. Len(role_list) \in Nat /\ index > Len(role_list)
      BY <1>2, <1>5, EntriesOf DEF LoopEnds
    <3>2. QED
      BY <1>2, <3>1, BehindNext DEF Behind
  <2>2. Passed' \subseteq Passed /\ left' = left
    BY <1>5, <2>1 DEF LoopEnds, Passed, ToTake
  <2>3. QED
    BY <1>1, <2>2, FewerPassed
<1>6. ASSUME \/ SaveAll \/ SaveWritten \/ AllSaved \/ Over
             \/ \E u \in Roles : SaveRole(u)
      PROVE  PassedInv'
  <2>1. Passed' \subseteq Passed /\ left' = left
    BY <1>6 DEF SaveAll, SaveWritten, AllSaved, Over, SaveRole, Passed, ToTake
  <2>2. QED
    BY <1>1, <2>1, FewerPassed
<1>7. ASSUME NEW u \in Roles, LogoutEnds(u) \/ QuitsLate(u)
      PROVE  PassedInv'
  <2>1. /\ Leaves(u) /\ Yielded /\ UNCHANGED <<phase, index, uuid>>
        /\ kicking' \in {kicking, kicking \ {u}}
    BY <1>7 DEF LogoutEnds, QuitsLate
  <2>2. CASE phase = "sleep"
    BY <2>1, <2>2, LeavesAsleep
  <2>3. CASE phase # "sleep"
    <3>1. ToTake = {} /\ ToTake' = {} /\ kicked' = kicked \cup {u} /\ left' = left
      BY <2>1, <2>3 DEF Yielded, ToTake, Leaves
    <3>2. Passed' \subseteq Passed
      BY <2>1, <3>1 DEF Passed
    <3>3. QED
      BY <1>1, <3>1, <3>2, FewerPassed
  <2>4. QED
    BY <2>2, <2>3
<1>8. ASSUME NEW u \in Roles, LateLoad(u)
      PROVE  PassedInv'
  <2>1. /\ role_list' = Append(role_list, u)
        /\ UNCHANGED <<phase, index, uuid, kicking, kicked, left>> /\ phase \notin {"loop"}
    BY <1>8 DEF LateLoad, Yielded
  <2>2. /\ role_list' \in Seq(Roles) /\ Len(role_list') = Len(role_list) + 1
        /\ \A k \in 1..Len(role_list) : role_list'[k] = role_list[k]
    BY <1>2, <2>1, AppendProperties
  <2>3. Behind(index + 1) \subseteq Behind(index + 1)'
    <3>1. /\ DOMAIN role_list = 1..Len(role_list) /\ Len(role_list) \in Nat
          /\ DOMAIN role_list' = 1..(Len(role_list) + 1)
      BY <1>2, <2>2, EntriesOf
    <3>2. QED
      BY <2>1, <2>2, <3>1 DEF Behind
  <2>4. Passed' \subseteq Passed
    BY <2>1, <2>3 DEF Passed, ToTake
  <2>5. QED
    BY <1>1, <2>1, <2>4, FewerPassed
<1>9. ASSUME NEW u \in Roles, NEW by \in {"quit", "kick"}, LogoutBegins(u, by)
      PROVE  PassedInv'
  <2>1. Passed' = Passed /\ left' = left
    BY <1>9 DEF LogoutBegins, Passed, ToTake, Behind
  <2>2. QED
    BY <1>1, <2>1, FewerPassed
<1>10. ASSUME NEW u \in Roles, KickEnds(u)
       PROVE  PassedInv'
  <2>1. u \in kicked
    BY <1>10 DEF KickEnds, BaseInv, ListInv
  <2>2. Passed' \subseteq Passed /\ left' = left
    BY <1>10, <2>1 DEF KickEnds, Passed, ToTake, Behind
  <2>3. QED
    BY <1>1, <2>2, FewerPassed
<1>11. CASE UNCHANGED vars
  <2>1. Passed' = Passed /\ left' = left
    BY <1>11 DEF vars, Passed, ToTake, Behind
  <2>2. QED
    BY <1>1, <2>1, FewerPassed
<1>12. QED
  BY <1>3, <1>4, <1>5, <1>6, <1>7, <1>8, <1>9, <1>10, <1>11
  DEF Next, ShutdownStep, KickStep, KickBegins, ClientQuits, Done

-----------------------------------------------------------------------------
LEMMA InitInv == Init => IInv
<1> SUFFICES ASSUME Init PROVE IInv
  OBVIOUS
<1>1. role_list \in Seq(Online) /\ IsInjective(role_list) /\ ToSet(role_list) = Online
  BY FiniteRoles, FirstList DEF Init
<1>2. role_list \in Seq(Roles) /\ Len(role_list) \in Nat /\ DOMAIN role_list = 1..Len(role_list)
  BY <1>1, FiniteRoles, EntriesOf
<1>3. uuid \in Online
  <2>1. Len(role_list) # 0
    BY <1>1, <1>2, AgentShutdownAssumption DEF ToSet
  <2>2. 1 \in 1..Len(role_list)
    BY <1>2, <2>1
  <2>3. QED
    BY <1>1, <2>2, EntriesOf DEF Init
<1>4. TypeOK /\ LoopInv /\ ListInv /\ SavedInv
  <2>1. TypeOK
    BY <1>1, <1>2, <1>3, FiniteRoles, TypeParts, AgentShutdownAssumption DEF Init
  <2>2. Leaving = Online \ entries
    BY FiniteRoles DEF Init, Leaving
  <2>3. LoopInv /\ ListInv
    BY <1>1, <1>3, <2>2, FiniteRoles DEF Init, LoopInv, ListInv
  <2>4. SavedInv
    BY <2>2, FiniteRoles, AgentShutdownAssumption DEF Init, SavedInv, Written
  <2>5. QED
    BY <2>1, <2>3, <2>4
<1>5. PassedInv
  <2>1. Behind(1) = ToSet(role_list)
    BY <1>2 DEF Behind, ToSet
  <2>2. Passed = {} /\ left = {}
    BY <1>1, <2>1 DEF Init, Passed, ToTake
  <2>3. QED
    BY <2>2, FS_EmptySet DEF PassedInv
<1>6. QED
  BY <1>4, <1>5 DEF IInv

LEMMA Invariance == Spec => []IInv
<1>1. IInv /\ [Next]_vars => IInv'
  BY BaseStep, SavedStep, PassedStep DEF IInv, BaseInv
<1>2. QED
  BY InitInv, <1>1, PTL DEF Spec

(* The list of online roles names each role once and the position of the   *)
(* loop stays within it, whatever leaves and loads while it walks.         *)
THEOREM TypeCorrect == Spec => []TypeOK
<1>1. IInv => TypeOK
  BY DEF IInv
<1>2. QED
  BY <1>1, Invariance, PTL

(* agent_utils.shutdown: when it ends, whatever any role had changed       *)
(* before it began is written, also for a role the loop passed over, or is *)
(* the write under way of a logout that began before save_all.             *)
THEOREM ChangesAreSaved == Spec => []EarlierChangesSaved
<1>1. IInv => EarlierChangesSaved
  BY DEF IInv, SavedInv, Written, EarlierChangesSaved
<1>2. QED
  BY <1>1, Invariance, PTL

(* agent_utils.shutdown: the loop passes over at most as many of the roles *)
(* that were online as left the list while it slept.                       *)
THEOREM LoopPassesOverFew == Spec => []FewPassedOver
<1>1. ASSUME IInv, phase \in {"save", "write", "rest", "over"}
      PROVE  Cardinality(Online \ kicked) <= Cardinality(left)
  <2>1. Passed = Online \ kicked
    BY <1>1 DEF IInv, LoopInv, Passed, ToTake
  <2>2. QED
    BY <1>1, <2>1 DEF IInv, PassedInv
<1>2. IInv => FewPassedOver
  BY <1>1 DEF FewPassedOver
<1>3. QED
  BY <1>2, Invariance, PTL

=============================================================================
