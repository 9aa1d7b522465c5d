--------------------------- MODULE GpuPool_proofs ---------------------------
(***************************************************************************)
(* What GpuPool promises, proved for every set of cards, slots and tasks,  *)
(* every pool and every ttl.                                               *)
(***************************************************************************)
EXTENDS GpuPool, TLAPS

(* A write keeps the two columns of the ledger typed. *)
LEMMA WriteTyped ==
    ASSUME TypeOK, NEW gone \in SUBSET Id, NEW ids \in SUBSET Id,
           NEW t \in Task \cup {Free}, NEW ttl \in Nat, Write(gone, ids, t, ttl)
    PROVE  /\ owner' \in [Id -> Task \cup {Free}]
           /\ left' \in [Id -> Nat]
BY DEF TypeOK, Write

LEMMA SetsTyped ==
    ASSUME TypeOK, NEW t \in Task
    PROVE  /\ Rows(t) \in SUBSET Id /\ Expired \in SUBSET Id /\ Purged(t) \in SUBSET Id
           /\ \A ids : Deleted(t, ids) \in SUBSET Id
           /\ \A pool \in SUBSET Card : Available(t, pool) \in SUBSET Id
BY DEF TypeOK, Rows, Expired, Purged, Deleted, Available, Id

LEMMA HandTyped ==
    ASSUME TypeOK, NEW t \in Task, NEW ids \in SUBSET Id, Hand(t, ids)
    PROVE  lease' \in [Task -> SUBSET Id] /\ copy' \in [Task -> SUBSET Id]
BY DEF TypeOK, Hand

(* Every operation keeps the ledger and the leases in memory typed. *)
LEMMA TypeStep == PoolConstants /\ TypeOK /\ [Next]_vars => TypeOK'
<1> SUFFICES ASSUME PoolConstants, TypeOK, [Next]_vars PROVE TypeOK'
  OBVIOUS
<1>1. ASSUME NEW t \in Task, NEW pool \in SUBSET Card, NEW n \in Nat, NEW ttl \in Nat \ {0},
             Refresh(t, pool, n, ttl)
      PROVE  TypeOK'
  <2>1. Rows(t) \ Expired \in SUBSET Id /\ Expired \in SUBSET Id
    BY SetsTyped
  <2>2. QED
    BY <1>1, <2>1, WriteTyped, HandTyped DEF Refresh, TypeOK
<1>2. ASSUME NEW t \in Task, NEW pool \in SUBSET Card, NEW n \in Nat, NEW ttl \in Nat \ {0},
             Allocate(t, pool, n, ttl)
      PROVE  TypeOK'
  <2>1. PICK ids \in SUBSET Available(t, pool) :
                Write(Purged(t), ids, t, ttl) /\ Hand(t, ids)
    BY <1>2 DEF Allocate
  <2>2. ids \in SUBSET Id /\ Purged(t) \in SUBSET Id
    BY SetsTyped
  <2>3. QED
    BY <2>1, <2>2, WriteTyped, HandTyped DEF TypeOK
<1>3. ASSUME NEW t \in Task, NEW pool \in SUBSET Card, NEW n \in Nat, Refuse(t, pool, n)
      PROVE  TypeOK'
  <2>1. Write(Purged(t), {}, t, 0) /\ Purged(t) \in SUBSET Id
    BY <1>3, SetsTyped DEF Refuse
  <2>2. QED
    BY <1>3, <2>1, WriteTyped DEF Refuse, TypeOK
<1>4. ASSUME NEW t \in Task, NEW ttl \in Nat \ {0}, AllocateSlot(t, ttl)
      PROVE  TypeOK'
  <2>1. PICK s \in Slot : Write(Expired, {s}, t, ttl) /\ Hand(t, {s})
    BY <1>4 DEF AllocateSlot
  <2>2. {s} \in SUBSET Id /\ Expired \in SUBSET Id
    BY SetsTyped DEF Id
  <2>3. QED
    BY <2>1, <2>2, WriteTyped, HandTyped DEF TypeOK
<1>5. ASSUME NEW t \in Task, RefuseSlot(t) PROVE TypeOK'
  <2>1. Write(Expired, {}, t, 0) /\ Expired \in SUBSET Id
    BY <1>5, SetsTyped DEF RefuseSlot
  <2>2. QED
    BY <1>5, <2>1, WriteTyped DEF RefuseSlot, TypeOK
<1>6. ASSUME NEW t \in Task, Release(t) PROVE TypeOK'
  <2>1. Write(Deleted(t, lease[t]), {}, t, 0) /\ Deleted(t, lease[t]) \in SUBSET Id
    BY <1>6, SetsTyped DEF Release
  <2>2. QED
    BY <1>6, <2>1, WriteTyped DEF Release, TypeOK
<1>7. ASSUME NEW t \in Task, ReleaseCopy(t) PROVE TypeOK'
  <2>1. Write(Deleted(t, copy[t]), {}, t, 0) /\ Deleted(t, copy[t]) \in SUBSET Id
    BY <1>7, SetsTyped DEF ReleaseCopy
  <2>2. QED
    BY <1>7, <2>1, WriteTyped DEF ReleaseCopy, TypeOK
<1>8. ASSUME NEW t \in Task, Drop(t) \/ ForgetCopy(t) PROVE TypeOK'
  BY <1>8 DEF Drop, ForgetCopy, TypeOK
<1>9. ASSUME NEW t \in Task, NEW ttl \in Nat \ {0}, Extend(t, ttl) PROVE TypeOK'
  BY <1>9 DEF Extend, TypeOK
<1>10. CASE ReapExpired
  <2>1. Write(Expired, {}, Free, 0) /\ Expired \in SUBSET Id
    BY <1>10 DEF ReapExpired, Expired
  <2>2. QED
    BY <1>10, <2>1, WriteTyped DEF ReapExpired, TypeOK
<1>11. CASE Crash
  BY <1>11 DEF Crash, TypeOK
<1>12. CASE Pass
  BY <1>12 DEF Pass, TypeOK
<1>13. CASE UNCHANGED vars
  BY <1>13 DEF vars, TypeOK
<1>14. QED
  BY <1>1, <1>2, <1>3, <1>4, <1>5, <1>6, <1>7, <1>8, <1>9, <1>10, <1>11, <1>12, <1>13
  DEF Next, TaskStep, Acquire

(* The ledger maps ids to tasks and each lease is a set of ids. *)
THEOREM PoolTypeCorrect == ASSUME PoolConstants PROVE Spec => []TypeOK
<1>1. Init => TypeOK
  BY DEF Init, TypeOK
<1>2. QED
  BY <1>1, TypeStep, PTL DEF Spec

-----------------------------------------------------------------------------
(* The rows of a task among the cards only grow in an acquire, and there    *)
(* what the acquire does not lease to it is deleted.                        *)
LEMMA HoardStep == PoolConstants /\ TypeOK /\ NoHoard /\ [Next]_vars => NoHoard'
<1> SUFFICES ASSUME PoolConstants, TypeOK, NoHoard, [Next]_vars,
                    NEW u \in Task, lease'[u] # {}, lease'[u] \subseteq Card,
                    NEW i \in Card, owner'[i] = u
             PROVE  i \in lease'[u]
  BY DEF NoHoard, Rows, Id
<1> i \in Id /\ u # Free
  BY DEF Id, PoolConstants
<1>1. ASSUME owner[i] = u, lease'[u] = lease[u] PROVE i \in lease'[u]
  BY <1>1 DEF NoHoard, Rows
<1>2. ASSUME NEW t \in Task, NEW pool \in SUBSET Card, NEW n \in Nat, NEW ttl \in Nat \ {0},
             Refresh(t, pool, n, ttl)
      PROVE  i \in lease'[u]
  <2>1. lease' = [lease EXCEPT ![t] = Rows(t) \ Expired]
    BY <1>2 DEF Refresh, Hand
  <2>2. owner'[i] = IF i \in Rows(t) \ Expired THEN t ELSE IF i \in Expired THEN Free ELSE owner[i]
    BY <1>2 DEF Refresh, Write
  <2>3. CASE u = t
    BY <2>1, <2>2, <2>3 DEF Rows, TypeOK
  <2>4. CASE u # t
    BY <1>1, <2>1, <2>2, <2>4 DEF TypeOK
  <2>5. QED
    BY <2>3, <2>4
<1>3. ASSUME NEW t \in Task, NEW pool \in SUBSET Card, NEW n \in Nat, NEW ttl \in Nat \ {0},
             Allocate(t, pool, n, ttl)
      PROVE  i \in lease'[u]
  <2>1. PICK ids \in SUBSET Available(t, pool) :
                Write(Purged(t), ids, t, ttl) /\ Hand(t, ids)
    BY <1>3 DEF Allocate
  <2>2. lease' = [lease EXCEPT ![t] = ids]
    BY <2>1 DEF Hand
  <2>3. owner'[i] = IF i \in ids THEN t ELSE IF i \in Purged(t) THEN Free ELSE owner[i]
    BY <2>1 DEF Write
  <2>4. CASE u = t
    BY <2>2, <2>3, <2>4 DEF Purged, Rows, TypeOK
  <2>5. CASE u # t
    BY <1>1, <2>2, <2>3, <2>5 DEF TypeOK
  <2>6. QED
    BY <2>4, <2>5
<1>4. ASSUME NEW t \in Task, NEW pool \in SUBSET Card, NEW n \in Nat, Refuse(t, pool, n)
      PROVE  i \in lease'[u]
  BY <1>1, <1>4 DEF Refuse, Write
<1>5. ASSUME NEW t \in Task, NEW ttl \in Nat \ {0}, AllocateSlot(t, ttl)
      PROVE  i \in lease'[u]
  <2>1. PICK s \in Slot : Write(Expired, {s}, t, ttl) /\ Hand(t, {s})
    BY <1>5 DEF AllocateSlot
  <2>2. lease' = [lease EXCEPT ![t] = {s}] /\ i # s /\ s \notin Card
    BY <2>1 DEF Hand, PoolConstants
  <2>3. owner'[i] = IF i \in Expired THEN Free ELSE owner[i]
    BY <2>1, <2>2 DEF Write
  <2>4. u # t
    BY <2>2 DEF TypeOK
  <2>5. QED
    BY <1>1, <2>2, <2>3, <2>4 DEF TypeOK
<1>6. ASSUME NEW t \in Task, RefuseSlot(t) PROVE i \in lease'[u]
  BY <1>1, <1>6 DEF RefuseSlot, Write
<1>7. ASSUME NEW t \in Task, Release(t) PROVE i \in lease'[u]
  <2>1. lease' = [lease EXCEPT ![t] = {}] /\ owner[i] = u
    BY <1>7 DEF Release, Write
  <2>2. QED
    BY <1>1, <2>1 DEF TypeOK
<1>8. ASSUME NEW t \in Task, Drop(t) PROVE i \in lease'[u]
  BY <1>1, <1>8 DEF Drop, TypeOK
<1>9. ASSUME NEW t \in Task, ReleaseCopy(t) PROVE i \in lease'[u]
  BY <1>1, <1>9 DEF ReleaseCopy, Write
<1>10. ASSUME NEW t \in Task, ForgetCopy(t) PROVE i \in lease'[u]
  BY <1>1, <1>10 DEF ForgetCopy
<1>11. ASSUME NEW t \in Task, NEW ttl \in Nat \ {0}, Extend(t, ttl) PROVE i \in lease'[u]
  BY <1>1, <1>11 DEF Extend
<1>12. CASE ReapExpired
  BY <1>1, <1>12 DEF ReapExpired, Write
<1>13. CASE Crash
  BY <1>13 DEF Crash
<1>14. CASE Pass \/ UNCHANGED vars
  BY <1>1, <1>14 DEF Pass, vars
<1>15. QED
  BY <1>2, <1>3, <1>4, <1>5, <1>6, <1>7, <1>8, <1>9, <1>10, <1>11, <1>12, <1>13, <1>14
  DEF Next, TaskStep, Acquire

(* No task ever pins cards beyond those of the lease it was last given,     *)
(* however many crashes and re-admissions it goes through.                  *)
THEOREM NoHoardHolds == ASSUME PoolConstants PROVE Spec => []NoHoard
<1>1. Init => NoHoard
  BY DEF Init, NoHoard
<1>2. QED
  BY <1>1, HoardStep, PoolTypeCorrect, PTL DEF Spec

-----------------------------------------------------------------------------
(* The body of KeepsItsCards for one task and one of its unexpired cards.   *)
LEMMA CardStays ==
    ASSUME PoolConstants, TypeOK, [Next]_vars, NEW u \in Task, NEW i \in Id,
           i \in lease[u], lease'[u] = lease[u], owner[i] = u, left[i] > 0
    PROVE  owner'[i] = u
<1> i \notin Expired /\ u # Free /\ lease[u] # {}
  BY DEF Expired, PoolConstants
<1>1. ASSUME NEW gone, NEW ids, NEW v, NEW ttl, Write(gone, ids, v, ttl),
             i \notin gone, i \notin ids
      PROVE  owner'[i] = u
  BY <1>1 DEF Write
<1>2. ASSUME NEW t \in Task, NEW pool \in SUBSET Card, NEW n \in Nat, NEW ttl \in Nat \ {0},
             Refresh(t, pool, n, ttl)
      PROVE  owner'[i] = u
  <2>1. u # t
    BY <1>2 DEF Refresh, Unheld
  <2>2. QED
    BY <1>1, <1>2, <2>1 DEF Refresh, Rows
<1>3. ASSUME NEW t \in Task, NEW pool \in SUBSET Card, NEW n \in Nat, NEW ttl \in Nat \ {0},
             Allocate(t, pool, n, ttl)
      PROVE  owner'[i] = u
  <2>1. u # t
    BY <1>3 DEF Allocate, Unheld
  <2>2. i \notin Purged(t) /\ i \notin Available(t, pool)
    BY <2>1 DEF Purged, Available, Rows
  <2>3. QED
    BY <1>1, <1>3, <2>2 DEF Allocate
<1>4. ASSUME NEW t \in Task, NEW pool \in SUBSET Card, NEW n \in Nat, Refuse(t, pool, n)
      PROVE  owner'[i] = u
  <2>1. u # t
    BY <1>4 DEF Refuse, Unheld
  <2>2. i \notin Purged(t)
    BY <2>1 DEF Purged, Rows
  <2>3. QED
    BY <1>1, <1>4, <2>2 DEF Refuse
<1>5. ASSUME NEW t \in Task, NEW ttl \in Nat \ {0}, AllocateSlot(t, ttl)
      PROVE  owner'[i] = u
  <2>1. PICK s \in Slot : (owner[s] = Free \/ s \in Expired) /\ Write(Expired, {s}, t, ttl)
    BY <1>5 DEF AllocateSlot
  <2>2. QED
    BY <1>1, <2>1
<1>6. ASSUME NEW t \in Task, RefuseSlot(t) PROVE owner'[i] = u
  BY <1>1, <1>6 DEF RefuseSlot
<1>7. ASSUME NEW t \in Task, Release(t) PROVE owner'[i] = u
  <2>1. t # u
    BY <1>7 DEF Release, TypeOK
  <2>2. i \notin Deleted(t, lease[t])
    BY <2>1 DEF Deleted, Rows
  <2>3. QED
    BY <1>1, <1>7, <2>2 DEF Release
<1>8. ASSUME NEW t \in Task, ReleaseCopy(t) PROVE owner'[i] = u
  <2>1. t # u
    BY <1>8 DEF ReleaseCopy
  <2>2. i \notin Deleted(t, copy[t])
    BY <2>1 DEF Deleted, Rows
  <2>3. QED
    BY <1>1, <1>8, <2>2 DEF ReleaseCopy
<1>9. ASSUME NEW t \in Task, NEW ttl \in Nat \ {0}, Drop(t) \/ ForgetCopy(t) \/ Extend(t, ttl)
      PROVE  owner'[i] = u
  BY <1>9 DEF Drop, ForgetCopy, Extend
<1>10. CASE ReapExpired
  BY <1>1, <1>10 DEF ReapExpired
<1>11. CASE Crash \/ Pass \/ UNCHANGED vars
  BY <1>11 DEF Crash, Pass, vars
<1>12. ASSUME NEW t \in Task, TaskStep(t) PROVE owner'[i] = u
  <2>1. CASE \E pool \in SUBSET Card, n \in Nat, ttl \in Nat \ {0} :
                Acquire(t, pool, n, ttl) \/ Refuse(t, pool, n)
    BY <1>2, <1>3, <1>4, <2>1 DEF Acquire
  <2>2. CASE \E ttl \in Nat \ {0} : AllocateSlot(t, ttl) \/ Extend(t, ttl)
    BY <1>5, <1>9, <2>2
  <2>3. CASE Drop(t) \/ ForgetCopy(t)
    <3> 1 \in Nat \ {0}
      OBVIOUS
    <3> QED BY <1>9, <2>3
  <2>4. QED
    BY <1>6, <1>7, <1>8, <1>12, <2>1, <2>2, <2>3 DEF TaskStep
<1>13. QED
  BY <1>10, <1>11, <1>12 DEF Next

(* Nothing takes a card from a task that holds an unexpired lease for it.   *)
THEOREM KeepsItsCardsHolds == ASSUME PoolConstants PROVE Spec => KeepsItsCards
<1> DEFINE Stays == \A t \in Task, i \in Id :
          (i \in lease[t] /\ lease'[t] = lease[t] /\ owner[i] = t /\ left[i] > 0)
              => owner'[i] = t
<1>1. TypeOK /\ [Next]_vars => [Stays]_vars
  BY CardStays
<1>2. Spec => [][Stays]_vars
  <2> HIDE DEF Stays
  <2> QED BY <1>1, PoolTypeCorrect, PTL DEF Spec
<1>3. QED
  BY <1>2 DEF KeepsItsCards
=============================================================================
