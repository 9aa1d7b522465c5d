----------------------- MODULE SpecialistRuns_proofs -----------------------
(***************************************************************************)
(* Theorems of SpecialistRuns for every set of tasks, cards and budgets:   *)
(* its types, that its use of the ledger is a behaviour of GpuPool, and    *)
(* what GpuPool_proofs then gives it.                                      *)
(***************************************************************************)
EXTENDS SpecialistRuns, TLAPS

Proved == INSTANCE GpuPool_proofs

(* A queued row's ttl has not begun to run; an admission copies it into the *)
(* lane lease, whose time left is never negative.                           *)
QueuedTtl == \A t \in Task : row[t] = "queued" => due[t] \in Nat

IInv == TypeOK /\ QueuedTtl

(* Both sizings of a lease are positive times. *)
LEMMA Sizes ==
    ASSUME TypeOK, NEW t \in Task
    PROVE  /\ WallBudget(t) \in Nat
           /\ \A f \in Int : LeaseTtl(t, f) \in Nat \ {0}
<1>1. Base[t] \in Nat /\ session \in Nat /\ Grace \in Nat \ {0}
  BY BudgetAssumption DEF BudgetAssumption, TypeOK
<1>2. WallBudget(t) \in Nat
  BY <1>1 DEF WallBudget, Min2
<1>3. ASSUME NEW f \in Int PROVE LeaseTtl(t, f) \in Nat \ {0}
  <2> HIDE DEF WallBudget
  <2> QED BY <1>1, <1>2 DEF LeaseTtl, Max2
<1>4. QED
  BY <1>2, <1>3

(* What an extension still leaves a lease is a positive time. *)
LEMMA RemainingSize == ASSUME NEW x \in Int PROVE Remaining(x) \in Nat \ {0}
<1>1. Extra \in Nat \ {0}
  BY BudgetAssumption DEF BudgetAssumption
<1>2. QED
  BY <1>1 DEF Remaining, Max2

-----------------------------------------------------------------------------
(* Every step changes the ledger by one of GpuPool's operations, with a     *)
(* pool, a count and a ttl that module allows, or not at all.               *)
LEMMA PoolStep == IInv /\ [Next]_vars => [Pool!Next]_poolVars
<1> SUFFICES ASSUME IInv, [Next]_vars PROVE Pool!Next \/ UNCHANGED poolVars
  BY DEF poolVars, Pool!vars
<1>1. ASSUME NEW t \in Task, Admit(t) PROVE Pool!Next
  <2>1. LeaseTtl(t, due[t]) \in Nat \ {0}
    BY Sizes DEF IInv, TypeOK
  <2>2. PoolOf[t] \in SUBSET Card /\ \A n \in Count[t] : n \in Nat
    BY BudgetAssumption DEF BudgetAssumption
  <2>3. CASE ray
    <3>1. Pool!AllocateSlot(t, LeaseTtl(t, due[t]))
      BY <1>1, <2>3 DEF Admit
    <3>2. QED
      BY <2>1, <3>1 DEF Pool!Next, Pool!TaskStep
  <2>4. CASE ~ray
    <3>1. PICK n \in Count[t] : Pool!Acquire(t, PoolOf[t], n, LeaseTtl(t, due[t]))
      BY <1>1, <2>4 DEF Admit
    <3>2. QED
      BY <2>1, <2>2, <3>1 DEF Pool!Next, Pool!TaskStep
  <2>5. QED
    BY <2>3, <2>4
<1>2. ASSUME NEW t \in Task, Decline(t) PROVE Pool!Next
  <2>1. PoolOf[t] \in SUBSET Card /\ \A n \in Count[t] : n \in Nat
    BY BudgetAssumption DEF BudgetAssumption
  <2>2. CASE ray
    BY <1>2, <2>2 DEF Decline, Pool!Next, Pool!TaskStep
  <2>3. CASE ~ray
    <3>1. PICK n \in Count[t] : Pool!Refuse(t, PoolOf[t], n)
      BY <1>2, <2>3 DEF Decline
    <3>2. 1 \in Nat \ {0}
      OBVIOUS
    <3>3. QED
      BY <2>1, <3>1, <3>2 DEF Pool!Next, Pool!TaskStep
  <2>4. QED
    BY <2>2, <2>3
<1>3. ASSUME NEW t \in Task, Release(t) \/ PumpReap(t) \/ CancelUnstarted(t) PROVE Pool!Next
  BY <1>3 DEF Release, PumpReap, CancelUnstarted, Pool!Next, Pool!TaskStep
<1>4. ASSUME NEW t \in Task,
             \/ Delegate(t) \/ CancelQueued(t) \/ Claim(t) \/ Launch(t) \/ Start(t) \/ End(t)
             \/ Cancel(t) \/ StrayExit(t) \/ ExtendRow(t) \/ Reclaim(t)
      PROVE  UNCHANGED poolVars
  BY <1>4 DEF Delegate, CancelQueued, Claim, Launch, Start, End, Cancel, StrayExit, ExtendRow, Reclaim
<1>5. ASSUME ExtendCards PROVE Pool!Next \/ UNCHANGED poolVars
  <2>1. ext.step = "gpu"
    BY <1>5 DEF ExtendCards
  <2>2. ext.task \in Task /\ ext.rest \in Nat \ {0}
    BY <2>1 DEF IInv, TypeOK, Idle
  <2>3. CASE Pool!Extend(ext.task, ext.rest)
    BY <2>2, <2>3 DEF Pool!Next, Pool!TaskStep
  <2>4. QED
    BY <1>5, <2>3 DEF ExtendCards
<1>6. CASE ExtendLanes \/ Grant \/ ExtendInterrupted \/ RequestStop \/ UNCHANGED vars
  BY <1>6 DEF ExtendLanes, Grant, ExtendInterrupted, RequestStop, vars
<1>7. CASE Maintenance \/ Resume \/ Tick
  BY <1>7 DEF Maintenance, Resume, Tick, Pool!Next
<1>8. QED
  BY <1>1, <1>2, <1>3, <1>4, <1>5, <1>6, <1>7 DEF Next, Step, Extension

-----------------------------------------------------------------------------
(* The ledger of Pool and the one GpuPool_proofs speaks of are the same.    *)
LEMMA SameLedger ==
    /\ Pool!TypeOK <=> Proved!TypeOK
    /\ [Pool!Next]_poolVars <=> [Proved!Next]_(Proved!vars)
    /\ Proved!PoolConstants
<1>0. \A S : Pool!Cardinality(S) = Proved!Cardinality(S)
  BY DEF Pool!Cardinality, Proved!Cardinality
<1>1. Pool!TypeOK <=> Proved!TypeOK
  BY DEF Pool!TypeOK, Proved!TypeOK, Pool!Id, Proved!Id
<1>2. Proved!PoolConstants
  BY PoolAssumption DEF Pool!PoolConstants, Proved!PoolConstants
<1>3. /\ Pool!Id = Proved!Id
      /\ \A t : Pool!Rows(t) = Proved!Rows(t)
      /\ Pool!Expired = Proved!Expired
  BY DEF Pool!Id, Proved!Id, Pool!Rows, Proved!Rows, Pool!Expired, Proved!Expired
<1>4. /\ \A gone, ids, t, ttl : Pool!Write(gone, ids, t, ttl) <=> Proved!Write(gone, ids, t, ttl)
      /\ \A t, ids : Pool!Hand(t, ids) <=> Proved!Hand(t, ids)
      /\ \A t : Pool!Unheld(t) <=> Proved!Unheld(t)
  BY <1>3 DEF Pool!Write, Proved!Write, Pool!Hand, Proved!Hand, Pool!Unheld, Proved!Unheld
<1>5. /\ \A t : Pool!Purged(t) = Proved!Purged(t)
      /\ \A t, ids : Pool!Deleted(t, ids) = Proved!Deleted(t, ids)
  BY <1>3 DEF Pool!Purged, Proved!Purged, Pool!Deleted, Proved!Deleted
<1>6. ASSUME NEW t, NEW pool, NEW n
      PROVE  Pool!Satisfied(t, pool, n) <=> Proved!Satisfied(t, pool, n)
  <2>1. Pool!Rows(t) \ Pool!Expired = Proved!Rows(t) \ Proved!Expired
    BY <1>3
  <2>2. QED
    BY <1>0, <2>1 DEF Pool!Satisfied, Proved!Satisfied
<1>7. ASSUME NEW t, NEW pool, NEW n, NEW ttl
      PROVE  /\ Pool!Refresh(t, pool, n, ttl) <=> Proved!Refresh(t, pool, n, ttl)
             /\ Pool!Allocate(t, pool, n, ttl) <=> Proved!Allocate(t, pool, n, ttl)
             /\ Pool!Refuse(t, pool, n) <=> Proved!Refuse(t, pool, n)
  <2>1. Pool!Refresh(t, pool, n, ttl) <=> Proved!Refresh(t, pool, n, ttl)
    BY <1>3, <1>4, <1>6 DEF Pool!Refresh, Proved!Refresh
  <2>2. Pool!Purged(t) = Proved!Purged(t) /\ Pool!Available(t, pool) = Proved!Available(t, pool)
    BY <1>5 DEF Pool!Available, Proved!Available
  <2>3. Pool!Unheld(t) /\ ~Pool!Satisfied(t, pool, n)
            <=> Proved!Unheld(t) /\ ~Proved!Satisfied(t, pool, n)
    BY <1>4, <1>6
  <2>4. Pool!Allocate(t, pool, n, ttl) <=> Proved!Allocate(t, pool, n, ttl)
    BY <1>0, <1>4, <2>2, <2>3 DEF Pool!Allocate, Proved!Allocate
  <2>5. Pool!Refuse(t, pool, n) <=> Proved!Refuse(t, pool, n)
    BY <1>0, <1>4, <2>2, <2>3 DEF Pool!Refuse, Proved!Refuse
  <2>6. QED
    BY <2>1, <2>4, <2>5
<1>8. ASSUME NEW t, NEW ttl
      PROVE  /\ Pool!AllocateSlot(t, ttl) <=> Proved!AllocateSlot(t, ttl)
             /\ Pool!RefuseSlot(t) <=> Proved!RefuseSlot(t)
             /\ Pool!Extend(t, ttl) <=> Proved!Extend(t, ttl)
  BY <1>3, <1>4 DEF Pool!AllocateSlot, Proved!AllocateSlot, Pool!RefuseSlot, Proved!RefuseSlot, Pool!Extend, Proved!Extend
<1>9. ASSUME NEW t
      PROVE  /\ Pool!Release(t) <=> Proved!Release(t)
             /\ Pool!Drop(t) <=> Proved!Drop(t)
             /\ Pool!ReleaseCopy(t) <=> Proved!ReleaseCopy(t)
             /\ Pool!ForgetCopy(t) <=> Proved!ForgetCopy(t)
  BY <1>4, <1>5 DEF Pool!Release, Proved!Release, Pool!Drop, Proved!Drop, Pool!ReleaseCopy, Proved!ReleaseCopy, Pool!ForgetCopy, Proved!ForgetCopy
<1>10. /\ Pool!ReapExpired <=> Proved!ReapExpired
       /\ Pool!Crash <=> Proved!Crash
       /\ Pool!Pass <=> Proved!Pass
  BY <1>3, <1>4 DEF Pool!ReapExpired, Proved!ReapExpired, Pool!Crash, Proved!Crash, Pool!Pass, Proved!Pass
<1>11. \A t : Pool!TaskStep(t) <=> Proved!TaskStep(t)
  BY <1>7, <1>8, <1>9 DEF Pool!TaskStep, Proved!TaskStep, Pool!Acquire, Proved!Acquire
<1>12. Pool!Next <=> Proved!Next
  BY <1>10, <1>11 DEF Pool!Next, Proved!Next
<1>13. QED
  BY <1>1, <1>2, <1>12 DEF poolVars, Proved!vars

(* Hence every step keeps the ledger typed. *)
LEMMA LedgerTyped == ASSUME IInv, [Next]_vars PROVE Pool!TypeOK'
<1>1. Proved!TypeOK /\ [Proved!Next]_(Proved!vars) => Proved!TypeOK'
  BY SameLedger, Proved!TypeStep
<1>2. Pool!TypeOK' <=> Proved!TypeOK'
  BY DEF Pool!TypeOK, Proved!TypeOK, Pool!Id, Proved!Id
<1>3. QED
  BY <1>1, <1>2, SameLedger, PoolStep DEF IInv, TypeOK

(* What ends a row keeps the columns it resets typed. *)
LEMMA EndRowTyped ==
    ASSUME IInv, NEW t \in Task, EndRow(t)
    PROVE  /\ row' \in [Task -> {"absent", "queued", "running", "ended"}]
           /\ lane' \in [Task -> Nat] /\ due' \in [Task -> Int] /\ kill' \in [Task -> Nat]
           /\ slack' \in [Task -> 0 .. StartDelay] /\ granted' \in [Task -> 0 .. MaxGrants]
           /\ degraded' \in [Task -> BOOLEAN]
           /\ QueuedTtl'
<1>1. StartDelay \in Nat /\ MaxGrants \in Nat
  BY BudgetAssumption DEF BudgetAssumption
<1>2. /\ row' = [row EXCEPT ![t] = "ended"] /\ due' = [due EXCEPT ![t] = 0]
      /\ row \in [Task -> {"absent", "queued", "running", "ended"}] /\ due \in [Task -> Int]
  BY DEF EndRow, IInv, TypeOK
<1>3. QueuedTtl'
  BY <1>2 DEF QueuedTtl, IInv
<1>4. QED
  BY <1>1, <1>3 DEF EndRow, IInv, TypeOK

LEMMA TypeStep == IInv /\ [Next]_vars => IInv'
<1> SUFFICES ASSUME IInv, [Next]_vars PROVE IInv'
  OBVIOUS
<1>0. Pool!TypeOK' /\ StartDelay \in Nat /\ MaxGrants \in Nat /\ MaxResumes \in Nat
  BY LedgerTyped, BudgetAssumption DEF BudgetAssumption
<1>1. ASSUME NEW t \in Task, Delegate(t) PROVE IInv'
  <2>1. LeaseTtl(t, Floor) \in Nat
    BY Sizes, BudgetAssumption DEF BudgetAssumption, IInv
  <2>2. QED
    BY <1>0, <1>1, <2>1 DEF Delegate, IInv, TypeOK, QueuedTtl, clockVars, legVars
<1>2. ASSUME NEW t \in Task, CancelQueued(t) PROVE IInv'
  <2>1. UNCHANGED <<co, cards, ext, session, ray, stopping, resumes>>
    BY <1>2 DEF CancelQueued, legVars
  <2>2. QED
    BY <1>0, <1>2, <2>1, EndRowTyped DEF CancelQueued, IInv, TypeOK
<1>3. ASSUME NEW t \in Task, Admit(t) PROVE IInv'
  <2>1. WallBudget(t) \in Nat /\ due[t] \in Nat
    BY <1>3, Sizes DEF Admit, Admissible, IInv, QueuedTtl
  <2>2. /\ lane' = [lane EXCEPT ![t] = due[t]]
        /\ kill' = [kill EXCEPT ![t] = WallBudget(t)]
        /\ slack' = [slack EXCEPT ![t] = StartDelay]
        /\ co' = [co EXCEPT ![t] = "spawned"]
        /\ UNCHANGED <<row, due, cards, degraded, granted, ext, session, ray, stopping, resumes>>
    BY <1>3 DEF Admit, Goto, legVars
  <2>3. QED
    BY <1>0, <2>1, <2>2 DEF IInv, TypeOK, QueuedTtl
<1>4. ASSUME NEW t \in Task, Decline(t) \/ PumpReap(t) PROVE IInv'
  BY <1>0, <1>4 DEF Decline, PumpReap, IInv, TypeOK, QueuedTtl, runVars, clockVars, legVars
<1>5. ASSUME NEW t \in Task, Claim(t) \/ Launch(t) \/ Release(t) PROVE IInv'
  BY <1>0, <1>5 DEF Claim, Launch, Release, Goto, IInv, TypeOK, QueuedTtl, clockVars, legVars
<1>6. ASSUME NEW t \in Task, Start(t) PROVE IInv'
  <2>1. lease[t] \in SUBSET (Card \cup Slot)
    BY DEF IInv, TypeOK, Pool!TypeOK, Pool!Id
  <2>2. QED
    BY <1>0, <1>6, <2>1 DEF Start, Goto, IInv, TypeOK, QueuedTtl, legVars
<1>7. ASSUME NEW t \in Task, End(t) \/ Cancel(t) PROVE IInv'
  <2>1. /\ EndRow(t) /\ co' = [co EXCEPT ![t] = "release"]
        /\ cards' = [cards EXCEPT ![t] = {}] \/ cards' = cards
        /\ UNCHANGED <<ext, session, ray, stopping, resumes>>
    BY <1>7 DEF End, Cancel, Goto, legVars
  <2>2. co' \in [Task -> {"none", "spawned", "prepare", "pending", "alive", "release"}]
    BY <2>1 DEF IInv, TypeOK
  <2>3. cards' \in [Task -> SUBSET (Card \cup Slot)]
    BY <2>1 DEF IInv, TypeOK
  <2>4. QED
    BY <1>0, <2>1, <2>2, <2>3, EndRowTyped DEF IInv, TypeOK
<1>8. ASSUME NEW t \in Task, CancelUnstarted(t) PROVE IInv'
  BY <1>0, <1>8 DEF CancelUnstarted, Goto, IInv, TypeOK, QueuedTtl, legVars
<1>9. ASSUME NEW t \in Task, StrayExit(t) PROVE IInv'
  BY <1>0, <1>9 DEF StrayExit, IInv, TypeOK, QueuedTtl, clockVars, legVars
<1>10. ASSUME NEW t \in Task, ExtendRow(t) PROVE IInv'
  <2>1. Extra \in Nat /\ due[t] \in Int /\ granted[t] \in 0 .. MaxGrants /\ granted[t] < MaxGrants
    BY <1>10, BudgetAssumption DEF ExtendRow, BudgetAssumption, IInv, TypeOK
  <2>2. Remaining(due[t] + Extra) \in Nat \ {0}
    BY <2>1, RemainingSize
  <2>3. ext' \in [step : {"lanes", "gpu", "grant"}, task : Task, rest : Nat \ {0}]
    BY <1>10, <2>2 DEF ExtendRow
  <2>4. granted' \in [Task -> 0 .. MaxGrants]
    <3>1. granted' = [granted EXCEPT ![t] = granted[t] + 1]
      BY <1>10 DEF ExtendRow
    <3>2. granted[t] + 1 \in 0 .. MaxGrants
      BY <1>0, <2>1
    <3>3. QED
      BY <3>1, <3>2 DEF IInv, TypeOK
  <2>5. due' \in [Task -> Int] /\ QueuedTtl'
    <3>1. /\ due' = [due EXCEPT ![t] = due[t] + Extra] /\ row' = row /\ row[t] = "running"
          /\ due \in [Task -> Int]
      BY <1>10 DEF ExtendRow, IInv, TypeOK
    <3>2. due' \in [Task -> Int]
      BY <2>1, <3>1
    <3>3. QED
      BY <3>1, <3>2 DEF QueuedTtl, IInv
  <2>6. UNCHANGED <<row, lane, co, kill, slack, cards, degraded, session, ray, stopping, resumes>>
    BY <1>10 DEF ExtendRow, legVars
  <2>7. QED
    BY <1>0, <2>3, <2>4, <2>5, <2>6 DEF IInv, TypeOK
<1>11. CASE Extension
  <2>1. ext = Idle \/ ext \in [step : {"lanes", "gpu", "grant"}, task : Task, rest : Nat \ {0}]
    BY DEF IInv, TypeOK
  <2>2. CASE ExtendLanes
    <3>1. /\ ext.step = "lanes" /\ ext' = [ext EXCEPT !.step = "gpu"]
          /\ lane' = [lane EXCEPT ![ext.task] = IF lane[ext.task] = 0 THEN 0 ELSE ext.rest]
          /\ UNCHANGED <<row, co, cards, due, kill, slack, degraded, granted, session, ray, stopping, resumes>>
      BY <2>2 DEF ExtendLanes, clockVars, legVars
    <3>2. ext \in [step : {"lanes", "gpu", "grant"}, task : Task, rest : Nat \ {0}]
      BY <2>1, <3>1 DEF Idle
    <3>3. ext' \in [step : {"lanes", "gpu", "grant"}, task : Task, rest : Nat \ {0}]
      BY <3>1, <3>2, Zenon
    <3>4. ext.rest \in Nat /\ ext.task \in Task
      BY <3>2
    <3>5. lane' \in [Task -> Nat]
      BY <3>1, <3>4 DEF IInv, TypeOK
    <3>6. QED
      BY <1>0, <3>1, <3>3, <3>5 DEF IInv, TypeOK, QueuedTtl
  <2>3. CASE ExtendCards
    <3>1. /\ ext.step = "gpu" /\ ext' = [ext EXCEPT !.step = "grant"]
          /\ degraded' = degraded \/ degraded' = [degraded EXCEPT ![ext.task] = TRUE]
          /\ UNCHANGED <<row, lane, co, cards, due, kill, slack, granted, session, ray, stopping, resumes>>
      BY <2>3, Zenon DEF ExtendCards, legVars
    <3>2. ext \in [step : {"lanes", "gpu", "grant"}, task : Task, rest : Nat \ {0}]
      BY <2>1, <3>1 DEF Idle
    <3>3. ext' \in [step : {"lanes", "gpu", "grant"}, task : Task, rest : Nat \ {0}]
      BY <3>1, <3>2, Zenon
    <3>4. degraded' \in [Task -> BOOLEAN]
      BY <3>1 DEF IInv, TypeOK
    <3>5. QED
      BY <1>0, <3>1, <3>3, <3>4 DEF IInv, TypeOK, QueuedTtl
  <2>4. CASE Grant
    <3>1. /\ ext.step = "grant" /\ ext' = Idle
          /\ kill' = [kill EXCEPT ![ext.task] = Granted(ext.task)]
          /\ UNCHANGED <<row, lane, co, cards, due, slack, degraded, granted, session, ray, stopping, resumes>>
      BY <2>4 DEF Grant, legVars
    <3>2. ext.task \in Task
      BY <2>1, <3>1 DEF Idle
    <3>3. Granted(ext.task) \in Nat
      BY <3>2, BudgetAssumption DEF Granted, BudgetAssumption, IInv, TypeOK
    <3>4. QED
      BY <1>0, <3>1, <3>3 DEF IInv, TypeOK, QueuedTtl
  <2>5. CASE ExtendInterrupted
    BY <1>0, <2>5 DEF ExtendInterrupted, IInv, TypeOK, QueuedTtl, runVars, clockVars, legVars
  <2>6. QED
    BY <1>11, <2>2, <2>3, <2>4, <2>5 DEF Extension
<1>12. CASE Maintenance
  BY <1>0, <1>12 DEF Maintenance, IInv, TypeOK, QueuedTtl, runVars, clockVars, legVars
<1>13. ASSUME NEW t \in Task, Reclaim(t) PROVE IInv'
  <2>1. UNCHANGED <<co, cards, ext, session, ray, stopping, resumes>> /\ EndRow(t)
    BY <1>13 DEF Reclaim, legVars
  <2>2. QED
    BY <1>0, <2>1, EndRowTyped DEF IInv, TypeOK
<1>14. CASE RequestStop
  BY <1>0, <1>14 DEF RequestStop, IInv, TypeOK, QueuedTtl, runVars, clockVars
<1>15. CASE Resume
  <2>1. resumes' \in 0 .. MaxResumes
    <3>1. resumes \in 0 .. MaxResumes /\ resumes < MaxResumes /\ resumes' = resumes + 1
      BY <1>15 DEF Resume, IInv, TypeOK
    <3>2. QED
      BY <1>0, <3>1
  <2>2. session' \in Nat /\ ray' \in BOOLEAN /\ stopping' \in BOOLEAN /\ ext' = Idle
    <3>1. session \in Nat /\ FreshSession \subseteq Nat
      BY BudgetAssumption DEF BudgetAssumption, IInv, TypeOK
    <3>2. QED
      BY <1>15, <3>1 DEF Resume
  <2>3. /\ co' \in [Task -> {"none", "spawned", "prepare", "pending", "alive", "release"}]
        /\ lane' \in [Task -> Nat] /\ kill' \in [Task -> Nat] /\ slack' \in [Task -> 0 .. StartDelay]
        /\ UNCHANGED <<row, due, degraded, granted>>
    BY <1>0, <1>15 DEF Resume, IInv, TypeOK
  <2>4. cards' \in [Task -> SUBSET (Card \cup Slot)]
    <3>1. cards' = [t \in Task |-> {}] \/ cards' = cards
      BY <1>15 DEF Resume
    <3>2. QED
      BY <3>1 DEF IInv, TypeOK
  <2>5. QED
    BY <1>0, <2>1, <2>2, <2>3, <2>4 DEF IInv, TypeOK, QueuedTtl
<1>16. CASE Tick
  <2>1. Lowest \in Int
    BY BudgetAssumption DEF Lowest, BudgetAssumption
  <2>2. due' \in [Task -> Int] /\ QueuedTtl'
    <3>1. /\ due' = [t \in Task |-> IF row[t] = "running" THEN Max2(Lowest, due[t] - 1) ELSE due[t]]
          /\ row' = row
      BY <1>16 DEF Tick
    <3>2. \A t \in Task : due[t] \in Int /\ Max2(Lowest, due[t] - 1) \in Int
      BY <2>1 DEF Max2, IInv, TypeOK
    <3>3. QED
      BY <3>1, <3>2 DEF QueuedTtl, IInv
  <2>3. lane' \in [Task -> Nat] /\ session' \in Nat
    BY <1>16 DEF Tick, Less, Max2, IInv, TypeOK
  <2>4. slack' \in [Task -> 0 .. StartDelay]
    <3>1. slack' = [t \in Task |-> Less(slack[t])] /\ slack \in [Task -> 0 .. StartDelay]
      BY <1>16 DEF Tick, IInv, TypeOK
    <3>2. \A n \in 0 .. StartDelay : Less(n) \in 0 .. StartDelay
      BY <1>0 DEF Less, Max2
    <3>3. QED
      BY <3>1, <3>2
  <2>5. kill' \in [Task -> Nat]
    <3>1. /\ kill' = [t \in Task |-> IF co[t] = "alive" THEN kill[t] - 1 ELSE kill[t]]
          /\ \A t \in Task : co[t] = "alive" => kill[t] > 0
      BY <1>16 DEF Tick
    <3>2. QED
      BY <3>1 DEF IInv, TypeOK
  <2>6. UNCHANGED <<row, co, cards, degraded, granted, ext, ray, stopping, resumes>>
    BY <1>16 DEF Tick, legVars
  <2>7. QED
    BY <1>0, <2>2, <2>3, <2>4, <2>5, <2>6 DEF IInv, TypeOK
<1>17. CASE UNCHANGED vars
  BY <1>0, <1>17 DEF vars, runVars, clockVars, legVars, IInv, TypeOK, QueuedTtl
<1>18. QED
  BY <1>1, <1>2, <1>3, <1>4, <1>5, <1>6, <1>7, <1>8, <1>9, <1>10, <1>11, <1>12, <1>13, <1>14,
     <1>15, <1>16, <1>17 DEF Next, Step

LEMMA InitTyped == Init => IInv
<1> SUFFICES ASSUME Init PROVE IInv
  OBVIOUS
<1>1. StartDelay \in Nat /\ MaxGrants \in Nat /\ MaxResumes \in Nat /\ Session \in Nat
  BY BudgetAssumption DEF BudgetAssumption
<1>2. Pool!TypeOK
  BY DEF Init, Pool!Init, Pool!TypeOK
<1>3. ray \in BOOLEAN /\ stopping \in BOOLEAN
  BY DEF Init
<1>4. session \in Nat /\ resumes \in 0 .. MaxResumes
  BY <1>1 DEF Init
<1>5. QED
  BY <1>1, <1>2, <1>3, <1>4 DEF Init, IInv, TypeOK, QueuedTtl

LEMMA Inductive == Spec => []IInv
BY InitTyped, TypeStep, PTL DEF Spec

(* Rows, coroutines, clocks and the handler of an extension keep the types  *)
(* of the code's fields: no clock of a lease or a process runs below zero,  *)
(* and an extension never leaves a lease a time of zero or less.            *)
THEOREM SpecialistTypeCorrect == Spec => []TypeOK
<1>1. IInv => TypeOK
  BY DEF IInv
<1>2. QED
  BY <1>1, Inductive, PTL

(* The ledger is used only as GpuPool says a ledger is used: the admission, *)
(* the coroutine's release, the pump's release of its copy, the extension   *)
(* and the reap are its operations, and no other step touches it.           *)
THEOREM PoolImplemented == Spec => ImplementsPool
<1>1. Init => Pool!Init
  BY DEF Init
<1>2. IInv /\ [Next]_vars => [Pool!Next]_(Pool!vars)
  BY PoolStep DEF Pool!vars, poolVars
<1>3. QED
  BY <1>1, <1>2, Inductive, PTL DEF ImplementsPool, Pool!Spec, Spec

(* GpuPool's theorems therefore hold here: a re-admitted specialist never   *)
(* pins the cards of its earlier admissions.                                *)
THEOREM SpecialistNoHoard == Spec => []NoHoard
<1>1. Init => Proved!Init
  BY DEF Init, Pool!Init, Proved!Init, Pool!Id, Proved!Id
<1>2. IInv /\ [Next]_vars => [Proved!Next]_(Proved!vars)
  BY PoolStep, SameLedger
<1>3. Proved!Spec => []Proved!NoHoard
  BY SameLedger, Proved!NoHoardHolds
<1>4. Proved!NoHoard => NoHoard
  BY DEF NoHoard, Pool!NoHoard, Proved!NoHoard, Pool!Rows, Proved!Rows, Pool!Id, Proved!Id
<1>5. QED
  BY <1>1, <1>2, <1>3, <1>4, Inductive, PTL DEF Proved!Spec, Spec

(* No admission, release or reap takes a card from a run whose lease for it *)
(* has time left.                                                           *)
THEOREM SpecialistKeepsItsCards == Spec => KeepsItsCards
<1>1. Init => Proved!Init
  BY DEF Init, Pool!Init, Proved!Init, Pool!Id, Proved!Id
<1>2. IInv /\ [Next]_vars => [Proved!Next]_(Proved!vars)
  BY PoolStep, SameLedger
<1>3. Proved!Spec => Proved!KeepsItsCards
  BY SameLedger, Proved!KeepsItsCardsHolds
<1>4. Proved!KeepsItsCards => KeepsItsCards
  BY DEF KeepsItsCards, Pool!KeepsItsCards, Proved!KeepsItsCards, Pool!vars, Proved!vars,
         Pool!Id, Proved!Id
<1>5. QED
  BY <1>1, <1>2, <1>3, <1>4, Inductive, PTL DEF Proved!Spec, Spec
=============================================================================
