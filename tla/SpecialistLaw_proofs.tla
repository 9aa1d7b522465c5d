------------------------ MODULE SpecialistLaw_proofs ------------------------
(***************************************************************************)
(* The iron law of SpecialistRuns, proved for every number of tasks, every *)
(* budget and every extension, as long as the session keeps one deadline   *)
(* (no resume re-anchors it) and the grace exceeds the time an admitted    *)
(* task needs to start.                                                    *)
(***************************************************************************)
EXTENDS SpecialistRuns_proofs

OneDeadline == FreshSession = {} /\ StartDelay < Grace

(* The extension under way is of this task, at one of these steps. *)
Extending(u, steps) == ext # Idle /\ ext.task = u /\ ext.step \in steps

(* What the wall-clock cap may still grow by, by the steps taken so far. *)
Owed(u, steps) == IF Extending(u, steps) THEN Extra ELSE 0

(* The longest the process may still run. *)
Most(u) == kill[u] + slack[u]

Busy(u) == co[u] \in {"spawned", "prepare", "pending", "alive"}

(* A coroutine's row is in the state its steps left it in, and an extension *)
(* is of a row that has run.                                                *)
InStep(u) ==
    /\ co[u] = "spawned" => row[u] = "queued"
    /\ co[u] \in {"prepare", "pending", "alive"} => row[u] = "running"
    /\ Extending(u, {"lanes", "gpu", "grant"}) => row[u] \in {"running", "ended"}

(* A queued row's ttl exceeds any budget the dispatcher will compute for it.*)
Sized(u) == row[u] = "queued" => WallBudget(u) + Grace =< due[u]

(* Row, lane and cards outlast the process, also with the extra time that   *)
(* an extension under way will give it.                                     *)
RowOutlasts(u) == Busy(u) => Most(u) + Owed(u, {"lanes", "gpu", "grant"}) < due[u]
LaneOutlasts(u) == Busy(u) => Most(u) + Owed(u, {"gpu", "grant"}) < lane[u]
RestOutlasts(u) == Busy(u) /\ Extending(u, {"lanes", "gpu"}) => Most(u) + Extra < ext.rest
CardsOutlast(u) ==
    (Busy(u) /\ ~degraded[u]) =>
        \A i \in lease[u] : owner[i] = u /\ Most(u) + Owed(u, {"grant"}) < left[i]

(* The process computes on the cards of the lease. *)
OnItsLease(u) == co[u] = "alive" => cards[u] = lease[u]

LawFor(u) ==
    /\ InStep(u) /\ Sized(u) /\ OnItsLease(u)
    /\ RowOutlasts(u) /\ LaneOutlasts(u) /\ RestOutlasts(u) /\ CardsOutlast(u)

LawInv == \A u \in Task : LawFor(u)

-----------------------------------------------------------------------------
(* An operation of the ledger that is not the task's own leaves it its      *)
(* lease and the unexpired rows of that lease.                              *)
Keeps(u) ==
    /\ lease'[u] = lease[u]
    /\ \A i \in lease[u] :
          owner[i] = u /\ left[i] > 0 => owner'[i] = u /\ left'[i] = left[i]

LEMMA WriteKeeps ==
    ASSUME IInv, NEW u \in Task, NEW gone, NEW ids, NEW t, NEW ttl, Pool!Write(gone, ids, t, ttl),
           \A i \in lease[u] : owner[i] = u /\ left[i] > 0 => i \notin gone /\ i \notin ids,
           lease'[u] = lease[u]
    PROVE  Keeps(u)
<1>1. \A i \in lease[u] : i \in Pool!Id
  BY DEF IInv, TypeOK, Pool!TypeOK
<1>2. QED
  BY <1>1 DEF Keeps, Pool!Write

LEMMA OthersKeep ==
    ASSUME IInv, NEW u \in Task, NEW t \in Task, t # u,
           \/ \E pool, n, ttl : Pool!Acquire(t, pool, n, ttl) \/ Pool!Refuse(t, pool, n)
           \/ \E ttl : Pool!AllocateSlot(t, ttl) \/ Pool!Extend(t, ttl)
           \/ Pool!RefuseSlot(t) \/ Pool!Release(t) \/ Pool!Drop(t) \/ Pool!ReleaseCopy(t)
    PROVE  Keeps(u)
<1> u # Free /\ lease \in [Task -> SUBSET Pool!Id]
  BY PoolAssumption DEF Pool!PoolConstants, IInv, TypeOK, Pool!TypeOK
<1>0. \A i \in Pool!Id : owner[i] = u /\ left[i] > 0 =>
          /\ i \notin Pool!Expired /\ i \notin Pool!Rows(t) /\ i \notin Pool!Purged(t)
          /\ \A ids : i \notin Pool!Deleted(t, ids)
          /\ \A pool : i \notin Pool!Available(t, pool)
  BY DEF Pool!Expired, Pool!Rows, Pool!Purged, Pool!Deleted, Pool!Available
<1>1. ASSUME NEW pool, NEW n, NEW ttl, Pool!Refresh(t, pool, n, ttl) PROVE Keeps(u)
  <2>1. Pool!Write(Pool!Expired, Pool!Rows(t) \ Pool!Expired, t, ttl) /\ lease'[u] = lease[u]
    BY <1>1 DEF Pool!Refresh, Pool!Hand
  <2>2. QED
    BY <1>0, <2>1, WriteKeeps
<1>2. ASSUME NEW pool, NEW n, NEW ttl, Pool!Allocate(t, pool, n, ttl) PROVE Keeps(u)
  <2>1. PICK ids \in SUBSET Pool!Available(t, pool) :
                Pool!Write(Pool!Purged(t), ids, t, ttl) /\ Pool!Hand(t, ids)
    BY <1>2 DEF Pool!Allocate
  <2>2. lease'[u] = lease[u]
    BY <2>1 DEF Pool!Hand
  <2>3. QED
    BY <1>0, <2>1, <2>2, WriteKeeps
<1>3. ASSUME NEW pool, NEW n, Pool!Refuse(t, pool, n) PROVE Keeps(u)
  <2>1. Pool!Write(Pool!Purged(t), {}, t, 0) /\ lease'[u] = lease[u]
    BY <1>3 DEF Pool!Refuse
  <2>2. QED
    BY <1>0, <2>1, WriteKeeps
<1>4. ASSUME NEW ttl, Pool!AllocateSlot(t, ttl) PROVE Keeps(u)
  <2>1. PICK s \in Slot : /\ owner[s] = Free \/ s \in Pool!Expired
                          /\ Pool!Write(Pool!Expired, {s}, t, ttl) /\ Pool!Hand(t, {s})
    BY <1>4 DEF Pool!AllocateSlot
  <2>2. lease'[u] = lease[u]
    BY <2>1 DEF Pool!Hand
  <2>3. QED
    BY <1>0, <2>1, <2>2, WriteKeeps
<1>5. ASSUME NEW ttl, Pool!Extend(t, ttl) PROVE Keeps(u)
  BY <1>5 DEF Pool!Extend, Keeps
<1>6. CASE Pool!RefuseSlot(t)
  <2>1. Pool!Write(Pool!Expired, {}, t, 0) /\ lease'[u] = lease[u]
    BY <1>6 DEF Pool!RefuseSlot
  <2>2. QED
    BY <1>0, <2>1, WriteKeeps
<1>7. CASE Pool!Release(t)
  <2>1. Pool!Write(Pool!Deleted(t, lease[t]), {}, t, 0) /\ lease'[u] = lease[u]
    BY <1>7 DEF Pool!Release
  <2>2. QED
    BY <1>0, <2>1, WriteKeeps
<1>8. CASE Pool!Drop(t)
  BY <1>8 DEF Pool!Drop, Keeps
<1>9. CASE Pool!ReleaseCopy(t)
  <2>1. Pool!Write(Pool!Deleted(t, copy[t]), {}, t, 0) /\ lease'[u] = lease[u]
    BY <1>9 DEF Pool!ReleaseCopy
  <2>2. QED
    BY <1>0, <2>1, WriteKeeps
<1>10. QED
  BY <1>1, <1>2, <1>3, <1>4, <1>5, <1>6, <1>7, <1>8, <1>9 DEF Pool!Acquire

LEMMA ReapKeeps == ASSUME IInv, NEW u \in Task, Pool!ReapExpired PROVE Keeps(u)
<1>1. Pool!Write(Pool!Expired, {}, Free, 0) /\ lease'[u] = lease[u]
  BY DEF Pool!ReapExpired
<1>2. QED
  BY <1>1, WriteKeeps DEF Pool!Expired

LEMMA StillKeeps == ASSUME NEW u \in Task, UNCHANGED poolVars PROVE Keeps(u)
BY DEF Keeps, poolVars

-----------------------------------------------------------------------------
(* What the law says of a task is kept by a step that changes nothing of    *)
(* it, whatever happens to the others; the end of an extension may only     *)
(* make it easier.                                                          *)
Alike(u) ==
    /\ row'[u] = row[u] /\ co'[u] = co[u] /\ due'[u] = due[u] /\ lane'[u] = lane[u]
    /\ kill'[u] = kill[u] /\ slack'[u] = slack[u]
    /\ degraded'[u] = degraded[u] /\ (co[u] = "alive" => cards'[u] = cards[u])

LEMMA Numbers ==
    ASSUME IInv, NEW u \in Task
    PROVE  /\ Extra \in Nat \ {0} /\ Grace \in Nat \ {0} /\ Base[u] \in Nat \ {0} /\ Floor \in Nat
           /\ due[u] \in Int /\ lane[u] \in Nat /\ kill[u] \in Nat /\ slack[u] \in Nat
           /\ StartDelay \in Nat /\ session \in Nat
           /\ \A i \in lease[u] : left[i] \in Nat
           /\ \A steps : Extending(u, steps) => ext.rest \in Nat
<1>1. Extra \in Nat \ {0} /\ Grace \in Nat \ {0} /\ Base[u] \in Nat \ {0} /\ Floor \in Nat
  BY BudgetAssumption DEF BudgetAssumption
<1>2. StartDelay \in Nat
  BY BudgetAssumption DEF BudgetAssumption
<1>3. /\ due[u] \in Int /\ lane[u] \in Nat /\ kill[u] \in Nat /\ slack[u] \in Nat
      /\ session \in Nat
  BY <1>2 DEF IInv, TypeOK
<1>4. \A i \in lease[u] : left[i] \in Nat
  BY DEF IInv, TypeOK, Pool!TypeOK
<1>5. \A steps : Extending(u, steps) => ext.rest \in Nat
  BY DEF IInv, TypeOK, Extending
<1>6. QED
  BY <1>1, <1>2, <1>3, <1>4, <1>5

LEMMA Frame ==
    ASSUME IInv, NEW u \in Task, LawFor(u), Alike(u), Keeps(u), session' = session,
           ext' = ext \/ ext' = Idle \/ (ext'.task # u /\ ext' # Idle)
    PROVE  LawFor(u)'
<1>1. \A steps : Extending(u, steps)' => Extending(u, steps) /\ ext'.rest = ext.rest
  BY DEF Extending
<1>2. \A steps : Owed(u, steps)' =< Owed(u, steps) /\ Owed(u, steps) \in Nat /\ Owed(u, steps)' \in Nat
  BY <1>1, Numbers DEF Owed
<1>3. InStep(u)' /\ OnItsLease(u)'
  BY <1>1 DEF LawFor, InStep, OnItsLease, Alike, Keeps
<1>4. Sized(u)'
  BY DEF LawFor, Sized, Alike, WallBudget
<1>5. Most(u)' = Most(u) /\ Busy(u)' = Busy(u) /\ Most(u) \in Nat
  BY Numbers DEF Most, Busy, Alike
<1>6. RowOutlasts(u)' /\ LaneOutlasts(u)'
  BY <1>2, <1>5, Numbers DEF LawFor, RowOutlasts, LaneOutlasts, Alike
<1>7. RestOutlasts(u)'
  BY <1>1, <1>5 DEF LawFor, RestOutlasts
<1>8. CardsOutlast(u)'
  <2> SUFFICES ASSUME Busy(u)', ~degraded'[u], NEW i \in lease[u]
               PROVE  owner'[i] = u /\ Most(u)' + Owed(u, {"grant"})' < left'[i]
    BY DEF CardsOutlast, Keeps
  <2>1. owner[i] = u /\ Most(u) + Owed(u, {"grant"}) < left[i]
    BY <1>5 DEF LawFor, CardsOutlast, Alike
  <2>2. left[i] \in Nat
    BY Numbers
  <2>3. owner'[i] = u /\ left'[i] = left[i]
    BY <1>2, <1>5, <2>1, <2>2 DEF Keeps
  <2>4. QED
    BY <1>2, <1>5, <2>1, <2>2, <2>3
<1>9. QED
  BY <1>3, <1>4, <1>6, <1>7, <1>8 DEF LawFor

(* A task without a coroutine has nothing to be outlasted.                  *)
LEMMA IdleLaw ==
    ASSUME NEW u \in Task, co'[u] \in {"none", "release"}, row'[u] # "queued",
           \A steps : Extending(u, steps)' => row'[u] \in {"running", "ended"}
    PROVE  LawFor(u)'
BY DEF LawFor, InStep, Sized, OnItsLease, RowOutlasts, LaneOutlasts, RestOutlasts, CardsOutlast, Busy

LEMMA QuietLaw ==
    ASSUME NEW u \in Task, LawFor(u), co'[u] \in {"none", "release"}, row'[u] = row[u],
           due'[u] = due[u], session' = session, ext' = ext \/ ext' = Idle
    PROVE  LawFor(u)'
<1>1. \A steps : Extending(u, steps)' => Extending(u, steps)
  BY DEF Extending
<1>2. InStep(u)' /\ Sized(u)'
  BY <1>1 DEF LawFor, InStep, Sized, WallBudget
<1>3. QED
  BY <1>2 DEF LawFor, OnItsLease, RowOutlasts, LaneOutlasts, RestOutlasts, CardsOutlast, Busy

-----------------------------------------------------------------------------
(* The steps of other tasks. *)
LEMMA OthersStep ==
    ASSUME IInv, NEW u \in Task, LawFor(u), NEW t \in Task, t # u,
           \/ Delegate(t) \/ CancelQueued(t) \/ Admit(t) \/ Decline(t) \/ Step(t)
           \/ CancelUnstarted(t) \/ Cancel(t) \/ StrayExit(t) \/ ExtendRow(t) \/ Reclaim(t)
    PROVE  LawFor(u)'
<1>1. ASSUME Delegate(t) \/ CancelQueued(t) \/ Claim(t) \/ Launch(t) \/ Start(t) \/ End(t)
             \/ Cancel(t) \/ StrayExit(t) \/ ExtendRow(t) \/ Reclaim(t)
      PROVE  Keeps(u)
  <2>1. UNCHANGED poolVars
    BY <1>1 DEF Delegate, CancelQueued, Claim, Launch, Start, End, Cancel, StrayExit, ExtendRow, Reclaim
  <2>2. QED
    BY <2>1, StillKeeps
<1>2. ASSUME Admit(t) \/ Decline(t) \/ Release(t) \/ PumpReap(t) \/ CancelUnstarted(t)
      PROVE  Keeps(u)
  <2>1. \/ \E pool, n, ttl : Pool!Acquire(t, pool, n, ttl) \/ Pool!Refuse(t, pool, n)
        \/ \E ttl : Pool!AllocateSlot(t, ttl)
        \/ Pool!RefuseSlot(t) \/ Pool!Release(t) \/ Pool!Drop(t) \/ Pool!ReleaseCopy(t)
    BY <1>2 DEF Admit, Decline, Release, PumpReap, CancelUnstarted
  <2>2. QED
    BY <2>1, OthersKeep
<1>0. /\ DOMAIN row = Task /\ DOMAIN co = Task /\ DOMAIN due = Task /\ DOMAIN lane = Task
      /\ DOMAIN kill = Task /\ DOMAIN slack = Task /\ DOMAIN cards = Task /\ DOMAIN degraded = Task
  BY DEF IInv, TypeOK
<1>3. CASE Delegate(t) \/ CancelQueued(t) \/ Reclaim(t) \/ End(t) \/ Cancel(t)
  <2>1. Alike(u) /\ session' = session /\ ext' = ext
    <3>1. CASE Delegate(t)
      BY <1>0, <3>1 DEF Delegate, Alike
    <3>2. CASE CancelQueued(t)
      BY <1>0, <3>2 DEF CancelQueued, EndRow, Alike
    <3>3. CASE Reclaim(t)
      BY <1>0, <3>3 DEF Reclaim, EndRow, Alike
    <3>4. CASE End(t)
      BY <1>0, <3>4 DEF End, EndRow, Goto, Alike
    <3>5. CASE Cancel(t)
      BY <1>0, <3>5 DEF Cancel, EndRow, Goto, Alike
    <3>6. QED
      BY <1>3, <3>1, <3>2, <3>3, <3>4, <3>5
  <2>2. QED
    BY <1>1, <1>3, <2>1, Frame
<1>4. CASE Claim(t) \/ Launch(t) \/ Start(t) \/ StrayExit(t)
  <2>1. Alike(u) /\ session' = session /\ ext' = ext
    <3>1. CASE Claim(t)
      BY <1>0, <3>1 DEF Claim, Goto, clockVars, Alike
    <3>2. CASE Launch(t)
      BY <1>0, <3>2 DEF Launch, Goto, clockVars, Alike
    <3>3. CASE Start(t)
      BY <1>0, <3>3 DEF Start, Goto, Alike
    <3>4. CASE StrayExit(t)
      BY <1>0, <3>4 DEF StrayExit, clockVars, Alike
    <3>5. QED
      BY <1>4, <3>1, <3>2, <3>3, <3>4
  <2>2. QED
    BY <1>1, <1>4, <2>1, Frame
<1>5. CASE ExtendRow(t)
  <2>1. Alike(u) /\ session' = session
    BY <1>0, <1>5 DEF ExtendRow, Alike
  <2>2. ext'.task # u /\ ext' # Idle
    BY <1>5 DEF ExtendRow, Idle
  <2>3. QED
    BY <1>1, <1>5, <2>1, <2>2, Frame
<1>6. CASE Admit(t) \/ Decline(t)
  <2>1. Alike(u) /\ session' = session /\ ext' = ext
    <3>1. CASE Admit(t)
      BY <1>0, <3>1 DEF Admit, Goto, Alike
    <3>2. CASE Decline(t)
      BY <1>0, <3>2 DEF Decline, runVars, clockVars, Alike
    <3>3. QED
      BY <1>6, <3>1, <3>2
  <2>2. QED
    BY <1>2, <1>6, <2>1, Frame
<1>7. CASE Release(t) \/ PumpReap(t) \/ CancelUnstarted(t)
  <2>1. Alike(u) /\ session' = session /\ ext' = ext
    <3>1. CASE Release(t)
      BY <1>0, <3>1 DEF Release, Goto, clockVars, Alike
    <3>2. CASE PumpReap(t)
      BY <1>0, <3>2 DEF PumpReap, runVars, clockVars, Alike
    <3>3. CASE CancelUnstarted(t)
      BY <1>0, <3>3 DEF CancelUnstarted, Goto, Alike
    <3>4. QED
      BY <1>7, <3>1, <3>2, <3>3
  <2>2. QED
    BY <1>2, <1>7, <2>1, Frame
<1>8. QED
  BY <1>3, <1>4, <1>5, <1>6, <1>7 DEF Step

(* Admission is where the three clocks are set: the process gets the budget *)
(* of this moment, row and lane the ttl of the delegation, cards the larger.*)
LEMMA AdmitStep ==
    ASSUME IInv, OneDeadline, NEW u \in Task, LawFor(u), Admit(u)
    PROVE  LawFor(u)'
<1>1. /\ row'[u] = "queued" /\ row[u] = "queued" /\ co'[u] = "spawned" /\ due'[u] = due[u]
      /\ lane'[u] = due[u] /\ kill'[u] = WallBudget(u) /\ slack'[u] = StartDelay
      /\ session' = session /\ ext' = ext
  BY DEF Admit, Admissible, Goto, IInv, TypeOK
<1>2. WallBudget(u) \in Nat /\ WallBudget(u) + Grace =< due[u]
  BY <1>1, Sizes DEF LawFor, Sized, IInv
<1>3. \A steps \in SUBSET {"lanes", "gpu", "grant"} : ~Extending(u, steps)'
  BY <1>1 DEF LawFor, InStep, Extending
<1>4. Most(u)' \in Nat /\ Most(u)' < WallBudget(u) + Grace
  BY <1>1, <1>2, Numbers DEF Most, OneDeadline
<1>5. Owed(u, {"lanes", "gpu", "grant"})' = 0 /\ Owed(u, {"gpu", "grant"})' = 0 /\ Owed(u, {"grant"})' = 0
  BY <1>3 DEF Owed
<1>6. \A i \in lease'[u] : owner'[i] = u /\ left'[i] = LeaseTtl(u, due[u])
  <2> DEFINE ttl == LeaseTtl(u, due[u])
  <2>0. lease \in [Task -> SUBSET Pool!Id]
    BY DEF IInv, TypeOK, Pool!TypeOK
  <2>1. CASE ray
    <3>1. PICK s \in Slot : Pool!Write(Pool!Expired, {s}, u, ttl) /\ Pool!Hand(u, {s})
      BY <2>1 DEF Admit, Pool!AllocateSlot
    <3>2. lease'[u] = {s}
      BY <2>0, <3>1 DEF Pool!Hand
    <3>3. s \in Pool!Id
      BY DEF Pool!Id
    <3>4. QED
      BY <3>1, <3>2, <3>3 DEF Pool!Write
  <2>2. CASE ~ray
    <3>1. PICK n \in Count[u] : Pool!Acquire(u, PoolOf[u], n, ttl)
      BY <2>2 DEF Admit
    <3>2. \E gone, ids : /\ Pool!Write(gone, ids, u, ttl) /\ Pool!Hand(u, ids) /\ ids \subseteq Pool!Id
      <4>1. CASE Pool!Refresh(u, PoolOf[u], n, ttl)
        BY <4>1 DEF Pool!Refresh, Pool!Rows
      <4>2. CASE Pool!Allocate(u, PoolOf[u], n, ttl)
        <5>1. Pool!Available(u, PoolOf[u]) \subseteq Pool!Id
          BY BudgetAssumption DEF BudgetAssumption, Pool!Available, Pool!Id
        <5>2. QED
          BY <4>2, <5>1 DEF Pool!Allocate
      <4>3. QED
        BY <3>1, <4>1, <4>2 DEF Pool!Acquire
    <3>3. PICK gone, ids : Pool!Write(gone, ids, u, ttl) /\ Pool!Hand(u, ids) /\ ids \subseteq Pool!Id
      BY <3>2
    <3>4. lease'[u] = ids
      BY <2>0, <3>3 DEF Pool!Hand
    <3>5. QED
      BY <3>3, <3>4 DEF Pool!Write
  <2>3. QED
    BY <2>1, <2>2
<1>7. LeaseTtl(u, due[u]) \in Nat /\ LeaseTtl(u, due[u]) >= WallBudget(u) + Grace
  <2>1. LeaseTtl(u, due[u]) \in Nat
    BY Sizes, Numbers DEF IInv
  <2>2. LeaseTtl(u, due[u]) >= WallBudget(u) + Grace
    <3> HIDE DEF WallBudget
    <3> QED BY <1>2, Numbers DEF LeaseTtl, Max2
  <2>3. QED
    BY <2>1, <2>2
<1>8. InStep(u)' /\ OnItsLease(u)' /\ RestOutlasts(u)'
  BY <1>1, <1>3 DEF InStep, OnItsLease, RestOutlasts
<1>9. Sized(u)'
  BY <1>1, <1>2 DEF Sized, WallBudget
<1>10. RowOutlasts(u)' /\ LaneOutlasts(u)' /\ CardsOutlast(u)'
  <2>1. RowOutlasts(u)' /\ LaneOutlasts(u)'
    BY <1>1, <1>2, <1>4, <1>5, Numbers DEF RowOutlasts, LaneOutlasts
  <2>2. CardsOutlast(u)'
    BY <1>2, <1>4, <1>5, <1>6, <1>7, Numbers DEF CardsOutlast
  <2>3. QED
    BY <2>1, <2>2
<1>11. QED
  BY <1>8, <1>9, <1>10 DEF LawFor

(* The other steps of the task itself. *)
LEMMA OwnStep ==
    ASSUME IInv, OneDeadline, NEW u \in Task, LawFor(u),
           \/ Delegate(u) \/ CancelQueued(u) \/ Decline(u) \/ Step(u)
           \/ CancelUnstarted(u) \/ Cancel(u) \/ StrayExit(u) \/ Reclaim(u)
    PROVE  LawFor(u)'
<1>0. /\ DOMAIN row = Task /\ DOMAIN co = Task /\ DOMAIN due = Task /\ DOMAIN slack = Task
      /\ DOMAIN cards = Task
  BY DEF IInv, TypeOK
<1>1. CASE Delegate(u)
  <2>1. /\ row[u] = "absent" /\ row'[u] = "queued" /\ co'[u] = co[u] /\ session' = session /\ ext' = ext
        /\ due'[u] = LeaseTtl(u, Floor)
    BY <1>0, <1>1 DEF Delegate
  <2>2. \A steps \in SUBSET {"lanes", "gpu", "grant"} : ~Extending(u, steps)'
    BY <2>1 DEF LawFor, InStep, Extending
  <2>3. ~Busy(u)'
    BY <2>1 DEF LawFor, InStep, Busy
  <2>4. WallBudget(u) + Grace =< LeaseTtl(u, Floor)
    <3>1. WallBudget(u) \in Nat
      BY Sizes DEF IInv
    <3> HIDE DEF WallBudget
    <3> QED BY <3>1, Numbers DEF LeaseTtl, Max2
  <2>5. Sized(u)'
    BY <2>1, <2>4 DEF Sized, WallBudget
  <2>6. InStep(u)'
    BY <2>1, <2>2, <2>3 DEF InStep, Busy
  <2>7. QED
    BY <2>3, <2>5, <2>6 DEF LawFor, OnItsLease, RowOutlasts, LaneOutlasts, RestOutlasts, CardsOutlast, Busy
<1>2. CASE CancelQueued(u) \/ Reclaim(u) \/ End(u) \/ Cancel(u)
  <2>1. row'[u] = "ended" /\ co'[u] \in {"none", "release"}
    <3>1. CASE CancelQueued(u)
      BY <1>0, <3>1 DEF CancelQueued, EndRow
    <3>2. CASE Reclaim(u)
      BY <1>0, <3>2 DEF Reclaim, EndRow
    <3>3. CASE End(u)
      BY <1>0, <3>3 DEF End, EndRow, Goto
    <3>4. CASE Cancel(u)
      BY <1>0, <3>4 DEF Cancel, EndRow, Goto
    <3>5. QED
      BY <1>2, <3>1, <3>2, <3>3, <3>4
  <2>2. QED
    BY <2>1, IdleLaw
<1>3. CASE Decline(u) \/ PumpReap(u) \/ CancelUnstarted(u) \/ Release(u)
  <2>1. /\ co'[u] \in {"none", "release"} /\ row'[u] = row[u] /\ due'[u] = due[u]
        /\ session' = session /\ ext' = ext
    <3>1. CASE Decline(u)
      BY <1>0, <3>1 DEF Decline, Admissible, runVars, clockVars
    <3>2. CASE PumpReap(u)
      BY <1>0, <3>2 DEF PumpReap, runVars, clockVars
    <3>3. CASE CancelUnstarted(u)
      BY <1>0, <3>3 DEF CancelUnstarted, Goto
    <3>4. CASE Release(u)
      BY <1>0, <3>4 DEF Release, Goto, clockVars
    <3>5. QED
      BY <1>3, <3>1, <3>2, <3>3, <3>4
  <2>2. QED
    BY <2>1, QuietLaw
<1>4. CASE Claim(u) \/ Launch(u) \/ Start(u)
  <2>1. /\ row'[u] = "running" /\ co[u] \in {"spawned", "prepare", "pending"}
        /\ co'[u] \in {"prepare", "pending", "alive"} /\ due'[u] = due[u] /\ lane'[u] = lane[u]
        /\ kill'[u] = kill[u] /\ slack'[u] \in {0, slack[u]} /\ degraded'[u] = degraded[u]
        /\ (co'[u] = "alive" => cards'[u] = lease[u]) /\ UNCHANGED <<owner, left, lease, ext>>
    <3>1. CASE Claim(u)
      BY <1>0, <3>1 DEF Claim, Goto, clockVars, poolVars
    <3>2. CASE Launch(u)
      BY <1>0, <3>2 DEF Launch, Goto, clockVars, poolVars, LawFor, InStep
    <3>3. CASE Start(u)
      BY <1>0, <3>3 DEF Start, Goto, poolVars, LawFor, InStep
    <3>4. QED
      BY <1>4, <3>1, <3>2, <3>3
  <2>2. /\ Busy(u) /\ Most(u)' \in Nat /\ Most(u)' =< Most(u) /\ Most(u) \in Nat
        /\ \A steps : Extending(u, steps)' = Extending(u, steps)
        /\ \A steps : Owed(u, steps)' = Owed(u, steps) /\ Owed(u, steps) \in Nat
    <3>1. \A steps : Extending(u, steps)' = Extending(u, steps)
      BY <2>1 DEF Extending
    <3>2. \A steps : Owed(u, steps)' = Owed(u, steps) /\ Owed(u, steps) \in Nat
      BY <3>1, Numbers DEF Owed
    <3>3. Busy(u) /\ Most(u)' \in Nat /\ Most(u)' =< Most(u) /\ Most(u) \in Nat
      BY <2>1, Numbers DEF Busy, Most
    <3>4. QED
      BY <3>1, <3>2, <3>3
  <2>3. InStep(u)' /\ Sized(u)' /\ OnItsLease(u)'
    BY <2>1 DEF InStep, Sized, OnItsLease
  <2>4. RowOutlasts(u)' /\ LaneOutlasts(u)'
    BY <2>1, <2>2, Numbers DEF LawFor, RowOutlasts, LaneOutlasts
  <2>5. RestOutlasts(u)'
    BY <2>1, <2>2, Numbers DEF LawFor, RestOutlasts
  <2>6. CardsOutlast(u)'
    BY <2>1, <2>2, Numbers DEF LawFor, CardsOutlast
  <2>7. QED
    BY <2>3, <2>4, <2>5, <2>6 DEF LawFor
<1>5. CASE StrayExit(u)
  <2>1. Alike(u) /\ session' = session /\ ext' = ext
    BY <1>0, <1>5 DEF StrayExit, Alike, clockVars
  <2>2. Keeps(u)
    BY <1>5, StillKeeps DEF StrayExit
  <2>3. QED
    BY <2>1, <2>2, Frame
<1>6. QED
  BY <1>1, <1>2, <1>3, <1>4, <1>5 DEF Step

-----------------------------------------------------------------------------
(* An extension first adds to the row, then to the lane, then to the cards, *)
(* and only then to the process: whatever interrupts it, the process gains  *)
(* nothing the other three have not got.                                    *)
LEMMA ExtensionStep ==
    ASSUME IInv, NEW u \in Task, LawFor(u), ExtendRow(u) \/ Extension
    PROVE  LawFor(u)'
<1>0. /\ DOMAIN row = Task /\ DOMAIN co = Task /\ DOMAIN due = Task /\ DOMAIN lane = Task
      /\ DOMAIN kill = Task /\ DOMAIN slack = Task /\ DOMAIN cards = Task /\ DOMAIN degraded = Task
  BY DEF IInv, TypeOK
<1>1. Most(u) \in Nat /\ \A steps : Owed(u, steps) \in Nat
  BY Numbers DEF Most, Owed
<1>2. ASSUME ext # Idle PROVE ext \in [step : {"lanes", "gpu", "grant"}, task : Task, rest : Nat \ {0}]
  BY <1>2 DEF IInv, TypeOK
<1>3. CASE ExtendRow(u)
  <2>1. /\ ext = Idle /\ row[u] = "running" /\ row'[u] = "running" /\ co'[u] = co[u]
        /\ due'[u] = due[u] + Extra /\ lane'[u] = lane[u] /\ kill'[u] = kill[u] /\ slack'[u] = slack[u]
        /\ degraded'[u] = degraded[u] /\ cards'[u] = cards[u] /\ UNCHANGED <<owner, left, lease>>
        /\ ext' = [step |-> "lanes", task |-> u, rest |-> Remaining(due[u] + Extra)]
    BY <1>0, <1>3 DEF ExtendRow, poolVars
  <2>2. Owed(u, {"gpu", "grant"})' = 0 /\ Owed(u, {"grant"})' = 0
    BY <2>1 DEF Owed, Extending
  <2>3. Owed(u, {"lanes", "gpu", "grant"})' \in {0, Extra}
    BY DEF Owed
  <2>4. Owed(u, {"lanes", "gpu", "grant"}) = 0 /\ Owed(u, {"gpu", "grant"}) = 0 /\ Owed(u, {"grant"}) = 0
    BY <2>1 DEF Owed, Extending
  <2>5. Most(u)' = Most(u) /\ Busy(u)' = Busy(u)
    BY <2>1 DEF Most, Busy
  <2>6. InStep(u)' /\ Sized(u)' /\ OnItsLease(u)'
    BY <2>1 DEF LawFor, InStep, Sized, OnItsLease
  <2>7. RowOutlasts(u)'
    BY <1>1, <2>1, <2>3, <2>4, <2>5, Numbers DEF LawFor, RowOutlasts
  <2>8. LaneOutlasts(u)' /\ CardsOutlast(u)'
    BY <1>1, <2>1, <2>2, <2>4, <2>5 DEF LawFor, LaneOutlasts, CardsOutlast
  <2>9. RestOutlasts(u)'
    <3>1. ext'.rest = Remaining(due[u] + Extra) /\ due[u] + Extra \in Int
      BY <2>1, Numbers
    <3>2. ext'.rest \in Nat /\ ext'.rest >= due[u] + Extra
      BY <3>1, RemainingSize, Numbers DEF Remaining, Max2
    <3>3. QED
      BY <1>1, <2>4, <2>5, <3>2, Numbers DEF LawFor, RowOutlasts, RestOutlasts
  <2>10. QED
    BY <2>6, <2>7, <2>8, <2>9 DEF LawFor
<1>4. CASE ExtendInterrupted
  <2>1. Alike(u) /\ Keeps(u) /\ session' = session /\ ext' = Idle
    BY <1>4, StillKeeps DEF ExtendInterrupted, Alike, runVars, clockVars
  <2>2. QED
    BY <2>1, Frame
<1>5. CASE ExtendLanes
  <2>1. /\ ext.step = "lanes" /\ ext # Idle /\ ext' = [ext EXCEPT !.step = "gpu"]
        /\ lane' = [lane EXCEPT ![ext.task] = IF lane[ext.task] = 0 THEN 0 ELSE ext.rest]
        /\ UNCHANGED <<row, co, due, kill, slack, degraded, cards, session, owner, left, lease>>
        /\ UNCHANGED poolVars
    BY <1>5 DEF ExtendLanes, poolVars, clockVars, Idle
  <2>2. /\ ext'.step = "gpu" /\ ext'.task = ext.task /\ ext'.rest = ext.rest /\ ext' # Idle
        /\ ext.rest \in Nat
    BY <1>2, <2>1 DEF Idle
  <2>3. CASE ext.task # u
    <3>1. Alike(u) /\ Keeps(u)
      BY <1>0, <2>1, <2>3, StillKeeps DEF Alike
    <3>2. QED
      BY <2>1, <2>2, <2>3, <3>1, Frame
  <2>4. CASE ext.task = u
    <3>1. Most(u)' = Most(u) /\ Busy(u)' = Busy(u)
      BY <2>1 DEF Most, Busy
    <3>2. /\ Owed(u, {"lanes", "gpu", "grant"}) = Extra /\ Owed(u, {"lanes", "gpu", "grant"})' = Extra
          /\ Owed(u, {"gpu", "grant"})' = Extra /\ Owed(u, {"gpu", "grant"}) = 0
          /\ Owed(u, {"grant"})' = 0 /\ Owed(u, {"grant"}) = 0
      BY <2>1, <2>2, <2>4 DEF Owed, Extending
    <3>3. Extending(u, {"lanes", "gpu"}) /\ Extending(u, {"lanes", "gpu"})'
          /\ Extending(u, {"lanes", "gpu", "grant"})
      BY <2>1, <2>2, <2>4 DEF Extending
    <3>4. LaneOutlasts(u)'
      <4>1. ASSUME Busy(u) PROVE lane'[u] = ext.rest /\ Most(u) + Extra < ext.rest
        <5>1. lane[u] # 0
          BY <1>1, <3>2, <4>1, Numbers DEF LawFor, LaneOutlasts
        <5>2. QED
          BY <1>0, <2>1, <2>4, <3>3, <4>1, <5>1 DEF LawFor, RestOutlasts
      <4>2. QED
        BY <3>1, <3>2, <4>1 DEF LaneOutlasts
    <3>5. InStep(u)' /\ Sized(u)' /\ OnItsLease(u)'
      BY <2>1, <3>3 DEF LawFor, InStep, Sized, OnItsLease, WallBudget
    <3>6. RowOutlasts(u)' /\ RestOutlasts(u)' /\ CardsOutlast(u)'
      BY <2>1, <2>2, <3>1, <3>2, <3>3 DEF LawFor, RowOutlasts, RestOutlasts, CardsOutlast
    <3>7. QED
      BY <3>4, <3>5, <3>6 DEF LawFor
  <2>5. QED
    BY <2>3, <2>4
<1>6. CASE ExtendCards
  <2>1. /\ ext.step = "gpu" /\ ext # Idle /\ ext' = [ext EXCEPT !.step = "grant"]
        /\ UNCHANGED <<row, co, due, lane, kill, slack, cards, session>>
    BY <1>6 DEF ExtendCards, Idle
  <2>2. \/ Pool!Extend(ext.task, ext.rest) /\ degraded' = degraded
        \/ degraded' = [degraded EXCEPT ![ext.task] = TRUE] /\ UNCHANGED poolVars
    BY <1>6 DEF ExtendCards
  <2>3. /\ ext'.step = "grant" /\ ext'.task = ext.task /\ ext'.rest = ext.rest /\ ext' # Idle
        /\ ext.rest \in Nat /\ ext.task \in Task
    BY <1>2, <2>1 DEF Idle
  <2>4. CASE ext.task # u
    <3>1. Alike(u)
      BY <1>0, <2>1, <2>2, <2>4 DEF Alike
    <3>2. Keeps(u)
      BY <2>2, <2>3, <2>4, OthersKeep, StillKeeps
    <3>3. QED
      BY <2>1, <2>3, <2>4, <3>1, <3>2, Frame
  <2>5. CASE ext.task = u
    <3>1. Most(u)' = Most(u) /\ Busy(u)' = Busy(u)
      BY <2>1 DEF Most, Busy
    <3>2. /\ Owed(u, {"lanes", "gpu", "grant"}) = Extra /\ Owed(u, {"lanes", "gpu", "grant"})' = Extra
          /\ Owed(u, {"gpu", "grant"})' = Extra /\ Owed(u, {"gpu", "grant"}) = Extra
          /\ Owed(u, {"grant"})' = Extra /\ Owed(u, {"grant"}) = 0
      BY <2>1, <2>3, <2>5 DEF Owed, Extending
    <3>3. Extending(u, {"lanes", "gpu"}) /\ ~Extending(u, {"lanes", "gpu"})'
          /\ Extending(u, {"lanes", "gpu", "grant"})
      BY <2>1, <2>3, <2>5 DEF Extending
    <3>4. CardsOutlast(u)'
      <4>1. CASE Pool!Extend(u, ext.rest) /\ degraded' = degraded
        <5> SUFFICES ASSUME Busy(u), ~degraded[u], NEW i \in lease[u]
                     PROVE  owner'[i] = u /\ Most(u) + Extra < left'[i]
          BY <3>1, <3>2, <4>1 DEF CardsOutlast, Pool!Extend
        <5>1. owner[i] = u /\ i \in Pool!Id
          BY DEF LawFor, CardsOutlast, IInv, TypeOK, Pool!TypeOK
        <5>2. owner'[i] = u /\ left'[i] = ext.rest
          BY <4>1, <5>1 DEF Pool!Extend
        <5>3. Most(u) + Extra < ext.rest
          BY <3>3 DEF LawFor, RestOutlasts
        <5>4. QED
          BY <5>2, <5>3
      <4>2. CASE degraded' = [degraded EXCEPT ![ext.task] = TRUE] /\ UNCHANGED poolVars
        BY <1>0, <2>5, <4>2 DEF CardsOutlast
      <4>3. QED
        BY <2>2, <2>5, <4>1, <4>2
    <3>5. lease'[u] = lease[u]
      BY <2>2 DEF Pool!Extend, poolVars
    <3>6. InStep(u)' /\ Sized(u)' /\ OnItsLease(u)'
      BY <2>1, <3>3, <3>5 DEF LawFor, InStep, Sized, OnItsLease, WallBudget
    <3>7. RowOutlasts(u)' /\ LaneOutlasts(u)' /\ RestOutlasts(u)'
      BY <2>1, <3>1, <3>2, <3>3 DEF LawFor, RowOutlasts, LaneOutlasts, RestOutlasts
    <3>8. QED
      BY <3>4, <3>6, <3>7 DEF LawFor
  <2>6. QED
    BY <2>4, <2>5
<1>7. CASE Grant
  <2>1. /\ ext.step = "grant" /\ ext # Idle /\ ext' = Idle
        /\ kill' = [kill EXCEPT ![ext.task] = Granted(ext.task)]
        /\ UNCHANGED <<row, co, due, lane, slack, degraded, cards, session, owner, left, lease>>
        /\ UNCHANGED poolVars
    BY <1>7 DEF Grant, poolVars, Idle
  <2>2. CASE ext.task # u
    <3>1. Alike(u) /\ Keeps(u)
      BY <1>0, <2>1, <2>2, StillKeeps DEF Alike
    <3>2. QED
      BY <2>1, <2>2, <3>1, Frame
  <2>3. CASE ext.task = u
    <3>1. Busy(u)' = Busy(u) /\ Most(u)' \in Nat /\ Most(u)' =< Most(u) + Extra
      BY <1>0, <2>1, <2>3, Numbers DEF Most, Busy, Granted
    <3>2. /\ Owed(u, {"lanes", "gpu", "grant"}) = Extra /\ Owed(u, {"gpu", "grant"}) = Extra
          /\ Owed(u, {"grant"}) = Extra
      BY <2>1, <2>3 DEF Owed, Extending
    <3>3. /\ Owed(u, {"lanes", "gpu", "grant"})' = 0 /\ Owed(u, {"gpu", "grant"})' = 0
          /\ Owed(u, {"grant"})' = 0 /\ \A steps : ~Extending(u, steps)'
      BY <2>1 DEF Owed, Extending
    <3>4. InStep(u)' /\ Sized(u)' /\ OnItsLease(u)' /\ RestOutlasts(u)'
      BY <2>1, <3>3 DEF LawFor, InStep, Sized, OnItsLease, RestOutlasts, WallBudget
    <3>5. RowOutlasts(u)' /\ LaneOutlasts(u)'
      BY <1>1, <2>1, <3>1, <3>2, <3>3, Numbers DEF LawFor, RowOutlasts, LaneOutlasts
    <3>6. CardsOutlast(u)'
      BY <1>1, <2>1, <3>1, <3>2, <3>3, Numbers DEF LawFor, CardsOutlast
    <3>7. QED
      BY <3>4, <3>5, <3>6 DEF LawFor
  <2>4. QED
    BY <2>2, <2>3
<1>8. QED
  BY <1>3, <1>4, <1>5, <1>6, <1>7 DEF Extension

(* Time runs alike for all clocks, and never past the reap loop's poll or   *)
(* the delay a start may take.                                              *)
LEMMA TickStep ==
    ASSUME IInv, NEW u \in Task, LawFor(u), Tick
    PROVE  LawFor(u)'
<1>1. /\ lane'[u] = Less(lane[u]) /\ slack'[u] = Less(slack[u]) /\ session' = Less(session)
      /\ due'[u] = (IF row[u] = "running" THEN Max2(Lowest, due[u] - 1) ELSE due[u])
      /\ kill'[u] = (IF co[u] = "alive" THEN kill[u] - 1 ELSE kill[u])
      /\ co[u] = "alive" => kill[u] > 0
      /\ co[u] \in {"spawned", "prepare", "pending"} => slack[u] > 0
      /\ UNCHANGED <<row, co, cards, degraded, ext>>
  BY DEF Tick
<1>2. /\ UNCHANGED <<owner, lease>>
      /\ \A i \in Pool!Id : left'[i] = IF left[i] = 0 THEN 0 ELSE left[i] - 1
  BY DEF Tick, Pool!Pass
<1>3. \A n \in Nat : Less(n) \in Nat /\ Less(n) =< n /\ (n > 0 => Less(n) = n - 1)
  BY DEF Less, Max2
<1>4. ASSUME Busy(u) PROVE Most(u)' \in Nat /\ Most(u) \in Nat /\ Most(u)' =< Most(u) - 1
  <2>1. slack'[u] \in Nat /\ slack'[u] =< slack[u] /\ (slack[u] > 0 => slack'[u] = slack[u] - 1)
    BY <1>1, <1>3, Numbers
  <2>2. CASE co[u] = "alive"
    BY <1>1, <2>1, <2>2, Numbers DEF Most
  <2>3. CASE co[u] \in {"spawned", "prepare", "pending"}
    BY <1>1, <2>1, <2>3, Numbers DEF Most
  <2>4. QED
    BY <1>4, <2>2, <2>3 DEF Busy
<1>5. \A steps : /\ Extending(u, steps)' = Extending(u, steps)
                 /\ Owed(u, steps)' = Owed(u, steps) /\ Owed(u, steps) \in Nat
  <2>1. \A steps : Extending(u, steps)' = Extending(u, steps)
    BY <1>1 DEF Extending
  <2>2. QED
    BY <2>1, Numbers DEF Owed
<1>6. Busy(u)' = Busy(u)
  BY <1>1 DEF Busy
<1>7. InStep(u)' /\ OnItsLease(u)'
  BY <1>1, <1>2, <1>5 DEF LawFor, InStep, OnItsLease
<1>8. Sized(u)'
  <2>1. session' \in Nat /\ session' =< session
    BY <1>1, <1>3, Numbers
  <2>2. WallBudget(u)' =< WallBudget(u) /\ WallBudget(u)' \in Nat /\ WallBudget(u) \in Nat
    BY <2>1, Numbers DEF WallBudget, Min2
  <2>3. ASSUME row[u] = "queued" PROVE WallBudget(u)' + Grace =< due'[u]
    <3>1. due'[u] = due[u] /\ WallBudget(u) + Grace =< due[u]
      BY <1>1, <2>3 DEF LawFor, Sized
    <3> HIDE DEF WallBudget
    <3>2. QED
      BY <2>2, <3>1, Numbers
  <2>4. QED
    BY <1>1, <2>3 DEF Sized
<1>9. RowOutlasts(u)'
  <2>1. due'[u] \in Int /\ due'[u] >= due[u] - 1
    <3>1. Lowest \in Int
      BY BudgetAssumption DEF Lowest, BudgetAssumption
    <3>2. QED
      BY <1>1, <3>1, Numbers DEF Max2
  <2>2. QED
    BY <1>4, <1>5, <1>6, <2>1, Numbers DEF LawFor, RowOutlasts
<1>10. LaneOutlasts(u)'
  BY <1>1, <1>3, <1>4, <1>5, <1>6, Numbers DEF LawFor, LaneOutlasts
<1>11. RestOutlasts(u)'
  BY <1>1, <1>4, <1>5, <1>6, Numbers DEF LawFor, RestOutlasts
<1>12. CardsOutlast(u)'
  <2> SUFFICES ASSUME Busy(u), ~degraded[u], NEW i \in lease[u]
               PROVE  owner'[i] = u /\ Most(u)' + Owed(u, {"grant"}) < left'[i]
    BY <1>1, <1>2, <1>5, <1>6 DEF CardsOutlast
  <2>1. owner[i] = u /\ Most(u) + Owed(u, {"grant"}) < left[i] /\ i \in Pool!Id
    BY DEF LawFor, CardsOutlast, IInv, TypeOK, Pool!TypeOK
  <2>2. left[i] \in Nat
    BY Numbers
  <2>3. left'[i] = left[i] - 1
    BY <1>2, <1>4, <1>5, <2>1, <2>2
  <2>4. QED
    BY <1>2, <1>4, <1>5, <2>1, <2>2, <2>3
<1>13. QED
  BY <1>7, <1>8, <1>9, <1>10, <1>11, <1>12 DEF LawFor

LEMMA LawStep == IInv /\ LawInv /\ OneDeadline /\ [Next]_vars => LawInv'
<1> SUFFICES ASSUME IInv, LawInv, OneDeadline, [Next]_vars, NEW u \in Task PROVE LawFor(u)'
  BY DEF LawInv
<1> LawFor(u)
  BY DEF LawInv
<1>1. ASSUME NEW t \in Task,
             \/ Delegate(t) \/ CancelQueued(t) \/ Admit(t) \/ Decline(t)
             \/ Step(t) \/ CancelUnstarted(t) \/ Cancel(t) \/ StrayExit(t)
             \/ ExtendRow(t) \/ Reclaim(t)
      PROVE  LawFor(u)'
  <2>1. CASE t # u
    BY <1>1, <2>1, OthersStep
  <2>2. CASE t = u
    BY <1>1, <2>2, AdmitStep, OwnStep, ExtensionStep
  <2>3. QED
    BY <2>1, <2>2
<1>2. CASE Extension
  BY <1>2, ExtensionStep
<1>3. CASE Maintenance
  <2>1. Alike(u) /\ session' = session /\ ext' = ext
    BY <1>3 DEF Maintenance, Alike, runVars, clockVars
  <2>2. Keeps(u)
    BY <1>3, ReapKeeps DEF Maintenance
  <2>3. QED
    BY <2>1, <2>2, Frame
<1>4. CASE RequestStop \/ UNCHANGED vars
  <2>1. Alike(u) /\ session' = session /\ ext' = ext /\ UNCHANGED poolVars
    BY <1>4 DEF RequestStop, Alike, runVars, clockVars, vars
  <2>2. QED
    BY <2>1, StillKeeps, Frame
<1>5. CASE Resume
  <2>1. co'[u] = "none" /\ row' = row /\ due' = due /\ ext' = Idle /\ session' = session
    BY <1>5 DEF Resume, OneDeadline
  <2>2. QED
    BY <2>1, QuietLaw
<1>6. CASE Tick
  BY <1>6, TickStep
<1>7. QED
  BY <1>1, <1>2, <1>3, <1>4, <1>5, <1>6 DEF Next

LEMMA InitLaw == Init => LawInv
BY DEF Init, LawInv, LawFor, InStep, Sized, OnItsLease, RowOutlasts, LaneOutlasts, RestOutlasts,
       CardsOutlast, Busy, Extending, Idle

(* "Iron law: kill <= gpu_lease TTL <= gpu_research_lane TTL", for every    *)
(* process that is watched, at every await of an extension and whatever     *)
(* interrupted one, across crashes and resumes that keep the deadline.      *)
THEOREM IronLawHolds == ASSUME OneDeadline PROVE Spec => []IronLaw
<1>1. IInv /\ LawInv => IronLaw
  <2> SUFFICES ASSUME IInv, LawInv, NEW t \in Task, co[t] = "alive"
               PROVE  /\ kill[t] < lane[t]
                      /\ ~degraded[t] => \A i \in cards[t] : owner[i] = t /\ kill[t] < left[i]
    BY DEF IronLaw, Attended
  <2>1. LawFor(t) /\ Busy(t) /\ cards[t] = lease[t]
    BY DEF LawInv, LawFor, OnItsLease, Busy
  <2>2. kill[t] =< Most(t) /\ kill[t] \in Nat /\ Most(t) \in Nat /\ \A steps : Owed(t, steps) \in Nat
    BY Numbers DEF Most, Owed
  <2>3. kill[t] < lane[t]
    BY <2>1, <2>2, Numbers DEF LawFor, LaneOutlasts
  <2>4. ASSUME ~degraded[t], NEW i \in cards[t] PROVE owner[i] = t /\ kill[t] < left[i]
    <3>1. left[i] \in Nat
      BY <2>1, Numbers
    <3>2. owner[i] = t /\ Most(t) + Owed(t, {"grant"}) < left[i]
      BY <2>1, <2>4 DEF LawFor, CardsOutlast
    <3>3. QED
      BY <2>2, <3>1, <3>2
  <2>5. QED
    BY <2>3, <2>4
<1>2. OneDeadline /\ IInv /\ LawInv /\ [Next]_vars => LawInv'
  BY LawStep
<1>3. QED
  BY <1>1, <1>2, InitLaw, Inductive, PTL DEF Spec
=============================================================================
