--------------------------- MODULE SpecialistRuns ---------------------------
(***************************************************************************)
(* The life of a GPU specialist: its row is sized when an agent delegates  *)
(* it (loop/intent_router.py), the dispatcher admits it with a lane and    *)
(* with cards (loop/dispatcher.py over GpuPool), a subprocess computes     *)
(* under a wall-clock cap (specialists/subprocess_.py), and an agent may   *)
(* extend all of it while it runs.  "Iron law: kill <= gpu_lease TTL <=    *)
(* gpu_research_lane TTL": three clocks, set at different moments.         *)
(*                                                                         *)
(* Every clock is kept as the time it has left.  The lane is the research  *)
(* lane of GPU specialists; its table is the subject of LaneLeases, here a *)
(* lease is the time it has left.                                          *)
(***************************************************************************)
EXTENDS Integers, FiniteSets

CONSTANTS
    Card, Slot, Task, Free,   \* of GpuPool
    PoolOf, Count,   \* PoolOf[t]: its pool, Count[t]: how many cards of it it may ask
                     \* for, a number taken from the serving TP of the moment
    Base,            \* Base[t]: lane-tiered wall budget of the cycle
    Grace,           \* the least the lease ttl adds to a wall budget: a tenth of the
                     \* smallest one that is admitted
    Floor,           \* lease_ttl_sec of the action catalogue
    Cost,            \* the least session time the budget gate admits it with
    LaneCapacity,
    StartDelay,      \* bound on the time from admission to a running process
    Extra, MaxGrants,        \* an extension, and how many a task gets
    Session, FreshSession,   \* session time; what a re-anchored resume may have
    MaxResumes

ASSUME BudgetAssumption ==
    /\ Base \in [Task -> Nat \ {0}] /\ {Grace, Floor, Cost, Extra} \subseteq Nat \ {0}
    /\ PoolOf \in [Task -> SUBSET Card] /\ Count \in [Task -> SUBSET (Nat \ {0})]
    /\ {LaneCapacity, StartDelay, MaxGrants, Session, MaxResumes} \subseteq Nat
    /\ FreshSession \subseteq Nat

VARIABLES
    owner, left, lease, copy,   \* of GpuPool
    row,        \* the task row's state
    due,        \* lease_ttl_sec of the row, less its age once it runs
    lane,       \* time left to the lane lease, 0 for none
    co,         \* where the coroutine of the run stands
    kill,       \* time left to the process under the wall-clock cap
    slack,      \* time left before the process starts
    cards,      \* ids the process computes on, {} without a process
    degraded,   \* the extension was reported as partial
    granted,    \* extensions given to the task
    ext,        \* the extend_lease handler under way
    session,    \* session time left
    ray,        \* this leg runs specialists under Ray
    stopping,   \* shutdown, or the budget is spent: nothing more is admitted
    resumes     \* resumes so far

poolVars == <<owner, left, lease, copy>>
clockVars == <<due, kill, slack, degraded, granted>>
runVars == <<row, lane, co, cards, clockVars>>
legVars == <<ray, stopping, resumes>>
vars == <<poolVars, runVars, ext, session, legVars>>

Pool == INSTANCE GpuPool

ASSUME PoolAssumption == Pool!PoolConstants

Min2(a, b) == IF a < b THEN a ELSE b
Max2(a, b) == IF a < b THEN b ELSE a

Idle == [step |-> "idle"]

(* More than this below zero an age is like any other: extensions do not    *)
(* bring the ttl back above it.                                             *)
Lowest == - Extra * MaxGrants

TypeOK ==
    /\ Pool!TypeOK
    /\ row \in [Task -> {"absent", "queued", "running", "ended"}]
    /\ due \in [Task -> Int] /\ lane \in [Task -> Nat]
    /\ co \in [Task -> {"none", "spawned", "prepare", "pending", "alive", "release"}]
    /\ kill \in [Task -> Nat] /\ slack \in [Task -> 0 .. StartDelay]
    /\ cards \in [Task -> SUBSET (Card \cup Slot)]
    /\ degraded \in [Task -> BOOLEAN] /\ granted \in [Task -> 0 .. MaxGrants]
    /\ ext = Idle \/ ext \in [step : {"lanes", "gpu", "grant"}, task : Task, rest : Nat \ {0}]
    /\ session \in Nat /\ {ray, stopping} \subseteq BOOLEAN
    /\ resumes \in 0 .. MaxResumes

Init ==
    /\ Pool!Init
    /\ row = [t \in Task |-> "absent"] /\ due = [t \in Task |-> 0]
    /\ lane = [t \in Task |-> 0] /\ co = [t \in Task |-> "none"]
    /\ kill = [t \in Task |-> 0] /\ slack = [t \in Task |-> 0]
    /\ cards = [t \in Task |-> {}] /\ degraded = [t \in Task |-> FALSE]
    /\ granted = [t \in Task |-> 0] /\ ext = Idle
    /\ session = Session /\ ray \in BOOLEAN /\ stopping = FALSE /\ resumes = 0

Goto(t, pc) == co' = [co EXCEPT ![t] = pc]

(* The row reads terminal and its lane is released; its clocks no longer    *)
(* mean anything.                                                           *)
EndRow(t) ==
    /\ row' = [row EXCEPT ![t] = "ended"]
    /\ lane' = [lane EXCEPT ![t] = 0]
    /\ due' = [due EXCEPT ![t] = 0] /\ kill' = [kill EXCEPT ![t] = 0]
    /\ slack' = [slack EXCEPT ![t] = 0] /\ granted' = [granted EXCEPT ![t] = 0]
    /\ degraded' = [degraded EXCEPT ![t] = FALSE]

-----------------------------------------------------------------------------
(* _specialist_wall_budget_sec and _gpu_lease_ttl_sec, at this moment.      *)
WallBudget(t) == Min2(Base[t], session)

LeaseTtl_no_grace(t, floor) == Max2(floor, WallBudget(t))
LeaseTtl(t, floor) == Max2(floor, WallBudget(t) + Grace)

Delegate(t) ==
    /\ row[t] = "absent"
    /\ row' = [row EXCEPT ![t] = "queued"]
    /\ due' = [due EXCEPT ![t] = LeaseTtl(t, Floor)]
    /\ UNCHANGED <<poolVars, lane, co, kill, slack, cards, degraded, granted, ext, session, legVars>>

(* A phase exit drops it, or the session has too little time left for it.   *)
CancelQueued(t) ==
    /\ row[t] = "queued" /\ co[t] = "none"
    /\ EndRow(t)
    /\ UNCHANGED <<poolVars, co, cards, ext, session, legVars>>

Admissible(t) ==
    /\ row[t] = "queued" /\ co[t] = "none" /\ ~stopping /\ session >= Cost
    /\ Cardinality({u \in Task : lane[u] > 0}) < LaneCapacity

(* The scan of the pump: lane first, then cards, and the coroutine that     *)
(* carries the wall budget of this moment.                                  *)
Admit(t) ==
    /\ Admissible(t)
    /\ LET ttl == LeaseTtl(t, due[t])
       IN IF ray THEN Pool!AllocateSlot(t, ttl)
          ELSE \E n \in Count[t] : Pool!Acquire(t, PoolOf[t], n, ttl)
    /\ lane' = [lane EXCEPT ![t] = due[t]]
    /\ kill' = [kill EXCEPT ![t] = WallBudget(t)]
    /\ slack' = [slack EXCEPT ![t] = StartDelay]
    /\ Goto(t, "spawned")
    /\ UNCHANGED <<row, due, cards, degraded, granted, ext, session, legVars>>

(* No cards: the lane taken for it goes back. *)
Decline(t) ==
    /\ Admissible(t)
    /\ IF ray THEN Pool!RefuseSlot(t) ELSE \E n \in Count[t] : Pool!Refuse(t, PoolOf[t], n)
    /\ UNCHANGED <<runVars, ext, session, legVars>>

-----------------------------------------------------------------------------
(* The coroutine. *)

Claim(t) ==
    /\ co[t] = "spawned"
    /\ row' = [row EXCEPT ![t] = "running"]
    /\ Goto(t, "prepare")
    /\ UNCHANGED <<poolVars, lane, cards, clockVars, ext, session, legVars>>

(* Worktree and prompts are made; extensions granted so far are dropped     *)
(* (clear_wall_budget_extension) and the process is submitted.              *)
Launch(t) ==
    /\ co[t] = "prepare"
    /\ Goto(t, "pending")
    /\ UNCHANGED <<poolVars, row, lane, cards, clockVars, ext, session, legVars>>

(* The process exists, the wall-clock cap starts to count.  Under Ray it    *)
(* has waited for its actor; locally it starts at once.                     *)
Start(t) ==
    /\ co[t] = "pending"
    /\ cards' = [cards EXCEPT ![t] = lease[t]]
    /\ slack' = [slack EXCEPT ![t] = 0]
    /\ Goto(t, "alive")
    /\ UNCHANGED <<poolVars, row, lane, due, kill, degraded, granted, ext, session, legVars>>

(* The process ended, or the reap loop killed it at its cap, or it never    *)
(* came to start.                                                           *)
End(t) ==
    /\ co[t] \in {"prepare", "pending", "alive"}
    /\ EndRow(t)
    /\ cards' = [cards EXCEPT ![t] = {}]
    /\ Goto(t, "release")
    /\ UNCHANGED <<poolVars, ext, session, legVars>>

Release(t) ==
    /\ co[t] = "release"
    /\ Pool!Release(t)
    /\ Goto(t, "none")
    /\ UNCHANGED <<row, lane, cards, clockVars, ext, session, legVars>>

PumpReap(t) ==
    /\ co[t] = "none"
    /\ Pool!ReleaseCopy(t)
    /\ UNCHANGED <<runVars, ext, session, legVars>>

(* A shutdown or a spent budget cancels the coroutine.  Before its first    *)
(* step no finally runs and the lane lease stays in the table; later the    *)
(* row is ended and everything released, but nothing stops a local process: *)
(* the reap loop only leaves.                                               *)
CancelUnstarted(t) ==
    /\ stopping /\ co[t] = "spawned"
    /\ Pool!Drop(t)
    /\ kill' = [kill EXCEPT ![t] = 0] /\ slack' = [slack EXCEPT ![t] = 0]
    /\ Goto(t, "none")
    /\ UNCHANGED <<row, lane, cards, due, degraded, granted, ext, session, legVars>>

Cancel(t) ==
    /\ stopping /\ co[t] \in {"prepare", "pending", "alive"}
    /\ EndRow(t)
    /\ cards' = IF ray THEN [cards EXCEPT ![t] = {}] ELSE cards
    /\ Goto(t, "release")
    /\ UNCHANGED <<poolVars, ext, session, legVars>>

(* A process nobody watches any more ends by itself. *)
StrayExit(t) ==
    /\ cards[t] # {} /\ co[t] # "alive"
    /\ cards' = [cards EXCEPT ![t] = {}]
    /\ UNCHANGED <<poolVars, row, lane, co, clockVars, ext, session, legVars>>

-----------------------------------------------------------------------------
(* extend_lease: row, lanes, cards and wall-clock cap, one await each.      *)

Remaining_unclamped(ttl) == ttl
Remaining(ttl) == Max2(Max2(1, Extra), ttl)

ExtendRow(t) ==
    /\ ext = Idle /\ row[t] = "running" /\ granted[t] < MaxGrants
    /\ granted' = [granted EXCEPT ![t] = @ + 1]
    /\ due' = [due EXCEPT ![t] = @ + Extra]
    /\ ext' = [step |-> "lanes", task |-> t, rest |-> Remaining(due[t] + Extra)]
    /\ UNCHANGED <<poolVars, row, lane, co, kill, slack, cards, degraded, session, legVars>>

ExtendLanes ==
    /\ ext.step = "lanes"
    /\ lane' = [lane EXCEPT ![ext.task] = IF @ = 0 THEN 0 ELSE ext.rest]
    /\ ext' = [ext EXCEPT !.step = "gpu"]
    /\ UNCHANGED <<poolVars, row, co, cards, clockVars, session, legVars>>

(* A failure is caught and reported with the extension. *)
ExtendCards ==
    /\ ext.step = "gpu"
    /\ \/ Pool!Extend(ext.task, ext.rest) /\ UNCHANGED degraded
       \/ degraded' = [degraded EXCEPT ![ext.task] = TRUE] /\ UNCHANGED poolVars
    /\ ext' = [ext EXCEPT !.step = "grant"]
    /\ UNCHANGED <<row, lane, co, cards, due, kill, slack, granted, session, legVars>>

(* grant_wall_budget_extension, kept for a process that is being started or *)
(* runs.                                                                    *)
Granted(t) == IF co[t] \in {"pending", "alive"} THEN kill[t] + Extra ELSE kill[t]
Grant ==
    /\ ext.step = "grant"
    /\ kill' = [kill EXCEPT ![ext.task] = Granted(ext.task)]
    /\ ext' = Idle
    /\ UNCHANGED <<poolVars, row, lane, co, cards, due, slack, degraded, granted, session, legVars>>

(* The session bound cancels the tick at any await of the handler. *)
ExtendInterrupted ==
    /\ ext # Idle
    /\ ext' = Idle
    /\ UNCHANGED <<poolVars, runVars, session, legVars>>

Extension == ExtendLanes \/ ExtendCards \/ Grant \/ ExtendInterrupted

-----------------------------------------------------------------------------
(* run_lease_and_db_reclaim *)
Maintenance ==
    /\ Pool!ReapExpired
    /\ UNCHANGED <<runVars, ext, session, legVars>>

(* A running row without a coroutine: its lease names a dead process, or    *)
(* its ttl has passed.                                                      *)
Reclaim(t) ==
    /\ row[t] = "running" /\ co[t] = "none"
    /\ lane[t] > 0 \/ due[t] =< 0
    /\ EndRow(t)
    /\ UNCHANGED <<poolVars, co, cards, ext, session, legVars>>

RequestStop ==
    /\ ~stopping /\ stopping' = TRUE
    /\ UNCHANGED <<poolVars, runVars, ext, session, ray, resumes>>

(* The coordinator dies and is resumed: local processes live on, the lanes  *)
(* of its pid are free for the taking, the session keeps its deadline or,   *)
(* after a recorded stop, starts a new clock.                               *)
Resume ==
    /\ resumes < MaxResumes /\ resumes' = resumes + 1
    /\ Pool!Crash
    /\ co' = [t \in Task |-> "none"]
    /\ lane' = [t \in Task |-> IF row[t] = "running" THEN lane[t] ELSE 0]
    /\ cards' = IF ray THEN [t \in Task |-> {}] ELSE cards
    /\ kill' = [t \in Task |-> 0] /\ slack' = [t \in Task |-> 0]
    /\ ext' = Idle
    /\ session' \in {session} \cup FreshSession
    /\ ray' \in BOOLEAN /\ stopping' = FALSE
    /\ UNCHANGED <<row, due, degraded, granted>>

(* Time passes, but the reap loop polls every few seconds, well within the  *)
(* grace, and an admitted task starts within the delay.                     *)
Less(n) == Max2(0, n - 1)
Tick ==
    /\ \A t \in Task :
          /\ co[t] = "alive" => kill[t] > 0
          /\ co[t] \in {"spawned", "prepare", "pending"} => slack[t] > 0
    /\ Pool!Pass
    /\ due' = [t \in Task |-> IF row[t] = "running" THEN Max2(Lowest, due[t] - 1) ELSE due[t]]
    /\ lane' = [t \in Task |-> Less(lane[t])]
    /\ kill' = [t \in Task |-> IF co[t] = "alive" THEN kill[t] - 1 ELSE kill[t]]
    /\ slack' = [t \in Task |-> Less(slack[t])]
    /\ session' = Less(session)
    /\ UNCHANGED <<row, co, cards, degraded, granted, ext, legVars>>

Step(t) == Claim(t) \/ Launch(t) \/ Start(t) \/ End(t) \/ Release(t) \/ PumpReap(t)

Next ==
    \/ \E t \in Task :
          \/ Delegate(t) \/ CancelQueued(t) \/ Admit(t) \/ Decline(t)
          \/ Step(t) \/ CancelUnstarted(t) \/ Cancel(t) \/ StrayExit(t)
          \/ ExtendRow(t) \/ Reclaim(t)
    \/ Extension \/ Maintenance \/ RequestStop \/ Resume \/ Tick

Spec == Init /\ [][Next]_vars

(* Coroutines are scheduled, time passes, maintenance and the reclaims of   *)
(* the pump come round.                                                     *)
FairSpec ==
    /\ Spec
    /\ WF_vars(Tick) /\ WF_vars(Maintenance)
    /\ \A t \in Task : WF_vars(Step(t)) /\ WF_vars(Reclaim(t))

-----------------------------------------------------------------------------
(* The ledger used this way is the ledger of GpuPool, with what that module *)
(* promises of it: try_acquire, release, extend and the reap are only ever  *)
(* called by a task's own run, its reap and its extension.                  *)
ImplementsPool == Pool!Spec

(* A task never pins more cards than its lease, across crashes (GpuPool).   *)
NoHoard == Pool!NoHoard

(* A card stays with the run it was leased to until the lease runs out      *)
(* (GpuPool).                                                               *)
KeepsItsCards == Pool!KeepsItsCards

Attended(t) == co[t] = "alive"

(* The iron law, as the docstring of extend_lease promises to preserve it:  *)
(* a watched process is killed before its cards or its lane can be taken,   *)
(* at every await of an extension and after one that was interrupted; only  *)
(* a card refresh that failed, and was reported, breaks it.                 *)
IronLaw ==
    \A t \in Task : Attended(t) =>
        /\ kill[t] < lane[t]
        /\ ~degraded[t] => \A i \in cards[t] : owner[i] = t /\ kill[t] < left[i]

(* Cards of a task that crashed or lost its coroutine come back to the      *)
(* pools.                                                                   *)
Pinned(i) == owner[i] # Free /\ co[owner[i]] = "none"
CardsComeBack == \A i \in Card \cup Slot : Pinned(i) ~> ~Pinned(i)
=============================================================================
