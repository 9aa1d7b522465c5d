-------------------------- MODULE TaskRuns_proofs --------------------------
(***************************************************************************)
(* For every set of tasks, lanes and kinds: one executor per row, outcomes *)
(* that stand, rows that read running while the pump waits for them, and   *)
(* executors a shutdown can reach, which hold whatever the lane table does *)
(* in a step; then, with the table's own theorems, the leases that keep    *)
(* conflicting executors apart.                                            *)
(***************************************************************************)
EXTENDS TaskRuns, FiniteSetTheorems, TLAPS

Status == {"absent", "queued", "running"} \cup Terminal

(* The part of TypeOK that the lane table is not in. *)
Typed ==
    /\ state \in [Task -> Status]
    /\ run \in [Task -> [Runner -> RunState]]
    /\ registry \in [Task -> Runner \cup {"none"}]

(* A runner owns its row from its claim on: the row has left the queue for  *)
(* good, whatever a watchdog made of it since, and no second runner can     *)
(* claim it.                                                                *)
Claimed ==
    /\ \A t \in Task, w \in Runner : Owns(t, w) => state[t] \notin {"absent", "queued"}
    /\ \A t \in Task, v, w \in Runner : Owns(t, v) /\ Owns(t, w) => v = w

(* A row no agent runs inline has only the pump's runner, and the handle of *)
(* that one is registered for as long as it runs.                           *)
PumpOnly ==
    \A t \in Task \ Inline :
        /\ run[t]["inline"] = "none"
        /\ run[t]["pump"] # "none" => registry[t] = "pump"

(* What a pump has dispatched is not in the snapshot it still scans, and    *)
(* the watchdogs only run while nothing is joined.                          *)
Scanning ==
    /\ seen \subseteq Task /\ dispatched \subseteq Task /\ cur \subseteq Task
    /\ seen \cap dispatched = {} /\ joined \subseteq dispatched /\ fresh \subseteq dispatched
    /\ main \in {"out", "reap", "watchdog"} => joined = {}
    /\ main \notin {"spawn", "admit"} => fresh = {}
    /\ \A t, u \in cur : t = u
    /\ cur # {} => main = "admit"

(* The inductive invariant. *)
IInv == Typed /\ Claimed /\ PumpOnly /\ Scanning /\ JoinedRowsRun

-----------------------------------------------------------------------------
(* What the pieces of a step do. *)

LEMMA Moves ==
    ASSUME Typed, NEW t \in Task, NEW w \in Runner, NEW pc \in RunState, Goto(t, w, pc)
    PROVE  /\ run' \in [Task -> [Runner -> RunState]]
           /\ \A u \in Task, v \in Runner :
                 run'[u][v] = IF u = t /\ v = w THEN pc ELSE run[u][v]
BY DEF Typed, Goto

(* A transition leaves a terminal row, and one it has no edge for, alone;   *)
(* no row goes back to the queue.                                           *)
LEMMA Transitions ==
    ASSUME Typed, NEW t \in Task, NEW s \in Status
    PROVE  /\ Moved(t, s) \in [Task -> Status]
           /\ \A u \in Task : u # t => Moved(t, s)[u] = state[u]
           /\ Moved(t, s)[t] = state[t] \/ (Moved(t, s)[t] = s /\ s \in Allowed(state[t]))
           /\ s \in Allowed(state[t]) =>
                 /\ s # "queued" /\ state[t] \notin Terminal
                 /\ Moved(t, s)[t] = s
                 /\ state[t] = "queued" => s \in {"running", "cancelled"}
                 /\ state[t] \in {"queued", "running"}
           /\ state[t] = "queued" => "running" \in Allowed(state[t])
<1>1. \A r \in Status : /\ Allowed(r) \subseteq {"running"} \cup Terminal
                        /\ Allowed(r) # {} => r \in {"queued", "running"}
                        /\ r = "queued" => Allowed(r) = {"running", "cancelled"}
                        /\ r \in Terminal => Allowed(r) = {}
  BY DEF Status, Allowed, Terminal
<1>2. state[t] \in Status /\ s \in Status
  BY DEF Typed
<1>3. /\ Moved(t, s) \in [Task -> Status]
      /\ \A u \in Task : u # t => Moved(t, s)[u] = state[u]
      /\ Moved(t, s)[t] = IF s \in Allowed(state[t]) THEN s ELSE state[t]
  BY <1>2 DEF Typed, Moved
<1> QED
  BY <1>1, <1>2, <1>3 DEF Terminal

LEMMA TerminalStays ==
    ASSUME Typed, NEW t \in Task, NEW s \in Status, NEW u \in Task, state[u] \in Terminal
    PROVE  Moved(t, s)[u] = state[u]
<1>1. \A r \in Terminal : Allowed(r) = {}
  BY DEF Allowed, Terminal
<1>2. Moved(t, s)[u] = IF u = t /\ s \in Allowed(state[u]) THEN s ELSE state[u]
  BY DEF Typed, Moved
<1> QED
  BY <1>1, <1>2

LEMMA Failures ==
    ASSUME Typed, NEW T \in SUBSET {t \in Task : state[t] = "running"}, FailAll(T)
    PROVE  /\ state' \in [Task -> Status]
           /\ \A t \in Task : state'[t] = IF t \in T THEN "failed" ELSE state[t]
           /\ \A t \in T : state[t] = "running"
BY DEF Typed, FailAll, Status, Terminal

-----------------------------------------------------------------------------
LEMMA Initial == Init => IInv
BY DEF Init, Idle, IInv, Typed, Claimed, PumpOnly, Scanning, JoinedRowsRun, Owns, Status,
       Runner, RunState

(* The steps of a runner, and those of its cancellation. *)
RunnerStep(t, w) ==
    \/ Start(t, w) \/ Claim(t, w) \/ Execute(t, w) \/ Finish(t, w) \/ WriteTerminal(t, w)
    \/ Release(t, w) \/ Cancel(t, w)

(* What each of them does to its row, its runner and its handle: the row    *)
(* moves along the registry's edges, a runner comes to own a row only by    *)
(* taking it out of the queue, and a handle is given up with the runner.    *)
LEMMA RunnerSteps ==
    ASSUME IInv, NEW t \in Task, NEW w \in Runner, RunnerStep(t, w)
    PROVE  /\ \E pc \in RunState :
                 /\ Goto(t, w, pc)
                 /\ run[t][w] # "none"
                 /\ pc \in {"claimed", "body"} =>
                       \/ state[t] = "queued" /\ state' = Moved(t, "running")
                       \/ Owns(t, w) /\ state' = state
                 /\ pc # "none" /\ w = "pump" => registry'[t] = registry[t]
           /\ \E s \in Status : state' = state \/ state' = Moved(t, s)
           /\ registry' \in [Task -> Runner \cup {"none"}]
           /\ \A u \in Task : u # t => registry'[u] = registry[u]
           /\ UNCHANGED pumpVars
<1> USE DEF RunState, Runner, Owns, Status, Terminal
<1>0. Typed
  BY DEF IInv
<1>1. CASE Start(t, w)
  BY <1>0, <1>1 DEF Start, Typed
<1>2. CASE Claim(t, w)
  BY <1>0, <1>2 DEF Claim, Typed
<1>3. CASE Execute(t, w)
  BY <1>0, <1>3 DEF Execute, Typed
<1>4. CASE Finish(t, w)
  BY <1>0, <1>4 DEF Finish, Typed
<1>5. CASE WriteTerminal(t, w)
  BY <1>0, <1>5 DEF WriteTerminal, Typed
<1>6. CASE Release(t, w)
  BY <1>0, <1>6 DEF Release, Typed
<1>7. CASE Cancel(t, w)
  <2>1. CASE CancelUnstarted(t, w)
    BY <1>0, <1>7, <2>1 DEF CancelUnstarted, Cancel, Typed
  <2>2. CASE CancelClaim(t, w)
    BY <1>0, <1>7, <2>2 DEF CancelClaim, Cancel, Typed
  <2>3. CASE CancelBody(t, w)
    BY <1>0, <1>7, <2>3 DEF CancelBody, Cancel, Typed
  <2>4. CASE CancelWrite(t, w)
    BY <1>0, <1>7, <2>4 DEF CancelWrite, Cancel, Typed
  <2>5. CASE CancelRelease(t, w)
    BY <1>0, <1>7, <2>5 DEF CancelRelease, Cancel, Typed
  <2> QED
    BY <1>7, <2>1, <2>2, <2>3, <2>4, <2>5 DEF Cancel
<1> QED
  BY <1>1, <1>2, <1>3, <1>4, <1>5, <1>6, <1>7 DEF RunnerStep

LEMMA RunnerKeeps == ASSUME IInv, NEW t \in Task, NEW w \in Runner, RunnerStep(t, w) PROVE IInv'
<1>0. Typed /\ Claimed /\ PumpOnly /\ Scanning /\ JoinedRowsRun /\ Runner = {"pump", "inline"}
  BY DEF IInv, Runner
<1>1. PICK pc \in RunState :
         /\ Goto(t, w, pc)
         /\ run[t][w] # "none"
         /\ pc \in {"claimed", "body"} =>
               \/ state[t] = "queued" /\ state' = Moved(t, "running")
               \/ Owns(t, w) /\ state' = state
         /\ pc # "none" /\ w = "pump" => registry'[t] = registry[t]
  BY RunnerSteps
<1>2. PICK s \in Status : state' = state \/ state' = Moved(t, s)
  BY RunnerSteps
<1>3. /\ registry' \in [Task -> Runner \cup {"none"}]
      /\ \A u \in Task : u # t => registry'[u] = registry[u]
      /\ seen' = seen /\ dispatched' = dispatched /\ joined' = joined /\ fresh' = fresh
      /\ cur' = cur /\ main' = main
  BY RunnerSteps DEF pumpVars
<1>4. /\ run' \in [Task -> [Runner -> RunState]]
      /\ \A u \in Task, v \in Runner :
            run'[u][v] = IF u = t /\ v = w THEN pc ELSE run[u][v]
  BY <1>0, <1>1, Moves
<1>5. /\ Moved(t, s) \in [Task -> Status]
      /\ \A u \in Task : u # t => Moved(t, s)[u] = state[u]
      /\ state[t] \notin {"absent", "queued"} => Moved(t, s)[t] \notin {"absent", "queued"}
      /\ state[t] = "queued" => Moved(t, "running")[t] = "running"
  <2>1. "running" \in Status
    BY DEF Status
  <2>2. \A r \in Status : r \in Allowed(state[t]) => r \notin {"absent", "queued"}
    BY DEF Allowed, Status, Terminal
  <2> QED
    BY <1>0, <2>1, <2>2, Transitions
<1>6. Typed'
  BY <1>0, <1>2, <1>3, <1>4, <1>5 DEF Typed
<1>7. /\ \A u \in Task : u # t => state'[u] = state[u]
      /\ \A u \in Task :
            state[u] \notin {"absent", "queued"} => state'[u] \notin {"absent", "queued"}
  BY <1>0, <1>2, <1>5
<1>8. pc \in {"claimed", "body"} =>
         /\ state[t] = "queued" \/ Owns(t, w)
         /\ state'[t] = "running" \/ state'[t] = state[t]
         /\ state[t] = "queued" => Owns(t, w) \/ state'[t] = "running"
  BY <1>1, <1>5
<1>9. Claimed'
  <2>1. \A u \in Task, v \in Runner : u # t \/ v # w => (Owns(u, v)' <=> Owns(u, v))
    BY <1>4 DEF Owns
  <2>2. Owns(t, w)' <=> pc \in {"claimed", "body"}
    BY <1>4 DEF Owns
  <2>3. Owns(t, w)' => state'[t] \notin {"absent", "queued"}
    BY <1>0, <1>8, <2>2 DEF Claimed
  <2>4. \A v \in Runner : v # w /\ Owns(t, v) => ~Owns(t, w)'
    BY <1>0, <1>8, <2>2 DEF Claimed
  <2>5. \A u \in Task, v \in Runner : Owns(u, v)' => state'[u] \notin {"absent", "queued"}
    <3> SUFFICES ASSUME NEW u \in Task, NEW v \in Runner, Owns(u, v)'
                 PROVE  state'[u] \notin {"absent", "queued"}
      OBVIOUS
    <3>1. CASE u = t /\ v = w
      BY <2>3, <3>1
    <3>2. CASE u # t \/ v # w
      <4>1. Owns(u, v)
        <5>1. run'[u][v] = run[u][v]
          BY <1>4, <3>2
        <5> QED
          BY <5>1 DEF Owns
      <4> QED
        BY <1>0, <1>7, <4>1 DEF Claimed
    <3> QED
      BY <3>1, <3>2
  <2>6. \A u \in Task, v, x \in Runner : Owns(u, v)' /\ Owns(u, x)' => v = x
    BY <1>0, <2>1, <2>4 DEF Claimed
  <2> QED
    BY <2>5, <2>6 DEF Claimed
<1>10. PumpOnly'
  BY <1>0, <1>1, <1>3, <1>4 DEF PumpOnly
<1>11. Scanning'
  BY <1>0, <1>3 DEF Scanning
<1>12. JoinedRowsRun'
  <2> SUFFICES ASSUME NEW u \in (joined \cup fresh) \ Inline, Owns(u, "pump")'
               PROVE  state'[u] = "running"
    BY <1>3 DEF JoinedRowsRun
  <2>1. u \in Task
    BY <1>0 DEF Scanning
  <2>2. CASE u = t
    <3>1. w = "pump" /\ pc \in {"claimed", "body"}
      BY <1>0, <1>1, <1>4, <2>2 DEF PumpOnly, Owns
    <3>2. Owns(t, w) => state[t] = "running"
      BY <1>0, <2>2, <3>1 DEF JoinedRowsRun
    <3> QED
      BY <1>1, <1>5, <2>2, <3>1, <3>2
  <2>3. CASE u # t
    <3>0. run'[u]["pump"] = run[u]["pump"]
      BY <1>4, <2>1, <2>3 DEF Runner
    <3>1. Owns(u, "pump")
      BY <3>0 DEF Owns
    <3>2. state[u] = "running"
      BY <1>0, <3>1 DEF JoinedRowsRun
    <3>3. state'[u] = state[u]
      BY <1>7, <2>1, <2>3
    <3> QED
      BY <3>2, <3>3
  <2> QED
    BY <2>2, <2>3
<1> QED
  BY <1>6, <1>9, <1>10, <1>11, <1>12 DEF IInv

(* The watchdogs, and the pass of a resume, only fail rows that read        *)
(* running.                                                                 *)
LEMMA FailuresKeep ==
    ASSUME IInv, NEW T \in SUBSET {t \in Task : state[t] = "running"}, FailAll(T),
           run' = run \/ run' = Idle, registry' = registry \/ run' = Idle,
           registry' \in [Task -> Runner \cup {"none"}],
           Scanning', joined' = {} /\ fresh' = {}
    PROVE  IInv'
<1>0. Typed /\ Claimed /\ PumpOnly /\ Scanning /\ JoinedRowsRun
  BY DEF IInv
<1>1. /\ state' \in [Task -> Status]
      /\ \A t \in Task : state'[t] = IF t \in T THEN "failed" ELSE state[t]
      /\ \A t \in T : state[t] = "running"
  BY <1>0, Failures
<1>2. Idle \in [Task -> [Runner -> RunState]] /\ \A t \in Task, w \in Runner : Idle[t][w] = "none"
  BY DEF Idle, RunState
<1>3. Typed'
  BY <1>0, <1>1, <1>2 DEF Typed
<1>4. \A t \in Task, w \in Runner : Owns(t, w)' => Owns(t, w)
  BY <1>2 DEF Owns
<1>5. Claimed'
  <2>1. \A t \in Task, w \in Runner : Owns(t, w)' => state'[t] \notin {"absent", "queued"}
    BY <1>0, <1>1, <1>4 DEF Claimed
  <2>2. \A t \in Task, v, w \in Runner : Owns(t, v)' /\ Owns(t, w)' => v = w
    BY <1>0, <1>4 DEF Claimed
  <2> QED
    BY <2>1, <2>2 DEF Claimed
<1>6. PumpOnly'
  BY <1>0, <1>2 DEF PumpOnly, Runner
<1> QED
  BY <1>3, <1>5, <1>6 DEF IInv, JoinedRowsRun

(* A step that leaves the runners alone and fails no row.                   *)
LEMMA RowsKeep ==
    ASSUME IInv, run' = run, registry' = registry, Scanning',
           state' \in [Task -> Status],
           \A t \in Task : state[t] # state'[t] =>
                /\ state[t] \notin {"absent", "queued"} => state'[t] \notin {"absent", "queued"}
                /\ t \notin joined' \cup fresh' \/ state[t] # "running",
           joined' \cup fresh' \subseteq joined \cup fresh
    PROVE  IInv'
<1>0. Typed /\ Claimed /\ PumpOnly /\ Scanning /\ JoinedRowsRun
  BY DEF IInv
<1>1. Typed' /\ PumpOnly'
  BY <1>0 DEF Typed, PumpOnly
<1>2. Claimed'
  BY <1>0 DEF Claimed, Owns
<1>3. JoinedRowsRun'
  BY <1>0 DEF JoinedRowsRun, Scanning, Owns
<1> QED
  BY <1>1, <1>2, <1>3 DEF IInv

-----------------------------------------------------------------------------
(* The registry's own steps, the pump's scan and the clock. *)
LEMMA QuietStepsKeep ==
    ASSUME IInv,
           \/ \E t \in Task : Create(t) \/ CancelQueued(t) \/ PumpSkip(t)
           \/ \E t \in Task : PumpAcquire(t) \/ PumpDecline(t)
           \/ PumpReap \/ PumpScan \/ PumpScanned \/ PumpWait \/ PumpRaise \/ PumpDrained
           \/ MaintenanceReap \/ RequestStop \/ SpendBudget \/ Tick \/ UNCHANGED vars
    PROVE  IInv'
<1>0. Typed /\ Claimed /\ PumpOnly /\ Scanning /\ JoinedRowsRun
  BY DEF IInv
<1>1. ASSUME NEW t \in Task, Create(t)
      PROVE  IInv'
  <2>1. state[t] = "absent" /\ state' \in [Task -> Status]
    BY <1>0, <1>1 DEF Create, Typed, Status
  <2>2. \A u \in Task : u # t => state'[u] = state[u]
    BY <1>0, <1>1 DEF Create, Typed
  <2>3. run' = run /\ registry' = registry /\ UNCHANGED pumpVars
    BY <1>1 DEF Create
  <2>4. Scanning' /\ joined' \cup fresh' \subseteq joined \cup fresh
    BY <1>0, <2>3 DEF Scanning, pumpVars
  <2> QED
    BY <2>1, <2>2, <2>3, <2>4, RowsKeep
<1>2. ASSUME NEW t \in Task, CancelQueued(t)
      PROVE  IInv'
  <2>1. state[t] = "queued" /\ state' = Moved(t, "cancelled")
    BY <1>2 DEF CancelQueued
  <2>2. state' \in [Task -> Status] /\ \A u \in Task : u # t => state'[u] = state[u]
    BY <1>0, <2>1, Transitions DEF Status, Terminal
  <2>3. run' = run /\ registry' = registry /\ UNCHANGED pumpVars
    BY <1>2 DEF CancelQueued
  <2>4. Scanning' /\ joined' \cup fresh' \subseteq joined \cup fresh
    BY <1>0, <2>3 DEF Scanning, pumpVars
  <2> QED
    BY <2>1, <2>2, <2>3, <2>4, RowsKeep
<1>3. ASSUME NEW t \in Task, PumpSkip(t)
      PROVE  IInv'
  <2>1. state' = state \/ state' = Moved(t, "cancelled")
    BY <1>3 DEF PumpSkip
  <2>2. /\ t \in seen /\ seen' = seen \ {t}
        /\ run' = run /\ registry' = registry /\ main' = main /\ cur' = cur
        /\ dispatched' = dispatched /\ fresh' = fresh /\ joined' = joined
    BY <1>3 DEF PumpSkip
  <2>3. Scanning' /\ t \notin joined' \cup fresh'
    BY <1>0, <2>2 DEF Scanning
  <2>4. /\ state' \in [Task -> Status]
        /\ \A u \in Task : u # t => state'[u] = state[u]
        /\ state'[t] \in {state[t], "cancelled"}
    BY <1>0, <2>1, Transitions DEF Typed, Status, Terminal
  <2> QED
    BY <2>2, <2>3, <2>4, RowsKeep
<1>4. ASSUME state' = state, run' = run, registry' = registry, Scanning',
             joined' \cup fresh' \subseteq joined \cup fresh
      PROVE  IInv'
  BY <1>0, <1>4, RowsKeep DEF Typed
<1>5. ASSUME NEW t \in Task, PumpAcquire(t) \/ PumpDecline(t)
      PROVE  IInv'
  BY <1>0, <1>4, <1>5 DEF PumpAcquire, PumpDecline, Scanning
<1>6. CASE PumpReap \/ PumpScan
  BY <1>0, <1>4, <1>6 DEF PumpReap, PumpScan, Scanning
<1>7. CASE PumpScanned \/ PumpWait
  BY <1>0, <1>4, <1>7 DEF PumpScanned, PumpWait, Scanning
<1>8. CASE PumpRaise \/ PumpDrained
  BY <1>0, <1>4, <1>8 DEF PumpRaise, PumpDrained, Scanning
<1>9. CASE MaintenanceReap \/ RequestStop \/ SpendBudget \/ Tick \/ UNCHANGED vars
  BY <1>0, <1>4, <1>9
     DEF MaintenanceReap, RequestStop, SpendBudget, Tick, vars, pumpVars, Scanning
<1> QED
  BY <1>1, <1>2, <1>3, <1>5, <1>6, <1>7, <1>8, <1>9

(* The watchdogs run where nothing is joined; a resume starts from nothing. *)
LEMMA WatchdogsKeep ==
    ASSUME IInv, PumpStart \/ PumpWatchdog \/ MaintenanceWatchdog \/ Reboot
    PROVE  IInv'
<1>0. Typed /\ Scanning
  BY DEF IInv
<1>1. CASE PumpStart
  <2> DEFINE T == {t \in Task : DeadHolder(t)}
  <2>1. T \in SUBSET {t \in Task : state[t] = "running"} /\ FailAll(T)
    BY <1>1 DEF PumpStart, DeadHolder
  <2>2. run' = run /\ registry' = registry /\ registry' \in [Task -> Runner \cup {"none"}]
    BY <1>0, <1>1 DEF PumpStart, Typed
  <2>3. Scanning' /\ joined' = {} /\ fresh' = {}
    BY <1>0, <1>1 DEF PumpStart, Scanning
  <2> QED
    BY <2>1, <2>2, <2>3, FailuresKeep
<1>2. CASE PumpWatchdog \/ MaintenanceWatchdog
  <2> DEFINE T == {t \in Task : Overdue(t)}
  <2>1. T \in SUBSET {t \in Task : state[t] = "running"} /\ FailAll(T)
    BY <1>2 DEF PumpWatchdog, MaintenanceWatchdog, Overdue
  <2>2. run' = run /\ registry' = registry /\ registry' \in [Task -> Runner \cup {"none"}]
    BY <1>0, <1>2 DEF PumpWatchdog, MaintenanceWatchdog, Typed
  <2>3. Scanning' /\ joined' = {} /\ fresh' = {}
    BY <1>0, <1>2 DEF PumpWatchdog, MaintenanceWatchdog, Scanning, pumpVars
  <2> QED
    BY <2>1, <2>2, <2>3, FailuresKeep
<1>3. CASE Reboot
  <2>1. PICK T \in SUBSET {t \in Task : state[t] = "running"} : FailAll(T)
    BY <1>3 DEF Reboot
  <2>2. run' = Idle /\ registry' \in [Task -> Runner \cup {"none"}]
    BY <1>3 DEF Reboot
  <2>3. Scanning' /\ joined' = {} /\ fresh' = {}
    BY <1>3 DEF Reboot, Scanning
  <2> QED
    BY <2>1, <2>2, <2>3, FailuresKeep
<1> QED
  BY <1>1, <1>2, <1>3

(* An agent's thread begins an inline action: of a row the pump's           *)
(* conjuncts say nothing about.                                             *)
LEMMA InlineKeeps == ASSUME IInv, NEW t \in Task, InlineBegin(t) PROVE IInv'
<1>0. Typed /\ Claimed /\ PumpOnly /\ Scanning /\ JoinedRowsRun
  BY DEF IInv
<1>1. /\ run'\in [Task -> [Runner -> RunState]]
      /\ \A u \in Task, v \in Runner :
            run'[u][v] = IF u = t /\ v = "inline" THEN "spawned" ELSE run[u][v]
  BY <1>0, Moves DEF InlineBegin, Runner, RunState
<1>2. /\ t \in Inline /\ registry' = registry /\ UNCHANGED pumpVars
  BY DEF InlineBegin
<1>3. /\ state' \in [Task -> Status]
      /\ \A u \in Task : state'[u] = state[u] \/ (u = t /\ state[u] = "absent")
  BY <1>0 DEF InlineBegin, Typed, Status
<1>4. \A u \in Task, v \in Runner : Owns(u, v)' => Owns(u, v)
  BY <1>1 DEF Owns
<1>5. Claimed'
  <2>1. \A u \in Task, v \in Runner : Owns(u, v)' => state'[u] \notin {"absent", "queued"}
    BY <1>0, <1>3, <1>4 DEF Claimed
  <2>2. \A u \in Task, v, w \in Runner : Owns(u, v)' /\ Owns(u, w)' => v = w
    BY <1>0, <1>4 DEF Claimed
  <2> QED
    BY <2>1, <2>2 DEF Claimed
<1>6. PumpOnly'
  BY <1>0, <1>1, <1>2 DEF PumpOnly, Runner
<1>7. Scanning'
  BY <1>0, <1>2 DEF Scanning, pumpVars
<1>8. JoinedRowsRun'
  <2> SUFFICES ASSUME NEW u \in (joined \cup fresh) \ Inline, Owns(u, "pump")'
               PROVE  state'[u] = "running"
    BY <1>2 DEF JoinedRowsRun, pumpVars
  <2>1. u \in Task /\ u # t /\ "pump" \in Runner
    BY <1>0, <1>2 DEF Scanning, Runner
  <2> QED
    BY <1>0, <1>3, <1>4, <2>1 DEF JoinedRowsRun
<1> QED
  BY <1>0, <1>1, <1>2, <1>3, <1>5, <1>6, <1>7, <1>8 DEF IInv, Typed

(* A dispatch leaves the snapshot and registers its handle in one step.     *)
LEMMA SpawnKeeps == ASSUME IInv, NEW t \in Task, PumpSpawn(t) PROVE IInv'
<1>0. Typed /\ Claimed /\ PumpOnly /\ Scanning /\ JoinedRowsRun
  BY DEF IInv
<1>1. /\ run'\in [Task -> [Runner -> RunState]]
      /\ \A u \in Task, v \in Runner :
            run'[u][v] = IF u = t /\ v = "pump" THEN "spawned" ELSE run[u][v]
  BY <1>0, Moves DEF PumpSpawn, Runner, RunState
<1>2. /\ t \in cur /\ state' = state /\ joined' = joined
      /\ dispatched' = dispatched \cup {t} /\ fresh' \subseteq fresh \cup {t}
      /\ main' = "spawn" /\ cur' = {} /\ seen' = seen \ cur
  BY DEF PumpSpawn
<1>3. /\ registry' \in [Task -> Runner \cup {"none"}]
      /\ \A u \in Task : registry'[u] = IF u = t THEN "pump" ELSE registry[u]
  BY <1>0 DEF PumpSpawn, Typed, Runner
<1>4. \A u \in Task, v \in Runner : Owns(u, v)' => Owns(u, v) /\ ~(u = t /\ v = "pump")
  BY <1>1 DEF Owns
<1>5. Claimed'
  <2>1. \A u \in Task, v \in Runner : Owns(u, v)' => state'[u] \notin {"absent", "queued"}
    BY <1>0, <1>2, <1>4 DEF Claimed
  <2>2. \A u \in Task, v, w \in Runner : Owns(u, v)' /\ Owns(u, w)' => v = w
    BY <1>0, <1>4 DEF Claimed
  <2> QED
    BY <2>1, <2>2 DEF Claimed
<1>6. PumpOnly'
  BY <1>0, <1>1, <1>3 DEF PumpOnly, Runner
<1>7. Scanning'
  BY <1>0, <1>2 DEF Scanning
<1>8. JoinedRowsRun'
  <2> SUFFICES ASSUME NEW u \in (joined' \cup fresh') \ Inline, Owns(u, "pump")'
               PROVE  state'[u] = "running"
    BY DEF JoinedRowsRun
  <2>1. u \in Task /\ "pump" \in Runner
    BY <1>0, <1>2 DEF Scanning, Runner
  <2>2. Owns(u, "pump") /\ u \in joined \cup fresh
    BY <1>2, <1>4, <2>1
  <2> QED
    BY <1>0, <1>2, <2>2 DEF JoinedRowsRun
<1> QED
  BY <1>0, <1>1, <1>2, <1>3, <1>5, <1>6, <1>7, <1>8 DEF IInv, Typed

LEMMA Invariance == Spec => []IInv
<1>1. Init => IInv
  BY Initial
<1>2. IInv /\ [Next]_vars => IInv'
  <2> SUFFICES ASSUME IInv, [Next]_vars
               PROVE  IInv'
    OBVIOUS
  <2>1. ASSUME NEW t \in Task, NEW w \in Runner, Run(t, w) \/ Finish(t, w) \/ Cancel(t, w)
        PROVE  IInv'
    BY <2>1, RunnerKeeps DEF RunnerStep, Run
  <2>2. ASSUME NEW t \in Task, Create(t) \/ CancelQueued(t) \/ InlineBegin(t)
        PROVE  IInv'
    BY <2>2, QuietStepsKeep, InlineKeeps
  <2>3. CASE Pump
    BY <2>3, QuietStepsKeep, WatchdogsKeep, SpawnKeeps DEF Pump
  <2>4. CASE UNCHANGED vars
    BY <2>4, QuietStepsKeep
  <2>5. CASE PumpRaise \/ MaintenanceReap \/ RequestStop \/ SpendBudget \/ Tick
    BY <2>5, QuietStepsKeep
  <2>6. CASE MaintenanceWatchdog \/ Reboot
    BY <2>6, WatchdogsKeep
  <2> QED
    BY <2>1, <2>2, <2>3, <2>4, <2>5, <2>6 DEF Next
<1> QED
  BY <1>1, <1>2, PTL DEF Spec

-----------------------------------------------------------------------------
(* The claim of run_task is the double-spawn guard: of all the runners that *)
(* reach for a row, the pump's and an agent's, one at most executes it.     *)
THEOREM OneBodyHolds == Spec => []OneBody
<1>1. IInv => OneBody
  <2> SUFFICES ASSUME IInv, NEW t \in Task
               PROVE  Cardinality({w \in Runner : Owns(t, w)}) =< 1
    BY DEF OneBody
  <2> DEFINE W == {w \in Runner : Owns(t, w)}
  <2>1. \A v, w \in W : v = w
    BY DEF IInv, Claimed
  <2>2. CASE W = {}
    BY <2>2, FS_EmptySet
  <2>3. CASE W # {}
    <3>1. PICK w \in W : TRUE
      BY <2>3
    <3>2. W = {w}
      BY <2>1, <3>1
    <3>3. Cardinality(W) = 1
      BY <3>2, FS_Singleton
    <3> QED
      BY <3>3
  <2> QED
    BY <2>2, <2>3
<1> QED
  BY <1>1, Invariance, PTL

(* No reclaim of pump start or of maintenance fails a row under a runner    *)
(* the dispatcher waits for.                                                *)
THEOREM JoinedRowsRunHolds == Spec => []JoinedRowsRun
<1>1. IInv => JoinedRowsRun
  BY DEF IInv
<1> QED
  BY <1>1, Invariance, PTL

(* Every executor the pump started is registered until it ends, the         *)
(* unjoined ones and those a raising pump forgot included: the shutdown's   *)
(* cancel_inflight_actions finds it.                                        *)
THEOREM PumpRunsReachableHolds == Spec => []PumpRunsReachable
<1>1. IInv => PumpRunsReachable
  BY DEF IInv, PumpOnly, PumpRunsReachable, Running, Runner
<1> QED
  BY <1>1, Invariance, PTL

(* A terminal row is never rewritten: by the runner that ends late, by a    *)
(* cancellation on its last write, by a watchdog or by a resume.            *)
THEOREM OutcomeStandsHolds == Spec => OutcomeStands
<1>1. IInv /\ [Next]_vars => [\A t \in Task : state[t] \in Terminal => state'[t] = state[t]]_vars
  <2> SUFFICES ASSUME IInv, [Next]_vars, NEW u \in Task, state[u] \in Terminal
               PROVE  state'[u] = state[u]
    OBVIOUS
  <2>0. Typed /\ state[u] \notin {"absent", "queued", "running"}
    BY DEF IInv, Terminal
  <2>1. ASSUME NEW t \in Task, NEW s \in Status, state' = Moved(t, s)
        PROVE  state'[u] = state[u]
    BY <2>0, <2>1, TerminalStays
  <2>2. ASSUME NEW T \in SUBSET {t \in Task : state[t] = "running"}, FailAll(T)
        PROVE  state'[u] = state[u]
    BY <2>0, <2>2, Failures
  <2>3. ASSUME NEW t \in Task, NEW w \in Runner, Run(t, w) \/ Finish(t, w) \/ Cancel(t, w)
        PROVE  state'[u] = state[u]
    <3>1. RunnerStep(t, w)
      BY <2>3 DEF RunnerStep, Run
    <3>2. PICK s \in Status : state' = state \/ state' = Moved(t, s)
      BY <3>1, RunnerSteps
    <3> QED
      BY <2>1, <3>2
  <2>4. ASSUME NEW t \in Task, CancelQueued(t) \/ PumpSkip(t)
        PROVE  state'[u] = state[u]
    BY <2>1, <2>4 DEF CancelQueued, PumpSkip, Status, Terminal
  <2>5. ASSUME NEW t \in Task, Create(t) \/ InlineBegin(t)
        PROVE  state'[u] = state[u]
    BY <2>0, <2>5 DEF Create, InlineBegin, Typed
  <2>6. CASE PumpStart \/ PumpWatchdog \/ MaintenanceWatchdog \/ Reboot
    <3>1. PICK T \in SUBSET {t \in Task : state[t] = "running"} : FailAll(T)
      <4>1. /\ {t \in Task : DeadHolder(t)} \in SUBSET {t \in Task : state[t] = "running"}
            /\ {t \in Task : Overdue(t)} \in SUBSET {t \in Task : state[t] = "running"}
        BY DEF DeadHolder, Overdue
      <4> QED
        BY <2>6, <4>1 DEF PumpStart, PumpWatchdog, MaintenanceWatchdog, Reboot
    <3> QED
      BY <2>2, <3>1
  <2>7. ASSUME NEW t \in Task, PumpAcquire(t) \/ PumpDecline(t) \/ PumpSpawn(t)
        PROVE  state' = state
    BY <2>7 DEF PumpAcquire, PumpDecline, PumpSpawn
  <2>8. CASE \/ PumpReap \/ PumpScan \/ PumpScanned \/ PumpWait \/ PumpRaise \/ PumpDrained
             \/ MaintenanceReap \/ RequestStop \/ SpendBudget \/ Tick \/ UNCHANGED vars
    BY <2>8 DEF PumpReap, PumpScan, PumpScanned, PumpWait, PumpRaise, PumpDrained,
                MaintenanceReap, RequestStop, SpendBudget, Tick, vars
  <2> QED
    BY <2>3, <2>4, <2>5, <2>6, <2>7, <2>8 DEF Next, Pump
<1> QED
  BY <1>1, Invariance, PTL DEF Spec, OutcomeStands

-----------------------------------------------------------------------------
(* The lanes.  Every step of the runners, of the pump and of maintenance    *)
(* leaves the lock's table alone or is one of LaneLeases' operations, made  *)
(* with the clock of the step.                                              *)
Proved == INSTANCE LaneLeases_proofs
              WITH Holder <- Task, Requests <- {Lanes[t] : t \in Task},
                   Ttls <- {LaneTtl(t) : t \in Task}, MaxDelay <- 0

LaneOp ==
    \/ \E t \in Task : \/ L!Acquire(t, Lanes[t], now, LaneTtl(t), TRUE)
                       \/ L!ReleaseLease(t) \/ L!LoseHandle(t)
    \/ L!ReapExpired(now) \/ L!ReapDeadHolders(now)
    \/ L!Reboot \/ L!Tick
    \/ UNCHANGED laneVars

LEMMA LaneOps == ASSUME IInv, [Next]_vars PROVE LaneOp
<1>1. ASSUME NEW t \in Task, NEW w \in Runner, Run(t, w) \/ Finish(t, w)
      PROVE  UNCHANGED laneVars \/ L!ReleaseLease(t)
  BY <1>1 DEF Run, Start, Claim, Execute, Finish, WriteTerminal, Release
<1>2. ASSUME NEW t \in Task, NEW w \in Runner, Cancel(t, w)
      PROVE  UNCHANGED laneVars \/ L!ReleaseLease(t) \/ L!LoseHandle(t)
  BY <1>2 DEF Cancel, CancelUnstarted, CancelClaim, CancelBody, CancelWrite, CancelRelease
<1>3. ASSUME NEW t \in Task, Create(t) \/ CancelQueued(t) \/ InlineBegin(t)
      PROVE  UNCHANGED laneVars
  BY <1>3 DEF Create, CancelQueued, InlineBegin
<1>4. ASSUME NEW t \in Task, PumpSkip(t) \/ PumpAcquire(t) \/ PumpDecline(t) \/ PumpSpawn(t)
      PROVE  \/ UNCHANGED laneVars \/ L!ReleaseLease(t)
             \/ L!Acquire(t, Lanes[t], now, LaneTtl(t), TRUE)
  BY <1>4 DEF PumpSkip, PumpAcquire, PumpDecline, PumpSpawn
<1>5. CASE PumpStart \/ PumpReap \/ PumpWatchdog \/ PumpScan \/ PumpScanned \/ PumpWait \/ PumpDrained
  BY <1>5 DEF LaneOp, PumpStart, PumpReap, PumpWatchdog, PumpScan, PumpScanned, PumpWait, PumpDrained
<1>6. CASE PumpRaise
  <2>1. UNCHANGED laneVars \/ \E t \in cur : handle[t] # {} /\ L!LoseHandle(t)
    BY <1>6 DEF PumpRaise, L!LoseHandle
  <2>2. \A t \in cur : handle[t] # {} /\ L!LoseHandle(t) => t \in Task
    BY DEF IInv, Scanning
  <2> QED BY <2>1, <2>2 DEF LaneOp
<1>7. CASE MaintenanceReap \/ MaintenanceWatchdog \/ RequestStop \/ SpendBudget \/ Reboot \/ Tick
  BY <1>7 DEF LaneOp, MaintenanceReap, MaintenanceWatchdog, RequestStop, SpendBudget, Reboot, Tick
<1>8. CASE UNCHANGED vars
  BY <1>8 DEF LaneOp, vars
<1> QED
  BY <1>1, <1>2, <1>3, <1>4, <1>5, <1>6, <1>7, <1>8 DEF Next, Pump, LaneOp

ClockOK == now \in Nat

LEMMA ClockRuns == Spec => []ClockOK
<1>1. Init => ClockOK
  BY DEF Init, L!Init, ClockOK
<1>2. IInv /\ ClockOK /\ [Next]_vars => ClockOK'
  <2> SUFFICES ASSUME ClockOK, LaneOp PROVE ClockOK'
    BY LaneOps
  <2> QED
    BY DEF LaneOp, L!Acquire, L!ReleaseLease, L!LoseHandle, L!ReapExpired, L!ReapDeadHolders,
           L!Reboot, L!Tick, laneVars, ClockOK
<1> QED
  BY <1>1, <1>2, Invariance, PTL DEF Spec

LEMMA LaneStep == ASSUME IInv, ClockOK, [Next]_vars PROVE [L!Next]_laneVars
<1>1. now \in L!Clock
  BY DEF L!Clock, ClockOK
<1>2. \A t \in Task : /\ Lanes[t] \in {Lanes[u] : u \in Task}
                      /\ LaneTtl(t) \in {LaneTtl(u) : u \in Task}
  OBVIOUS
<1>3. ASSUME NEW t \in Task, L!Acquire(t, Lanes[t], now, LaneTtl(t), TRUE)
      PROVE  L!Next
  BY <1>1, <1>2, <1>3 DEF L!Next
<1>4. ASSUME NEW t \in Task, L!ReleaseLease(t) \/ L!LoseHandle(t)
      PROVE  L!Next
  BY <1>4 DEF L!Next
<1>5. L!ReapExpired(now) \/ L!ReapDeadHolders(now) \/ L!Reboot \/ L!Tick => L!Next
  BY <1>1 DEF L!Next
<1> QED
  BY <1>3, <1>4, <1>5, LaneOps DEF LaneOp

(* The dispatcher uses the lanes only through the lock's operations: its    *)
(* behaviours are behaviours of LaneLeases, and the lock's theorems hold    *)
(* under it.                                                                *)
THEOREM LanesUsedAsSpecified == Spec => L!Spec
<1>1. Init => L!Init
  BY DEF Init
<1>2. IInv /\ ClockOK /\ [Next]_vars => [L!Next]_(L!vars)
  BY LaneStep DEF L!vars, laneVars
<1> QED
  BY <1>1, <1>2, Invariance, ClockRuns, PTL DEF Spec, L!Spec

(* LaneLeases and the module of its proofs speak of the same table.         *)
LEMMA SameTable ==
    /\ L!TypeOK <=> Proved!TypeOK
    /\ L!Init <=> Proved!Init
    /\ [L!Next]_(L!vars) <=> [Proved!Next]_(Proved!vars)
    /\ L!WithinBound <=> Proved!WithinBound
<1>0. \A S : L!Cardinality(S) = Proved!Cardinality(S)
  BY DEF L!Cardinality, Proved!Cardinality
<1>1. L!Key = Proved!Key /\ L!LeaseRow = Proved!LeaseRow /\ L!Clock = Proved!Clock
  BY DEF L!Key, Proved!Key, L!LeaseRow, Proved!LeaseRow, L!Clock, Proved!Clock
<1>2. (L!TypeOK <=> Proved!TypeOK) /\ (L!Init <=> Proved!Init)
  BY <1>1 DEF L!TypeOK, Proved!TypeOK, L!Init, Proved!Init
<1>3. /\ \A l : L!Rows(l) = Proved!Rows(l)
      /\ \A l, t : L!Live(l, t) = Proved!Live(l, t)
      /\ \A r : L!Expand(r) = Proved!Expand(r)
  BY DEF L!Rows, Proved!Rows, L!Live, Proved!Live, L!Expand, Proved!Expand
<1>4. \A h, lanes, t0 : L!Blocked(h, lanes, t0) = Proved!Blocked(h, lanes, t0)
  BY <1>0, <1>3 DEF L!Blocked, Proved!Blocked
<1>5. \A h, lanes, t0, until : /\ L!Granted(h, lanes, t0, until) = Proved!Granted(h, lanes, t0, until)
                               /\ L!Refreshed(h, lanes, until) = Proved!Refreshed(h, lanes, until)
  BY <1>1, <1>3 DEF L!Granted, Proved!Granted, L!Refreshed, Proved!Refreshed
<1>6. \A h, r, t0, ttl, a : L!Acquire(h, r, t0, ttl, a) <=> Proved!Acquire(h, r, t0, ttl, a)
  BY <1>3, <1>4, <1>5 DEF L!Acquire, Proved!Acquire, L!process, Proved!process
<1>7. \A h, t0, ttl : /\ L!Heartbeat(h, t0, ttl) <=> Proved!Heartbeat(h, t0, ttl)
                      /\ L!HeartbeatByTask(h, t0, ttl) <=> Proved!HeartbeatByTask(h, t0, ttl)
  BY <1>3, <1>5 DEF L!Heartbeat, Proved!Heartbeat, L!HeartbeatByTask, Proved!HeartbeatByTask,
                    L!process, Proved!process
<1>8. \A h : /\ L!ReleaseLease(h) <=> Proved!ReleaseLease(h)
             /\ L!LoseHandle(h) <=> Proved!LoseHandle(h)
  BY <1>1 DEF L!ReleaseLease, Proved!ReleaseLease, L!LoseHandle, Proved!LoseHandle,
              L!process, Proved!process
<1>9. \A t0 : /\ L!ReapExpired(t0) <=> Proved!ReapExpired(t0)
              /\ L!ReapDeadHolders(t0) <=> Proved!ReapDeadHolders(t0)
  BY <1>1 DEF L!ReapExpired, Proved!ReapExpired, L!ReapDeadHolders, Proved!ReapDeadHolders,
              L!Expired, Proved!Expired, L!Dead, Proved!Dead, L!process, Proved!process
<1>10. (L!Reboot <=> Proved!Reboot) /\ (L!Tick <=> Proved!Tick)
  BY DEF L!Reboot, Proved!Reboot, L!Tick, Proved!Tick, L!process, Proved!process
<1>11. L!Next <=> Proved!Next
  <2>1. ASSUME NEW h, NEW t0, NEW ttl
        PROVE  (\/ \E r \in {Lanes[t] : t \in Task}, a \in BOOLEAN : L!Acquire(h, r, t0, ttl, a)
                \/ L!Heartbeat(h, t0, ttl) \/ L!HeartbeatByTask(h, t0, ttl))
            <=>
               (\/ \E r \in {Lanes[t] : t \in Task}, a \in BOOLEAN : Proved!Acquire(h, r, t0, ttl, a)
                \/ Proved!Heartbeat(h, t0, ttl) \/ Proved!HeartbeatByTask(h, t0, ttl))
    BY <1>6, <1>7, Zenon
  <2>2. (\E h \in Task : L!ReleaseLease(h) \/ L!LoseHandle(h))
            <=> (\E h \in Task : Proved!ReleaseLease(h) \/ Proved!LoseHandle(h))
    BY <1>8, Zenon
  <2>3. (\E t0 \in L!Clock : L!ReapExpired(t0) \/ L!ReapDeadHolders(t0))
            <=> (\E t0 \in Proved!Clock : Proved!ReapExpired(t0) \/ Proved!ReapDeadHolders(t0))
    BY <1>1, <1>9
  <2> QED
    BY <1>1, <1>10, <2>1, <2>2, <2>3 DEF L!Next, Proved!Next
<1>12. L!WithinBound <=> Proved!WithinBound
  BY <1>0, <1>3 DEF L!WithinBound, Proved!WithinBound
<1> QED
  BY <1>2, <1>11, <1>12 DEF L!vars, Proved!vars

(* What LaneLeases_proofs assumes holds of these lanes, tasks and ttls.     *)
LEMMA LanesLaw == Spec => [](L!TypeOK /\ L!WithinBound)
<1>0. \A t \in Task : LaneTtl(t) \in Nat /\ Lanes[t] \in SUBSET Lane
  BY TaskKinds DEF LaneTtl
<1>1. /\ {Lanes[t] : t \in Task} \subseteq SUBSET Lane
      /\ {LaneTtl(t) : t \in Task} \subseteq Nat /\ MaxTime \in Nat /\ MaxBoots \in Nat /\ 0 \in Nat
  BY <1>0, LaneConstants
<1>2. NoRow \notin Proved!LeaseRow
  BY LaneConstants DEF Proved!LeaseRow
<1>3. Proved!IsFiniteSet(Task)
  BY LaneConstants DEF IsFiniteSet, Proved!IsFiniteSet
<1>4. Proved!Spec => []Proved!TypeOK
  BY <1>1, <1>2, <1>3, LaneConstants, Proved!TypeCorrect
<1>5. Proved!Spec => []Proved!WithinBound
  BY <1>1, <1>2, <1>3, LaneConstants, Proved!WithinBoundHolds
<1>6. Init => Proved!Init
  BY SameTable DEF Init
<1>7. IInv /\ ClockOK /\ [Next]_vars => [Proved!Next]_(Proved!vars)
  BY LaneStep, SameTable DEF L!vars, laneVars
<1>8. Proved!TypeOK /\ Proved!WithinBound => L!TypeOK /\ L!WithinBound
  BY SameTable
<1> QED
  BY <1>4, <1>5, <1>6, <1>7, <1>8, Invariance, ClockRuns, PTL DEF Spec, Proved!Spec

-----------------------------------------------------------------------------
(* Who holds a Lease.  A task has one exactly while it is being admitted or *)
(* has a runner of the pump, whatever that runner has come to; so no second *)
(* Lease is won for it, and neither the raise of a scan nor a decline takes *)
(* the Lease of a runner.                                                   *)
Holds(t) == t \in cur \/ run[t]["pump"] # "none"

Held == \A t \in Task : handle[t] = IF Holds(t) THEN L!Expand(Lanes[t]) ELSE {}

Admitting ==
    /\ cur \subseteq seen /\ (main = "admit" <=> cur # {})
    /\ \A t \in cur : Lanes[t] # {} => run[t]["pump"] = "none"

(* Until a Lease runs out its rows are there, as written by this process:   *)
(* the reaps find them neither expired nor of a dead process.               *)
Backed ==
    \A t \in Task : (handle[t] # {} /\ now < due[t]) =>
        \A l \in handle[t] : leases[<<l, t>>] = [expires |-> due[t], pid |-> pid]

(* The columns of TypeOK that Typed leaves out. *)
Timed ==
    /\ since \in [Task -> 0 .. now] /\ due \in [Task -> 0 .. MaxTime]
    /\ main \in {"out", "reap", "watchdog", "scan", "spawn", "admit", "wait", "drain"}
    /\ closing \in {"open", "spent", "stop"}

LaneInv == Timed /\ Admitting /\ Held /\ Backed

(* Facts of the table each step below starts from. *)
Table == IInv /\ L!TypeOK

LEMMA Expanded ==
    ASSUME NEW t \in Task
    PROVE  /\ Lanes[t] \in SUBSET Lane /\ L!Expand(Lanes[t]) \in SUBSET Lane
           /\ Lanes[t] = {} <=> L!Expand(Lanes[t]) = {}
<1>1. Lanes[t] \in SUBSET Lane /\ Conflicts \in [Lane -> SUBSET Lane]
  BY TaskKinds, LaneConstants
<1> QED
  BY <1>1 DEF L!Expand

-----------------------------------------------------------------------------
LEMMA LaneInitial == Init => LaneInv
<1>1. Init => Timed
  BY LaneConstants DEF Init, L!Init, Timed
<1>2. Init => Admitting
  BY DEF Init, Admitting
<1>3. Init => Held
  BY DEF Init, Idle, L!Init, Held, Holds, Runner
<1>4. Init => Backed
  BY DEF Init, L!Init, Backed
<1> QED
  BY <1>1, <1>2, <1>3, <1>4 DEF LaneInv

-----------------------------------------------------------------------------
(* The rows of a Lease under each operation of the lock.                    *)
LEMMA AcquireBacks ==
    ASSUME Table, Backed, NEW t \in Task, L!Acquire(t, Lanes[t], now, LaneTtl(t), TRUE),
           due' = [due EXCEPT ![t] = now + LaneTtl(t)], due \in [Task -> 0 .. MaxTime]
    PROVE  Backed'
<1> DEFINE W == L!Expand(Lanes[t])
<1>1. /\ leases' = L!Granted(t, W, now, now + LaneTtl(t))
      /\ handle[t] = {} /\ handle' = [handle EXCEPT ![t] = W]
      /\ now' = now /\ pid' = pid
  BY DEF L!Acquire, L!process
<1>2. handle \in [Task -> SUBSET Lane] /\ now \in Nat /\ W \in SUBSET Lane
  BY Expanded DEF Table, L!TypeOK
<1>3. SUFFICES ASSUME NEW u \in Task, handle'[u] # {}, now < due'[u], NEW l \in handle'[u]
               PROVE  leases'[<<l, u>>] = [expires |-> due'[u], pid |-> pid]
  BY <1>1 DEF Backed
<1> HIDE DEF W
<1>4. CASE u = t
  <2>1. l \in W /\ due'[u] = now + LaneTtl(t) /\ <<l, u>> \in L!Key
    BY <1>1, <1>2, <1>3, <1>4 DEF L!Key
  <2> QED
    BY <1>1, <1>4, <2>1 DEF L!Granted
<1>5. CASE u # t
  <2>1. handle[u] # {} /\ l \in handle[u] /\ due'[u] = due[u] /\ l \in Lane
    BY <1>1, <1>2, <1>3, <1>5
  <2>2. leases[<<l, u>>] = [expires |-> due[u], pid |-> pid]
    BY <1>3, <2>1 DEF Backed
  <2>3. <<l, u>> \in L!Key
    BY <2>1 DEF L!Key
  <2>4. due[u] \in Nat /\ pid \in Pid
    BY LaneConstants DEF Table, L!TypeOK
  <2>5. leases[<<l, u>>] # NoRow
    BY <2>2, <2>4, LaneConstants
  <2>6. u \in L!Live(l, now)
    BY <1>2, <1>3, <2>1, <2>2, <2>4, <2>5 DEF L!Live, L!Rows
  <2> QED
    BY <1>1, <1>5, <2>1, <2>2, <2>3, <2>6 DEF L!Granted
<1> QED
  BY <1>4, <1>5

LEMMA OpsBack ==
    ASSUME Table, Backed, due \in [Task -> 0 .. MaxTime], due' = due,
           \/ \E t \in Task : L!ReleaseLease(t) \/ L!LoseHandle(t)
           \/ L!ReapExpired(now) \/ L!ReapDeadHolders(now)
           \/ L!Reboot \/ L!Tick \/ UNCHANGED laneVars
    PROVE  Backed'
<1>0. /\ handle \in [Task -> SUBSET Lane] /\ now \in Nat /\ pid \in alive /\ pid \in Pid
      /\ leases \in [L!Key -> L!LeaseRow \cup {NoRow}]
  BY DEF Table, L!TypeOK
<1>1. SUFFICES ASSUME NEW u \in Task, handle'[u] # {}, now' < due[u], NEW l \in handle'[u]
               PROVE  leases'[<<l, u>>] = [expires |-> due[u], pid |-> pid']
  BY DEF Backed
<1>2. due[u] \in Nat
  BY LaneConstants
<1>3. ASSUME handle'[u] = handle[u], now < due[u]
      PROVE  /\ l \in Lane /\ <<l, u>> \in L!Key
             /\ leases[<<l, u>>] = [expires |-> due[u], pid |-> pid]
             /\ leases[<<l, u>>].expires = due[u] /\ leases[<<l, u>>].pid = pid
  BY <1>0, <1>1, <1>3 DEF Backed, L!Key
<1>4. ASSUME NEW t \in Task, L!ReleaseLease(t) \/ L!LoseHandle(t)
      PROVE  leases'[<<l, u>>] = [expires |-> due[u], pid |-> pid']
  <2>1. u # t /\ handle'[u] = handle[u] /\ now' = now /\ pid' = pid
    BY <1>0, <1>1, <1>4 DEF L!ReleaseLease, L!LoseHandle, L!process
  <2> QED
    BY <1>1, <1>3, <1>4, <2>1 DEF L!ReleaseLease, L!LoseHandle
<1>5. CASE L!ReapExpired(now)
  <2>1. handle'[u] = handle[u] /\ now' = now /\ pid' = pid
    BY <1>5 DEF L!ReapExpired, L!process
  <2>2. ~ L!Expired(leases[<<l, u>>], now)
    BY <1>0, <1>1, <1>2, <1>3, <2>1 DEF L!Expired
  <2> QED
    BY <1>1, <1>3, <1>5, <2>1, <2>2 DEF L!ReapExpired
<1>6. CASE L!ReapDeadHolders(now)
  <2>1. handle'[u] = handle[u] /\ now' = now /\ pid' = pid
    BY <1>6 DEF L!ReapDeadHolders, L!process
  <2>2. ~ L!Dead(leases[<<l, u>>], now)
    BY <1>0, <1>1, <1>3, <2>1 DEF L!Dead
  <2> QED
    BY <1>1, <1>3, <1>6, <2>1, <2>2 DEF L!ReapDeadHolders
<1>7. CASE L!Reboot
  BY <1>1, <1>7 DEF L!Reboot
<1>8. CASE L!Tick
  <2>1. /\ handle'[u] = handle[u] /\ now' = now + 1 /\ pid' = pid /\ leases' = leases
    BY <1>8 DEF L!Tick, L!process
  <2> QED
    BY <1>0, <1>1, <1>2, <1>3, <2>1
<1>9. CASE UNCHANGED laneVars
  BY <1>1, <1>3, <1>9 DEF laneVars
<1> QED
  BY <1>4, <1>5, <1>6, <1>7, <1>8, <1>9

-----------------------------------------------------------------------------
(* What each kind of step does to the Lease objects. *)
LEMMA Handles ==
    ASSUME Table, NEW t \in Task
    PROVE  /\ (L!ReleaseLease(t) \/ L!LoseHandle(t)) =>
                 /\ handle[t] # {}
                 /\ \A u \in Task : handle'[u] = IF u = t THEN {} ELSE handle[u]
           /\ L!Acquire(t, Lanes[t], now, LaneTtl(t), TRUE) =>
                 /\ handle[t] = {} /\ now + LaneTtl(t) =< MaxTime
                 /\ \A u \in Task : handle'[u] = IF u = t THEN L!Expand(Lanes[t]) ELSE handle[u]
<1>1. handle \in [Task -> SUBSET Lane]
  BY DEF Table, L!TypeOK
<1> QED
  BY <1>1 DEF L!ReleaseLease, L!LoseHandle, L!Acquire

(* A runner gives its Lease up in the step in which it ends, and only then. *)
LEMMA RunnerLanes ==
    ASSUME Table, Held, NEW t \in Task, NEW w \in Runner, RunnerStep(t, w)
    PROVE  /\ UNCHANGED laneVars \/ L!ReleaseLease(t) \/ L!LoseHandle(t)
           /\ \A u \in Task : handle'[u] = IF u = t /\ w = "pump" /\ run'[t][w] = "none"
                                           THEN {} ELSE handle[u]
           /\ run[t][w] # "none"
           /\ \A u \in Task, v \in Runner : u # t \/ v # w => run'[u][v] = run[u][v]
           /\ UNCHANGED <<due, pumpVars>>
<1>0. Typed /\ PumpOnly
  BY DEF Table, IInv
<1>1. PICK pc \in RunState : Goto(t, w, pc) /\ run[t][w] # "none"
  BY RunnerSteps DEF Table
<1>2. /\ run'[t][w] = pc
      /\ \A u \in Task, v \in Runner : u # t \/ v # w => run'[u][v] = run[u][v]
  BY <1>0, <1>1, Moves
<1>3. UNCHANGED pumpVars
  BY RunnerSteps DEF Table
<1>4. CASE Start(t, w) \/ Claim(t, w) \/ Execute(t, w) \/ Finish(t, w) \/ WriteTerminal(t, w)
  <2>1. UNCHANGED laneVars /\ due' = due
    BY <1>4 DEF Start, Claim, Execute, Finish, WriteTerminal
  <2>2. run'[t][w] # "none"
    <3>1. \E q \in {"claiming", "cancelled", "claimed", "release", "body", "failed", "succeeded"} :
             Goto(t, w, q)
      BY <1>4 DEF Start, Claim, Execute, Finish, WriteTerminal
    <3>2. PICK q \in {"claiming", "cancelled", "claimed", "release", "body", "failed", "succeeded"} :
             Goto(t, w, q)
      BY <3>1
    <3>3. run'[t][w] = q
      BY <1>0, <3>2, Moves DEF RunState, Terminal
    <3> QED BY <3>3
  <2> QED
    BY <1>1, <1>2, <1>3, <2>1, <2>2 DEF laneVars
(* An inline runner's task asks for no lanes. *)
<1>5. w = "inline" => handle[t] = {}
  <2> SUFFICES ASSUME w = "inline" PROVE handle[t] = {}
    OBVIOUS
  <2>1. t \in Inline
    BY <1>0, <1>1 DEF PumpOnly
  <2>2. L!Expand(Lanes[t]) = {}
    BY <2>1, TaskKinds, Expanded
  <2> QED
    BY <2>2 DEF Held
<1>6. w \in {"pump", "inline"}
  BY DEF Runner
<1>7. CASE Release(t, w)
  <2>1. run'[t][w] = "none" /\ due' = due
    <3>1. Goto(t, w, "none")
      BY <1>7 DEF Release
    <3> QED
      BY <1>0, <1>7, <3>1, Moves DEF Release, RunState
  <2>2. CASE w = "pump" /\ handle[t] # {}
    <3>1. L!ReleaseLease(t)
      BY <1>7, <2>2 DEF Release
    <3> QED
      BY <1>1, <1>2, <1>3, <2>1, <2>2, <3>1, Handles
  <2>3. CASE ~(w = "pump" /\ handle[t] # {})
    <3>1. UNCHANGED laneVars
      BY <1>7, <2>3 DEF Release
    <3> QED
      BY <1>1, <1>2, <1>3, <1>5, <1>6, <2>1, <2>3, <3>1 DEF laneVars
  <2> QED
    BY <2>2, <2>3
<1>8. CASE Cancel(t, w)
  <2>1. CASE CancelUnstarted(t, w) \/ CancelRelease(t, w)
    <3>1. run'[t][w] = "none" /\ due' = due
      <4>1. Goto(t, w, "none")
        BY <2>1 DEF CancelUnstarted, CancelRelease
      <4> QED
        BY <1>0, <2>1, <4>1, Moves DEF CancelUnstarted, CancelRelease, RunState
    <3>2. CASE w = "pump" /\ handle[t] # {}
      <4>1. L!ReleaseLease(t) \/ L!LoseHandle(t)
        BY <2>1, <3>2 DEF CancelUnstarted, CancelRelease
      <4> QED
        BY <1>1, <1>2, <1>3, <3>1, <3>2, <4>1, Handles
    <3>3. CASE ~(w = "pump" /\ handle[t] # {})
      <4>1. UNCHANGED laneVars
        BY <1>5, <1>6, <2>1, <3>3 DEF CancelUnstarted, CancelRelease
      <4> QED
        BY <1>1, <1>2, <1>3, <1>5, <1>6, <3>1, <3>3, <4>1 DEF laneVars
    <3> QED
      BY <3>2, <3>3
  <2>2. CASE CancelClaim(t, w) \/ CancelBody(t, w) \/ CancelWrite(t, w)
    <3>1. UNCHANGED laneVars /\ due' = due
      BY <2>2 DEF CancelClaim, CancelBody, CancelWrite
    <3>2. run'[t][w] # "none"
      <4>1. Goto(t, w, "release") \/ Goto(t, w, "cancelled")
        BY <2>2 DEF CancelClaim, CancelBody, CancelWrite
      <4> QED
        BY <1>0, <4>1, Moves DEF RunState, Terminal
    <3> QED
      BY <1>1, <1>2, <1>3, <3>1, <3>2 DEF laneVars
  <2> QED
    BY <1>8, <2>1, <2>2 DEF Cancel
<1> QED
  BY <1>4, <1>7, <1>8 DEF RunnerStep

-----------------------------------------------------------------------------
(* A step after which no task but t is admitted, runs or holds a Lease      *)
(* where it did not.                                                        *)
LEMMA OneHolder ==
    ASSUME Held, NEW t \in Task,
           \A u \in Task : u # t => handle'[u] = handle[u] /\ (Holds(u)' <=> Holds(u)),
           handle'[t] = IF Holds(t)' THEN L!Expand(Lanes[t]) ELSE {}
    PROVE  Held'
BY DEF Held

(* A step that admits nobody and lets no runner of the pump begin or end.   *)
LEMMA Steady ==
    ASSUME Held, Admitting, handle' = handle, cur' = cur, cur \subseteq seen',
           main' = "admit" <=> main = "admit",
           \A u \in Task : run'[u]["pump"] = run[u]["pump"], cur \subseteq Task
    PROVE  Held' /\ Admitting'
BY DEF Held, Admitting, Holds

LEMMA RunnerHolds ==
    ASSUME Table, LaneInv, NEW t \in Task, NEW w \in Runner, RunnerStep(t, w)
    PROVE  Admitting' /\ Held' /\ Backed'
<1>0. Held /\ Admitting /\ Backed /\ Timed /\ Scanning
  BY DEF Table, IInv, LaneInv
<1>1. /\ UNCHANGED laneVars \/ L!ReleaseLease(t) \/ L!LoseHandle(t)
      /\ \A u \in Task : handle'[u] = IF u = t /\ w = "pump" /\ run'[t][w] = "none"
                                      THEN {} ELSE handle[u]
      /\ run[t][w] # "none"
      /\ \A u \in Task, v \in Runner : u # t \/ v # w => run'[u][v] = run[u][v]
      /\ due' = due /\ cur' = cur /\ seen' = seen /\ main' = main
  BY <1>0, RunnerLanes DEF pumpVars
<1>2. "pump" \in Runner /\ cur \subseteq Task
  BY <1>0 DEF Runner, Scanning
<1>3. Admitting'
  BY <1>0, <1>1, <1>2 DEF Admitting
<1>4. Held'
  <2>1. ASSUME NEW u \in Task, u # t
        PROVE  handle'[u] = handle[u] /\ (Holds(u)' <=> Holds(u))
    BY <1>1, <1>2, <2>1 DEF Holds
  <2>2. CASE w = "pump" /\ run'[t][w] = "none"
    <3>1. handle'[t] = {}
      BY <1>1, <2>2
    <3>2. Holds(t)' => t \in cur
      BY <1>1, <2>2 DEF Holds
    <3>3. t \in cur => L!Expand(Lanes[t]) = {}
      BY <1>0, <1>1, <2>2, Expanded DEF Admitting
    <3> QED
      BY <1>0, <2>1, <3>1, <3>2, <3>3, OneHolder
  <2>3. CASE ~(w = "pump" /\ run'[t][w] = "none")
    <3>1. handle'[t] = handle[t]
      BY <1>1, <2>3
    <3>2. Holds(t)' <=> Holds(t)
      BY <1>1, <1>2, <2>3 DEF Holds
    <3> QED
      BY <1>0, <2>1, <3>1, <3>2, OneHolder DEF Held
  <2> QED
    BY <2>2, <2>3
<1>5. Backed'
  BY <1>0, <1>1, OpsBack DEF Timed
<1> QED
  BY <1>3, <1>4, <1>5

(* An admission is won only for a task without a Lease, so without a runner *)
(* that could release it.                                                   *)
LEMMA AcquireHolds ==
    ASSUME Table, LaneInv, NEW t \in Task, PumpAcquire(t)
    PROVE  Admitting' /\ Held' /\ Backed'
<1>0. Held /\ Admitting /\ Backed /\ Timed /\ Scanning
  BY DEF Table, IInv, LaneInv
<1>1. /\ main = "spawn" /\ t \in seen /\ main' = "admit" /\ cur' = {t}
      /\ run' = run /\ seen' = seen /\ cur = {}
  BY <1>0 DEF PumpAcquire, Admitting
<1>2. CASE Lanes[t] = {}
  <2>1. UNCHANGED laneVars /\ due' = due
    BY <1>2 DEF PumpAcquire
  <2>2. L!Expand(Lanes[t]) = {}
    BY <1>2, Expanded
  <2>3. \A u \in Task : u # t => handle'[u] = handle[u] /\ (Holds(u)' <=> Holds(u))
    BY <1>1, <2>1 DEF Holds, laneVars
  <2>4. handle'[t] = {}
    BY <1>0, <2>1, <2>2 DEF Held, laneVars
  <2>5. Held'
    BY <1>0, <2>2, <2>3, <2>4, OneHolder
  <2>6. Admitting'
    BY <1>1, <1>2 DEF Admitting
  <2>7. Backed'
    BY <1>0, <2>1, OpsBack DEF Timed
  <2> QED
    BY <2>5, <2>6, <2>7
<1>3. CASE Lanes[t] # {}
  <2>1. /\ L!Acquire(t, Lanes[t], now, LaneTtl(t), TRUE)
        /\ due' = [due EXCEPT ![t] = now + LaneTtl(t)]
    BY <1>3 DEF PumpAcquire
  <2>2. /\ handle[t] = {}
        /\ \A u \in Task : handle'[u] = IF u = t THEN L!Expand(Lanes[t]) ELSE handle[u]
    BY <2>1, Handles
  <2>3. run[t]["pump"] = "none"
    <3>1. L!Expand(Lanes[t]) # {}
      BY <1>3, Expanded
    <3> QED
      BY <1>0, <2>2, <3>1 DEF Held, Holds
  <2>4. Held'
    <3>1. \A u \in Task : u # t => handle'[u] = handle[u] /\ (Holds(u)' <=> Holds(u))
      BY <1>1, <2>2 DEF Holds
    <3>2. Holds(t)' /\ handle'[t] = L!Expand(Lanes[t])
      BY <1>1, <2>2 DEF Holds
    <3> QED
      BY <1>0, <3>1, <3>2, OneHolder
  <2>5. Admitting'
    BY <1>1, <2>3 DEF Admitting
  <2>6. Backed'
    BY <1>0, <2>1, AcquireBacks DEF Timed
  <2> QED
    BY <2>4, <2>5, <2>6
<1> QED
  BY <1>2, <1>3

(* A decline and the raise of a scan give up the Lease of the task under    *)
(* admission, which has no runner yet.                                      *)
LEMMA AdmissionEnds ==
    ASSUME Table, LaneInv, PumpRaise \/ (\E t \in Task : PumpDecline(t) \/ PumpSpawn(t))
    PROVE  Admitting' /\ Held' /\ Backed'
<1>0. Held /\ Admitting /\ Backed /\ Timed /\ Scanning
  BY DEF Table, IInv, LaneInv
<1>1. /\ \A t, u \in cur : t = u
      /\ cur \subseteq Task /\ "pump" \in Runner
  BY <1>0 DEF Scanning, Runner
<1>2. cur' = {} /\ main' # "admit" /\ due' = due
  BY DEF PumpRaise, PumpDecline, PumpSpawn
<1>3. Admitting'
  BY <1>2 DEF Admitting
<1>4. ASSUME NEW t \in cur, handle[t] # {}, L!ReleaseLease(t) \/ L!LoseHandle(t), run' = run
      PROVE  Held' /\ Backed'
  <2>1. t \in Task /\ \A u \in Task : handle'[u] = IF u = t THEN {} ELSE handle[u]
    BY <1>1, <1>4, Handles
  <2>2. run[t]["pump"] = "none"
    <3>1. L!Expand(Lanes[t]) # {}
      BY <1>0, <1>4, <2>1 DEF Held
    <3> QED
      BY <1>0, <2>1, <3>1, Expanded DEF Admitting
  <2>3. \A u \in Task : u # t => handle'[u] = handle[u] /\ (Holds(u)' <=> Holds(u))
    BY <1>1, <1>2, <1>4, <2>1 DEF Holds
  <2>4. ~ Holds(t)' /\ handle'[t] = {}
    BY <1>2, <1>4, <2>1, <2>2 DEF Holds
  <2>5. Held'
    BY <1>0, <2>1, <2>3, <2>4, OneHolder
  <2>6. Backed'
    BY <1>0, <1>2, <1>4, <2>1, OpsBack DEF Timed
  <2> QED
    BY <2>5, <2>6
<1>5. CASE PumpRaise
  <2>1. run' = run
    BY <1>5 DEF PumpRaise
  <2>2. CASE \E t \in cur : handle[t] # {}
    <3>1. PICK t \in cur : L!LoseHandle(t)
      BY <1>5, <2>2 DEF PumpRaise
    <3>2. handle[t] # {}
      BY <3>1 DEF L!LoseHandle
    <3> QED
      BY <1>3, <1>4, <2>1, <3>1, <3>2
  <2>3. CASE ~ \E t \in cur : handle[t] # {}
    <3>1. UNCHANGED laneVars
      BY <1>5, <2>3 DEF PumpRaise
    <3>2. Held'
      BY <1>0, <1>1, <1>2, <2>1, <2>3, <3>1 DEF Held, Holds, laneVars
    <3>3. Backed'
      BY <1>0, <1>2, <3>1, OpsBack DEF Timed
    <3> QED
      BY <1>3, <3>2, <3>3
  <2> QED
    BY <2>2, <2>3
<1>6. ASSUME NEW t \in Task, PumpDecline(t)
      PROVE  Admitting' /\ Held' /\ Backed'
  BY <1>3, <1>4, <1>6 DEF PumpDecline
<1>7. ASSUME NEW t \in Task, PumpSpawn(t)
      PROVE  Admitting' /\ Held' /\ Backed'
  <2>1. /\ t \in cur /\ UNCHANGED laneVars /\ Goto(t, "pump", "spawned")
    BY <1>7 DEF PumpSpawn
  <2>2. \A u \in Task : run'[u]["pump"] = IF u = t THEN "spawned" ELSE run[u]["pump"]
    BY <1>1, <2>1, Moves DEF Table, IInv, RunState
  <2>3. \A u \in Task : handle'[u] = handle[u] /\ (Holds(u)' <=> Holds(u))
    BY <1>1, <1>2, <2>1, <2>2 DEF Holds, laneVars
  <2>4. Held'
    BY <1>0, <2>3 DEF Held
  <2>5. Backed'
    BY <1>0, <1>2, <2>1, OpsBack DEF Timed
  <2> QED
    BY <1>3, <2>4, <2>5
<1> QED
  BY <1>5, <1>6, <1>7

(* No other step admits a task or lets a runner of the pump begin or end,   *)
(* but for the resume, after which there is none.                           *)
LEMMA OthersHold ==
    ASSUME Table, LaneInv,
           \/ \E t \in Task : Create(t) \/ CancelQueued(t) \/ InlineBegin(t) \/ PumpSkip(t)
           \/ PumpStart \/ PumpReap \/ PumpWatchdog \/ PumpScan \/ PumpScanned \/ PumpWait
           \/ PumpDrained \/ MaintenanceReap \/ MaintenanceWatchdog \/ RequestStop
           \/ SpendBudget \/ Reboot \/ Tick \/ UNCHANGED vars
    PROVE  Admitting' /\ Held' /\ Backed'
<1>0. Held /\ Admitting /\ Backed /\ Timed /\ Scanning /\ Typed
  BY DEF Table, IInv, LaneInv
<1>1. cur \subseteq Task /\ cur \subseteq seen /\ (main # "admit" => cur = {}) /\ "pump" \in Runner
  BY <1>0 DEF Scanning, Admitting, Runner
<1>2. ASSUME UNCHANGED laneVars \/ L!ReapExpired(now) \/ L!ReapDeadHolders(now) \/ L!Tick,
             due' = due, cur' = cur, cur \subseteq seen', main' = "admit" <=> main = "admit",
             \A u \in Task : run'[u]["pump"] = run[u]["pump"]
      PROVE  Admitting' /\ Held' /\ Backed'
  <2>1. handle' = handle
    BY <1>2 DEF L!ReapExpired, L!ReapDeadHolders, L!Tick, laneVars
  <2>2. Held' /\ Admitting'
    BY <1>0, <1>1, <1>2, <2>1, Steady
  <2>3. Backed'
    BY <1>0, <1>2, OpsBack DEF Timed
  <2> QED
    BY <2>2, <2>3
<1>3. ASSUME NEW t \in Task, Create(t) \/ CancelQueued(t) \/ PumpSkip(t)
      PROVE  Admitting' /\ Held' /\ Backed'
  BY <1>1, <1>2, <1>3 DEF Create, CancelQueued, PumpSkip, pumpVars
<1>4. ASSUME NEW t \in Task, InlineBegin(t)
      PROVE  Admitting' /\ Held' /\ Backed'
  <2>1. UNCHANGED <<laneVars, due, pumpVars>> /\ Goto(t, "inline", "spawned")
    BY <1>4 DEF InlineBegin
  <2>2. \A u \in Task : run'[u]["pump"] = run[u]["pump"]
    BY <1>0, <2>1, Moves DEF Runner, RunState
  <2> QED
    BY <1>1, <1>2, <2>1, <2>2 DEF pumpVars
<1>5. CASE PumpStart \/ PumpReap \/ PumpWatchdog
  BY <1>1, <1>2, <1>5 DEF PumpStart, PumpReap, PumpWatchdog
<1>6. CASE PumpScan \/ PumpScanned \/ PumpWait \/ PumpDrained
  BY <1>1, <1>2, <1>6 DEF PumpScan, PumpScanned, PumpWait, PumpDrained
<1>7. CASE MaintenanceReap \/ MaintenanceWatchdog \/ RequestStop \/ SpendBudget
  BY <1>1, <1>2, <1>7 DEF MaintenanceReap, MaintenanceWatchdog, RequestStop, SpendBudget, pumpVars
<1>8. CASE Tick \/ UNCHANGED vars
  BY <1>1, <1>2, <1>8 DEF Tick, vars, pumpVars
<1>9. CASE Reboot
  <2>1. L!Reboot /\ due' = due /\ run' = Idle /\ cur' = {} /\ main' = "out"
    BY <1>9 DEF Reboot
  <2>2. \A u \in Task : handle'[u] = {}
    BY <2>1 DEF L!Reboot
  <2>3. Admitting'
    BY <2>1 DEF Admitting
  <2>4. Held'
    BY <1>1, <2>1, <2>2 DEF Held, Holds, Idle
  <2>5. Backed'
    BY <1>0, <2>1, OpsBack DEF Timed
  <2> QED
    BY <2>3, <2>4, <2>5
<1> QED
  BY <1>3, <1>4, <1>5, <1>6, <1>7, <1>8, <1>9

-----------------------------------------------------------------------------
(* A claim stamps its row with the clock, an admission its Lease with a     *)
(* time the bound allows.                                                   *)
LEMMA RunnerStamps ==
    ASSUME NEW t \in Task, NEW w \in Runner, RunnerStep(t, w)
    PROVE  (since' = since \/ since' = [since EXCEPT ![t] = now]) /\ closing' = closing
<1>1. CASE Start(t, w) \/ Claim(t, w) \/ Execute(t, w) \/ Finish(t, w) \/ WriteTerminal(t, w)
  BY <1>1 DEF Start, Claim, Execute, Finish, WriteTerminal
<1>2. CASE Release(t, w)
  BY <1>2 DEF Release
<1>3. CASE Cancel(t, w)
  BY <1>3 DEF Cancel, CancelUnstarted, CancelClaim, CancelBody, CancelWrite, CancelRelease
<1> QED
  BY <1>1, <1>2, <1>3 DEF RunnerStep

LEMMA TimedKeeps == ASSUME Table, LaneInv, [Next]_vars PROVE Timed'
<1>0. /\ since \in [Task -> 0 .. now] /\ due \in [Task -> 0 .. MaxTime] /\ now \in Nat
      /\ main \in {"out", "reap", "watchdog", "scan", "spawn", "admit", "wait", "drain"}
      /\ closing \in {"open", "spent", "stop"}
  BY DEF Table, LaneInv, Timed, L!TypeOK
<1>1. now' = now \/ now' = now + 1
  <2>1. LaneOp
    BY LaneOps DEF Table
  <2> QED
    BY <2>1 DEF LaneOp, L!Acquire, L!ReleaseLease, L!LoseHandle, L!ReapExpired,
                L!ReapDeadHolders, L!Reboot, L!Tick, laneVars
<1>2. ASSUME since' = since \/ (\E t \in Task : since' = [since EXCEPT ![t] = now])
      PROVE  since' \in [Task -> 0 .. now']
  <2>1. 0 .. now \subseteq 0 .. now' /\ now \in 0 .. now'
    BY <1>0, <1>1
  <2> QED
    BY <1>0, <1>2, <2>1
<1>3. ASSUME since' = since \/ (\E t \in Task : since' = [since EXCEPT ![t] = now]),
             due' = due,
             main' \in {"out", "reap", "watchdog", "scan", "spawn", "admit", "wait", "drain"},
             closing' \in {"open", "spent", "stop"}
      PROVE  Timed'
  BY <1>0, <1>2, <1>3 DEF Timed
<1>4. ASSUME NEW t \in Task, NEW w \in Runner, RunnerStep(t, w)
      PROVE  Timed'
  <2>1. due' = due /\ main' = main
    BY <1>4, RunnerLanes DEF LaneInv, pumpVars
  <2> QED
    BY <1>0, <1>3, <1>4, <2>1, RunnerStamps
<1>5. ASSUME NEW t \in Task, Create(t) \/ CancelQueued(t) \/ InlineBegin(t)
      PROVE  Timed'
  BY <1>0, <1>3, <1>5 DEF Create, CancelQueued, InlineBegin, pumpVars
<1>6. ASSUME NEW t \in Task, PumpSkip(t) \/ PumpDecline(t) \/ PumpSpawn(t)
      PROVE  Timed'
  BY <1>0, <1>3, <1>6 DEF PumpSkip, PumpDecline, PumpSpawn
<1>7. ASSUME NEW t \in Task, PumpAcquire(t)
      PROVE  Timed'
  <2>1. since' = since /\ main' = "admit" /\ closing' = closing
    BY <1>7 DEF PumpAcquire
  <2>2. CASE Lanes[t] = {}
    BY <1>0, <1>3, <1>7, <2>1, <2>2 DEF PumpAcquire
  <2>3. CASE Lanes[t] # {}
    <3>1. /\ L!Acquire(t, Lanes[t], now, LaneTtl(t), TRUE)
          /\ due' = [due EXCEPT ![t] = now + LaneTtl(t)]
      BY <1>7, <2>3 DEF PumpAcquire
    <3>2. LaneTtl(t) \in Nat /\ now + LaneTtl(t) =< MaxTime
      BY <3>1, TaskKinds, Handles DEF LaneTtl
    <3>3. due' \in [Task -> 0 .. MaxTime]
      BY <1>0, <3>1, <3>2, LaneConstants
    <3> QED
      BY <1>0, <1>2, <2>1, <3>3 DEF Timed
  <2> QED
    BY <2>2, <2>3
<1>8. CASE PumpStart \/ PumpReap \/ PumpWatchdog \/ PumpScan \/ PumpScanned \/ PumpWait \/ PumpDrained
  BY <1>0, <1>3, <1>8
     DEF PumpStart, PumpReap, PumpWatchdog, PumpScan, PumpScanned, PumpWait, PumpDrained
<1>9. CASE PumpRaise \/ MaintenanceReap \/ MaintenanceWatchdog \/ RequestStop \/ SpendBudget
  BY <1>0, <1>3, <1>9
     DEF PumpRaise, MaintenanceReap, MaintenanceWatchdog, RequestStop, SpendBudget, pumpVars
<1>10. CASE Reboot \/ Tick \/ UNCHANGED vars
  BY <1>0, <1>3, <1>10 DEF Reboot, Tick, vars, pumpVars
<1> QED
  BY <1>4, <1>5, <1>6, <1>7, <1>8, <1>9, <1>10 DEF Next, Run, RunnerStep, Pump

LEMMA LaneInvariance == Spec => []LaneInv
<1>1. Init => LaneInv
  BY LaneInitial
<1>2. IInv /\ L!TypeOK /\ LaneInv /\ [Next]_vars => LaneInv'
  <2> SUFFICES ASSUME Table, LaneInv, [Next]_vars PROVE Admitting' /\ Held' /\ Backed'
    BY TimedKeeps DEF Table, LaneInv
  <2>1. ASSUME NEW t \in Task, NEW w \in Runner, Run(t, w) \/ Finish(t, w) \/ Cancel(t, w)
        PROVE  Admitting' /\ Held' /\ Backed'
    BY <2>1, RunnerHolds DEF Run, RunnerStep
  <2>2. ASSUME NEW t \in Task,
               \/ Create(t) \/ CancelQueued(t) \/ InlineBegin(t)
               \/ PumpSkip(t) \/ PumpAcquire(t) \/ PumpDecline(t) \/ PumpSpawn(t)
        PROVE  Admitting' /\ Held' /\ Backed'
    BY <2>2, AcquireHolds, AdmissionEnds, OthersHold
  <2>3. CASE Pump
    BY <2>2, <2>3, OthersHold DEF Pump
  <2>4. CASE PumpRaise
    BY <2>4, AdmissionEnds
  <2>5. CASE \/ MaintenanceReap \/ MaintenanceWatchdog
             \/ RequestStop \/ SpendBudget \/ Reboot \/ Tick \/ UNCHANGED vars
    BY <2>5, OthersHold
  <2> QED
    BY <2>1, <2>2, <2>3, <2>4, <2>5 DEF Next
<1> QED
  BY <1>1, <1>2, Invariance, LanesLaw, PTL DEF Spec

-----------------------------------------------------------------------------
(* The registry, the runners, the pump and the lane table are well-formed   *)
(* together: at most one task is under admission, one of the snapshot, and  *)
(* what the pump waits for it has dispatched.                               *)
THEOREM TaskTypeCorrect == Spec => []TypeOK
<1>1. IInv /\ L!TypeOK /\ LaneInv => TypeOK
  <2> SUFFICES ASSUME IInv, L!TypeOK, LaneInv PROVE TypeOK
    OBVIOUS
  <2>1. /\ seen \subseteq Task /\ dispatched \subseteq Task
        /\ fresh \subseteq dispatched /\ joined \subseteq dispatched
        /\ \A t, u \in cur : t = u
    BY DEF IInv, Scanning
  <2>2. cur \subseteq seen /\ (main = "admit" <=> cur # {})
    BY DEF LaneInv, Admitting
  <2>3. cur # {} <=> Cardinality(cur) = 1
    <3>1. CASE cur = {}
      BY <3>1, FS_EmptySet
    <3>2. CASE cur # {}
      <4>1. PICK t \in cur : TRUE
        BY <3>2
      <4>2. cur = {t}
        BY <2>1, <4>1
      <4> QED
        BY <3>2, <4>2, FS_Singleton
    <3> QED
      BY <3>1, <3>2
  <2>4. (main = "admit") = (Cardinality(cur) = 1)
    BY <2>2, <2>3
  <2>5. /\ state \in [Task -> {"absent", "queued", "running"} \cup Terminal]
        /\ run \in [Task -> [Runner -> RunState]]
        /\ registry \in [Task -> Runner \cup {"none"}]
    BY DEF IInv, Typed, Status
  <2>6. Timed
    BY DEF LaneInv
  <2> QED
    BY <2>1, <2>2, <2>4, <2>5, <2>6 DEF TypeOK, Timed
<1> QED
  BY <1>1, Invariance, LanesLaw, LaneInvariance, PTL

(* A Lease that has not run out is backed by live rows on the whole of the  *)
(* task's conflict sets for as long as its runner lives: no reap, no other  *)
(* task's acquire and no late cancellation takes them away.                 *)
LEMMA LeaseBacked == ASSUME L!TypeOK, LaneInv PROVE LeaseBacksRun
<1> SUFFICES ASSUME NEW t \in Task, run[t]["pump"] \notin {"none", "release"}, now < due[t],
                    NEW l \in L!Expand(Lanes[t])
             PROVE  t \in L!Live(l, now)
  BY DEF LeaseBacksRun
<1>1. handle[t] = L!Expand(Lanes[t])
  BY DEF LaneInv, Held, Holds
<1>2. leases[<<l, t>>] = [expires |-> due[t], pid |-> pid]
  BY <1>1 DEF LaneInv, Backed
<1>3. due[t] \in Nat /\ now \in Nat /\ pid \in Pid
  BY LaneConstants DEF LaneInv, Timed, L!TypeOK
<1>4. leases[<<l, t>>] # NoRow
  BY <1>2, <1>3, LaneConstants
<1>5. leases[<<l, t>>].expires > now
  BY <1>2, <1>3
<1> QED
  BY <1>4, <1>5 DEF L!Live, L!Rows

THEOREM LeaseBacksRunHolds == Spec => []LeaseBacksRun
<1>1. L!TypeOK /\ LaneInv => LeaseBacksRun
  BY LeaseBacked
<1> QED
  BY <1>1, LanesLaw, LaneInvariance, PTL

(* Two executors within their leases never share a serial lane nor run on   *)
(* lanes that conflict: each has rows on its whole conflict sets, and a     *)
(* serial lane, as all that conflict are, has room for the rows of one.     *)
THEOREM SerialWithinLeaseHolds == Spec => []SerialWithinLease
<1>1. L!TypeOK /\ L!WithinBound /\ LaneInv => SerialWithinLease
  <2> SUFFICES ASSUME L!TypeOK, L!WithinBound, LaneInv, NEW t \in Task, NEW u \in Task, t # u,
                      Running(t, "pump"), Running(u, "pump"), now < due[t], now < due[u],
                      NEW l \in Lanes[t], NEW m \in Lanes[u], Clash(l, m)
               PROVE  FALSE
    BY DEF SerialWithinLease
  <2>1. l \in Lane /\ m \in Lane /\ l \in L!Expand(Lanes[t])
    BY TaskKinds DEF L!Expand
  <2>2. l \in L!Expand(Lanes[u]) /\ Bound[l] \in Nat /\ Bound[l] =< 1
    BY <2>1, LaneConstants, ConflictingLanesSerial DEF Clash, L!Expand
  <2>3. /\ \A k \in L!Expand(Lanes[t]) : t \in L!Live(k, now)
        /\ \A k \in L!Expand(Lanes[u]) : u \in L!Live(k, now)
    <3>1. /\ run[t]["pump"] \notin {"none", "release"} /\ Lanes[t] # {}
          /\ run[u]["pump"] \notin {"none", "release"} /\ Lanes[u] # {}
      BY DEF Running
    <3> QED
      BY <3>1, LeaseBacked DEF LeaseBacksRun
  <2>4. {t, u} \subseteq L!Rows(l)
    BY <2>1, <2>2, <2>3 DEF L!Live
  <2>5. L!Cardinality(L!Rows(l)) =< Bound[l]
    BY <2>1 DEF L!WithinBound
  <2>6. \A S : L!Cardinality(S) = Cardinality(S)
    BY DEF L!Cardinality, Cardinality
  <2>7. IsFiniteSet(L!Rows(l)) /\ Cardinality(L!Rows(l)) \in Nat
    BY LaneConstants, FS_Subset, FS_CardinalityType DEF L!Rows
  <2>8. Cardinality({t, u}) = 2 /\ IsFiniteSet({t, u})
    <3>1. IsFiniteSet({t}) /\ Cardinality({t}) = 1 /\ u \notin {t}
      BY FS_Singleton
    <3>2. IsFiniteSet({t} \cup {u}) /\ Cardinality({t} \cup {u}) = 1 + 1
      BY <3>1, FS_AddElement
    <3>3. {t} \cup {u} = {t, u}
      OBVIOUS
    <3> QED
      BY <3>2, <3>3
  <2>9. Cardinality({t, u}) =< Cardinality(L!Rows(l))
    BY <2>4, <2>7, FS_Subset
  <2> QED
    BY <2>2, <2>5, <2>6, <2>7, <2>8, <2>9
<1> QED
  BY <1>1, LanesLaw, LaneInvariance, PTL
=============================================================================
