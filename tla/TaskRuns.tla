------------------------------ MODULE TaskRuns ------------------------------
(***************************************************************************)
(* How a task row comes to run and to end: the task registry               *)
(* (state/task_registry.py), the runner coroutines                         *)
(* (loop/sub_agent_runner.py) and the dispatcher that spawns, cancels and  *)
(* reclaims them (loop/dispatcher.py), over the lanes of LaneLeases.       *)
(*                                                                         *)
(* One coordinator process.  Its main coroutine alternates reactor passes  *)
(* and maintenance ("out") with a dispatcher pump.  A runner coroutine per *)
(* dispatched task, and one per inline action, interleave with it at every *)
(* await; a cancellation may land on any of their awaits.                  *)
(***************************************************************************)
EXTENDS Naturals, FiniteSets

CONSTANTS
    Task,            \* task ids
    Lanes,           \* Lanes[t]: requires_lanes of the row
    Ttl,             \* Ttl[t]: lease_ttl_sec of the row, 0 for none
    DefaultTtl,      \* the lane lease of a row without a ttl (60 s)
    Unjoined,        \* tasks of _NOT_JOINED_KINDS: the pump leaves them running
    Inline,          \* lane-less actions an agent runs with run_action_now
    Exempt,          \* TIME_BUDGET_EXEMPT_ACTIONS
    \* parameters of LaneLeases
    Lane, Conflicts, Pid, CapacityChoice, Bound, MaxTime, MaxBoots, NoRow

Runner == {"pump", "inline"}   \* who called run_task_registered
Terminal == {"succeeded", "failed", "cancelled"}
LaneTtl(t) == IF Ttl[t] = 0 THEN DefaultTtl ELSE Ttl[t]

ASSUME TaskKinds ==
    /\ Lanes \in [Task -> SUBSET Lane] /\ Ttl \in [Task -> Nat]
    /\ DefaultTtl \in Nat \ {0}
    /\ Unjoined \subseteq Task /\ Inline \subseteq Task /\ Exempt \subseteq Task
    /\ Inline \cap Unjoined = {} /\ \A t \in Inline : Lanes[t] = {}

(* The lane table, as LaneLeases assumes it. *)
ASSUME LaneConstants ==
    /\ IsFiniteSet(Task)
    /\ Conflicts \in [Lane -> SUBSET Lane]
    /\ \A l \in Lane : /\ l \notin Conflicts[l]
                       /\ \A m \in Conflicts[l] :
                             /\ l \in Conflicts[m]
                             /\ Conflicts[m] \subseteq Conflicts[l] \cup {l}
    /\ CapacityChoice \subseteq [Lane -> Nat] /\ Bound \in [Lane -> Nat]
    /\ \A c \in CapacityChoice, l \in Lane : c[l] =< Bound[l]
    /\ MaxTime \in Nat /\ MaxBoots \in Nat
    /\ NoRow \notin [expires : Nat, pid : Pid]

(* DEFAULT_LANE_CAPACITIES, of which the boot changes research_lane only,   *)
(* a lane that conflicts with none.                                         *)
ASSUME ConflictingLanesSerial == \A l \in Lane : Conflicts[l] # {} => Bound[l] =< 1

VARIABLES
    leases, capacity, now, handle, pid, alive, boots,   \* of LaneLeases
    state,       \* the state column of a task row, "absent" before its insert
    since,       \* updated_at of the row's last transition to running
    due,         \* Lease.expires_at of the Lease the pump last won for the task
    run,         \* run[t][w]: where runner w of task t stands
    registry,    \* _inflight_actions: the runner a cancel reaches, or "none"
    main,        \* where the main coroutine stands
    seen,        \* rows of the pump's queue snapshot still to be considered
    cur,         \* the task being admitted: it has its lanes, no coroutine yet
    dispatched,  \* dispatched_ids of this pump
    fresh,       \* spawned by the scan under way
    joined,      \* inflight: what the pump waits for
    closing      \* "open"; "spent": session budget used up; "stop": shutdown

laneVars == <<leases, capacity, now, handle, pid, alive, boots>>
pumpVars == <<main, seen, cur, dispatched, fresh, joined>>
vars == <<laneVars, state, since, due, run, registry, pumpVars, closing>>

L == INSTANCE LaneLeases
        WITH Holder <- Task, Requests <- {Lanes[t] : t \in Task},
             Ttls <- {LaneTtl(t) : t \in Task}, MaxDelay <- 0

RunState == {"none", "spawned", "claiming", "claimed", "body", "release"} \cup Terminal

TypeOK ==
    /\ L!TypeOK
    /\ state \in [Task -> {"absent", "queued", "running"} \cup Terminal]
    /\ since \in [Task -> 0 .. now] /\ due \in [Task -> 0 .. MaxTime]
    /\ run \in [Task -> [Runner -> RunState]]
    /\ registry \in [Task -> Runner \cup {"none"}]
    /\ main \in {"out", "reap", "watchdog", "scan", "spawn", "admit", "wait", "drain"}
    /\ seen \subseteq Task /\ dispatched \subseteq Task
    /\ fresh \subseteq dispatched /\ joined \subseteq dispatched
    /\ cur \subseteq seen /\ (main = "admit") = (Cardinality(cur) = 1)
    /\ closing \in {"open", "spent", "stop"}

Idle == [t \in Task |-> [w \in Runner |-> "none"]]

Init ==
    /\ L!Init
    /\ state = [t \in Task |-> "absent"]
    /\ since = [t \in Task |-> 0] /\ due = [t \in Task |-> 0]
    /\ run = Idle
    /\ registry = [t \in Task |-> "none"]
    /\ main = "out"
    /\ seen = {} /\ cur = {} /\ dispatched = {} /\ fresh = {} /\ joined = {}
    /\ closing = "open"

Goto(t, w, pc) == run' = [run EXCEPT ![t][w] = pc]

-----------------------------------------------------------------------------
(* The registry. *)

(* _TRANSITIONS *)
Allowed(s) ==
    CASE s = "queued" -> {"running", "cancelled"}
      [] s = "running" -> Terminal
      [] OTHER -> {}

(* (Here and below: faulty variants, named for the fault, stand before the  *)
(* definition they vary; nothing refers to them.)                           *)
Moved_unchecked(t, s) == [state EXCEPT ![t] = s]

(* The state of t after transition(t, s), which raises IllegalTransition    *)
(* and changes nothing when _TRANSITIONS has no such edge.                  *)
Moved(t, s) == [state EXCEPT ![t] = IF s \in Allowed(@) THEN s ELSE @]

(* An agent's intent inserts the row (create_or_return_existing). *)
Create(t) ==
    /\ t \notin Inline /\ state[t] = "absent"
    /\ state' = [state EXCEPT ![t] = "queued"]
    /\ UNCHANGED <<laneVars, since, due, run, registry, pumpVars, closing>>

(* Phase exits and prune_branch drop queued rows, from the reactor or the   *)
(* phase advance (cancel_queued_not_allowed, cancel_family).                *)
CancelQueued(t) ==
    /\ main = "out" /\ state[t] = "queued"
    /\ state' = Moved(t, "cancelled")
    /\ UNCHANGED <<laneVars, since, due, run, registry, pumpVars, closing>>

Overdue_strictly(t) == state[t] = "running" /\ Ttl[t] > 0 /\ now - since[t] > Ttl[t]

(* reclaim_expired_running: running rows as old as their own ttl fail. *)
Overdue(t) == state[t] = "running" /\ Ttl[t] > 0 /\ now - since[t] >= Ttl[t]
FailAll(tasks) == state' = [t \in Task |-> IF t \in tasks THEN "failed" ELSE state[t]]

(* reclaim_dead_running: the largest pid among the task's lease rows names  *)
(* its process; without a lease row nothing is known.                       *)
PidsOf(t) == {leases[<<l, t>>].pid : l \in {m \in Lane : leases[<<m, t>>] # NoRow}}
DeadHolder(t) ==
    /\ state[t] = "running"
    /\ \E p \in PidsOf(t) : p \notin alive /\ \A q \in PidsOf(t) : q =< p

-----------------------------------------------------------------------------
(* A runner coroutine: run_task_registered around SubAgentRunner.run_task. *)

(* run_action_now: the row is created, or found queued or already ended;    *)
(* a running one is only reported.  The agent's thread may submit this at   *)
(* any time: the session bound stops awaiting the turn, not the thread.     *)
InlineBegin(t) ==
    /\ t \in Inline /\ closing # "stop"
    /\ run[t]["inline"] = "none" /\ state[t] # "running"
    /\ state' = [state EXCEPT ![t] = IF @ = "absent" THEN "queued" ELSE @]
    /\ Goto(t, "inline", "spawned")
    /\ UNCHANGED <<laneVars, since, due, registry, pumpVars, closing>>

(* The coroutine's first step.  An inline runner registers its handle here, *)
(* the pump registered its own at the spawn.  The policy may deny the task: *)
(* then the row is cancelled unclaimed.                                     *)
Start(t, w) ==
    /\ run[t][w] = "spawned"
    /\ \E pc \in {"claiming", "cancelled"} : Goto(t, w, pc)
    /\ registry' = IF w = "inline" THEN [registry EXCEPT ![t] = w] ELSE registry
    /\ UNCHANGED <<laneVars, state, since, due, pumpVars, closing>>

Claim_unguarded(t, w) ==
    /\ run[t][w] = "claiming"
    /\ state' = [state EXCEPT ![t] = "running"]
    /\ since' = [since EXCEPT ![t] = now]
    /\ Goto(t, w, "claimed")
    /\ UNCHANGED <<laneVars, due, registry, pumpVars, closing>>

(* The transition queued -> running; its rejection is the double-spawn      *)
(* guard and leaves through the finally.                                    *)
Claim(t, w) ==
    /\ run[t][w] = "claiming"
    /\ state' = Moved(t, "running")
    /\ since' = IF state[t] = "queued" THEN [since EXCEPT ![t] = now] ELSE since
    /\ Goto(t, w, IF state[t] = "queued" THEN "claimed" ELSE "release")
    /\ UNCHANGED <<laneVars, due, registry, pumpVars, closing>>

(* After the read-back of the row: the executor starts; without one, or     *)
(* when the workspace cannot be made, the task fails.                       *)
Execute(t, w) ==
    /\ run[t][w] = "claimed"
    /\ \E pc \in {"body", "failed"} : Goto(t, w, pc)
    /\ UNCHANGED <<laneVars, state, since, due, registry, pumpVars, closing>>

Finish(t, w) ==
    /\ run[t][w] = "body"
    /\ \E pc \in {"succeeded", "failed"} : Goto(t, w, pc)
    /\ UNCHANGED <<laneVars, state, since, due, registry, pumpVars, closing>>

(* _write_terminal: a row that is already terminal stays as it is. *)
WriteTerminal(t, w) ==
    /\ run[t][w] \in Terminal
    /\ state' = Moved(t, run[t][w])
    /\ Goto(t, w, "release")
    /\ UNCHANGED <<laneVars, since, due, registry, pumpVars, closing>>

(* The two finally blocks: the Lease is released, the handle is popped by   *)
(* task id, whoever registered it.                                          *)
Release(t, w) ==
    /\ run[t][w] = "release"
    /\ IF w = "pump" /\ handle[t] # {} THEN L!ReleaseLease(t) ELSE UNCHANGED laneVars
    /\ Goto(t, w, "none")
    /\ registry' = [registry EXCEPT ![t] = "none"]
    /\ UNCHANGED <<state, since, due, pumpVars, closing>>

-----------------------------------------------------------------------------
(* Cancellation (cancel_inflight_actions): asyncio raises CancelledError at *)
(* the runner's current await.  A transaction it interrupts is rolled back  *)
(* or has just been committed.                                              *)
CancelReaches_joined_only(t, w) ==
    /\ registry[t] = w /\ t \in joined
    /\ closing = "stop" \/ main = "drain"

CancelReaches(t, w) ==
    /\ registry[t] = w
    /\ \/ closing = "stop"
       \/ closing = "spent" /\ t \notin Exempt
       \/ main = "drain" /\ t \in joined

(* Never started: no finally block runs, the Lease object is dropped. *)
CancelUnstarted(t, w) ==
    /\ run[t][w] = "spawned"
    /\ Goto(t, w, "none")
    /\ IF handle[t] # {} THEN L!LoseHandle(t) ELSE UNCHANGED laneVars
    /\ UNCHANGED <<state, since, due, registry>>

(* During the claim, on its BEGIN or on its COMMIT, or during the read-back *)
(* that follows: nothing writes a terminal state any more.                  *)
CancelClaim(t, w) ==
    /\ run[t][w] \in {"claiming", "claimed"}
    /\ \/ UNCHANGED <<state, since>>
       \/ /\ run[t][w] = "claiming" /\ state[t] = "queued"
          /\ state' = Moved(t, "running")
          /\ since' = [since EXCEPT ![t] = now]
    /\ Goto(t, w, "release")
    /\ UNCHANGED <<laneVars, due, registry>>

CancelBody(t, w) ==
    /\ run[t][w] = "body"
    /\ Goto(t, w, "cancelled")
    /\ UNCHANGED <<laneVars, state, since, due, registry>>

CancelWrite(t, w) ==
    /\ run[t][w] \in Terminal
    /\ state' \in {state, Moved(t, run[t][w])}
    /\ Goto(t, w, "release")
    /\ UNCHANGED <<laneVars, since, due, registry>>

CancelRelease(t, w) ==
    /\ run[t][w] = "release"
    /\ IF w = "pump" /\ handle[t] # {}
       THEN L!ReleaseLease(t) \/ L!LoseHandle(t) ELSE UNCHANGED laneVars
    /\ Goto(t, w, "none")
    /\ registry' = [registry EXCEPT ![t] = "none"]
    /\ UNCHANGED <<state, since, due>>

Cancel(t, w) ==
    /\ CancelReaches(t, w)
    /\ \/ CancelUnstarted(t, w)
       \/ CancelClaim(t, w)
       \/ CancelBody(t, w)
       \/ CancelWrite(t, w)
       \/ CancelRelease(t, w)
    /\ UNCHANGED <<pumpVars, closing>>

-----------------------------------------------------------------------------
(* The dispatcher's pump: _reclaim_stale_dispatch_state, then scans of the  *)
(* queue until everything it joined has ended.                              *)

(* Timing assumption: a coroutine spawned by an earlier pump has run its    *)
(* first steps, up to its claim, before a tick of agent turns has passed.   *)
PumpStart ==
    /\ main = "out" /\ closing # "stop"
    /\ \A t \in Task : run[t]["pump"] \notin {"spawned", "claiming"}
    /\ FailAll({t \in Task : DeadHolder(t)})
    /\ main' = "reap" /\ dispatched' = {}
    /\ UNCHANGED <<laneVars, since, due, run, registry, seen, cur, fresh, joined, closing>>

PumpReap ==
    /\ main = "reap"
    /\ L!ReapDeadHolders(now)
    /\ main' = "watchdog"
    /\ UNCHANGED <<state, since, due, run, registry, seen, cur, dispatched, fresh, joined, closing>>

PumpWatchdog ==
    /\ main = "watchdog"
    /\ FailAll({t \in Task : Overdue(t)})
    /\ main' = "scan"
    /\ UNCHANGED <<laneVars, since, due, run, registry, seen, cur, dispatched, fresh, joined, closing>>

(* The queue snapshot.  No scan after a shutdown request, nor, at times,    *)
(* when the phase has used up its own budget.                               *)
PumpScan ==
    /\ main = "scan"
    /\ \/ /\ closing # "stop" /\ main' = "spawn"
          /\ seen' = {t \in Task : state[t] = "queued"} \ dispatched
       \/ main' = "wait" /\ seen' = seen
    /\ UNCHANGED <<laneVars, state, since, due, run, registry, cur, dispatched, fresh, joined, closing>>

(* A row of the snapshot is passed over: no lane headroom, no GPU lease, an *)
(* unjoined kind still registered, or dropped as over budget, a transition  *)
(* that does nothing when the row has left the queue since.                 *)
PumpSkip(t) ==
    /\ main = "spawn" /\ t \in seen
    /\ seen' = seen \ {t}
    /\ \/ state' = state
       \/ closing = "spent" /\ t \notin Exempt /\ state' = Moved(t, "cancelled")
    /\ UNCHANGED <<laneVars, since, due, run, registry, main, cur, dispatched, fresh, joined, closing>>

(* _lanes_fit, a count of live holders in which the task's own rows count. *)
LanesFit(t) ==
    \A l \in L!Expand(Lanes[t]) : Cardinality(L!Live(l, now)) < capacity[l]

PumpAcquire(t) ==
    /\ main = "spawn" /\ t \in seen
    /\ t \in Unjoined => registry[t] = "none"
    /\ closing = "spent" => t \in Exempt
    /\ LanesFit(t)
    /\ IF Lanes[t] = {} THEN UNCHANGED <<laneVars, due>>
       ELSE /\ L!Acquire(t, Lanes[t], now, LaneTtl(t), TRUE)
            /\ due' = [due EXCEPT ![t] = now + LaneTtl(t)]
    /\ main' = "admit" /\ cur' = {t}
    /\ UNCHANGED <<state, since, run, registry, seen, dispatched, fresh, joined, closing>>

(* The GPU pool has no card, or serving started: the lanes go back. *)
PumpDecline(t) ==
    /\ t \in cur /\ handle[t] # {}
    /\ L!ReleaseLease(t)
    /\ main' = "spawn" /\ cur' = {} /\ seen' = seen \ cur
    /\ UNCHANGED <<state, since, due, run, registry, dispatched, fresh, joined, closing>>

PumpSpawn_unregistered(t) ==
    /\ t \in cur /\ run[t]["pump"] = "none"
    /\ Goto(t, "pump", "spawned")
    /\ dispatched' = dispatched \cup {t}
    /\ fresh' = IF t \in Unjoined THEN fresh ELSE fresh \cup {t}
    /\ main' = "spawn" /\ cur' = {} /\ seen' = seen \ cur
    /\ UNCHANGED <<laneVars, state, since, due, registry, joined, closing>>

PumpSpawn_not_excluded(t) ==
    /\ t \in cur /\ run[t]["pump"] = "none"
    /\ Goto(t, "pump", "spawned")
    /\ registry' = [registry EXCEPT ![t] = "pump"]
    /\ fresh' = IF t \in Unjoined THEN fresh ELSE fresh \cup {t}
    /\ main' = "spawn" /\ cur' = {} /\ seen' = seen \ cur
    /\ UNCHANGED <<laneVars, state, since, due, dispatched, joined, closing>>

PumpSpawn(t) ==
    /\ t \in cur /\ run[t]["pump"] = "none"
    /\ Goto(t, "pump", "spawned")
    /\ registry' = [registry EXCEPT ![t] = "pump"]
    /\ dispatched' = dispatched \cup {t}
    /\ fresh' = IF t \in Unjoined THEN fresh ELSE fresh \cup {t}
    /\ main' = "spawn" /\ cur' = {} /\ seen' = seen \ cur
    /\ UNCHANGED <<laneVars, state, since, due, joined, closing>>

PumpScanned ==
    /\ main = "spawn" /\ seen = {}
    /\ joined' = joined \cup fresh /\ fresh' = {}
    /\ main' = "wait"
    /\ UNCHANGED <<laneVars, state, since, due, run, registry, seen, cur, dispatched, closing>>

(* asyncio.wait: every ended runner is reaped, or the poll elapses; a pump  *)
(* with nothing left returns.                                               *)
Ended == {t \in joined : run[t]["pump"] = "none"}
PumpWait ==
    /\ main = "wait"
    /\ joined' = joined \ Ended
    /\ main' = IF joined = {} THEN "out" ELSE "scan"
    /\ UNCHANGED <<laneVars, state, since, due, run, registry, seen, cur, dispatched, fresh, closing>>

(* A statement of the scan raises (a database error): what the scan has     *)
(* spawned so far is forgotten, a Lease just won is dropped, and the finally *)
(* cancels and awaits what the pump had joined before.                      *)
PumpRaise ==
    /\ main \in {"scan", "spawn", "admit", "wait"}
    /\ IF \E t \in cur : handle[t] # {}
       THEN \E t \in cur : L!LoseHandle(t) ELSE UNCHANGED laneVars
    /\ main' = "drain" /\ seen' = {} /\ cur' = {} /\ fresh' = {}
    /\ UNCHANGED <<state, since, due, run, registry, dispatched, joined, closing>>

PumpDrained ==
    /\ main = "drain" /\ Ended = joined
    /\ main' = "out" /\ joined' = {}
    /\ UNCHANGED <<laneVars, state, since, due, run, registry, seen, cur, dispatched, fresh, closing>>

(* The maintenance tick, between pumps (run_lease_and_db_reclaim). *)
MaintenanceReap ==
    /\ main = "out"
    /\ L!ReapExpired(now)
    /\ UNCHANGED <<state, since, due, run, registry, pumpVars, closing>>

MaintenanceWatchdog_any_time ==
    /\ FailAll({t \in Task : Overdue(t)})
    /\ UNCHANGED <<laneVars, since, due, run, registry, pumpVars, closing>>

MaintenanceWatchdog ==
    /\ main = "out"
    /\ FailAll({t \in Task : Overdue(t)})
    /\ UNCHANGED <<laneVars, since, due, run, registry, pumpVars, closing>>

-----------------------------------------------------------------------------
RequestStop ==
    /\ closing # "stop" /\ closing' = "stop"
    /\ UNCHANGED <<laneVars, state, since, due, run, registry, pumpVars>>

SpendBudget ==
    /\ closing = "open" /\ closing' = "spent"
    /\ UNCHANGED <<laneVars, state, since, due, run, registry, pumpVars>>

(* The process ends, by a crash or after a stop, and a resume boots on the  *)
(* same database.  Its consistency pass fails the running rows a sentinel   *)
(* in the session's state file names (targeted build, warm replay).         *)
Reboot ==
    /\ L!Reboot
    /\ \E lost \in SUBSET {t \in Task : state[t] = "running"} : FailAll(lost)
    /\ run' = Idle /\ registry' = [t \in Task |-> "none"]
    /\ main' = "out"
    /\ seen' = {} /\ cur' = {} /\ dispatched' = {} /\ fresh' = {} /\ joined' = {}
    /\ closing' = "open"
    /\ UNCHANGED <<since, due>>

Tick ==
    /\ L!Tick
    /\ UNCHANGED <<state, since, due, run, registry, pumpVars, closing>>

Run(t, w) ==
    Start(t, w) \/ Claim(t, w) \/ Execute(t, w) \/ WriteTerminal(t, w) \/ Release(t, w)

Pump ==
    \/ PumpStart \/ PumpReap \/ PumpWatchdog \/ PumpScan \/ PumpScanned
    \/ PumpWait \/ PumpDrained
    \/ \E t \in Task : PumpSkip(t) \/ PumpAcquire(t) \/ PumpDecline(t) \/ PumpSpawn(t)

Next ==
    \/ \E t \in Task : Create(t) \/ CancelQueued(t) \/ InlineBegin(t)
    \/ \E t \in Task, w \in Runner : Run(t, w) \/ Finish(t, w) \/ Cancel(t, w)
    \/ Pump \/ PumpRaise
    \/ MaintenanceReap \/ MaintenanceWatchdog
    \/ RequestStop \/ SpendBudget \/ Reboot \/ Tick

Spec == Init /\ [][Next]_vars

(* Every coroutine is scheduled and every await of the main coroutine ends; *)
(* the loop comes back to its pump and its maintenance with a fresh clock;  *)
(* time passes.                                                             *)
Scheduled ==
    /\ WF_vars(Pump)
    /\ \A t \in Task, w \in Runner : WF_vars(Run(t, w))
    /\ WF_vars(Tick)

(* Executors are bounded by their own timeouts, except after a shutdown     *)
(* request: then none need return by itself, and the shutdown cancels what  *)
(* the registry can reach.                                                  *)
FairSpec ==
    /\ Spec /\ Scheduled
    /\ \A t \in Task, w \in Runner :
          /\ WF_vars(closing # "stop" /\ Finish(t, w))
          /\ WF_vars(closing = "stop" /\ Cancel(t, w))

-----------------------------------------------------------------------------
Owns(t, w) == run[t][w] \in {"claimed", "body"}
Running(t, w) == run[t][w] = "body"

(* The claim admits one runner per row: an inline action and the pump that  *)
(* found the same queued row never both execute it.                         *)
OneBody == \A t \in Task : Cardinality({w \in Runner : Owns(t, w)}) =< 1

(* An outcome, once recorded, stands: neither the runner that finishes late *)
(* nor the watchdogs, nor a cancellation, rewrite a terminal row.           *)
OutcomeStands ==
    [][\A t \in Task : state[t] \in Terminal => state'[t] = state[t]]_vars

(* While the pump waits for a runner, its row reads running: the reclaims   *)
(* of pump start and of maintenance never fail a task under a runner that   *)
(* is joined, however long it has outlived its ttl.                         *)
JoinedRowsRun ==
    \A t \in (joined \cup fresh) \ Inline :
        Owns(t, "pump") => state[t] = "running"

(* A Lease that has not run out is backed by live rows on every lane of the *)
(* task's conflict sets, for as long as the runner holds it.                *)
LeaseBacksRun ==
    \A t \in Task :
        (run[t]["pump"] \notin {"none", "release"} /\ Lanes[t] # {} /\ now < due[t])
            => \A l \in L!Expand(Lanes[t]) : t \in L!Live(l, now)

(* Two executors whose leases have not run out never share a serial lane,   *)
(* nor run on two lanes that conflict.                                      *)
Clash(l, m) == (l = m /\ Bound[l] = 1) \/ m \in Conflicts[l]
SerialWithinLease ==
    \A t, u \in Task :
        (t # u /\ Running(t, "pump") /\ Running(u, "pump")
               /\ now < due[t] /\ now < due[u])
            => \A l \in Lanes[t], m \in Lanes[u] : ~Clash(l, m)

(* A shutdown reaches every executor the pump started, the ones a raising   *)
(* pump forgot and the unjoined ones included.                              *)
PumpRunsReachable ==
    \A t \in Task \ Inline : Running(t, "pump") => registry[t] = "pump"

(* A row with a ttl does not read running for ever, whatever was cancelled, *)
(* crashed or forgotten, as long as the session goes on.  (A row claimed so *)
(* late that the bounded clock stops before its ttl has passed says         *)
(* nothing.)                                                                *)
RunningRowsEnd ==
    \A t \in Task :
        (state[t] = "running" /\ Ttl[t] > 0 /\ since[t] + Ttl[t] =< MaxTime)
            ~> (state[t] # "running" \/ closing = "stop")

(* After a shutdown request the executors end although none returns by      *)
(* itself: cancellation reaches each of them and lets it unwind.            *)
StopQuiets ==
    \A t \in Task \ Inline :
        (closing = "stop" /\ run[t]["pump"] # "none")
            ~> (run[t]["pump"] = "none" \/ closing # "stop")

-----------------------------------------------------------------------------
(* The docstring of run_task: "a row reads running only while a live        *)
(* coroutine owns it".  A cancel on the commit of the claim refutes it.     *)
RunningRowsAreOwned ==
    \A t \in Task : state[t] = "running" =>
        \E w \in Runner : run[t][w] \notin {"none", "release"}

(* The docstring of run_task_registered: the registered handle lets a       *)
(* shutdown reach the work.  A second runner of the same row takes the      *)
(* handle away when it leaves.                                              *)
RunsAreRegistered ==
    \A t \in Task, w \in Runner : Running(t, w) => registry[t] = w
=============================================================================
