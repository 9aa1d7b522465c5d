# A formal model of the Hyperloom orchestrator and of the KernelForge loop

This directory holds TLA+ modules that model the coordinator of Hyperloom
(`src/src/hyperloom/orchestrator/`), the GPU specialists it runs and the campaign loop of
KernelForge (`src/src/kernelforge/loop/`), TLC configurations that check them on small
instances, and theorems about them that TLAPS proves for every value of the constants. Paths
below are relative to `src/src/hyperloom/orchestrator/` unless they begin with `kernelforge/`
or `inference_optimizer/`.

## 1. The system

Hyperloom optimizes the serving of a model. One *coordinator* process runs a session of hours:
LLM agents (Orchestration, Critic, Robustness, ...) propose work, policy and the Critic admit
it, a dispatcher runs it as tasks on shared hardware, some of it as *specialist* subprocesses on
leased GPUs, and a phase machine decides when the session moves from PRELUDE to CLOSE. Everything
that must survive a crash is in one SQLite database or in `state.json`; the rest is memory. A
kernel campaign is another process: a loop of agent sessions that edits a git repository and
keeps the candidates that measure better.

| Component | State | Operations | Interacts with | What makes it correct |
|---|---|---|---|---|
| Resource lock `bus/resource_lock.py` | table `leases`, `lane_capacity`; Lease objects | acquire a set of lanes and their conflicts, heartbeat, release, two reaps | dispatcher, runner, maintenance, extend_lease | capacity, mutual exclusion of conflicting lanes, nobody loses a lane to another, no lane blocked for ever |
| Storage `bus/storage/` | SQLite connection, its async lock | `transaction()` with cancellation-proof rollback | everything | a transaction is atomic whatever is cancelled |
| Task registry `state/task_registry.py` | table `tasks` | create by key, transition, reclaims, bulk cancels, extend | everyone | outcomes stand, duplicates collapse, orphan rows end |
| Runner `loop/sub_agent_runner.py` | a coroutine per task | policy, claim, execute, write outcome, release | registry, lock, executors | one body per row, row and coroutine agree |
| Dispatcher `loop/dispatcher.py` | `_inflight_actions`, the pump's local lists | reclaim, scan, spawn, join, cancel, run inline | all of the above, GPU pool | conflicting work never overlaps, a stop reaches everything |
| Maintenance `loop/maintenance.py`, `bus/db_maintenance.py` | - | reap, watchdog, prune | lock, registry, log | deletes nothing a resume needs |
| Event log and cursors `bus/message_bus.py`, `bus/cursor_store.py` | tables `events`, `cursors` | append, tail, replay, advance | agents' turns, resume | every message is shown |
| Proposal gate `loop/intent_router.py`, `loop/proposals.py` | `pending_proposals` | propose, judge, promote | log, registry, Critic | nothing runs unreviewed, nothing approved is lost, twins collapse |
| Resume `loop/writeback.py`, `inference_optimizer/cli/bootstrap.py` | rebuilt memory | replay, consistency pass, re-anchoring of a leg | log, registry, state file | memory after a crash agrees with the disk |
| GPU pool `bus/gpu_pool.py` | table `gpu_leases`, GpuLease objects | acquire cards, allocate ray slots, release, extend, reap | dispatcher, extend_lease, maintenance | cards are exclusive, none hoarded, none lost |
| Specialist processes `specialists/subprocess_.py`, `loop/intent_router.py` | wall budgets and their extensions, the subprocess | delegate, launch, poll, kill at the cap, extend_lease | lane lease, GPU lease, task row | kill =< GPU lease =< lane lease |
| Phase machine `phases/machine*.py` | `phase`, `macro_cycle`, hint, stop reason | advance, re-loop, entry hooks, record | registry (drops queued rows), coordinator loop | moves forward, counts a cycle once, reaches CLOSE |
| Closing `phases/close.py` | `closing_phase`, the report's id, `close_sequence_done` | ordered close steps, wall-clock close | registry, runner, coordinator loop | the run ends, its report is not lost on the way |
| KernelForge loop `kernelforge/loop/` | git HEAD and tree, `pending_keep.json`, `run_state.json`, `events.jsonl`, manifest, archive | iterate, KEEP, plan a recovery, carry it out | agent sessions | a verified gain survives any crash, counted once |
| Builds and enablement `loop/build_lifecycle.py`, `enablement/` | sentinel in `state.json`, stall counter | off-loop build, rounds | dispatcher, resume | one build at a time, rounds end |
| Policy gate, shared state, knowledge, scoring, trace, agents | configuration, files, prompts | validation, prompts, I/O | - | out of scope (section 8) |

What is hard here: a pump, runner coroutines, inline actions on agents' threads, and a
maintenance tick interleave at every `await`; cancellation may land on any of them, a commit
included; clocks are read before a transaction and used inside it; leases time out while their
holder is alive; three clocks set at three moments have to keep an order; the process may die
between any two writes and a successor, possibly with the same pid, resumes, sometimes with a new
session clock; a write may fail and the program go on; retention deletes rows a resume or a
duplicate check would want.

## 2. Modules

    LaneMutex        a counting lock per lane: what the lock promises
      ^ implemented by (TLC, and proved)
    LaneLeases       the lease table as bus/resource_lock.py keeps it
      ^ instantiated by, and implemented by (proved)
    TaskRuns         registry + runner + dispatcher + maintenance over those lanes

    GpuPool          the ledger of cards and ray slots, its callers left open
      ^ instantiated by, and implemented by (proved)
    SpecialistRuns   delegation, admission, subprocess, extension and resume over that ledger

    ProposalReview   the Critic gate over the event log, retention and the resume
    SessionPhases    the run loop, the phase machine and the closing sequence
    KeepRecovery     the durable side of a kernel campaign and its recovery

`MC*.tla` give the constants their values for TLC; `*_proofs.tla` hold the theorems. A
definition whose name extends another's by a fault (`Blocked_off_by_one`) is a broken variant of
it, kept beside it to show that the properties notice the fault; nothing refers to it.

### LaneLeases

`leases` is the table, keyed by (lane, holder); a row is its expiry and the pid that wrote it.
`handle` is the Lease object a task's coroutine holds (in memory), `capacity` the table
`lane_capacity`, `now` the clock, `alive` the pids in use on the machine. An operation is one
action because its transaction is atomic; what is not atomic is modelled: its clock was read up
to `MaxDelay` ticks earlier (`Clock`), and its caller may never get the answer of a transaction
that committed (`answered`, `LoseHandle`). `Acquire` is `acquire_many` in full: expansion by
conflict sets, deletion of expired rows on those lanes, the blocked test, the writes; when a lane
is busy or full the exception rolls the deletions back too, so nothing changes. `Reboot` keeps
the rows, drops the Lease objects, and may install another `research_lane` capacity and reuse a
pid. The caller is the most general one: any task may call at any time, so the properties do not
lean on the dispatcher's discipline. The assumption `ConflictsAreCliques` is what
`LANE_CONFLICTS` satisfies and its comment asks for only half of: symmetry is not enough, because
`_expand_lanes` goes one level deep.

The lane events, hold-time counters and reports (`lane_holders`) change no state the properties
see.

### TaskRuns

`state` and `since` are the row (`since` is `updated_at`, which only transitions move). A runner
coroutine of task t stands at `run[t][w]`, w being who called `run_task_registered`: the pump or
an inline action. Its steps are the stretches between awaits: first step and policy (`Start`),
the claim (`Claim`), the executor (`Execute`, `Finish`), `WriteTerminal`, the two finally blocks
(`Release`). `registry` is `_inflight_actions`. The main coroutine (`main`) is outside the pump,
or in one of the pump's steps; `seen`, `cur`, `dispatched`, `fresh`, `joined` are the pump's local
variables: snapshot still to consider, the row being admitted, `dispatched_ids`, `spawned`,
`inflight`. `closing` records a spent session budget or a stop request. `Cancel` is asyncio's
cancellation at whatever await the runner is at: a transaction it hits is rolled back or has
already committed, and both are taken. `PumpRaise` is any exception of the scan or of the
bookkeeping. Lanes are used through the actions of `LaneLeases`, with an up-to-date clock
(`MaxDelay` 0): stale clocks are that module's subject. `Reboot` also fails the running rows a
sentinel in `state.json` names.

Open choices: what the policy says, whether the executor succeeds, whether a scan is skipped
because the phase spent its budget, whether a row is passed over (no GPU, serving busy).
One timing assumption is named at `PumpStart`: a coroutine reaches its claim before the next
pump, which a tick of LLM turns later, would reclaim state.

### ProposalReview

`log`, `tasks`, `cursor` are on disk, `pending` and the handler (`at`, `about`, `approves`,
`attempt`) in memory. A handler takes one action per await: `Propose` (log row) then `Register`
(entry); `Judge` (entry decided), `Record` (verdict row), `Skip` or `Create` (rounds over the
idempotency keys), `Announce` (decision row). Between them task rows move (`TaskMoves`), the
handler may be given up (`GiveUp`: an exception, or the session bound cancelling the turn, memory
stays as it is), or the process may die (`Crash`, then `Replay`). `BeginTurn`/`EndTurn` are a turn
of the Critic: what its prompt shows and when its cursor advances. Retention may delete any
prefix the pruner's window allows (`PruneEvents`) and all but `KeepDone` of the done rows
(`PruneTasks`). History variables (`fate`, `stranded`, `forgotten`) record what durably happened;
no guard reads them except that a proposal is new once.

Abstractions: a verdict either lets dispatch proceed (approve, advise) or does not; other topics
of the log are not rows, but because they count in the pruner's window, the window may hold any
number of the modelled ones; the read limits (10 000 rows of a topic at a resume, 5 000 of an
inbox) are not reached; which done rows are the most recent is left open; `Announce` may be
skipped when the bounded log is full; the pre-screen of upstream-PR candidates, which has its own
promotion, and the mirror of verdicts into the shared state are left out. A proposal's content is
fixed, while the code derives it when it promotes (the current best configuration enters it):
twins in the model are proposals that would launch identical work at that time.

### GpuPool and SpecialistRuns

`GpuPool` is the table `gpu_leases` (`owner`, `left`: what is left until `expires_at`), the
GpuLease a task's coroutine releases (`lease`) and the copy the pump releases when it reaps the
task (`copy`). Both pools of the dispatcher write the same table; slots are the synthetic ids of
Ray admissions. Its actions are the methods of the pool; `Crash` forgets leases and copies and
keeps the rows.

`SpecialistRuns` is who calls them. `Delegate` sizes the row (`LeaseTtl` from this moment's wall
budget), `Admit` is the pump's scan: lane lease for the stored ttl, cards for a ttl computed now,
a coroutine carrying the wall budget of now. `Claim`, `Launch`, `Start`, `End`, `Release` are the
stretches of the coroutine between awaits; `ExtendRow`, `ExtendLanes`, `ExtendCards`, `Grant` the
four awaits of `extend_lease`, which a session bound may cut after any (`ExtendInterrupted`). The
clocks are `due` (row), `lane`, `kill` (process) and `left` of the ids, all kept as time left, so
that time needs no bound. `Resume` forgets coroutines, keeps rows and local processes, and either
keeps the session's deadline or takes one of `FreshSession`. Details of the code the model keeps:
an extension granted between claim and launch is dropped for the process
(`specialists/subprocess_.py:890`); a cancelled coroutine leaves its local process alive
(1099-1117, `StrayExit` ends it); a failing `gpu_pool.extend` is reported and survived
(`degraded`).

Abstractions: the lane table is that of LaneLeases, here only the time left to a lease counts.
`Grace` is one number, where the code adds a tenth of the wall budget, truncated
(`loop/dispatcher.py:1074`, `bus/gpu_pool.py:54`), which shrinks when the session clamps the budget:
it stands for the least the code adds to a budget that is admitted, that of the smaller of `Base`
and `Cost`. Every ttl of a row that is still admitted is then at least the model's in the code, and
more ttl only helps `IronLaw`. A start under Ray may wait up to `StartDelay` for its actor, which
the code bounds by its pending timeout (`specialists/subprocess_.py:758`), a setting that knows
nothing of the grace; a crash under Ray ends the actors; growth of the budget with `macro_cycle` is
left out, because SWEEP cancels queued specialists before a cycle is added; reclaim of a row acts
only when no coroutine runs it.

### SessionPhases

`s` is SharedState in memory, `d` the last one saved to `state.json`, `rows` the report rows of the
tasks table by idempotency key. The loop's one asyncio task stands at `pc`; a tick is a look at the
phase machine, possibly a second one for a fresh hint, the work, a third look, and the closing
check. `NextPhases` is `compute_next_phase` in its order of exits. A transition is two actions as
it is in the code: `LookMoves` changes hint, stop reason and cycle in memory, `Record` cancels the
queue, moves the phase and saves; the session bound (`Interrupted`) and a failing step
(`RecordRaises`, whose record of the exception saves what memory holds) fall between them. `SeqStart`,
`SeqForgets`, `SeqReport`, `SeqRuns`, `SeqReported`, `SeqGivesUp`, `SeqDone` are the CLOSE sequencer: a
recorded report whose row is dead or cannot be read is dropped, the row is found or inserted, and a
queued one is claimed in a step of its own; `EnterClosing` and `OpenReport` the wall-clock close, `Closed`,
`StopRecorded`, `Stopped` the ways the loop ends. `Writeback` is any task's save of the shared
state at an await of the loop. `Resume` is a new leg: re-anchored when a stop was recorded, put
back to PRELUDE when it had reached CLOSE, its report rows reconciled.

Abstractions: a phase may be through with its work at any look; budgets, plateaus, the no-gain
streak are that choice; a signal, an emergency, the tick limit, a custom objective, or a deadline
without grace are one `Stopped`; `skip_to_kernel` and `skip_to_sweep` are one hint "move", told
apart by no rule modelled; draining, breakdown, flush and packaging are the await of `rest`; report
rows are the only rows; re-anchoring after repeated crashes is left out.

### KeepRecovery

A commit is named by the iterations whose candidates lead to it. `head`, `tree`, `stray`, `shipped`
are git: HEAD, tracked changes, an untracked allowlisted file, commits that carry one. `journal`,
`st`, `log`, `manifest`, `archive` are `pending_keep.json`, `run_state.json`, `events.jsonl`,
`best/manifest.json` and the archive; `mem` is the RunState in memory. Every write is one action and
either works or fails as its caller lets it (`Works`, `Fails`): most failures are logged and the
loop goes on, a failed journal or commit backs the candidate out, a checkpoint that cannot be read
back ends the run. An iteration announces its number by two appends, with a save between them
(`Begin`, `SavePolicy`, `Announce`), each of which may be lost without notice; `begun` is the
highest number the log has of either, `given` (history) the highest an agent was started with. A
commit may fail before git made it or after, when the new HEAD cannot be read back: the back-out
then drops the journal of a commit that stands, which `astray` (history) records. `Resume` is
`_plan_resume_recovery` with `_inspect_pending_keep`: nothing is written until the plan is known to
be sound; the actions after it carry the plan out with the same exposure. SIGTERM is held back
across a KEEP (`_defer_termination_signals`), so `Crash` is a kill or a power loss.

Abstractions: measurement and the verdict are a free choice; the agent edits a tracked file or
makes one new file. Not in the model: the path without an agent, completed campaigns, torn last
lines of the event log, warm starts, a failing `unlink` or `git clean`, the workspace lock, the
orchestration circuit breaker.

## 3. Runs

| Run | Question | Instance |
|---|---|---|
| `LaneLeases` | capacity, whole conflict sets, no theft, implementation of the lock, orphaned rows go | 2 tasks, 2 conflicting lanes and a pooled lane of capacity 0..2 rewritten by a reboot, ttl 1-2, clock 0..3, readings 1 tick old, 2 pids, one reboot |
| `TaskRuns_lanes` | rows, runs and leases of conflicting tasks agree | 2 tasks on conflicting lanes, one with no ttl (default lease 2), clock 0..2, one reboot |
| `TaskRuns_mixed` | one body per row, outcomes stand, reach of a stop | an unjoined build and an inline action, clock 0..1 |
| `TaskRuns_live` | running rows with a ttl end; a stop quiets the pump's runners | an unjoined build, clock 0..3, one reboot |
| `ProposalReview_safety` | replay, reviewed dispatch, twins, the Critic's view | 2 proposals of one content, 2 keys, 5 log rows, 1 restart |
| `SpecialistRuns_law` | kill =< cards and lane, no hoarding, no theft, cards come back | 2 specialists over 2 cards and 1 ray slot, one lane place, wall budgets 2 and 1, grace 2, start delay 1, one extension each, one resume that keeps the deadline |
| `KeepRecovery` | a KEEP survives, is counted once, and the resume always finds its way | 4 iterations, 3 crashes, one failing write, new files allowed |
| `SessionPhases` | the run ends, in the right way, with its report; cycles are earned | 3 macro-cycles, 2 legs, one failing step |
| `TaskRuns_owned`, `TaskRuns_registered`, `ProposalReview_lost`, `SpecialistRuns_reanchored` | sentences of the code's own comments that do not hold (section 6) | smallest instance that shows it |

Why the bounds are enough. Exclusion and theft concern two tasks and the lane between them; in
`LaneLeases` the pooled lane goes from two places to fewer under its two holders. A clock of 3 with
ttl 2 and readings one tick old lets a lease be live, expired, revived and replaced; a second pid
and one reboot give a dead holder, a reused pid and a lowered capacity. In TaskRuns a conflict needs
two tasks, double execution two runners of one row; a clock of `ttl + 2` lets the watchdog meet a
row on both sides of its deadline. Two proposals of one content and two keys are the least that make
a proposal meet its twin, retry past a terminal one and run out of keys; five log rows hold both
proposals, their verdicts and a second verdict or decision. Two cards and requests of one or two of
them let the two pools overlap and a re-admission ask for fewer cards than were left behind; time is
not bounded there. In KeepRecovery four iterations let a KEEP follow rejected and kept ones and be
followed by one; three crashes let a recovery itself be killed, and the next one. One failing write
is the bound that hides something: with two lost saves in a row and a crash the event log runs two
ahead with a gap, and the resume refuses, and with both events that name an iteration lost and a
crash its number is given again (TLC finds both with `MaxFaults = 2`). In SessionPhases three cycles
are one more than the first re-loop, two legs let a leg inherit a closing phase or a finished one.

`CHECK_DEADLOCK FALSE` stands where the system may stop: a campaign at its iteration bound, a
session whose last leg ended, specialists that have all ended. No run replaces a definition.

## 4. Properties

LaneLeases. `WithinBound`: rows of a lane, expired ones included, never exceed its largest
capacity (expired rows count because `heartbeat_by_task` revives them). `ConflictSetWhole`: rows of
a task on lanes that exclude each other are always equal, so a task is never left holding half of
a conflict set. `NoTheft`: a row disappears only when expired, released by its own task, or
written by a process that is gone. `GrantWithinCapacity`: a lane gains a holder only within the
capacity in force counted by the true clock, although the caller's is stale. `ImplementsMutex`:
refinement of `LaneMutex` with `holding` the live holders. `OrphanRowsGo`: a row without a Lease
object goes away or its task acquires again.

TaskRuns. `OneBody`, `OutcomeStands`, `JoinedRowsRun` (the reclaims never fail a row under a runner
the pump is waiting for), `LeaseBacksRun`, `SerialWithinLease` (two executors with unexpired
leases never clash), `PumpRunsReachable`, `RunningRowsEnd`, `StopQuiets`. `SerialWithinLease` is
stated within the lease on purpose: nothing in the code renews the lane lease of a running action,
and an executor that outlives it runs on while the lane is granted to another.

ProposalReview. `ReplayIsExact`: for every pruned log, the undecided proposals a resume reads are
exactly those never judged. `DispatchIsReviewed`: no task row without a durable approving verdict.
`CriticSeesUndecided`: every turn shows every undecided proposal whose handler was not given up
since the boot. `OneLiveTwin`: one live task per content, as long as retention deleted none of its
keys.

SpecialistRuns. `IronLaw`: a watched process never outlives its lane lease, nor the rows of the
cards it computes on, unless the extension was reported as partial. `NoHoard`: through crashes and
re-admissions a task's rows among the cards are those of its lease. `KeepsItsCards`: no operation
takes a card from a lease with time left. `CardsComeBack`: rows without a lease object go.

KeepRecovery. `SettledAtTop`: whenever a session may start, HEAD is the durable best (unless a KEEP
was given up over its own commit), the tree clean and no journal left. `CountedOnce`,
`LogTellsTheTruth`, `PublishedIsDurable` relate state, log, repository and manifest at every
instant. `AlwaysRecoverable`: whatever was killed or lost, the recovery window makes sense to the
resume, a KEEP with a new file, the agent's own edits and a KEEP given up over its own commit apart.
`FreshNumbers`: no agent is started under a number an earlier one had. `KeepSurvives`: a committed
KEEP reaches the durable state.

SessionPhases. `EndedRight`: a run the phase machine ended before its deadline ended in CLOSE with
the sequence behind it. `CycleIsEarned`: one macro-cycle per visit to SWEEP, but for one per failed
step or crash. `DoneIsThisLegs`: `close_sequence_done` is never an earlier leg's. `ClosingReportLives`:
no step cancels the queued report of the closing phase. `RunEnds`: every leg comes to its end,
the blind closing phase of section 6 apart.

## 5. Fairness

`LaneLeases`: the maintenance tick reaps again and again, each time with a fresh clock, and time
passes; nothing is assumed of tasks. `TaskRuns` (`Scheduled`): asyncio runs every ready coroutine,
the main coroutine keeps coming back to its pump, time passes. `FairSpec` adds that executors
return, which their own timeouts bound, as long as no stop was requested; after one nothing is
assumed of them, but the stop's cancellation is delivered, as `cancel_inflight_actions` does before
it awaits. `SpecialistRuns`: coroutines are scheduled (the process ends by itself or at its cap),
time passes, maintenance and the pump's reclaims come round. `SessionPhases`: the loop's task runs
on (its waits are timers or are cut by the bound), the deadlines pass, a report the pump started
ends, by the watchdog at the latest; nobody need resume a stopped session. `KeepRecovery`: the loop
runs on, whoever runs the campaign resumes it, and cleans a tree no journal knows. Creating work,
cancelling at other times, crashing, raising and requesting a stop are never assumed.
`ProposalReview` has safety properties only: whether an LLM ever answers is not the code's to
guarantee.

## 6. Where the code and its comments disagree

Shown by a run:

* `run_task` says a row reads `running` only while a live coroutine owns it
  (`loop/sub_agent_runner.py:227`). A cancellation delivered while the claim's commit is awaited
  leaves the row running and nobody to end it (`TaskRuns_owned`). With a ttl the watchdog ends it
  (`RunningRowsEnd`); without one nothing does.
* `run_task_registered` says the registered handle lets a shutdown reach the work
  (`loop/dispatcher.py:869`). `run_action_now` queues a row before it runs it; a pump in between
  spawns a second runner, and the one whose claim is refused pops the other's handle
  (`TaskRuns_registered`). The double execution itself is prevented (`OneBody`).
* `loop/proposals.py:573` calls the decision row the resume contract of `replay_for_resume`, which
  reads only proposals and verdicts: a crash after the verdict row and before the task row loses an
  approved proposal (`ProposalReview_lost`).
* `_gpu_lease_ttl_sec` states the iron law kill =< GPU lease =< lane lease and that both ttls come
  from one budget (`loop/dispatcher.py:1059`). The lane's ttl is stored at the delegation, the budget
  computed again at the admission; a resume that re-anchors the session clock
  (`inference_optimizer/cli/bootstrap.py:609`) in between gives the process more time than its lane
  (`SpecialistRuns_reanchored`). Without a re-anchoring, and as long as a start takes less than the
  grace (`StartDelay < Grace`), the law holds (proved). The second condition is the deployment's to
  keep: a start under Ray is bounded by `INFERENCE_OPTIMIZER_RAY_SPECIALIST_SCHED_TIMEOUT_SEC`, 300 s
  by default (`specialists/subprocess_.py:758-769`), the grace of a 60 min budget is 360 s; a larger
  setting, or a budget the session has clamped to 50 min or less, can break it.

Met while modelling; the models contain the behaviour and the properties are stated around it:

* The journal of a KEEP holds the tracked diff taken before staging, the commit also the new files
  the allowlist admits: a crash after staging or commit leaves a window the resume refuses ("pending
  KEEP committed patch mismatch", `kernelforge/loop/runner.py:1162`), although the docstring at 1027
  promises its recovery. `Misfit` names it.
* A `rev-parse` that raises after `git commit` worked (1516) takes the path of a failed commit: the
  candidate is reported as reverted, the journal dropped, and HEAD stays at its commit, which no state
  knows. "The loop keeps HEAD at the last validated best state" (1527) holds no longer: the next
  candidate is measured against the abandoned one, and a resume without a journal refuses HEAD.
  `astray` marks it; the properties exempt what comes after.
* The journal is removed (6853) before manifest and archive are written: a crash or a failing
  archive leaves the KEEP out of the archive for ever, where the comment at 5875 says it is completed
  on resume.
* An allowlisted file that was untracked before the loop is staged by a KEEP; if its commit fails,
  the discard's `restore --staged --worktree` deletes it, which `_git_discard_all_tracked_changes`
  (1545-1549) means to leave alone.
* The report row's key is the same in every leg, so a resumed leg finds the earlier leg's report and
  a third one may get a dead row, where `phases/close.py:508` says a retry mints a fresh one.
* A CLOSE sequencer entered before the deadline is cut by the run deadline, because the bound asks
  for `closing_phase` and not for phase CLOSE; its last step, which `close.py:221` says always runs,
  then does not (`EndedRight` is stated for runs that were not late).
* `macro_cycle` is raised in memory before the transition is recorded (`phases/machine.py:319`); a
  failing step or a crash after another task's save counts a cycle twice (`CycleIsEarned` allows for
  each).
* A crash between the save of `closing_phase` and that of the report's id, and then a report step
  that raises, leave a resumed loop with neither report nor deadline (`Blind`;
  `loop/coordinator.py:1834`, `close.py:853` against 893).
* A writeback that sets a stop reason after the last look of a tick ends the run without CLOSE
  (`loop/coordinator.py:1817`); `EndedRight` speaks of the phase machine's own reasons.

## 7. Proofs

All from the named assumptions of the modules only.

`LaneLeases_proofs`: type correctness, `WithinBound`, `ConflictSetWhole` and `NoTheft` (finitely many
tasks, conflict sets that are cliques, capacities within `Bound`). `WithinBound` needs the counting
argument that a grant happens only when the live rows of the lane are fewer than its capacity and
the expired ones are deleted in the same transaction. `ConflictSetWhole` is proved together with
the wholeness of handles: release deletes the rows of the Lease's lanes, so rows stay whole only
if handles are. `NoTheft` is a case analysis over the actions, with the staleness of the clock: a
reading is never ahead of `now`, so what it finds expired is expired. For the same reason
`GrantWithinCapacity` holds of the true clock: a stale reading counts too many live rows, never too
few. The refinement `ImplementsMutex` maps each lane to the tasks with a live row on it. Each
operation gains, for one task, the lanes on which its row becomes live and loses permissions only
(`Gains`). What is gained is closed under conflict because requests are expanded and rows and
handles are whole (a heartbeat may revive rows, on a whole conflict set), and within the bound
because the next state is.

`TaskRuns_proofs`: `OneBody`, `OutcomeStands`, `JoinedRowsRun` and `PumpRunsReachable`, whatever the
lane table does. A runner owns its row from the claim on, and the registry has no edge back to the
queue, so a second claim finds no queued row whatever a watchdog made of it since (`Claimed`). Rows
already dispatched are excluded from the snapshot, so a scan never cancels one (`Scanning`), and the
watchdogs run only where nothing is joined. A row no agent runs inline has one runner, whose handle
is registered in the step that spawns it (`PumpOnly`).

The rest is about the lane table. `LanesUsedAsSpecified`: TaskRuns implements LaneLeases, every step
that touches the table being an operation of the lock with arguments the lock allows. So
LaneLeases' theorems hold of it: its types, its bound and its whole conflict sets are not proved
again (`LanesLaw`). `LeaseBacksRun` and `SerialWithinLease` follow from `LaneInv`: a task holds a Lease
exactly while it is being admitted or has a pump runner (`Held`, `Admitting`), and until a Lease runs
out its rows are there as this process wrote them (`Backed`), since the reaps take only what has
expired or what a dead process wrote, and a successor holds no Lease. Two live Leases on one
serial lane would then be two live rows, above the bound. Two assumptions on the constants serve
this, both evaluated in the runs: `LaneConstants` is what LaneLeases assumes of them;
`ConflictingLanesSerial` says that a lane that conflicts with another has capacity one at most
(`DEFAULT_LANE_CAPACITIES` in `bus/resource_lock.py`; the boot changes `research_lane` only, which
conflicts with none). Without it two holders of one lane of capacity two would each hold the
lanes it conflicts with.

`ProposalReview_proofs`: type correctness, `ReplayIsExact`, `DispatchIsReviewed` and
`CriticSeesUndecided`. None is inductive alone. The invariant `IInv` adds: sequence numbers do not
exceed `last` (a new row is above every cursor and every pruned prefix); a proposal never logged has
no rows; a proposal still awaiting its verdict has its row and no verdict row; a judged one that
still has a row has its verdict row at a higher sequence number, so that a pruned prefix never
takes the verdict and leaves the proposal; the handler's subject is in the stage its position
says; an undecided proposal whose handler was not given up has an open entry in memory. Retention
is the step that needs the order of rows. `OneLiveTwin` has an invariant of its own (`Collapsed`):
the keys of one content are taken in their order and each only past rows that have ended, so all
of them but the last in use have ended; between two looks of the loop that searches a free key,
the ones it has passed stay ended.

`GpuPool_proofs`: types, `NoHoard` and `KeepsItsCards` of the ledger under its most general caller.
`NoHoard` is the reason a re-admission first deletes what an earlier admission left (`Purged`).

`SpecialistRuns_proofs`: types, and that every step of SpecialistRuns is an operation of the ledger
or leaves it alone (`PoolImplemented`), with arguments GpuPool allows: an admission asks with a
positive ttl, which needs the invariant that a queued row's ttl is positive, and only for a task
that holds no lease. The ledger's theorems carry over.

`SpecialistLaw_proofs`: `IronLaw` for any tasks, budgets, cards and extensions, assuming the session
keeps its deadline and a start takes less than the grace (`OneDeadline`, the conditions of section 6);
the run `SpecialistRuns_reanchored` shows the first half is needed. The inductive invariant `LawInv` says,
for a coroutine not yet started and for a process, that row, lane and cards each last longer than
what the process has left, counting the time an extension under way will still give it: the
handler extends row, lane, cards and process in this order, so at every await the later ones lag
and never lead; a grant computed from the row's remainder is enough because the row itself
outlasts the process.

`SessionPhases_proofs`: types, `EndedRight`, `DoneIsThisLegs`, `ClosingReportLives`, `CycleIsEarned`,
for any number of cycles, legs and faults. The invariant adds that the run stands in a known
order: in the sequencer only when the phase is CLOSE, a closing phase only when late, and a stop
reason of the machine only on the way into CLOSE (`OnItsWay`). `CycleIsEarned` needs one invariant
more (`Spare`): in SWEEP, no transition under way, a cycle is still to spare, since before the
deadline no bound cuts a transition: a counted one that was lost was lost to an error or a crash.

`KeepRecovery_proofs`: types, `SettledAtTop`, `CountedOnce`, `LogTellsTheTruth` and
`PublishedIsDurable`, for any number of iterations, deaths and failing writes, new files allowed or
not. The invariant `IInv` says where git and the two states can be (`Window`, part of `Settled`):
without a journal HEAD is the best of both; with one, HEAD is where the journal found it or one
commit further, and a state that knows of that commit is past its iteration. That last part is
what `_plan_resume_recovery` decides by, so a KEEP already applied is never applied again (lemma
`Plan`). All of `Settled` is claimed only as long as no KEEP was given up over its own commit
(`astray \/ Settled`); the log and the publication need no such exemption. `Numbered` keeps the
iteration's number above all that was logged, `InPlace` holds what a step knows from the steps
before it. The largest number `Renumbered` takes is a CHOOSE over a finite set; that it exists is
shown by well-foundedness (`MaxOfBounded`).

`FreshNumbers` and `AlwaysRecoverable` are proved for any number of iterations and deaths and at most
one lost write, and two are too many for either. An iteration is named by two events before its
agent starts; with both lost and the process killed, nothing above the checkpoint's own number is
left, and the next process gives it again. With at most one lost, what an agent was given is in the
log, and a resume renumbers above it (`Issued`). For the other: when a resume skips a number that was
begun without a result, and both its save of the new number and the save at the start of the
iteration are lost, the iteration's result is two ahead of the checkpoint, and the next resume
refuses the gap. Its invariant (`RInv`) adds to `IInv` and `Issued` what the planning
of a recovery tests: the checkpoint stands at the iteration under way until its outcome is recorded,
and lags between iterations only if a write was lost (`Paced`); HEAD is made of iterations an agent
was given (`Older`); at most one result is beyond the checkpoint, not a KEEP (`Continued`); with a
journal only the journalled iteration can be, and tree, log and checkpoint agree on whether there was
a commit (`Pending`); a recovery under way has decided the same (`Decided`). The last three again
unless a KEEP was given up over its own commit. `WindowMakesSense` is then a case analysis of
`Recoverable`.

Every safety invariant and action property of the passing runs is proved. Only model-checked, being
out of the prover's reach, are the liveness properties `OrphanRowsGo`, `RunningRowsEnd`, `StopQuiets`,
`CardsComeBack`, `KeepSurvives`, `RunEnds`. `ImplementsPool` is proved and not run: GpuPool's
actions quantify over all ttls.

## 8. Not modelled

* Callers of `run_task_registered` other than the pump and inline actions: the close steps and the
  kernel-entry reprofile, which run a row from the main coroutine (SessionPhases has the report
  row, not its runner).
* Of the intents, request, escalate, prune and the delegations other than that of a GPU specialist;
  the bookkeeping after a run (failure streaks, reconcile of cancelled `integrate_patch` rows, patch
  recovery at a resume).
* The two halves of `create_or_return_existing` (lookup, insert): the models take it as one step.
* `loop/build_lifecycle.py` and `enablement/`: the driving of external builds by sentinel files; in
  TaskRuns a build is a row the pump does not join.
* What phases do inside: which work they propose, when they have enough, how SWEEP measures.
* Of KernelForge, everything but the durable side of the loop: measurement, suites, scoring,
  prompts, agents, and what section 2 lists under KeepRecovery.
* Policy rules, shared state's schema, knowledge base, scoring, traces, prompts, executors of
  actions, request handlers, the standalone agents and the command line: tables of domain rules,
  numerics, parsing or I/O without interaction of their own. They are most of the lines of the
  repository.

## 9. What remains

1. `SessionPhases` over `TaskRuns`: the close steps as runners of their rows; the report's key across
   legs.
2. Concurrent creators of one key; the delegate intent in full.
3. `BuildLifecycle`, `Enablement`: sentinel, orphaned builds, stall counter, revalidation rows.
4. Proofs: of the modules above, once they are written.
