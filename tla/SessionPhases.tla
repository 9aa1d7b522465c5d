------------------------------ MODULE SessionPhases ------------------------------
\* The run loop of a session and the two things it drives to an end: the phase
\* machine PRELUDE -> FRAMEWORK -> KERNEL -> SWEEP (-> FRAMEWORK again) -> CLOSE
\* (orchestrator/phases/machine.py, machine_state.py) and the closing sequence
\* (phases/close.py), under Coordinator.run (loop/coordinator.py), across crashes
\* and resumed legs.  One asyncio task runs the loop; executors write to the shared
\* state at its awaits; a step of a tick is cancelled where it stands when the
\* session bound elapses.  What a phase does inside is left out: it may end at any
\* time, and in SWEEP the ladder's status decides how.
EXTENDS Naturals, FiniteSets

CONSTANTS
  MaxCycles,       \* the macro-cycle cap
  MaxLegs,         \* bound: processes that run the session, one after another
  MaxFaults,       \* bound: storage errors
  Optimize, Kernel \* which of the two optimizing phases are enabled

ASSUME SessionConstants ==
  /\ MaxCycles \in Nat \ {0} /\ MaxLegs \in Nat \ {0} /\ MaxFaults \in Nat
  /\ Optimize \in BOOLEAN /\ Kernel \in BOOLEAN

Phase == {"PRELUDE", "FRAMEWORK", "KERNEL", "SWEEP", "CLOSE"}

\* Idempotency keys of report rows: the sequencer's, its one retry, and the one the
\* deadline path mints (with a random suffix: a new one on each leg).
Entry == <<"entry", 0>>
Retry == <<"retry", 0>>
Deadline(l) == <<"deadline", l>>
Key == {Entry, Retry} \cup {Deadline(l) : l \in 1..MaxLegs}
NoReport == <<"none", 0>>
RowState == {"absent", "queued", "running", "succeeded", "dead"}

VARIABLES
  s,         \* SharedState in memory
  d,         \* state.json: the last SharedState saved
  rows,      \* report rows of the tasks table, by idempotency key
  pc,        \* where the loop's task stands
  turn,      \* which of a tick's three looks at the phase machine is in progress
  plan,      \* the phase compute_next_phase chose
  own,       \* the sequencer itself runs the report row it waits for
  inClosing, \* the tick's local copy of closing_phase
  late,      \* the session deadline has passed
  armed,     \* this process holds a closing deadline
  overdue,   \* ... and it has passed
  leg,       \* which process this is
  faults,    \* storage errors so far
  sweeps,    \* history: recorded transitions into SWEEP
  doneHere   \* history: this leg's sequencer has run to its end

vars == <<s, d, rows, pc, turn, plan, own, inClosing, late, armed, overdue, leg, faults, sweeps, doneHere>>
loopVars == <<turn, plan, own, inClosing>>
clock == <<late, armed, overdue>>
history == <<leg, faults, sweeps, doneHere>>

\* stop: "" or who set it: the phase machine, a task's writeback, the loop's end.
\* swept: the concurrency ladder's status, of this cycle.  hint: the pending
\* escalation, skip_to_kernel and skip_to_sweep being told apart by no rule here.
SharedState ==
  [phase : Phase, stop : {"", "machine", "work", "loop"}, hint : {"", "move", "close"},
   target : BOOLEAN, closing : BOOLEAN, rid : Key \cup {NoReport}, cycle : 0..(MaxCycles - 1),
   swept : {"", "ok", "failed"}, done : BOOLEAN]

Fresh ==
  [phase |-> "PRELUDE", stop |-> "", hint |-> "", target |-> FALSE, closing |-> FALSE,
   rid |-> NoReport, cycle |-> 0, swept |-> "", done |-> FALSE]

Up == pc \notin {"down", "ended"}

Init ==
  /\ s = Fresh /\ d = Fresh
  /\ rows = [k \in Key |-> "absent"]
  /\ pc = "look" /\ turn = "pre" /\ plan = "PRELUDE" /\ own = FALSE /\ inClosing = FALSE
  /\ late = FALSE /\ armed = FALSE /\ overdue = FALSE
  /\ leg = 1 /\ faults = 0 /\ sweeps = 0 /\ doneHere = FALSE

-----------------------------------------------------------------------------
\* The session bound of a tick's steps

\* _seconds_until_session_bound: the run deadline, or once closing_phase is set the
\* closing deadline, which a resumed process has not got.
BoundElapsed == IF s.closing THEN armed /\ overdue ELSE late

\* Where a tick goes after a look at the phase machine: the hint turn is taken only
\* when a hint is pending.
After(t, hint) ==
  CASE t = "pre"  -> IF hint = "" THEN <<"work", "pre">> ELSE <<"look", "hint">>
    [] t = "hint" -> <<"work", "pre">>
    [] t = "post" -> <<"check", "post">>

Return(t, hint) == pc' = After(t, hint)[1] /\ turn' = After(t, hint)[2]

-----------------------------------------------------------------------------
\* The transition rule

\* A choice of compute_next_phase: the target, whether it is terminal (names the
\* stop reason), and whether it is the loopback.
To(phase, terminal) == [to |-> phase, terminal |-> terminal, loop |-> FALSE]
Loopback == [To("FRAMEWORK", FALSE) EXCEPT !.loop = TRUE]

\* A cap that admits one cycle too many.
SweepExits_one_more ==
  IF s.swept = "failed" THEN {To("CLOSE", FALSE)}
  ELSE IF s.target \/ s.cycle >= MaxCycles THEN {To("CLOSE", TRUE)}
  ELSE {To("CLOSE", FALSE), To("CLOSE", TRUE)} \cup (IF Optimize THEN {Loopback} ELSE {})

\* exit_normal_sweep and should_reloop_to_explore.  A failed ladder closes; a met
\* target or the cap is terminal; else saturation and the clock (not terminal),
\* convergence (terminal) and another cycle are all possible.
SweepExits ==
  IF s.swept = "failed" THEN {To("CLOSE", FALSE)}
  ELSE IF s.target \/ s.cycle + 1 >= MaxCycles THEN {To("CLOSE", TRUE)}
  ELSE {To("CLOSE", FALSE), To("CLOSE", TRUE)} \cup (IF Optimize THEN {Loopback} ELSE {})

\* The phases' own exits; budgets, plateaus and idle guards are free to fire at any
\* time.
LocalExits ==
  CASE s.phase = "PRELUDE" ->
         {To("CLOSE", TRUE),
          To(IF Optimize THEN "FRAMEWORK" ELSE IF Kernel THEN "KERNEL" ELSE "SWEEP", FALSE)}
    [] s.phase = "FRAMEWORK" -> {To(IF Kernel THEN "KERNEL" ELSE "SWEEP", FALSE)}
    [] s.phase = "KERNEL" -> {To("SWEEP", FALSE)}
    [] s.phase = "SWEEP" -> SweepExits

\* A loop that takes the closing phase for an ordinary stretch of the session.
NextPhases_without_closing ==
  IF s.phase = "CLOSE" THEN {}
  ELSE IF s.hint = "close" /\ ~(s.phase = "SWEEP" /\ s.swept # "") THEN {To("CLOSE", TRUE)}
  ELSE IF s.stop # "" /\ s.hint # "close" THEN {To("CLOSE", TRUE)}
  ELSE IF s.target /\ s.phase \in {"FRAMEWORK", "KERNEL"} THEN {To("SWEEP", FALSE)}
  ELSE LocalExits

\* compute_next_phase: a global terminal first, then the closing phase, then a met
\* target, then the phase's own exits.  A skip_to_close that finds SWEEP's result
\* recorded yields to SWEEP's own exits, a recorded stop reason with it.
NextPhases ==
  IF s.phase = "CLOSE" THEN {}
  ELSE IF s.hint = "close" /\ ~(s.phase = "SWEEP" /\ s.swept # "") THEN {To("CLOSE", TRUE)}
  ELSE IF s.closing \/ (s.stop # "" /\ s.hint # "close") THEN {To("CLOSE", TRUE)}
  ELSE IF s.target /\ s.phase \in {"FRAMEWORK", "KERNEL"} THEN {To("SWEEP", FALSE)}
  ELSE LocalExits

\* The phase has to be left at this look: nothing else may come of it.
MustMove == NextPhases # {} /\ (\/ s.hint = "close" \/ s.stop # "" \/ s.closing
                                \/ s.target /\ s.phase \in {"FRAMEWORK", "KERNEL"}
                                \/ s.phase = "SWEEP" /\ s.swept # "")

\* The hint survives only into the one phase that reads it.
HintAfter(n) == IF n.to = "FRAMEWORK" /\ s.hint # "close" THEN s.hint ELSE ""

-----------------------------------------------------------------------------
\* A look at the phase machine (_advance_phase_if_needed)

\* The step is not started when its bound has passed already.
LookSkipped ==
  /\ pc = "look" /\ BoundElapsed
  /\ Return(turn, s.hint)
  /\ UNCHANGED <<s, d, rows, plan, own, inClosing, clock, history>>

\* No exit applies.
LookStays ==
  /\ pc = "look" /\ ~BoundElapsed /\ ~MustMove
  /\ Return(turn, s.hint)
  /\ UNCHANGED <<s, d, rows, plan, own, inClosing, clock, history>>

\* A transition is chosen: hint, stop reason and cycle change in memory here,
\* ahead of the awaits that carry the transition out.
Decide ==
  \E n \in NextPhases :
    /\ s' = [s EXCEPT
         !.hint   = HintAfter(n),
         !.stop   = IF n.terminal /\ s.stop = "" THEN "machine" ELSE @,
         !.cycle  = IF n.loop THEN @ + 1 ELSE @,
         !.swept  = IF n.loop THEN "" ELSE @]
    /\ plan' = n.to /\ pc' = "cancel"
    /\ UNCHANGED <<d, rows, turn, own, inClosing, clock, history>>

LookMoves_whatever_the_bound == pc = "look" /\ Decide

LookMoves == pc = "look" /\ ~BoundElapsed /\ Decide

\* cancel_queued_not_allowed and the record: only CLOSE admits a report row.
Dropped == [k \in Key |-> IF rows[k] = "queued" /\ plan # "CLOSE" THEN "dead" ELSE rows[k]]

Record ==
  /\ pc = "cancel"
  /\ rows' = Dropped
  /\ s' = [s EXCEPT !.phase = plan] /\ d' = s'
  /\ sweeps' = IF plan = "SWEEP" THEN sweeps + 1 ELSE sweeps
  /\ pc' = IF plan = "CLOSE" THEN "close" ELSE "enter"
  /\ UNCHANGED <<loopVars, clock, leg, faults, doneHere>>

\* The transaction raises: the transition is not recorded, and what LookMoves
\* changed stays; the record of the exception saves it.  In the first look the
\* exception also skips the hint turn.
RecordRaises ==
  /\ pc = "cancel" /\ faults < MaxFaults
  /\ faults' = faults + 1 /\ plan' = s.phase
  /\ d' = s
  /\ Return(IF turn = "pre" THEN "hint" ELSE turn, s.hint)
  /\ UNCHANGED <<s, rows, own, inClosing, clock, leg, sweeps, doneHere>>

\* The phase's entry hook: KERNEL's may end by asking for the next phase, SWEEP's
\* by recording that there will be no ladder, or that it could not be queued.
Enter ==
  /\ pc = "enter"
  /\ s' \in {s} \cup (CASE plan = "KERNEL" -> {[s EXCEPT !.hint = "move"]}
                        [] plan = "SWEEP"  -> {[s EXCEPT !.swept = "ok"]}
                        [] OTHER -> {})
  /\ Return(turn, s'.hint)
  /\ UNCHANGED <<d, rows, plan, own, inClosing, clock, history>>

-----------------------------------------------------------------------------
\* The CLOSE sequencer (_on_enter_close)

\* Started: the stop reason is on disk before anything that reads it.
SeqStart ==
  /\ pc = "close"
  /\ s' = [s EXCEPT !.stop = IF @ = "" THEN "machine" ELSE @] /\ d' = s'
  /\ pc' = "report"
  /\ UNCHANGED <<rows, loopVars, clock, history>>

\* The row of the recorded id is dead, or reading it raises: the id is dropped, and
\* the report is minted under the sequencer's own key whatever became of that row.
SeqForgets ==
  /\ pc = "report" /\ s.rid # NoReport
  /\ \/ rows[s.rid] = "dead" /\ UNCHANGED faults
     \/ faults < MaxFaults /\ faults' = faults + 1
  /\ s' = [s EXCEPT !.rid = NoReport]
  /\ UNCHANGED <<d, rows, pc, loopVars, clock, leg, sweeps, doneHere>>

\* The report row the sequencer reaches for: the one recorded; else the row of its
\* own key, or of the retry key when that one is dead.
Reported == IF s.rid # NoReport THEN s.rid ELSE IF rows[Entry] # "dead" THEN Entry ELSE Retry

\* A missing row is inserted; a queued one is then run, a running one waited for, a
\* terminal one taken as it is.
SeqReport ==
  /\ pc = "report" /\ (s.rid # NoReport => rows[s.rid] # "dead")
  /\ rows' = [rows EXCEPT ![Reported] = IF @ = "absent" THEN "queued" ELSE @]
  /\ s' = [s EXCEPT !.rid = Reported]
  /\ d' = IF s.rid = NoReport THEN s' ELSE d
  /\ pc' = CASE rows'[s'.rid] = "queued"  -> "run"
             [] rows'[s'.rid] = "running" -> "await"
             [] OTHER -> "rest"
  /\ UNCHANGED <<loopVars, clock, history>>

SeqRuns ==
  /\ pc = "run"
  /\ rows' = [rows EXCEPT ![s.rid] = "running"]
  /\ own' = TRUE /\ pc' = "await"
  /\ UNCHANGED <<s, d, turn, plan, inClosing, clock, history>>

\* The report step raises: it is recorded as failed and the sequence goes on.
SeqReportRaises ==
  /\ pc \in {"report", "run"} /\ faults < MaxFaults
  /\ faults' = faults + 1 /\ pc' = "rest"
  /\ UNCHANGED <<s, d, rows, loopVars, clock, leg, sweeps, doneHere>>

SeqReported ==
  /\ pc = "await" /\ rows[s.rid] # "running"
  /\ pc' = "rest" /\ own' = FALSE
  /\ UNCHANGED <<s, d, rows, turn, plan, inClosing, clock, history>>

\* The row of the sequencer's own run is settled by the cancelled runner.
Abandoned == IF own THEN [rows EXCEPT ![s.rid] = IF @ = "running" THEN "dead" ELSE @] ELSE rows

\* A wait bounded by the step's typical cost, whose end takes the sequence along.
SeqGivesUp_and_stops ==
  /\ pc = "await" /\ rows[s.rid] = "running"
  /\ rows' = Abandoned /\ own' = FALSE
  /\ Return(turn, s.hint)
  /\ UNCHANGED <<s, d, plan, inClosing, clock, history>>

\* The wait is bounded by the step's typical cost; a row someone else runs is left
\* running.
SeqGivesUp ==
  /\ pc = "await" /\ rows[s.rid] = "running"
  /\ rows' = Abandoned
  /\ pc' = "rest" /\ own' = FALSE
  /\ UNCHANGED <<s, d, turn, plan, inClosing, clock, history>>

\* Breakdown, flush and package, then close_sequence_done.
SeqDone ==
  /\ pc = "rest"
  /\ s' = [s EXCEPT !.done = TRUE, !.stop = IF @ = "" THEN "machine" ELSE @] /\ d' = s'
  /\ doneHere' = TRUE
  /\ Return(turn, s.hint)
  /\ UNCHANGED <<rows, plan, own, inClosing, clock, leg, faults, sweeps>>

\* The bound elapses inside a look: its step is cancelled where it stands.
Interrupted ==
  /\ pc \in {"cancel", "enter", "close", "report", "run", "await", "rest"} /\ BoundElapsed
  /\ rows' \in (CASE pc = "cancel" -> {rows, Dropped}
                  [] pc = "await"  -> {Abandoned}
                  [] OTHER -> {rows})
  /\ own' = FALSE /\ plan' = s.phase
  /\ Return(turn, s.hint)
  /\ UNCHANGED <<s, d, inClosing, clock, history>>

-----------------------------------------------------------------------------
\* The rest of a tick, and the end of the run

\* Reactors (not while closing) may leave a hint; the pump starts the queued report.
Work ==
  /\ pc = "work"
  /\ inClosing' = s.closing
  /\ s' \in {s} \cup (IF s.closing THEN {} ELSE {[s EXCEPT !.hint = h] : h \in {"move", "close"}})
  /\ rows' = [k \in Key |-> IF rows[k] = "queued" THEN "running" ELSE rows[k]]
  /\ pc' = "look" /\ turn' = "post"
  /\ UNCHANGED <<d, plan, own, clock, history>>

\* run's finally: closing is over, the reason is set and everything is saved.
EndWith(reason) ==
  /\ s' = [s EXCEPT !.closing = FALSE, !.stop = reason] /\ d' = s'
  /\ pc' = "ended"
  /\ UNCHANGED <<rows, loopVars, clock, history>>

\* A signal, an emergency, a tick limit, a custom predicate, or a deadline without
\* any grace.
Stopped ==
  /\ pc = "check"
  /\ EndWith("loop")

\* The reason the phase machine or a writeback recorded.
StopRecorded ==
  /\ pc = "check" /\ s.stop # "" /\ ~inClosing
  /\ EndWith(s.stop)

\* A report that failed leaves the closing phase waiting for its grace.
ReportTerminal_success_only == s.rid # NoReport /\ rows[s.rid] = "succeeded"

\* _closing_report_terminal
ReportTerminal == s.rid # NoReport /\ rows[s.rid] \in {"succeeded", "dead"}

\* The closing phase is over when its report is, or when its own deadline passes.
Closed ==
  /\ pc = "check" /\ inClosing
  /\ ReportTerminal \/ (armed /\ overdue)
  /\ EndWith("loop")

MustEnd == IF inClosing THEN ReportTerminal \/ (armed /\ overdue) ELSE s.stop # ""

\* The next tick; the objective may have been found met.
NextTick ==
  /\ pc = "check" /\ ~MustEnd /\ (late => inClosing)
  /\ \E t \in {s.target, TRUE} : s' = [s EXCEPT !.target = t]
  /\ pc' = "look" /\ turn' = "pre" /\ inClosing' = FALSE
  /\ UNCHANGED <<d, rows, plan, own, clock, history>>

\* _enter_closing_phase: first closing_phase, saved; everything queued but reports
\* is cancelled; then a new report row, its id saved, and the closing deadline.
EnterClosing ==
  /\ pc = "check" /\ ~MustEnd /\ late /\ ~inClosing
  /\ s' = [s EXCEPT !.closing = TRUE] /\ d' = s'
  /\ pc' = "closing"
  /\ UNCHANGED <<rows, loopVars, clock, history>>

OpenReport ==
  /\ pc = "closing"
  /\ rows' = [rows EXCEPT ![Deadline(leg)] = "queued"]
  /\ s' = [s EXCEPT !.rid = Deadline(leg)] /\ d' = s'
  /\ armed' = TRUE
  /\ pc' = "look" /\ turn' = "pre"
  /\ UNCHANGED <<plan, own, inClosing, late, overdue, history>>

\* ... raises instead: nothing in the loop catches it, and the run ends.
OpenReportRaises ==
  /\ pc = "closing" /\ faults < MaxFaults
  /\ faults' = faults + 1
  /\ s' = [s EXCEPT !.closing = FALSE, !.stop = IF @ = "" THEN "loop" ELSE @] /\ d' = s'
  /\ pc' = "ended"
  /\ UNCHANGED <<rows, loopVars, clock, leg, sweeps, doneHere>>

-----------------------------------------------------------------------------
\* What happens meanwhile

\* A task's writeback at one of the loop's awaits: it may end the ladder, or name a
\* stop reason, and it saves the whole state.
Writeback ==
  /\ pc \in {"cancel", "enter", "close", "report", "run", "await", "rest", "work", "closing"}
  /\ s' \in {s, [s EXCEPT !.stop = "work"]}
           \cup (IF s.phase = "SWEEP" THEN {[s EXCEPT !.swept = w] : w \in {"ok", "failed"}} ELSE {})
  /\ d' = s'
  /\ UNCHANGED <<rows, pc, loopVars, clock, history>>

FinishReport ==
  /\ Up
  /\ \E k \in Key, end \in {"succeeded", "dead"} :
        rows[k] = "running" /\ rows' = [rows EXCEPT ![k] = end]
  /\ UNCHANGED <<s, d, pc, loopVars, clock, history>>

DeadlinePasses ==
  /\ Up /\ ~late /\ late' = TRUE
  /\ UNCHANGED <<s, d, rows, pc, loopVars, armed, overdue, history>>

GracePasses ==
  /\ Up /\ armed /\ ~overdue /\ overdue' = TRUE
  /\ UNCHANGED <<s, d, rows, pc, loopVars, late, armed, history>>

Crash ==
  /\ Up /\ leg < MaxLegs
  /\ pc' = "down" /\ s' = d
  /\ turn' = "pre" /\ plan' = d.phase /\ own' = FALSE /\ inClosing' = FALSE
  /\ UNCHANGED <<d, rows, clock, history>>

\* The state a resumed leg starts from: a recorded stop re-anchors the budget, and
\* a session left in CLOSE is put back at PRELUDE.
Begun == IF d.stop = "" THEN d ELSE [d EXCEPT !.stop = "", !.closing = FALSE, !.rid = NoReport]

Reopened_keeping_done == IF Begun.phase = "CLOSE" THEN [Begun EXCEPT !.phase = "PRELUDE"] ELSE Begun

Reopened == IF Begun.phase = "CLOSE" THEN [Begun EXCEPT !.phase = "PRELUDE", !.done = FALSE] ELSE Begun

\* _begin_resume_leg, the reconcile of rows left running, the phase machine's
\* constructor.  The deadline is kept unless the budget is re-anchored.
Resume ==
  /\ pc \in {"down", "ended"} /\ leg < MaxLegs
  /\ leg' = leg + 1
  /\ s' = Reopened /\ d' = s'
  /\ rows' = [k \in Key |-> IF rows[k] = "running" THEN "dead" ELSE rows[k]]
  /\ late' = (d.stop = "" /\ late) /\ armed' = FALSE /\ overdue' = FALSE
  /\ pc' = "look" /\ turn' = "pre" /\ plan' = s'.phase /\ own' = FALSE /\ inClosing' = FALSE
  /\ doneHere' = FALSE
  /\ UNCHANGED <<faults, sweeps>>

Look == LookSkipped \/ LookStays \/ LookMoves
Carry == Record \/ Enter \/ Interrupted
Sequence ==
  SeqStart \/ SeqForgets \/ SeqReport \/ SeqRuns \/ SeqReported \/ SeqGivesUp \/ SeqDone
Check == StopRecorded \/ Closed \/ NextTick \/ EnterClosing \/ OpenReport
Raises == RecordRaises \/ SeqReportRaises \/ OpenReportRaises
Environment == Writeback \/ FinishReport \/ DeadlinePasses \/ GracePasses

Next == Look \/ Carry \/ Sequence \/ Work \/ Check \/ Stopped \/ Raises \/ Environment \/ Crash \/ Resume

\* The loop's task runs on (its waits are timers, a hook without one is cut by the
\* bound), time passes, and a report the pump started ends (a row that outlives its
\* lease is reaped: RunningRowsEnd of TaskRuns).  A stopped session need not resume.
\* Time and the reports share one condition: each of them happens finitely often.
Fairness ==
  /\ WF_vars(Look \/ Carry \/ Sequence \/ Work \/ Check)
  /\ WF_vars(DeadlinePasses \/ GracePasses \/ FinishReport)

Spec == Init /\ [][Next]_vars
FairSpec == Spec /\ Fairness

-----------------------------------------------------------------------------
\* Properties

\* Every variable has its type; in particular the cycle stays under its cap, lost
\* transitions included.
TypeOK ==
  /\ s \in SharedState /\ d \in SharedState
  /\ rows \in [Key -> RowState]
  /\ pc \in {"look", "cancel", "enter", "close", "report", "run", "await", "rest", "work", "check", "closing", "ended", "down"}
  /\ turn \in {"pre", "hint", "post"} /\ plan \in Phase
  /\ own \in BOOLEAN /\ inClosing \in BOOLEAN /\ late \in BOOLEAN /\ armed \in BOOLEAN /\ overdue \in BOOLEAN
  /\ leg \in 1..MaxLegs /\ faults \in 0..MaxFaults /\ sweeps \in Nat /\ doneHere \in BOOLEAN

\* Once the closing phase has queued its report, no step cancels it before it ran:
\* not the transition made meanwhile, not a resumed process's first one.
ClosingReportLives ==
  [][s.closing /\ s.rid # NoReport /\ rows[s.rid] = "queued" => rows'[s.rid] # "dead"]_vars

\* A run the phase machine ended before its deadline, no storage error having been
\* met, ended in CLOSE with the whole sequence behind it.
EndedRight ==
  pc = "ended" /\ s.stop = "machine" /\ ~late /\ faults = 0 => s.phase = "CLOSE" /\ s.done

\* A macro-cycle is counted once per visit to SWEEP: a transition cut by the bound
\* is not counted again when it is retried.  A storage error that loses a counted
\* transition, or a crash after another task saved the count ahead of it, costs one
\* cycle each and no more.
CycleIsEarned == s.cycle <= sweeps + faults + (leg - 1)

\* close_sequence_done speaks for this leg: whoever reads it to decide whether the
\* breakdown was written never reads a previous leg's answer.
DoneIsThisLegs == Up /\ s.done => doneHere

\* A resumed process still in the closing phase holds no deadline of its own; when
\* the crash came before the report's id was saved and the sequencer's own report
\* step then raises, nothing is left that the loop's closing check could see.
Blind == pc = "check" /\ s.closing /\ ~armed /\ s.rid = NoReport /\ s.phase = "CLOSE"

\* Every run ends, whatever a hook or a writeback does: in each process
\* the loop comes to its end (or the process dies), the blind closing phase apart.
RunEnds == Up ~> (~Up \/ Blind)

=============================================================================
