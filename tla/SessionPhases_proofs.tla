-------------------------- MODULE SessionPhases_proofs --------------------------
\* For every cap on the cycles, every number of legs and of storage errors and every
\* choice of enabled phases: the types, the life of the closing report, what
\* close_sequence_done says and how a run the phase machine ended has ended.
EXTENDS SessionPhases, TLAPS

Sequencing == {"close", "report", "run", "await", "rest"}

\* The strengthening.  The sequencer works in CLOSE, a transition is carried out of
\* any other phase, so done is only ever set and saved together with CLOSE; the
\* closing phase is entered after the deadline, so before the deadline no bound cuts
\* a look; and while closing the only transition under way is the one to CLOSE.
InOrder ==
  /\ pc \in Sequencing => s.phase = "CLOSE"
  /\ pc = "cancel" => s.phase # "CLOSE"
  /\ pc \in {"run", "await"} => s.rid # NoReport
  /\ s.done => s.phase = "CLOSE"
  /\ d.done => d.phase = "CLOSE"

ClosingIsLate ==
  /\ s.closing => late
  /\ d.closing => late
  /\ pc = "cancel" /\ s.closing => plan = "CLOSE"

\* Where a run can be that the phase machine has given a stop reason.
OnItsWay ==
  Up /\ s.stop = "machine" /\ ~late /\ faults = 0
    => \/ pc = "cancel" /\ plan = "CLOSE"
       \/ s.phase = "CLOSE" /\ (s.done \/ pc \in Sequencing)

\* The inductive invariant.
IInv == TypeOK /\ InOrder /\ ClosingIsLate /\ OnItsWay /\ EndedRight /\ DoneIsThisLegs

USE DEF Sequencing

\* A look that found a next phase found it outside CLOSE, and in the closing phase,
\* or with a stop reason recorded, found CLOSE itself.
LEMMA ChoiceOf ==
  ASSUME TypeOK, NEW n \in NextPhases
  PROVE  /\ n.to \in Phase /\ n.terminal \in BOOLEAN /\ n.loop \in BOOLEAN
         /\ s.phase # "CLOSE"
         /\ s.closing => n.to = "CLOSE"
         /\ n.terminal => n.to = "CLOSE"
         /\ n.loop => s.cycle + 1 < MaxCycles
<1>1. s.cycle \in 0..(MaxCycles - 1) /\ s.phase \in Phase /\ MaxCycles \in Nat
  BY SessionConstants DEF SessionConstants, TypeOK, SharedState
<1>2. ASSUME NEW m, NEW p \in Phase, NEW t \in BOOLEAN, m = To(p, t)
      PROVE  m.to = p /\ m.terminal = t /\ m.loop = FALSE
  BY <1>2 DEF To
<1>3. Loopback.to = "FRAMEWORK" /\ Loopback.terminal = FALSE /\ Loopback.loop = TRUE
  BY DEF Loopback, To
<1>4. ASSUME n \in SweepExits
      PROVE  \/ \E t \in BOOLEAN : n = To("CLOSE", t)
             \/ n = Loopback /\ s.cycle + 1 < MaxCycles
  <2>1. ~(s.cycle + 1 >= MaxCycles) <=> s.cycle + 1 < MaxCycles
    BY <1>1
  <2> QED
    BY <1>4, <2>1 DEF SweepExits
<1>5. ASSUME n \in LocalExits, s.phase # "CLOSE"
      PROVE  \/ \E t \in BOOLEAN : n = To("CLOSE", t)
             \/ \E p \in Phase : n = To(p, FALSE)
             \/ n = Loopback /\ s.cycle + 1 < MaxCycles
  <2>1. CASE s.phase = "SWEEP"
    BY <1>4, <1>5, <2>1 DEF LocalExits
  <2>2. CASE s.phase # "SWEEP"
    BY <1>1, <1>5, <2>2 DEF LocalExits, Phase
  <2> QED
    BY <2>1, <2>2
<1>6. /\ s.phase # "CLOSE"
      /\ \/ \E t \in BOOLEAN : n = To("CLOSE", t)
         \/ ~s.closing /\ \E p \in Phase : n = To(p, FALSE)
         \/ ~s.closing /\ n = Loopback /\ s.cycle + 1 < MaxCycles
  BY <1>5 DEF NextPhases, Phase
<1>7. CASE \E t \in BOOLEAN : n = To("CLOSE", t)
  BY <1>2, <1>6, <1>7 DEF Phase
<1>8. CASE ~s.closing /\ \E p \in Phase : n = To(p, FALSE)
  BY <1>2, <1>6, <1>8
<1>9. CASE ~s.closing /\ n = Loopback /\ s.cycle + 1 < MaxCycles
  BY <1>3, <1>6, <1>9 DEF Phase
<1> QED
  BY <1>6, <1>7, <1>8, <1>9

\* After a look a tick goes on to its work, its hint turn or its check.
LEMMA ReturnTyped ==
  ASSUME NEW t \in {"pre", "hint", "post"}, NEW h, Return(t, h)
  PROVE  pc' \in {"work", "look", "check"} /\ turn' \in {"pre", "hint", "post"}
<1>1. CASE t = "pre"
  BY <1>1 DEF Return, After
<1>2. CASE t = "hint"
  BY <1>2 DEF Return, After
<1>3. CASE t = "post"
  BY <1>3 DEF Return, After
<1> QED
  BY <1>1, <1>2, <1>3

-----------------------------------------------------------------------------
\* Types

LEMMA TypeInit == Init => TypeOK
<1> SUFFICES ASSUME Init PROVE TypeOK
  OBVIOUS
<1>1. 0 \in 0..(MaxCycles - 1) /\ 1 \in 1..MaxLegs /\ 0 \in 0..MaxLegs /\ 0 \in 0..MaxFaults
  BY SessionConstants DEF SessionConstants
<1>2. Fresh \in SharedState
  BY <1>1 DEF Fresh, SharedState, Phase
<1>3. rows \in [Key -> RowState]
  BY DEF Init, RowState
<1> QED
  BY <1>1, <1>2, <1>3 DEF Init, TypeOK, Phase

LEMMA TypeLook == ASSUME TypeOK, Look PROVE TypeOK'
<1>1. ASSUME LookSkipped \/ LookStays PROVE TypeOK'
  BY <1>1, ReturnTyped DEF LookSkipped, LookStays, TypeOK, clock, history
<1>2. ASSUME LookMoves PROVE TypeOK'
  <2>1. PICK n \in NextPhases :
          /\ s' = [s EXCEPT !.hint  = HintAfter(n),
                            !.stop  = IF n.terminal /\ s.stop = "" THEN "machine" ELSE @,
                            !.cycle = IF n.loop THEN @ + 1 ELSE @,
                            !.swept = IF n.loop THEN "" ELSE @]
          /\ plan' = n.to /\ pc' = "cancel"
          /\ UNCHANGED <<d, rows, turn, own, inClosing, clock, history>>
    BY <1>2 DEF LookMoves, Decide
  <2>2. n.to \in Phase /\ n.loop \in BOOLEAN /\ (n.loop => s.cycle + 1 < MaxCycles)
    BY <2>1, ChoiceOf
  <2>3. HintAfter(n) \in {"", "move", "close"}
    BY DEF HintAfter, TypeOK, SharedState
  <2>4. (IF n.loop THEN s.cycle + 1 ELSE s.cycle) \in 0..(MaxCycles - 1)
    <3>1. s.cycle \in 0..(MaxCycles - 1) /\ MaxCycles \in Nat
      BY SessionConstants DEF SessionConstants, TypeOK, SharedState
    <3> QED
      BY <2>2, <3>1
  <2>5. s' \in SharedState
    <3> DEFINE h == HintAfter(n)
               p == IF n.terminal /\ s.stop = "" THEN "machine" ELSE s.stop
               c == IF n.loop THEN s.cycle + 1 ELSE s.cycle
               w == IF n.loop THEN "" ELSE s.swept
    <3>1. p \in {"", "machine", "work", "loop"} /\ w \in {"", "ok", "failed"}
      BY DEF TypeOK, SharedState
    <3>2. h \in {"", "move", "close"} /\ c \in 0..(MaxCycles - 1) /\ s \in SharedState
      BY <2>3, <2>4 DEF TypeOK
    <3>3. s' = [s EXCEPT !.hint = h, !.stop = p, !.cycle = c, !.swept = w]
      BY <2>1
    <3> HIDE DEF h, p, c, w
    <3>4. [s EXCEPT !.hint = h] \in SharedState
      BY <3>2 DEF SharedState
    <3>5. [[s EXCEPT !.hint = h] EXCEPT !.stop = p] \in SharedState
      BY <3>1, <3>4 DEF SharedState
    <3>6. [[[s EXCEPT !.hint = h] EXCEPT !.stop = p] EXCEPT !.cycle = c] \in SharedState
      BY <3>2, <3>5 DEF SharedState
    <3> QED
      BY <3>1, <3>3, <3>6 DEF SharedState
  <2> QED
    BY <2>1, <2>2, <2>5 DEF TypeOK, clock, history
<1> QED
  BY <1>1, <1>2 DEF Look

LEMMA TypeCarry == ASSUME TypeOK, Carry \/ RecordRaises PROVE TypeOK'
<1>0. Dropped \in [Key -> RowState] /\ Abandoned \in [Key -> RowState]
  BY DEF Dropped, Abandoned, TypeOK, RowState
<1>1. ASSUME Record PROVE TypeOK'
  <2>1. s' \in SharedState /\ d' \in SharedState
    BY <1>1 DEF Record, TypeOK, SharedState
  <2>2. sweeps' \in Nat
    BY <1>1 DEF Record, TypeOK
  <2> QED
    BY <1>0, <1>1, <2>1, <2>2 DEF Record, TypeOK, loopVars, clock
<1>2. ASSUME Enter PROVE TypeOK'
  <2>1. s' \in SharedState
    <3>1. s' = s \/ s' = [s EXCEPT !.hint = "move"] \/ s' = [s EXCEPT !.swept = "ok"]
      BY <1>2 DEF Enter
    <3>2. s \in SharedState
      BY DEF TypeOK
    <3> QED
      BY <3>1, <3>2 DEF SharedState
  <2>2. pc' \in {"work", "look", "check"} /\ turn' \in {"pre", "hint", "post"}
    BY <1>2, ReturnTyped DEF Enter, TypeOK
  <2> QED
    BY <1>2, <2>1, <2>2 DEF Enter, TypeOK, clock, history
<1>3. ASSUME Interrupted PROVE TypeOK'
  <2>1. rows' \in [Key -> RowState]
    BY <1>0, <1>3 DEF Interrupted, TypeOK
  <2>2. pc' \in {"work", "look", "check"} /\ turn' \in {"pre", "hint", "post"}
    BY <1>3, ReturnTyped DEF Interrupted, TypeOK
  <2>3. s \in SharedState => s.phase \in Phase
    BY DEF SharedState
  <2> QED
    BY <1>3, <2>1, <2>2, <2>3 DEF Interrupted, TypeOK, clock, history
<1>4. ASSUME RecordRaises PROVE TypeOK'
  <2>1. faults' \in 0..MaxFaults
    BY <1>4, SessionConstants DEF SessionConstants, RecordRaises, TypeOK
  <2>2. pc' \in {"work", "look", "check"} /\ turn' \in {"pre", "hint", "post"}
    BY <1>4, ReturnTyped DEF RecordRaises, TypeOK
  <2>3. s \in SharedState => s.phase \in Phase
    BY DEF SharedState
  <2>4. s' \in SharedState /\ d' \in SharedState
    BY <1>4 DEF RecordRaises, TypeOK
  <2> QED
    BY <1>4, <2>1, <2>2, <2>3, <2>4 DEF RecordRaises, TypeOK, clock
<1> QED
  BY <1>1, <1>2, <1>3, <1>4 DEF Carry

LEMMA TypeSequence == ASSUME TypeOK, Sequence \/ SeqReportRaises PROVE TypeOK'
<1>0. Reported \in Key /\ Abandoned \in [Key -> RowState]
  BY DEF Reported, Abandoned, TypeOK, SharedState, Key, RowState
<1>1. ASSUME SeqStart PROVE TypeOK'
  <2>1. s' \in SharedState /\ d' = s'
    <3>1. s \in SharedState /\ s' = [s EXCEPT !.stop = IF @ = "" THEN "machine" ELSE @]
      BY <1>1 DEF SeqStart, TypeOK
    <3>2. s' \in SharedState
      BY <3>1 DEF SharedState
    <3> QED
      BY <1>1, <3>2 DEF SeqStart
  <2> QED
    BY <1>1, <2>1 DEF SeqStart, TypeOK, loopVars, clock, history
<1>2. ASSUME SeqReport PROVE TypeOK'
  <2>1. s' \in SharedState /\ d' \in SharedState
    BY <1>0, <1>2 DEF SeqReport, TypeOK, SharedState
  <2>2. rows' \in [Key -> RowState] /\ pc' \in {"run", "await", "rest"}
    BY <1>0, <1>2 DEF SeqReport, TypeOK, RowState
  <2> QED
    BY <1>2, <2>1, <2>2 DEF SeqReport, TypeOK, loopVars, clock, history
<1>3. ASSUME SeqReported \/ SeqGivesUp PROVE TypeOK'
  BY <1>0, <1>3 DEF SeqReported, SeqGivesUp, TypeOK, clock, history
<1>4. ASSUME SeqDone PROVE TypeOK'
  <2>1. s' \in SharedState /\ d' \in SharedState
    BY <1>4 DEF SeqDone, TypeOK, SharedState
  <2>2. pc' \in {"work", "look", "check"} /\ turn' \in {"pre", "hint", "post"}
    BY <1>4, ReturnTyped DEF SeqDone, TypeOK
  <2> QED
    BY <1>4, <2>1, <2>2 DEF SeqDone, TypeOK, clock
<1>5. ASSUME SeqReportRaises PROVE TypeOK'
  <2>1. faults' \in 0..MaxFaults
    BY <1>5, SessionConstants DEF SessionConstants, SeqReportRaises, TypeOK
  <2> QED
    BY <1>5, <2>1 DEF SeqReportRaises, TypeOK, loopVars, clock
<1>6. ASSUME SeqForgets PROVE TypeOK'
  <2>1. faults' \in 0..MaxFaults
    BY <1>6, SessionConstants DEF SessionConstants, SeqForgets, TypeOK
  <2>2. s' \in SharedState
    BY <1>6 DEF SeqForgets, TypeOK, SharedState
  <2> QED
    BY <1>6, <2>1, <2>2 DEF SeqForgets, TypeOK, loopVars, clock
<1>7. ASSUME SeqRuns PROVE TypeOK'
  <2>1. rows' \in [Key -> RowState]
    BY <1>7 DEF SeqRuns, TypeOK, RowState
  <2> QED
    BY <1>7, <2>1 DEF SeqRuns, TypeOK, clock, history
<1> QED
  BY <1>1, <1>2, <1>3, <1>4, <1>5, <1>6, <1>7 DEF Sequence

\* What a resumed leg starts from is a state.
LEMMA BegunTyped == ASSUME TypeOK PROVE Begun \in SharedState
<1>1. d \in SharedState /\ NoReport \in Key \cup {NoReport}
  BY DEF TypeOK
<1>2. [d EXCEPT !.stop = "", !.closing = FALSE, !.rid = NoReport] \in SharedState
  BY <1>1 DEF SharedState
<1> QED
  BY <1>1, <1>2 DEF Begun

LEMMA TypeRest ==
  ASSUME TypeOK, Work \/ Check \/ Stopped \/ OpenReportRaises \/ Environment \/ Crash \/ Resume
  PROVE  TypeOK'
<1>1. ASSUME Work PROVE TypeOK'
  <2>1. s' \in SharedState /\ inClosing' \in BOOLEAN /\ rows' \in [Key -> RowState]
    <3>1. s' = s \/ \E h \in {"move", "close"} : s' = [s EXCEPT !.hint = h]
      BY <1>1 DEF Work
    <3>2. s' \in SharedState
      BY <3>1 DEF TypeOK, SharedState
    <3>3. inClosing' \in BOOLEAN
      BY <1>1 DEF Work, TypeOK, SharedState
    <3>4. rows' \in [Key -> RowState]
      BY <1>1 DEF Work, TypeOK, RowState
    <3> QED
      BY <3>2, <3>3, <3>4
  <2> QED
    BY <1>1, <2>1 DEF Work, TypeOK, clock, history
<1>2. ASSUME NEW r \in {"machine", "work", "loop"}, EndWith(r) PROVE TypeOK'
  <2>1. s' \in SharedState /\ d' = s' /\ pc' = "ended"
    <3>1. s \in SharedState /\ s' = [s EXCEPT !.closing = FALSE, !.stop = r]
      BY <1>2 DEF EndWith, TypeOK
    <3>2. s' \in SharedState
      BY <3>1 DEF SharedState
    <3> QED
      BY <1>2, <3>2 DEF EndWith
  <2> QED
    BY <1>2, <2>1 DEF EndWith, TypeOK, loopVars, clock, history
<1>3. ASSUME Stopped \/ StopRecorded \/ Closed PROVE TypeOK'
  <2>1. s.stop # "" => s.stop \in {"machine", "work", "loop"}
    BY DEF TypeOK, SharedState
  <2> QED
    BY <1>2, <1>3, <2>1 DEF Stopped, StopRecorded, Closed
<1>4. ASSUME NextTick PROVE TypeOK'
  <2>1. s' \in SharedState
    BY <1>4 DEF NextTick, TypeOK, SharedState
  <2> QED
    BY <1>4, <2>1 DEF NextTick, TypeOK, clock, history
<1>5. ASSUME EnterClosing PROVE TypeOK'
  BY <1>5 DEF EnterClosing, TypeOK, SharedState, loopVars, clock, history
<1>6. ASSUME OpenReport PROVE TypeOK'
  <2>1. Deadline(leg) \in Key
    BY DEF TypeOK, Key
  <2>2. s' \in SharedState /\ d' \in SharedState /\ rows' \in [Key -> RowState]
    BY <1>6, <2>1 DEF OpenReport, TypeOK, SharedState, RowState
  <2> QED
    BY <1>6, <2>2 DEF OpenReport, TypeOK, history
<1>7. ASSUME OpenReportRaises PROVE TypeOK'
  <2>1. faults' \in 0..MaxFaults
    BY <1>7, SessionConstants DEF SessionConstants, OpenReportRaises, TypeOK
  <2>2. s' \in SharedState /\ d' \in SharedState
    BY <1>7 DEF OpenReportRaises, TypeOK, SharedState
  <2> QED
    BY <1>7, <2>1, <2>2 DEF OpenReportRaises, TypeOK, loopVars, clock
<1>8. ASSUME Writeback PROVE TypeOK'
  <2>1. s' \in SharedState
    <3>1. \/ s' = s
          \/ s' = [s EXCEPT !.stop = "work"]
          \/ \E w \in {"ok", "failed"} : s' = [s EXCEPT !.swept = w]
      BY <1>8 DEF Writeback
    <3>2. s \in SharedState
      BY DEF TypeOK
    <3> QED
      BY <3>1, <3>2 DEF SharedState
  <2>2. d' = s'
    BY <1>8 DEF Writeback
  <2> QED
    BY <1>8, <2>1, <2>2 DEF Writeback, TypeOK, loopVars, clock, history
<1>9. ASSUME FinishReport PROVE TypeOK'
  <2>1. rows' \in [Key -> RowState]
    BY <1>9 DEF FinishReport, TypeOK, RowState
  <2> QED
    BY <1>9, <2>1 DEF FinishReport, TypeOK, loopVars, clock, history
<1>10. ASSUME DeadlinePasses \/ GracePasses PROVE TypeOK'
  BY <1>10 DEF DeadlinePasses, GracePasses, TypeOK, loopVars, clock, history
<1>11. ASSUME Crash PROVE TypeOK'
  <2>1. d.phase \in Phase
    BY DEF TypeOK, SharedState
  <2> QED
    BY <1>11, <2>1 DEF Crash, TypeOK, clock, history
<1>12. ASSUME Resume PROVE TypeOK'
  <2>1. Begun \in SharedState
    BY BegunTyped
  <2>2. Reopened \in SharedState
    <3>1. "PRELUDE" \in Phase
      BY DEF Phase
    <3>2. [Begun EXCEPT !.phase = "PRELUDE", !.done = FALSE] \in SharedState
      BY <2>1, <3>1 DEF SharedState
    <3> QED
      BY <2>1, <3>2 DEF Reopened
  <2>3. s' \in SharedState /\ d' \in SharedState /\ s'.phase \in Phase
    <3>1. s' = Reopened /\ d' = Reopened
      BY <1>12 DEF Resume
    <3>2. Reopened.phase \in Phase
      BY <2>2 DEF SharedState
    <3> QED
      BY <2>2, <3>1, <3>2
  <2>4. rows' \in [Key -> RowState]
    BY <1>12 DEF Resume, TypeOK, RowState
  <2>5. leg' \in 1..MaxLegs
    <3>1. leg' = leg + 1 /\ leg < MaxLegs
      BY <1>12 DEF Resume
    <3>2. leg \in 1..MaxLegs /\ MaxLegs \in Nat
      BY SessionConstants DEF SessionConstants, TypeOK
    <3> QED
      BY <3>1, <3>2
  <2>6. late' \in BOOLEAN
    <3>1. late' = TRUE \/ late' = FALSE
      BY <1>12 DEF Resume
    <3> QED
      BY <3>1
  <2> QED
    BY <1>12, <2>3, <2>4, <2>5, <2>6 DEF Resume, TypeOK
<1> QED
  BY <1>1, <1>3, <1>4, <1>5, <1>6, <1>7, <1>8, <1>9, <1>10, <1>11, <1>12 DEF Check, Environment

LEMMA TypeStep == TypeOK /\ [Next]_vars => TypeOK'
<1> SUFFICES ASSUME TypeOK, [Next]_vars PROVE TypeOK'
  OBVIOUS
<1>1. ASSUME Next PROVE TypeOK'
  BY <1>1, TypeLook, TypeCarry, TypeSequence, TypeRest DEF Next, Raises
<1>2. ASSUME UNCHANGED vars PROVE TypeOK'
  BY <1>2 DEF vars, TypeOK
<1> QED
  BY <1>1, <1>2

-----------------------------------------------------------------------------
\* The strengthening is inductive

Rest == InOrder /\ ClosingIsLate /\ OnItsWay /\ EndedRight /\ DoneIsThisLegs

USE DEF Rest, InOrder, ClosingIsLate, OnItsWay, EndedRight, DoneIsThisLegs, Up

\* A step that leaves s, d and the histories alone and brings a look to its end.
LEMMA LookEnds ==
  ASSUME TypeOK, Rest, pc \notin {"ended", "down"}, s' = s, d' = d, late' = late, faults' = faults,
         leg' = leg, doneHere' = doneHere, pc' \in {"work", "look", "check"},
         ~late /\ faults = 0 /\ s.stop = "machine" => s.phase = "CLOSE" /\ s.done
  PROVE  Rest'
  OBVIOUS

LEMMA RestLook == ASSUME TypeOK, Rest, Look PROVE Rest'
<1>1. ASSUME LookSkipped \/ LookStays PROVE Rest'
  <2>1. pc' \in {"work", "look", "check"}
    BY <1>1, ReturnTyped DEF LookSkipped, LookStays, TypeOK
  <2> QED
    BY <1>1, <2>1, LookEnds DEF LookSkipped, LookStays, clock, history
<1>2. ASSUME LookMoves PROVE Rest'
  <2>1. PICK n \in NextPhases :
          /\ s' = [s EXCEPT !.hint  = HintAfter(n),
                            !.stop  = IF n.terminal /\ s.stop = "" THEN "machine" ELSE @,
                            !.cycle = IF n.loop THEN @ + 1 ELSE @,
                            !.swept = IF n.loop THEN "" ELSE @]
          /\ plan' = n.to /\ pc' = "cancel"
          /\ UNCHANGED <<d, rows, turn, own, inClosing, clock, history>>
    BY <1>2 DEF LookMoves, Decide
  <2>2. s.phase # "CLOSE" /\ (s.closing => n.to = "CLOSE") /\ (n.terminal => n.to = "CLOSE")
    BY <2>1, ChoiceOf
  <2>3. /\ s'.phase = s.phase /\ s'.done = s.done /\ s'.closing = s.closing
        /\ s'.stop = "machine" => n.terminal \/ s.stop = "machine"
    BY <2>1 DEF TypeOK, SharedState
  <2>4. pc = "look"
    BY <1>2 DEF LookMoves
  <2> QED
    BY <2>1, <2>2, <2>3, <2>4 DEF clock, history
<1> QED
  BY <1>1, <1>2 DEF Look

LEMMA RestCarry == ASSUME TypeOK, Rest, Carry \/ RecordRaises PROVE Rest'
<1>1. ASSUME Record PROVE Rest'
  <2>1. /\ s'.phase = plan /\ s'.done = s.done /\ s'.closing = s.closing /\ s'.stop = s.stop
        /\ s'.rid = s.rid
    BY <1>1 DEF Record, TypeOK, SharedState
  <2> QED
    BY <1>1, <2>1 DEF Record, clock
<1>2. ASSUME Enter PROVE Rest'
  <2>1. s'.phase = s.phase /\ s'.done = s.done /\ s'.closing = s.closing /\ s'.stop = s.stop
    BY <1>2 DEF Enter, TypeOK, SharedState
  <2>2. pc' \in {"work", "look", "check"}
    BY <1>2, ReturnTyped DEF Enter, TypeOK
  <2> QED
    BY <1>2, <2>1, <2>2 DEF Enter, clock, history
<1>3. ASSUME Interrupted PROVE Rest'
  <2>1. pc' \in {"work", "look", "check"}
    BY <1>3, ReturnTyped DEF Interrupted, TypeOK
  <2>2. late
    BY <1>3 DEF Interrupted, BoundElapsed
  <2> QED
    BY <1>3, <2>1, <2>2, LookEnds DEF Interrupted, clock, history
<1>4. ASSUME RecordRaises PROVE Rest'
  <2>1. pc' \in {"work", "look", "check"}
    BY <1>4, ReturnTyped DEF RecordRaises, TypeOK
  <2>2. faults' # 0
    BY <1>4 DEF RecordRaises, TypeOK
  <2> QED
    BY <1>4, <2>1, <2>2 DEF RecordRaises, clock
<1> QED
  BY <1>1, <1>2, <1>3, <1>4 DEF Carry

LEMMA RestSequence == ASSUME TypeOK, Rest, Sequence \/ SeqReportRaises PROVE Rest'
<1>1. ASSUME SeqStart PROVE Rest'
  <2>1. s'.phase = s.phase /\ s'.done = s.done /\ s'.closing = s.closing
    BY <1>1 DEF SeqStart, TypeOK, SharedState
  <2> QED
    BY <1>1, <2>1 DEF SeqStart, loopVars, clock, history
<1>2. ASSUME SeqReport PROVE Rest'
  <2>1. /\ s'.phase = s.phase /\ s'.done = s.done /\ s'.closing = s.closing /\ s'.stop = s.stop
        /\ s'.rid = Reported
    BY <1>2 DEF SeqReport, TypeOK, SharedState
  <2>2. Reported # NoReport
    BY DEF Reported, NoReport, Entry, Retry
  <2>3. pc' \in {"run", "await", "rest"} /\ (d' = s' \/ d' = d)
    BY <1>2 DEF SeqReport
  <2> QED
    BY <1>2, <2>1, <2>2, <2>3 DEF SeqReport, clock, history
<1>3. ASSUME SeqReported \/ SeqGivesUp PROVE Rest'
  BY <1>3 DEF SeqReported, SeqGivesUp, clock, history
<1>4. ASSUME SeqDone PROVE Rest'
  <2>1. s'.phase = s.phase /\ s'.done = TRUE /\ s'.closing = s.closing
    BY <1>4 DEF SeqDone, TypeOK, SharedState
  <2>2. pc' \in {"work", "look", "check"}
    BY <1>4, ReturnTyped DEF SeqDone, TypeOK
  <2> QED
    BY <1>4, <2>1, <2>2 DEF SeqDone, clock
<1>5. ASSUME SeqReportRaises PROVE Rest'
  BY <1>5 DEF SeqReportRaises, loopVars, clock
<1>6. ASSUME SeqForgets PROVE Rest'
  <2>1. s'.phase = s.phase /\ s'.done = s.done /\ s'.closing = s.closing /\ s'.stop = s.stop
    BY <1>6 DEF SeqForgets, TypeOK, SharedState
  <2>2. faults' = faults \/ faults' # 0
    BY <1>6 DEF SeqForgets, TypeOK
  <2> QED
    BY <1>6, <2>1, <2>2 DEF SeqForgets, loopVars, clock
<1>7. ASSUME SeqRuns PROVE Rest'
  BY <1>7 DEF SeqRuns, clock, history
<1> QED
  BY <1>1, <1>2, <1>3, <1>4, <1>5, <1>6, <1>7 DEF Sequence

LEMMA RestOther ==
  ASSUME TypeOK, Rest, Work \/ Check \/ Stopped \/ OpenReportRaises \/ Environment \/ Crash \/ Resume
  PROVE  Rest'
<1>1. ASSUME Work PROVE Rest'
  <2>1. s'.phase = s.phase /\ s'.done = s.done /\ s'.closing = s.closing /\ s'.stop = s.stop
    <3>1. s' = s \/ \E h \in {"move", "close"} : s' = [s EXCEPT !.hint = h]
      BY <1>1 DEF Work
    <3> QED
      BY <3>1 DEF TypeOK, SharedState
  <2> QED
    BY <1>1, <2>1 DEF Work, clock, history
<1>2. ASSUME NEW r, EndWith(r), pc = "check", r = "loop" \/ r = s.stop PROVE Rest'
  <2>1. s'.phase = s.phase /\ s'.done = s.done /\ s'.closing = FALSE /\ s'.stop = r
    BY <1>2 DEF EndWith, TypeOK, SharedState
  <2> QED
    BY <1>2, <2>1 DEF EndWith, loopVars, clock, history
<1>3. ASSUME Stopped \/ StopRecorded \/ Closed PROVE Rest'
  BY <1>2, <1>3 DEF Stopped, StopRecorded, Closed
<1>4. ASSUME NextTick PROVE Rest'
  <2>1. s'.phase = s.phase /\ s'.done = s.done /\ s'.closing = s.closing /\ s'.stop = s.stop
    BY <1>4 DEF NextTick, TypeOK, SharedState
  <2> QED
    BY <1>4, <2>1 DEF NextTick, clock, history
<1>5. ASSUME EnterClosing PROVE Rest'
  <2>1. s'.phase = s.phase /\ s'.done = s.done /\ s'.stop = s.stop
    BY <1>5 DEF EnterClosing, TypeOK, SharedState
  <2> QED
    BY <1>5, <2>1 DEF EnterClosing, loopVars, clock, history
<1>6. ASSUME OpenReport PROVE Rest'
  <2>1. s'.phase = s.phase /\ s'.done = s.done /\ s'.closing = s.closing /\ s'.stop = s.stop
    BY <1>6 DEF OpenReport, TypeOK, SharedState
  <2> QED
    BY <1>6, <2>1 DEF OpenReport, history
<1>7. ASSUME OpenReportRaises PROVE Rest'
  <2>1. s'.phase = s.phase /\ s'.done = s.done /\ s'.closing = FALSE
    BY <1>7 DEF OpenReportRaises, TypeOK, SharedState
  <2>2. faults' # 0
    BY <1>7 DEF OpenReportRaises, TypeOK
  <2> QED
    BY <1>7, <2>1, <2>2 DEF OpenReportRaises, loopVars, clock
<1>8. ASSUME Writeback PROVE Rest'
  <2>1. /\ s'.phase = s.phase /\ s'.done = s.done /\ s'.closing = s.closing /\ s'.rid = s.rid
        /\ s'.stop = "machine" => s.stop = "machine"
    <3>1. \/ s' = s
          \/ s' = [s EXCEPT !.stop = "work"]
          \/ \E w \in {"ok", "failed"} : s' = [s EXCEPT !.swept = w]
      BY <1>8 DEF Writeback
    <3> QED
      BY <3>1 DEF TypeOK, SharedState
  <2> QED
    BY <1>8, <2>1 DEF Writeback, loopVars, clock, history
<1>9. ASSUME FinishReport PROVE Rest'
  BY <1>9 DEF FinishReport, loopVars, clock, history
<1>10. ASSUME DeadlinePasses \/ GracePasses PROVE Rest'
  BY <1>10 DEF DeadlinePasses, GracePasses, loopVars, history
<1>11. ASSUME Crash PROVE Rest'
  BY <1>11 DEF Crash, clock, history
<1>12. ASSUME Resume PROVE Rest'
  <2>1. /\ Begun.phase = d.phase /\ Begun.done = d.done /\ Begun.stop = ""
        /\ Begun.closing => d.closing /\ d.stop = ""
    BY DEF Begun, TypeOK, SharedState
  <2>2. Begun \in SharedState
    BY BegunTyped
  <2>3. /\ Reopened.phase # "CLOSE" /\ ~Reopened.done
        /\ Reopened.stop = "" /\ Reopened.closing = Begun.closing
    BY <2>1, <2>2 DEF Reopened, SharedState
  <2>4. s' = Reopened /\ d' = Reopened /\ pc' = "look" /\ late' = (d.stop = "" /\ late)
    BY <1>12 DEF Resume
  <2> QED
    BY <2>1, <2>3, <2>4
<1> QED
  BY <1>1, <1>3, <1>4, <1>5, <1>6, <1>7, <1>8, <1>9, <1>10, <1>11, <1>12 DEF Check, Environment

LEMMA Inductive == IInv /\ [Next]_vars => IInv'
<1> SUFFICES ASSUME IInv, [Next]_vars PROVE IInv'
  OBVIOUS
<1>1. TypeOK'
  BY TypeStep DEF IInv
<1>2. ASSUME Next PROVE Rest'
  <2>1. TypeOK /\ Rest
    BY DEF IInv
  <2> QED
    BY <1>2, <2>1, RestLook, RestCarry, RestSequence, RestOther DEF Next, Raises
<1>3. ASSUME UNCHANGED vars PROVE Rest'
  BY <1>3 DEF vars, IInv
<1> QED
  BY <1>1, <1>2, <1>3 DEF IInv

LEMMA Initial == Init => IInv
<1> SUFFICES ASSUME Init PROVE IInv
  OBVIOUS
<1>1. s = Fresh /\ d = Fresh /\ pc = "look"
  BY DEF Init
<1>2. Fresh.phase = "PRELUDE" /\ Fresh.done = FALSE /\ Fresh.closing = FALSE /\ Fresh.stop = ""
  BY DEF Fresh
<1> QED
  BY <1>1, <1>2, TypeInit DEF IInv

\* The strengthening holds of every session.
LEMMA InvariantHolds == Spec => []IInv
<1> HIDE DEF Rest, InOrder, ClosingIsLate, OnItsWay, EndedRight, DoneIsThisLegs
<1> QED
  BY Initial, Inductive, PTL DEF Spec

-----------------------------------------------------------------------------
\* Theorems

\* Every variable keeps its type; the macro-cycle counter stays under the cap of
\* should_reloop_to_explore however often transitions are lost and retried.
THEOREM SessionTypeCorrect == Spec => []TypeOK
<1>1. IInv => TypeOK
  BY DEF IInv
<1> QED
  BY <1>1, InvariantHolds, PTL

\* A run that ends on a stop reason of the phase machine, before its deadline and
\* without a storage error, ends in CLOSE after the whole sequence of
\* _on_enter_close: no tick boundary lies between the reason and the sequence.
THEOREM EndedRightHolds == Spec => []EndedRight
<1>1. IInv => EndedRight
  BY DEF IInv
<1> QED
  BY <1>1, InvariantHolds, PTL

\* close_sequence_done is never a previous leg's answer: it is only ever saved with
\* CLOSE, and a session saved in CLOSE is reopened with the flag cleared.
THEOREM DoneIsThisLegsHolds == Spec => []DoneIsThisLegs
<1>1. IInv => DoneIsThisLegs
  BY DEF IInv
<1> QED
  BY <1>1, InvariantHolds, PTL

\* Only a transition cancels queued rows, and the only transition made in the
\* closing phase is the one into CLOSE, which admits the report.
LEMMA ReportKept ==
  ASSUME IInv, [Next]_vars, s.closing, s.rid # NoReport, rows[s.rid] = "queued"
  PROVE  rows'[s.rid] # "dead"
<1>0. s.rid \in Key /\ rows \in [Key -> RowState] /\ (pc = "cancel" => plan = "CLOSE")
  BY DEF IInv, TypeOK, SharedState
<1>1. ASSUME UNCHANGED rows PROVE rows'[s.rid] # "dead"
  BY <1>1
<1>2. ASSUME Carry \/ RecordRaises PROVE rows'[s.rid] # "dead"
  <2>1. pc = "cancel" => Dropped[s.rid] # "dead"
    BY <1>0 DEF Dropped
  <2>2. Abandoned[s.rid] # "dead"
    BY <1>0 DEF Abandoned
  <2> QED
    BY <1>2, <2>1, <2>2 DEF Carry, Record, Enter, Interrupted, RecordRaises
<1>3. ASSUME Sequence \/ SeqReportRaises PROVE rows'[s.rid] # "dead"
  <2>1. Abandoned[s.rid] # "dead"
    BY <1>0 DEF Abandoned
  <2>2. ASSUME SeqReport PROVE rows'[s.rid] # "dead"
    BY <1>0, <2>2 DEF SeqReport
  <2>3. ASSUME SeqRuns PROVE rows'[s.rid] # "dead"
    BY <1>0, <2>3 DEF SeqRuns
  <2> QED
    BY <1>3, <2>1, <2>2, <2>3
    DEF Sequence, SeqStart, SeqForgets, SeqReported, SeqGivesUp, SeqDone, SeqReportRaises
<1>4. ASSUME Work \/ FinishReport \/ Resume PROVE rows'[s.rid] # "dead"
  BY <1>0, <1>4 DEF Work, FinishReport, Resume
<1>5. ASSUME OpenReport PROVE rows'[s.rid] # "dead"
  BY <1>0, <1>5 DEF OpenReport
<1>6. ASSUME Look PROVE UNCHANGED rows
  BY <1>6 DEF Look, LookSkipped, LookStays, LookMoves, Decide
<1>7. ASSUME Stopped \/ StopRecorded \/ Closed \/ NextTick \/ EnterClosing \/ OpenReportRaises \/ Crash
      PROVE  UNCHANGED rows
  BY <1>7 DEF Stopped, StopRecorded, Closed, EndWith, NextTick, EnterClosing, OpenReportRaises, Crash
<1>8. ASSUME Writeback \/ DeadlinePasses \/ GracePasses PROVE UNCHANGED rows
  BY <1>8 DEF Writeback, DeadlinePasses, GracePasses
<1>9. ASSUME UNCHANGED vars PROVE UNCHANGED rows
  BY <1>9 DEF vars
<1> QED
  BY <1>1, <1>2, <1>3, <1>4, <1>5, <1>6, <1>7, <1>8, <1>9 DEF Next, Check, Raises, Environment

\* Whatever the closing phase, a crash in it or the leg after it does next, the
\* report row recorded by _enter_closing_phase is not cancelled before it ran.
THEOREM ClosingReportLivesHolds == Spec => ClosingReportLives
<1>1. IInv /\ [Next]_vars => [s.closing /\ s.rid # NoReport /\ rows[s.rid] = "queued" => rows'[s.rid] # "dead"]_vars
  BY ReportKept
<1> HIDE DEF IInv
<1> QED
  BY <1>1, InvariantHolds, PTL DEF Spec, ClosingReportLives

\* The loopback is only chosen in SWEEP, and not while closing.
LEMMA LoopsFromSweep ==
  ASSUME TypeOK, NEW n \in NextPhases, n.loop
  PROVE  s.phase = "SWEEP" /\ ~s.closing
<1>1. ASSUME NEW p, NEW t PROVE To(p, t).loop = FALSE
  BY DEF To
<1>2. s.phase = "SWEEP"
  <2>1. n \in LocalExits
    BY <1>1 DEF NextPhases
  <2>2. s.phase \in Phase /\ s.phase # "CLOSE"
    BY DEF NextPhases, TypeOK, SharedState
  <2> QED
    BY <1>1, <2>1, <2>2 DEF LocalExits, Phase
<1>3. ~s.closing
  BY <1>1, <1>2 DEF NextPhases
<1> QED
  BY <1>2, <1>3

\* What the sessions so far have earned: one cycle per visit to SWEEP, one per error
\* and one per crash or resumption.
Earned == sweeps + faults + (leg - 1)

\* In SWEEP, unless a transition is under way, a cycle is still to spare: before the
\* deadline no bound cuts a transition, so one that counted its cycle and was lost
\* was lost to an error or a crash.
Spare ==
  /\ s.cycle <= Earned /\ d.cycle <= Earned
  /\ Up /\ pc # "cancel" /\ s.phase = "SWEEP" /\ ~late => s.cycle + 1 <= Earned

LEMMA EarnedTyped ==
  ASSUME TypeOK
  PROVE  /\ sweeps \in Nat /\ faults \in Nat /\ leg \in Nat /\ leg >= 1
         /\ s.cycle \in Nat /\ d.cycle \in Nat /\ Earned \in Nat
<1>1. /\ sweeps \in Nat /\ faults \in 0..MaxFaults /\ leg \in 1..MaxLegs
      /\ s.cycle \in 0..(MaxCycles - 1) /\ d.cycle \in 0..(MaxCycles - 1)
      /\ MaxCycles \in Nat /\ MaxLegs \in Nat /\ MaxFaults \in Nat
  BY SessionConstants DEF SessionConstants, TypeOK, SharedState
<1> QED
  BY <1>1 DEF Earned

\* A step that neither counts, moves nor loses anything.
LEMMA SpareKept ==
  ASSUME TypeOK, Spare, s'.cycle = s.cycle, s'.phase = s.phase, d'.cycle = d.cycle \/ d'.cycle = s.cycle,
         sweeps' = sweeps, faults' \in {faults, faults + 1}, leg' = leg, late => late',
         pc # "cancel", Up' => Up
  PROVE  Spare'
<1>1. Earned' \in {Earned, Earned + 1} /\ Earned \in Nat /\ s.cycle \in Nat /\ d.cycle \in Nat
  BY EarnedTyped DEF Earned
<1>2. \A i, j, k \in Nat : i <= j /\ k \in {j, j + 1} => i <= k
  OBVIOUS
<1>3. Earned' \in Nat /\ Earned <= Earned'
  BY <1>1
<1> QED
  BY <1>1, <1>2, <1>3 DEF Spare

LEMMA SpareStep == ASSUME IInv, Spare, [Next]_vars PROVE Spare'
<1>0. TypeOK /\ ClosingIsLate
  BY DEF IInv
<1>a. /\ sweeps \in Nat /\ faults \in Nat /\ leg \in Nat /\ leg >= 1
      /\ s.cycle \in Nat /\ d.cycle \in Nat /\ Earned \in Nat
  BY <1>0, EarnedTyped
<1>1. ASSUME LookMoves PROVE Spare'
  <2>1. PICK n \in NextPhases :
          /\ s' = [s EXCEPT !.hint  = HintAfter(n),
                            !.stop  = IF n.terminal /\ s.stop = "" THEN "machine" ELSE @,
                            !.cycle = IF n.loop THEN @ + 1 ELSE @,
                            !.swept = IF n.loop THEN "" ELSE @]
          /\ plan' = n.to /\ pc' = "cancel"
          /\ UNCHANGED <<d, rows, turn, own, inClosing, clock, history>>
    BY <1>1 DEF LookMoves, Decide
  <2>2. s'.cycle = s.cycle \/ (n.loop /\ s'.cycle = s.cycle + 1)
    BY <1>0, <2>1 DEF TypeOK, SharedState
  <2>3. n.loop => s.cycle + 1 <= Earned
    BY <1>0, <1>1, LoopsFromSweep DEF LookMoves, BoundElapsed, Spare
  <2>4. Earned' = Earned /\ d' = d
    BY <2>1 DEF Earned, history
  <2> QED
    BY <2>1, <2>2, <2>3, <2>4 DEF Spare
<1>2. ASSUME Record PROVE Spare'
  <2>1. s'.phase = plan /\ s'.cycle = s.cycle /\ d' = s'
    BY <1>0, <1>2 DEF Record, TypeOK, SharedState
  <2>2. Earned' = IF plan = "SWEEP" THEN Earned + 1 ELSE Earned
    BY <1>2, <1>a DEF Record, Earned
  <2> QED
    BY <1>a, <2>1, <2>2 DEF Spare
<1>3. ASSUME RecordRaises PROVE Spare'
  <2>1. s' = s /\ d' = s /\ Earned' = Earned + 1
    BY <1>3, <1>a DEF RecordRaises, Earned
  <2> QED
    BY <1>a, <2>1 DEF Spare
<1>4. ASSUME Interrupted PROVE Spare'
  <2>1. s' = s /\ d' = d /\ Earned' = Earned /\ late' /\ late
    BY <1>0, <1>4 DEF Interrupted, Earned, clock, history, BoundElapsed
  <2> QED
    BY <2>1 DEF Spare
<1>5. ASSUME Crash PROVE Spare'
  <2>1. s' = d /\ d' = d /\ Earned' = Earned /\ pc' = "down"
    BY <1>5 DEF Crash, Earned, history
  <2> QED
    BY <2>1 DEF Spare
<1>6. ASSUME Resume PROVE Spare'
  <2>1. Begun.cycle = d.cycle /\ Begun \in SharedState
    <3>1. Begun.cycle = d.cycle
      BY <1>0 DEF Begun, TypeOK, SharedState
    <3> QED
      BY <1>0, <3>1, BegunTyped
  <2>2. Reopened.cycle = d.cycle
    BY <2>1 DEF Reopened, SharedState
  <2>3. s'.cycle = d.cycle /\ d'.cycle = d.cycle
    BY <1>6, <2>2 DEF Resume
  <2>4. sweeps' = sweeps /\ faults' = faults /\ leg' = leg + 1
    BY <1>6 DEF Resume
  <2>5. Earned' = Earned + 1
    BY <1>a, <2>4 DEF Earned
  <2> QED
    BY <1>a, <2>3, <2>5 DEF Spare
<1>7. ASSUME Writeback PROVE Spare'
  <2>1. s'.phase = s.phase /\ s'.cycle = s.cycle /\ d' = s'
    <3>1. \/ s' = s
          \/ s' = [s EXCEPT !.stop = "work"]
          \/ \E w \in {"ok", "failed"} : s' = [s EXCEPT !.swept = w]
      BY <1>7 DEF Writeback
    <3> QED
      BY <1>0, <1>7, <3>1 DEF Writeback, TypeOK, SharedState
  <2>2. Earned' = Earned /\ pc' = pc /\ late' = late
    BY <1>7 DEF Writeback, Earned, history, clock
  <2> QED
    BY <2>1, <2>2 DEF Spare
<1>8. ASSUME FinishReport \/ DeadlinePasses \/ GracePasses PROVE Spare'
  <2>1. /\ s' = s /\ d' = d /\ Earned' = Earned /\ pc' = pc
        /\ late => late'
    BY <1>8 DEF FinishReport, DeadlinePasses, GracePasses, Earned, history, clock
  <2> QED
    BY <2>1 DEF Spare
<1>9. ASSUME \/ LookSkipped \/ LookStays \/ Enter \/ Sequence \/ Work \/ Check \/ Stopped
             \/ SeqReportRaises \/ OpenReportRaises
      PROVE  Spare'
  <2>1. s'.cycle = s.cycle /\ s'.phase = s.phase
    <3>1. CASE LookSkipped \/ LookStays \/ Enter \/ Work
      <4>1. CASE LookSkipped \/ LookStays
        BY <4>1 DEF LookSkipped, LookStays
      <4>2. CASE Enter \/ Work
        <5>1. /\ s \in SharedState
              /\ \/ s' = s \/ s' = [s EXCEPT !.swept = "ok"]
                 \/ \E h \in {"move", "close"} : s' = [s EXCEPT !.hint = h]
          <6>1. s \in SharedState
            BY <1>0 DEF TypeOK
          <6>2. CASE Enter
            BY <6>1, <6>2 DEF Enter
          <6>3. CASE Work
            BY <6>1, <6>3 DEF Work
          <6> QED
            BY <4>2, <6>2, <6>3
        <5> QED
          BY <5>1 DEF SharedState
      <4> QED
        BY <3>1, <4>1, <4>2
    <3>2. CASE SeqReport
      <4>1. s \in SharedState /\ s' = [s EXCEPT !.rid = Reported]
        BY <1>0, <3>2 DEF SeqReport, TypeOK
      <4> QED
        BY <4>1 DEF SharedState
    <3>3. CASE Sequence \/ SeqReportRaises
      <4>1. CASE SeqStart \/ SeqForgets \/ SeqRuns \/ SeqReportRaises
        <5>1. /\ s \in SharedState
              /\ \/ s' = [s EXCEPT !.stop = IF @ = "" THEN "machine" ELSE @]
                 \/ s' = [s EXCEPT !.rid = NoReport]
                 \/ s' = s
          BY <1>0, <4>1 DEF SeqStart, SeqForgets, SeqRuns, SeqReportRaises, TypeOK
        <5> QED
          BY <5>1 DEF SharedState
      <4>2. CASE SeqReported \/ SeqGivesUp \/ SeqDone
        BY <1>0, <4>2 DEF SeqReported, SeqGivesUp, SeqDone, TypeOK, SharedState
      <4> QED
        BY <3>2, <3>3, <4>1, <4>2 DEF Sequence
    <3>4. CASE Check \/ Stopped \/ OpenReportRaises
      BY <1>0, <3>4
      DEF Check, Stopped, StopRecorded, Closed, EndWith, NextTick, EnterClosing, OpenReport,
          OpenReportRaises, TypeOK, SharedState
    <3> QED
      BY <1>9, <3>1, <3>3, <3>4
  <2>2. pc \in {"look", "enter", "close", "report", "run", "await", "rest", "work", "check", "closing"}
    BY <1>9
    DEF LookSkipped, LookStays, Enter, Sequence, SeqStart, SeqForgets, SeqReport, SeqRuns, SeqReported,
        SeqGivesUp, SeqDone, Work, Check, Stopped, StopRecorded, Closed, EndWith, NextTick, EnterClosing, OpenReport,
        SeqReportRaises, OpenReportRaises
  <2>3. d' = d \/ d' = s'
    BY <1>9
    DEF LookSkipped, LookStays, Enter, Sequence, SeqStart, SeqForgets, SeqReport, SeqRuns, SeqReported,
        SeqGivesUp, SeqDone, Work, Check, Stopped, StopRecorded, Closed, EndWith, NextTick, EnterClosing, OpenReport,
        SeqReportRaises, OpenReportRaises
  <2>4. sweeps' = sweeps /\ faults' \in {faults, faults + 1} /\ leg' = leg
    BY <1>9
    DEF LookSkipped, LookStays, Enter, Sequence, SeqStart, SeqForgets, SeqReport, SeqRuns, SeqReported,
        SeqGivesUp, SeqDone, Work, Check, Stopped, StopRecorded, Closed, EndWith, NextTick, EnterClosing, OpenReport,
        SeqReportRaises, OpenReportRaises, history
  <2>5. late' = late
    BY <1>9
    DEF LookSkipped, LookStays, Enter, Sequence, SeqStart, SeqForgets, SeqReport, SeqRuns, SeqReported,
        SeqGivesUp, SeqDone, Work, Check, Stopped, StopRecorded, Closed, EndWith, NextTick, EnterClosing, OpenReport,
        SeqReportRaises, OpenReportRaises, clock
  <2>6. d'.cycle = d.cycle \/ d'.cycle = s.cycle
    BY <2>1, <2>3
  <2>7. pc # "cancel" /\ Up
    BY <2>2
  <2> QED
    BY <1>0, <2>1, <2>4, <2>5, <2>6, <2>7, SpareKept
<1>10. ASSUME UNCHANGED vars PROVE Spare'
  BY <1>10 DEF vars, Spare, Earned
<1> QED
  BY <1>1, <1>2, <1>3, <1>4, <1>5, <1>6, <1>7, <1>8, <1>9, <1>10
  DEF Next, Look, Carry, Raises, Environment

\* SWEEP's loopback counts a macro-cycle in memory before it is recorded: retried
\* after a cut, an error or a crash, it is counted again only where an error or a
\* crash lost it.
THEOREM CycleIsEarnedHolds == Spec => []CycleIsEarned
<1>1. Init => Spare
  <2> SUFFICES ASSUME Init PROVE Spare
    OBVIOUS
  <2>1. s = Fresh /\ d = Fresh /\ sweeps = 0 /\ faults = 0 /\ leg = 1
    BY DEF Init
  <2>2. Fresh.cycle = 0 /\ Fresh.phase = "PRELUDE"
    BY DEF Fresh
  <2>3. Earned = 0
    BY <2>1 DEF Earned
  <2> QED
    BY <2>1, <2>2, <2>3 DEF Spare
<1>2. IInv /\ Spare /\ [Next]_vars => Spare'
  BY SpareStep
<1>3. Spare => CycleIsEarned
  BY DEF Spare, Earned, CycleIsEarned
<1> HIDE DEF IInv
<1> QED
  BY <1>1, <1>2, <1>3, InvariantHolds, PTL DEF Spec

=============================================================================
