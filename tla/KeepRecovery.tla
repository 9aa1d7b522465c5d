---------------------------- MODULE KeepRecovery ----------------------------
(***************************************************************************)
(* How a KernelForge campaign (kernelforge/loop/runner.py) makes a verified *)
(* candidate durable and recovers it: a KEEP is journalled, committed to   *)
(* git, reduced into run_state.json and events.jsonl, published and        *)
(* archived, each with a write of its own, and the process may die between *)
(* any two of them or one of them may fail.  A resume plans its recovery   *)
(* from what it finds and then carries it out, with the same exposure.     *)
(*                                                                         *)
(* A commit is named by the iterations whose candidates lead to it, the    *)
(* campaign's base commit being <<>>.                                      *)
(***************************************************************************)
EXTENDS Naturals, FiniteSets, SequencesExt

CONSTANTS
    MaxIteration,   \* bound on the iterations a campaign starts
    MaxCrashes,     \* bound on process deaths
    MaxFaults,      \* bound on writes that fail
    NewFiles,       \* does the campaign allowlist new files (commit_new_paths)?
    None

Iteration == 1 .. MaxIteration

ASSUME RecoveryAssumption ==
    /\ {MaxIteration, MaxCrashes, MaxFaults} \subseteq Nat
    /\ NewFiles \in BOOLEAN
    /\ None \notin [iter : Iteration, base : Seq(Iteration)]

VARIABLES
    head,      \* git HEAD
    shipped,   \* iterations whose commit carries a new file
    tree,      \* tracked changes relative to HEAD
    stray,     \* an untracked allowlisted file: the iteration's own, or older
    journal,   \* pending_keep.json
    st,        \* run_state.json
    log,       \* the iteration_result events of events.jsonl
    begun,     \* highest iteration any other event there names
    manifest,  \* the commit best/manifest.json publishes
    archive,   \* iterations archived as a KEEP
    pc,        \* next step of the process, "down" without one
    mem,       \* its RunState
    crashes, faults,
    given,     \* history: highest number an agent's session was started with
    astray     \* history: was a KEEP ever given up whose commit HEAD holds?

gitVars == <<head, shipped, tree, stray>>
viewVars == <<manifest, archive>>
countVars == <<crashes, faults>>
historyVars == <<given, astray>>
vars == <<gitVars, journal, st, log, begun, viewVars, pc, mem, countVars, historyVars>>

Clean == [iter |-> 0, new |-> FALSE]
Fresh == [next |-> 1, best |-> <<>>, kept |-> 0, counted |-> 0]
State ==
    [next : 1 .. MaxIteration + 1, best : Seq(Iteration), kept : Nat, counted : 0 .. MaxIteration]

Resuming == {"restore", "forget", "relog", "resave", "reconcile", "renumber",
             "rearchive", "republish", "clear"}
Keeping == {"journal", "stage", "commit", "promote", "record", "finalize",
            "unjournal", "publish", "archive"}
Reverting == {"backout", "unkeep", "discard", "reject", "settle"}

TypeOK ==
    /\ head \in Seq(Iteration) /\ shipped \in SUBSET Iteration
    /\ tree \in [iter : 0 .. MaxIteration, new : BOOLEAN] /\ stray \in {"none", "own", "old"}
    /\ journal = None \/ journal \in [iter : Iteration, base : Seq(Iteration)]
    /\ st \in State /\ mem \in State
    /\ log \in Seq([iter : Iteration, keep : BOOLEAN, commit : Seq(Iteration)])
    /\ begun \in 0 .. MaxIteration /\ given \in 0 .. MaxIteration /\ astray \in BOOLEAN
    /\ manifest \in Seq(Iteration) /\ archive \in SUBSET Iteration
    /\ pc \in {"down", "top", "policy", "announce", "agent"} \cup Resuming \cup Keeping \cup Reverting
    /\ crashes \in 0 .. MaxCrashes /\ faults \in 0 .. MaxFaults

Init ==
    /\ head = <<>> /\ shipped = {} /\ tree = Clean /\ stray = "none"
    /\ journal = None /\ st = Fresh /\ log = <<>> /\ begun = 0
    /\ manifest = <<>> /\ archive = {}
    /\ pc = "top" /\ mem = Fresh /\ crashes = 0 /\ faults = 0
    /\ given = 0 /\ astray = FALSE

Goto(step) == pc' = step

(* A write that works, or one that fails and is survived: the store logs    *)
(* its failures and goes on.                                                *)
Works == UNCHANGED countVars
Fails == faults < MaxFaults /\ faults' = faults + 1 /\ UNCHANGED crashes

Exit == pc' = "down" /\ mem' = st'

-----------------------------------------------------------------------------
(* The reduction of one iteration into a RunState (apply_iteration). *)
Counted(s, n) == [s EXCEPT !.next = n + 1, !.counted = @ + 1]
Kept(s, n) == [Counted(s, n) EXCEPT !.best = head, !.kept = @ + 1]

Results == ToSet(log)
EventOf(n) == {e \in Results : e.iter = n}
Append1(e) == log' = Append(log, e)
KeepEvent == [iter |-> Last(head), keep |-> TRUE, commit |-> head]

(* _git_discard_all_tracked_changes: a staged new file goes with the index, *)
(* an untracked one only if this process saw it come.                       *)
Discard ==
    /\ tree' = Clean
    /\ stray' = IF stray = "own" THEN "none" ELSE stray
    /\ UNCHANGED <<head, shipped>>

-----------------------------------------------------------------------------
(* The iteration. *)

(* _update_search_policy appends its decision to the log and saves. *)
Begin ==
    /\ pc = "top" /\ mem.next \in Iteration
    /\ \/ Works /\ begun' = mem.next
       \/ Fails /\ UNCHANGED begun
    /\ Goto("policy")
    /\ UNCHANGED <<gitVars, journal, st, log, viewVars, mem, historyVars>>

SavePolicy ==
    /\ pc = "policy"
    /\ \/ Works /\ st' = mem
       \/ Fails /\ UNCHANGED st
    /\ Goto("announce")
    /\ UNCHANGED <<gitVars, journal, log, begun, viewVars, mem, historyVars>>

(* The untracked files are snapshotted, iteration_started is appended and   *)
(* the agent's session starts.                                              *)
Announce ==
    /\ pc = "announce"
    /\ stray' = IF stray = "own" THEN "old" ELSE stray
    /\ \/ Works /\ begun' = mem.next
       \/ Fails /\ UNCHANGED begun
    /\ given' = mem.next
    /\ Goto("agent")
    /\ UNCHANGED <<head, shipped, tree, journal, st, log, viewVars, mem, astray>>

(* The session edits tracked files or makes a new one; nothing is decided.  *)
Edit ==
    /\ pc = "agent"
    /\ \/ tree = Clean /\ tree' = [iter |-> mem.next, new |-> FALSE] /\ UNCHANGED stray
       \/ NewFiles /\ stray = "none" /\ stray' = "own" /\ UNCHANGED tree
    /\ UNCHANGED <<head, shipped, journal, st, log, begun, viewVars, pc, mem, countVars, historyVars>>

(* Build, correctness suite, benchmark and canonical suite decide; a        *)
(* candidate of new files alone is never kept.                              *)
Verdict ==
    /\ pc = "agent"
    /\ \/ tree = Clean /\ stray = "none" /\ Goto("reject")
       \/ (tree # Clean \/ stray # "none") /\ Goto("discard")
       \/ tree # Clean /\ Goto("journal")
    /\ UNCHANGED <<gitVars, journal, st, log, begun, viewVars, mem, countVars, historyVars>>

DiscardCandidate ==
    /\ pc = "discard" /\ Discard /\ Goto("reject")
    /\ UNCHANGED <<journal, st, log, begun, viewVars, mem, countVars, historyVars>>

(* _record_iteration_outcome of an iteration that is not kept. *)
Reject ==
    /\ pc = "reject"
    /\ mem' = Counted(mem, mem.next)
    /\ \/ Works /\ Append1([iter |-> mem.next, keep |-> FALSE, commit |-> <<>>])
       \/ Fails /\ UNCHANGED log
    /\ Goto("settle")
    /\ UNCHANGED <<gitVars, journal, st, begun, viewVars, historyVars>>

Settle ==
    /\ pc = "settle"
    /\ \/ Works /\ st' = mem
       \/ Fails /\ UNCHANGED st
    /\ Goto("top")
    /\ UNCHANGED <<gitVars, journal, log, begun, viewVars, mem, historyVars>>

-----------------------------------------------------------------------------
(* The KEEP. *)

(* _persist_pending_keep; the patch it holds is the tracked diff. *)
WriteJournal ==
    /\ pc = "journal"
    /\ \/ Works /\ journal' = [iter |-> mem.next, base |-> head] /\ Goto("stage")
       \/ Fails /\ UNCHANGED journal /\ Goto("backout")
    /\ UNCHANGED <<gitVars, st, log, begun, viewVars, mem, historyVars>>

(* git add -u, and by name whatever new file the allowlist admits. *)
Stage ==
    /\ pc = "stage"
    /\ tree' = [tree EXCEPT !.new = stray # "none"] /\ stray' = "none"
    /\ \/ Works /\ Goto("commit")
       \/ Fails /\ Goto("backout")
    /\ UNCHANGED <<head, shipped, journal, st, log, begun, viewVars, mem, historyVars>>

(* git commit, and rev-parse to read the new HEAD back: when it is the      *)
(* second that fails, the back-out starts with HEAD at the new commit.      *)
Committing ==
    /\ head' = Append(head, mem.next) /\ tree' = Clean
    /\ shipped' = IF tree.new THEN shipped \cup {mem.next} ELSE shipped

Commit ==
    /\ pc = "commit"
    /\ \/ Works /\ Committing /\ Goto("promote")
       \/ Fails /\ Committing /\ Goto("backout")
       \/ Fails /\ UNCHANGED <<head, tree, shipped>> /\ Goto("backout")
    /\ UNCHANGED <<stray, journal, st, log, begun, viewVars, mem, historyVars>>

(* The commit failed: discard, then drop the journal, then record a crash. *)
Backout_keeps_journal ==
    /\ pc = "backout" /\ Discard /\ Goto("reject")
    /\ UNCHANGED <<journal, st, log, begun, viewVars, mem, countVars, historyVars>>

Backout ==
    /\ pc = "backout" /\ Discard /\ Goto("unkeep")
    /\ UNCHANGED <<journal, st, log, begun, viewVars, mem, countVars, historyVars>>

Unkeep ==
    /\ pc = "unkeep"
    /\ journal' = None
    /\ astray' = (astray \/ (journal # None /\ head # journal.base))
    /\ Goto("reject")
    /\ UNCHANGED <<gitVars, st, log, begun, viewVars, mem, countVars, given>>

(* _promote_best saves the RunState the commit is not yet part of. *)
Promote ==
    /\ pc = "promote"
    /\ \/ Works /\ st' = mem
       \/ Fails /\ UNCHANGED st
    /\ Goto("record")
    /\ UNCHANGED <<gitVars, journal, log, begun, viewVars, mem, historyVars>>

Record ==
    /\ pc = "record"
    /\ mem' = Kept(mem, mem.next)
    /\ \/ Works /\ Append1(KeepEvent)
       \/ Fails /\ UNCHANGED log
    /\ Goto("finalize")
    /\ UNCHANGED <<gitVars, journal, st, begun, viewVars, historyVars>>

Durable(s) == s.best = head /\ s.next > Last(head) /\ EventOf(Last(head)) # {}

(* The last save of the checkpoint, read back: unless both files hold the   *)
(* KEEP the run ends, journal and commit left behind.                       *)
Finalize_unverified ==
    /\ pc = "finalize"
    /\ \/ Works /\ st' = mem
       \/ Fails /\ UNCHANGED st
    /\ Goto("unjournal") /\ UNCHANGED mem
    /\ UNCHANGED <<gitVars, journal, log, begun, viewVars, historyVars>>

Finalize ==
    /\ pc = "finalize"
    /\ \/ Works /\ st' = mem
       \/ Fails /\ UNCHANGED st
    /\ IF Durable(st') THEN Goto("unjournal") /\ UNCHANGED mem ELSE Exit
    /\ UNCHANGED <<gitVars, journal, log, begun, viewVars, historyVars>>

Unjournal ==
    /\ pc = "unjournal"
    /\ journal' = None
    /\ Goto("publish")
    /\ UNCHANGED <<gitVars, st, log, begun, viewVars, mem, countVars, historyVars>>

Publish ==
    /\ pc = "publish"
    /\ \/ Works /\ manifest' = head
       \/ Fails /\ UNCHANGED manifest
    /\ Goto("archive")
    /\ UNCHANGED <<gitVars, journal, st, log, begun, archive, mem, historyVars>>

Archive ==
    /\ pc = "archive"
    /\ \/ Works /\ archive' = archive \cup {Last(head)}
       \/ Fails /\ UNCHANGED archive
    /\ Goto("top")
    /\ UNCHANGED <<gitVars, journal, st, log, begun, manifest, mem, historyVars>>

-----------------------------------------------------------------------------
(* What a resume makes of what it finds (_plan_resume_recovery,             *)
(* _inspect_pending_keep, _validate_resume_state).                          *)

Beyond == {e \in Results : e.iter >= st.next}
Replayed == {e \in Beyond : journal = None \/ e.iter < journal.iter}
Cursor == st.next + Cardinality(Replayed)

(* The events beyond the checkpoint continue it without a gap, none of them *)
(* a KEEP, up to the journalled iteration, which is the last.               *)
Contiguous ==
    /\ \A i, j \in DOMAIN log : log[i].iter = log[j].iter => i = j
    /\ {e.iter : e \in Replayed} = st.next .. Cursor - 1
    /\ \A e \in Replayed : ~e.keep
    /\ journal # None => journal.iter =< Cursor /\ \A e \in Beyond : e.iter =< journal.iter

Reduced == [st EXCEPT !.next = Cursor, !.counted = @ + Cardinality(Replayed)]

Applied == journal.iter < Cursor
AtCheckpoint ==
    \/ Reduced.best = head /\ head # journal.base
    \/ ~Applied /\ journal.base = Reduced.best

(* HEAD is where the journal found it, with nothing or the very candidate   *)
(* on the tree.                                                             *)
Uncommitted_clean_only ==
    /\ journal # None /\ AtCheckpoint /\ head = journal.base /\ tree = Clean
    /\ EventOf(journal.iter) = {}

Uncommitted ==
    /\ journal # None /\ AtCheckpoint /\ head = journal.base
    /\ tree \in {Clean, [iter |-> journal.iter, new |-> FALSE]}
    /\ EventOf(journal.iter) = {}

(* HEAD is its one child, made of exactly the journalled patch. *)
Committed_needs_event ==
    /\ journal # None /\ AtCheckpoint /\ head # <<>> /\ Front(head) = journal.base
    /\ Last(head) = journal.iter /\ tree = Clean /\ Last(head) \notin shipped
    /\ EventOf(journal.iter) = {KeepEvent}
    /\ Applied => Reduced.best = head

Committed ==
    /\ journal # None /\ AtCheckpoint /\ head # <<>> /\ Front(head) = journal.base
    /\ Last(head) = journal.iter /\ tree = Clean /\ Last(head) \notin shipped
    /\ \A e \in EventOf(journal.iter) : e = KeepEvent
    /\ Applied => Reduced.best = head

Unjournalled == journal = None /\ head = Reduced.best /\ tree = Clean

Recoverable == Contiguous /\ (Unjournalled \/ Uncommitted \/ Committed)

Planned_recounted == IF Committed THEN Kept(Reduced, journal.iter) ELSE Reduced
Planned == IF Committed /\ ~Applied THEN Kept(Reduced, journal.iter) ELSE Reduced

FirstStep_relogs == IF Uncommitted THEN "restore" ELSE IF Committed THEN "relog" ELSE "resave"
FirstStep ==
    CASE Uncommitted -> "restore"
      [] Committed /\ EventOf(journal.iter) = {} -> "relog"
      [] OTHER -> "resave"

(* Nothing is written before the whole plan is known to be sound. *)
Resume ==
    /\ pc = "down" /\ Recoverable
    /\ mem' = Planned
    /\ stray' = IF stray = "own" THEN "old" ELSE stray
    /\ Goto(FirstStep)
    /\ UNCHANGED <<head, shipped, tree, journal, st, log, begun, viewVars, countVars, historyVars>>

Restore ==
    /\ pc = "restore" /\ Discard /\ Goto("forget")
    /\ UNCHANGED <<journal, st, log, begun, viewVars, mem, countVars, historyVars>>

Forget ==
    /\ pc = "forget"
    /\ journal' = None
    /\ Goto("resave")
    /\ UNCHANGED <<gitVars, st, log, begun, viewVars, mem, countVars, historyVars>>

Relog ==
    /\ pc = "relog"
    /\ \/ Works /\ Append1(KeepEvent)
       \/ Fails /\ UNCHANGED log
    /\ Goto("resave")
    /\ UNCHANGED <<gitVars, journal, st, begun, viewVars, mem, historyVars>>

(* The state is read back here too: a resume that could not save it ends. *)
Resave ==
    /\ pc = "resave"
    /\ \/ Works /\ st' = mem
       \/ Fails /\ UNCHANGED st
    /\ \/ /\ st' = mem /\ UNCHANGED mem
          /\ Goto(IF journal = None THEN "reconcile" ELSE "renumber")
       \/ st' # mem /\ Exit
    /\ UNCHANGED <<gitVars, journal, log, begun, viewVars, historyVars>>

Reconcile ==
    /\ pc = "reconcile"
    /\ \/ Works /\ manifest' = mem.best
       \/ Fails /\ UNCHANGED manifest
    /\ Goto("renumber")
    /\ UNCHANGED <<gitVars, journal, st, log, begun, archive, mem, historyVars>>

Renumbered_by_state == mem.next

(* The next iteration takes a number no event and no archive names. *)
Renumbered ==
    Max({mem.next, begun + 1} \cup {e.iter + 1 : e \in Results} \cup {n + 1 : n \in archive})

(* The session starts: its RunState is saved as the others are. *)
Renumber ==
    /\ pc = "renumber"
    /\ mem' = [mem EXCEPT !.next = Renumbered]
    /\ \/ Works /\ st' = mem'
       \/ Fails /\ UNCHANGED st
    /\ IF journal = None THEN Goto("top") ELSE Goto("rearchive")
    /\ UNCHANGED <<gitVars, journal, log, begun, viewVars, historyVars>>

(* _finish_recovered_pending_keep *)
Rearchive ==
    /\ pc = "rearchive"
    /\ \/ Works /\ archive' = archive \cup {journal.iter}
       \/ Fails /\ UNCHANGED archive
    /\ Goto("republish")
    /\ UNCHANGED <<gitVars, journal, st, log, begun, manifest, mem, historyVars>>

Republish ==
    /\ pc = "republish"
    /\ \/ Works /\ manifest' = head
       \/ Fails /\ UNCHANGED manifest
    /\ Goto("clear")
    /\ UNCHANGED <<gitVars, journal, st, log, begun, archive, mem, historyVars>>

Clear ==
    /\ pc = "clear"
    /\ journal' = None
    /\ Goto("top")
    /\ UNCHANGED <<gitVars, st, log, begun, viewVars, mem, countVars, historyVars>>

-----------------------------------------------------------------------------
Iterate ==
    \/ Begin \/ SavePolicy \/ Announce \/ Verdict \/ DiscardCandidate \/ Reject \/ Settle
Keep ==
    \/ WriteJournal \/ Stage \/ Commit \/ Backout \/ Unkeep \/ Promote \/ Record
    \/ Finalize \/ Unjournal \/ Publish \/ Archive
Recover ==
    \/ Restore \/ Forget \/ Relog \/ Resave \/ Reconcile \/ Renumber
    \/ Rearchive \/ Republish \/ Clear

(* The process is killed, or ends at its time budget. *)
Crash ==
    /\ pc # "down" /\ crashes < MaxCrashes
    /\ crashes' = crashes + 1 /\ UNCHANGED faults
    /\ pc' = "down" /\ mem' = st
    /\ UNCHANGED <<gitVars, journal, st, log, begun, viewVars, historyVars>>

(* A session that died while the agent was editing leaves changes no        *)
(* journal knows; the resume refuses them, and their owner cleans up.       *)
CleanByHand ==
    /\ pc = "down" /\ journal = None /\ tree # Clean
    /\ tree' = Clean
    /\ UNCHANGED <<head, shipped, stray, journal, st, log, begun, viewVars, pc, mem, countVars, historyVars>>

Next == Iterate \/ Edit \/ Keep \/ Recover \/ Crash \/ Resume \/ CleanByHand

Spec == Init /\ [][Next]_vars

(* The loop runs on, and whoever runs the campaign resumes it. *)
FairSpec ==
    /\ Spec
    /\ WF_vars(Iterate \/ Keep \/ Recover) /\ WF_vars(Resume) /\ WF_vars(CleanByHand)

-----------------------------------------------------------------------------
(* Whenever a session may start, the tree is clean, no journal is left and  *)
(* HEAD is the durable best: what the agent measures against is what was    *)
(* verified.  A KEEP given up over its own commit ends that.                *)
SettledAtTop ==
    pc = "top" =>
        /\ tree = Clean /\ journal = None
        /\ astray \/ (mem.best = head /\ st.best = head)

(* However often a KEEP is recovered, it is counted once, and so is every   *)
(* iteration whose event is replayed.                                       *)
CountedOnce ==
    /\ astray \/ st.kept = Len(st.best)
    /\ st.counted < st.next

(* One event per iteration, and a KEEP event only for a commit that stands: *)
(* the log never tells of a candidate that HEAD lost.                       *)
LogTellsTheTruth ==
    /\ \A i, j \in DOMAIN log : log[i].iter = log[j].iter => i = j
    /\ \A e \in Results : e.keep => IsPrefix(e.commit, head) /\ Last(e.commit) = e.iter

(* No agent is given an iteration number an earlier one had, whatever       *)
(* became of it.                                                            *)
FreshNumbers == [][Announce => mem.next > given]_vars

(* Nothing is published that the durable state does not hold. *)
PublishedIsDurable == IsPrefix(manifest, st.best)

(* The journal's patch is the tracked diff taken before staging, so it      *)
(* never holds a new file: once one is staged, the resume finds a tree or a *)
(* commit that is not the journalled patch, and refuses it for good.        *)
Misfit == journal # None /\ (tree.new \/ (head # <<>> /\ Last(head) \in shipped \ ToSet(journal.base)))

(* Wherever the process died, and with writes lost, the recovery window     *)
(* makes sense to the resume; only a KEEP with a new file, or the agent's   *)
(* own unjournalled edits, are in its way.                                  *)
AlwaysRecoverable ==
    (pc = "down" /\ (journal # None \/ tree = Clean) /\ ~Misfit /\ ~astray) => Recoverable

(* A committed KEEP reaches the durable state, unless the resume refuses it. *)
KeepSurvives == (head # st.best /\ Last(head) \notin shipped) ~> (head = st.best \/ astray)
=============================================================================
