--------------------------- MODULE ProposalReview ---------------------------
(***************************************************************************)
(* The Critic gate: from a proposed action, through the Critic's verdict,  *)
(* to a row of the task registry (loop/intent_router.py,                   *)
(* loop/proposals.py), over the event log (bus/message_bus.py), its        *)
(* retention (bus/db_maintenance.py) and the replay of a resume            *)
(* (loop/writeback.py).                                                    *)
(*                                                                         *)
(* Log, tasks and cursors are SQLite tables; pending proposals and the     *)
(* handler under way are memory.  Handlers, the Critic's turns and the     *)
(* maintenance run on the main coroutine, one at a time; at each of their  *)
(* awaits task runners move rows on, and the handler may be given up (the  *)
(* session bound cancels the turn, an exception ends the intent) or the    *)
(* process may die.                                                        *)
(***************************************************************************)
EXTENDS Naturals, FiniteSets

CONSTANTS
    Proposal,      \* msg_ids of proposal messages
    Content,       \* what launches identical work: action and parameters
    ContentOf,     \* the content of each proposal
    MaxAttempts,   \* _MAX_IDEMPOTENCY_ATTEMPTS
    KeepDone,      \* DEFAULT_TASKS_KEEP_DONE
    MaxSeq,        \* bound: log rows ever appended
    MaxBoots,      \* bound: restarts
    NoProposal     \* no handler is under way

ASSUME ContentOfType == ContentOf \in [Proposal -> Content]
ASSUME NatParameters ==
    /\ MaxAttempts \in Nat \ {0} /\ KeepDone \in Nat
    /\ MaxSeq \in Nat /\ MaxBoots \in Nat
ASSUME NoProposalIsNone == NoProposal \notin Proposal

VARIABLES
    \* on disk
    log,        \* rows of events: proposals, verdicts and decisions
    last,       \* the last seq given out
    tasks,      \* rows of tasks, by idempotency key; "absent" for none
    cursor,     \* the Critic's last_processed_seq
    \* in memory
    pending,    \* pending_proposals: "open" until decided, "none" if unknown
    at,         \* where the handler of an intent stands
    about,      \* the proposal it handles
    approves,   \* the verdict it applies is approve or advise
    attempt,    \* of the idempotency keys
    reviewing,  \* the Critic's turn is under way
    rendered,   \* _rendered_cursor of the Critic, 0 for none
    shown,      \* proposals its prompt rendered
    \* history
    fate,       \* how far a proposal has durably come
    stranded,   \* its handler was given up since the boot
    forgotten,  \* contents that lost a task row to retention
    boots

disk == <<log, last, tasks, cursor>>
handler == <<at, about, approves, attempt>>
turn == <<reviewing, rendered, shown>>
history == <<fate, stranded, forgotten>>
vars == <<disk, pending, handler, turn, history, boots>>

Key == Content \X (0 .. MaxAttempts - 1)
Live == {"queued", "running"}
Done == {"succeeded", "cancelled"}     \* _PRUNABLE_TASK_STATES
LogRow == [seq : 1 .. MaxSeq, topic : {"proposal", "verdict", "decision"}, about : Proposal]

TypeOK ==
    /\ log \subseteq LogRow /\ last \in 0 .. MaxSeq
    /\ tasks \in [Key -> {"absent", "failed"} \cup Live \cup Done]
    /\ cursor \in 0 .. MaxSeq /\ rendered \in 0 .. MaxSeq
    /\ pending \in [Proposal -> {"none", "open", "decided"}]
    /\ at \in {"replay", "rest", "register", "record", "create", "announce"}
    /\ about \in Proposal \cup {NoProposal}
    /\ (at \notin {"replay", "rest"}) => about \in Proposal
    /\ approves \in BOOLEAN /\ attempt \in 0 .. MaxAttempts - 1
    /\ reviewing \in BOOLEAN /\ shown \subseteq Proposal
    /\ fate \in [Proposal -> {"new", "proposed", "refused", "approved", "served"}]
    /\ stranded \subseteq Proposal /\ forgotten \subseteq Content
    /\ boots \in 0 .. MaxBoots

Init ==
    /\ log = {} /\ last = 0 /\ cursor = 0
    /\ tasks = [k \in Key |-> "absent"]
    /\ pending = [p \in Proposal |-> "none"]
    /\ at = "rest" /\ about = NoProposal /\ approves = FALSE /\ attempt = 0
    /\ reviewing = FALSE /\ rendered = 0 /\ shown = {}
    /\ fate = [p \in Proposal |-> "new"] /\ stranded = {} /\ forgotten = {}
    /\ boots = 0

-----------------------------------------------------------------------------
(* The event log. *)

(* append_and_seq *)
Append(topic, p) ==
    /\ last < MaxSeq
    /\ last' = last + 1
    /\ log' = log \cup {[seq |-> last + 1, topic |-> topic, about |-> p]}

Logged(topic) == {e.about : e \in {r \in log : r.topic = topic}}

(* replay_for_resume and prune_events agree on the proposals still awaiting *)
(* a verdict: no review_verdict row targets them.                           *)
Undecided == Logged("proposal") \ Logged("verdict")

(* Faulty variants stand before the definition they vary, named for the     *)
(* fault; nothing refers to them.                                           *)
Prunable_any_row(below) == {e \in log : e.seq =< below}

(* The rows prune_events deletes: those before the window, except proposals *)
(* awaiting a verdict.  The window counts rows of every topic, so it may    *)
(* hold any number of those modelled here.                                  *)
Prunable(below) ==
    {e \in log : e.seq =< below /\ ~(e.topic = "proposal" /\ e.about \in Undecided)}

PruneEvents(below) ==
    /\ at = "rest" /\ ~reviewing
    /\ log' = log \ Prunable(below)
    /\ UNCHANGED <<last, tasks, cursor, pending, handler, turn, history, boots>>

-----------------------------------------------------------------------------
(* A handler returns. *)
Return == at' = "rest" /\ about' = NoProposal /\ approves' = FALSE /\ attempt' = 0

(* A proposal (_handle_propose_action; the phases' own submissions do the   *)
(* same): the log row first, then the in-memory entry.                      *)
Propose(p) ==
    /\ at = "rest" /\ ~reviewing /\ fate[p] = "new"
    /\ Append("proposal", p)
    /\ at' = "register" /\ about' = p
    /\ fate' = [fate EXCEPT ![p] = "proposed"]
    /\ UNCHANGED <<tasks, cursor, pending, approves, attempt, turn,
                   stranded, forgotten, boots>>

Register ==
    /\ at = "register"
    /\ pending' = [pending EXCEPT ![about] = "open"]
    /\ Return
    /\ UNCHANGED <<disk, turn, history, boots>>

-----------------------------------------------------------------------------
(* The Critic's turn (_reactor_pass). *)

Inbox_new_only == {e.about : e \in {r \in log : r.seq > cursor /\ r.topic = "proposal"}}

(* What its prompt shows: the rows after the cursor, and the rows of every  *)
(* open pending proposal (_augment_critic_inbox_with_pending).              *)
Inbox ==
    {e.about : e \in {r \in log : /\ r.topic = "proposal"
                                  /\ r.seq > cursor \/ pending[r.about] = "open"}}

(* Rows addressed to the Critic: a verdict goes to the proposal's author. *)
NewRows == {e \in log : e.seq > cursor /\ e.topic # "verdict"}

(* _compose_prompt; a prompt without new rows leaves _rendered_cursor. *)
BeginTurn ==
    /\ at = "rest" /\ ~reviewing
    /\ reviewing' = TRUE /\ shown' = Inbox
    /\ IF NewRows = {} THEN rendered' = rendered
       ELSE \E e \in NewRows : /\ \A r \in NewRows : r.seq =< e.seq
                               /\ rendered' = e.seq
    /\ UNCHANGED <<disk, pending, handler, history, boots>>

(* Every intent is handled: advance, which never moves a cursor back. *)
EndTurn ==
    /\ reviewing /\ at = "rest"
    /\ cursor' = IF rendered > cursor THEN rendered ELSE cursor
    /\ reviewing' = FALSE /\ shown' = {}
    /\ UNCHANGED <<log, last, tasks, pending, handler, rendered, history, boots>>

-----------------------------------------------------------------------------
(* A verdict (_handle_review_verdict, _handle_single_verdict).  The Critic  *)
(* may name any proposal it remembers; one without an entry only gets an    *)
(* observation.  Nothing asks whether the entry is decided already.         *)

Judge(p, yes) ==
    /\ reviewing /\ at = "rest" /\ pending[p] # "none" /\ last < MaxSeq
    /\ pending' = [pending EXCEPT ![p] = "decided"]
    /\ at' = "record" /\ about' = p /\ approves' = yes /\ attempt' = 0
    /\ UNCHANGED <<disk, turn, history, boots>>

Proceeds_always == TRUE

(* Both approve and advise mean that dispatch may proceed. *)
Proceeds == approves

(* The review_verdict row, and what follows from it. *)
Record ==
    /\ at = "record"
    /\ Append("verdict", about)
    /\ IF Proceeds THEN at' = "create" /\ UNCHANGED <<about, approves, attempt>>
       ELSE Return
    /\ fate' = [fate EXCEPT ![about] =
                   IF @ = "served" \/ (@ = "approved" /\ ~approves) THEN @
                   ELSE IF approves THEN "approved" ELSE "refused"]
    /\ UNCHANGED <<tasks, cursor, pending, turn, stranded, forgotten, boots>>

Served == fate' = [fate EXCEPT ![about] = IF approves THEN "served" ELSE @]

(* _materialize_approved_proposal, before its loop: nothing is left of the  *)
(* grid, or the patch has no owner, which also drops the pending entry.     *)
Skip ==
    /\ at = "create" /\ attempt = 0
    /\ pending' \in {pending, [pending EXCEPT ![about] = "none"]}
    /\ Return /\ Served
    /\ UNCHANGED <<disk, turn, stranded, forgotten, boots>>

CurrentKey == <<ContentOf[about], attempt>>
Twin == tasks[CurrentKey]
TwinLives_only_running == Twin = "running"
TwinLives == Twin \in Live
KeysLeft_off_by_one == attempt + 1 =< MaxAttempts
KeysLeft == attempt + 1 < MaxAttempts

(* One round of its loop (create_or_return_existing): insert under a fresh  *)
(* key, drop the proposal as a duplicate of a live twin, or go on to the    *)
(* next key past a terminal one, until the keys are used up.                *)
Create ==
    /\ at = "create"
    /\ \/ /\ Twin = "absent"
          /\ tasks' = [tasks EXCEPT ![CurrentKey] = "queued"]
          /\ at' = "announce" /\ Served /\ UNCHANGED <<about, approves, attempt>>
       \/ /\ Twin # "absent" /\ (TwinLives \/ ~KeysLeft)
          /\ Return /\ Served /\ UNCHANGED tasks
       \/ /\ Twin # "absent" /\ ~TwinLives /\ KeysLeft
          /\ attempt' = attempt + 1 /\ UNCHANGED <<tasks, at, about, approves, fate>>
    /\ UNCHANGED <<log, last, cursor, pending, turn, stranded, forgotten, boots>>

(* The decision row.  (Here the bounded log may be full.) *)
Announce ==
    /\ at = "announce"
    /\ Append("decision", about) \/ (last = MaxSeq /\ UNCHANGED <<log, last>>)
    /\ Return
    /\ UNCHANGED <<tasks, cursor, pending, turn, history, boots>>

-----------------------------------------------------------------------------
(* The handler is given up at one of its awaits, or the turn is: a backend  *)
(* error, the session bound.  No cursor moves; memory stays as it is.       *)
GiveUp ==
    /\ at # "replay" /\ (reviewing \/ at # "rest")
    /\ Return
    /\ stranded' = IF at = "rest" THEN stranded ELSE stranded \cup {about}
    /\ \/ reviewing' = FALSE /\ shown' = {}
       \/ at # "rest" /\ UNCHANGED <<reviewing, shown>>
    /\ UNCHANGED <<disk, pending, rendered, fate, forgotten, boots>>

Crash ==
    /\ boots < MaxBoots /\ boots' = boots + 1
    /\ pending' = [p \in Proposal |-> "none"]
    /\ at' = "replay" /\ about' = NoProposal /\ approves' = FALSE /\ attempt' = 0
    /\ reviewing' = FALSE /\ rendered' = 0 /\ shown' = {}
    /\ stranded' = {}
    /\ UNCHANGED <<disk, fate, forgotten>>

(* replay_for_resume, before anything else runs. *)
Replay ==
    /\ at = "replay"
    /\ pending' = [p \in Proposal |-> IF p \in Undecided THEN "open" ELSE "none"]
    /\ Return
    /\ UNCHANGED <<disk, turn, history, boots>>

-----------------------------------------------------------------------------
(* The registry around the gate. *)

(* A row moves along an edge of _TRANSITIONS (module TaskRuns). *)
TaskMoves(k, s) ==
    /\ \/ tasks[k] = "queued" /\ s \in {"running", "cancelled"}
       \/ tasks[k] = "running" /\ s \in {"succeeded", "failed", "cancelled"}
    /\ tasks' = [tasks EXCEPT ![k] = s]
    /\ UNCHANGED <<log, last, cursor, pending, handler, turn, history, boots>>

(* prune_tasks: all but KeepDone of the done rows go, the keys with them.   *)
(* (Which are the most recent is left open.)                                *)
PruneTasks ==
    LET done == {k \in Key : tasks[k] \in Done} IN
    /\ at = "rest" /\ ~reviewing
    /\ \E gone \in SUBSET done :
          /\ gone # {} /\ Cardinality(done \ gone) = KeepDone
          /\ tasks' = [k \in Key |-> IF k \in gone THEN "absent" ELSE tasks[k]]
          /\ forgotten' = forgotten \cup {k[1] : k \in gone}
    /\ UNCHANGED <<log, last, cursor, pending, handler, turn, fate, stranded, boots>>

Next ==
    \/ \E p \in Proposal : Propose(p) \/ \E yes \in BOOLEAN : Judge(p, yes)
    \/ Register \/ BeginTurn \/ EndTurn
    \/ Record \/ Skip \/ Create \/ Announce
    \/ GiveUp \/ Crash \/ Replay
    \/ \E below \in 1 .. last : PruneEvents(below)
    \/ \E k \in Key, s \in Done \cup {"running", "failed"} : TaskMoves(k, s)
    \/ PruneTasks

Spec == Init /\ [][Next]_vars

-----------------------------------------------------------------------------
(* What a resume reads back from the log is the truth, however much of it   *)
(* retention has deleted: a proposal never judged is awaiting its verdict,  *)
(* and a judged one never comes back for a second review.                   *)
ReplayIsExact == Undecided = {p \in Proposal : fate[p] = "proposed"}

(* Each turn shows the Critic every proposal that has no verdict yet,       *)
(* however often it was shown before, past restarts and retention; only one *)
(* whose handler was given up may have to wait for the next resume.         *)
TurnShowsUndecided ==
    (~reviewing /\ reviewing') =>
        {p \in Proposal : fate[p] = "proposed"} \ stranded \subseteq shown'
CriticSeesUndecided == [][TurnShowsUndecided]_vars

(* No task exists that an approving verdict in the log does not precede:    *)
(* wherever a crash falls, a resume never reviews work already dispatched.  *)
DispatchIsReviewed ==
    \A k \in Key : tasks[k] # "absent" =>
        \E p \in Proposal : ContentOf[p] = k[1] /\ fate[p] \in {"approved", "served"}

(* Proposals that would launch identical work collapse to one live task,    *)
(* across retries under further keys, as long as retention has not deleted  *)
(* one of the keys.                                                         *)
OneLiveTwin ==
    \A c \in Content \ forgotten :
        Cardinality({k \in Key : k[1] = c /\ tasks[k] \in Live}) =< 1

(* The comment at the decision row calls proposal_msg_id "the resume        *)
(* contract for the deferred queue (see replay_for_resume)": an approval    *)
(* would survive a resume, as a task, a recorded skip or a pending entry.   *)
(* The replay reads no decision row and takes the verdict for the outcome.  *)
ApprovedSurvives ==
    \A p \in Proposal :
        (at = "rest" /\ fate[p] = "approved" /\ p \notin stranded) => pending[p] = "open"
=============================================================================
