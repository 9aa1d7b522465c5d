----------------------- MODULE ProposalReview_proofs -----------------------
(* Theorems of ProposalReview, for any proposals, contents and bounds.      *)
EXTENDS ProposalReview, FiniteSetTheorems, TLAPS

(* The inductive invariant.  Retention is why the order of the rows counts: *)
(* it deletes a prefix of the log, so a judged proposal's row can only be   *)
(* left while a later row still carries a verdict.                          *)
SeqsPast == \A e \in log : e.seq =< last
NewUnknown ==
    \A p \in Proposal : fate[p] = "new" =>
        pending[p] = "none" /\ \A e \in log : e.about # p
ProposedLogged ==
    \A p \in Proposal : fate[p] = "proposed" =>
        /\ \E e \in log : e.topic = "proposal" /\ e.about = p
        /\ \A e \in log : e.about = p => e.topic # "verdict"
JudgedAfter ==
    \A e \in log : (e.topic = "proposal" /\ fate[e.about] # "proposed") =>
        \E v \in log : v.topic = "verdict" /\ v.about = e.about /\ v.seq > e.seq
HandlerKnows ==
    /\ at = "register" => fate[about] = "proposed"
    /\ at = "record" => fate[about] # "new"
    /\ at \in {"create", "announce"} => approves /\ fate[about] \in {"approved", "served"}
OpenWhileProposed ==
    \A p \in Proposal :
        (fate[p] = "proposed" /\ p \notin stranded /\ at # "replay"
            /\ ~(at \in {"register", "record"} /\ about = p))
        => pending[p] = "open"

IInv ==
    /\ TypeOK /\ SeqsPast /\ NewUnknown /\ ProposedLogged /\ JudgedAfter
    /\ HandlerKnows /\ OpenWhileProposed /\ DispatchIsReviewed

-----------------------------------------------------------------------------
(* append_and_seq adds one well-formed row, after all the others. *)
LEMMA AppendAddsLast ==
    ASSUME TypeOK, SeqsPast, NEW topic \in {"proposal", "verdict", "decision"},
           NEW p \in Proposal, Append(topic, p)
    PROVE  /\ log' \subseteq LogRow /\ last' \in 0 .. MaxSeq
           /\ SeqsPast'
           /\ \A e \in log' \ log : /\ e.topic = topic /\ e.about = p
                                    /\ \A r \in log : r.seq < e.seq
           /\ \E e \in log' : e.topic = topic /\ e.about = p
           /\ log \subseteq log'
<1>1. last \in Nat /\ last + 1 \in 1 .. MaxSeq
  BY NatParameters DEF TypeOK, Append
<1> DEFINE row == [seq |-> last + 1, topic |-> topic, about |-> p]
<1>2. row \in LogRow /\ row.seq = last + 1 /\ row.topic = topic /\ row.about = p
  BY <1>1 DEF LogRow
<1>3. log' = log \cup {row} /\ last' = last + 1
  BY DEF Append
<1>4. \A r \in log : r.seq \in Nat /\ r.seq < last + 1
  BY <1>1 DEF TypeOK, SeqsPast, LogRow
<1>5. SeqsPast'
  BY <1>1, <1>2, <1>3, <1>4 DEF SeqsPast
<1> QED BY <1>1, <1>2, <1>3, <1>4, <1>5 DEF TypeOK

(* A handler that returns leaves well-typed defaults. *)
LEMMA ReturnType ==
    ASSUME Return
    PROVE  /\ at' = "rest" /\ about' = NoProposal
           /\ approves' \in BOOLEAN /\ attempt' \in 0 .. MaxAttempts - 1
<1>1. approves' \in BOOLEAN
  BY Zenon DEF Return
<1>2. attempt' \in 0 .. MaxAttempts - 1
  BY NatParameters DEF Return
<1> QED BY <1>1, <1>2 DEF Return

(* The type of every variable. *)
LEMMA TypeStep == TypeOK /\ SeqsPast /\ [Next]_vars => TypeOK'
<1> SUFFICES ASSUME TypeOK, SeqsPast, [Next]_vars PROVE TypeOK'
  OBVIOUS
<1> USE DEF TypeOK, disk, handler, turn, history
<1>1. ASSUME NEW p \in Proposal, Propose(p) PROVE TypeOK'
  BY <1>1, AppendAddsLast DEF Propose
<1>2. ASSUME NEW p \in Proposal, NEW yes \in BOOLEAN, Judge(p, yes) PROVE TypeOK'
  BY <1>2, NatParameters DEF Judge
<1>3. CASE Register
  BY <1>3, ReturnType DEF Register
<1>4. CASE BeginTurn
  <2>1. Inbox \subseteq Proposal
    BY DEF Inbox, LogRow
  <2>2. \A e \in NewRows : e.seq \in 0 .. MaxSeq
    BY NatParameters DEF NewRows, LogRow
  <2> QED BY <1>4, <2>1, <2>2 DEF BeginTurn
<1>5. CASE EndTurn
  BY <1>5 DEF EndTurn
<1>6. CASE Record
  BY <1>6, AppendAddsLast, ReturnType DEF Record
<1>7. CASE Skip
  BY <1>7, ReturnType DEF Skip, Served
<1>8. CASE Create
  BY <1>8, ReturnType, NatParameters, ContentOfType DEF Create, Served, CurrentKey, Key, Twin, KeysLeft, TwinLives, Live, Done
<1>9. CASE Announce
  BY <1>9, AppendAddsLast, ReturnType DEF Announce
<1>10. CASE GiveUp
  <2>1. stranded' \subseteq Proposal
    BY <1>10 DEF GiveUp
  <2>2. reviewing' \in BOOLEAN /\ shown' \subseteq Proposal
    BY <1>10 DEF GiveUp
  <2>3. UNCHANGED <<log, last, tasks, cursor, pending, rendered, fate, forgotten, boots>>
    BY <1>10 DEF GiveUp
  <2> QED BY <1>10, <2>1, <2>2, <2>3, ReturnType DEF GiveUp
<1>11. CASE Crash
  <2>1. approves' \in BOOLEAN /\ reviewing' \in BOOLEAN
    BY <1>11, Zenon DEF Crash
  <2>2. /\ boots' \in 0 .. MaxBoots /\ attempt' \in 0 .. MaxAttempts - 1
        /\ rendered' \in 0 .. MaxSeq
    BY <1>11, NatParameters DEF Crash
  <2>3. /\ pending' \in [Proposal -> {"none", "open", "decided"}]
        /\ at' = "replay" /\ about' = NoProposal
        /\ shown' \subseteq Proposal /\ stranded' \subseteq Proposal
        /\ UNCHANGED <<log, last, tasks, cursor, fate, forgotten>>
    BY <1>11 DEF Crash
  <2> QED BY <2>1, <2>2, <2>3
<1>12. CASE Replay
  <2>1. pending' \in [Proposal -> {"none", "open", "decided"}]
    BY <1>12 DEF Replay
  <2> QED BY <1>12, <2>1, ReturnType DEF Replay
<1>13. ASSUME NEW below \in 1 .. last, PruneEvents(below) PROVE TypeOK'
  BY <1>13 DEF PruneEvents
<1>14. ASSUME NEW k \in Key, NEW s \in Done \cup {"running", "failed"}, TaskMoves(k, s)
       PROVE  TypeOK'
  BY <1>14 DEF TaskMoves, Live, Done
<1>15. CASE PruneTasks
  BY <1>15 DEF PruneTasks, Key
<1>16. CASE UNCHANGED vars
  BY <1>16 DEF vars
<1> QED BY <1>1, <1>2, <1>3, <1>4, <1>5, <1>6, <1>7, <1>8, <1>9, <1>10, <1>11,
           <1>12, <1>13, <1>14, <1>15, <1>16 DEF Next

-----------------------------------------------------------------------------
(* A verdict row comes after the row of the proposal it judges. *)
LEMMA RecordKeeps ==
    ASSUME TypeOK, SeqsPast, JudgedAfter, NEW p \in Proposal, Append("verdict", p),
           fate' \in [Proposal -> {"new", "proposed", "refused", "approved", "served"}],
           \A q \in Proposal \ {p} : fate'[q] = fate[q]
    PROVE  JudgedAfter'
<1> SUFFICES ASSUME NEW e \in log', e.topic = "proposal", fate'[e.about] # "proposed"
             PROVE  \E v \in log' : v.topic = "verdict" /\ v.about = e.about /\ v.seq > e.seq
  BY DEF JudgedAfter
<1>1. e \in log
  BY AppendAddsLast
<1>2. e.about \in Proposal /\ e.seq \in Nat
  BY <1>1 DEF TypeOK, LogRow
<1>3. CASE e.about = p
  <2>1. [seq |-> last + 1, topic |-> "verdict", about |-> p] \in log'
    BY DEF Append
  <2>2. last + 1 > e.seq
    BY <1>1, <1>2 DEF SeqsPast, TypeOK
  <2> QED BY <1>3, <2>1, <2>2
<1>4. CASE e.about # p
  BY <1>1, <1>2, <1>4, AppendAddsLast DEF JudgedAfter
<1> QED BY <1>3, <1>4

(* What retention leaves still tells the undecided proposals apart.         *)
LEMMA PruneKeeps ==
    ASSUME TypeOK, ProposedLogged, JudgedAfter, NEW below \in 1 .. last,
           PruneEvents(below)
    PROVE  ProposedLogged' /\ JudgedAfter'
<1> USE DEF TypeOK, LogRow
<1>1. log' = log \ Prunable(below) /\ fate' = fate
  BY DEF PruneEvents, history
<1>2. \A e \in log : (e.topic = "proposal" /\ fate[e.about] = "proposed") => e \in log'
  BY <1>1 DEF Prunable, Undecided, Logged, ProposedLogged
<1>3. ProposedLogged'
  BY <1>1, <1>2 DEF ProposedLogged
<1>4. ASSUME NEW e \in log', e.topic = "proposal", fate[e.about] # "proposed"
      PROVE  \E v \in log' : v.topic = "verdict" /\ v.about = e.about /\ v.seq > e.seq
  <2>1. PICK v \in log : v.topic = "verdict" /\ v.about = e.about /\ v.seq > e.seq
    BY <1>1, <1>4 DEF JudgedAfter
  <2>2. e \in log /\ e.seq > below
    <3>1. e \in log /\ e \notin Prunable(below)
      BY <1>1
    <3>2. e.about \notin Undecided
      BY <2>1 DEF Undecided, Logged
    <3> QED BY <3>1, <3>2 DEF Prunable
  <2>3. v.seq > below
    BY <2>1, <2>2
  <2>4. v \in log'
    BY <1>1, <2>3 DEF Prunable
  <2> QED BY <2>1, <2>4
<1> QED BY <1>1, <1>3, <1>4 DEF JudgedAfter

-----------------------------------------------------------------------------
(* Steps that append nothing and delete nothing keep what the log says.     *)
LEMMA SameLogKeeps ==
    ASSUME SeqsPast, ProposedLogged, JudgedAfter, UNCHANGED <<log, last>>,
           \A p \in Proposal : fate'[p] = "proposed" <=> fate[p] = "proposed",
           TypeOK
    PROVE  SeqsPast' /\ ProposedLogged' /\ JudgedAfter'
<1>1. \A e \in log : e.about \in Proposal
  BY DEF TypeOK, LogRow
<1> QED BY <1>1 DEF SeqsPast, ProposedLogged, JudgedAfter

(* A step that leaves fate and tasks alone keeps every dispatch reviewed.   *)
LEMMA FateKeepsReviewed ==
    ASSUME DispatchIsReviewed, tasks' = tasks,
           \A p \in Proposal : fate[p] \in {"approved", "served"}
                                    => fate'[p] \in {"approved", "served"}
    PROVE  DispatchIsReviewed'
BY DEF DispatchIsReviewed

(* One proof step per action. *)
LEMMA Inductive == IInv /\ [Next]_vars => IInv'
<1> SUFFICES ASSUME IInv, [Next]_vars PROVE IInv'
  OBVIOUS
<1>0. TypeOK /\ TypeOK'
  BY TypeStep DEF IInv
<1>1. ASSUME NEW p \in Proposal, Propose(p) PROVE IInv'
  <2>1. /\ Append("proposal", p) /\ at' = "register" /\ about' = p /\ fate[p] = "new"
        /\ fate' = [fate EXCEPT ![p] = "proposed"]
        /\ UNCHANGED <<tasks, pending, stranded>> /\ at = "rest"
    BY <1>1 DEF Propose
  <2>2. fate'[p] = "proposed" /\ \A q \in Proposal \ {p} : fate'[q] = fate[q]
    BY <2>1, <1>0 DEF TypeOK
  <2>3. /\ SeqsPast' /\ log \subseteq log'
        /\ \A e \in log' \ log : e.topic = "proposal" /\ e.about = p
        /\ \E e \in log' : e.topic = "proposal" /\ e.about = p
    BY <2>1, AppendAddsLast DEF IInv
  <2>4. \A e \in log : e.about # p /\ e.about \in Proposal
    BY <2>1, <1>0 DEF IInv, NewUnknown, TypeOK, LogRow
  <2>5. ProposedLogged'
    BY <2>2, <2>3, <2>4 DEF IInv, ProposedLogged
  <2>6. JudgedAfter'
    BY <2>2, <2>3, <2>4 DEF IInv, JudgedAfter
  <2>7. DispatchIsReviewed'
    BY <2>1, <2>2, FateKeepsReviewed DEF IInv
  <2>8. NewUnknown' /\ HandlerKnows' /\ OpenWhileProposed'
    BY <2>1, <2>2, <2>3, <2>4 DEF IInv, NewUnknown, HandlerKnows, OpenWhileProposed
  <2> QED BY <1>0, <2>3, <2>5, <2>6, <2>7, <2>8 DEF IInv
<1>2. ASSUME NEW p \in Proposal, NEW yes \in BOOLEAN, Judge(p, yes) PROVE IInv'
  <2>1. /\ pending[p] # "none" /\ pending' = [pending EXCEPT ![p] = "decided"]
        /\ at' = "record" /\ about' = p
        /\ UNCHANGED <<log, last, tasks, fate, stranded>> /\ at = "rest"
    BY <1>2 DEF Judge, disk, history
  <2>2. fate[p] # "new"
    BY <2>1 DEF IInv, NewUnknown
  <2>3. pending'[p] = "decided" /\ \A q \in Proposal \ {p} : pending'[q] = pending[q]
    BY <2>1, <1>0 DEF TypeOK
  <2>4. SeqsPast' /\ ProposedLogged' /\ JudgedAfter'
    BY <2>1, SameLogKeeps DEF IInv
  <2>5. DispatchIsReviewed'
    BY <2>1, FateKeepsReviewed DEF IInv
  <2>6. NewUnknown' /\ HandlerKnows' /\ OpenWhileProposed'
    BY <2>1, <2>2, <2>3 DEF IInv, NewUnknown, HandlerKnows, OpenWhileProposed
  <2> QED BY <1>0, <2>4, <2>5, <2>6 DEF IInv
<1>3. CASE Register
  <2>1. /\ at = "register" /\ pending' = [pending EXCEPT ![about] = "open"] /\ at' = "rest"
        /\ UNCHANGED <<log, last, tasks, fate, stranded>>
    BY <1>3 DEF Register, Return, disk, history
  <2>2. about \in Proposal /\ fate[about] = "proposed"
    BY <2>1, <1>0 DEF IInv, HandlerKnows, TypeOK
  <2>3. pending'[about] = "open" /\ \A q \in Proposal \ {about} : pending'[q] = pending[q]
    BY <2>1, <2>2, <1>0 DEF TypeOK
  <2>4. SeqsPast' /\ ProposedLogged' /\ JudgedAfter'
    BY <2>1, SameLogKeeps DEF IInv
  <2>5. DispatchIsReviewed'
    BY <2>1, FateKeepsReviewed DEF IInv
  <2>6. NewUnknown' /\ HandlerKnows' /\ OpenWhileProposed'
    BY <2>1, <2>2, <2>3 DEF IInv, NewUnknown, HandlerKnows, OpenWhileProposed
  <2> QED BY <1>0, <2>4, <2>5, <2>6 DEF IInv
<1>4. ASSUME UNCHANGED <<log, last, tasks, pending, at, about, approves, fate, stranded>>
      PROVE  IInv'
  BY <1>0, <1>4, SameLogKeeps, FateKeepsReviewed
  DEF IInv, NewUnknown, HandlerKnows, OpenWhileProposed
<1>5. CASE BeginTurn \/ EndTurn \/ UNCHANGED vars
  BY <1>4, <1>5 DEF BeginTurn, EndTurn, vars, disk, handler, history
<1>6. CASE Record
  <2>1. /\ at = "record" /\ Append("verdict", about) /\ UNCHANGED <<tasks, pending, stranded>>
        /\ \/ approves /\ at' = "create" /\ UNCHANGED <<about, approves>>
           \/ at' = "rest"
        /\ fate' = [fate EXCEPT ![about] =
                       IF @ = "served" \/ (@ = "approved" /\ ~approves) THEN @
                       ELSE IF approves THEN "approved" ELSE "refused"]
    BY <1>6 DEF Record, Proceeds, Return
  <2>2. about \in Proposal /\ fate[about] # "new"
    BY <2>1, <1>0 DEF IInv, HandlerKnows, TypeOK
  <2>3. /\ fate'[about] \in {"refused", "approved", "served"}
        /\ approves => fate'[about] \in {"approved", "served"}
        /\ fate[about] \in {"approved", "served"} => fate'[about] \in {"approved", "served"}
        /\ \A q \in Proposal \ {about} : fate'[q] = fate[q]
    BY <2>1, <2>2, <1>0 DEF TypeOK
  <2>4. /\ SeqsPast' /\ log \subseteq log'
        /\ \A e \in log' \ log : e.topic = "verdict" /\ e.about = about
    BY <2>1, <2>2, AppendAddsLast DEF IInv
  <2>5. ProposedLogged'
    BY <2>2, <2>3, <2>4 DEF IInv, ProposedLogged
  <2>6. JudgedAfter'
    BY <2>1, <2>2, <2>3, <1>0, RecordKeeps DEF IInv, TypeOK
  <2>7. DispatchIsReviewed'
    BY <2>1, <2>3, FateKeepsReviewed DEF IInv
  <2>8. NewUnknown'
    BY <2>1, <2>2, <2>3, <2>4 DEF IInv, NewUnknown
  <2>9. HandlerKnows'
    BY <2>1, <2>3 DEF HandlerKnows
  <2>10. OpenWhileProposed'
    BY <2>1, <2>2, <2>3 DEF IInv, OpenWhileProposed
  <2> QED BY <1>0, <2>4, <2>5, <2>6, <2>7, <2>8, <2>9, <2>10 DEF IInv
<1>7. CASE Skip \/ Create
  <2>1. at = "create" /\ about \in Proposal /\ approves /\ fate[about] \in {"approved", "served"}
    BY <1>7, <1>0 DEF IInv, HandlerKnows, TypeOK, Skip, Create
  <2>2. /\ UNCHANGED <<log, last, stranded>>
        /\ at' \in {"rest", "create", "announce"}
        /\ at' # "rest" => UNCHANGED <<about, approves>>
        /\ \A q \in Proposal \ {about} : pending'[q] = pending[q]
        /\ fate' = fate \/ fate' = [fate EXCEPT ![about] = IF approves THEN "served" ELSE @]
    BY <1>7, <2>1, <1>0 DEF Skip, Create, Return, Served, disk, turn, TypeOK
  <2>3. /\ fate'[about] \in {"approved", "served"}
        /\ \A q \in Proposal \ {about} : fate'[q] = fate[q]
    BY <2>1, <2>2, <1>0 DEF TypeOK
  <2>4. \A p \in Proposal : /\ fate'[p] = "proposed" <=> fate[p] = "proposed"
                            /\ fate'[p] = "new" <=> fate[p] = "new"
                            /\ fate[p] \in {"approved", "served"}
                                  => fate'[p] \in {"approved", "served"}
    BY <2>1, <2>3
  <2>5. SeqsPast' /\ ProposedLogged' /\ JudgedAfter'
    BY <2>2, <2>4, SameLogKeeps DEF IInv
  <2>6. DispatchIsReviewed'
    <3>1. CASE tasks' = tasks
      BY <3>1, <2>4, FateKeepsReviewed DEF IInv
    <3>2. CASE tasks' = [tasks EXCEPT ![CurrentKey] = "queued"]
      <4>1. \A k \in Key : k # CurrentKey => tasks'[k] = tasks[k]
        BY <3>2, <1>0 DEF TypeOK
      <4>2. CurrentKey[1] = ContentOf[about]
        BY DEF CurrentKey
      <4> QED BY <4>1, <4>2, <2>1, <2>3, <2>4 DEF IInv, DispatchIsReviewed
    <3> QED BY <1>7, <3>1, <3>2 DEF Skip, Create, disk
  <2>7. NewUnknown' /\ HandlerKnows' /\ OpenWhileProposed'
    BY <2>1, <2>2, <2>3, <2>4 DEF IInv, NewUnknown, HandlerKnows, OpenWhileProposed
  <2> QED BY <1>0, <2>5, <2>6, <2>7 DEF IInv
<1>8. CASE Announce
  <2>1. /\ at = "announce" /\ at' = "rest" /\ UNCHANGED <<tasks, pending, fate, stranded>>
        /\ Append("decision", about) \/ UNCHANGED <<log, last>>
    BY <1>8 DEF Announce, Return, history
  <2>2. about \in Proposal /\ fate[about] \in {"approved", "served"}
    BY <2>1, <1>0 DEF IInv, HandlerKnows, TypeOK
  <2>3. /\ SeqsPast' /\ log \subseteq log'
        /\ \A e \in log' \ log : e.topic = "decision" /\ e.about = about
    BY <2>1, <2>2, AppendAddsLast DEF IInv, SeqsPast
  <2>4. ProposedLogged' /\ JudgedAfter'
    BY <2>1, <2>3 DEF IInv, ProposedLogged, JudgedAfter
  <2>5. DispatchIsReviewed'
    BY <2>1, FateKeepsReviewed DEF IInv
  <2>6. NewUnknown' /\ HandlerKnows' /\ OpenWhileProposed'
    BY <2>1, <2>2, <2>3 DEF IInv, NewUnknown, HandlerKnows, OpenWhileProposed
  <2> QED BY <1>0, <2>3, <2>4, <2>5, <2>6 DEF IInv
<1>9. CASE GiveUp
  <2>1. /\ UNCHANGED <<log, last, tasks, pending, fate>> /\ at' = "rest" /\ at # "replay"
        /\ stranded' = IF at = "rest" THEN stranded ELSE stranded \cup {about}
    BY <1>9 DEF GiveUp, Return, disk
  <2>2. SeqsPast' /\ ProposedLogged' /\ JudgedAfter' /\ DispatchIsReviewed'
    BY <2>1, SameLogKeeps, FateKeepsReviewed DEF IInv
  <2>3. NewUnknown' /\ HandlerKnows' /\ OpenWhileProposed'
    BY <2>1 DEF IInv, NewUnknown, HandlerKnows, OpenWhileProposed
  <2> QED BY <1>0, <2>2, <2>3 DEF IInv
<1>10. CASE Crash
  <2>1. /\ UNCHANGED <<log, last, tasks, fate>> /\ at' = "replay"
        /\ pending' = [p \in Proposal |-> "none"]
    BY <1>10 DEF Crash, disk
  <2>2. SeqsPast' /\ ProposedLogged' /\ JudgedAfter' /\ DispatchIsReviewed'
    BY <2>1, SameLogKeeps, FateKeepsReviewed DEF IInv
  <2>3. NewUnknown' /\ HandlerKnows' /\ OpenWhileProposed'
    BY <2>1 DEF IInv, NewUnknown, HandlerKnows, OpenWhileProposed
  <2> QED BY <1>0, <2>2, <2>3 DEF IInv
<1>11. CASE Replay
  <2>1. /\ UNCHANGED <<log, last, tasks, fate, stranded>> /\ at' = "rest"
        /\ pending' = [p \in Proposal |-> IF p \in Undecided THEN "open" ELSE "none"]
    BY <1>11 DEF Replay, Return, disk, history
  <2>2. SeqsPast' /\ ProposedLogged' /\ JudgedAfter' /\ DispatchIsReviewed'
    BY <2>1, SameLogKeeps, FateKeepsReviewed DEF IInv
  <2>3. \A p \in Proposal : /\ fate[p] = "proposed" => p \in Undecided
                            /\ fate[p] = "new" => p \notin Undecided
    BY DEF IInv, ProposedLogged, NewUnknown, Undecided, Logged
  <2>4. NewUnknown' /\ HandlerKnows' /\ OpenWhileProposed'
    BY <2>1, <2>3 DEF IInv, NewUnknown, HandlerKnows, OpenWhileProposed
  <2> QED BY <1>0, <2>2, <2>4 DEF IInv
<1>12. ASSUME NEW below \in 1 .. last, PruneEvents(below) PROVE IInv'
  <2>1. /\ UNCHANGED <<last, tasks, pending, at, about, approves, fate, stranded>>
        /\ log' \subseteq log
    BY <1>12 DEF PruneEvents, handler, history
  <2>2. ProposedLogged' /\ JudgedAfter'
    BY <1>12, PruneKeeps DEF IInv
  <2>3. SeqsPast' /\ NewUnknown' /\ HandlerKnows' /\ OpenWhileProposed'
    BY <2>1 DEF IInv, SeqsPast, NewUnknown, HandlerKnows, OpenWhileProposed
  <2>4. DispatchIsReviewed'
    BY <2>1, FateKeepsReviewed DEF IInv
  <2> QED BY <1>0, <2>2, <2>3, <2>4 DEF IInv
<1>13. ASSUME UNCHANGED <<log, last, pending, at, about, approves, fate, stranded>>,
              \A k \in Key : tasks'[k] # "absent" => tasks[k] # "absent"
       PROVE  IInv'
  <2>1. SeqsPast' /\ ProposedLogged' /\ JudgedAfter'
    BY <1>13, SameLogKeeps DEF IInv
  <2>2. NewUnknown' /\ HandlerKnows' /\ OpenWhileProposed'
    BY <1>13 DEF IInv, NewUnknown, HandlerKnows, OpenWhileProposed
  <2>3. DispatchIsReviewed'
    BY <1>13 DEF IInv, DispatchIsReviewed
  <2> QED BY <1>0, <2>1, <2>2, <2>3 DEF IInv
<1>14. ASSUME NEW k \in Key, NEW s \in Done \cup {"running", "failed"}, TaskMoves(k, s)
       PROVE  IInv'
  <2>1. \A j \in Key : tasks'[j] # "absent" => tasks[j] # "absent"
    BY <1>14, <1>0 DEF TaskMoves, TypeOK
  <2> QED BY <1>13, <1>14, <2>1 DEF TaskMoves, handler, history
<1>15. CASE PruneTasks
  <2>1. \A j \in Key : tasks'[j] # "absent" => tasks[j] # "absent"
    BY <1>15 DEF PruneTasks
  <2> QED BY <1>13, <1>15, <2>1 DEF PruneTasks, handler
<1> QED BY <1>1, <1>2, <1>3, <1>5, <1>6, <1>7, <1>8, <1>9, <1>10, <1>11, <1>12,
           <1>14, <1>15 DEF Next

-----------------------------------------------------------------------------
(* IInv holds of every reachable state. *)
LEMMA Invariant == Spec => []IInv
<1>1. Init => IInv
  <2> SUFFICES ASSUME Init PROVE IInv
    OBVIOUS
  <2>1. approves \in BOOLEAN /\ reviewing \in BOOLEAN
    BY Zenon DEF Init
  <2>2. /\ log = {} /\ last = 0 /\ cursor = 0 /\ rendered = 0 /\ boots = 0 /\ attempt = 0
        /\ at = "rest" /\ about = NoProposal /\ shown = {} /\ stranded = {} /\ forgotten = {}
        /\ tasks = [k \in Key |-> "absent"] /\ pending = [p \in Proposal |-> "none"]
        /\ fate = [p \in Proposal |-> "new"]
    BY DEF Init
  <2>3. TypeOK
    BY <2>1, <2>2, NatParameters DEF TypeOK
  <2> QED BY <2>2, <2>3 DEF IInv, SeqsPast, NewUnknown, ProposedLogged,
             JudgedAfter, HandlerKnows, OpenWhileProposed, DispatchIsReviewed
<1> QED BY <1>1, Inductive, PTL DEF Spec

(* The tables, the handler under way and the Critic's turn stay well-typed. *)
THEOREM TypeCorrect == Spec => []TypeOK
<1>1. IInv => TypeOK
  BY DEF IInv
<1> QED BY <1>1, Invariant, PTL

(* The log tells exactly the proposals still to be judged, for any window   *)
(* of retention and any number of restarts.                                 *)
THEOREM ReplayIsExactHolds == Spec => []ReplayIsExact
<1>1. IInv => ReplayIsExact
  <2> SUFFICES ASSUME IInv PROVE ReplayIsExact
    OBVIOUS
  <2>1. \A e \in log : e.about \in Proposal
    BY DEF IInv, TypeOK, LogRow
  <2>2. \A p \in Undecided : p \in Proposal /\ fate[p] = "proposed"
    BY <2>1 DEF IInv, JudgedAfter, Undecided, Logged
  <2>3. \A p \in Proposal : fate[p] = "proposed" => p \in Undecided
    BY DEF IInv, ProposedLogged, Undecided, Logged
  <2> QED BY <2>2, <2>3 DEF ReplayIsExact
<1> QED BY <1>1, Invariant, PTL

(* Nothing is dispatched without an approving verdict already in the log.   *)
THEOREM DispatchIsReviewedHolds == Spec => []DispatchIsReviewed
<1>1. IInv => DispatchIsReviewed
  BY DEF IInv
<1> QED BY <1>1, Invariant, PTL

(* Each turn of the Critic shows every proposal that has no verdict yet.    *)
THEOREM CriticSeesUndecidedHolds == Spec => CriticSeesUndecided
<1>1. IInv /\ [Next]_vars => [TurnShowsUndecided]_vars
  <2> SUFFICES ASSUME IInv, [Next]_vars, ~reviewing, reviewing',
                      NEW p \in Proposal, fate[p] = "proposed", p \notin stranded
               PROVE  p \in shown'
    BY DEF TurnShowsUndecided
  <2>1. BeginTurn
    BY Zenon DEF Next, vars, Propose, Judge, Register, EndTurn, Record, Skip, Create, Announce,
       GiveUp, Crash, Replay, PruneEvents, TaskMoves, PruneTasks, turn
  <2>2. pending[p] = "open"
    BY <2>1 DEF BeginTurn, IInv, OpenWhileProposed
  <2>3. PICK e \in log : e.topic = "proposal" /\ e.about = p
    BY DEF IInv, ProposedLogged
  <2> QED BY <2>1, <2>2, <2>3 DEF BeginTurn, Inbox
<1> QED BY <1>1, Invariant, PTL DEF Spec, CriticSeesUndecided

-----------------------------------------------------------------------------
(* Identical work.  The keys of a content are used in their order: a key is *)
(* taken only past ended rows, so of the rows it has left, all but the last *)
(* have ended, and so have those the loop under way has passed.             *)
Ended == Done \cup {"failed"}
Attempt == 0 .. MaxAttempts - 1

KeysInOrder ==
    \A c \in Content \ forgotten : \A m, n \in Attempt :
        (m < n /\ tasks[<<c, n>>] # "absent") => tasks[<<c, m>>] \in Ended
PassedEnded ==
    /\ at = "record" => attempt = 0
    /\ (at = "create" /\ ContentOf[about] \notin forgotten) =>
          \A m \in Attempt : m < attempt => tasks[<<ContentOf[about], m>>] \in Ended
Collapsed == KeysInOrder /\ PassedEnded

LEMMA States == /\ Live \cap Ended = {} /\ "absent" \notin Live \cup Ended
                /\ Done \subseteq Ended
BY DEF Live, Ended, Done

(* A step of no row, or of rows that only move on. *)
LEMMA RowsMoveOn ==
    ASSUME TypeOK, Collapsed, forgotten' = forgotten,
           \A k \in Key : /\ tasks[k] \in Ended => tasks'[k] \in Ended
                          /\ tasks[k] = "absent" => tasks'[k] = "absent",
           at' \in {"record", "create"} =>
              /\ at' = at \/ (at' = "create" /\ at = "record") \/ attempt' = 0
              /\ UNCHANGED <<about, attempt>> \/ attempt' = 0,
           at' = "record" => attempt' = 0
    PROVE  Collapsed'
<1>1. \A c \in Content, m \in Attempt : <<c, m>> \in Key
  BY DEF Key, Attempt
<1>2. KeysInOrder'
  BY <1>1 DEF Collapsed, KeysInOrder
<1>3. PassedEnded'
  <2> SUFFICES ASSUME at' = "create", ContentOf[about'] \notin forgotten,
                      NEW m \in Attempt, m < attempt'
               PROVE  tasks'[<<ContentOf[about'], m>>] \in Ended
    BY DEF PassedEnded
  <2>1. attempt' # 0
    BY DEF Attempt
  <2>2. about' = about /\ attempt' = attempt /\ at \in {"record", "create"}
    BY <2>1
  <2>3. at = "create"
    BY <2>1, <2>2 DEF Collapsed, PassedEnded
  <2>4. <<ContentOf[about], m>> \in Key
    BY <2>3, <1>1, ContentOfType DEF TypeOK
  <2> QED
    BY <2>2, <2>3, <2>4 DEF Collapsed, PassedEnded
<1> QED BY <1>2, <1>3 DEF Collapsed

(* The loop inserts under the first key without a row, past ended ones.     *)
LEMMA CreateKeeps == ASSUME TypeOK, HandlerKnows, Collapsed, Create PROVE Collapsed'
<1> DEFINE c == ContentOf[about]
<1>0. /\ at = "create" /\ about \in Proposal /\ c \in Content /\ attempt \in Attempt
      /\ CurrentKey = <<c, attempt>> /\ CurrentKey \in Key /\ forgotten' = forgotten
  BY ContentOfType DEF TypeOK, Create, CurrentKey, Key, Attempt
<1>1. CASE Twin # "absent" /\ (TwinLives \/ ~KeysLeft) /\ tasks' = tasks /\ Return
  BY <1>0, <1>1, RowsMoveOn DEF Return
<1>2. CASE /\ Twin # "absent" /\ ~TwinLives /\ attempt' = attempt + 1
           /\ UNCHANGED <<tasks, at, about>>
  <2>1. tasks[<<c, attempt>>] \in Ended
    BY <1>0, <1>2 DEF Twin, TwinLives, TypeOK, Ended
  <2>2. KeysInOrder'
    BY <1>0, <1>2 DEF Collapsed, KeysInOrder
  <2>3. ASSUME c \notin forgotten, NEW m \in Attempt, m < attempt + 1
        PROVE  tasks[<<c, m>>] \in Ended
    <3>1. m = attempt \/ m < attempt
      BY <1>0, <2>3, NatParameters DEF Attempt
    <3> QED BY <1>0, <2>1, <2>3, <3>1 DEF Collapsed, PassedEnded
  <2> QED BY <1>0, <1>2, <2>2, <2>3 DEF Collapsed, PassedEnded
<1>3. CASE /\ Twin = "absent" /\ tasks' = [tasks EXCEPT ![CurrentKey] = "queued"]
           /\ at' = "announce"
  <2>1. /\ tasks[<<c, attempt>>] = "absent" /\ tasks'[<<c, attempt>>] = "queued"
        /\ \A k \in Key : k # <<c, attempt>> => tasks'[k] = tasks[k]
    BY <1>0, <1>3 DEF TypeOK, Twin
  <2>2. KeysInOrder'
    <3> SUFFICES ASSUME NEW e \in Content \ forgotten, NEW m \in Attempt, NEW n \in Attempt,
                        m < n, tasks'[<<e, n>>] # "absent"
                 PROVE  tasks'[<<e, m>>] \in Ended
      BY <1>0 DEF KeysInOrder
    <3>1. <<e, m>> \in Key /\ <<e, n>> \in Key /\ m # n /\ <<e, m>> # <<e, n>>
      BY DEF Key, Attempt
    <3>2. CASE <<e, n>> = <<c, attempt>>
      <4>1. e = c /\ n = attempt
        BY <3>2
      <4>2. tasks[<<c, m>>] \in Ended
        BY <1>0, <4>1 DEF Collapsed, PassedEnded
      <4> QED BY <2>1, <3>1, <3>2, <4>1, <4>2
    <3>3. CASE <<e, n>> # <<c, attempt>>
      <4>1. tasks[<<e, m>>] \in Ended
        BY <2>1, <3>1, <3>3 DEF Collapsed, KeysInOrder
      <4> QED BY <2>1, <3>1, <4>1, States
    <3> QED BY <3>2, <3>3
  <2> QED BY <1>3, <2>2 DEF Collapsed, PassedEnded
<1> QED
  BY <1>1, <1>2, <1>3 DEF Create

(* Retention forgets a content with the first of its rows it deletes, and   *)
(* only while no handler is under way.                                      *)
LEMMA PruneForgets == ASSUME TypeOK, Collapsed, PruneTasks PROVE Collapsed'
<1>1. PICK gone \in SUBSET {k \in Key : tasks[k] \in Done} :
         /\ tasks' = [k \in Key |-> IF k \in gone THEN "absent" ELSE tasks[k]]
         /\ forgotten' = forgotten \cup {k[1] : k \in gone}
  BY DEF PruneTasks
<1>2. ASSUME NEW c \in Content \ forgotten', NEW m \in Attempt
      PROVE  tasks'[<<c, m>>] = tasks[<<c, m>>] /\ c \in Content \ forgotten
  <2>1. <<c, m>> \in Key
    BY DEF Key, Attempt
  <2>2. <<c, m>> \notin gone
    <3> SUFFICES ASSUME <<c, m>> \in gone PROVE FALSE
      OBVIOUS
    <3>1. <<c, m>>[1] \in {k[1] : k \in gone}
      OBVIOUS
    <3> QED BY <1>1, <1>2, <3>1
  <2> QED BY <1>1, <2>1, <2>2
<1>3. KeysInOrder'
  BY <1>2 DEF Collapsed, KeysInOrder
<1>4. at' = "rest"
  BY DEF PruneTasks, handler
<1> QED BY <1>3, <1>4 DEF Collapsed, PassedEnded

LEMMA CollapsedStep == TypeOK /\ HandlerKnows /\ Collapsed /\ [Next]_vars => Collapsed'
<1> SUFFICES ASSUME TypeOK, HandlerKnows, Collapsed, [Next]_vars PROVE Collapsed'
  OBVIOUS
<1>1. ASSUME UNCHANGED <<tasks, forgotten>>, at' \notin {"record", "create"}
      PROVE  Collapsed'
  BY <1>1, RowsMoveOn
<1>2. ASSUME UNCHANGED <<tasks, forgotten, at, about, attempt>>
      PROVE  Collapsed'
  BY <1>2, RowsMoveOn DEF Collapsed, PassedEnded
<1>3. ASSUME NEW p \in Proposal, Propose(p)
      PROVE  Collapsed'
  BY <1>1, <1>3 DEF Propose
<1>4. ASSUME NEW p \in Proposal, NEW yes \in BOOLEAN, Judge(p, yes)
      PROVE  Collapsed'
  BY <1>4, RowsMoveOn DEF Judge, disk, history
<1>5. CASE Register \/ Skip \/ Announce \/ GiveUp \/ Crash \/ Replay
  BY <1>1, <1>5 DEF Register, Skip, Announce, GiveUp, Crash, Replay, Return, disk, history
<1>6. CASE BeginTurn \/ EndTurn \/ UNCHANGED vars
  BY <1>2, <1>6 DEF BeginTurn, EndTurn, vars, disk, handler, history
<1>7. CASE Record
  <2>1. attempt = 0 /\ at = "record" /\ UNCHANGED <<tasks, forgotten>>
    BY <1>7 DEF Record, Collapsed, PassedEnded
  <2>2. CASE at' = "rest"
    BY <1>1, <2>1, <2>2
  <2>3. CASE at' = "create" /\ UNCHANGED <<about, attempt>>
    BY <2>1, <2>3, RowsMoveOn
  <2> QED BY <1>7, <2>2, <2>3 DEF Record, Return
<1>8. ASSUME NEW below \in 1 .. last, PruneEvents(below)
      PROVE  Collapsed'
  BY <1>2, <1>8 DEF PruneEvents, handler, history
<1>9. ASSUME NEW k \in Key, NEW s \in Done \cup {"running", "failed"}, TaskMoves(k, s)
      PROVE  Collapsed'
  <2>1. /\ tasks[k] \in {"queued", "running"} /\ tasks' = [tasks EXCEPT ![k] = s]
        /\ UNCHANGED <<forgotten, at, about, attempt>>
    BY <1>9 DEF TaskMoves, handler, history
  <2>2. \A j \in Key : tasks'[j] = IF j = k THEN s ELSE tasks[j]
    BY <2>1 DEF TypeOK
  <2>3. tasks[k] \notin Ended /\ tasks[k] # "absent"
    BY <2>1, States DEF Live
  <2> QED BY <2>1, <2>2, <2>3, RowsMoveOn DEF Collapsed, PassedEnded
<1> QED
  BY <1>3, <1>4, <1>5, <1>6, <1>7, <1>8, <1>9, CreateKeeps, PruneForgets DEF Next

(* Two proposals that would launch identical work, and the retries of each, *)
(* leave one live task of that work at most: the idempotency keys of        *)
(* _materialize_approved_proposal are tried in order and a live twin ends   *)
(* the search, as long as retention has deleted none of them.               *)
THEOREM OneLiveTwinHolds == Spec => []OneLiveTwin
<1>1. Init => Collapsed
  BY DEF Init, Collapsed, KeysInOrder, PassedEnded, Key, Attempt
<1>2. Spec => []Collapsed
  <2>1. IInv /\ Collapsed /\ [Next]_vars => Collapsed'
    BY CollapsedStep DEF IInv
  <2> QED BY <1>1, <2>1, Invariant, PTL DEF Spec
<1>3. Collapsed => OneLiveTwin
  <2> SUFFICES ASSUME Collapsed, NEW c \in Content \ forgotten
               PROVE  Cardinality({k \in Key : k[1] = c /\ tasks[k] \in Live}) =< 1
    BY DEF OneLiveTwin
  <2> DEFINE L == {k \in Key : k[1] = c /\ tasks[k] \in Live}
  <2>1. ASSUME NEW j \in L, NEW k \in L PROVE j = k
    <3>1. /\ j[2] \in Attempt /\ j = <<c, j[2]>> /\ tasks[j] \in Live
          /\ k[2] \in Attempt /\ k = <<c, k[2]>> /\ tasks[k] \in Live
      BY DEF Key, Attempt
    <3>2. ~(j[2] < k[2]) /\ ~(k[2] < j[2])
      BY <3>1, States DEF Collapsed, KeysInOrder
    <3>3. j[2] = k[2]
      BY <3>1, <3>2 DEF Attempt
    <3> QED BY <3>1, <3>3
  <2>2. CASE L = {}
    BY <2>2, FS_EmptySet
  <2>3. CASE L # {}
    <3>1. PICK k \in L : L = {k}
      BY <2>1, <2>3
    <3>2. Cardinality(L) = 1
      BY <3>1, FS_Singleton
    <3> QED BY <3>2
  <2> QED BY <2>2, <2>3
<1> QED BY <1>2, <1>3, PTL

=============================================================================
