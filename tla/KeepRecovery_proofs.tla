------------------------- MODULE KeepRecovery_proofs -------------------------
(***************************************************************************)
(* For every number of iterations, kills and failing writes: what a resume *)
(* and a session find agrees with what was verified, no iteration is       *)
(* counted twice, the log and the manifest tell the truth.  With at most   *)
(* one write lost, no number is given twice and every death is recoverable *)
(* (RInv).                                                                 *)
(***************************************************************************)
EXTENDS KeepRecovery, Integers, FiniteSetTheorems, SequenceTheorems, WellFoundedInduction, TLAPS

(* An iteration is under way, its number not yet counted; counted; or no    *)
(* session runs.                                                            *)
Working == {"policy", "announce", "agent", "discard", "reject", "journal", "stage", "commit",
            "backout", "unkeep", "promote", "record"}
Through == {"top", "settle", "finalize", "unjournal", "publish", "archive", "rearchive",
            "republish", "clear"}

(* The iteration's number is above whatever was logged before. *)
Numbered ==
    /\ pc \in Working => mem.next \in Iteration
    /\ pc \in Working \cup Through => \A e \in Results : e.iter < mem.next
    /\ pc = "relog" => EventOf(journal.iter) = {}

Sound(s) == s.counted < s.next

(* What a step knows that the steps before it established. *)
Unwritten == {"top", "policy", "announce", "agent", "discard", "journal", "reject", "settle",
              "publish", "archive", "reconcile"}
AtHead == {"finalize", "unjournal", "publish", "restore", "forget", "relog", "resave",
           "reconcile", "renumber", "rearchive", "republish", "clear"}
AtBest == {"unjournal", "publish", "restore", "forget", "reconcile", "renumber", "rearchive",
           "republish", "clear"}
Tidy == {"top", "policy", "announce", "reject", "settle", "unkeep", "promote", "record",
         "finalize", "unjournal", "publish", "archive", "forget", "relog", "resave", "reconcile",
         "renumber", "rearchive", "republish", "clear"}
Tipped == {"promote", "record", "finalize", "unjournal", "publish", "archive", "relog"}
InPlace ==
    /\ pc \in Unwritten => journal = None
    /\ pc \in {"stage", "commit"} => journal = [iter |-> mem.next, base |-> head]
    /\ pc \in {"promote", "record"} => Last(head) = mem.next
    /\ pc \in {"promote", "record", "finalize", "relog", "rearchive", "republish", "clear"} =>
          journal # None
    /\ pc \in Tipped => head # <<>>
    /\ pc = "relog" => Last(head) = journal.iter
    /\ pc \in AtHead => mem.best = head
    /\ pc \in AtBest => st.best = head
    /\ pc \in Tidy => tree = Clean

(* Whatever is published, git and both states hold. *)
Published == \A commit \in {st.best, mem.best, head} : IsPrefix(manifest, commit)

(* Without a journal HEAD is the best of both states; with one, HEAD is     *)
(* where it found it or one commit further, and a state that knows of that  *)
(* commit is past its iteration.  All of it ends when a KEEP is given up    *)
(* over its own commit.                                                     *)
Follows(s) == s.best = journal.base \/ (s.best = head /\ s.next > journal.iter)
Window ==
    IF journal = None THEN st.best = head /\ mem.best = head
    ELSE /\ head \in {journal.base, Append(journal.base, journal.iter)}
         /\ Follows(st) /\ Follows(mem)
Tallied(s) == s.kept = Len(s.best)
InStep ==
    pc \in {"promote", "record"} =>
        /\ journal = [iter |-> mem.next, base |-> mem.best]
        /\ head = Append(mem.best, mem.next) /\ st.best = mem.best
Settled == Window /\ InStep /\ Tallied(st) /\ Tallied(mem)

(* The inductive invariant. *)
IInv ==
    /\ TypeOK /\ Numbered /\ Sound(st) /\ Sound(mem) /\ InPlace
    /\ LogTellsTheTruth /\ Published
    /\ astray \/ Settled

-----------------------------------------------------------------------------
(* Sequences, the largest of finitely many numbers, the reduction of a      *)
(* checkpoint.                                                              *)

Commits == Seq(Iteration)

(* A RunState without the bounds on its numbers, as the operators give it. *)
Checkpoint == [next : Nat \ {0}, best : Seq(Iteration), kept : Nat, counted : Nat]
Event == [iter : Iteration, keep : BOOLEAN, commit : Commits]

(* A commit and its parent. *)
LEMMA Appended ==
    ASSUME NEW S, NEW s \in Seq(S), NEW x \in S
    PROVE  /\ Append(s, x) \in Seq(S) /\ Append(s, x) # <<>> /\ Append(s, x) # s
           /\ Front(Append(s, x)) = s /\ Last(Append(s, x)) = x
           /\ Len(s) \in Nat /\ Len(Append(s, x)) = Len(s) + 1
<1>1. /\ Append(s, x) \in Seq(S) /\ Append(s, x) # <<>>
      /\ Len(s) \in Nat /\ Len(Append(s, x)) = Len(s) + 1
      /\ \A i \in 1 .. Len(s) : Append(s, x)[i] = s[i]
      /\ Append(s, x)[Len(s) + 1] = x
  BY AppendProperties, LenProperties
<1>2. Append(s, x) # s
  BY <1>1
<1>3. Last(Append(s, x)) = x
  BY <1>1 DEF Last
<1>4. Front(Append(s, x)) = s
  <2>1. Front(Append(s, x)) = SubSeq(Append(s, x), 1, Len(s))
    BY <1>1 DEF Front
  <2>2. \A i \in 1 .. Len(s) : Append(s, x)[i] \in S
    BY <1>1, ElementOfSeq
  <2>3. /\ Front(Append(s, x)) \in Seq(S) /\ Len(Front(Append(s, x))) = Len(s)
        /\ \A i \in 1 .. Len(s) : Front(Append(s, x))[i] = Append(s, x)[i]
    <3>1. /\ SubSeq(Append(s, x), 1, Len(s)) \in Seq(S)
          /\ Len(SubSeq(Append(s, x), 1, Len(s))) = IF 1 <= Len(s) THEN Len(s) - 1 + 1 ELSE 0
          /\ \A i \in 1 .. Len(s) - 1 + 1 : SubSeq(Append(s, x), 1, Len(s))[i] = Append(s, x)[1 + i - 1]
      BY <1>1, <2>2, SubSeqProperties
    <3> QED
      BY <1>1, <2>1, <3>1
  <2> QED
    BY <1>1, <2>3, SeqEqual
<1> QED
  BY <1>1, <1>2, <1>3, <1>4

LEMMA AppendedBack ==
    ASSUME NEW S, NEW s \in Seq(S), s # <<>>
    PROVE  Front(s) \in Seq(S) /\ Last(s) \in S /\ s = Append(Front(s), Last(s))
<1>1. PICK r \in Seq(S), x \in S : s = Append(r, x)
  BY SequenceEmptyOrAppend
<1> QED
  BY <1>1, Appended

LEMMA ToSetAppend ==
    ASSUME NEW S, NEW s \in Seq(S), NEW x \in S
    PROVE  ToSet(Append(s, x)) = ToSet(s) \cup {x}
<1>1. /\ DOMAIN s = 1 .. Len(s) /\ Len(s) \in Nat
      /\ DOMAIN Append(s, x) = 1 .. Len(s) + 1
      /\ \A i \in 1 .. Len(s) : Append(s, x)[i] = s[i]
      /\ Append(s, x)[Len(s) + 1] = x
  BY AppendProperties, LenProperties
<1>2. \A i \in DOMAIN Append(s, x) : i \in DOMAIN s \/ i = Len(s) + 1
  BY <1>1
<1>3. \A i \in DOMAIN s : i \in DOMAIN Append(s, x)
  BY <1>1
<1>4. Len(s) + 1 \in DOMAIN Append(s, x)
  BY <1>1
<1> QED
  BY <1>1, <1>2, <1>3, <1>4 DEF ToSet

LEMMA PrefixOfAppend ==
    ASSUME NEW S, NEW s \in Seq(S), NEW x \in S, NEW r \in Seq(S), IsPrefix(r, s)
    PROVE  IsPrefix(r, Append(s, x))
<1>1. /\ Len(s) \in Nat /\ Len(r) \in Nat /\ Len(Append(s, x)) = Len(s) + 1 /\ Len(r) =< Len(s)
      /\ \A i \in 1 .. Len(s) : Append(s, x)[i] = s[i] /\ s[i] \in S
  BY AppendProperties, LenProperties, ElementOfSeq DEF IsPrefix
<1>2. /\ SubSeq(s, 1, Len(r)) \in Seq(S)
      /\ Len(SubSeq(s, 1, Len(r))) = Len(r)
      /\ \A i \in 1 .. Len(r) : SubSeq(s, 1, Len(r))[i] = s[i]
  <2>1. /\ SubSeq(s, 1, Len(r)) \in Seq(S)
        /\ Len(SubSeq(s, 1, Len(r))) = IF 1 <= Len(r) THEN Len(r) - 1 + 1 ELSE 0
        /\ \A i \in 1 .. Len(r) - 1 + 1 : SubSeq(s, 1, Len(r))[i] = s[1 + i - 1]
    BY <1>1, SubSeqProperties
  <2> QED
    BY <1>1, <2>1
<1>3. /\ SubSeq(Append(s, x), 1, Len(r)) \in Seq(S)
      /\ Len(SubSeq(Append(s, x), 1, Len(r))) = Len(r)
      /\ \A i \in 1 .. Len(r) : SubSeq(Append(s, x), 1, Len(r))[i] = Append(s, x)[i]
  <2>1. /\ SubSeq(Append(s, x), 1, Len(r)) \in Seq(S)
        /\ Len(SubSeq(Append(s, x), 1, Len(r))) = IF 1 <= Len(r) THEN Len(r) - 1 + 1 ELSE 0
        /\ \A i \in 1 .. Len(r) - 1 + 1 : SubSeq(Append(s, x), 1, Len(r))[i] = Append(s, x)[1 + i - 1]
    BY <1>1, SubSeqProperties
  <2> QED
    BY <1>1, <2>1
<1>4. SubSeq(Append(s, x), 1, Len(r)) = SubSeq(s, 1, Len(r))
  BY <1>1, <1>2, <1>3, SeqEqual
<1> QED
  BY <1>1, <1>4 DEF IsPrefix

LEMMA PrefixOfItself == ASSUME NEW S, NEW s \in Seq(S) PROVE IsPrefix(s, s)
<1>1. Len(s) \in Nat
  BY LenProperties
<1> QED
  BY <1>1 DEF IsPrefix

(* Bounded sets of numbers have a largest element: the one whose distance   *)
(* to the bound is least.                                                   *)
LEMMA MaxOfBounded ==
    ASSUME NEW S \in SUBSET Nat, NEW bound \in Nat, S # {}, \A x \in S : x =< bound
    PROVE  Max(S) \in S /\ \A x \in S : Max(S) >= x
<1> DEFINE T == {bound - x : x \in S}
<1>1. T \subseteq Nat /\ T # {}
  <2>1. \A x \in S : x \in Nat /\ x =< bound
    OBVIOUS
  <2>2. \A x \in S : bound - x \in Nat
    BY <2>1
  <2> QED
    BY <2>2
<1>2. PICK m \in T : \A y \in T : ~(<<y, m>> \in OpToRel(<, Nat))
  <2> HIDE DEF T
  <2> QED
    BY <1>1, NatLessThanWellFounded, WFMin
<1>3. \A y \in T : m =< y
  <2> HIDE DEF T
  <2> SUFFICES ASSUME NEW y \in T PROVE m =< y
    OBVIOUS
  <2>1. ~(<<y, m>> \in OpToRel(<, Nat)) /\ y \in Nat /\ m \in Nat
    BY <1>1, <1>2
  <2>2. ~(y < m)
    BY <2>1 DEF OpToRel
  <2>3. y \in Nat /\ m \in Nat /\ ~(y < m) => m =< y
    OBVIOUS
  <2> QED
    BY <2>1, <2>2, <2>3
<1>4. PICK x \in S : m = bound - x
  OBVIOUS
<1>5. \A y \in S : x >= y
  <2> SUFFICES ASSUME NEW y \in S PROVE x >= y
    OBVIOUS
  <2>1. bound - y \in T
    OBVIOUS
  <2>2. bound - x =< bound - y
    BY <1>3, <1>4, <2>1
  <2>3. x \in Nat /\ y \in Nat
    OBVIOUS
  <2> HIDE DEF T
  <2> QED
    BY <2>2, <2>3
<1> HIDE DEF T
<1> QED
  BY <1>5 DEF Max

LEMMA ResultsTyped ==
    ASSUME TypeOK
    PROVE  Results \subseteq Event /\ IsFiniteSet(Results)
<1>1. log \in [1 .. Len(log) -> Event] /\ Len(log) \in Nat /\ DOMAIN log = 1 .. Len(log)
  BY LenProperties DEF TypeOK, Event, Commits
<1>2. log \in Surjection(1 .. Len(log), Results)
  BY <1>1 DEF Surjection, Results, ToSet
<1>3. IsFiniteSet(1 .. Len(log))
  BY <1>1, FS_Interval
<1> QED
  BY <1>1, <1>2, <1>3, FS_Surjection DEF Results, ToSet

LEMMA ReducedTyped ==
    ASSUME TypeOK, Sound(st)
    PROVE  /\ Reduced \in Checkpoint /\ Sound(Reduced)
           /\ Reduced.best = st.best /\ Reduced.kept = st.kept
           /\ Cursor \in Nat \ {0} /\ Reduced.next = Cursor /\ Cursor >= st.next
<1>1. Cardinality(Replayed) \in Nat
  <2>1. Replayed \subseteq Results
    BY DEF Replayed, Beyond
  <2>2. IsFiniteSet(Replayed)
    BY <2>1, ResultsTyped, FS_Subset
  <2> QED
    BY <2>2, FS_CardinalityType
<1>2. /\ st.next \in Nat \ {0} /\ st.counted \in Nat /\ st.best \in Seq(Iteration)
      /\ st.kept \in Nat
  BY DEF TypeOK, State, Checkpoint
<1>3. Cursor \in Nat \ {0} /\ Cursor >= st.next
  BY <1>1, <1>2 DEF Cursor
<1>4. \A n \in Nat \ {0}, c \in Nat :
        LET r == [st EXCEPT !.next = n, !.counted = c]
        IN  /\ r.next = n /\ r.counted = c /\ r.best = st.best /\ r.kept = st.kept
            /\ r \in Checkpoint
  BY DEF TypeOK, State, Checkpoint
<1>5. st.counted + Cardinality(Replayed) < Cursor /\ st.counted + Cardinality(Replayed) \in Nat
  BY <1>1, <1>2 DEF Sound, Cursor
<1>6. Reduced = [st EXCEPT !.next = Cursor, !.counted = st.counted + Cardinality(Replayed)]
  BY Zenon DEF Reduced
<1>7. /\ Reduced.next = Cursor /\ Reduced.best = st.best /\ Reduced.kept = st.kept
      /\ Reduced.counted = st.counted + Cardinality(Replayed) /\ Reduced \in Checkpoint
  BY <1>3, <1>4, <1>5, <1>6, Zenon
<1> QED
  BY <1>3, <1>5, <1>7 DEF Sound

LEMMA Reductions ==
    ASSUME TypeOK, NEW s \in Checkpoint, NEW n \in Nat
    PROVE  /\ Counted(s, n) \in Checkpoint /\ Counted(s, n).next = n + 1
           /\ Counted(s, n).counted = s.counted + 1
           /\ Counted(s, n).best = s.best /\ Counted(s, n).kept = s.kept
           /\ Kept(s, n) \in Checkpoint /\ Kept(s, n).next = n + 1
           /\ Kept(s, n).counted = s.counted + 1
           /\ Kept(s, n).best = head /\ Kept(s, n).kept = s.kept + 1
<1>1. PICK i \in Nat \ {0}, c \in Nat, k \in Nat : i = n + 1 /\ c = s.counted + 1 /\ k = s.kept + 1
  BY DEF State, Checkpoint
<1>2. Counted(s, n) = [s EXCEPT !.next = i, !.counted = c]
  BY <1>1, Zenon DEF Counted
<1> DEFINE q == [s EXCEPT !.next = i, !.counted = c]
<1>3. q \in Checkpoint /\ q.next = i /\ q.counted = c /\ q.best = s.best /\ q.kept = s.kept
  BY DEF State, Checkpoint
<1>4. Kept(s, n) = [Counted(s, n) EXCEPT !.best = head, !.kept = Counted(s, n).kept + 1]
  BY Zenon DEF Kept
<1> HIDE DEF q
<1>5. Kept(s, n) = [q EXCEPT !.best = head, !.kept = k]
  <2>1. Counted(s, n) = q
    BY <1>2 DEF q
  <2> QED
    BY <1>1, <1>3, <1>4, <2>1, Zenon
<1> DEFINE r == [q EXCEPT !.best = head, !.kept = k]
<1>6. r \in Checkpoint /\ r.next = i /\ r.counted = c /\ r.best = head /\ r.kept = k
  BY <1>3 DEF State, Checkpoint, TypeOK
<1> HIDE DEF r
<1>7. Counted(s, n) = q /\ Kept(s, n) = r
  BY <1>2, <1>5 DEF q, r
<1> QED
  BY <1>1, <1>3, <1>6, <1>7

LEMMA Narrowed ==
    ASSUME NEW s \in Checkpoint, Sound(s), s.next \in 1 .. MaxIteration + 1
    PROVE  s \in State
<1>1. MaxIteration \in Nat
  BY RecoveryAssumption DEF RecoveryAssumption
<1>2. /\ s = [next |-> s.next, best |-> s.best, kept |-> s.kept, counted |-> s.counted]
      /\ s.best \in Seq(Iteration) /\ s.kept \in Nat /\ s.counted \in Nat
  BY DEF Checkpoint
<1>3. s.counted \in 0 .. MaxIteration
  BY <1>1, <1>2 DEF Sound
<1> QED
  BY <1>2, <1>3 DEF State

(* The number Renumber gives is above whatever was begun, logged or         *)
(* archived.                                                                *)
LEMMA RenumberedAbove ==
    ASSUME TypeOK
    PROVE  /\ Renumbered \in Nat \ {0} /\ Renumbered >= mem.next /\ Renumbered > begun
           /\ Renumbered \in 1 .. MaxIteration + 1
           /\ \A e \in Results : Renumbered > e.iter
<1> DEFINE S == {mem.next, begun + 1} \cup {e.iter + 1 : e \in Results} \cup {n + 1 : n \in archive}
           bound == MaxIteration + 1
<1>1. /\ mem.next \in Nat \ {0} /\ MaxIteration \in Nat /\ begun \in 0 .. MaxIteration
      /\ mem.next \in 1 .. MaxIteration + 1
  <2>1. mem.next \in 1 .. MaxIteration + 1 /\ begun \in 0 .. MaxIteration
    BY DEF TypeOK, State
  <2> QED
    BY <2>1, RecoveryAssumption DEF RecoveryAssumption
<1>2. \A e \in Results : e.iter \in 1 .. MaxIteration
  BY ResultsTyped DEF Event, Iteration
<1>3. \A n \in archive : n \in 1 .. MaxIteration
  BY DEF TypeOK, Iteration
<1>4. \A i \in 0 .. MaxIteration : i + 1 \in Nat /\ i + 1 =< bound
  BY <1>1
<1>5. \A i \in 1 .. MaxIteration : i \in 0 .. MaxIteration
  BY <1>1
<1>6. /\ mem.next \in Nat /\ mem.next =< bound /\ begun + 1 \in Nat /\ begun + 1 =< bound
      /\ bound \in Nat
  BY <1>1
<1>7. \A x \in S : x \in Nat /\ x =< bound
  <2> HIDE DEF bound
  <2> QED
    BY <1>2, <1>3, <1>4, <1>5, <1>6
<1>8. Max(S) \in S /\ \A x \in S : Max(S) >= x
  <2> HIDE DEF S, bound
  <2>1. S \in SUBSET Nat /\ \A x \in S : x =< bound
    BY <1>7
  <2>2. S # {}
    BY DEF S
  <2> QED
    BY <1>6, <2>1, <2>2, MaxOfBounded
<1>9. Renumbered = Max(S) /\ Max(S) \in Nat /\ Max(S) =< bound
  BY <1>7, <1>8 DEF Renumbered
<1>10. mem.next \in S /\ begun + 1 \in S /\ \A e \in Results : e.iter + 1 \in S
  OBVIOUS
<1> HIDE DEF S
<1>11. Renumbered >= mem.next /\ Renumbered >= begun + 1 /\ \A e \in Results : Renumbered >= e.iter + 1
  BY <1>8, <1>9, <1>10
<1>12. \A i \in Nat : Renumbered >= i + 1 => Renumbered > i
  BY <1>9
<1>13. \A e \in Results : e.iter \in Nat
  BY <1>1, <1>2
<1>14. Renumbered \in Nat \ {0} /\ Renumbered \in 1 .. MaxIteration + 1
  BY <1>1, <1>9, <1>11
<1> QED
  BY <1>1, <1>11, <1>12, <1>13, <1>14

(* One more event. *)
LEMMA LogGrows ==
    ASSUME TypeOK, LogTellsTheTruth, NEW e \in Event, log' = Append(log, e), head' = head,
           \A f \in Results : f.iter # e.iter,
           e.keep => IsPrefix(e.commit, head) /\ Last(e.commit) = e.iter
    PROVE  log' \in Seq(Event) /\ LogTellsTheTruth' /\ Results' = Results \cup {e}
<1>1. /\ log' \in Seq(Event) /\ log \in Seq(Event) /\ Len(log) \in Nat
      /\ DOMAIN log = 1 .. Len(log) /\ DOMAIN log' = 1 .. Len(log) + 1
      /\ \A i \in 1 .. Len(log) : log'[i] = log[i] /\ log[i] \in Results
      /\ log'[Len(log) + 1] = e
  <2>1. log \in Seq(Event)
    BY DEF TypeOK, Event, Commits
  <2>2. log' \in Seq(Event) /\ Len(log') = Len(log) + 1
    BY <2>1, AppendProperties
  <2>3. DOMAIN log' = 1 .. Len(log') /\ DOMAIN log = 1 .. Len(log) /\ Len(log) \in Nat
    BY <2>1, <2>2, LenProperties
  <2>4. /\ \A i \in 1 .. Len(log) : log'[i] = log[i]
        /\ log'[Len(log) + 1] = e
    BY <2>1, AppendProperties
  <2>5. \A i \in 1 .. Len(log) : log[i] \in Results
    BY <2>3 DEF Results, ToSet
  <2> QED
    BY <2>1, <2>2, <2>3, <2>4, <2>5
<1>2. \A i \in DOMAIN log' : i \in DOMAIN log \/ i = Len(log) + 1
  BY <1>1
<1>3. Results' = Results \cup {e}
  <2>1. Results' = {log'[i] : i \in DOMAIN log'} /\ Results = {log[i] : i \in DOMAIN log}
    BY DEF Results, ToSet
  <2>2. \A i \in DOMAIN log : i \in DOMAIN log' /\ log'[i] = log[i]
    BY <1>1
  <2>3. Len(log) + 1 \in DOMAIN log'
    BY <1>1
  <2> QED
    BY <1>1, <1>2, <2>1, <2>2, <2>3
<1>4. ASSUME NEW i \in DOMAIN log', NEW j \in DOMAIN log', log'[i].iter = log'[j].iter
      PROVE  i = j
  <2>1. CASE i \in DOMAIN log /\ j \in DOMAIN log
    BY <1>1, <1>4, <2>1 DEF LogTellsTheTruth
  <2>2. CASE i = Len(log) + 1 /\ j \in DOMAIN log
    BY <1>1, <1>4, <2>2
  <2>3. CASE j = Len(log) + 1 /\ i \in DOMAIN log
    BY <1>1, <1>4, <2>3
  <2> QED
    BY <1>2, <2>1, <2>2, <2>3
<1>5. \A f \in Results' : f.keep => IsPrefix(f.commit, head') /\ Last(f.commit) = f.iter
  BY <1>3 DEF LogTellsTheTruth
<1> QED
  BY <1>1, <1>3, <1>4, <1>5 DEF LogTellsTheTruth

(* The replayed results are numbered from the checkpoint on, so the cursor  *)
(* is at most one past the last iteration.                                  *)
LEMMA CursorBounded ==
    ASSUME TypeOK, Sound(st), Contiguous
    PROVE  Cursor \in 1 .. MaxIteration + 1
<1>1. Cursor \in Nat \ {0} /\ Cursor >= st.next /\ st.next \in 1 .. MaxIteration + 1
      /\ MaxIteration \in Nat
  BY ReducedTyped, RecoveryAssumption DEF TypeOK, State, RecoveryAssumption
<1>2. {e.iter : e \in Replayed} = st.next .. Cursor - 1
  BY DEF Contiguous
<1>3. \A e \in Replayed : e.iter \in 1 .. MaxIteration
  BY ResultsTyped DEF Replayed, Beyond, Event, Iteration
<1>4. CASE Cursor = st.next
  BY <1>1, <1>4
<1>5. CASE Cursor > st.next
  <2>1. Cursor - 1 \in st.next .. Cursor - 1
    BY <1>1, <1>5
  <2>2. Cursor - 1 \in 1 .. MaxIteration
    BY <1>2, <1>3, <2>1
  <2> QED
    BY <1>1, <2>2
<1> QED
  BY <1>1, <1>4, <1>5

(* What a resume plans: whatever it finds, the state it will go on with has *)
(* HEAD as its best.                                                        *)
LEMMA Plan ==
    ASSUME IInv, Recoverable
    PROVE  /\ Planned \in Checkpoint /\ Sound(Planned) /\ Planned.best = head
           /\ Planned.next \in 1 .. MaxIteration + 1
           /\ \/ FirstStep = "restore" /\ journal # None /\ st.best = head
              \/ /\ FirstStep = "relog" /\ journal # None /\ tree = Clean /\ head # <<>>
                 /\ Last(head) = journal.iter /\ EventOf(journal.iter) = {}
              \/ FirstStep = "resave" /\ tree = Clean
<1>0. /\ TypeOK /\ head \in Seq(Iteration) /\ Sound(st) /\ MaxIteration \in Nat
      /\ journal # None => /\ journal.iter \in Iteration /\ journal.iter \in Nat
                           /\ journal.base \in Seq(Iteration)
  <2>1. TypeOK /\ Sound(st) /\ MaxIteration \in Nat
    BY RecoveryAssumption DEF IInv, RecoveryAssumption
  <2> QED
    BY <2>1 DEF TypeOK, Iteration
<1>1. /\ Reduced \in Checkpoint /\ Sound(Reduced) /\ Reduced.best = st.best
      /\ Cursor \in Nat \ {0} /\ Reduced.next = Cursor
  BY <1>0, ReducedTyped
<1>2. Contiguous /\ (Unjournalled \/ Uncommitted \/ Committed)
  BY DEF Recoverable
<1>3. Reduced.next \in 1 .. MaxIteration + 1
  BY <1>0, <1>1, <1>2, CursorBounded
<1>4. CASE Uncommitted
  <2>1. journal # None /\ head = journal.base /\ st.best = head
    BY <1>1, <1>4 DEF Uncommitted, AtCheckpoint
  <2>2. ~Committed
    <3> SUFFICES ASSUME Committed PROVE FALSE
      OBVIOUS
    <3>1. head # <<>> /\ Front(head) = head
      BY <2>1 DEF Committed
    <3>2. head = Append(Front(head), Last(head)) /\ Last(head) \in Iteration
      BY <1>0, <3>1, AppendedBack
    <3> QED
      BY <1>0, <3>1, <3>2, Appended
  <2>3. Planned = Reduced /\ FirstStep = "restore"
    BY <1>4, <2>2 DEF Planned, FirstStep
  <2> QED
    BY <1>1, <1>3, <2>1, <2>3
<1>5. CASE Committed /\ ~Uncommitted
  <2>1. /\ journal # None /\ head # <<>> /\ Last(head) = journal.iter /\ tree = Clean
        /\ Applied => Reduced.best = head
    BY <1>5 DEF Committed
  <2>2. FirstStep = "resave" \/ (FirstStep = "relog" /\ EventOf(journal.iter) = {})
    BY <1>5 DEF FirstStep
  <2>3. CASE Applied
    <3>1. Planned = Reduced
      BY <2>3 DEF Planned
    <3> QED
      BY <1>1, <1>3, <2>1, <2>2, <2>3, <3>1
  <2>4. CASE ~Applied
    <3>1. Planned = Kept(Reduced, journal.iter) /\ Cursor =< journal.iter
      BY <1>0, <1>1, <1>5, <2>1, <2>4 DEF Planned, Applied
    <3>2. /\ Planned \in Checkpoint /\ Planned.next = journal.iter + 1
          /\ Planned.counted = Reduced.counted + 1 /\ Planned.best = head
      BY <1>0, <1>1, <2>1, <3>1, Reductions
    <3>3. Sound(Planned)
      <4>1. Reduced.counted \in Nat /\ Reduced.counted < Cursor
        BY <1>1 DEF State, Checkpoint, Sound
      <4> QED
        BY <1>0, <1>1, <2>1, <3>1, <3>2, <4>1 DEF Sound
    <3>4. Planned.next \in 1 .. MaxIteration + 1
      BY <1>0, <2>1, <3>2 DEF Iteration
    <3> QED
      BY <2>1, <2>2, <3>2, <3>3, <3>4
  <2> QED
    BY <2>3, <2>4
<1>6. CASE Unjournalled /\ ~Committed /\ ~Uncommitted
  <2>1. Planned = Reduced /\ head = Reduced.best /\ tree = Clean /\ FirstStep = "resave"
    BY <1>6 DEF Unjournalled, Planned, FirstStep
  <2> QED
    BY <1>1, <1>3, <2>1
<1> QED
  BY <1>2, <1>4, <1>5, <1>6

(* It counts the journalled KEEP once, and lies past it. *)
LEMMA PlanTallied ==
    ASSUME IInv, Settled, Recoverable
    PROVE  Tallied(Planned) /\ (journal # None => Follows(Planned))
<1>0. /\ TypeOK /\ head \in Seq(Iteration) /\ Sound(st) /\ Tallied(st)
      /\ journal # None => /\ journal.iter \in Iteration /\ journal.base \in Seq(Iteration)
                           /\ journal.iter \in Nat /\ Follows(st)
  BY DEF IInv, Settled, TypeOK, Window, Iteration
<1>1. /\ Reduced \in Checkpoint /\ Reduced.best = st.best /\ Reduced.kept = st.kept
      /\ Cursor \in Nat \ {0} /\ Reduced.next = Cursor /\ Cursor >= st.next /\ st.next \in Nat
  <2>1. st.next \in Nat
    BY <1>0 DEF TypeOK, State, Checkpoint
  <2> QED
    BY <1>0, <2>1, ReducedTyped
<1>2. CASE Planned = Reduced
  <2>1. Tallied(Planned)
    BY <1>0, <1>1, <1>2 DEF Tallied
  <2>2. ASSUME journal # None PROVE Follows(Planned)
    <3>1. Follows(st)
      BY <1>0, <2>2
    <3>2. st.next > journal.iter => Cursor > journal.iter
      BY <1>0, <1>1, <2>2
    <3> QED
      BY <1>1, <1>2, <3>1, <3>2 DEF Follows
  <2> QED
    BY <2>1, <2>2
<1>3. CASE Planned # Reduced
  <2>1. /\ Committed /\ ~Applied /\ journal # None /\ head # <<>> /\ Front(head) = journal.base
        /\ Planned = Kept(Reduced, journal.iter)
    BY <1>3 DEF Planned, Committed
  <2>2. head = Append(journal.base, journal.iter) /\ head # journal.base
        /\ Len(head) = Len(journal.base) + 1 /\ Len(journal.base) \in Nat
    <3>1. Last(head) = journal.iter
      BY <2>1 DEF Committed
    <3> QED
      BY <1>0, <2>1, <3>1, AppendedBack, Appended
  <2>3. Cursor =< journal.iter
    BY <1>0, <1>1, <2>1 DEF Applied
  <2>4. st.best = journal.base
    BY <1>0, <1>1, <2>1, <2>3 DEF Follows
  <2>5. Planned.next = journal.iter + 1 /\ Planned.best = head /\ Planned.kept = Reduced.kept + 1
    BY <1>0, <1>1, <2>1, Reductions
  <2>6. Tallied(Planned)
    BY <1>0, <1>1, <2>2, <2>4, <2>5 DEF Tallied
  <2>7. Planned.next > journal.iter
    BY <1>0, <2>1, <2>5
  <2> QED
    BY <2>5, <2>6, <2>7 DEF Follows
<1> QED
  BY <1>2, <1>3

-----------------------------------------------------------------------------
(* The invariant holds initially, and no step disturbs any part of it.      *)

LEMMA Initial == Init => IInv
<1> SUFFICES ASSUME Init PROVE IInv
  OBVIOUS
<1>1. /\ <<>> \in Seq(Iteration) /\ Len(<<>>) = 0 /\ IsPrefix(<<>>, <<>>)
      /\ <<>> \in Seq(Event) /\ Results = {}
  BY EmptySeq DEF Init, IsPrefix, Results, ToSet
<1>2. MaxIteration \in Nat /\ MaxCrashes \in Nat /\ MaxFaults \in Nat
  BY RecoveryAssumption DEF RecoveryAssumption
<1>3. TypeOK
  <2>1. Fresh \in State
    BY <1>1, <1>2 DEF Fresh, State
  <2>2. Clean \in [iter : 0 .. MaxIteration, new : BOOLEAN]
    BY <1>2 DEF Clean
  <2>3. /\ st \in State /\ mem \in State
        /\ tree \in [iter : 0 .. MaxIteration, new : BOOLEAN]
    BY <2>1, <2>2 DEF Init
  <2>4. 0 \in 0 .. MaxIteration /\ 0 \in 0 .. MaxCrashes /\ 0 \in 0 .. MaxFaults
    BY <1>2
  <2> QED
    BY <1>1, <2>3, <2>4 DEF Init, TypeOK, Event, Commits
<1>4. Numbered
  BY <1>1 DEF Init, Numbered, Working, Through
<1>5. Sound(st) /\ Sound(mem) /\ Published
  BY <1>1 DEF Init, Sound, Fresh, Published
<1>6. InPlace
  BY <1>1 DEF Init, InPlace, Unwritten, AtHead, AtBest, Tidy, Tipped
<1>7. LogTellsTheTruth
  BY <1>1 DEF Init, LogTellsTheTruth
<1>8. Settled
  BY <1>1 DEF Init, Settled, Window, InStep, Tallied, Fresh
<1> QED
  BY <1>3, <1>4, <1>5, <1>6, <1>7, <1>8 DEF IInv

(* The log, as TypeOK has it. *)
LogType == Seq([iter : Iteration, keep : BOOLEAN, commit : Seq(Iteration)])

LEMMA Typed == ASSUME IInv, [Next]_vars PROVE TypeOK'
<1> USE DEF Goto, Works, Fails, gitVars, viewVars, countVars, historyVars, Discard, Exit, Clean,
            Resuming, Keeping, Reverting
<1>0. /\ TypeOK /\ Numbered /\ InPlace /\ LogTellsTheTruth /\ Sound(mem)
      /\ MaxIteration \in Nat /\ MaxCrashes \in Nat /\ MaxFaults \in Nat
  BY RecoveryAssumption DEF RecoveryAssumption, IInv
<1>1. head # <<>> => Last(head) \in Iteration
  BY <1>0, AppendedBack DEF TypeOK
<1>2. \A i \in Iteration : i \in Nat /\ i \in 0 .. MaxIteration
  BY <1>0 DEF Iteration
<1>3. crashes < MaxCrashes => crashes + 1 \in 0 .. MaxCrashes
  BY <1>0 DEF TypeOK
<1>4. faults < MaxFaults => faults + 1 \in 0 .. MaxFaults
  BY <1>0 DEF TypeOK
<1>5. pc \in Working => mem.next \in Iteration
  BY <1>0 DEF Numbered
<1>6. mem \in Checkpoint /\ mem.next \in Nat /\ mem.counted < mem.next /\ mem.counted \in Nat
  BY <1>0 DEF TypeOK, State, Checkpoint, Sound
<1>7. \A e \in Event : Append(log, e) \in LogType
  <2>1. log \in Seq(Event)
    BY <1>0 DEF TypeOK, Event, Commits
  <2>2. \A e \in Event : Append(log, e) \in Seq(Event)
    BY <2>1, AppendProperties
  <2> QED
    BY <2>2 DEF LogType, Event, Commits
<1>8. CASE Begin
  <2>1. mem.next \in 0 .. MaxIteration
    BY <1>2, <1>8 DEF Begin
  <2> QED
    BY <1>0, <1>4, <1>8, <2>1 DEF Begin, TypeOK
<1>9. CASE Announce
  <2>1. mem.next \in 0 .. MaxIteration
    BY <1>2, <1>5, <1>9 DEF Announce, Working
  <2> QED
    BY <1>0, <1>4, <1>9, <2>1 DEF Announce, TypeOK
<1>10. CASE SavePolicy
  BY <1>0, <1>4, <1>10 DEF SavePolicy, TypeOK
<1>11. CASE Edit
  <2>1. mem.next \in 0 .. MaxIteration
    BY <1>2, <1>5, <1>11 DEF Edit, Working
  <2>2. [iter |-> mem.next, new |-> FALSE] \in [iter : 0 .. MaxIteration, new : BOOLEAN]
    BY <2>1
  <2> QED
    BY <1>0, <1>11, <2>2 DEF Edit, TypeOK
<1>12. CASE Verdict
  BY <1>0, <1>12 DEF Verdict, TypeOK
<1>13. CASE DiscardCandidate
  BY <1>0, <1>13 DEF DiscardCandidate, TypeOK
<1>14. CASE Reject
  <2>0. mem.next \in Iteration /\ mem.next + 1 \in 1 .. MaxIteration + 1
    BY <1>0, <1>5, <1>14 DEF Reject, Working, Iteration
  <2>1. Counted(mem, mem.next) \in State
    <3>1. /\ Counted(mem, mem.next) \in Checkpoint
          /\ Counted(mem, mem.next).next = mem.next + 1
          /\ Counted(mem, mem.next).counted = mem.counted + 1
      BY <1>0, <1>6, Reductions
    <3> QED
      BY <1>6, <2>0, <3>1, Narrowed DEF Sound
  <2>2. [iter |-> mem.next, keep |-> FALSE, commit |-> <<>>] \in Event
    BY <1>5, <1>14, EmptySeq DEF Reject, Working, Event, Commits
  <2>3. log' = log \/ log' \in LogType
    BY <1>0, <1>14, <2>2, <1>7 DEF Reject, Append1
  <2> QED
    BY <1>0, <1>4, <1>14, <2>1, <2>3 DEF Reject, TypeOK, LogType
<1>15. CASE Settle
  BY <1>0, <1>4, <1>15 DEF Settle, TypeOK
<1>16. CASE WriteJournal
  BY <1>0, <1>4, <1>5, <1>16 DEF WriteJournal, TypeOK, Working
<1>17. CASE Stage
  BY <1>0, <1>4, <1>17 DEF Stage, TypeOK
<1>18. CASE Commit
  <2>1. Append(head, mem.next) \in Seq(Iteration) /\ mem.next \in Iteration
    BY <1>0, <1>5, <1>18, Appended DEF Commit, Working, TypeOK
  <2>2. /\ shipped \cup {mem.next} \in SUBSET Iteration
        /\ Clean \in [iter : 0 .. MaxIteration, new : BOOLEAN]
    BY <1>0, <2>1 DEF TypeOK
  <2> QED
    BY <1>0, <1>4, <1>18, <2>1, <2>2 DEF Commit, Committing, TypeOK
<1>19. CASE Backout
  BY <1>0, <1>19 DEF Backout, TypeOK
<1>20. CASE Unkeep
  BY <1>0, <1>20 DEF Unkeep, TypeOK
<1>21. CASE Promote
  BY <1>0, <1>4, <1>21 DEF Promote, TypeOK
<1>22. CASE Record
  <2>0. mem.next \in Iteration /\ mem.next + 1 \in 1 .. MaxIteration + 1
    BY <1>0, <1>5, <1>22 DEF Record, Working, Iteration
  <2>1. Kept(mem, mem.next) \in State
    <3>1. /\ Kept(mem, mem.next) \in Checkpoint
          /\ Kept(mem, mem.next).next = mem.next + 1
          /\ Kept(mem, mem.next).counted = mem.counted + 1
      BY <1>0, <1>6, Reductions
    <3> QED
      BY <1>6, <2>0, <3>1, Narrowed DEF Sound
  <2>2. KeepEvent \in Event
    <3>1. head # <<>>
      BY <1>0, <1>22 DEF Record, InPlace, Tipped
    <3> QED
      BY <1>0, <1>1, <3>1 DEF KeepEvent, Event, Commits, TypeOK
  <2>3. log' = log \/ log' \in LogType
    BY <1>0, <1>22, <2>2, <1>7 DEF Record, Append1
  <2> QED
    BY <1>0, <1>4, <1>22, <2>1, <2>3 DEF Record, TypeOK, LogType
<1>23. CASE Finalize
  BY <1>0, <1>4, <1>23 DEF Finalize, TypeOK, Durable
<1>24. CASE Unjournal
  BY <1>0, <1>24 DEF Unjournal, TypeOK
<1>25. CASE Publish
  BY <1>0, <1>4, <1>25 DEF Publish, TypeOK
<1>26. CASE Archive
  <2>1. Last(head) \in Iteration
    BY <1>0, <1>1, <1>26 DEF Archive, InPlace, Tipped
  <2> QED
    BY <1>0, <1>4, <1>26, <2>1 DEF Archive, TypeOK
<1>27. CASE Resume
  <2>1. Planned \in State /\ FirstStep \in Resuming
    BY <1>27, Plan, Narrowed DEF Resume
  <2> QED
    BY <1>0, <1>27, <2>1 DEF Resume, TypeOK
<1>28. CASE Restore
  BY <1>0, <1>28 DEF Restore, TypeOK
<1>29. CASE Forget
  BY <1>0, <1>29 DEF Forget, TypeOK
<1>30. CASE Relog
  <2>1. KeepEvent \in Event
    BY <1>0, <1>1, <1>30 DEF Relog, InPlace, Tipped, KeepEvent, Event, Commits, TypeOK
  <2>2. log' = log \/ log' \in LogType
    BY <1>0, <1>30, <2>1, <1>7 DEF Relog, Append1
  <2> QED
    BY <1>0, <1>4, <1>30, <2>2 DEF Relog, TypeOK, LogType
<1>31. CASE Resave
  BY <1>0, <1>4, <1>31 DEF Resave, TypeOK
<1>32. CASE Reconcile
  <2>1. mem.best \in Seq(Iteration)
    BY <1>6 DEF Checkpoint
  <2> QED
    BY <1>0, <1>4, <1>32, <2>1 DEF Reconcile, TypeOK
<1>33. CASE Renumber
  <2>1. Renumbered \in 1 .. MaxIteration + 1
    BY <1>0, RenumberedAbove
  <2>2. [mem EXCEPT !.next = Renumbered] \in State
    BY <1>0, <2>1 DEF TypeOK, State
  <2> QED
    BY <1>0, <1>4, <1>33, <2>2 DEF Renumber, TypeOK
<1>34. CASE Rearchive
  <2>1. journal.iter \in Iteration
    BY <1>0, <1>34 DEF Rearchive, InPlace, TypeOK
  <2> QED
    BY <1>0, <1>4, <1>34, <2>1 DEF Rearchive, TypeOK
<1>35. CASE Republish
  BY <1>0, <1>4, <1>35 DEF Republish, TypeOK
<1>36. CASE Clear
  BY <1>0, <1>36 DEF Clear, TypeOK
<1>37. CASE Crash
  BY <1>0, <1>3, <1>37 DEF Crash, TypeOK
<1>38. CASE CleanByHand
  BY <1>0, <1>38 DEF CleanByHand, TypeOK
<1>39. CASE UNCHANGED vars
  BY <1>0, <1>39 DEF vars, TypeOK
<1> QED
  BY <1>8, <1>9, <1>10, <1>11, <1>12, <1>13, <1>14, <1>15, <1>16, <1>17, <1>18, <1>19, <1>20, <1>21,
     <1>22, <1>23, <1>24, <1>25, <1>26, <1>27, <1>28, <1>29, <1>30, <1>31, <1>32, <1>33,
     <1>34, <1>35, <1>36, <1>37, <1>38, <1>39
     DEF Next, Iterate, Keep, Recover

(* What the steps establish for those after them. *)
LEMMA Placed == ASSUME IInv, [Next]_vars PROVE InPlace'
<1> USE DEF Goto, Works, Fails, gitVars, viewVars, historyVars, Discard, Exit
<1>0. TypeOK /\ InPlace /\ mem \in Checkpoint /\ head \in Seq(Iteration)
  BY DEF IInv, TypeOK, State, Checkpoint
<1>1. pc \in Working => mem.next \in Iteration
  BY DEF IInv, Numbered
<1>2. ASSUME NEW n \in Iteration, NEW b \in Seq(Iteration) PROVE [iter |-> n, base |-> b] # None
  BY RecoveryAssumption DEF RecoveryAssumption
<1>3. ASSUME NEW n PROVE [mem EXCEPT !.next = n].best = mem.best
  BY <1>0 DEF Checkpoint
<1>4. CASE Begin
  BY <1>0, <1>4 DEF Begin, InPlace, Unwritten, AtHead, AtBest, Tidy, Tipped
<1>5. CASE SavePolicy
  BY <1>0, <1>5 DEF SavePolicy, InPlace, Unwritten, AtHead, AtBest, Tidy, Tipped
<1>6. CASE Announce
  BY <1>0, <1>6 DEF Announce, InPlace, Unwritten, AtHead, AtBest, Tidy, Tipped
<1>7. CASE Edit
  BY <1>0, <1>7 DEF Edit, InPlace, Unwritten, AtHead, AtBest, Tidy, Tipped
<1>8. CASE Verdict
  BY <1>0, <1>8 DEF Verdict, InPlace, Unwritten, AtHead, AtBest, Tidy, Tipped
<1>9. CASE DiscardCandidate
  BY <1>0, <1>9 DEF DiscardCandidate, InPlace, Unwritten, AtHead, AtBest, Tidy, Tipped
<1>10. CASE Reject
  BY <1>0, <1>10 DEF Reject, InPlace, Unwritten, AtHead, AtBest, Tidy, Tipped
<1>11. CASE Settle
  BY <1>0, <1>11 DEF Settle, InPlace, Unwritten, AtHead, AtBest, Tidy, Tipped
<1>12. CASE WriteJournal
  BY <1>0, <1>12 DEF WriteJournal, InPlace, Unwritten, AtHead, AtBest, Tidy, Tipped
<1>13. CASE Stage
  BY <1>0, <1>13 DEF Stage, InPlace, Unwritten, AtHead, AtBest, Tidy, Tipped
<1>14. CASE Commit
  <2>1. journal # None
    BY <1>0, <1>1, <1>2, <1>14 DEF Commit, Working, InPlace
  <2>2. ASSUME Committing PROVE head' # <<>> /\ Last(head') = mem.next
    <3>1. mem.next \in Iteration /\ head' = Append(head, mem.next)
      BY <1>1, <1>14, <2>2 DEF Commit, Committing, Working
    <3> QED
      BY <1>0, <3>1, Appended
  <2>3. CASE pc' = "promote"
    <3>1. Committing
      BY <1>14, <2>3 DEF Commit
    <3>2. tree' = Clean /\ journal' = journal /\ mem' = mem
      BY <1>14, <3>1 DEF Commit, Committing
    <3> QED
      BY <2>1, <2>2, <2>3, <3>1, <3>2 DEF InPlace, Unwritten, AtHead, AtBest, Tidy, Tipped
  <2>4. CASE pc' = "backout"
    BY <2>4 DEF InPlace, Unwritten, AtHead, AtBest, Tidy, Tipped
  <2> QED
    BY <1>14, <2>3, <2>4 DEF Commit
<1>15. CASE Backout
  BY <1>0, <1>15 DEF Backout, InPlace, Unwritten, AtHead, AtBest, Tidy, Tipped
<1>16. CASE Unkeep
  BY <1>0, <1>16 DEF Unkeep, InPlace, Unwritten, AtHead, AtBest, Tidy, Tipped
<1>17. CASE Promote
  BY <1>0, <1>17 DEF Promote, InPlace, Unwritten, AtHead, AtBest, Tidy, Tipped
<1>18. CASE Record
  <2>1. mem'.best = head
    BY <1>0, <1>18, Reductions DEF Record, Checkpoint
  <2> QED
    BY <1>0, <1>18, <2>1 DEF Record, InPlace, Unwritten, AtHead, AtBest, Tidy, Tipped
<1>19. CASE Finalize
  BY <1>0, <1>19 DEF Finalize, Durable, InPlace, Unwritten, AtHead, AtBest, Tidy, Tipped
<1>20. CASE Unjournal
  BY <1>0, <1>20 DEF Unjournal, InPlace, Unwritten, AtHead, AtBest, Tidy, Tipped
<1>21. CASE Publish
  BY <1>0, <1>21 DEF Publish, InPlace, Unwritten, AtHead, AtBest, Tidy, Tipped
<1>22. CASE Archive
  BY <1>0, <1>22 DEF Archive, InPlace, Unwritten, AtHead, AtBest, Tidy, Tipped
<1>23. CASE Resume
  <2>1. /\ Planned.best = head
        /\ \/ FirstStep = "restore" /\ journal # None /\ st.best = head
           \/ /\ FirstStep = "relog" /\ journal # None /\ tree = Clean /\ head # <<>>
              /\ Last(head) = journal.iter
           \/ FirstStep = "resave" /\ tree = Clean
    BY <1>23, Plan DEF Resume
  <2>2. /\ mem'.best = head
        /\ \/ pc' = "restore" /\ st.best = head
           \/ /\ pc' = "relog" /\ journal # None /\ tree = Clean /\ head # <<>>
              /\ Last(head) = journal.iter
           \/ pc' = "resave" /\ tree = Clean
    BY <1>23, <2>1 DEF Resume
  <2> QED
    BY <1>23, <2>2 DEF Resume, InPlace, Unwritten, AtHead, AtBest, Tidy, Tipped
<1>24. CASE Restore
  BY <1>0, <1>24 DEF Restore, InPlace, Unwritten, AtHead, AtBest, Tidy, Tipped
<1>25. CASE Forget
  BY <1>0, <1>25 DEF Forget, InPlace, Unwritten, AtHead, AtBest, Tidy, Tipped
<1>26. CASE Relog
  BY <1>0, <1>26 DEF Relog, InPlace, Unwritten, AtHead, AtBest, Tidy, Tipped
<1>27. CASE Resave
  BY <1>0, <1>27 DEF Resave, InPlace, Unwritten, AtHead, AtBest, Tidy, Tipped
<1>28. CASE Reconcile
  BY <1>0, <1>28 DEF Reconcile, InPlace, Unwritten, AtHead, AtBest, Tidy, Tipped
<1>29. CASE Renumber
  <2>1. mem'.best = mem.best
    BY <1>0, <1>3, <1>29 DEF Renumber
  <2>2. st'.best = head /\ mem'.best = head
    BY <1>0, <1>29, <2>1 DEF Renumber, InPlace, AtBest, AtHead
  <2> QED
    BY <1>0, <1>29, <2>2 DEF Renumber, InPlace, Unwritten, AtHead, AtBest, Tidy, Tipped
<1>30. CASE Rearchive
  BY <1>0, <1>30 DEF Rearchive, InPlace, Unwritten, AtHead, AtBest, Tidy, Tipped
<1>31. CASE Republish
  BY <1>0, <1>31 DEF Republish, InPlace, Unwritten, AtHead, AtBest, Tidy, Tipped
<1>32. CASE Clear
  BY <1>0, <1>32 DEF Clear, InPlace, Unwritten, AtHead, AtBest, Tidy, Tipped
<1>33. CASE Crash
  BY <1>0, <1>33 DEF Crash, InPlace, Unwritten, AtHead, AtBest, Tidy, Tipped
<1>34. CASE CleanByHand
  BY <1>0, <1>34 DEF CleanByHand, InPlace, Unwritten, AtHead, AtBest, Tidy, Tipped
<1>35. CASE UNCHANGED vars
  BY <1>0, <1>35 DEF vars, InPlace, Unwritten, AtHead, AtBest, Tidy, Tipped
<1> QED
  BY <1>4, <1>5, <1>6, <1>7, <1>8, <1>9, <1>10, <1>11, <1>12, <1>13, <1>14, <1>15, <1>16,
     <1>17, <1>18, <1>19, <1>20, <1>21, <1>22, <1>23, <1>24, <1>25, <1>26, <1>27, <1>28,
     <1>29, <1>30, <1>31, <1>32, <1>33, <1>34, <1>35
     DEF Next, Iterate, Keep, Recover

(* What links git, the journal and the two states, as long as no KEEP is    *)
(* given up over its own commit.                                            *)
LEMMA Linked == ASSUME IInv, Settled, [Next]_vars, ~astray' PROVE Window' /\ InStep'
<1> USE DEF Goto, Works, Fails, gitVars, viewVars, historyVars, Discard, Exit
<1>0. TypeOK /\ Window /\ InStep /\ InPlace /\ mem \in Checkpoint /\ head \in Seq(Iteration)
  BY DEF IInv, Settled, TypeOK, State, Checkpoint
<1>1. pc \in Working => mem.next \in Iteration /\ mem.next \in Nat
  BY DEF IInv, Numbered, Iteration
<1>2. ASSUME NEW n \in Iteration, NEW b \in Seq(Iteration) PROVE [iter |-> n, base |-> b] # None
  BY RecoveryAssumption DEF RecoveryAssumption
<1>3. ASSUME NEW n PROVE [mem EXCEPT !.next = n].best = mem.best
  BY <1>0 DEF Checkpoint
<1>4. journal # None => journal.iter \in Nat
  BY <1>0 DEF TypeOK, Iteration
<1>5. CASE Begin
  BY <1>0, <1>5 DEF Begin, Window, Follows, InStep, InPlace
<1>6. CASE SavePolicy
  BY <1>0, <1>6 DEF SavePolicy, Window, Follows, InStep, InPlace
<1>7. CASE Announce
  BY <1>0, <1>7 DEF Announce, Window, Follows, InStep, InPlace
<1>8. CASE Edit
  BY <1>0, <1>8 DEF Edit, Window, Follows, InStep, InPlace
<1>9. CASE Verdict
  BY <1>0, <1>9 DEF Verdict, Window, Follows, InStep, InPlace
<1>10. CASE DiscardCandidate
  BY <1>0, <1>10 DEF DiscardCandidate, Window, Follows, InStep, InPlace
<1>11. CASE Reject
  <2>1. mem'.best = mem.best
    BY <1>0, <1>1, <1>11, Reductions DEF Reject, Working
  <2> QED
    BY <1>0, <1>11, <2>1 DEF Reject, Window, Follows, InStep, InPlace, Unwritten
<1>12. CASE Settle
  BY <1>0, <1>12 DEF Settle, Window, Follows, InStep, InPlace
<1>13. CASE WriteJournal
  <2>1. [iter |-> mem.next, base |-> head] # None
    BY <1>0, <1>1, <1>2, <1>13 DEF WriteJournal, Working
  <2> QED
    BY <1>0, <1>13, <2>1 DEF WriteJournal, Window, Follows, InStep, InPlace, Unwritten
<1>14. CASE Stage
  BY <1>0, <1>14 DEF Stage, Window, Follows, InStep, InPlace
<1>15. CASE Commit
  <2>1. /\ journal # None /\ journal.base = head /\ journal.iter = mem.next
        /\ journal = [iter |-> mem.next, base |-> head]
    BY <1>0, <1>1, <1>2, <1>15 DEF Commit, Working, InPlace
  <2>2. st.best = head /\ mem.best = head
    BY <1>0, <2>1 DEF Window, Follows
  <2>3. /\ UNCHANGED <<journal, st, mem>>
        /\ (head' = head /\ pc' = "backout") \/ head' = Append(head, mem.next)
    BY <1>15 DEF Commit, Committing
  <2> QED
    BY <2>1, <2>2, <2>3 DEF Window, Follows, InStep
<1>16. CASE Backout
  BY <1>0, <1>16 DEF Backout, Window, Follows, InStep, InPlace
<1>17. CASE Unkeep
  <2>1. journal = None \/ head = journal.base
    BY <1>17 DEF Unkeep
  <2>2. st.best = head /\ mem.best = head
    BY <1>0, <2>1 DEF Window, Follows
  <2> QED
    BY <1>17, <2>2 DEF Unkeep, Window, InStep
<1>18. CASE Promote
  BY <1>0, <1>18 DEF Promote, Window, Follows, InStep, InPlace
<1>19. CASE Record
  <2>1. mem'.best = head /\ mem'.next = mem.next + 1 /\ mem.next \in Iteration /\ mem.next \in Nat
    BY <1>0, <1>1, <1>19, Reductions DEF Record, Working
  <2>2. /\ journal # None /\ journal.base = mem.best /\ journal.iter = mem.next
        /\ head = Append(mem.best, mem.next)
    BY <1>0, <1>19 DEF Record, InPlace, InStep
  <2>3. mem'.next > journal.iter
    BY <2>1, <2>2
  <2> QED
    BY <1>0, <1>19, <2>1, <2>2, <2>3 DEF Record, Window, Follows, InStep, InPlace
<1>20. CASE Finalize
  BY <1>0, <1>20 DEF Finalize, Durable, Window, Follows, InStep, InPlace
<1>21. CASE Unjournal
  BY <1>0, <1>21 DEF Unjournal, Window, Follows, InStep, InPlace, AtHead, AtBest
<1>22. CASE Publish
  BY <1>0, <1>22 DEF Publish, Window, Follows, InStep, InPlace
<1>23. CASE Archive
  BY <1>0, <1>23 DEF Archive, Window, Follows, InStep, InPlace
<1>24. CASE Resume
  <2>1. /\ Planned.best = head /\ FirstStep \in {"restore", "relog", "resave"}
        /\ journal # None => Planned.best = journal.base \/ Planned.next > journal.iter
    BY <1>24, Plan, PlanTallied DEF Resume, Follows
  <2>2. mem' = Planned /\ pc' = FirstStep /\ UNCHANGED <<head, journal, st>>
    BY <1>24 DEF Resume
  <2>3. /\ mem'.best = head
        /\ journal # None => mem'.best = journal.base \/ mem'.next > journal.iter
    BY <2>1, <2>2
  <2>4. InStep'
    BY <2>1, <2>2 DEF InStep
  <2>5. Window'
    <3>1. CASE journal = None
      BY <1>0, <2>2, <2>3, <3>1 DEF Window
    <3>2. CASE journal # None
      BY <1>0, <2>2, <2>3, <3>2 DEF Window, Follows
    <3> QED
      BY <3>1, <3>2
  <2> QED
    BY <2>4, <2>5
<1>25. CASE Restore
  BY <1>0, <1>25 DEF Restore, Window, Follows, InStep, InPlace
<1>26. CASE Forget
  BY <1>0, <1>26 DEF Forget, Window, Follows, InStep, InPlace, AtHead, AtBest
<1>27. CASE Relog
  BY <1>0, <1>27 DEF Relog, Window, Follows, InStep, InPlace
<1>28. CASE Resave
  BY <1>0, <1>28 DEF Resave, Window, Follows, InStep, InPlace
<1>29. CASE Reconcile
  BY <1>0, <1>29 DEF Reconcile, Window, Follows, InStep, InPlace
<1>30. CASE Renumber
  <2>1. /\ Renumbered >= mem.next /\ Renumbered \in Nat /\ mem.next \in Nat
        /\ mem'.best = mem.best /\ mem'.next = Renumbered
    BY <1>0, <1>3, <1>30, RenumberedAbove DEF Renumber, Checkpoint
  <2>2. mem.best = head /\ st.best = head
    BY <1>0, <1>30 DEF Renumber, InPlace, AtBest, AtHead
  <2>3. journal # None => mem.best = journal.base \/ mem'.next > journal.iter
    BY <1>0, <1>4, <2>1, <2>2 DEF Window, Follows
  <2> QED
    BY <1>0, <1>30, <2>1, <2>2, <2>3 DEF Renumber, Window, Follows, InStep, InPlace
<1>31. CASE Rearchive
  BY <1>0, <1>31 DEF Rearchive, Window, Follows, InStep, InPlace
<1>32. CASE Republish
  BY <1>0, <1>32 DEF Republish, Window, Follows, InStep, InPlace
<1>33. CASE Clear
  BY <1>0, <1>33 DEF Clear, Window, Follows, InStep, InPlace, AtHead, AtBest
<1>34. CASE Crash
  BY <1>0, <1>34 DEF Crash, Window, Follows, InStep, InPlace
<1>35. CASE CleanByHand
  BY <1>0, <1>35 DEF CleanByHand, Window, Follows, InStep, InPlace
<1>36. CASE UNCHANGED vars
  BY <1>0, <1>36 DEF vars, Window, Follows, InStep, InPlace
<1> QED
  BY <1>5, <1>6, <1>7, <1>8, <1>9, <1>10, <1>11, <1>12, <1>13, <1>14, <1>15, <1>16, <1>17,
     <1>18, <1>19, <1>20, <1>21, <1>22, <1>23, <1>24, <1>25, <1>26, <1>27, <1>28, <1>29,
     <1>30, <1>31, <1>32, <1>33, <1>34, <1>35, <1>36
     DEF Next, Iterate, Keep, Recover

(* The three steps that append an event. *)
LEMMA Logged ==
    ASSUME IInv, Reject \/ Record \/ Relog
    PROVE  /\ LogTellsTheTruth'
           /\ \A e \in Results' : e \in Results \/ e.iter = mem.next \/ pc = "relog"
<1>0. /\ TypeOK /\ LogTellsTheTruth /\ InPlace /\ Numbered
      /\ head \in Seq(Iteration) /\ mem \in Checkpoint
  BY DEF IInv, TypeOK, State, Checkpoint
<1>1. head' = head
  BY DEF Reject, Record, Relog, gitVars
<1>2. pc \in Working => /\ mem.next \in Iteration /\ mem.next \in Nat
                        /\ \A f \in Results : f.iter < mem.next
  BY <1>0 DEF Numbered, Iteration
<1>3. \A f \in Results : f.iter \in Nat
  BY <1>0, ResultsTyped DEF Event, Iteration
<1>4. CASE log' = log
  BY <1>0, <1>1, <1>4 DEF LogTellsTheTruth, Results
<1>5. ASSUME NEW e \in Event, log' = Append(log, e), \A f \in Results : f.iter # e.iter,
             e.iter = mem.next \/ pc = "relog", e.keep => e.commit = head /\ Last(head) = e.iter
      PROVE  /\ LogTellsTheTruth'
             /\ \A f \in Results' : f \in Results \/ f.iter = mem.next \/ pc = "relog"
  <2>1. e.keep => IsPrefix(e.commit, head) /\ Last(e.commit) = e.iter
    BY <1>0, <1>5, PrefixOfItself
  <2>2. LogTellsTheTruth' /\ Results' = Results \cup {e}
    BY <1>0, <1>1, <1>5, <2>1, LogGrows
  <2> QED
    BY <1>5, <2>2
<1>6. CASE Reject /\ log' # log
  <2> DEFINE e == [iter |-> mem.next, keep |-> FALSE, commit |-> <<>>]
  <2>1. e \in Event /\ e.iter = mem.next /\ ~e.keep
    BY <1>2, <1>6, EmptySeq DEF Reject, Working, Event, Commits
  <2>2. log' = Append(log, e)
    BY <1>6 DEF Reject, Append1
  <2>3. \A f \in Results : f.iter # e.iter
    BY <1>2, <1>3, <1>6, <2>1 DEF Reject, Working
  <2> HIDE DEF e
  <2> QED
    BY <1>5, <2>1, <2>2, <2>3
<1>7. CASE Record /\ log' # log
  <2>1. /\ mem.next \in Iteration /\ mem.next \in Nat /\ \A f \in Results : f.iter < mem.next
    BY <1>2, <1>7 DEF Record, Working
  <2>2. Last(head) = mem.next
    BY <1>0, <1>7 DEF Record, InPlace
  <2>3. KeepEvent \in Event /\ KeepEvent.iter = mem.next /\ KeepEvent.commit = head
    BY <1>0, <2>1, <2>2 DEF KeepEvent, Event, Commits
  <2>4. log' = Append(log, KeepEvent)
    BY <1>7 DEF Record, Append1
  <2>5. \A f \in Results : f.iter # KeepEvent.iter
    BY <1>3, <2>1, <2>3
  <2> QED
    BY <1>5, <2>2, <2>3, <2>4, <2>5
<1>8. CASE Relog /\ log' # log
  <2>1. head # <<>> /\ Last(head) = journal.iter /\ EventOf(journal.iter) = {} /\ pc = "relog"
    BY <1>0, <1>8 DEF Relog, InPlace, Tipped, Numbered
  <2>2. KeepEvent \in Event /\ KeepEvent.iter = Last(head) /\ KeepEvent.commit = head
    BY <1>0, <2>1, AppendedBack DEF KeepEvent, Event, Commits
  <2>3. log' = Append(log, KeepEvent)
    BY <1>8 DEF Relog, Append1
  <2>4. \A f \in Results : f.iter # KeepEvent.iter
    BY <2>1, <2>2 DEF EventOf
  <2> QED
    BY <1>5, <2>1, <2>2, <2>3, <2>4
<1> QED
  BY <1>4, <1>6, <1>7, <1>8

LEMMA Told == ASSUME IInv, [Next]_vars PROVE LogTellsTheTruth'
<1>0. TypeOK /\ LogTellsTheTruth /\ InPlace /\ Numbered /\ head \in Seq(Iteration)
  BY DEF IInv, TypeOK
<1>1. CASE Reject \/ Record \/ Relog
  BY <1>1, Logged
<1>2. CASE Commit
  <2>1. log' = log /\ (head' = head \/ head' = Append(head, mem.next)) /\ mem.next \in Iteration
    BY <1>0, <1>2 DEF Commit, Committing, Numbered, Working
  <2>2. Results \subseteq Event
    BY <1>0, ResultsTyped
  <2>3. \A e \in Results : e.keep => IsPrefix(e.commit, head') /\ Last(e.commit) = e.iter
    <3>1. \A r \in Seq(Iteration) : IsPrefix(r, head) => IsPrefix(r, Append(head, mem.next))
      BY <1>0, <2>1, PrefixOfAppend
    <3>2. \A e \in Results : e.commit \in Seq(Iteration)
      BY <2>2 DEF Event, Commits
    <3>3. \A e \in Results : e.keep => IsPrefix(e.commit, head) /\ Last(e.commit) = e.iter
      BY <1>0 DEF LogTellsTheTruth
    <3> QED
      BY <2>1, <3>1, <3>2, <3>3
  <2> QED
    BY <1>0, <2>1, <2>3 DEF LogTellsTheTruth, Results
<1>3. CASE log' = log /\ head' = head
  BY <1>0, <1>3 DEF LogTellsTheTruth, Results
<1>4. Reject \/ Record \/ Relog \/ Commit \/ (log' = log /\ head' = head)
  BY DEF Next, Iterate, Keep, Recover, vars, gitVars, Begin, SavePolicy, Announce, Edit, Verdict,
         DiscardCandidate, Settle, WriteJournal, Stage, Backout, Unkeep, Promote, Finalize,
         Unjournal, Publish, Archive, Resume, Restore, Forget, Resave, Reconcile, Renumber,
         Rearchive, Republish, Clear, Crash, CleanByHand, Discard
<1> QED
  BY <1>1, <1>2, <1>3, <1>4

LEMMA Counting ==
    ASSUME IInv, [Next]_vars
    PROVE  /\ Sound(st)' /\ Sound(mem)'
           /\ Settled /\ ~astray' => Tallied(st)' /\ Tallied(mem)'
<1>0. /\ TypeOK /\ Sound(st) /\ Sound(mem) /\ mem \in Checkpoint
      /\ mem.next \in Nat /\ mem.counted \in Nat
  BY DEF IInv, TypeOK, State, Checkpoint
<1>1. /\ Sound(mem')
      /\ Settled => Tallied(mem')
  <2>1. CASE Reject
    <3>1. /\ mem'.next = mem.next + 1 /\ mem'.counted = mem.counted + 1
          /\ mem'.best = mem.best /\ mem'.kept = mem.kept
      BY <1>0, <2>1, Reductions DEF Reject
    <3> QED
      BY <1>0, <3>1 DEF Sound, Tallied, Settled
  <2>2. CASE Record
    <3>1. /\ mem'.next = mem.next + 1 /\ mem'.counted = mem.counted + 1
          /\ mem'.best = head /\ mem'.kept = mem.kept + 1
      BY <1>0, <2>2, Reductions DEF Record
    <3>2. ASSUME Settled PROVE Len(head) = Len(mem.best) + 1
      <4>1. head = Append(mem.best, mem.next)
        BY <2>2, <3>2 DEF Record, Settled, InStep
      <4>2. mem.next \in Iteration /\ mem.best \in Seq(Iteration)
        BY <1>0, <2>2 DEF IInv, Numbered, Record, Working, Checkpoint
      <4> QED
        BY <4>1, <4>2, Appended
    <3> QED
      BY <1>0, <3>1, <3>2 DEF Sound, Tallied, Settled
  <2>3. CASE Resume
    <3>1. Sound(Planned) /\ mem' = Planned /\ (Settled => Tallied(Planned))
      BY <2>3, Plan, PlanTallied DEF Resume
    <3> QED
      BY <3>1, Zenon
  <2>4. CASE Renumber
    <3>1. Renumbered >= mem.next /\ Renumbered \in Nat
      BY <1>0, RenumberedAbove
    <3>2. /\ mem'.next = Renumbered /\ mem'.counted = mem.counted
          /\ mem'.best = mem.best /\ mem'.kept = mem.kept
      BY <1>0, <2>4, <3>1 DEF Renumber, Checkpoint
    <3> QED
      BY <1>0, <3>1, <3>2 DEF Sound, Tallied, Settled
  <2>5. Reject \/ Record \/ Resume \/ Renumber \/ mem' = mem \/ mem' = st \/ (mem' = st' /\ st' = mem)
    BY DEF Next, Iterate, Keep, Recover, vars, Begin, SavePolicy, Announce, Edit, Verdict, Exit,
           DiscardCandidate, Settle, WriteJournal, Stage, Commit, Backout, Unkeep, Promote,
           Finalize, Unjournal, Publish, Archive, Restore, Forget, Relog, Resave, Reconcile,
           Rearchive, Republish, Clear, Crash, CleanByHand
  <2>6. Settled => Tallied(st) /\ Tallied(mem)
    BY DEF Settled
  <2> QED
    BY <1>0, <2>1, <2>2, <2>3, <2>4, <2>5, <2>6, Zenon
<1>2. st' = st \/ st' = mem \/ st' = mem'
  BY DEF Next, Iterate, Keep, Recover, vars, Begin, SavePolicy, Announce, Edit, Verdict,
         DiscardCandidate, Reject, Settle, WriteJournal, Stage, Commit, Backout, Unkeep, Promote,
         Record, Finalize, Unjournal, Publish, Archive, Resume, Restore, Forget, Relog, Resave,
         Reconcile, Renumber, Rearchive, Republish, Clear, Crash, CleanByHand
<1>3. Settled => Tallied(st) /\ Tallied(mem)
  BY DEF Settled
<1>4. Sound(st') /\ (Settled => Tallied(st'))
  BY <1>0, <1>1, <1>2, <1>3, Zenon
<1> QED
  BY <1>1, <1>4 DEF Sound, Tallied

LEMMA Numbering == ASSUME IInv, [Next]_vars PROVE Numbered'
<1> USE DEF Goto, gitVars, viewVars, Exit, EventOf, Results
<1>0. TypeOK /\ Numbered /\ InPlace /\ mem \in Checkpoint /\ mem.next \in Nat
  BY DEF IInv, TypeOK, State, Checkpoint
<1>1. pc \in Working => mem.next \in Iteration /\ mem.next \in Nat
  BY DEF IInv, Numbered, Iteration
<1>2. Results \subseteq Event /\ \A e \in Results : e.iter \in Nat
  BY <1>0, ResultsTyped DEF Event, Iteration
<1>3. CASE Begin
  BY <1>0, <1>3 DEF Begin, Numbered, Working, Through
<1>4. CASE SavePolicy
  BY <1>0, <1>4 DEF SavePolicy, Numbered, Working, Through
<1>5. CASE Edit
  BY <1>0, <1>5 DEF Edit, Numbered, Working, Through
<1>6. CASE Verdict
  BY <1>0, <1>6 DEF Verdict, Numbered, Working, Through
<1>7. CASE DiscardCandidate
  BY <1>0, <1>7 DEF DiscardCandidate, Numbered, Working, Through
<1>8. CASE Reject
  <2>1. mem'.next = mem.next + 1 /\ mem.next \in Nat
    BY <1>0, <1>1, <1>8, Reductions DEF Reject, Numbered, Working
  <2>2. \A e \in Results : e.iter < mem.next /\ e.iter \in Nat
    BY <1>0, <1>2, <1>8 DEF Reject, Numbered, Working
  <2>3. \A e \in Results' : e \in Results \/ e.iter = mem.next
    BY <1>8, Logged DEF Reject
  <2>4. \A e \in Results' : e.iter < mem'.next
    <3> HIDE DEF Results
    <3> QED
      BY <2>1, <2>2, <2>3
  <2> QED
    BY <1>8, <2>4 DEF Reject, Numbered, Working, Through
<1>9. CASE Settle
  BY <1>0, <1>9 DEF Settle, Numbered, Working, Through
<1>10. CASE WriteJournal
  BY <1>0, <1>10 DEF WriteJournal, Numbered, Working, Through
<1>11. CASE Stage
  BY <1>0, <1>11 DEF Stage, Numbered, Working, Through
<1>12. CASE Commit
  BY <1>0, <1>12 DEF Commit, Committing, Numbered, Working, Through
<1>13. CASE Backout
  BY <1>0, <1>13 DEF Backout, Numbered, Working, Through
<1>14. CASE Unkeep
  BY <1>0, <1>14 DEF Unkeep, Numbered, Working, Through
<1>15. CASE Promote
  BY <1>0, <1>15 DEF Promote, Numbered, Working, Through
<1>16. CASE Record
  <2>1. mem'.next = mem.next + 1 /\ mem.next \in Nat
    BY <1>0, <1>1, <1>16, Reductions DEF Record, Numbered, Working
  <2>2. \A e \in Results : e.iter < mem.next /\ e.iter \in Nat
    BY <1>0, <1>2, <1>16 DEF Record, Numbered, Working
  <2>3. \A e \in Results' : e \in Results \/ e.iter = mem.next
    BY <1>16, Logged DEF Record
  <2>4. \A e \in Results' : e.iter < mem'.next
    <3> HIDE DEF Results
    <3> QED
      BY <2>1, <2>2, <2>3
  <2> QED
    BY <1>16, <2>4 DEF Record, Numbered, Working, Through
<1>17. CASE Finalize
  BY <1>0, <1>17 DEF Finalize, Numbered, Working, Through
<1>18. CASE Unjournal
  BY <1>0, <1>18 DEF Unjournal, Numbered, Working, Through
<1>19. CASE Publish
  BY <1>0, <1>19 DEF Publish, Numbered, Working, Through
<1>20. CASE Archive
  BY <1>0, <1>20 DEF Archive, Numbered, Working, Through
<1>21. CASE Resume
  <2>1. /\ FirstStep \in {"restore", "relog", "resave"}
        /\ FirstStep = "relog" => EventOf(journal.iter) = {}
    BY <1>21, Plan DEF Resume
  <2> QED
    BY <1>21, <2>1 DEF Resume, Numbered, Working, Through
<1>22. CASE Restore
  BY <1>0, <1>22 DEF Restore, Numbered, Working, Through
<1>23. CASE Forget
  BY <1>0, <1>23 DEF Forget, Numbered, Working, Through
<1>24. CASE Relog
  <2>1. pc' = "resave"
    BY <1>24 DEF Relog
  <2> QED
    BY <2>1 DEF Numbered, Working, Through
<1>25. CASE Resave
  BY <1>0, <1>25 DEF Resave, Numbered, Working, Through
<1>26. CASE Reconcile
  BY <1>0, <1>26 DEF Reconcile, Numbered, Working, Through
<1>27. CASE Renumber
  <2>1. Renumbered \in Nat /\ \A e \in Results : Renumbered > e.iter
    BY <1>0, RenumberedAbove
  <2>2. mem'.next = Renumbered
    BY <1>0, <1>27 DEF Renumber, State, Checkpoint
  <2>3. pc' \in {"top", "rearchive"} /\ log' = log
    BY <1>27 DEF Renumber
  <2>4. \A e \in Results' : e.iter < mem'.next
    BY <1>2, <2>1, <2>2, <2>3
  <2> QED
    BY <2>3, <2>4 DEF Numbered, Working, Through
<1>28. CASE Rearchive
  BY <1>0, <1>28 DEF Rearchive, Numbered, Working, Through
<1>29. CASE Republish
  BY <1>0, <1>29 DEF Republish, Numbered, Working, Through
<1>30. CASE Clear
  BY <1>0, <1>30 DEF Clear, Numbered, Working, Through
<1>31. CASE Crash
  BY <1>0, <1>31 DEF Crash, Numbered, Working, Through
<1>32. CASE CleanByHand
  BY <1>0, <1>32 DEF CleanByHand, Numbered, Working, Through
<1>33. CASE Announce
  BY <1>0, <1>33 DEF Announce, Numbered, Working, Through
<1>34. CASE UNCHANGED vars
  BY <1>0, <1>34 DEF vars, Numbered, Working, Through
<1> QED
  BY <1>3, <1>4, <1>5, <1>6, <1>7, <1>8, <1>9, <1>10, <1>11, <1>12, <1>13, <1>14, <1>15,
     <1>16, <1>17, <1>18, <1>19, <1>20, <1>21, <1>22, <1>23, <1>24, <1>25, <1>26, <1>27,
     <1>28, <1>29, <1>30, <1>31, <1>32, <1>33, <1>34
     DEF Next, Iterate, Keep, Recover

LEMMA Publishing == ASSUME IInv, [Next]_vars PROVE Published'
<1> USE DEF Published
<1>0. /\ TypeOK /\ InPlace /\ Published /\ mem \in Checkpoint
      /\ head \in Seq(Iteration) /\ manifest \in Seq(Iteration)
  BY DEF IInv, TypeOK, State, Checkpoint
<1>1. IsPrefix(head, head)
  BY <1>0, PrefixOfItself
<1>2. CASE /\ manifest' = manifest /\ head' = head
           /\ {st'.best, mem'.best} \subseteq {st.best, mem.best, head}
  BY <1>0, <1>2
<1>3. CASE Commit
  <2>1. /\ UNCHANGED <<manifest, st, mem>> /\ mem.next \in Iteration
        /\ head' = head \/ head' = Append(head, mem.next)
    BY <1>3 DEF Commit, Committing, viewVars, IInv, Numbered, Working
  <2>2. IsPrefix(manifest, Append(head, mem.next))
    BY <1>0, <2>1, PrefixOfAppend
  <2> QED
    BY <1>0, <2>1, <2>2
<1>4. CASE Publish \/ Reconcile \/ Republish
  <2>1. UNCHANGED <<st, mem, head>> /\ st.best = head /\ mem.best = head
    BY <1>0, <1>4 DEF Publish, Reconcile, Republish, gitVars, InPlace, AtHead, AtBest
  <2>2. manifest' = manifest \/ manifest' = head
    BY <1>4, <2>1 DEF Publish, Reconcile, Republish
  <2> QED
    BY <1>0, <1>1, <2>1, <2>2
<1>5. CASE Reject \/ Record
  <2>1. mem'.best \in {mem.best, head} /\ UNCHANGED <<st, head, manifest>>
    <3>1. mem.next \in Nat
      BY <1>0 DEF Checkpoint
    <3>2. Counted(mem, mem.next).best = mem.best /\ Kept(mem, mem.next).best = head
      BY <1>0, <3>1, Reductions
    <3>3. /\ mem' = Counted(mem, mem.next) \/ mem' = Kept(mem, mem.next)
          /\ UNCHANGED <<st, head, manifest>>
      BY <1>5 DEF Reject, Record, gitVars, viewVars
    <3> QED
      BY <3>2, <3>3, Zenon
  <2> QED
    BY <1>2, <2>1
<1>6. CASE Resume
  <2>1. mem'.best = head /\ UNCHANGED <<st, head, manifest>>
    BY <1>6, Plan DEF Resume, viewVars
  <2> QED
    BY <1>2, <2>1
<1>7. CASE Renumber
  <2>1. \A n : [mem EXCEPT !.next = n].best = mem.best
    BY <1>0 DEF Checkpoint
  <2>2. mem'.best = mem.best /\ UNCHANGED <<head, manifest>> /\ (st' = st \/ st' = mem')
    BY <1>7, <2>1 DEF Renumber, gitVars, viewVars
  <2> QED
    BY <1>2, <2>2
<1>8. CASE manifest' = manifest /\ head' = head /\ {st', mem'} \subseteq {st, mem}
  BY <1>2, <1>8
<1>9. \/ Commit \/ Publish \/ Reconcile \/ Republish \/ Reject \/ Record \/ Resume \/ Renumber
      \/ manifest' = manifest /\ head' = head /\ {st', mem'} \subseteq {st, mem}
  BY DEF Next, Iterate, Keep, Recover, vars, gitVars, viewVars, Begin, SavePolicy, Announce, Edit,
         Verdict, DiscardCandidate, Settle, WriteJournal, Stage, Backout, Unkeep, Promote,
         Finalize, Unjournal, Archive, Restore, Forget, Relog, Resave, Rearchive, Clear, Crash,
         CleanByHand, Discard, Exit
<1> QED
  BY <1>3, <1>4, <1>5, <1>6, <1>7, <1>8, <1>9

(* A KEEP given up over its own commit stays so. *)
LEMMA StaysAstray == ASSUME TypeOK, [Next]_vars PROVE astray => astray'
BY DEF Next, Iterate, Keep, Recover, vars, historyVars, Begin, SavePolicy, Announce, Edit, Verdict,
       DiscardCandidate, Reject, Settle, WriteJournal, Stage, Commit, Backout, Unkeep, Promote,
       Record, Finalize, Unjournal, Publish, Archive, Resume, Restore, Forget, Relog, Resave,
       Reconcile, Renumber, Rearchive, Republish, Clear, Crash, CleanByHand

-----------------------------------------------------------------------------
LEMMA Invariance == Spec => []IInv
<1>1. IInv /\ [Next]_vars => IInv'
  <2> SUFFICES ASSUME IInv, [Next]_vars PROVE IInv'
    OBVIOUS
  <2>1. /\ TypeOK' /\ InPlace' /\ LogTellsTheTruth' /\ Numbered' /\ Published'
        /\ Sound(st)' /\ Sound(mem)'
    BY Typed, Placed, Told, Counting, Numbering, Publishing
  <2>2. ASSUME ~astray' PROVE Settled'
    <3>1. Settled
      BY <2>2, StaysAstray DEF IInv
    <3> QED
      BY <2>2, <3>1, Linked, Counting DEF Settled
  <2> QED
    BY <2>1, <2>2 DEF IInv
<1> QED
  BY <1>1, Initial, PTL DEF Spec

(* The stores a campaign keeps (git, pending_keep.json, run_state.json,     *)
(* events.jsonl, the manifest and the archive) hold what they may hold, for *)
(* every number of iterations, deaths and lost writes.                      *)
THEOREM RecoveryTypeCorrect == Spec => []TypeOK
<1>1. IInv => TypeOK
  BY DEF IInv
<1> QED
  BY <1>1, Invariance, PTL

(* When a session may start, HEAD is the durable best and nothing is left   *)
(* of a candidate: the back-out of a KEEP, its last verified save and every *)
(* path of the recovery leave it so.  The exception is _git_commit backing  *)
(* out after the commit was made.                                           *)
THEOREM SettledAtTopHolds == Spec => []SettledAtTop
<1>1. IInv => SettledAtTop
  BY DEF IInv, Settled, SettledAtTop, Window, InPlace, Unwritten, Tidy
<1> QED
  BY <1>1, Invariance, PTL

(* Recovering a KEEP again, from any of its half-written states, counts it  *)
(* once: _plan_resume_recovery applies the journalled KEEP only to a state  *)
(* that is not past its iteration.                                          *)
THEOREM CountedOnceHolds == Spec => []CountedOnce
<1>1. IInv => CountedOnce
  BY DEF IInv, Settled, CountedOnce, Sound, Tallied
<1> QED
  BY <1>1, Invariance, PTL

(* events.jsonl has one result per iteration, and a KEEP in it is a commit  *)
(* HEAD holds: the recovery appends the event it misses and no other.       *)
THEOREM LogTellsTheTruthHolds == Spec => []LogTellsTheTruth
<1>1. IInv => LogTellsTheTruth
  BY DEF IInv
<1> QED
  BY <1>1, Invariance, PTL

(* The manifest names a commit run_state.json has adopted: publication      *)
(* follows the verified save, in the loop and in the recovery alike.        *)
THEOREM PublishedIsDurableHolds == Spec => []PublishedIsDurable
<1>1. IInv => PublishedIsDurable
  BY DEF IInv, Published, PublishedIsDurable
<1> QED
  BY <1>1, Invariance, PTL

-----------------------------------------------------------------------------
(* With at most one write lost, the recovery window a death leaves always   *)
(* makes sense to the resume.  What follows adds to IInv what the planning  *)
(* of the recovery tests.                                                   *)

(* Until the outcome is recorded the checkpoint stands at the iteration     *)
(* under way; between iterations it may lag, for a write that was lost.     *)
Early == {"announce", "agent", "discard", "reject", "journal", "stage", "commit", "backout",
          "unkeep", "promote", "record"}
Later == {"top", "policy", "unjournal", "publish", "archive", "rearchive", "republish", "clear"}
Paced ==
    /\ pc \in Early => st.next = mem.next
    /\ pc \in Later => st.next = mem.next \/ faults >= 1

(* The tree holds the candidate under way or nothing. *)
Candidate == [iter |-> mem.next, new |-> FALSE]
Edited ==
    /\ pc \in {"policy", "announce"} => tree = Clean
    /\ pc = "agent" => tree = Clean \/ tree = Candidate
    /\ pc \in {"journal", "stage"} => tree = Candidate

(* What an agent was given is in the log, in one of the two events that     *)
(* name it; the next number is above it.                                    *)
Opening == {"policy", "announce"}
Issued ==
    /\ given =< begun
    /\ pc \in Opening => begun = mem.next \/ faults >= 1
    /\ pc \in Opening \cup Through => given < mem.next
    /\ pc \in Working \ Opening => given = mem.next

(* HEAD is made of iterations an agent was given, of earlier ones while one *)
(* is under way.                                                            *)
Fresher == {"agent", "journal", "stage", "commit"}
Older ==
    /\ \A n \in ToSet(head) : n =< given
    /\ pc \in Fresher => \A n \in ToSet(head) : n < mem.next

(* What the recovery has decided: that there was no commit, or that there   *)
(* was one.                                                                 *)
Decided ==
    /\ pc \in {"restore", "forget", "relog", "resave"} => \A e \in Results : e.iter < mem.next
    /\ pc \in {"restore", "forget"} => journal # None /\ head = journal.base
    /\ pc \in {"relog", "resave", "renumber", "rearchive", "republish", "clear", "finalize",
               "unjournal"} => journal = None \/ head # journal.base

(* Without a journal at most one result is beyond the checkpoint, the very  *)
(* next and not a KEEP.  With one, only the journalled iteration can be.    *)
NoneBeyond == \A e \in Results : e.iter < st.next
Trailing == \E e \in Results : e.iter = st.next /\ ~e.keep /\ \A d \in Results : d.iter =< st.next
Continued == journal = None => NoneBeyond \/ Trailing
Attached ==
    /\ st.next >= journal.iter /\ journal.iter \notin ToSet(journal.base)
    /\ st.next > journal.iter => st.best = head /\ head # journal.base
    /\ \A e \in Results : e.iter >= st.next => e.iter = journal.iter
    /\ head = journal.base =>
          EventOf(journal.iter) = {} /\ (tree = Clean \/ tree.iter = journal.iter)
    /\ head # journal.base => tree = Clean /\ \A e \in EventOf(journal.iter) : e = KeepEvent
Pending == journal # None => Attached

RInv ==
    /\ Paced /\ Edited /\ Issued /\ Older
    /\ astray \/ (Decided /\ Continued /\ Pending)

LEMMA RInitial == Init => RInv
<1> SUFFICES ASSUME Init PROVE RInv
  OBVIOUS
<1>1. Results = {} /\ ToSet(head) = {}
  BY DEF Init, Results, ToSet
<1>2. /\ pc = "top" /\ st = mem /\ journal = None /\ given = 0 /\ begun = 0
      /\ mem.next = 1
  BY DEF Init, Fresh
<1> QED
  BY <1>1, <1>2 DEF RInv, Paced, Early, Later, Edited, Older, Fresher, Decided, Continued,
                    NoneBeyond, Pending, Issued, Opening, Working, Through

(* The first use of the bound on lost writes: a second one, at the start of   *)
(* an iteration, would let its result be logged with a gap to the           *)
(* checkpoint.                                                              *)
LEMMA KeepsPace == ASSUME MaxFaults =< 1, IInv, Paced, [Next]_vars PROVE Paced'
<1> USE DEF Goto, Works, Fails, gitVars, viewVars, countVars, Discard, Exit, Paced, Early, Later
<1>0. faults \in Nat /\ MaxFaults \in Nat /\ MaxFaults =< 1
  BY RecoveryAssumption DEF RecoveryAssumption, IInv, TypeOK
<1>1. faults < MaxFaults => ~(faults >= 1) /\ faults + 1 >= 1
  BY <1>0
<1>2. CASE Begin
  <2>1. faults >= 1 => faults' >= 1
    BY <1>0, <1>2 DEF Begin
  <2> QED
    BY <1>2, <2>1 DEF Begin
<1>3. CASE SavePolicy
  BY <1>1, <1>3 DEF SavePolicy
<1>4. CASE Announce \/ Edit \/ Verdict \/ DiscardCandidate
  BY <1>4 DEF Announce, Edit, Verdict, DiscardCandidate
<1>5. CASE Reject \/ Record
  BY <1>5 DEF Reject, Record
<1>6. CASE Settle
  BY <1>1, <1>6 DEF Settle
<1>7. CASE WriteJournal \/ Stage \/ Commit \/ Backout \/ Unkeep
  BY <1>7 DEF WriteJournal, Stage, Commit, Backout, Unkeep
<1>8. CASE Promote
  BY <1>8 DEF Promote
<1>9. CASE Finalize
  BY <1>1, <1>9 DEF Finalize
<1>10. CASE Unjournal
  BY <1>10 DEF Unjournal
<1>11. CASE Publish \/ Archive \/ Rearchive \/ Republish
  <2>1. faults >= 1 => faults' >= 1
    BY <1>0, <1>11 DEF Publish, Archive, Rearchive, Republish
  <2> QED
    BY <1>11, <2>1 DEF Publish, Archive, Rearchive, Republish
<1>12. CASE Clear
  BY <1>12 DEF Clear
<1>13. CASE Resume
  <2>1. pc' \in {"restore", "relog", "resave"}
    BY <1>13, Plan DEF Resume
  <2> QED
    BY <2>1
<1>14. CASE Restore \/ Forget \/ Relog \/ Resave \/ Reconcile
  BY <1>14 DEF Restore, Forget, Relog, Resave, Reconcile
<1>15. CASE Renumber
  BY <1>1, <1>15 DEF Renumber
<1>16. CASE Crash \/ CleanByHand
  BY <1>16 DEF Crash, CleanByHand
<1>17. CASE UNCHANGED vars
  BY <1>17 DEF vars
<1> QED
  BY <1>2, <1>3, <1>4, <1>5, <1>6, <1>7, <1>8, <1>9, <1>10, <1>11, <1>12, <1>13, <1>14,
     <1>15, <1>16, <1>17 DEF Next, Iterate, Keep, Recover

LEMMA KeepsTree == ASSUME IInv, Edited, [Next]_vars PROVE Edited'
<1> USE DEF Goto, gitVars, Edited, Candidate
<1>1. CASE Begin
  BY <1>1 DEF Begin, IInv, InPlace, Tidy
<1>2. CASE SavePolicy \/ Announce \/ Edit \/ Verdict \/ DiscardCandidate
  BY <1>2 DEF SavePolicy, Announce, Edit, Verdict, DiscardCandidate
<1>3. CASE WriteJournal \/ Stage
  BY <1>3 DEF WriteJournal, Stage
<1>4. CASE Resume
  <2>1. pc' \in {"restore", "relog", "resave"}
    BY <1>4, Plan DEF Resume
  <2> QED
    BY <2>1
<1>5. CASE UNCHANGED vars
  BY <1>5 DEF vars
<1>6. \/ Begin \/ SavePolicy \/ Announce \/ Edit \/ Verdict \/ DiscardCandidate \/ WriteJournal
      \/ Stage \/ Resume \/ UNCHANGED vars
      \/ pc' \notin {"policy", "announce", "agent", "journal", "stage"}
  BY DEF Next, Iterate, Keep, Recover, Reject, Settle, Commit, Backout, Unkeep, Promote, Record,
         Finalize, Unjournal, Publish, Archive, Restore, Forget, Relog, Resave, Reconcile,
         Renumber, Rearchive, Republish, Clear, Crash, CleanByHand, Exit
<1> QED
  BY <1>1, <1>2, <1>3, <1>4, <1>5, <1>6

(* A second use: with one lost write, one of the two events that name the   *)
(* iteration is in the log when the agent starts.                           *)
LEMMA KeepsIssued == ASSUME MaxFaults =< 1, IInv, Issued, [Next]_vars PROVE Issued'
<1> USE DEF Goto, countVars, historyVars, Issued, Opening
<1>0. /\ faults \in Nat /\ MaxFaults \in Nat /\ MaxFaults =< 1 /\ TypeOK
      /\ mem \in Checkpoint /\ mem.next \in Nat /\ begun \in Nat /\ given \in Nat
  <2>1. TypeOK /\ MaxFaults \in Nat /\ MaxFaults =< 1
    BY RecoveryAssumption DEF RecoveryAssumption, IInv
  <2> QED
    BY <2>1 DEF TypeOK, State, Checkpoint
<1>1. faults < MaxFaults => ~(faults >= 1) /\ faults + 1 >= 1
  BY <1>0
<1>2. CASE Begin
  <2>1. given < mem.next
    BY <1>2 DEF Begin, Through
  <2> QED
    BY <1>0, <1>1, <1>2, <2>1 DEF Begin, Works, Fails, Working, Through
<1>3. CASE SavePolicy
  BY <1>0, <1>1, <1>3 DEF SavePolicy, Works, Fails, Working, Through
<1>4. CASE Announce
  <2>1. begun' = mem.next \/ (begun' = begun /\ begun = mem.next)
    BY <1>1, <1>4 DEF Announce, Fails
  <2> QED
    BY <1>0, <1>4, <2>1 DEF Announce, Working, Through
<1>5. CASE Reject \/ Record
  <2>1. mem'.next = mem.next + 1
    <3>1. Counted(mem, mem.next).next = mem.next + 1 /\ Kept(mem, mem.next).next = mem.next + 1
      BY <1>0, Reductions
    <3>2. mem' = Counted(mem, mem.next) \/ mem' = Kept(mem, mem.next)
      BY <1>5 DEF Reject, Record
    <3> QED
      BY <3>1, <3>2, Zenon
  <2>2. given = mem.next /\ UNCHANGED <<given, begun>> /\ pc' \in {"settle", "finalize"}
    BY <1>5 DEF Reject, Record, Working
  <2> QED
    BY <1>0, <2>1, <2>2 DEF Working
<1>6. CASE Renumber
  <2>1. mem'.next = Renumbered /\ UNCHANGED <<given, begun>> /\ pc' \in {"top", "rearchive"}
    BY <1>0, <1>6 DEF Renumber, Checkpoint
  <2>2. Renumbered > begun /\ Renumbered \in Nat
    BY <1>0, RenumberedAbove
  <2> QED
    BY <1>0, <2>1, <2>2 DEF Working
<1>7. CASE Resume
  <2>1. pc' \in {"restore", "relog", "resave"} /\ UNCHANGED <<given, begun>>
    BY <1>7, Plan DEF Resume
  <2> QED
    BY <2>1 DEF Working, Through
<1>8. CASE UNCHANGED <<given, begun, mem>> /\ pc' \in Working \ Opening /\ pc \in Working \ Opening
  BY <1>8 DEF Working, Through
<1>9. CASE UNCHANGED <<given, begun, mem>> /\ pc' \in Through /\ pc \in Through
  BY <1>9 DEF Working, Through
<1>10. CASE UNCHANGED <<given, begun>> /\ pc' \notin Working \cup Through
  BY <1>10 DEF Working
<1>11. CASE UNCHANGED vars
  BY <1>11 DEF vars
<1>12. \/ Begin \/ SavePolicy \/ Announce \/ Reject \/ Record \/ Renumber \/ Resume
       \/ UNCHANGED vars
       \/ UNCHANGED <<given, begun, mem>> /\ pc' \in Working \ Opening /\ pc \in Working \ Opening
       \/ UNCHANGED <<given, begun, mem>> /\ pc' \in Through /\ pc \in Through
       \/ UNCHANGED <<given, begun>> /\ pc' \notin Working \cup Through
  BY DEF Next, Iterate, Keep, Recover, Edit, Verdict, DiscardCandidate, Settle, WriteJournal, Stage,
         Commit, Backout, Unkeep, Promote, Finalize, Unjournal, Publish, Archive, Restore, Forget,
         Relog, Resave, Reconcile, Rearchive, Republish, Clear, Crash, CleanByHand, Exit, Working,
         Through
<1> QED
  BY <1>2, <1>3, <1>4, <1>5, <1>6, <1>7, <1>8, <1>9, <1>10, <1>11, <1>12

(* The number an agent's session is started with is above every one given   *)
(* before, whatever the state that knew of them lost: one write lost, the   *)
(* policy's event or iteration_started still names it, and a resume         *)
(* renumbers above every event and archive.                                 *)
THEOREM FreshNumbersHolds ==
    ASSUME MaxFaults =< 1
    PROVE  Spec => FreshNumbers
<1>1. Init => Issued
  BY RInitial DEF RInv
<1>2. IInv /\ Issued /\ [Next]_vars => Issued'
  BY KeepsIssued
<1>3. IInv /\ Issued /\ [Next]_vars => [Announce => mem.next > given]_vars
  <2> SUFFICES ASSUME IInv, Issued, Announce PROVE mem.next > given
    OBVIOUS
  <2>1. given < mem.next /\ given \in Nat /\ mem.next \in Nat
    BY DEF IInv, Announce, Issued, Opening, TypeOK, State, Checkpoint
  <2> QED
    BY <2>1
<1> QED
  BY <1>1, <1>2, <1>3, Invariance, PTL DEF Spec, FreshNumbers

LEMMA KeepsAge == ASSUME IInv, Issued, Older, [Next]_vars PROVE Older'
<1> USE DEF Goto, gitVars, historyVars, Older, Fresher
<1>0. /\ head \in Seq(Iteration) /\ mem.next \in Nat /\ given \in Nat
      /\ \A n \in ToSet(head) : n \in Nat
  <2>1. head \in Seq(Iteration)
    BY DEF IInv, TypeOK
  <2>2. \A n \in ToSet(head) : n \in Iteration
    BY <2>1, ElementOfSeq, LenProperties DEF ToSet
  <2> QED
    BY <2>1, <2>2 DEF Iteration, IInv, TypeOK, State, Checkpoint
<1>1. CASE Announce
  <2>1. given' = mem.next /\ head' = head /\ given < mem.next /\ mem' = mem
    BY <1>1 DEF Announce, Issued, Opening
  <2> QED
    BY <1>0, <2>1
<1>2. CASE Commit
  <2>1. /\ pc' \in {"promote", "backout"} /\ given' = given /\ given = mem.next
        /\ head' = head \/ head' = Append(head, mem.next)
        /\ mem.next \in Iteration
    BY <1>2 DEF Commit, Committing, IInv, Numbered, Working, Issued, Opening
  <2>2. \A n \in Iteration : ToSet(Append(head, n)) = ToSet(head) \cup {n}
    BY <1>0, ToSetAppend
  <2>3. ToSet(Append(head, mem.next)) = ToSet(head) \cup {mem.next}
    BY <2>1, <2>2
  <2>4. \A n \in ToSet(head') : n \in ToSet(head) \/ n = mem.next
    BY <2>1, <2>3, Zenon
  <2> QED
    BY <1>0, <2>1, <2>4
<1>3. CASE Edit \/ Verdict \/ WriteJournal \/ Stage
  BY <1>3 DEF Edit, Verdict, WriteJournal, Stage
<1>4. CASE Resume
  <2>1. pc' \in {"restore", "relog", "resave"} /\ UNCHANGED <<head, given>>
    BY <1>4, Plan DEF Resume
  <2> QED
    BY <2>1
<1>5. CASE UNCHANGED <<head, given>> /\ pc' \notin Fresher
  BY <1>5
<1>6. CASE UNCHANGED vars
  BY <1>6 DEF vars
<1>7. \/ Announce \/ Commit \/ Edit \/ Verdict \/ WriteJournal \/ Stage
      \/ Resume \/ UNCHANGED vars
      \/ UNCHANGED <<head, given>> /\ pc' \notin Fresher
  BY DEF Next, Iterate, Keep, Recover, Begin, SavePolicy, DiscardCandidate, Reject, Settle,
         Backout, Unkeep, Promote, Record, Finalize, Unjournal, Publish, Archive, Restore, Forget, Relog, Resave, Reconcile,
         Renumber, Rearchive, Republish, Clear, Crash, CleanByHand, Exit, Discard
<1> QED
  BY <1>1, <1>2, <1>3, <1>4, <1>5, <1>6, <1>7

(* A commit the journal describes is not where the journal found HEAD. *)
LEMMA CommittedMoves ==
    ASSUME IInv
    PROVE  /\ Uncommitted => journal # None /\ head = journal.base
           /\ Committed => journal # None /\ head # journal.base
<1>1. ASSUME Committed PROVE journal # None /\ head # journal.base
  <2>1. journal # None /\ head # <<>> /\ Front(head) = journal.base
    BY <1>1 DEF Committed
  <2>2. head = Append(Front(head), Last(head)) /\ Last(head) \in Iteration
        /\ Front(head) \in Seq(Iteration)
    BY <2>1, AppendedBack DEF IInv, TypeOK
  <2>3. head # Front(head)
    BY <2>2, Appended
  <2> QED
    BY <2>1, <2>3
<1> QED
  BY <1>1 DEF Uncommitted

(* The plan goes on past every result it finds. *)
LEMMA PlanPasses ==
    ASSUME IInv, Recoverable
    PROVE  \A e \in Results : e.iter < Planned.next
<1>0. /\ TypeOK /\ Sound(st) /\ st.next \in Nat
      /\ \A e \in Results : e.iter \in Nat
      /\ journal # None => journal.iter \in Nat
  <2>1. TypeOK /\ Sound(st)
    BY DEF IInv
  <2>2. \A e \in Results : e.iter \in Nat
    BY <2>1, ResultsTyped DEF Event, Iteration
  <2>3. st.next \in Nat
    BY <2>1 DEF TypeOK, State, Checkpoint
  <2>4. journal # None => journal.iter \in Nat
    BY <2>1 DEF TypeOK, Iteration
  <2> QED
    BY <2>1, <2>2, <2>3, <2>4
<1>1. Cursor \in Nat /\ Reduced.next = Cursor /\ Cursor >= st.next /\ Reduced \in Checkpoint
  BY <1>0, ReducedTyped
<1>2. Contiguous /\ (Unjournalled \/ Uncommitted \/ Committed)
  BY DEF Recoverable
<1>3. ASSUME NEW e \in Results PROVE e.iter < Cursor \/ (journal # None /\ e.iter = journal.iter)
  <2>1. CASE e.iter < st.next
    BY <1>0, <1>1, <2>1
  <2>2. CASE e \in Replayed
    <3>1. {f.iter : f \in Replayed} = st.next .. Cursor - 1
      BY <1>2 DEF Contiguous
    <3>2. e.iter \in st.next .. Cursor - 1
      BY <2>2, <3>1
    <3> QED
      BY <1>0, <1>1, <3>2
  <2>3. CASE ~(e.iter < st.next) /\ e \notin Replayed
    <3>1. e \in Beyond
      BY <1>0, <2>3 DEF Beyond
    <3>2. journal # None /\ ~(e.iter < journal.iter)
      BY <2>3, <3>1 DEF Replayed
    <3>3. e.iter =< journal.iter
      BY <1>2, <3>1, <3>2 DEF Contiguous
    <3> QED
      BY <1>0, <3>2, <3>3
  <2> QED
    BY <2>1, <2>2, <2>3
<1>4. CASE ~Committed
  <2>1. Planned = Reduced /\ (journal # None => EventOf(journal.iter) = {})
    BY <1>2, <1>4 DEF Planned, Uncommitted, Unjournalled
  <2> QED
    BY <1>1, <1>3, <2>1 DEF EventOf
<1>5. CASE Committed /\ Applied
  <2>1. Planned = Reduced /\ journal.iter < Cursor
    BY <1>5 DEF Planned, Applied
  <2> QED
    BY <1>1, <1>3, <2>1
<1>6. CASE Committed /\ ~Applied
  <2>1. Planned = Kept(Reduced, journal.iter) /\ ~(journal.iter < Cursor) /\ journal # None
    BY <1>6 DEF Planned, Applied, Committed
  <2>2. Planned.next = journal.iter + 1 /\ journal.iter \in Nat
    BY <1>0, <1>1, <2>1, Reductions
  <2> QED
    BY <1>0, <1>1, <1>3, <2>1, <2>2
<1> QED
  BY <1>4, <1>5, <1>6

LEMMA KeepsDecision == ASSUME IInv, ~astray, Decided, [Next]_vars PROVE Decided'
<1> USE DEF Goto, gitVars, Exit, Decided
<1>0. TypeOK /\ Window /\ InStep /\ InPlace
  BY DEF IInv, Settled
<1>1. CASE Resume
  <2>1. /\ UNCHANGED <<head, journal, log>> /\ mem' = Planned /\ pc' = FirstStep
        /\ FirstStep \in {"restore", "relog", "resave"} /\ Recoverable
    BY <1>1, Plan DEF Resume
  <2>2. \A e \in Results' : e.iter < mem'.next
    BY <2>1, PlanPasses DEF Results
  <2>3. pc' = "restore" => journal # None /\ head = journal.base
    BY <2>1, CommittedMoves DEF FirstStep
  <2>4. pc' \in {"relog", "resave"} => journal = None \/ head # journal.base
    BY <2>1, CommittedMoves DEF FirstStep, Recoverable, Unjournalled
  <2> QED
    BY <2>1, <2>2, <2>3, <2>4
<1>2. CASE Restore
  BY <1>2 DEF Restore, Discard, Results
<1>3. CASE Forget
  BY <1>3 DEF Forget, Results
<1>4. CASE Relog
  <2>1. /\ UNCHANGED <<head, journal, mem>> /\ pc = "relog" /\ pc' = "resave"
        /\ log' = log \/ log' = Append(log, KeepEvent)
    BY <1>4 DEF Relog, Append1
  <2>2. /\ journal # None /\ head # journal.base /\ mem.best = head /\ head # <<>>
        /\ Last(head) = journal.iter /\ journal.iter \in Iteration
    BY <1>0, <2>1 DEF InPlace, Tipped, AtHead, TypeOK
  <2>3. mem.next > journal.iter /\ journal.iter \in Nat /\ mem.next \in Nat
    <3>1. mem.next > journal.iter
      BY <1>0, <2>2 DEF Window, Follows
    <3>2. mem.next \in Nat
      BY <1>0 DEF TypeOK, State
    <3> QED
      BY <2>2, <3>1, <3>2 DEF Iteration
  <2>4. KeepEvent \in Event /\ KeepEvent.iter = journal.iter
    BY <1>0, <2>2 DEF KeepEvent, Event, Commits, TypeOK
  <2>5. log \in Seq(Event)
    BY <1>0 DEF TypeOK, Event, Commits
  <2>6. \A e \in Results' : e \in Results \/ e = KeepEvent
    <3>1. \A e \in Event : ToSet(Append(log, e)) = ToSet(log) \cup {e}
      BY <2>5, ToSetAppend
    <3>2. ToSet(Append(log, KeepEvent)) = ToSet(log) \cup {KeepEvent}
      BY <2>4, <3>1
    <3> QED
      BY <2>1, <3>2, Zenon DEF Results
  <2>7. \A e \in Results' : e.iter < mem.next
    BY <2>1, <2>3, <2>4, <2>6
  <2> QED
    BY <2>1, <2>2, <2>7
<1>5. CASE Resave
  BY <1>5 DEF Resave, Results
<1>6. CASE Reconcile
  BY <1>0, <1>6 DEF Reconcile, Results, InPlace, Unwritten
<1>7. CASE Renumber \/ Rearchive \/ Republish \/ Clear
  BY <1>7 DEF Renumber, Rearchive, Republish, Clear, Results
<1>8. CASE Record
  <2>1. /\ journal.base = mem.best /\ head = Append(mem.best, mem.next)
        /\ mem.next \in Iteration /\ mem.best \in Seq(Iteration)
    BY <1>0, <1>8 DEF Record, InStep, IInv, Numbered, Working, TypeOK, State, Checkpoint
  <2>2. head # journal.base
    BY <2>1, Appended
  <2> QED
    BY <1>8, <2>2 DEF Record
<1>9. CASE Finalize \/ Unjournal
  BY <1>9 DEF Finalize, Unjournal
<1>10. CASE UNCHANGED vars
  BY <1>10 DEF vars, Results
<1>11. \/ Resume \/ Restore \/ Forget \/ Relog \/ Resave \/ Reconcile \/ Renumber \/ Rearchive
       \/ Republish \/ Clear \/ Record \/ Finalize \/ Unjournal \/ UNCHANGED vars
       \/ pc' \in {"down", "top", "policy"} \cup Early \cup {"settle", "publish", "archive"}
  BY DEF Next, Iterate, Keep, Recover, Begin, SavePolicy, Announce, Edit, Verdict,
         DiscardCandidate, Reject, Settle, WriteJournal, Stage, Commit, Backout, Unkeep, Promote, Publish, Archive, Crash,
         CleanByHand, Early
<1>12. CASE pc' \in {"down", "top", "policy"} \cup Early \cup {"settle", "publish", "archive"}
  BY <1>12 DEF Early
<1> QED
  BY <1>1, <1>2, <1>3, <1>4, <1>5, <1>6, <1>7, <1>8, <1>9, <1>10, <1>11, <1>12

(* A save of a state that is past every result, and past the journalled     *)
(* commit if there is one.                                                  *)
LEMMA SavedPast ==
    ASSUME IInv, Continued, Pending, UNCHANGED <<head, tree, journal, log>>,
           st'.next \in Nat, \A e \in Results : e.iter < st'.next,
           journal # None => st'.best = head /\ st'.next > journal.iter /\ head # journal.base
    PROVE  Continued' /\ Pending'
<1>1. \A e \in Results : e.iter \in Nat /\ ~(e.iter >= st'.next)
  BY ResultsTyped DEF IInv, Event, Iteration
<1>2. Continued'
  BY DEF Continued, NoneBeyond, Results
<1>3. ASSUME journal # None PROVE Attached'
  <2>1. Attached /\ journal.iter \in Nat /\ journal' = journal /\ head' = head /\ Results' = Results
    BY <1>3 DEF Pending, IInv, TypeOK, Iteration, Results
  <2>2. EventOf(journal.iter)' = EventOf(journal.iter) /\ KeepEvent' = KeepEvent
    BY <2>1 DEF EventOf, KeepEvent
  <2>3. st'.next >= journal.iter /\ st'.best = head /\ head # journal.base
    BY <1>3, <2>1
  <2> QED
    BY <1>1, <2>1, <2>2, <2>3 DEF Attached
<1> QED
  BY <1>2, <1>3 DEF Pending

(* The tree alone changes. *)
LEMMA TreeMoved ==
    ASSUME Continued, Pending, UNCHANGED <<head, journal, st, log>>,
           journal # None => tree' = Clean \/ (head = journal.base /\ tree'.iter = journal.iter)
                                           \/ tree' = tree
    PROVE  Continued' /\ Pending'
<1>1. Results' = Results /\ journal' = journal /\ head' = head /\ st' = st
  BY DEF Results
<1>2. Continued'
  BY <1>1 DEF Continued, NoneBeyond, Trailing
<1>3. ASSUME journal # None PROVE Attached'
  <2>1. EventOf(journal.iter)' = EventOf(journal.iter) /\ KeepEvent' = KeepEvent /\ Attached
    BY <1>1, <1>3 DEF EventOf, KeepEvent, Pending
  <2>2. head # journal.base => tree' = Clean
    BY <1>3, <2>1 DEF Attached
  <2>3. head = journal.base => tree' = Clean \/ tree'.iter = journal.iter
    BY <1>3, <2>1 DEF Attached
  <2> QED
    BY <1>1, <2>1, <2>2, <2>3 DEF Attached
<1> QED
  BY <1>1, <1>2, <1>3 DEF Pending

(* The journal goes, when no result is beyond the checkpoint. *)
LEMMA JournalGone ==
    ASSUME NoneBeyond, journal' = None, UNCHANGED <<st, log>>
    PROVE  Continued' /\ Pending'
BY DEF Continued, NoneBeyond, Pending, Results

(* A state that has the journalled commit is past every result. *)
LEMMA PastCommit ==
    ASSUME IInv, ~astray, Pending, journal # None, head # journal.base, st.best = head
    PROVE  NoneBeyond
<1>1. st.next > journal.iter /\ st.next \in Nat /\ journal.iter \in Nat
  <2>1. Window /\ TypeOK
    BY DEF IInv, Settled
  <2>2. st.next > journal.iter
    BY <2>1 DEF Window, Follows
  <2>3. st.next \in Nat /\ journal.iter \in Nat
    BY <2>1 DEF TypeOK, State, Iteration
  <2> QED
    BY <2>2, <2>3
<1>2. \A e \in Results : e.iter \in Nat
  BY ResultsTyped DEF IInv, Event, Iteration
<1> QED
  BY <1>1, <1>2 DEF Pending, Attached, NoneBeyond

(* The KEEP's own event joins the log. *)
LEMMA KeepLogged ==
    ASSUME IInv, Pending, journal # None, head # journal.base, head # <<>>,
           Last(head) = journal.iter,
           UNCHANGED <<head, tree, journal, st>>, log' = log \/ log' = Append(log, KeepEvent)
    PROVE  Continued' /\ Pending'
<1>1. KeepEvent \in Event /\ KeepEvent.iter = journal.iter
  BY AppendedBack DEF KeepEvent, Event, Commits, IInv, TypeOK
<1>2. log \in Seq(Event)
  BY DEF IInv, TypeOK, Event, Commits
<1>3. \A e \in Results' : e \in Results \/ e = KeepEvent
  <2>1. \A e \in Event : ToSet(Append(log, e)) = ToSet(log) \cup {e}
    BY <1>2, ToSetAppend
  <2>2. ToSet(Append(log, KeepEvent)) = ToSet(log) \cup {KeepEvent}
    BY <1>1, <2>1
  <2> QED
    BY <2>2, Zenon DEF Results
<1>4. Attached /\ KeepEvent' = KeepEvent
  BY DEF Pending, KeepEvent
<1>5. \A e \in Results' : e.iter >= st.next => e.iter = journal.iter
  BY <1>1, <1>3, <1>4 DEF Attached
<1>6. \A e \in Results' : e.iter = journal.iter => e = KeepEvent
  BY <1>3, <1>4 DEF Attached, EventOf
<1>7. Attached'
  <2>1. \A e \in EventOf(journal.iter)' : e = KeepEvent
    BY <1>6 DEF EventOf
  <2> QED
    BY <1>4, <1>5, <2>1 DEF Attached
<1> QED
  BY <1>7 DEF Continued, Pending

LEMMA KeepsWindow == ASSUME IInv, RInv, ~astray, [Next]_vars PROVE Continued' /\ Pending'
<1> USE DEF Goto, gitVars, viewVars
<1>0. /\ TypeOK /\ Window /\ InStep /\ InPlace /\ Numbered /\ Continued /\ Pending
      /\ Paced /\ Edited /\ Older /\ Decided
      /\ mem.next \in Nat /\ st.next \in Nat
  BY DEF IInv, RInv, Settled, TypeOK, State, Checkpoint
<1>1. \A e \in Results : e.iter \in Nat
  BY <1>0, ResultsTyped DEF Event, Iteration
<1>2. journal # None => journal.iter \in Nat
  BY <1>0 DEF TypeOK, Iteration
<1>3. CASE UNCHANGED <<head, tree, journal, st, log>>
  BY <1>0, <1>3, TreeMoved
<1>4. CASE journal = None /\ UNCHANGED <<journal, st, log>>
  BY <1>0, <1>4 DEF Continued, NoneBeyond, Trailing, Pending, Results
<1>5. CASE (SavePolicy \/ Settle) /\ st' = mem
  <2>1. /\ journal = None /\ \A e \in Results : e.iter < mem.next
        /\ UNCHANGED <<head, tree, journal, log>>
    BY <1>0, <1>5 DEF SavePolicy, Settle, InPlace, Unwritten, Numbered, Working, Through
  <2> QED
    BY <1>0, <1>5, <2>1, SavedPast
<1>6. CASE Reject /\ log' # log
  <2>1. /\ journal = None /\ UNCHANGED <<journal, st>> /\ st.next = mem.next
        /\ \A e \in Results : e.iter < mem.next /\ mem.next \in Iteration
    BY <1>0, <1>6 DEF Reject, InPlace, Unwritten, Numbered, Working, Paced, Early
  <2> DEFINE e == [iter |-> mem.next, keep |-> FALSE, commit |-> <<>>]
  <2>2. log' = Append(log, e) /\ log \in Seq(Event)
    BY <1>0, <1>6 DEF Reject, Append1, TypeOK, Event, Commits
  <2>3. e \in Event /\ e.iter = mem.next /\ ~e.keep
    BY <1>0, <1>6, EmptySeq DEF Reject, Numbered, Working, Event, Commits
  <2> HIDE DEF e
  <2>4. Results' = Results \cup {e}
    BY <2>2, <2>3, ToSetAppend DEF Results
  <2>5. \A d \in Results' : d.iter =< st.next
    BY <1>0, <1>1, <2>1, <2>3, <2>4
  <2>6. Trailing'
    BY <2>1, <2>3, <2>4, <2>5 DEF Trailing
  <2> QED
    BY <2>1, <2>6 DEF Continued, Pending
<1>7. CASE WriteJournal /\ journal' # journal
  <2>1. /\ journal' = [iter |-> mem.next, base |-> head] /\ UNCHANGED <<head, tree, st, log>>
        /\ st.next = mem.next /\ tree.iter = mem.next
        /\ \A e \in Results : e.iter < mem.next
    BY <1>0, <1>7 DEF WriteJournal, Paced, Early, Numbered, Working, Edited, Candidate
  <2>2. mem.next \notin ToSet(head)
    BY <1>0, <1>7, <2>1 DEF WriteJournal, Older, Fresher
  <2>3. journal'.iter = mem.next /\ journal'.base = head' /\ journal'.base = head
    BY <2>1
  <2>4. Results' = Results /\ EventOf(journal.iter)' = {}
    BY <1>0, <1>1, <2>1, <2>3 DEF Results, EventOf
  <2>5. \A e \in Results : ~(e.iter >= mem.next)
    BY <1>0, <1>1, <2>1
  <2>6. Attached'
    BY <1>0, <2>1, <2>2, <2>3, <2>4, <2>5 DEF Attached
  <2>7. journal' # None
    BY <1>0, <1>7, <2>1 DEF WriteJournal, InPlace, Unwritten
  <2> QED
    BY <2>6, <2>7 DEF Continued, Pending
<1>8. CASE Stage
  <2>1. /\ journal = [iter |-> mem.next, base |-> head] /\ tree = Candidate
        /\ UNCHANGED <<head, journal, st, log>>
        /\ tree' = [tree EXCEPT !.new = stray # "none"]
    BY <1>0, <1>8 DEF Stage, InPlace, Edited
  <2>2. tree'.iter = mem.next
    BY <2>1 DEF Candidate
  <2> QED
    BY <1>0, <2>1, <2>2, TreeMoved
<1>9. CASE Commit /\ head' # head
  <2>1. /\ journal = [iter |-> mem.next, base |-> head] /\ UNCHANGED <<journal, st, log>>
        /\ head' = Append(head, mem.next) /\ tree' = Clean /\ st.next = mem.next
        /\ mem.next \in Iteration /\ head \in Seq(Iteration)
        /\ \A e \in Results : e.iter < mem.next
    BY <1>0, <1>9 DEF Commit, Committing, InPlace, Paced, Early, Numbered, Working, TypeOK
  <2>2. journal # None
    BY <2>1, RecoveryAssumption DEF RecoveryAssumption
  <2>3. Attached /\ journal.iter = mem.next /\ journal.base = head
    BY <1>0, <2>1, <2>2 DEF Pending
  <2>4. head' # journal.base
    BY <2>1, <2>3, Appended
  <2>5. Results' = Results /\ EventOf(journal.iter)' = {}
    BY <1>0, <1>1, <2>1, <2>3 DEF Results, EventOf
  <2>6. Attached'
    BY <1>0, <2>1, <2>3, <2>4, <2>5 DEF Attached
  <2> QED
    BY <2>1, <2>2, <2>6 DEF Continued, Pending
<1>10. CASE Backout \/ Restore
  BY <1>0, <1>10, TreeMoved DEF Backout, Restore, Discard
<1>11. CASE Unkeep
  <2>1. NoneBeyond /\ journal' = None /\ UNCHANGED <<st, log>>
    BY <1>0, <1>11 DEF Unkeep, NoneBeyond, Paced, Early, Numbered, Working
  <2> QED
    BY <2>1, JournalGone
<1>12. CASE Promote /\ st' = mem
  <2>1. /\ journal = [iter |-> mem.next, base |-> mem.best] /\ UNCHANGED <<head, tree, journal, log>>
        /\ st.best = mem.best /\ st.next = mem.next /\ mem.next \in Iteration
        /\ mem.best \in Seq(Iteration)
    BY <1>0, <1>12 DEF Promote, InStep, Paced, Early, Numbered, Working, TypeOK, State, Checkpoint
  <2>2. st'.best = st.best /\ st'.next = st.next /\ Results' = Results
    BY <1>12, <2>1 DEF Results
  <2>3. journal # None
    BY <2>1, RecoveryAssumption DEF RecoveryAssumption
  <2>4. EventOf(journal.iter)' = EventOf(journal.iter) /\ KeepEvent' = KeepEvent
    BY <2>1, <2>2 DEF EventOf, KeepEvent
  <2>5. Attached'
    BY <1>0, <2>1, <2>2, <2>3, <2>4 DEF Pending, Attached
  <2> QED
    BY <2>1, <2>3, <2>5 DEF Continued, Pending
<1>13. CASE Record
  <2>1. /\ journal = [iter |-> mem.next, base |-> mem.best] /\ UNCHANGED <<head, tree, journal, st>>
        /\ head = Append(mem.best, mem.next) /\ mem.next \in Iteration
        /\ mem.best \in Seq(Iteration) /\ (log' = log \/ log' = Append(log, KeepEvent))
    BY <1>0, <1>13 DEF Record, Append1, InStep, Numbered, Working, TypeOK, State, Checkpoint
  <2>2. journal # None /\ journal.iter = mem.next /\ journal.base = mem.best
    BY <2>1, RecoveryAssumption DEF RecoveryAssumption
  <2>3. head # <<>> /\ Last(head) = journal.iter /\ head # journal.base
    BY <2>1, <2>2, Appended
  <2> QED
    BY <1>0, <2>1, <2>2, <2>3, KeepLogged
<1>14. CASE Finalize /\ st' = mem
  <2>1. /\ UNCHANGED <<head, tree, journal, log>> /\ journal # None /\ mem.best = head
        /\ head # journal.base /\ \A e \in Results : e.iter < mem.next
    BY <1>0, <1>14 DEF Finalize, InPlace, AtHead, Decided, Numbered, Through
  <2>2. mem.next > journal.iter
    BY <1>0, <2>1 DEF Window, Follows
  <2> QED
    BY <1>0, <1>14, <2>1, <2>2, SavedPast
<1>15. CASE Unjournal \/ Clear
  <2>1. journal' = None /\ UNCHANGED <<st, log>> /\ st.best = head
    BY <1>0, <1>15 DEF Unjournal, Clear, InPlace, AtBest
  <2>2. CASE journal = None
    BY <1>4, <2>1, <2>2
  <2>3. CASE journal # None
    <3>1. head # journal.base
      BY <1>0, <1>15, <2>3 DEF Unjournal, Clear, Decided
    <3> QED
      BY <1>0, <2>1, <2>3, <3>1, PastCommit, JournalGone
  <2> QED
    BY <2>2, <2>3
<1>16. CASE Forget
  <2>1. journal # None /\ head = journal.base /\ journal' = None /\ UNCHANGED <<st, log>>
    BY <1>0, <1>16 DEF Forget, Decided
  <2>2. Attached /\ EventOf(journal.iter) = {}
    BY <1>0, <2>1 DEF Pending, Attached
  <2>3. NoneBeyond
    BY <1>0, <1>1, <2>2 DEF Attached, EventOf, NoneBeyond
  <2> QED
    BY <2>1, <2>3, JournalGone
<1>17. CASE Relog
  <2>1. /\ journal # None /\ head # journal.base /\ head # <<>> /\ Last(head) = journal.iter
        /\ UNCHANGED <<head, tree, journal, st>> /\ (log' = log \/ log' = Append(log, KeepEvent))
    BY <1>0, <1>17 DEF Relog, Append1, InPlace, Tipped, Decided
  <2> QED
    BY <1>0, <2>1, KeepLogged
<1>18. CASE Resave /\ st' = mem
  <2>1. /\ UNCHANGED <<head, tree, journal, log>> /\ mem.best = head
        /\ journal = None \/ head # journal.base
        /\ \A e \in Results : e.iter < mem.next
    BY <1>0, <1>18 DEF Resave, InPlace, AtHead, Decided
  <2>2. journal # None => mem.next > journal.iter
    BY <1>0, <2>1 DEF Window, Follows
  <2> QED
    BY <1>0, <1>18, <2>1, <2>2, SavedPast
<1>19. CASE Renumber /\ st' = mem'
  <2>1. /\ Renumbered \in Nat /\ Renumbered >= mem.next
        /\ \A e \in Results : Renumbered > e.iter
    BY <1>0, RenumberedAbove
  <2>2. mem' = [mem EXCEPT !.next = Renumbered] /\ mem \in Checkpoint
    BY <1>0, <1>19 DEF Renumber, TypeOK, State, Checkpoint
  <2>3. st'.next = Renumbered /\ st'.best = mem.best
    <3>1. \A n \in Nat : [mem EXCEPT !.next = n].next = n /\ [mem EXCEPT !.next = n].best = mem.best
      BY <2>2 DEF State, Checkpoint
    <3> QED
      BY <1>19, <2>1, <2>2, <3>1
  <2>4. /\ UNCHANGED <<head, tree, journal, log>> /\ mem.best = head
        /\ journal = None \/ head # journal.base
    BY <1>0, <1>19 DEF Renumber, InPlace, AtHead, Decided
  <2>5. journal # None => mem.next > journal.iter
    BY <1>0, <2>4 DEF Window, Follows
  <2>6. \A e \in Results : e.iter < st'.next
    BY <1>1, <2>1, <2>3
  <2>7. journal # None => st'.next > journal.iter
    BY <1>0, <1>2, <2>1, <2>3, <2>5
  <2> QED
    BY <1>0, <2>1, <2>3, <2>4, <2>6, <2>7, SavedPast
<1>20. CASE DiscardCandidate \/ Edit \/ CleanByHand
  BY <1>0, <1>4, <1>20 DEF DiscardCandidate, Edit, CleanByHand, InPlace, Unwritten
<1>21. \/ UNCHANGED <<head, tree, journal, st, log>>
       \/ (SavePolicy \/ Settle) /\ st' = mem
       \/ Reject /\ log' # log
       \/ WriteJournal /\ journal' # journal
       \/ Stage \/ (Commit /\ head' # head) \/ Backout \/ Restore \/ Unkeep
       \/ Promote /\ st' = mem
       \/ Record \/ (Finalize /\ st' = mem) \/ Unjournal \/ Clear \/ Forget \/ Relog
       \/ Resave /\ st' = mem
       \/ Renumber /\ st' = mem'
       \/ DiscardCandidate \/ Edit \/ CleanByHand
  <2>1. CASE Iterate
    BY <2>1 DEF Iterate, Begin, SavePolicy, Announce, Verdict, Reject, Settle
  <2>2. CASE Keep
    <3>1. Commit => head' # head \/ UNCHANGED <<head, tree, journal, st, log>>
      <4> SUFFICES ASSUME Commit, head' = Append(head, mem.next) PROVE head' # head
        BY DEF Commit, Committing
      <4>1. mem.next \in Iteration /\ head \in Seq(Iteration)
        BY <1>0 DEF Commit, Numbered, Working, TypeOK
      <4> QED
        BY <4>1, Appended
    <3> QED
      BY <2>2, <3>1 DEF Keep, WriteJournal, Promote, Finalize, Publish, Archive
  <2>3. CASE Recover
    BY <2>3 DEF Recover, Resave, Reconcile, Renumber, Rearchive, Republish
  <2>4. CASE Crash \/ Resume \/ UNCHANGED vars
    BY <2>4 DEF Crash, Resume, vars
  <2> QED
    BY <2>1, <2>2, <2>3, <2>4 DEF Next
<1> QED
  BY <1>3, <1>5, <1>6, <1>7, <1>8, <1>9, <1>10, <1>11, <1>12, <1>13, <1>14, <1>15, <1>16,
     <1>17, <1>18, <1>19, <1>20, <1>21

(* What the invariant says is what the planning of a recovery tests. *)
LEMMA WindowMakesSense ==
    ASSUME IInv, RInv, ~astray, journal # None \/ tree = Clean, ~Misfit
    PROVE  Recoverable
<1>0. /\ TypeOK /\ Window /\ Continued /\ Pending /\ Sound(st) /\ LogTellsTheTruth
      /\ st.next \in Nat \ {0} /\ head \in Seq(Iteration)
  BY DEF IInv, RInv, Settled, TypeOK, State, Checkpoint
<1>1. \A e \in Results : e.iter \in Nat
  BY <1>0, ResultsTyped DEF Event, Iteration
<1>2. Reduced.best = st.best
  BY <1>0, ReducedTyped
<1>3. \A e, f \in Results : e.iter = f.iter => e = f
  BY <1>0 DEF LogTellsTheTruth, Results, ToSet
<1>4. ASSUME Replayed = {} PROVE Cursor = st.next /\ {e.iter : e \in Replayed} = st.next .. Cursor - 1
  <2>1. Cursor = st.next
    BY <1>0, <1>4, FS_EmptySet DEF Cursor
  <2>2. st.next .. Cursor - 1 = {}
    BY <1>0, <2>1
  <2> QED
    BY <1>4, <2>1, <2>2
<1>5. CASE journal = None
  <2>1. head = st.best /\ tree = Clean
    BY <1>0, <1>5 DEF Window
  <2>2. Replayed = Beyond
    BY <1>5 DEF Replayed
  <2>3. CASE NoneBeyond
    <3>1. Replayed = {}
      BY <1>0, <1>1, <2>2, <2>3 DEF NoneBeyond, Beyond
    <3>2. Contiguous
      BY <1>0, <1>4, <1>5, <3>1 DEF Contiguous, LogTellsTheTruth
    <3> QED
      BY <1>2, <1>5, <2>1, <3>2 DEF Recoverable, Unjournalled
  <2>4. CASE Trailing
    <3>1. PICK e \in Results : e.iter = st.next /\ ~e.keep /\ \A d \in Results : d.iter =< st.next
      BY <2>4 DEF Trailing
    <3>2. Replayed = {e}
      <4>1. \A d \in Beyond : d = e
        BY <1>0, <1>1, <1>3, <3>1 DEF Beyond
      <4>2. e \in Beyond
        BY <1>0, <3>1 DEF Beyond
      <4> QED
        BY <2>2, <4>1, <4>2
    <3>3. Cursor = st.next + 1
      BY <3>2, FS_Singleton DEF Cursor
    <3>4. {d.iter : d \in Replayed} = st.next .. Cursor - 1
      <4>1. {d.iter : d \in Replayed} = {st.next}
        BY <3>1, <3>2
      <4>2. st.next .. Cursor - 1 = {st.next}
        BY <1>0, <3>3
      <4> QED
        BY <4>1, <4>2
    <3>5. Contiguous
      BY <1>0, <1>5, <3>1, <3>2, <3>4 DEF Contiguous, LogTellsTheTruth
    <3> QED
      BY <1>2, <1>5, <2>1, <3>5 DEF Recoverable, Unjournalled
  <2> QED
    BY <1>0, <1>5, <2>3, <2>4 DEF Continued
<1>6. CASE journal # None
  <2>1. /\ Attached /\ Follows(st) /\ head \in {journal.base, Append(journal.base, journal.iter)}
        /\ journal.iter \in Iteration /\ journal.iter \in Nat /\ journal.base \in Seq(Iteration)
    BY <1>0, <1>6 DEF Pending, Window, TypeOK, Iteration
  <2>2. Replayed = {}
    BY <1>0, <1>1, <1>6, <2>1 DEF Attached, Replayed, Beyond
  <2>3. Cursor = st.next /\ {e.iter : e \in Replayed} = st.next .. Cursor - 1
    BY <1>4, <2>2
  <2>4. Contiguous
    <3>1. \A e \in Beyond : e.iter =< journal.iter
      BY <1>0, <1>1, <2>1 DEF Attached, Beyond
    <3>2. journal.iter =< Cursor
      BY <1>0, <2>1, <2>3 DEF Attached
    <3> QED
      BY <1>0, <2>2, <2>3, <3>1, <3>2 DEF Contiguous, LogTellsTheTruth
  <2>5. ~(st.next > journal.iter) => ~Applied /\ journal.base = Reduced.best
    BY <1>0, <1>2, <2>1, <2>3 DEF Applied, Follows
  <2>6. st.next > journal.iter => Reduced.best = head /\ head # journal.base
    BY <1>2, <2>1 DEF Attached
  <2>7. AtCheckpoint
    BY <2>5, <2>6 DEF AtCheckpoint
  <2>8. CASE head = journal.base
    <3>1. EventOf(journal.iter) = {} /\ (tree = Clean \/ tree.iter = journal.iter)
      BY <2>1, <2>8 DEF Attached
    <3>2. tree = Clean \/ tree = [iter |-> journal.iter, new |-> FALSE]
      <4>1. ~tree.new /\ tree \in [iter : 0 .. MaxIteration, new : BOOLEAN]
        BY <1>0, <1>6 DEF Misfit, TypeOK
      <4> QED
        BY <3>1, <4>1
    <3> QED
      BY <1>6, <2>4, <2>7, <2>8, <3>1, <3>2 DEF Recoverable, Uncommitted
  <2>9. CASE head # journal.base
    <3>1. head = Append(journal.base, journal.iter) /\ head # <<>>
          /\ Front(head) = journal.base /\ Last(head) = journal.iter
      <4>1. head = Append(journal.base, journal.iter)
        BY <2>1, <2>9
      <4>2. journal.iter \in Iteration /\ journal.base \in Seq(Iteration)
        BY <2>1
      <4> QED
        BY <4>1, <4>2, Appended
    <3>2. tree = Clean /\ \A e \in EventOf(journal.iter) : e = KeepEvent
      BY <2>1, <2>9 DEF Attached
    <3>3. Last(head) \notin shipped
      BY <1>6, <2>1, <3>1 DEF Misfit, Attached
    <3>4. Applied => Reduced.best = head
      BY <2>5, <2>6
    <3> QED
      BY <1>6, <2>4, <2>7, <3>1, <3>2, <3>3, <3>4 DEF Recoverable, Committed
  <2> QED
    BY <2>8, <2>9
<1> QED
  BY <1>5, <1>6

(* Wherever a KEEP dies between its writes, one write lost or none, the     *)
(* checks of _plan_resume_recovery and _inspect_pending_keep let the resume *)
(* through: they stop it only at a tree or a commit with a new file, at     *)
(* edits no journal knows, and at a commit whose KEEP was given up.         *)
THEOREM AlwaysRecoverableHolds ==
    ASSUME MaxFaults =< 1
    PROVE  Spec => []AlwaysRecoverable
<1>1. IInv /\ RInv /\ [Next]_vars => RInv'
  <2> SUFFICES ASSUME IInv, RInv, [Next]_vars PROVE RInv'
    OBVIOUS
  <2>1. Paced /\ Edited /\ Issued /\ Older
    BY DEF RInv
  <2>2. Paced' /\ Edited' /\ Issued' /\ Older'
    BY <2>1, KeepsPace, KeepsTree, KeepsIssued, KeepsAge
  <2>3. ASSUME ~astray' PROVE Decided' /\ Continued' /\ Pending'
    <3>1. ~astray
      BY <2>3, StaysAstray DEF IInv
    <3>2. Decided
      BY <3>1 DEF RInv
    <3> QED
      BY <3>1, <3>2, KeepsDecision, KeepsWindow
  <2> QED
    BY <2>2, <2>3 DEF RInv
<1>2. IInv /\ RInv => AlwaysRecoverable
  BY WindowMakesSense DEF AlwaysRecoverable
<1> QED
  BY <1>1, <1>2, RInitial, Invariance, PTL DEF Spec
=============================================================================
