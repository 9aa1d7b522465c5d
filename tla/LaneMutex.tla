------------------------------ MODULE LaneMutex ------------------------------
(***************************************************************************)
(* What the resource lock promises its callers: a counting lock per lane.  *)
(* holding[l] is the set of tasks that may use lane l now.  A task gains a *)
(* set of lanes in one step, together with every lane they conflict with,  *)
(* and never beyond a lane's capacity; permission may vanish at any time   *)
(* (release, time-out, death of the process).                              *)
(***************************************************************************)
EXTENDS Naturals, FiniteSets

CONSTANTS
    Lane,       \* the lanes
    Holder,     \* the tasks that lock them
    Conflicts,  \* Conflicts[l]: the lanes that lane l excludes
    Bound       \* Bound[l]: the largest capacity lane l ever has

VARIABLE holding

LaneMutexTypeOK == holding \in [Lane -> SUBSET Holder]

LaneMutexInit == holding = [l \in Lane |-> {}]

(* Task h gains exactly the lanes of S; any other permission may be lost. *)
Gain(h, S) ==
    /\ \A l \in S : Conflicts[l] \subseteq S
    /\ holding' \in [Lane -> SUBSET Holder]
    /\ \A l \in S : /\ h \notin holding[l]
                    /\ h \in holding'[l]
                    /\ Cardinality(holding'[l]) =< Bound[l]
    /\ \A l \in Lane :
          holding'[l] \subseteq holding[l] \cup (IF l \in S THEN {h} ELSE {})

LaneMutexNext == \E h \in Holder, S \in SUBSET Lane : Gain(h, S)

LaneMutexSpec == LaneMutexInit /\ [][LaneMutexNext]_holding
=============================================================================
