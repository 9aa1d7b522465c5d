----------------------------- MODULE LaneLeases -----------------------------
(***************************************************************************)
(* The resource lock of the orchestrator (bus/resource_lock.py): execution *)
(* lanes leased to tasks, as rows of the SQLite table "leases".            *)
(*                                                                         *)
(* Every operation reads the clock first and opens its transaction later:  *)
(* it waits for the connection's async lock and for BEGIN IMMEDIATE, and   *)
(* the clock moves and other transactions commit meanwhile.  So the action *)
(* of an operation is its transaction, which is atomic, and its clock t0   *)
(* is a reading of up to MaxDelay ticks ago.  A cancellation that lands on *)
(* the commit leaves the caller without its answer and the rows written.   *)
(* The caller is the most general one: any task may call at any time.  The *)
(* holder of a lease is its task id, as in every caller under loop/.       *)
(***************************************************************************)
EXTENDS Naturals, FiniteSets

CONSTANTS
    Lane,            \* KNOWN_LANES
    Conflicts,       \* LANE_CONFLICTS: lane -> set of lanes
    Requests,        \* the requires_lanes sets tasks ask for
    Holder,          \* task ids
    Pid,             \* process ids of the coordinator's successive lives
    CapacityChoice,  \* lane_capacity tables the boot may install
    Bound,           \* Bound[l]: the largest capacity of lane l in any of them
    Ttls,            \* lease lifetimes, in clock ticks
    MaxTime,         \* bound: the clock stops here, no lease expires later
    MaxBoots,        \* bound: restarts of the coordinator
    MaxDelay,        \* bound: ticks an operation waits for its transaction
    NoRow            \* no such row

LeaseRow == [expires : Nat, pid : Pid]

ASSUME FiniteHolders == IsFiniteSet(Holder)
ASSUME ConflictsType == Conflicts \in [Lane -> SUBSET Lane]
(* The comment of LANE_CONFLICTS asks for symmetry; blocking also relies   *)
(* on each conflict set being complete (a clique), as the table's are.     *)
ASSUME ConflictsAreCliques ==
    \A l \in Lane : /\ l \notin Conflicts[l]
                    /\ \A m \in Conflicts[l] :
                          /\ l \in Conflicts[m]
                          /\ Conflicts[m] \subseteq Conflicts[l] \cup {l}
ASSUME RequestsType == Requests \subseteq SUBSET Lane
ASSUME CapacityType == /\ CapacityChoice \subseteq [Lane -> Nat]
                       /\ Bound \in [Lane -> Nat]
                       /\ \A c \in CapacityChoice, l \in Lane : c[l] =< Bound[l]
ASSUME ClockType ==
    Ttls \subseteq Nat /\ MaxTime \in Nat /\ MaxBoots \in Nat /\ MaxDelay \in Nat
ASSUME NoRowIsNone == NoRow \notin LeaseRow

VARIABLES
    leases,    \* the table: (lane, holder_id) -> row; the pair is its key
    capacity,  \* the table lane_capacity
    now,       \* the wall clock
    handle,    \* per task: the lanes of the Lease object it holds, or {}
    pid,       \* os.getpid() of the coordinator
    alive,     \* pids some process of the machine has
    boots      \* restarts so far

vars == <<leases, capacity, now, handle, pid, alive, boots>>
process == <<capacity, pid, alive, boots>>

Key == Lane \X Holder

TypeOK ==
    /\ leases \in [Key -> LeaseRow \cup {NoRow}]
    /\ capacity \in CapacityChoice
    /\ now \in Nat
    /\ handle \in [Holder -> SUBSET Lane]
    /\ pid \in Pid /\ alive \subseteq Pid /\ pid \in alive
    /\ boots \in Nat

Init ==
    /\ leases = [k \in Key |-> NoRow]
    /\ capacity \in CapacityChoice
    /\ now = 0
    /\ handle = [h \in Holder |-> {}]
    /\ pid \in Pid /\ alive = {pid}
    /\ boots = 0

-----------------------------------------------------------------------------
(* Faulty variants of a definition stand just before it, named for the     *)
(* fault; nothing refers to them.                                          *)
Expand_requested_only(lanes) == lanes

(* _expand_lanes: the requested lanes and the conflict set of each. *)
Expand(lanes) == lanes \cup UNION {Conflicts[l] : l \in lanes}

Rows(l) == {g \in Holder : leases[<<l, g>>] # NoRow}
Live(l, t) == {g \in Rows(l) : leases[<<l, g>>].expires > t}

(* The clock readings a transaction that runs now may have been given. *)
Clock == {t \in 0 .. now : now =< t + MaxDelay}

Blocked_off_by_one(h, lanes, t0) ==
    {l \in lanes : h \notin Live(l, t0) /\ Cardinality(Live(l, t0)) > capacity[l]}
Blocked_default_capacity(h, lanes, t0) ==
    {l \in lanes : h \notin Live(l, t0) /\ Cardinality(Live(l, t0)) >= Bound[l]}

(* The lanes acquire_many finds busy or full; a holder's own live row never *)
(* blocks it, and a lane of capacity 0 always does.                         *)
Blocked(h, lanes, t0) ==
    {l \in lanes : h \notin Live(l, t0) /\ Cardinality(Live(l, t0)) >= capacity[l]}

Granted_without_pid(h, lanes, t0, until) ==
    [k \in Key |->
        IF k[1] \notin lanes THEN leases[k]
        ELSE IF k[2] = h THEN [expires |-> until, pid |-> 0]
        ELSE IF k[2] \in Live(k[1], t0) THEN leases[k]
        ELSE NoRow]

(* acquire_many inside its transaction, when it finds no lane blocked: rows *)
(* expired by t0 are deleted on the lanes asked for, then all of the        *)
(* caller's rows are written.  Busy or full raises instead, and the         *)
(* rollback also restores the deleted rows.                                 *)
Granted(h, lanes, t0, until) ==
    [k \in Key |->
        IF k[1] \notin lanes THEN leases[k]
        ELSE IF k[2] = h THEN [expires |-> until, pid |-> pid]
        ELSE IF k[2] \in Live(k[1], t0) THEN leases[k]
        ELSE NoRow]

Refreshed_by_lane_only(h, lanes, until) ==
    [k \in Key |-> IF k[1] \in lanes /\ leases[k] # NoRow
                   THEN [leases[k] EXCEPT !.expires = until] ELSE leases[k]]

Refreshed(h, lanes, until) ==
    [k \in Key |-> IF k[1] \in lanes /\ k[2] = h
                   THEN [leases[k] EXCEPT !.expires = until] ELSE leases[k]]

Expired_strictly(row, t0) == row # NoRow /\ row.expires < t0

Dead_any_process(row, t0) == row # NoRow /\ row.expires > t0
(* reap_expired deletes rows expired by t0; reap_dead_holders deletes rows  *)
(* not yet expired at t0 whose process is provably gone.                    *)
Expired(row, t0) == row # NoRow /\ row.expires =< t0
Dead(row, t0) == row # NoRow /\ row.expires > t0 /\ row.pid \notin alive

-----------------------------------------------------------------------------
(* acquire_many / try_acquire_many: a Lease for the expanded lanes.  A busy *)
(* or full lane changes nothing.  "answered" says that the caller lives to  *)
(* hold the Lease; a cancel on the hop of the commit loses it.              *)
Acquire(h, request, t0, ttl, answered) ==
    LET lanes == Expand(request) IN
    /\ request # {} /\ handle[h] = {}
    /\ t0 + ttl =< MaxTime
    /\ Blocked(h, lanes, t0) = {}
    /\ leases' = Granted(h, lanes, t0, t0 + ttl)
    /\ handle' = IF answered THEN [handle EXCEPT ![h] = lanes] ELSE handle
    /\ UNCHANGED <<now, process>>

(* heartbeat: all the lanes of the Lease; StaleLeaseError changes nothing. *)
Heartbeat(h, t0, ttl) ==
    /\ handle[h] # {}
    /\ t0 + ttl =< MaxTime
    /\ \A l \in handle[h] : h \in Rows(l)
    /\ leases' = Refreshed(h, handle[h], t0 + ttl)
    /\ UNCHANGED <<now, handle, process>>

(* heartbeat_by_task: whatever rows the task still has, expired or not. *)
HeartbeatByTask(h, t0, ttl) ==
    /\ t0 + ttl =< MaxTime
    /\ leases' = Refreshed(h, {l \in Lane : h \in Rows(l)}, t0 + ttl)
    /\ UNCHANGED <<now, handle, process>>

ReleaseLease_by_lane_only(h) ==
    /\ handle[h] # {}
    /\ leases' = [k \in Key |-> IF k[1] \in handle[h] THEN NoRow ELSE leases[k]]
    /\ handle' = [handle EXCEPT ![h] = {}]
    /\ UNCHANGED <<now, process>>

(* release: the rows of this Lease's lanes and this holder. *)
ReleaseLease(h) ==
    /\ handle[h] # {}
    /\ leases' = [k \in Key |-> IF k[1] \in handle[h] /\ k[2] = h THEN NoRow ELSE leases[k]]
    /\ handle' = [handle EXCEPT ![h] = {}]
    /\ UNCHANGED <<now, process>>

(* The task's coroutine ends and its release is not committed. *)
LoseHandle(h) ==
    /\ handle[h] # {}
    /\ handle' = [handle EXCEPT ![h] = {}]
    /\ UNCHANGED <<leases, now, process>>

ReapExpired(t0) ==
    /\ leases' = [k \in Key |-> IF Expired(leases[k], t0) THEN NoRow ELSE leases[k]]
    /\ UNCHANGED <<now, handle, process>>

ReapDeadHolders(t0) ==
    /\ leases' = [k \in Key |-> IF Dead(leases[k], t0) THEN NoRow ELSE leases[k]]
    /\ UNCHANGED <<now, handle, process>>

(* The coordinator dies and a new one boots on the same database: open      *)
(* transactions roll back, Lease objects vanish, the rows stay.  The boot   *)
(* rewrites a capacity from the session's settings.  Pids may be reused.    *)
Reboot ==
    /\ boots < MaxBoots
    /\ boots' = boots + 1
    /\ pid' \in Pid
    /\ alive' \in {a \in SUBSET Pid : pid' \in a}
    /\ capacity' \in CapacityChoice
    /\ handle' = [h \in Holder |-> {}]
    /\ UNCHANGED <<leases, now>>

Tick ==
    /\ now < MaxTime
    /\ now' = now + 1
    /\ UNCHANGED <<leases, handle, process>>

Next ==
    \/ \E h \in Holder, t0 \in Clock, ttl \in Ttls :
          \/ \E request \in Requests, answered \in BOOLEAN :
                Acquire(h, request, t0, ttl, answered)
          \/ Heartbeat(h, t0, ttl)
          \/ HeartbeatByTask(h, t0, ttl)
    \/ \E h \in Holder : ReleaseLease(h) \/ LoseHandle(h)
    \/ \E t0 \in Clock : ReapExpired(t0) \/ ReapDeadHolders(t0)
    \/ Reboot
    \/ Tick

Spec == Init /\ [][Next]_vars

(* The coordinator's loop reaps on every maintenance tick, each time with a *)
(* fresh clock, and time passes.                                            *)
Fairness == WF_vars(ReapExpired(now)) /\ WF_vars(Tick)

FairSpec == Spec /\ Fairness

-----------------------------------------------------------------------------
(* Rows written for a lane, expired ones included, never outnumber its      *)
(* capacity.  Expired rows must count: heartbeat_by_task revives them.      *)
WithinBound == \A l \in Lane : Cardinality(Rows(l)) =< Bound[l]

(* A task is never left with part of a conflict set: its rows on lanes that *)
(* exclude each other are written, refreshed, reaped and released together, *)
(* so holding any of them keeps every conflicting task out.  (_expand_lanes *)
(* adds the conflict sets of the requested lanes only, one level deep.)     *)
HandlesWhole == \A h \in Holder : \A l \in handle[h] : Conflicts[l] \subseteq handle[h]
RowsWhole ==
    \A l \in Lane, h \in Holder : \A m \in Conflicts[l] :
        leases[<<m, h>>] = leases[<<l, h>>]
ConflictSetWhole == HandlesWhole /\ RowsWhole

(* A row disappears only when it has expired, when its own holder releases  *)
(* its Lease, or when the process that wrote it is gone: no call of one     *)
(* task, and no reap, takes a lane from under another (Inv-7.3).            *)
RowMayGo(l, h) ==
    \/ leases[<<l, h>>].expires =< now
    \/ l \in handle[h] /\ handle'[h] = {}
    \/ leases[<<l, h>>].pid \notin alive
RowsGoLawfully ==
    \A l \in Lane, h \in Holder :
        (leases[<<l, h>>] # NoRow /\ leases'[<<l, h>>] = NoRow) => RowMayGo(l, h)
NoTheft == [][RowsGoLawfully]_vars

(* A lane gains a holder only within the capacity in force, which counts    *)
(* every holder that is live now, even if the caller's clock is stale.      *)
GrantWithinCapacity ==
    [][\A l \in Lane, h \in Holder :
          (leases[<<l, h>>] = NoRow /\ leases'[<<l, h>>] # NoRow) =>
              Cardinality(Live(l, now) \cup {h}) =< capacity[l]]_vars

(* A lease nobody can release any more (its caller was cancelled around the *)
(* commit, or the coordinator died) does not block its lanes for ever, even *)
(* when the dead coordinator's pid is in use again: the reap frees it, or   *)
(* the task acquires it again.                                              *)
OrphanRowsGo ==
    \A h \in Holder :
        (handle[h] = {} /\ \E l \in Lane : h \in Rows(l))
            ~> (handle[h] # {} \/ \A l \in Lane : h \notin Rows(l))

(* The table implements the counting lock of LaneMutex, a task being        *)
(* permitted on a lane while its row there has not expired.                 *)
Mutex == INSTANCE LaneMutex WITH holding <- [l \in Lane |-> Live(l, now)]
ImplementsMutex == Mutex!LaneMutexSpec
=============================================================================
