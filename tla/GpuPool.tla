------------------------------ MODULE GpuPool ------------------------------
(***************************************************************************)
(* The accounting ledger of GPU cards (bus/gpu_pool.py): one table with a  *)
(* row per leased id, shared by the two pools of the dispatcher, the whole *)
(* machine and the cards serving does not use.  Under Ray execution the    *)
(* ids are synthetic slots that only count admissions.                     *)
(*                                                                         *)
(* Expiry times are kept as what is left of them, so that time needs no    *)
(* bound: left[i] = 0 is a row whose expires_at has passed.                *)
(***************************************************************************)
EXTENDS Integers, FiniteSets

CONSTANTS
    Card,       \* physical device ids
    Slot,       \* the ids from _RAY_OBS_ID_BASE up to the pending limit
    Task,       \* task ids: both holder_id and task_id of a row
    Free        \* no row

Id == Card \cup Slot

(* What the modules that instantiate this one assume, and its proofs use. *)
PoolConstants ==
    /\ Card \cap Slot = {}
    /\ Free \notin Task

VARIABLES
    owner,   \* the holder of an id's row
    left,    \* time until the row expires
    lease,   \* ids of the GpuLease the task's coroutine will release
    copy     \* ids of the copy the pump releases when it reaps the task

vars == <<owner, left, lease, copy>>

TypeOK ==
    /\ owner \in [Id -> Task \cup {Free}]
    /\ left \in [Id -> Nat]
    /\ lease \in [Task -> SUBSET Id]
    /\ copy \in [Task -> SUBSET Id]

Init ==
    /\ owner = [i \in Id |-> Free] /\ left = [i \in Id |-> 0]
    /\ lease = [t \in Task |-> {}] /\ copy = [t \in Task |-> {}]

-----------------------------------------------------------------------------
Rows(t) == {i \in Id : owner[i] = t}
Expired == {i \in Id : left[i] = 0}

(* DELETE of the rows of `gone` followed by INSERT or UPDATE of `ids`. *)
Write(gone, ids, t, ttl) ==
    /\ owner' = [i \in Id |-> IF i \in ids THEN t ELSE IF i \in gone THEN Free ELSE owner[i]]
    /\ left' = [i \in Id |-> IF i \in ids THEN ttl ELSE IF i \in gone THEN 0 ELSE left[i]]

Hand(t, ids) ==
    /\ lease' = [lease EXCEPT ![t] = ids]
    /\ copy' = [copy EXCEPT ![t] = ids]

(* An admission is of a queued row, which no coroutine and no pump of this  *)
(* process holds a lease for.                                               *)
Unheld(t) == lease[t] = {} /\ copy[t] = {}

(* The unexpired rows of the task already are what it asks for. *)
Satisfied(t, pool, n) ==
    LET mine == Rows(t) \ Expired IN mine \subseteq pool /\ Cardinality(mine) = n

Refresh(t, pool, n, ttl) ==
    /\ Unheld(t) /\ n > 0 /\ Satisfied(t, pool, n)
    /\ Write(Expired, Rows(t) \ Expired, t, ttl)
    /\ Hand(t, Rows(t) \ Expired)

(* What an acquire deletes before it looks for cards: expired rows of       *)
(* anybody and, of the task itself, a lease that no longer fits.            *)
Purged(t) == Expired \cup Rows(t)
Available_any(t, pool) == pool
Available(t, pool) == {i \in pool : owner[i] = Free \/ i \in Purged(t)}

(* (Here and below: faulty variants, named for the fault, stand before the  *)
(* definition they vary; nothing refers to them.)                           *)
Allocate_over_leftovers(t, pool, n, ttl) ==
    /\ Unheld(t) /\ n > 0 /\ ~Satisfied(t, pool, n)
    /\ \E ids \in SUBSET Available(t, pool) :
          /\ Cardinality(ids) = n
          /\ Write(Expired, ids, t, ttl)
          /\ Hand(t, ids)

(* try_acquire: the first n available cards of the pool; which ones they    *)
(* are makes no difference.                                                 *)
Allocate(t, pool, n, ttl) ==
    /\ Unheld(t) /\ n > 0 /\ ~Satisfied(t, pool, n)
    /\ \E ids \in SUBSET Available(t, pool) :
          /\ Cardinality(ids) = n
          /\ Write(Purged(t), ids, t, ttl)
          /\ Hand(t, ids)

(* Too few cards: None is returned, and the deletions are committed. *)
Refuse(t, pool, n) ==
    /\ Unheld(t) /\ n > 0 /\ n =< Cardinality(pool) /\ ~Satisfied(t, pool, n)
    /\ Cardinality(Available(t, pool)) < n
    /\ Write(Purged(t), {}, t, 0)
    /\ UNCHANGED <<lease, copy>>

(* try_acquire_ray_observation: the first unused slot, whatever rows the    *)
(* task may have.                                                           *)
AllocateSlot(t, ttl) ==
    /\ Unheld(t)
    /\ \E s \in Slot :
          /\ owner[s] = Free \/ s \in Expired
          /\ Write(Expired, {s}, t, ttl)
          /\ Hand(t, {s})

RefuseSlot(t) ==
    /\ Unheld(t)
    /\ Slot \cap Expired = {}
    /\ Write(Expired, {}, t, 0)
    /\ UNCHANGED <<lease, copy>>

Acquire(t, pool, n, ttl) == Refresh(t, pool, n, ttl) \/ Allocate(t, pool, n, ttl)

(* The rows release deletes: by id and holder. *)
Deleted(t, ids) == ids \cap Rows(t)

(* The finally of run_task_registered. *)
Release(t) ==
    /\ lease[t] # {}
    /\ Write(Deleted(t, lease[t]), {}, t, 0)
    /\ lease' = [lease EXCEPT ![t] = {}]
    /\ UNCHANGED copy

(* The coroutine leaves without a release that took effect: it was          *)
(* cancelled before its first step, or the release itself failed.           *)
Drop(t) ==
    /\ lease[t] # {}
    /\ lease' = [lease EXCEPT ![t] = {}]
    /\ UNCHANGED <<owner, left, copy>>

(* The pump's own release of the same lease when it reaps the task. *)
ReleaseCopy(t) ==
    /\ lease[t] = {} /\ copy[t] # {}
    /\ Write(Deleted(t, copy[t]), {}, t, 0)
    /\ copy' = [copy EXCEPT ![t] = {}]
    /\ UNCHANGED lease

(* A raising pump forgets what it spawned in its last scan. *)
ForgetCopy(t) ==
    /\ copy[t] # {}
    /\ copy' = [copy EXCEPT ![t] = {}]
    /\ UNCHANGED <<owner, left, lease>>

(* By task id, expired rows included. *)
Extend(t, ttl) ==
    /\ left' = [i \in Id |-> IF owner[i] = t THEN ttl ELSE left[i]]
    /\ UNCHANGED <<owner, lease, copy>>

ReapExpired_cards_only ==
    /\ Write(Expired \cap Card, {}, Free, 0)
    /\ UNCHANGED <<lease, copy>>

ReapExpired ==
    /\ Write(Expired, {}, Free, 0)
    /\ UNCHANGED <<lease, copy>>

(* The process ends: the rows stay, the leases in memory are gone. *)
Crash ==
    /\ lease' = [t \in Task |-> {}] /\ copy' = [t \in Task |-> {}]
    /\ UNCHANGED <<owner, left>>

Pass ==
    /\ left' = [i \in Id |-> IF left[i] = 0 THEN 0 ELSE left[i] - 1]
    /\ UNCHANGED <<owner, lease, copy>>

TaskStep(t) ==
    \/ \E pool \in SUBSET Card, n \in Nat, ttl \in Nat \ {0} :
           Acquire(t, pool, n, ttl) \/ Refuse(t, pool, n)
    \/ \E ttl \in Nat \ {0} : AllocateSlot(t, ttl) \/ Extend(t, ttl)
    \/ RefuseSlot(t)
    \/ Release(t) \/ Drop(t) \/ ReleaseCopy(t) \/ ForgetCopy(t)

Next == (\E t \in Task : TaskStep(t)) \/ ReapExpired \/ Crash \/ Pass

Spec == Init /\ [][Next]_vars

-----------------------------------------------------------------------------
(* A card stays with the task that holds a lease for it until the lease     *)
(* runs out: no admission from either pool, no late second release and no   *)
(* reap takes it away (a release matches the holder, the reap the expiry).  *)
KeepsItsCards ==
    [][\A t \in Task, i \in Id :
          (i \in lease[t] /\ lease'[t] = lease[t] /\ owner[i] = t /\ left[i] > 0)
              => owner'[i] = t]_vars

(* A task never pins cards beyond those of the lease it was last given: the *)
(* leftovers of an admission before a crash go when it is admitted again    *)
(* from another pool or with another count.                                 *)
NoHoard ==
    \A t \in Task :
        (lease[t] # {} /\ lease[t] \subseteq Card) => Rows(t) \cap Card \subseteq lease[t]
=============================================================================
