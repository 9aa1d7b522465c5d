------------------------- MODULE LaneLeases_proofs -------------------------
(* Theorems of LaneLeases, for any lanes, tasks, capacities and clock.      *)
EXTENDS LaneLeases, FiniteSetTheorems, TLAPS

-----------------------------------------------------------------------------
(* Operators the actions are built from. *)

(* The clock reading of an operation is a time that has passed. *)
LEMMA ClockPast ==
    ASSUME now \in Nat, NEW t0 \in Clock
    PROVE  t0 \in Nat /\ t0 =< now
BY DEF Clock

(* acquire_many writes well-formed rows. *)
LEMMA GrantedType ==
    ASSUME TypeOK, NEW h \in Holder, NEW lanes \in SUBSET Lane,
           NEW t0 \in Nat, NEW until \in Nat
    PROVE  Granted(h, lanes, t0, until) \in [Key -> LeaseRow \cup {NoRow}]
BY DEF TypeOK, Granted, LeaseRow

(* A heartbeat of rows that exist leaves well-formed rows in their place. *)
LEMMA RefreshedType ==
    ASSUME TypeOK, NEW h \in Holder, NEW lanes \in SUBSET Lane, NEW until \in Nat,
           \A l \in lanes : h \in Rows(l)
    PROVE  /\ Refreshed(h, lanes, until) \in [Key -> LeaseRow \cup {NoRow}]
           /\ \A k \in Key : Refreshed(h, lanes, until)[k] = NoRow <=> leases[k] = NoRow
<1> DEFINE new == Refreshed(h, lanes, until)
<1>1. SUFFICES ASSUME NEW k \in Key
               PROVE  /\ new[k] \in LeaseRow \cup {NoRow}
                      /\ new[k] = NoRow <=> leases[k] = NoRow
  BY DEF Refreshed
<1>2. CASE k[1] \in lanes /\ k[2] = h
  <2>1. leases[k] # NoRow /\ leases[k] \in LeaseRow
    BY <1>2 DEF Rows, TypeOK, Key
  <2>2. new[k] = [leases[k] EXCEPT !.expires = until] /\ new[k] \in LeaseRow
    BY <1>2, <2>1 DEF Refreshed, LeaseRow
  <2> QED BY <2>1, <2>2, NoRowIsNone
<1>3. CASE ~(k[1] \in lanes /\ k[2] = h)
  BY <1>3 DEF Refreshed, TypeOK
<1> QED BY <1>2, <1>3

(* Expanding a request closes it under conflict, the lanes left out too. *)
LEMMA ExpandClosed ==
    ASSUME NEW request \in SUBSET Lane
    PROVE  /\ Expand(request) \in SUBSET Lane
           /\ \A l \in Lane : \A m \in Conflicts[l] :
                 l \in Expand(request) <=> m \in Expand(request)
BY ConflictsType, ConflictsAreCliques DEF Expand

-----------------------------------------------------------------------------
(* Type correctness of the lease table, the Lease objects and the boots. *)
THEOREM TypeCorrect == Spec => []TypeOK
<1>1. Init => TypeOK
  BY DEF Init, TypeOK
<1>2. TypeOK /\ [Next]_vars => TypeOK'
  <2> SUFFICES ASSUME TypeOK, [Next]_vars PROVE TypeOK'
    OBVIOUS
  <2> USE DEF TypeOK, process
  <2>1. ASSUME NEW h \in Holder, NEW t0 \in Clock, NEW ttl \in Ttls,
               NEW request \in Requests, NEW answered \in BOOLEAN,
               Acquire(h, request, t0, ttl, answered)
        PROVE  TypeOK'
    <3>1. t0 \in Nat /\ t0 + ttl \in Nat
      BY ClockPast, ClockType
    <3>2. Expand(request) \in SUBSET Lane
      BY RequestsType, ExpandClosed
    <3>3. leases' \in [Key -> LeaseRow \cup {NoRow}]
      BY <2>1, <3>1, <3>2, GrantedType DEF Acquire
    <3> QED BY <2>1, <3>2, <3>3 DEF Acquire
  <2>2. ASSUME NEW h \in Holder, NEW t0 \in Clock, NEW ttl \in Ttls,
               Heartbeat(h, t0, ttl) \/ HeartbeatByTask(h, t0, ttl)
        PROVE  TypeOK'
    <3>1. t0 + ttl \in Nat
      BY ClockPast, ClockType
    <3>2. \A lanes \in SUBSET Lane : (\A l \in lanes : h \in Rows(l)) =>
              Refreshed(h, lanes, t0 + ttl) \in [Key -> LeaseRow \cup {NoRow}]
      BY <3>1, RefreshedType
    <3> QED BY <2>2, <3>2 DEF Heartbeat, HeartbeatByTask
  <2>3. ASSUME NEW h \in Holder, ReleaseLease(h) \/ LoseHandle(h)
        PROVE  TypeOK'
    BY <2>3 DEF ReleaseLease, LoseHandle
  <2>4. ASSUME NEW t0 \in Clock, ReapExpired(t0) \/ ReapDeadHolders(t0)
        PROVE  TypeOK'
    BY <2>4 DEF ReapExpired, ReapDeadHolders
  <2>5. CASE Reboot
    BY <2>5 DEF Reboot
  <2>6. CASE Tick
    BY <2>6 DEF Tick
  <2>7. CASE UNCHANGED vars
    BY <2>7 DEF vars
  <2> QED BY <2>1, <2>2, <2>3, <2>4, <2>5, <2>6, <2>7 DEF Next
<1> QED BY <1>1, <1>2, PTL DEF Spec

-----------------------------------------------------------------------------
(* What each kind of step does to the rows of a lane. *)

(* Outside acquire_many no row appears: a heartbeat keeps the key set, the  *)
(* deletes shrink it, a reboot and the clock leave the table alone.         *)
LEMMA OnlyAcquireAdds ==
    ASSUME TypeOK, [Next]_vars,
           ~ \E h \in Holder, t0 \in Clock, ttl \in Ttls,
                request \in Requests, answered \in BOOLEAN :
                    Acquire(h, request, t0, ttl, answered)
    PROVE  \A k \in Key : leases[k] = NoRow => leases'[k] = NoRow
<1>1. ASSUME NEW h \in Holder, NEW t0 \in Clock, NEW ttl \in Ttls,
             Heartbeat(h, t0, ttl) \/ HeartbeatByTask(h, t0, ttl)
      PROVE  \A k \in Key : leases[k] = NoRow => leases'[k] = NoRow
  <2>1. now \in Nat /\ t0 + ttl \in Nat /\ handle[h] \in SUBSET Lane
    BY ClockPast, ClockType DEF TypeOK
  <2>2. PICK lanes \in SUBSET Lane : /\ \A l \in lanes : h \in Rows(l)
                                    /\ leases' = Refreshed(h, lanes, t0 + ttl)
    BY <1>1, <2>1 DEF Heartbeat, HeartbeatByTask
  <2>3. \A k \in Key : Refreshed(h, lanes, t0 + ttl)[k] = NoRow <=> leases[k] = NoRow
    BY <2>1, <2>2, RefreshedType
  <2> QED BY <2>2, <2>3
<1>2. ASSUME NEW h \in Holder, ReleaseLease(h) \/ LoseHandle(h)
      PROVE  \A k \in Key : leases[k] = NoRow => leases'[k] = NoRow
  BY <1>2 DEF ReleaseLease, LoseHandle
<1>3. ASSUME NEW t0 \in Clock, ReapExpired(t0) \/ ReapDeadHolders(t0)
      PROVE  \A k \in Key : leases[k] = NoRow => leases'[k] = NoRow
  BY <1>3 DEF ReapExpired, ReapDeadHolders
<1>4. CASE Reboot \/ Tick \/ UNCHANGED vars
  BY <1>4 DEF Reboot, Tick, vars
<1> QED BY <1>1, <1>2, <1>3, <1>4 DEF Next

-----------------------------------------------------------------------------
(* acquire_many never puts more rows on a lane than its capacity, and the   *)
(* expired rows it leaves for a heartbeat to revive are none: on the lanes  *)
(* it is granted it deletes them.  So the bound on all rows is inductive.   *)
THEOREM WithinBoundHolds == Spec => []WithinBound
<1>1. Init => WithinBound
  <2> SUFFICES ASSUME Init, NEW l \in Lane PROVE Cardinality(Rows(l)) =< Bound[l]
    BY DEF WithinBound
  <2>1. Rows(l) = {}
    BY DEF Init, Rows, Key
  <2> QED BY <2>1, FS_EmptySet, CapacityType
<1>2. TypeOK /\ WithinBound /\ [Next]_vars => WithinBound'
  <2> SUFFICES ASSUME TypeOK, WithinBound, [Next]_vars, NEW l \in Lane
               PROVE  Cardinality(Rows(l)') =< Bound[l]
    BY DEF WithinBound
  <2>1. /\ IsFiniteSet(Rows(l)) /\ Cardinality(Rows(l)) \in Nat
        /\ Cardinality(Rows(l)) =< Bound[l] /\ Bound[l] \in Nat
    BY FiniteHolders, FS_Subset, FS_CardinalityType, CapacityType DEF Rows, WithinBound
  <2>2. ASSUME Rows(l)' \subseteq Rows(l)
        PROVE  Cardinality(Rows(l)') =< Bound[l]
    <3>1. Cardinality(Rows(l)') \in Nat /\ Cardinality(Rows(l)') =< Cardinality(Rows(l))
      BY <2>1, <2>2, FS_Subset, FS_CardinalityType
    <3> QED BY <2>1, <3>1
  <2>3. ASSUME NEW h \in Holder, NEW t0 \in Clock, NEW ttl \in Ttls,
               NEW request \in Requests, NEW answered \in BOOLEAN,
               Acquire(h, request, t0, ttl, answered)
        PROVE  Cardinality(Rows(l)') =< Bound[l]
    <3> DEFINE lanes == Expand(request)
               live == Live(l, t0)
    <3>1. leases' = Granted(h, lanes, t0, t0 + ttl) /\ Blocked(h, lanes, t0) = {}
      BY <2>3 DEF Acquire
    <3>2. CASE l \notin lanes
      <4>1. Rows(l)' = Rows(l)
        BY <3>1, <3>2 DEF Rows, Granted, Key
      <4> QED BY <2>2, <4>1
    <3>3. CASE l \in lanes
      <4>1. Rows(l)' \subseteq live \cup {h}
        BY <3>1, <3>3 DEF Rows, Granted, Key
      <4>2. live \subseteq Rows(l)
        BY DEF Live
      <4>3. CASE h \in live
        BY <2>2, <4>1, <4>2, <4>3
      <4>4. CASE h \notin live
        <5>1. IsFiniteSet(live) /\ Cardinality(live) \in Nat
          BY <2>1, <4>2, FS_Subset, FS_CardinalityType
        <5>2. /\ IsFiniteSet(live \cup {h})
              /\ Cardinality(live \cup {h}) = Cardinality(live) + 1
          BY <4>4, <5>1, FS_AddElement
        <5>3. ~ (Cardinality(live) >= capacity[l])
          BY <3>1, <3>3, <4>4 DEF Blocked
        <5>4. capacity[l] \in Nat /\ capacity[l] =< Bound[l]
          BY CapacityType DEF TypeOK
        <5>5. /\ Cardinality(Rows(l)') \in Nat
              /\ Cardinality(Rows(l)') =< Cardinality(live \cup {h})
          BY <4>1, <5>2, FS_Subset, FS_CardinalityType
        <5> HIDE DEF live
        <5> QED BY <2>1, <5>1, <5>2, <5>3, <5>4, <5>5
      <4> QED BY <4>3, <4>4
    <3> QED BY <3>2, <3>3
  <2>4. ASSUME ~ \E h \in Holder, t0 \in Clock, ttl \in Ttls,
                    request \in Requests, answered \in BOOLEAN :
                        Acquire(h, request, t0, ttl, answered)
        PROVE  Cardinality(Rows(l)') =< Bound[l]
    <3>1. \A k \in Key : leases[k] = NoRow => leases'[k] = NoRow
      BY <2>4, OnlyAcquireAdds
    <3>2. Rows(l)' \subseteq Rows(l)
      BY <3>1 DEF Rows, Key
    <3> QED BY <2>2, <3>2
  <2> QED BY <2>3, <2>4
<1> QED BY <1>1, <1>2, TypeCorrect, PTL DEF Spec

-----------------------------------------------------------------------------
(* Lanes that exclude each other are always held by the same rows: every    *)
(* operation treats the two keys of a task on such lanes alike, because     *)
(* they lie both inside or both outside the lanes it names (ExpandClosed,   *)
(* HandlesWhole) and, by the invariant, hold the same row to begin with.    *)
THEOREM ConflictSetWholeHolds == Spec => []ConflictSetWhole
<1>1. Init => ConflictSetWhole
  BY ConflictsType DEF Init, ConflictSetWhole, HandlesWhole, RowsWhole, Key
<1>2. TypeOK /\ ConflictSetWhole /\ [Next]_vars => ConflictSetWhole'
  <2> SUFFICES ASSUME TypeOK, HandlesWhole, RowsWhole, [Next]_vars
               PROVE  HandlesWhole' /\ RowsWhole'
    BY DEF ConflictSetWhole
  <2>1. HandlesWhole'
    <3>1. ASSUME NEW h \in Holder, NEW t0 \in Clock, NEW ttl \in Ttls,
                 NEW request \in Requests, NEW answered \in BOOLEAN,
                 Acquire(h, request, t0, ttl, answered)
          PROVE  HandlesWhole'
      <4>1. \A l \in Expand(request) : Conflicts[l] \subseteq Expand(request)
        BY RequestsType, ConflictsType, ExpandClosed
      <4> QED BY <3>1, <4>1 DEF Acquire, HandlesWhole, TypeOK
    <3>2. ASSUME \A h \in Holder : handle'[h] \in {handle[h], {}}
          PROVE  HandlesWhole'
      BY <3>2 DEF HandlesWhole
    <3>3. ASSUME ~ \E h \in Holder, t0 \in Clock, ttl \in Ttls,
                    request \in Requests, answered \in BOOLEAN :
                        Acquire(h, request, t0, ttl, answered)
          PROVE  \A h \in Holder : handle'[h] \in {handle[h], {}}
      BY <3>3 DEF Next, vars, TypeOK, Heartbeat, HeartbeatByTask, ReleaseLease,
                  LoseHandle, ReapExpired, ReapDeadHolders, Reboot, Tick
    <3> QED BY <3>1, <3>2, <3>3
  <2>2. RowsWhole'
    <3> SUFFICES ASSUME NEW l \in Lane, NEW g \in Holder, NEW m \in Conflicts[l]
                 PROVE  leases'[<<m, g>>] = leases'[<<l, g>>]
      BY DEF RowsWhole
    <3>0. /\ m \in Lane /\ <<l, g>> \in Key /\ <<m, g>> \in Key
          /\ leases[<<m, g>>] = leases[<<l, g>>]
      BY ConflictsType DEF RowsWhole, Key
    <3>1. ASSUME NEW h \in Holder, NEW t0 \in Clock, NEW ttl \in Ttls,
                 NEW request \in Requests, NEW answered \in BOOLEAN,
                 Acquire(h, request, t0, ttl, answered)
          PROVE  leases'[<<m, g>>] = leases'[<<l, g>>]
      <4>1. l \in Expand(request) <=> m \in Expand(request)
        BY RequestsType, ExpandClosed
      <4>2. g \in Live(l, t0) <=> g \in Live(m, t0)
        BY <3>0 DEF Live, Rows
      <4> QED BY <3>0, <3>1, <4>1, <4>2 DEF Acquire, Granted
    <3>2. ASSUME NEW h \in Holder, NEW t0 \in Clock, NEW ttl \in Ttls,
                 Heartbeat(h, t0, ttl)
          PROVE  leases'[<<m, g>>] = leases'[<<l, g>>]
      <4>1. l \in handle[h] <=> m \in handle[h]
        BY <3>0, ConflictsAreCliques DEF HandlesWhole, TypeOK
      <4> QED BY <3>0, <3>2, <4>1 DEF Heartbeat, Refreshed
    <3>3. ASSUME NEW h \in Holder, NEW t0 \in Clock, NEW ttl \in Ttls,
                 HeartbeatByTask(h, t0, ttl)
          PROVE  leases'[<<m, g>>] = leases'[<<l, g>>]
      <4>1. g \in Rows(l) <=> g \in Rows(m)
        BY <3>0 DEF Rows
      <4> QED BY <3>0, <3>3, <4>1 DEF HeartbeatByTask, Refreshed
    <3>4. ASSUME NEW h \in Holder, ReleaseLease(h)
          PROVE  leases'[<<m, g>>] = leases'[<<l, g>>]
      <4>1. l \in handle[h] <=> m \in handle[h]
        BY <3>0, ConflictsAreCliques DEF HandlesWhole, TypeOK
      <4> QED BY <3>0, <3>4, <4>1 DEF ReleaseLease
    <3>5. ASSUME NEW t0 \in Clock, ReapExpired(t0) \/ ReapDeadHolders(t0)
          PROVE  leases'[<<m, g>>] = leases'[<<l, g>>]
      BY <3>0, <3>5 DEF ReapExpired, ReapDeadHolders
    <3>6. ASSUME UNCHANGED leases
          PROVE  leases'[<<m, g>>] = leases'[<<l, g>>]
      BY <3>0, <3>6
    <3>7. (\E h \in Holder : LoseHandle(h)) \/ Reboot \/ Tick \/ UNCHANGED vars
              => UNCHANGED leases
      BY DEF LoseHandle, Reboot, Tick, vars
    <3> QED BY <3>1, <3>2, <3>3, <3>4, <3>5, <3>6, <3>7 DEF Next
  <2> QED BY <2>1, <2>2
<1> QED BY <1>1, <1>2, TypeCorrect, PTL DEF Spec

-----------------------------------------------------------------------------
(* Inv-7.3 and more: whatever the clocks of the calls, a row goes only by   *)
(* its expiry, its own holder's release, or the death of its process.       *)
THEOREM NoTheftHolds == Spec => NoTheft
<1>1. TypeOK /\ [Next]_vars => RowsGoLawfully
  <2> SUFFICES ASSUME TypeOK, [Next]_vars, NEW l \in Lane, NEW g \in Holder,
                      leases[<<l, g>>] # NoRow, leases'[<<l, g>>] = NoRow
               PROVE  RowMayGo(l, g)
    BY DEF RowsGoLawfully
  <2>0. <<l, g>> \in Key /\ leases[<<l, g>>] \in LeaseRow /\ now \in Nat
    BY DEF TypeOK, Key
  <2>1. ASSUME NEW h \in Holder, NEW t0 \in Clock, NEW ttl \in Ttls,
               NEW request \in Requests, NEW answered \in BOOLEAN,
               Acquire(h, request, t0, ttl, answered)
        PROVE  RowMayGo(l, g)
    <3>1. t0 \in Nat /\ t0 =< now /\ t0 + ttl \in Nat
      BY <2>0, ClockPast, ClockType
    <3>2. [expires |-> t0 + ttl, pid |-> pid] # NoRow
      BY <3>1, NoRowIsNone DEF LeaseRow, TypeOK
    <3>3. g \notin Live(l, t0)
      BY <2>0, <2>1, <3>2 DEF Acquire, Granted
    <3>4. ~ (leases[<<l, g>>].expires > t0)
      BY <3>3 DEF Live, Rows
    <3>5. leases[<<l, g>>].expires \in Nat
      BY <2>0 DEF LeaseRow
    <3> QED BY <2>0, <3>1, <3>4, <3>5 DEF RowMayGo
  <2>2. ASSUME NEW h \in Holder, NEW t0 \in Clock, NEW ttl \in Ttls,
               Heartbeat(h, t0, ttl) \/ HeartbeatByTask(h, t0, ttl)
        PROVE  FALSE
    <3>1. t0 + ttl \in Nat /\ handle[h] \in SUBSET Lane
      BY <2>0, ClockPast, ClockType DEF TypeOK
    <3>2. PICK lanes \in SUBSET Lane : /\ \A k \in lanes : h \in Rows(k)
                                      /\ leases' = Refreshed(h, lanes, t0 + ttl)
      BY <2>2, <3>1 DEF Heartbeat, HeartbeatByTask
    <3>3. \A k \in Key : Refreshed(h, lanes, t0 + ttl)[k] = NoRow <=> leases[k] = NoRow
      BY <3>1, <3>2, RefreshedType
    <3> QED BY <2>0, <3>2, <3>3
  <2>3. ASSUME NEW h \in Holder, ReleaseLease(h)
        PROVE  RowMayGo(l, g)
    BY <2>0, <2>3 DEF ReleaseLease, TypeOK, RowMayGo
  <2>4. ASSUME NEW t0 \in Clock, ReapExpired(t0)
        PROVE  RowMayGo(l, g)
    <3>1. t0 \in Nat /\ t0 =< now
      BY <2>0, ClockPast
    <3>2. leases[<<l, g>>].expires =< t0 /\ leases[<<l, g>>].expires \in Nat
      BY <2>0, <2>4 DEF ReapExpired, Expired, LeaseRow
    <3> QED BY <2>0, <3>1, <3>2 DEF RowMayGo
  <2>5. ASSUME NEW t0 \in Clock, ReapDeadHolders(t0)
        PROVE  RowMayGo(l, g)
    BY <2>0, <2>5 DEF ReapDeadHolders, Dead, RowMayGo
  <2>6. ASSUME UNCHANGED leases
        PROVE  FALSE
    BY <2>6
  <2>7. (\E h \in Holder : LoseHandle(h)) \/ Reboot \/ Tick \/ UNCHANGED vars
            => UNCHANGED leases
    BY DEF LoseHandle, Reboot, Tick, vars
  <2> QED BY <2>1, <2>2, <2>3, <2>4, <2>5, <2>6, <2>7 DEF Next
<1>2. TypeOK /\ [Next]_vars => [RowsGoLawfully]_vars
  BY <1>1
<1> QED BY <1>2, TypeCorrect, PTL DEF Spec, NoTheft

-----------------------------------------------------------------------------
(* A row that appears was written by acquire_many, for its caller.          *)
LEMMA RowsAppear ==
    ASSUME TypeOK, [Next]_vars, NEW l \in Lane, NEW g \in Holder,
           leases[<<l, g>>] = NoRow, leases'[<<l, g>>] # NoRow
    PROVE  \E t0 \in Clock, ttl \in Ttls, request \in Requests, answered \in BOOLEAN :
              Acquire(g, request, t0, ttl, answered) /\ l \in Expand(request)
<1>0. <<l, g>> \in Key
  BY DEF Key
<1>1. PICK h \in Holder, t0 \in Clock, ttl \in Ttls, request \in Requests,
           answered \in BOOLEAN : Acquire(h, request, t0, ttl, answered)
  BY <1>0, OnlyAcquireAdds
<1>2. h = g /\ l \in Expand(request)
  BY <1>0, <1>1 DEF Acquire, Granted
<1> QED BY <1>1, <1>2

(* A stale clock counts too many live holders and never too few: what was   *)
(* admitted at t0 is within the capacity at the commit.                     *)
THEOREM GrantWithinCapacityHolds == Spec => GrantWithinCapacity
<1> DEFINE Within == \A l \in Lane, h \in Holder :
                        (leases[<<l, h>>] = NoRow /\ leases'[<<l, h>>] # NoRow) =>
                            Cardinality(Live(l, now) \cup {h}) =< capacity[l]
<1>1. TypeOK /\ [Next]_vars => Within
  <2> SUFFICES ASSUME TypeOK, [Next]_vars, NEW l \in Lane, NEW h \in Holder,
                      leases[<<l, h>>] = NoRow, leases'[<<l, h>>] # NoRow
               PROVE  Cardinality(Live(l, now) \cup {h}) =< capacity[l]
    OBVIOUS
  <2>1. PICK t0 \in Clock, ttl \in Ttls, request \in Requests, answered \in BOOLEAN :
            Acquire(h, request, t0, ttl, answered) /\ l \in Expand(request)
    BY RowsAppear
  <2> DEFINE live == Live(l, t0)
  <2>2. h \notin live
    BY DEF Live, Rows
  <2>3. ~ (Cardinality(live) >= capacity[l])
    BY <2>1, <2>2 DEF Acquire, Blocked
  <2>4. Live(l, now) \subseteq live
    <3>1. t0 \in Nat /\ t0 =< now /\ now \in Nat
      BY ClockPast DEF TypeOK
    <3>2. ASSUME NEW g \in Live(l, now) PROVE g \in live
      <4>1. g \in Holder /\ leases[<<l, g>>] # NoRow /\ leases[<<l, g>>].expires > now
        BY <3>2 DEF Live, Rows
      <4>2. leases[<<l, g>>] \in LeaseRow
        BY <4>1 DEF TypeOK, Key
      <4>3. leases[<<l, g>>].expires \in Nat
        BY <4>2 DEF LeaseRow
      <4> QED BY <3>1, <4>1, <4>3 DEF Live, Rows
    <3> QED BY <3>2
  <2>5. IsFiniteSet(live) /\ Cardinality(live) \in Nat
    BY FiniteHolders, FS_Subset, FS_CardinalityType DEF Live, Rows
  <2>6. /\ IsFiniteSet(live \cup {h})
        /\ Cardinality(live \cup {h}) = Cardinality(live) + 1
    BY <2>2, <2>5, FS_AddElement
  <2>7. /\ Cardinality(Live(l, now) \cup {h}) \in Nat
        /\ Cardinality(Live(l, now) \cup {h}) =< Cardinality(live \cup {h})
    <3>1. Live(l, now) \cup {h} \subseteq live \cup {h}
      BY <2>4
    <3> QED BY <2>6, <3>1, FS_Subset, FS_CardinalityType
  <2>8. capacity[l] \in Nat
    BY CapacityType DEF TypeOK
  <2> HIDE DEF live
  <2> QED BY <2>3, <2>5, <2>6, <2>7, <2>8
<1>2. TypeOK /\ [Next]_vars => [Within]_vars
  BY <1>1
<1> QED BY <1>2, TypeCorrect, PTL DEF Spec, GrantWithinCapacity

-----------------------------------------------------------------------------
(* The refinement: every operation gains, for one task, the lanes on which  *)
(* its row becomes live, and loses permissions only.                        *)
Permitted == [l \in Lane |-> Live(l, now)]

(* Whether a row is live depends on the row and the clock alone. *)
LEMMA LiveRows ==
    ASSUME NEW l \in Lane, NEW g \in Holder
    PROVE  /\ g \in Live(l, now) <=> leases[<<l, g>>] # NoRow /\ leases[<<l, g>>].expires > now
           /\ g \in Live(l, now)' <=>
                 leases'[<<l, g>>] # NoRow /\ leases'[<<l, g>>].expires > now'
BY DEF Live, Rows

(* A step after which the rows of h are all live on W, or none is, and no   *)
(* other permission is new.  The lanes gained are those of W on which h had *)
(* none, a set closed under conflict when W is and h's rows are whole.      *)
LEMMA Gains ==
    ASSUME RowsWhole, WithinBound', NEW h \in Holder, NEW W \in SUBSET Lane,
           \A l \in W : Conflicts[l] \subseteq W,
           \A l \in Lane, g \in Holder :
              g \in Live(l, now)' => g \in Live(l, now) \/ (l \in W /\ g = h),
           \/ \A l \in W : h \in Live(l, now)'
           \/ \A l \in W : h \notin Live(l, now)'
    PROVE  \E S \in SUBSET Lane : Mutex!Gain(h, S)
<1> DEFINE S == {l \in W : h \in Live(l, now)' /\ h \notin Live(l, now)}
<1>1. \A l \in Lane : Live(l, now) \subseteq Holder /\ Live(l, now)' \subseteq Holder
  BY DEF Live, Rows
<1>2. \A l \in S : Conflicts[l] \subseteq S
  <2> SUFFICES ASSUME NEW l \in S, NEW m \in Conflicts[l] PROVE m \in S
    OBVIOUS
  <2>1. m \in W /\ m \in Lane /\ l \in Lane /\ h \in Live(m, now)'
    OBVIOUS
  <2>2. leases[<<m, h>>] = leases[<<l, h>>]
    BY <2>1 DEF RowsWhole
  <2>3. h \notin Live(m, now)
    BY <2>1, <2>2, LiveRows
  <2> QED BY <2>1, <2>3
<1>3. \A l \in Lane : Cardinality(Live(l, now)') =< Bound[l]
  <2> SUFFICES ASSUME NEW l \in Lane PROVE Cardinality(Live(l, now)') =< Bound[l]
    OBVIOUS
  <2>1. Live(l, now)' \subseteq Rows(l)' /\ IsFiniteSet(Rows(l)')
    BY FiniteHolders, FS_Subset DEF Live, Rows
  <2>2. /\ Cardinality(Live(l, now)') \in Nat /\ Cardinality(Rows(l)') \in Nat
        /\ Cardinality(Live(l, now)') =< Cardinality(Rows(l)')
    BY <2>1, FS_Subset, FS_CardinalityType
  <2>3. Cardinality(Rows(l)') =< Bound[l] /\ Bound[l] \in Nat
    BY CapacityType DEF WithinBound
  <2> QED BY <2>2, <2>3
<1>4. Permitted' = [l \in Lane |-> Live(l, now)']
  BY DEF Permitted
<1>5. \A l \in Lane : Live(l, now)' \subseteq Live(l, now) \cup (IF l \in S THEN {h} ELSE {})
  BY <1>1
<1>6. Permitted' \in [Lane -> SUBSET Holder]
  BY <1>1, <1>4
<1>7. \A X : Mutex!Cardinality(X) = Cardinality(X)
  BY DEF Mutex!Cardinality, Cardinality
<1>8. \A l \in S : /\ h \notin Permitted[l] /\ h \in Permitted'[l]
                  /\ Mutex!Cardinality(Permitted'[l]) =< Bound[l]
  BY <1>3, <1>4, <1>7 DEF Permitted
<1>9. Mutex!Gain(h, S)
  BY <1>2, <1>4, <1>5, <1>6, <1>8 DEF Mutex!Gain, Permitted
<1> QED BY <1>9

(* Release, reap, restart and the clock gain nothing. *)
LEMMA Loses ==
    ASSUME RowsWhole, WithinBound', Holder # {},
           \A l \in Lane : Live(l, now)' \subseteq Live(l, now)
    PROVE  \E h \in Holder, S \in SUBSET Lane : Mutex!Gain(h, S)
<1>1. PICK h \in Holder : TRUE
  OBVIOUS
<1>2. \A l \in Lane, g \in Holder :
         g \in Live(l, now)' => g \in Live(l, now) \/ (l \in {} /\ g = h)
  OBVIOUS
<1>3. {} \in SUBSET Lane /\ \A l \in {} : Conflicts[l] \subseteq {} /\ h \in Live(l, now)'
  OBVIOUS
<1> QED BY <1>2, <1>3, Gains

LEMMA AcquireGains ==
    ASSUME TypeOK, RowsWhole, WithinBound', NEW h \in Holder, NEW t0 \in Clock,
           NEW ttl \in Ttls, NEW request \in Requests, NEW answered \in BOOLEAN,
           Acquire(h, request, t0, ttl, answered)
    PROVE  \E S \in SUBSET Lane : Mutex!Gain(h, S)
<1> DEFINE W == Expand(request)
<1>1. W \in SUBSET Lane /\ \A l \in W : Conflicts[l] \subseteq W
  BY RequestsType, ConflictsType, ExpandClosed
<1>2. t0 \in Nat /\ t0 + ttl \in Nat /\ now \in Nat /\ now' = now
  BY ClockPast, ClockType DEF TypeOK, Acquire
<1>3. leases' = Granted(h, W, t0, t0 + ttl)
  BY DEF Acquire
<1>4. ASSUME NEW l \in Lane, NEW g \in Holder, l \notin W \/ g # h
      PROVE  leases'[<<l, g>>] \in {leases[<<l, g>>], NoRow}
  <2>1. <<l, g>> \in Key
    BY DEF Key
  <2> QED BY <1>3, <1>4, <2>1 DEF Granted
<1>5. ASSUME NEW l \in W
      PROVE  h \in Live(l, now)' <=> t0 + ttl > now
  <2>1. <<l, h>> \in Key /\ l \in Lane
    BY <1>1 DEF Key
  <2>2. leases'[<<l, h>>] = [expires |-> t0 + ttl, pid |-> pid]
    BY <1>3, <2>1 DEF Granted
  <2>3. leases'[<<l, h>>] # NoRow
    BY <1>2, <2>2, NoRowIsNone DEF LeaseRow, TypeOK
  <2>4. leases'[<<l, h>>].expires = t0 + ttl
    BY <2>2
  <2> QED BY <1>2, <2>1, <2>3, <2>4, LiveRows
<1>6. \A l \in Lane, g \in Holder :
         g \in Live(l, now)' => g \in Live(l, now) \/ (l \in W /\ g = h)
  BY <1>2, <1>4, LiveRows
<1> HIDE DEF W
<1> QED BY <1>1, <1>5, <1>6, Gains

(* A heartbeat may revive rows of its task that have expired; it revives    *)
(* them on a whole conflict set or not at all.                              *)
LEMMA RefreshGains ==
    ASSUME TypeOK, RowsWhole, WithinBound', NEW h \in Holder, NEW W \in SUBSET Lane,
           \A l \in W : Conflicts[l] \subseteq W /\ h \in Rows(l),
           NEW until \in Nat, leases' = Refreshed(h, W, until), now' = now
    PROVE  \E S \in SUBSET Lane : Mutex!Gain(h, S)
<1>1. ASSUME NEW l \in Lane, NEW g \in Holder, l \notin W \/ g # h
      PROVE  leases'[<<l, g>>] = leases[<<l, g>>]
  <2>1. <<l, g>> \in Key
    BY DEF Key
  <2> QED BY <1>1, <2>1 DEF Refreshed
<1>2. ASSUME NEW l \in W
      PROVE  h \in Live(l, now)' <=> until > now
  <2>1. <<l, h>> \in Key /\ l \in Lane
    BY DEF Key
  <2>2. leases[<<l, h>>] # NoRow /\ leases[<<l, h>>] \in LeaseRow
    BY <2>1 DEF Rows, TypeOK
  <2>3. leases'[<<l, h>>] = [leases[<<l, h>>] EXCEPT !.expires = until]
    BY <2>1 DEF Refreshed
  <2>4. leases'[<<l, h>>] \in LeaseRow /\ leases'[<<l, h>>].expires = until
    BY <2>2, <2>3 DEF LeaseRow
  <2> QED BY <2>1, <2>4, LiveRows, NoRowIsNone
<1>3. \A l \in Lane, g \in Holder :
         g \in Live(l, now)' => g \in Live(l, now) \/ (l \in W /\ g = h)
  BY <1>1, LiveRows
<1> QED BY <1>2, <1>3, Gains

(* The lease table implements the counting lock: whatever the clocks of the *)
(* calls, their cancellations and the restarts, tasks gain lanes with their *)
(* conflict sets, in one step and within the bound.                         *)
THEOREM LaneMutexImplemented == Spec => ImplementsMutex
<1>1. Init => Mutex!LaneMutexInit
  BY DEF Init, Mutex!LaneMutexInit, Live, Rows, Key
<1>2. TypeOK /\ ConflictSetWhole /\ WithinBound' /\ [Next]_vars =>
          [Mutex!LaneMutexNext]_[l \in Lane |-> Live(l, now)]
  <2> SUFFICES ASSUME TypeOK, HandlesWhole, RowsWhole, WithinBound', [Next]_vars
               PROVE  \/ \E h \in Holder, S \in SUBSET Lane : Mutex!Gain(h, S)
                      \/ \A l \in Lane : Live(l, now)' = Live(l, now)
    BY DEF ConflictSetWhole, Mutex!LaneMutexNext
  <2>1. ASSUME NEW h \in Holder, NEW t0 \in Clock, NEW ttl \in Ttls,
               NEW request \in Requests, NEW answered \in BOOLEAN,
               Acquire(h, request, t0, ttl, answered)
        PROVE  \E S \in SUBSET Lane : Mutex!Gain(h, S)
    BY <2>1, AcquireGains
  <2>2. ASSUME NEW h \in Holder, NEW t0 \in Clock, NEW ttl \in Ttls,
               Heartbeat(h, t0, ttl) \/ HeartbeatByTask(h, t0, ttl)
        PROVE  \E S \in SUBSET Lane : Mutex!Gain(h, S)
    <3>1. t0 + ttl \in Nat /\ now' = now /\ handle[h] \in SUBSET Lane
      BY <2>2, ClockPast, ClockType DEF TypeOK, Heartbeat, HeartbeatByTask
    <3>2. CASE Heartbeat(h, t0, ttl)
      <4>1. \A l \in handle[h] : Conflicts[l] \subseteq handle[h] /\ h \in Rows(l)
        BY <3>2 DEF Heartbeat, HandlesWhole
      <4>2. leases' = Refreshed(h, handle[h], t0 + ttl)
        BY <3>2 DEF Heartbeat
      <4> QED BY <3>1, <4>1, <4>2, RefreshGains
    <3>3. CASE HeartbeatByTask(h, t0, ttl)
      <4> DEFINE W == {l \in Lane : h \in Rows(l)}
      <4>1. \A l \in W : Conflicts[l] \subseteq W /\ h \in Rows(l)
        BY ConflictsType DEF RowsWhole, Rows
      <4>2. leases' = Refreshed(h, W, t0 + ttl)
        BY <3>3 DEF HeartbeatByTask
      <4>3. W \in SUBSET Lane
        OBVIOUS
      <4> HIDE DEF W
      <4> QED BY <3>1, <4>1, <4>2, <4>3, RefreshGains
    <3> QED BY <2>2, <3>2, <3>3
  <2>3. ASSUME now' \in Nat /\ now =< now',
               \A k \in Key : leases'[k] \in {leases[k], NoRow}
        PROVE  \A l \in Lane : Live(l, now)' \subseteq Live(l, now)
    <3> SUFFICES ASSUME NEW l \in Lane, NEW g \in Live(l, now)' PROVE g \in Live(l, now)
      OBVIOUS
    <3>1. g \in Holder /\ <<l, g>> \in Key
      BY DEF Live, Rows, Key
    <3>2. leases'[<<l, g>>] # NoRow /\ leases'[<<l, g>>].expires > now'
      BY <3>1, LiveRows
    <3>3. leases[<<l, g>>] = leases'[<<l, g>>] /\ leases[<<l, g>>] \in LeaseRow
      BY <2>3, <3>1, <3>2 DEF TypeOK
    <3>4. leases[<<l, g>>].expires \in Nat /\ now \in Nat
      BY <3>3 DEF LeaseRow, TypeOK
    <3> QED BY <2>3, <3>1, <3>2, <3>3, <3>4, LiveRows
  <2>4. ASSUME \/ \E h \in Holder : ReleaseLease(h) \/ LoseHandle(h)
               \/ \E t0 \in Clock : ReapExpired(t0) \/ ReapDeadHolders(t0)
               \/ Reboot \/ Tick \/ UNCHANGED vars
        PROVE  /\ now' \in Nat /\ now =< now'
               /\ \A k \in Key : leases'[k] \in {leases[k], NoRow}
    BY <2>4 DEF TypeOK, ReleaseLease, LoseHandle, ReapExpired, ReapDeadHolders, Reboot, Tick, vars
  <2>5. ASSUME \A l \in Lane : Live(l, now)' \subseteq Live(l, now)
        PROVE  \/ \E h \in Holder, S \in SUBSET Lane : Mutex!Gain(h, S)
               \/ \A l \in Lane : Live(l, now)' = Live(l, now)
    <3>1. CASE Holder = {}
      BY <3>1 DEF Live, Rows
    <3>2. CASE Holder # {}
      BY <2>5, <3>2, Loses
    <3> QED BY <3>1, <3>2
  <2> QED BY <2>1, <2>2, <2>3, <2>4, <2>5 DEF Next
<1> QED
  BY <1>1, <1>2, TypeCorrect, ConflictSetWholeHolds, WithinBoundHolds, PTL
  DEF Spec, ImplementsMutex, Mutex!LaneMutexSpec

=============================================================================
