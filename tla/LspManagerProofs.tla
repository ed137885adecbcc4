-------------------------- MODULE LspManagerProofs --------------------------
(***************************************************************************)
(* Proofs about LspManager, for any number of calls, workspace roots,      *)
(* instances, spawns, crashes and cancellations.                           *)
(***************************************************************************)
EXTENDS LspManager, FiniteSetTheorems, TLAPS

\* Where a call is inside start_instance, and where it is while it evicts.
Starter == {"schema", "probe", "waitSchema", "capacity", "capWait", "spawn",
            "init", "abort", "complete"}
Evicter == {"stop", "halt", "haltWait"}
\* Where a call has a client of its own that is not in the table yet.
Holder == {"init", "abort", "complete"}

\* The flight of a root belongs to the call that starts it, and while there is
\* a flight there is no instance (acquire_canonical, complete_start).
Flights ==
    /\ \A k \in Call : pc[k] \in Starter => root[k] \in Root /\ starts[root[k]] = k
    /\ \A r \in Root : starts[r] # None =>
           /\ root[starts[r]] = r /\ pc[starts[r]] \in Starter \cup Evicter
           /\ table[r] = None

\* A call has a root until it returns, an instance only where it leases, stops
\* or holds one, and an error only once it has failed.
RoleOf(k) ==
    /\ pc[k] # "done" => root[k] \in Root
    /\ own[k] # None => pc[k] \in {"waitStop", "use"} \cup Evicter \cup Holder
    /\ pc[k] \in {"init", "abort", "use", "stop"} => own[k] # None
    /\ error[k] # None => pc[k] \in {"abort", "complete", "done"}
    /\ pc[k] = "abort" => error[k] # None
    /\ pc[k] = "complete" => (own[k] = None <=> error[k] # None)
    /\ pc[k] \in Holder /\ own[k] # None =>
           rootOf[own[k]] = root[k] /\ proc[own[k]] # "none"
Roles == \A k \in Call : RoleOf(k)

\* Every open client is in the table, under its root, or with its start.
Holders ==
    /\ \A r \in Root : table[r] # None => rootOf[table[r]] = r /\ proc[table[r]] # "none"
    /\ \A i \in Inst : proc[i] = "alive" =>
           \/ rootOf[i] \in Root /\ table[rootOf[i]] = i
           \/ \E k \in Call : own[k] = i /\ pc[k] \in Holder

\* close_all runs only when the manager is closing, and once it has reported
\* that nothing remains nothing does.
Closes ==
    /\ cpc # "open" \/ late > 0 => closing
    /\ cpc = "closed" => /\ \A r \in Root : table[r] = None
                         /\ \A r \in Root : starts[r] = None

\* The counter of an instance counts the calls that use it.
Users(i) == {k \in Call : pc[k] = "use" /\ own[k] = i}
Counted == \A i \in Inst : active[i] = Cardinality(Users(i))

IInv == /\ TypeOK /\ Flights /\ Roles /\ Holders /\ Closes /\ Counted
        /\ LeaseBlocksStop /\ CancelIsLocal

-----------------------------------------------------------------------------
(* Helpers.                                                                *)

\* The calls that use an instance are finitely many.
LEMMA UsersFinite ==
    ASSUME NEW i
    PROVE  IsFiniteSet(Users(i)) /\ Cardinality(Users(i)) \in Nat
BY CallsAreFinite, FS_Subset, FS_CardinalityType DEF Users

\* A step that moves no call in or out of a lease leaves the count right.
LEMMA UsersKept ==
    ASSUME Counted, active' = active,
           \A k \in Call : /\ pc'[k] = "use" <=> pc[k] = "use"
                           /\ pc[k] = "use" => own'[k] = own[k]
    PROVE  Counted'
<1>1. \A i \in Inst : Users(i)' = Users(i) BY DEF Users
<1> QED BY <1>1 DEF Counted

-----------------------------------------------------------------------------
(* Every step keeps the invariant.                                         *)

USE NoneIsNothing
USE DEF Goto, Event, Return, FailStart, Closed, Starter, Evicter, Holder,
        vars, manager, inst, calls, closer

\* A lease is taken on an instance that is in the table, open and not marked.
LEMMA TryLeaseKeeps == ASSUME IInv, NEW k \in Call, TryLease(k) PROVE IInv'
<1> USE DEF IInv, TryLease, Leasable
<1>1. TypeOK'
  <2>1. table' \in [Root -> Inst \cup {None}] BY DEF TypeOK, Roles, RoleOf
  <2>2. starts' \in [Root -> Call \cup {None}] BY DEF TypeOK
  <2>3. /\ closing' \in BOOLEAN /\ schema' \in {"unknown", "ok", "bad"}
        /\ prober' \in Call \cup {None}
    BY DEF TypeOK
  <2>4. rootOf' \in [Inst -> Root \cup {None}] BY DEF TypeOK, Roles, RoleOf
  <2>5. proc' \in [Inst -> {"none", "alive", "closed", "reported"}] BY DEF TypeOK
  <2>6. active' \in [Inst -> Nat] BY DEF TypeOK
  <2>7. stopping' \subseteq Inst /\ finished' \subseteq Inst BY DEF TypeOK, Roles, RoleOf
  <2>8. halting' \subseteq stopping' BY DEF TypeOK
  <2>9. tasks' \subseteq Inst BY DEF TypeOK, Roles, RoleOf
  <2>10. pc' \in [Call -> Location] BY DEF TypeOK, Location
  <2>11. root' \in [Call -> Root \cup {None}] BY DEF TypeOK
  <2>12. own' \in [Call -> Inst \cup {None}] BY DEF TypeOK, Roles, RoleOf
  <2>13. error' \in [Call -> Error \cup {None}] BY DEF TypeOK, Error
  <2>14. /\ gone' \subseteq Call /\ halts' \in Inst \cup {None} /\ late' \in 0 .. 2
         /\ cpc' \in {"open", "starts", "walk", "stop", "stopWait", "closed", "left"}
         /\ events' \in 0 .. MaxEvents
    BY DEF TypeOK
  <2> QED BY <2>1, <2>2, <2>3, <2>4, <2>5, <2>6, <2>7, <2>8, <2>9, <2>10, <2>11,
      <2>12, <2>13, <2>14 DEF TypeOK
<1>2. Flights' BY DEF TypeOK, Flights, Roles, RoleOf
<1>3. Roles' BY DEF TypeOK, Flights, Roles, RoleOf, Holders
<1>4. Holders' BY DEF TypeOK, Flights, Roles, RoleOf, Holders
<1>5. Closes' BY DEF TypeOK, Flights, Closes
<1>6. Counted'
  <2>1. CASE active' = active BY <2>1, UsersKept DEF TypeOK, Roles, RoleOf
  <2>2. CASE active' # active
    <3>0. PICK i : i = table[root[k]] OBVIOUS
    <3>1. /\ i \in Inst /\ active' = [active EXCEPT ![i] = @ + 1]
          /\ own' = [own EXCEPT ![k] = i] /\ pc' = [pc EXCEPT ![k] = "use"]
      BY <2>2, <3>0 DEF TypeOK, Roles, RoleOf
    <3>2. Users(i)' = Users(i) \cup {k} /\ k \notin Users(i) BY <3>1 DEF Users, TypeOK
    <3>3. \A j \in Inst : j # i => Users(j)' = Users(j) BY <3>1 DEF Users, TypeOK
    <3>4. Cardinality(Users(i)') = Cardinality(Users(i)) + 1
      BY <3>2, UsersFinite, FS_AddElement
    <3>5. ASSUME NEW j \in Inst PROVE active'[j] = Cardinality(Users(j)')
      <4>1. CASE j = i BY <3>1, <3>4, <4>1 DEF Counted, TypeOK
      <4>2. CASE j # i BY <3>1, <3>3, <4>2 DEF Counted, TypeOK
      <4> QED BY <4>1, <4>2
    <3> QED BY <3>5 DEF Counted
  <2> QED BY <2>1, <2>2
<1>7. LeaseBlocksStop' BY DEF TypeOK, LeaseBlocksStop, Closes
<1>8. CancelIsLocal' BY DEF TypeOK, Roles, RoleOf, CancelIsLocal, Error
<1> QED BY <1>1, <1>2, <1>3, <1>4, <1>5, <1>6, <1>7, <1>8

\* A lease that is given back was counted.
LEMMA ReleaseKeeps == ASSUME IInv, NEW k \in Call, Release(k) PROVE IInv'
<1> USE DEF IInv, Release, Wake
<1>1. TypeOK'
  <2>1. table' \in [Root -> Inst \cup {None}] BY DEF TypeOK, Roles, RoleOf
  <2>2. starts' \in [Root -> Call \cup {None}] BY DEF TypeOK
  <2>3. /\ closing' \in BOOLEAN /\ schema' \in {"unknown", "ok", "bad"}
        /\ prober' \in Call \cup {None}
    BY DEF TypeOK
  <2>4. rootOf' \in [Inst -> Root \cup {None}] BY DEF TypeOK, Roles, RoleOf
  <2>5. proc' \in [Inst -> {"none", "alive", "closed", "reported"}] BY DEF TypeOK
  <2>6. active' \in [Inst -> Nat]
    <3>1. own[k] \in Inst /\ k \in Users(own[k]) BY DEF TypeOK, Roles, RoleOf, Users
    <3>2. Cardinality(Users(own[k])) # 0 BY <3>1, UsersFinite, FS_EmptySet
    <3>3. active[own[k]] \in Nat /\ active[own[k]] # 0 BY <3>1, <3>2 DEF TypeOK, Counted
    <3>4. active[own[k]] - 1 \in Nat BY <3>3
    <3> QED BY <3>1, <3>4 DEF TypeOK
  <2>7. stopping' \subseteq Inst /\ finished' \subseteq Inst BY DEF TypeOK, Roles, RoleOf
  <2>8. halting' \subseteq stopping' BY DEF TypeOK
  <2>9. tasks' \subseteq Inst BY DEF TypeOK, Roles, RoleOf
  <2>10. pc' \in [Call -> Location] BY DEF TypeOK, Location
  <2>11. root' \in [Call -> Root \cup {None}] BY DEF TypeOK
  <2>12. own' \in [Call -> Inst \cup {None}] BY DEF TypeOK, Roles, RoleOf
  <2>13. error' \in [Call -> Error \cup {None}] BY DEF TypeOK, Error
  <2>14. /\ gone' \subseteq Call /\ halts' \in Inst \cup {None} /\ late' \in 0 .. 2
         /\ cpc' \in {"open", "starts", "walk", "stop", "stopWait", "closed", "left"}
         /\ events' \in 0 .. MaxEvents
    BY DEF TypeOK
  <2> QED BY <2>1, <2>2, <2>3, <2>4, <2>5, <2>6, <2>7, <2>8, <2>9, <2>10, <2>11,
      <2>12, <2>13, <2>14 DEF TypeOK
<1>2. Flights' BY DEF TypeOK, Flights, Roles, RoleOf
<1>3. Roles' BY DEF TypeOK, Flights, Roles, RoleOf, Holders
<1>4. Holders' BY DEF TypeOK, Flights, Roles, RoleOf, Holders
<1>5. Closes' BY DEF TypeOK, Flights, Closes
<1>6. Counted'
  <2>0. PICK i : i = own[k] OBVIOUS
  <2>1. /\ i \in Inst /\ k \in Users(i) /\ active' = [active EXCEPT ![i] = @ - 1]
    BY <2>0 DEF TypeOK, Roles, RoleOf, Users
  <2>a. \A w \in Call : pc'[w] = "use" <=> (pc[w] = "use" /\ w # k) BY DEF TypeOK
  <2>b. \A w \in Call : w # k => own'[w] = own[w] BY DEF TypeOK
  <2>2. Users(i)' = Users(i) \ {k} BY <2>0, <2>1, <2>a, <2>b DEF Users
  <2>3. \A j \in Inst : j # i => Users(j)' = Users(j) BY <2>0, <2>1, <2>a, <2>b DEF Users
  <2>4. Cardinality(Users(i)') = Cardinality(Users(i)) - 1
    BY <2>1, <2>2, UsersFinite, FS_RemoveElement
  <2>5. ASSUME NEW j \in Inst PROVE active'[j] = Cardinality(Users(j)')
    <3>1. CASE j = i BY <2>1, <2>4, <3>1 DEF Counted, TypeOK
    <3>2. CASE j # i BY <2>1, <2>3, <3>2 DEF Counted, TypeOK
    <3> QED BY <3>1, <3>2
  <2> QED BY <2>5 DEF Counted
<1>7. LeaseBlocksStop' BY DEF TypeOK, LeaseBlocksStop, Closes
<1>8. CancelIsLocal' BY DEF TypeOK, Roles, RoleOf, CancelIsLocal, Error
<1> QED BY <1>1, <1>2, <1>3, <1>4, <1>5, <1>6, <1>7, <1>8

\* A start begins only where there is neither an instance nor a start.
LEMMA AcquireKeeps == ASSUME IInv, NEW k \in Call, Acquire(k) PROVE IInv'
<1> USE DEF IInv, Acquire, InFlight
<1>1. TypeOK'
  <2>1. table' \in [Root -> Inst \cup {None}] BY DEF TypeOK, Roles, RoleOf
  <2>2. starts' \in [Root -> Call \cup {None}] BY DEF TypeOK
  <2>3. /\ closing' \in BOOLEAN /\ schema' \in {"unknown", "ok", "bad"}
        /\ prober' \in Call \cup {None}
    BY DEF TypeOK
  <2>4. rootOf' \in [Inst -> Root \cup {None}] BY DEF TypeOK, Roles, RoleOf
  <2>5. proc' \in [Inst -> {"none", "alive", "closed", "reported"}] BY DEF TypeOK
  <2>6. active' \in [Inst -> Nat] BY DEF TypeOK
  <2>7. stopping' \subseteq Inst /\ finished' \subseteq Inst BY DEF TypeOK, Roles, RoleOf
  <2>8. halting' \subseteq stopping' BY DEF TypeOK
  <2>9. tasks' \subseteq Inst BY DEF TypeOK, Roles, RoleOf
  <2>10. pc' \in [Call -> Location] BY DEF TypeOK, Location
  <2>11. root' \in [Call -> Root \cup {None}] BY DEF TypeOK
  <2>12. own' \in [Call -> Inst \cup {None}] BY DEF TypeOK, Roles, RoleOf
  <2>13. error' \in [Call -> Error \cup {None}] BY DEF TypeOK, Error
  <2>14. /\ gone' \subseteq Call /\ halts' \in Inst \cup {None} /\ late' \in 0 .. 2
         /\ cpc' \in {"open", "starts", "walk", "stop", "stopWait", "closed", "left"}
         /\ events' \in 0 .. MaxEvents
    BY DEF TypeOK
  <2> QED BY <2>1, <2>2, <2>3, <2>4, <2>5, <2>6, <2>7, <2>8, <2>9, <2>10, <2>11,
      <2>12, <2>13, <2>14 DEF TypeOK
<1>2. Flights' BY DEF TypeOK, Flights, Roles, RoleOf
<1>3. Roles' BY DEF TypeOK, Flights, Roles, RoleOf, Holders
<1>4. Holders' BY DEF TypeOK, Flights, Roles, RoleOf, Holders
<1>5. Closes' BY DEF TypeOK, Flights, Closes
<1>6. Counted' BY UsersKept DEF TypeOK, Roles, RoleOf
<1>7. LeaseBlocksStop' BY DEF TypeOK, LeaseBlocksStop, Closes
<1>8. CancelIsLocal' BY DEF TypeOK, Roles, RoleOf, CancelIsLocal, Error
<1> QED BY <1>1, <1>2, <1>3, <1>4, <1>5, <1>6, <1>7, <1>8

\* A wait that ends by its deadline leaves nothing behind.
LEMMA WaitTimesOutKeeps == ASSUME IInv, NEW k \in Call, WaitTimesOut(k) PROVE IInv'
<1> USE DEF IInv, WaitTimesOut
<1>1. TypeOK' BY DEF TypeOK, Location, Error
<1>2. Flights' BY DEF TypeOK, Flights, Roles, RoleOf
<1>3. Roles'
  <2> SUFFICES ASSUME NEW w \in Call PROVE RoleOf(w)'
    BY DEF Roles
  <2> USE DEF TypeOK, Roles, RoleOf, Error
  <2>1. pc'[w] # "done" => root'[w] \in Root OBVIOUS
  <2>2. own'[w] # None => pc'[w] \in {"waitStop", "use"} \cup Evicter \cup Holder
    OBVIOUS
  <2>3. pc'[w] \in {"init", "abort", "use", "stop"} => own'[w] # None BY DEF Evictable, Running
  <2>4. error'[w] # None => pc'[w] \in {"abort", "complete", "done"} OBVIOUS
  <2>5. pc'[w] = "abort" => error'[w] # None OBVIOUS
  <2>6. pc'[w] = "complete" => (own'[w] = None <=> error'[w] # None) OBVIOUS
  <2>7. pc'[w] \in Holder /\ own'[w] # None =>
            rootOf'[own'[w]] = root'[w] /\ proc'[own'[w]] # "none"
    BY DEF Holders
  <2> QED BY <2>1, <2>2, <2>3, <2>4, <2>5, <2>6, <2>7
<1>4. Holders' BY DEF TypeOK, Flights, Roles, RoleOf, Holders
<1>5. Closes' BY DEF TypeOK, Flights, Closes
<1>6. Counted' BY UsersKept DEF TypeOK, Roles, RoleOf
<1>7. LeaseBlocksStop' BY DEF TypeOK, LeaseBlocksStop, Closes
<1>8. CancelIsLocal' BY DEF TypeOK, Roles, RoleOf, CancelIsLocal, Error
<1> QED BY <1>1, <1>2, <1>3, <1>4, <1>5, <1>6, <1>7, <1>8

\* A cancelled call returns, or fails its own start.
LEMMA SeesCancelKeeps == ASSUME IInv, NEW k \in Call, SeesCancel(k) PROVE IInv'
<1> USE DEF IInv, SeesCancel
<1>1. TypeOK' BY DEF TypeOK, Location, Error
<1>2. Flights' BY DEF TypeOK, Flights, Roles, RoleOf
<1>3. Roles'
  <2> SUFFICES ASSUME NEW w \in Call PROVE RoleOf(w)'
    BY DEF Roles
  <2> USE DEF TypeOK, Roles, RoleOf, Error
  <2>1. pc'[w] # "done" => root'[w] \in Root OBVIOUS
  <2>2. own'[w] # None => pc'[w] \in {"waitStop", "use"} \cup Evicter \cup Holder
    OBVIOUS
  <2>3. pc'[w] \in {"init", "abort", "use", "stop"} => own'[w] # None BY DEF Evictable, Running
  <2>4. error'[w] # None => pc'[w] \in {"abort", "complete", "done"} OBVIOUS
  <2>5. pc'[w] = "abort" => error'[w] # None OBVIOUS
  <2>6. pc'[w] = "complete" => (own'[w] = None <=> error'[w] # None) OBVIOUS
  <2>7. pc'[w] \in Holder /\ own'[w] # None =>
            rootOf'[own'[w]] = root'[w] /\ proc'[own'[w]] # "none"
    BY DEF Holders
  <2> QED BY <2>1, <2>2, <2>3, <2>4, <2>5, <2>6, <2>7
<1>4. Holders' BY DEF TypeOK, Flights, Roles, RoleOf, Holders
<1>5. Closes' BY DEF TypeOK, Flights, Closes
<1>6. Counted' BY UsersKept DEF TypeOK, Roles, RoleOf
<1>7. LeaseBlocksStop' BY DEF TypeOK, LeaseBlocksStop, Closes
<1>8. CancelIsLocal' BY DEF TypeOK, Roles, RoleOf, CancelIsLocal, Error
<1> QED BY <1>1, <1>2, <1>3, <1>4, <1>5, <1>6, <1>7, <1>8

\* A call marks an instance that has no lease.
LEMMA StopInstanceKeeps == ASSUME IInv, NEW k \in Call, StopInstance(k) PROVE IInv'
<1> USE DEF IInv, StopInstance, CanMark, Mark
<1>1. TypeOK'
  <2>1. table' \in [Root -> Inst \cup {None}] BY DEF TypeOK, Roles, RoleOf
  <2>2. starts' \in [Root -> Call \cup {None}] BY DEF TypeOK
  <2>3. /\ closing' \in BOOLEAN /\ schema' \in {"unknown", "ok", "bad"}
        /\ prober' \in Call \cup {None}
    BY DEF TypeOK
  <2>4. rootOf' \in [Inst -> Root \cup {None}] BY DEF TypeOK, Roles, RoleOf
  <2>5. proc' \in [Inst -> {"none", "alive", "closed", "reported"}] BY DEF TypeOK
  <2>6. active' \in [Inst -> Nat] BY DEF TypeOK
  <2>7. stopping' \subseteq Inst /\ finished' \subseteq Inst BY DEF TypeOK, Roles, RoleOf
  <2>8. halting' \subseteq stopping' BY DEF TypeOK
  <2>9. tasks' \subseteq Inst BY DEF TypeOK, Roles, RoleOf
  <2>10. pc' \in [Call -> Location] BY DEF TypeOK, Location
  <2>11. root' \in [Call -> Root \cup {None}] BY DEF TypeOK
  <2>12. own' \in [Call -> Inst \cup {None}] BY DEF TypeOK, Roles, RoleOf
  <2>13. error' \in [Call -> Error \cup {None}] BY DEF TypeOK, Error
  <2>14. /\ gone' \subseteq Call /\ halts' \in Inst \cup {None} /\ late' \in 0 .. 2
         /\ cpc' \in {"open", "starts", "walk", "stop", "stopWait", "closed", "left"}
         /\ events' \in 0 .. MaxEvents
    BY DEF TypeOK
  <2> QED BY <2>1, <2>2, <2>3, <2>4, <2>5, <2>6, <2>7, <2>8, <2>9, <2>10, <2>11,
      <2>12, <2>13, <2>14 DEF TypeOK
<1>2. Flights' BY DEF TypeOK, Flights, Roles, RoleOf
<1>3. Roles' BY DEF TypeOK, Flights, Roles, RoleOf, Holders
<1>4. Holders' BY DEF TypeOK, Flights, Roles, RoleOf, Holders
<1>5. Closes' BY DEF TypeOK, Flights, Closes
<1>6. Counted' BY UsersKept DEF TypeOK, Roles, RoleOf
<1>7. LeaseBlocksStop' BY DEF TypeOK, LeaseBlocksStop, Closes
<1>8. CancelIsLocal' BY DEF TypeOK, Roles, RoleOf, CancelIsLocal, Error
<1> QED BY <1>1, <1>2, <1>3, <1>4, <1>5, <1>6, <1>7, <1>8

\* After a stop a call goes on with its start, or looks again.
LEMMA StopReturnsKeeps == ASSUME IInv, NEW k \in Call, StopReturns(k) PROVE IInv'
<1> USE DEF IInv, StopReturns
<1>1. TypeOK' BY DEF TypeOK, Location, Error
<1>2. Flights' BY DEF TypeOK, Flights, Roles, RoleOf
<1>3. Roles' BY DEF TypeOK, Flights, Roles, RoleOf, Holders
<1>4. Holders' BY DEF TypeOK, Flights, Roles, RoleOf, Holders
<1>5. Closes' BY DEF TypeOK, Flights, Closes
<1>6. Counted' BY UsersKept DEF TypeOK, Roles, RoleOf
<1>7. LeaseBlocksStop' BY DEF TypeOK, LeaseBlocksStop, Closes
<1>8. CancelIsLocal' BY DEF TypeOK, Roles, RoleOf, CancelIsLocal, Error
<1> QED BY <1>1, <1>2, <1>3, <1>4, <1>5, <1>6, <1>7, <1>8

\* The schema is settled before the start goes on.
LEMMA EnsureSchemaKeeps == ASSUME IInv, NEW k \in Call, EnsureSchema(k) PROVE IInv'
<1> USE DEF IInv, EnsureSchema
<1>1. TypeOK'
  <2>1. table' \in [Root -> Inst \cup {None}] BY DEF TypeOK, Roles, RoleOf
  <2>2. starts' \in [Root -> Call \cup {None}] BY DEF TypeOK
  <2>3. /\ closing' \in BOOLEAN /\ schema' \in {"unknown", "ok", "bad"}
        /\ prober' \in Call \cup {None}
    BY DEF TypeOK
  <2>4. rootOf' \in [Inst -> Root \cup {None}] BY DEF TypeOK, Roles, RoleOf
  <2>5. proc' \in [Inst -> {"none", "alive", "closed", "reported"}] BY DEF TypeOK
  <2>6. active' \in [Inst -> Nat] BY DEF TypeOK
  <2>7. stopping' \subseteq Inst /\ finished' \subseteq Inst BY DEF TypeOK, Roles, RoleOf
  <2>8. halting' \subseteq stopping' BY DEF TypeOK
  <2>9. tasks' \subseteq Inst BY DEF TypeOK, Roles, RoleOf
  <2>10. pc' \in [Call -> Location] BY DEF TypeOK, Location
  <2>11. root' \in [Call -> Root \cup {None}] BY DEF TypeOK
  <2>12. own' \in [Call -> Inst \cup {None}] BY DEF TypeOK, Roles, RoleOf
  <2>13. error' \in [Call -> Error \cup {None}] BY DEF TypeOK, Error
  <2>14. /\ gone' \subseteq Call /\ halts' \in Inst \cup {None} /\ late' \in 0 .. 2
         /\ cpc' \in {"open", "starts", "walk", "stop", "stopWait", "closed", "left"}
         /\ events' \in 0 .. MaxEvents
    BY DEF TypeOK
  <2> QED BY <2>1, <2>2, <2>3, <2>4, <2>5, <2>6, <2>7, <2>8, <2>9, <2>10, <2>11,
      <2>12, <2>13, <2>14 DEF TypeOK
<1>2. Flights' BY DEF TypeOK, Flights, Roles, RoleOf
<1>3. Roles'
  <2> SUFFICES ASSUME NEW w \in Call PROVE RoleOf(w)'
    BY DEF Roles
  <2> USE DEF TypeOK, Roles, RoleOf, Error
  <2>1. pc'[w] # "done" => root'[w] \in Root OBVIOUS
  <2>2. own'[w] # None => pc'[w] \in {"waitStop", "use"} \cup Evicter \cup Holder
    OBVIOUS
  <2>3. pc'[w] \in {"init", "abort", "use", "stop"} => own'[w] # None BY DEF Evictable, Running
  <2>4. error'[w] # None => pc'[w] \in {"abort", "complete", "done"} OBVIOUS
  <2>5. pc'[w] = "abort" => error'[w] # None OBVIOUS
  <2>6. pc'[w] = "complete" => (own'[w] = None <=> error'[w] # None) OBVIOUS
  <2>7. pc'[w] \in Holder /\ own'[w] # None =>
            rootOf'[own'[w]] = root'[w] /\ proc'[own'[w]] # "none"
    BY DEF Holders
  <2> QED BY <2>1, <2>2, <2>3, <2>4, <2>5, <2>6, <2>7
<1>4. Holders' BY DEF TypeOK, Flights, Roles, RoleOf, Holders
<1>5. Closes' BY DEF TypeOK, Flights, Closes
<1>6. Counted' BY UsersKept DEF TypeOK, Roles, RoleOf
<1>7. LeaseBlocksStop' BY DEF TypeOK, LeaseBlocksStop, Closes
<1>8. CancelIsLocal' BY DEF TypeOK, Roles, RoleOf, CancelIsLocal, Error
<1> QED BY <1>1, <1>2, <1>3, <1>4, <1>5, <1>6, <1>7, <1>8

\* The end of a probe reaches the starts that wait for it, but not the cancellation.
LEMMA ProbeDoneKeeps == ASSUME IInv, NEW k \in Call, ProbeDone(k) PROVE IInv'
<1> USE DEF IInv, ProbeDone, Shared
<1>1. TypeOK'
  <2>1. table' \in [Root -> Inst \cup {None}] BY DEF TypeOK, Roles, RoleOf
  <2>2. starts' \in [Root -> Call \cup {None}] BY DEF TypeOK
  <2>3. /\ closing' \in BOOLEAN /\ schema' \in {"unknown", "ok", "bad"}
        /\ prober' \in Call \cup {None}
    BY DEF TypeOK
  <2>4. rootOf' \in [Inst -> Root \cup {None}] BY DEF TypeOK, Roles, RoleOf
  <2>5. proc' \in [Inst -> {"none", "alive", "closed", "reported"}] BY DEF TypeOK
  <2>6. active' \in [Inst -> Nat] BY DEF TypeOK
  <2>7. stopping' \subseteq Inst /\ finished' \subseteq Inst BY DEF TypeOK, Roles, RoleOf
  <2>8. halting' \subseteq stopping' BY DEF TypeOK
  <2>9. tasks' \subseteq Inst BY DEF TypeOK, Roles, RoleOf
  <2>10. pc' \in [Call -> Location] BY DEF TypeOK, Location
  <2>11. root' \in [Call -> Root \cup {None}] BY DEF TypeOK
  <2>12. own' \in [Call -> Inst \cup {None}] BY DEF TypeOK, Roles, RoleOf
  <2>13. error' \in [Call -> Error \cup {None}] BY DEF TypeOK, Error
  <2>14. /\ gone' \subseteq Call /\ halts' \in Inst \cup {None} /\ late' \in 0 .. 2
         /\ cpc' \in {"open", "starts", "walk", "stop", "stopWait", "closed", "left"}
         /\ events' \in 0 .. MaxEvents
    BY DEF TypeOK
  <2> QED BY <2>1, <2>2, <2>3, <2>4, <2>5, <2>6, <2>7, <2>8, <2>9, <2>10, <2>11,
      <2>12, <2>13, <2>14 DEF TypeOK
<1>2. Flights' BY DEF TypeOK, Flights, Roles, RoleOf
<1>3. Roles'
  <2> SUFFICES ASSUME NEW w \in Call PROVE RoleOf(w)'
    BY DEF Roles
  <2> USE DEF TypeOK, Roles, RoleOf, Error
  <2>1. pc'[w] # "done" => root'[w] \in Root OBVIOUS
  <2>2. own'[w] # None => pc'[w] \in {"waitStop", "use"} \cup Evicter \cup Holder
    OBVIOUS
  <2>3. pc'[w] \in {"init", "abort", "use", "stop"} => own'[w] # None BY DEF Evictable, Running
  <2>4. error'[w] # None => pc'[w] \in {"abort", "complete", "done"} OBVIOUS
  <2>5. pc'[w] = "abort" => error'[w] # None OBVIOUS
  <2>6. pc'[w] = "complete" => (own'[w] = None <=> error'[w] # None) OBVIOUS
  <2>7. pc'[w] \in Holder /\ own'[w] # None =>
            rootOf'[own'[w]] = root'[w] /\ proc'[own'[w]] # "none"
    BY DEF Holders
  <2> QED BY <2>1, <2>2, <2>3, <2>4, <2>5, <2>6, <2>7
<1>4. Holders' BY DEF TypeOK, Flights, Roles, RoleOf, Holders
<1>5. Closes' BY DEF TypeOK, Flights, Closes
<1>6. Counted' BY UsersKept DEF TypeOK, Roles, RoleOf
<1>7. LeaseBlocksStop' BY DEF TypeOK, LeaseBlocksStop, Closes
<1>8. CancelIsLocal' BY DEF TypeOK, Roles, RoleOf, CancelIsLocal, Error
<1> QED BY <1>1, <1>2, <1>3, <1>4, <1>5, <1>6, <1>7, <1>8

\* Waiting for room changes nothing but where the start is.
LEMMA EnsureCapacityKeeps == ASSUME IInv, NEW k \in Call, EnsureCapacity(k) PROVE IInv'
<1> USE DEF IInv, EnsureCapacity, HasRoom, Evictable, Running
<1>1. TypeOK'
  <2>1. table' \in [Root -> Inst \cup {None}] BY DEF TypeOK, Roles, RoleOf
  <2>2. starts' \in [Root -> Call \cup {None}] BY DEF TypeOK
  <2>3. /\ closing' \in BOOLEAN /\ schema' \in {"unknown", "ok", "bad"}
        /\ prober' \in Call \cup {None}
    BY DEF TypeOK
  <2>4. rootOf' \in [Inst -> Root \cup {None}] BY DEF TypeOK, Roles, RoleOf
  <2>5. proc' \in [Inst -> {"none", "alive", "closed", "reported"}] BY DEF TypeOK
  <2>6. active' \in [Inst -> Nat] BY DEF TypeOK
  <2>7. stopping' \subseteq Inst /\ finished' \subseteq Inst BY DEF TypeOK, Roles, RoleOf
  <2>8. halting' \subseteq stopping' BY DEF TypeOK
  <2>9. tasks' \subseteq Inst BY DEF TypeOK, Roles, RoleOf
  <2>10. pc' \in [Call -> Location] BY DEF TypeOK, Location
  <2>11. root' \in [Call -> Root \cup {None}] BY DEF TypeOK
  <2>12. own' \in [Call -> Inst \cup {None}] BY DEF TypeOK, Roles, RoleOf
  <2>13. error' \in [Call -> Error \cup {None}] BY DEF TypeOK, Error
  <2>14. /\ gone' \subseteq Call /\ halts' \in Inst \cup {None} /\ late' \in 0 .. 2
         /\ cpc' \in {"open", "starts", "walk", "stop", "stopWait", "closed", "left"}
         /\ events' \in 0 .. MaxEvents
    BY DEF TypeOK
  <2> QED BY <2>1, <2>2, <2>3, <2>4, <2>5, <2>6, <2>7, <2>8, <2>9, <2>10, <2>11,
      <2>12, <2>13, <2>14 DEF TypeOK
<1>2. Flights' BY DEF TypeOK, Flights, Roles, RoleOf
<1>3. Roles'
  <2> SUFFICES ASSUME NEW w \in Call PROVE RoleOf(w)'
    BY DEF Roles
  <2> USE DEF TypeOK, Roles, RoleOf, Error
  <2>1. pc'[w] # "done" => root'[w] \in Root OBVIOUS
  <2>2. own'[w] # None => pc'[w] \in {"waitStop", "use"} \cup Evicter \cup Holder
    OBVIOUS
  <2>3. pc'[w] \in {"init", "abort", "use", "stop"} => own'[w] # None BY DEF Evictable, Running
  <2>4. error'[w] # None => pc'[w] \in {"abort", "complete", "done"} OBVIOUS
  <2>5. pc'[w] = "abort" => error'[w] # None OBVIOUS
  <2>6. pc'[w] = "complete" => (own'[w] = None <=> error'[w] # None) OBVIOUS
  <2>7. pc'[w] \in Holder /\ own'[w] # None =>
            rootOf'[own'[w]] = root'[w] /\ proc'[own'[w]] # "none"
    BY DEF Holders
  <2> QED BY <2>1, <2>2, <2>3, <2>4, <2>5, <2>6, <2>7
<1>4. Holders' BY DEF TypeOK, Flights, Roles, RoleOf, Holders
<1>5. Closes' BY DEF TypeOK, Flights, Closes
<1>6. Counted' BY UsersKept DEF TypeOK, Roles, RoleOf
<1>7. LeaseBlocksStop' BY DEF TypeOK, LeaseBlocksStop, Closes
<1>8. CancelIsLocal' BY DEF TypeOK, Roles, RoleOf, CancelIsLocal, Error
<1> QED BY <1>1, <1>2, <1>3, <1>4, <1>5, <1>6, <1>7, <1>8

\* A new client is held by its start.
LEMMA SpawnKeeps == ASSUME IInv, NEW k \in Call, Spawn(k) PROVE IInv'
<1> USE DEF IInv
<1>a. pc[k] = "spawn" /\ own[k] = None /\ error[k] = None /\ root[k] \in Root
      /\ starts[root[k]] = k /\ table[root[k]] = None
  BY DEF Spawn, TypeOK, Flights, Roles, RoleOf
<1>b. /\ gone' = gone /\ root' = root
      /\ UNCHANGED <<manager, active, stopping, finished, halting, tasks, closer, events>>
  BY DEF Spawn
<1>c. ASSUME pc' = [pc EXCEPT ![k] = "complete"],
             error' = [error EXCEPT ![k] = "failed"],
             UNCHANGED <<own, rootOf, proc>>
      PROVE  IInv'
  <2> USE <1>a, <1>b, <1>c
  <2>1. TypeOK' BY DEF TypeOK, Location, Error
  <2>2. Flights' BY DEF TypeOK, Flights
  <2>3. Roles' BY DEF TypeOK, Roles, RoleOf, Error
  <2>4. Holders' BY DEF TypeOK, Holders
  <2>5. Closes' BY DEF Closes
  <2>6. Counted' BY UsersKept DEF TypeOK
  <2>7. LeaseBlocksStop' BY DEF LeaseBlocksStop
  <2>8. CancelIsLocal' BY DEF TypeOK, CancelIsLocal
  <2> QED BY <2>1, <2>2, <2>3, <2>4, <2>5, <2>6, <2>7, <2>8
<1>d. ASSUME NEW i \in Inst, proc[i] = "none",
             proc' = [proc EXCEPT ![i] = "alive"],
             rootOf' = [rootOf EXCEPT ![i] = root[k]],
             own' = [own EXCEPT ![k] = i],
             pc' = [pc EXCEPT ![k] = "init"], error' = error
      PROVE  IInv'
  <2> USE <1>a, <1>b, <1>d
  <2>1. TypeOK'
    <3>1. proc' \in [Inst -> {"none", "alive", "closed", "reported"}] BY DEF TypeOK
    <3>2. rootOf' \in [Inst -> Root \cup {None}] BY DEF TypeOK
    <3>3. own' \in [Call -> Inst \cup {None}] BY DEF TypeOK
    <3>4. pc' \in [Call -> Location] BY DEF TypeOK, Location
    <3> QED BY <3>1, <3>2, <3>3, <3>4 DEF TypeOK
  <2>2. Flights' BY DEF TypeOK, Flights
  <2>3. Roles'
    <3> SUFFICES ASSUME NEW w \in Call PROVE RoleOf(w)'
      BY DEF Roles
    <3>1. CASE w = k BY <3>1 DEF TypeOK, RoleOf
    <3>2. CASE w # k
      <4>1. RoleOf(w) BY DEF Roles
      <4>2. pc'[w] = pc[w] /\ own'[w] = own[w] BY <3>2 DEF TypeOK
      <4> QED BY <4>1, <4>2 DEF TypeOK, RoleOf
    <3> QED BY <3>1, <3>2
  <2>4. Holders'
    <3>1. ASSUME NEW r \in Root, table[r] # None
          PROVE  rootOf'[table[r]] = r /\ proc'[table[r]] # "none"
      BY <3>1 DEF TypeOK, Holders
    <3>2. ASSUME NEW j \in Inst, proc'[j] = "alive"
          PROVE  \/ rootOf'[j] \in Root /\ table[rootOf'[j]] = j
                 \/ \E w \in Call : own'[w] = j /\ pc'[w] \in Holder
      <4>1. CASE j = i BY <4>1 DEF TypeOK
      <4>2. CASE j # i
        <5>1. proc[j] = "alive" /\ rootOf'[j] = rootOf[j] BY <3>2, <4>2 DEF TypeOK
        <5>2. CASE rootOf[j] \in Root /\ table[rootOf[j]] = j BY <5>1, <5>2
        <5>3. ASSUME NEW w \in Call, own[w] = j, pc[w] \in Holder
              PROVE  own'[w] = j /\ pc'[w] \in Holder
          BY <5>3 DEF TypeOK
        <5> QED BY <5>1, <5>2, <5>3 DEF Holders
      <4> QED BY <4>1, <4>2
    <3> QED BY <3>1, <3>2 DEF Holders
  <2>5. Closes' BY DEF Closes
  <2>6. Counted' BY UsersKept DEF TypeOK
  <2>7. LeaseBlocksStop' BY DEF LeaseBlocksStop
  <2>8. CancelIsLocal' BY DEF CancelIsLocal
  <2> QED BY <2>1, <2>2, <2>3, <2>4, <2>5, <2>6, <2>7, <2>8
<1>e. CASE FailStart(k, "failed") /\ UNCHANGED <<rootOf, proc>>
  BY <1>a, <1>c, <1>e
<1>f. CASE ~(FailStart(k, "failed") /\ UNCHANGED <<rootOf, proc>>)
  <2> DEFINE i == CHOOSE j \in Unused : TRUE
  <2>1. Unused # {} BY <1>f DEF Spawn
  <2>2. i \in Inst /\ proc[i] = "none" BY <2>1 DEF Unused
  <2>3. /\ proc' = [proc EXCEPT ![i] = "alive"]
        /\ rootOf' = [rootOf EXCEPT ![i] = root[k]]
        /\ own' = [own EXCEPT ![k] = i]
        /\ pc' = [pc EXCEPT ![k] = "init"] /\ error' = error
    BY <1>f DEF Spawn
  <2> HIDE DEF i
  <2> QED BY <1>d, <2>2, <2>3
<1> QED BY <1>e, <1>f

\* A start that is initialized has its client still.
LEMMA InitializeKeeps == ASSUME IInv, NEW k \in Call, Initialize(k) PROVE IInv'
<1> USE DEF IInv, Initialize
<1>1. TypeOK' BY DEF TypeOK, Location, Error
<1>2. Flights' BY DEF TypeOK, Flights, Roles, RoleOf
<1>3. Roles'
  <2> SUFFICES ASSUME NEW w \in Call PROVE RoleOf(w)'
    BY DEF Roles
  <2> USE DEF TypeOK, Roles, RoleOf, Error
  <2>1. pc'[w] # "done" => root'[w] \in Root OBVIOUS
  <2>2. own'[w] # None => pc'[w] \in {"waitStop", "use"} \cup Evicter \cup Holder
    OBVIOUS
  <2>3. pc'[w] \in {"init", "abort", "use", "stop"} => own'[w] # None BY DEF Evictable, Running
  <2>4. error'[w] # None => pc'[w] \in {"abort", "complete", "done"} OBVIOUS
  <2>5. pc'[w] = "abort" => error'[w] # None OBVIOUS
  <2>6. pc'[w] = "complete" => (own'[w] = None <=> error'[w] # None) OBVIOUS
  <2>7. pc'[w] \in Holder /\ own'[w] # None =>
            rootOf'[own'[w]] = root'[w] /\ proc'[own'[w]] # "none"
    BY DEF Holders
  <2> QED BY <2>1, <2>2, <2>3, <2>4, <2>5, <2>6, <2>7
<1>4. Holders' BY DEF TypeOK, Flights, Roles, RoleOf, Holders
<1>5. Closes' BY DEF TypeOK, Flights, Closes
<1>6. Counted' BY UsersKept DEF TypeOK, Roles, RoleOf
<1>7. LeaseBlocksStop' BY DEF TypeOK, LeaseBlocksStop, Closes
<1>8. CancelIsLocal' BY DEF TypeOK, Roles, RoleOf, CancelIsLocal, Error
<1> QED BY <1>1, <1>2, <1>3, <1>4, <1>5, <1>6, <1>7, <1>8

\* A start gives its client up only when it is closed.
LEMMA AbortKeeps == ASSUME IInv, NEW k \in Call, Abort(k) PROVE IInv'
<1> USE DEF IInv, Abort
<1>1. TypeOK' BY DEF TypeOK, Location, Error
<1>2. Flights' BY DEF TypeOK, Flights, Roles, RoleOf
<1>3. Roles' BY DEF TypeOK, Flights, Roles, RoleOf, Holders
<1>4. Holders' BY DEF TypeOK, Flights, Roles, RoleOf, Holders
<1>5. Closes' BY DEF TypeOK, Flights, Closes
<1>6. Counted' BY UsersKept DEF TypeOK, Roles, RoleOf
<1>7. LeaseBlocksStop' BY DEF TypeOK, LeaseBlocksStop, Closes
<1>8. CancelIsLocal' BY DEF TypeOK, Roles, RoleOf, CancelIsLocal, Error
<1> QED BY <1>1, <1>2, <1>3, <1>4, <1>5, <1>6, <1>7, <1>8

\* A finished start hands its client to the table, where there is none.
LEMMA CompleteStartKeeps == ASSUME IInv, NEW k \in Call, CompleteStart(k) PROVE IInv'
<1> DEFINE r == root[k]
           i == own[k]
           e == error[k]
           waiting == {w \in Call : pc[w] = "waitStart" /\ root[w] = r}
           others == {w \in Call : w # k /\ w \notin waiting}
<1> USE DEF IInv
<1>a. /\ r \in Root /\ starts[r] = k /\ table[r] = None /\ pc[k] = "complete"
      /\ i # None => e = None /\ i \in Inst /\ rootOf[i] = r /\ proc[i] # "none"
      /\ i = None => e # None
      /\ e \in {None, "cancelled", "failed"}
  BY DEF CompleteStart, TypeOK, Flights, Roles, RoleOf, Error
<1>b. PICK ended \in SUBSET (waiting \cup {k}) :
          /\ k \in ended <=> e # None
          /\ e = "cancelled" => ended = {k}
          /\ table' = IF e = None THEN [table EXCEPT ![r] = i] ELSE table
          /\ tasks' = tasks \/ (e = None /\ tasks' = tasks \cup {i})
          /\ starts' = [starts EXCEPT ![r] = None]
          /\ pc' = Wake([w \in Call |->
                CASE w \in ended -> "done"
                  [] w \in (waiting \cup {k}) \ ended ->
                        IF e = None /\ ~Closed(i) THEN "lease" ELSE "acquire"
                  [] OTHER -> pc[w]])
          /\ error' = [w \in Call |-> IF w \notin ended THEN error[w]
                                      ELSE IF e = None THEN "failed" ELSE e]
          /\ root' = [w \in Call |-> IF w \in ended THEN None ELSE root[w]]
  <2>1. PICK strangers \in SUBSET (IF e = None /\ ~Closed(i) THEN waiting ELSE {}) :
          LET ended == IF e = None THEN strangers
                       ELSE {k} \cup (IF Shared(e) THEN waiting ELSE {})
          IN  /\ table' = IF e = None THEN [table EXCEPT ![r] = i] ELSE table
              /\ tasks' = IF e = None /\ closing THEN tasks \cup {i} ELSE tasks
              /\ starts' = [starts EXCEPT ![r] = IF @ = k THEN None ELSE @]
              /\ pc' = Wake([w \in Call |->
                    CASE w \in ended -> "done"
                      [] w \in (waiting \cup {k}) \ ended ->
                            IF e = None /\ ~Closed(i) THEN "lease" ELSE "acquire"
                      [] OTHER -> pc[w]])
              /\ error' = [w \in Call |-> IF w \notin ended THEN error[w]
                                          ELSE IF e = None THEN "failed" ELSE e]
              /\ root' = [w \in Call |-> IF w \in ended THEN None ELSE root[w]]
    BY DEF CompleteStart
  <2> DEFINE ended == IF e = None THEN strangers
                      ELSE {k} \cup (IF Shared(e) THEN waiting ELSE {})
  <2>2. ended \in SUBSET (waiting \cup {k}) BY <2>1
  <2>3. k \in ended <=> e # None BY <1>a, <2>1
  <2>4. e = "cancelled" => ended = {k} BY <1>a DEF Shared, Error
  <2>5. starts' = [starts EXCEPT ![r] = None] BY <1>a, <2>1
  <2>6. tasks' = tasks \/ (e = None /\ tasks' = tasks \cup {i}) BY <2>1
  <2>7. table' = IF e = None THEN [table EXCEPT ![r] = i] ELSE table BY <2>1
  <2>8. pc' = Wake([w \in Call |->
            CASE w \in ended -> "done"
              [] w \in (waiting \cup {k}) \ ended ->
                    IF e = None /\ ~Closed(i) THEN "lease" ELSE "acquire"
              [] OTHER -> pc[w]])
    BY <2>1
  <2>9. /\ error' = [w \in Call |-> IF w \notin ended THEN error[w]
                                   ELSE IF e = None THEN "failed" ELSE e]
        /\ root' = [w \in Call |-> IF w \in ended THEN None ELSE root[w]]
    BY <2>1
  <2> HIDE DEF ended, waiting, r, i, e
  <2> QED BY <2>2, <2>3, <2>4, <2>5, <2>6, <2>7, <2>8, <2>9
<1>c. /\ own' = [own EXCEPT ![k] = None]
      /\ UNCHANGED <<closing, schema, prober, rootOf, proc, active, stopping,
                     finished, halting, gone, closer, events>>
  BY DEF CompleteStart
<1>d. /\ \A w \in ended : pc'[w] = "done" /\ root'[w] = None
      /\ \A w \in (waiting \cup {k}) \ ended :
             pc'[w] \in {"lease", "acquire"} /\ root'[w] = r /\ error'[w] = error[w]
      /\ \A w \in others : /\ root'[w] = root[w] /\ error'[w] = error[w]
                           /\ \/ pc'[w] = pc[w]
                              \/ pc[w] = "capWait" /\ pc'[w] = "capacity"
  BY <1>a, <1>b DEF Wake
<1>e. \A w \in Call : w \in ended \/ w \in (waiting \cup {k}) \ ended \/ w \in others
  OBVIOUS
<1>f. \A w \in waiting : pc[w] = "waitStart" /\ own[w] = None /\ error[w] = None
  BY DEF Roles, RoleOf
<1>g. \A w \in others : own'[w] = own[w] /\ w # k BY <1>c DEF TypeOK
<1>h. \A w \in waiting \cup {k} : own'[w] = None BY <1>c, <1>f DEF TypeOK
<1>i. \A w \in waiting \cup {k} : w \notin others BY DEF others
<1>j. ended \subseteq waiting \cup {k} BY <1>b
<1> HIDE DEF others
<1>1. TypeOK'
  <2>1. table' \in [Root -> Inst \cup {None}] BY <1>a, <1>b DEF TypeOK
  <2>2. starts' \in [Root -> Call \cup {None}] BY <1>b DEF TypeOK
  <2>3. tasks' \subseteq Inst BY <1>a, <1>b DEF TypeOK
  <2>4. pc' \in [Call -> Location]
    <3>1. \A w \in Call : pc'[w] \in Location BY <1>d, <1>e DEF TypeOK, Location
    <3>2. pc' = [w \in Call |-> pc'[w]] BY <1>b DEF Wake
    <3> QED BY <3>1, <3>2
  <2>5. root' \in [Call -> Root \cup {None}] BY <1>b DEF TypeOK
  <2>6. own' \in [Call -> Inst \cup {None}] BY <1>c DEF TypeOK
  <2>7. error' \in [Call -> Error \cup {None}] BY <1>a, <1>b DEF TypeOK, Error
  <2> QED BY <1>c, <2>1, <2>2, <2>3, <2>4, <2>5, <2>6, <2>7 DEF TypeOK
<1>2. Flights'
  <2>1. ASSUME NEW w \in Call, pc'[w] \in Starter
        PROVE  root'[w] \in Root /\ starts'[root'[w]] = w
    <3>1. w \in others BY <1>d, <1>e, <2>1
    <3>2. pc[w] \in Starter /\ root'[w] = root[w] BY <1>d, <2>1, <3>1
    <3>3. root[w] \in Root /\ starts[root[w]] = w BY <3>2 DEF Flights
    <3>4. root[w] # r BY <1>a, <1>g, <3>1, <3>3
    <3> QED BY <1>b, <3>2, <3>3, <3>4 DEF TypeOK
  <2>2. ASSUME NEW s \in Root, starts'[s] # None
        PROVE  /\ root'[starts'[s]] = s /\ pc'[starts'[s]] \in Starter \cup Evicter
               /\ table'[s] = None
    <3>1. s # r /\ starts'[s] = starts[s] BY <1>a, <1>b, <2>2 DEF TypeOK
    <3>2. starts[s] \in Call /\ root[starts[s]] = s /\ pc[starts[s]] \in Starter \cup Evicter
          /\ table[s] = None
      BY <2>2, <3>1 DEF TypeOK, Flights
    <3>3. starts[s] \in others BY <1>e, <1>f, <1>j, <3>1, <3>2
    <3>4. table'[s] = None BY <1>a, <1>b, <3>1, <3>2 DEF TypeOK
    <3> QED BY <1>d, <3>1, <3>2, <3>3, <3>4
  <2> QED BY <2>1, <2>2 DEF Flights
<1>3. Roles'
  <2> SUFFICES ASSUME NEW w \in Call PROVE RoleOf(w)'
    BY DEF Roles
  <2>1. CASE w \in others
    <3>1. RoleOf(w) BY DEF Roles
    <3>2. /\ own'[w] = own[w] /\ root'[w] = root[w] /\ error'[w] = error[w]
          /\ proc' = proc /\ rootOf' = rootOf
          /\ pc'[w] = pc[w] \/ (pc[w] = "capWait" /\ pc'[w] = "capacity")
      BY <1>c, <1>d, <1>g, <2>1
    <3> QED BY <3>1, <3>2 DEF RoleOf
  <2>2. CASE w \in ended
    BY <1>d, <1>h, <1>j, <2>2 DEF RoleOf
  <2>3. CASE w \in (waiting \cup {k}) \ ended
    <3>1. error'[w] = None BY <1>a, <1>b, <1>d, <1>f, <2>3
    <3> QED BY <1>a, <1>d, <1>h, <2>3, <3>1 DEF RoleOf
  <2> QED BY <1>e, <2>1, <2>2, <2>3
<1>4. Holders'
  <2>1. ASSUME NEW s \in Root, table'[s] # None
        PROVE  rootOf'[table'[s]] = s /\ proc'[table'[s]] # "none"
    BY <1>a, <1>b, <1>c, <2>1 DEF TypeOK, Holders
  <2>2. ASSUME NEW j \in Inst, proc'[j] = "alive"
        PROVE  \/ rootOf'[j] \in Root /\ table'[rootOf'[j]] = j
               \/ \E w \in Call : own'[w] = j /\ pc'[w] \in Holder
    <3>1. proc[j] = "alive" /\ rootOf' = rootOf BY <1>c, <2>2
    <3>2. CASE rootOf[j] \in Root /\ table[rootOf[j]] = j
      BY <1>a, <1>b, <3>1, <3>2 DEF TypeOK
    <3>3. ASSUME NEW w \in Call, own[w] = j, pc[w] \in Holder
          PROVE  \/ rootOf'[j] \in Root /\ table'[rootOf'[j]] = j
                 \/ own'[w] = j /\ pc'[w] \in Holder
      <4>1. CASE w = k
        BY <1>a, <1>b, <3>1, <3>3, <4>1 DEF TypeOK
      <4>2. CASE w # k
        <5>1. w \in others BY <1>e, <1>f, <1>j, <3>3, <4>2
        <5> QED BY <1>d, <1>g, <3>3, <5>1
      <4> QED BY <4>1, <4>2
    <3> QED BY <3>1, <3>2, <3>3 DEF Holders
  <2> QED BY <2>1, <2>2 DEF Holders
<1>5. Closes' BY <1>a, <1>b, <1>c DEF TypeOK, Closes
<1>6. Counted'
  <2>1. \A w \in Call : /\ pc'[w] = "use" <=> pc[w] = "use"
                        /\ pc[w] = "use" => own'[w] = own[w]
    BY <1>a, <1>d, <1>e, <1>f, <1>g, <1>j
  <2> QED BY <1>c, <2>1, UsersKept
<1>7. LeaseBlocksStop' BY <1>c DEF LeaseBlocksStop
<1>8. CancelIsLocal' BY <1>a, <1>b, <1>c DEF TypeOK, CancelIsLocal
<1> QED BY <1>1, <1>2, <1>3, <1>4, <1>5, <1>6, <1>7, <1>8

\* A cancellation only marks its call.
LEMMA CancelKeeps == ASSUME IInv, NEW k \in Call, Cancel(k) PROVE IInv'
<1> USE DEF IInv, Cancel
<1>1. TypeOK' BY BoundsAreNat DEF TypeOK, Location, Error
<1>2. Flights' BY DEF TypeOK, Flights, Roles, RoleOf
<1>3. Roles' BY DEF TypeOK, Flights, Roles, RoleOf, Holders
<1>4. Holders' BY DEF TypeOK, Flights, Roles, RoleOf, Holders
<1>5. Closes' BY DEF TypeOK, Flights, Closes
<1>6. Counted' BY UsersKept DEF TypeOK, Roles, RoleOf
<1>7. LeaseBlocksStop' BY DEF TypeOK, LeaseBlocksStop, Closes
<1>8. CancelIsLocal' BY DEF TypeOK, Roles, RoleOf, CancelIsLocal, Error
<1> QED BY <1>1, <1>2, <1>3, <1>4, <1>5, <1>6, <1>7, <1>8

\* A spawned task marks an instance that has no lease.
LEMMA TaskStopsKeeps == ASSUME IInv, NEW i \in Inst, TaskStops(i) PROVE IInv'
<1> USE DEF IInv, TaskStops, CanMark, Mark
<1>1. TypeOK'
  <2>1. table' \in [Root -> Inst \cup {None}] BY DEF TypeOK, Roles, RoleOf
  <2>2. starts' \in [Root -> Call \cup {None}] BY DEF TypeOK
  <2>3. /\ closing' \in BOOLEAN /\ schema' \in {"unknown", "ok", "bad"}
        /\ prober' \in Call \cup {None}
    BY DEF TypeOK
  <2>4. rootOf' \in [Inst -> Root \cup {None}] BY DEF TypeOK, Roles, RoleOf
  <2>5. proc' \in [Inst -> {"none", "alive", "closed", "reported"}] BY DEF TypeOK
  <2>6. active' \in [Inst -> Nat] BY DEF TypeOK
  <2>7. stopping' \subseteq Inst /\ finished' \subseteq Inst BY DEF TypeOK, Roles, RoleOf
  <2>8. halting' \subseteq stopping' BY DEF TypeOK
  <2>9. tasks' \subseteq Inst BY DEF TypeOK, Roles, RoleOf
  <2>10. pc' \in [Call -> Location] BY DEF TypeOK, Location
  <2>11. root' \in [Call -> Root \cup {None}] BY DEF TypeOK
  <2>12. own' \in [Call -> Inst \cup {None}] BY DEF TypeOK, Roles, RoleOf
  <2>13. error' \in [Call -> Error \cup {None}] BY DEF TypeOK, Error
  <2>14. /\ gone' \subseteq Call /\ halts' \in Inst \cup {None} /\ late' \in 0 .. 2
         /\ cpc' \in {"open", "starts", "walk", "stop", "stopWait", "closed", "left"}
         /\ events' \in 0 .. MaxEvents
    BY DEF TypeOK
  <2> QED BY <2>1, <2>2, <2>3, <2>4, <2>5, <2>6, <2>7, <2>8, <2>9, <2>10, <2>11,
      <2>12, <2>13, <2>14 DEF TypeOK
<1>2. Flights' BY DEF TypeOK, Flights, Roles, RoleOf
<1>3. Roles' BY DEF TypeOK, Flights, Roles, RoleOf, Holders
<1>4. Holders' BY DEF TypeOK, Flights, Roles, RoleOf, Holders
<1>5. Closes' BY DEF TypeOK, Flights, Closes
<1>6. Counted' BY UsersKept DEF TypeOK, Roles, RoleOf
<1>7. LeaseBlocksStop' BY DEF TypeOK, LeaseBlocksStop, Closes
<1>8. CancelIsLocal' BY DEF TypeOK, Roles, RoleOf, CancelIsLocal, Error
<1> QED BY <1>1, <1>2, <1>3, <1>4, <1>5, <1>6, <1>7, <1>8

\* An instance leaves the table only when its client is closed.
LEMMA StopDoneKeeps == ASSUME IInv, NEW i \in Inst, StopDone(i) PROVE IInv'
<1> USE DEF IInv, StopDone, Forget, Wake
<1>1. TypeOK'
  <2>1. table' \in [Root -> Inst \cup {None}] BY DEF TypeOK, Roles, RoleOf
  <2>2. starts' \in [Root -> Call \cup {None}] BY DEF TypeOK
  <2>3. /\ closing' \in BOOLEAN /\ schema' \in {"unknown", "ok", "bad"}
        /\ prober' \in Call \cup {None}
    BY DEF TypeOK
  <2>4. rootOf' \in [Inst -> Root \cup {None}] BY DEF TypeOK, Roles, RoleOf
  <2>5. proc' \in [Inst -> {"none", "alive", "closed", "reported"}] BY DEF TypeOK
  <2>6. active' \in [Inst -> Nat] BY DEF TypeOK
  <2>7. stopping' \subseteq Inst /\ finished' \subseteq Inst BY DEF TypeOK, Roles, RoleOf
  <2>8. halting' \subseteq stopping' BY DEF TypeOK
  <2>9. tasks' \subseteq Inst BY DEF TypeOK, Roles, RoleOf
  <2>10. pc' \in [Call -> Location] BY DEF TypeOK, Location
  <2>11. root' \in [Call -> Root \cup {None}] BY DEF TypeOK
  <2>12. own' \in [Call -> Inst \cup {None}] BY DEF TypeOK, Roles, RoleOf
  <2>13. error' \in [Call -> Error \cup {None}] BY DEF TypeOK, Error
  <2>14. /\ gone' \subseteq Call /\ halts' \in Inst \cup {None} /\ late' \in 0 .. 2
         /\ cpc' \in {"open", "starts", "walk", "stop", "stopWait", "closed", "left"}
         /\ events' \in 0 .. MaxEvents
    BY DEF TypeOK
  <2> QED BY <2>1, <2>2, <2>3, <2>4, <2>5, <2>6, <2>7, <2>8, <2>9, <2>10, <2>11,
      <2>12, <2>13, <2>14 DEF TypeOK
<1>2. Flights' BY DEF TypeOK, Flights, Roles, RoleOf
<1>3. Roles' BY DEF TypeOK, Flights, Roles, RoleOf, Holders
<1>4. Holders' BY DEF TypeOK, Flights, Roles, RoleOf, Holders
<1>5. Closes' BY DEF TypeOK, Flights, Closes
<1>6. Counted' BY UsersKept DEF TypeOK, Roles, RoleOf
<1>7. LeaseBlocksStop' BY DEF TypeOK, LeaseBlocksStop, Closes
<1>8. CancelIsLocal' BY DEF TypeOK, Roles, RoleOf, CancelIsLocal, Error
<1> QED BY <1>1, <1>2, <1>3, <1>4, <1>5, <1>6, <1>7, <1>8

\* A stop that takes too long leaves the instance where it is.
LEMMA StopTimesOutKeeps == ASSUME IInv, NEW i \in Inst, StopTimesOut(i) PROVE IInv'
<1> USE DEF IInv, StopTimesOut
<1>1. TypeOK' BY DEF TypeOK, Location, Error
<1>2. Flights' BY DEF TypeOK, Flights, Roles, RoleOf
<1>3. Roles' BY DEF TypeOK, Flights, Roles, RoleOf, Holders
<1>4. Holders' BY DEF TypeOK, Flights, Roles, RoleOf, Holders
<1>5. Closes' BY DEF TypeOK, Flights, Closes
<1>6. Counted' BY UsersKept DEF TypeOK, Roles, RoleOf
<1>7. LeaseBlocksStop' BY DEF TypeOK, LeaseBlocksStop, Closes
<1>8. CancelIsLocal' BY DEF TypeOK, Roles, RoleOf, CancelIsLocal, Error
<1> QED BY <1>1, <1>2, <1>3, <1>4, <1>5, <1>6, <1>7, <1>8

\* A client that closes is nobody's any more.
LEMMA ClientClosesKeeps == ASSUME IInv, NEW i \in Inst, ClientCloses(i) PROVE IInv'
<1> USE DEF IInv, ClientCloses, BeingShutDown
<1>1. TypeOK' BY BoundsAreNat DEF TypeOK, Location, Error
<1>2. Flights' BY DEF TypeOK, Flights, Roles, RoleOf
<1>3. Roles' BY DEF TypeOK, Flights, Roles, RoleOf, Holders
<1>4. Holders' BY DEF TypeOK, Flights, Roles, RoleOf, Holders
<1>5. Closes' BY DEF TypeOK, Flights, Closes
<1>6. Counted' BY UsersKept DEF TypeOK, Roles, RoleOf
<1>7. LeaseBlocksStop' BY DEF TypeOK, LeaseBlocksStop, Closes
<1>8. CancelIsLocal' BY DEF TypeOK, Roles, RoleOf, CancelIsLocal, Error
<1> QED BY <1>1, <1>2, <1>3, <1>4, <1>5, <1>6, <1>7, <1>8

\* The close handler removes its own instance only.
LEMMA CloseHandlerKeeps == ASSUME IInv, NEW i \in Inst, CloseHandler(i) PROVE IInv'
<1> USE DEF IInv, CloseHandler, Forget, Wake
<1>1. TypeOK'
  <2>1. table' \in [Root -> Inst \cup {None}] BY DEF TypeOK, Roles, RoleOf
  <2>2. starts' \in [Root -> Call \cup {None}] BY DEF TypeOK
  <2>3. /\ closing' \in BOOLEAN /\ schema' \in {"unknown", "ok", "bad"}
        /\ prober' \in Call \cup {None}
    BY DEF TypeOK
  <2>4. rootOf' \in [Inst -> Root \cup {None}] BY DEF TypeOK, Roles, RoleOf
  <2>5. proc' \in [Inst -> {"none", "alive", "closed", "reported"}] BY DEF TypeOK
  <2>6. active' \in [Inst -> Nat] BY DEF TypeOK
  <2>7. stopping' \subseteq Inst /\ finished' \subseteq Inst BY DEF TypeOK, Roles, RoleOf
  <2>8. halting' \subseteq stopping' BY DEF TypeOK
  <2>9. tasks' \subseteq Inst BY DEF TypeOK, Roles, RoleOf
  <2>10. pc' \in [Call -> Location] BY DEF TypeOK, Location
  <2>11. root' \in [Call -> Root \cup {None}] BY DEF TypeOK
  <2>12. own' \in [Call -> Inst \cup {None}] BY DEF TypeOK, Roles, RoleOf
  <2>13. error' \in [Call -> Error \cup {None}] BY DEF TypeOK, Error
  <2>14. /\ gone' \subseteq Call /\ halts' \in Inst \cup {None} /\ late' \in 0 .. 2
         /\ cpc' \in {"open", "starts", "walk", "stop", "stopWait", "closed", "left"}
         /\ events' \in 0 .. MaxEvents
    BY DEF TypeOK
  <2> QED BY <2>1, <2>2, <2>3, <2>4, <2>5, <2>6, <2>7, <2>8, <2>9, <2>10, <2>11,
      <2>12, <2>13, <2>14 DEF TypeOK
<1>2. Flights' BY DEF TypeOK, Flights, Roles, RoleOf
<1>3. Roles' BY DEF TypeOK, Flights, Roles, RoleOf, Holders
<1>4. Holders' BY DEF TypeOK, Flights, Roles, RoleOf, Holders
<1>5. Closes' BY DEF TypeOK, Flights, Closes
<1>6. Counted' BY UsersKept DEF TypeOK, Roles, RoleOf
<1>7. LeaseBlocksStop' BY DEF TypeOK, LeaseBlocksStop, Closes
<1>8. CancelIsLocal' BY DEF TypeOK, Roles, RoleOf, CancelIsLocal, Error
<1> QED BY <1>1, <1>2, <1>3, <1>4, <1>5, <1>6, <1>7, <1>8

\* The sweeper only asks for a stop.
LEMMA SweepIdleKeeps == ASSUME IInv, NEW i \in Inst, SweepIdle(i) PROVE IInv'
<1> USE DEF IInv, SweepIdle, Running
<1>1. TypeOK' BY BoundsAreNat DEF TypeOK, Location, Error
<1>2. Flights' BY DEF TypeOK, Flights, Roles, RoleOf
<1>3. Roles' BY DEF TypeOK, Flights, Roles, RoleOf, Holders
<1>4. Holders' BY DEF TypeOK, Flights, Roles, RoleOf, Holders
<1>5. Closes' BY DEF TypeOK, Flights, Closes
<1>6. Counted' BY UsersKept DEF TypeOK, Roles, RoleOf
<1>7. LeaseBlocksStop' BY DEF TypeOK, LeaseBlocksStop, Closes
<1>8. CancelIsLocal' BY DEF TypeOK, Roles, RoleOf, CancelIsLocal, Error
<1> QED BY <1>1, <1>2, <1>3, <1>4, <1>5, <1>6, <1>7, <1>8

\* close_all begins by closing the manager.
LEMMA CloseAllKeeps == ASSUME IInv, CloseAll PROVE IInv'
<1> USE DEF IInv, CloseAll, Wake
<1>1. TypeOK' BY DEF TypeOK, Location, Error
<1>2. Flights' BY DEF TypeOK, Flights, Roles, RoleOf
<1>3. Roles' BY DEF TypeOK, Flights, Roles, RoleOf, Holders
<1>4. Holders' BY DEF TypeOK, Flights, Roles, RoleOf, Holders
<1>5. Closes' BY DEF TypeOK, Flights, Closes
<1>6. Counted' BY UsersKept DEF TypeOK, Roles, RoleOf
<1>7. LeaseBlocksStop' BY DEF TypeOK, LeaseBlocksStop, Closes
<1>8. CancelIsLocal' BY DEF TypeOK, Roles, RoleOf, CancelIsLocal, Error
<1> QED BY <1>1, <1>2, <1>3, <1>4, <1>5, <1>6, <1>7, <1>8

\* close_all goes on when no start is left.
LEMMA CloseStartsKeeps == ASSUME IInv, CloseStarts PROVE IInv'
<1> USE DEF IInv, CloseStarts, Starting
<1>1. TypeOK' BY DEF TypeOK, Location, Error
<1>2. Flights' BY DEF TypeOK, Flights, Roles, RoleOf
<1>3. Roles' BY DEF TypeOK, Flights, Roles, RoleOf, Holders
<1>4. Holders' BY DEF TypeOK, Flights, Roles, RoleOf, Holders
<1>5. Closes' BY DEF TypeOK, Flights, Closes
<1>6. Counted' BY UsersKept DEF TypeOK, Roles, RoleOf
<1>7. LeaseBlocksStop' BY DEF TypeOK, LeaseBlocksStop, Closes
<1>8. CancelIsLocal' BY DEF TypeOK, Roles, RoleOf, CancelIsLocal, Error
<1> QED BY <1>1, <1>2, <1>3, <1>4, <1>5, <1>6, <1>7, <1>8

\* close_all marks a leased instance only when its time is over.
LEMMA CloseStopsKeeps == ASSUME IInv, NEW i \in Inst, CloseStops(i) PROVE IInv'
<1> USE DEF IInv, CloseStops, CanMark, Running
<1>1. TypeOK' BY DEF TypeOK, Location, Error
<1>2. Flights' BY DEF TypeOK, Flights, Roles, RoleOf
<1>3. Roles' BY DEF TypeOK, Flights, Roles, RoleOf, Holders
<1>4. Holders' BY DEF TypeOK, Flights, Roles, RoleOf, Holders
<1>5. Closes' BY DEF TypeOK, Flights, Closes
<1>6. Counted' BY UsersKept DEF TypeOK, Roles, RoleOf
<1>7. LeaseBlocksStop' BY DEF TypeOK, LeaseBlocksStop, Closes
<1>8. CancelIsLocal' BY DEF TypeOK, Roles, RoleOf, CancelIsLocal, Error
<1> QED BY <1>1, <1>2, <1>3, <1>4, <1>5, <1>6, <1>7, <1>8

\* close_all looks at the next instance.
LEMMA CloseStopReturnsKeeps == ASSUME IInv, CloseStopReturns PROVE IInv'
<1> USE DEF IInv, CloseStopReturns
<1>1. TypeOK' BY DEF TypeOK, Location, Error
<1>2. Flights' BY DEF TypeOK, Flights, Roles, RoleOf
<1>3. Roles' BY DEF TypeOK, Flights, Roles, RoleOf, Holders
<1>4. Holders' BY DEF TypeOK, Flights, Roles, RoleOf, Holders
<1>5. Closes' BY DEF TypeOK, Flights, Closes
<1>6. Counted' BY UsersKept DEF TypeOK, Roles, RoleOf
<1>7. LeaseBlocksStop' BY DEF TypeOK, LeaseBlocksStop, Closes
<1>8. CancelIsLocal' BY DEF TypeOK, Roles, RoleOf, CancelIsLocal, Error
<1> QED BY <1>1, <1>2, <1>3, <1>4, <1>5, <1>6, <1>7, <1>8

\* close_all reports that nothing remains when nothing does.
LEMMA CloseReturnsKeeps == ASSUME IInv, CloseReturns PROVE IInv'
<1> USE DEF IInv, CloseReturns
<1>1. TypeOK' BY DEF TypeOK, Location, Error
<1>2. Flights' BY DEF TypeOK, Flights, Roles, RoleOf
<1>3. Roles' BY DEF TypeOK, Flights, Roles, RoleOf, Holders
<1>4. Holders' BY DEF TypeOK, Flights, Roles, RoleOf, Holders
<1>5. Closes'
  <2>1. IsFiniteSet(Root) BY BoundsAreNat, FS_Interval DEF Root
  <2>2. IsFiniteSet(Running) /\ IsFiniteSet(Starting)
    BY <2>1, FS_Subset DEF Running, Starting
  <2>3. CASE Remaining = 0 /\ cpc' = "closed"
    <3>1. Cardinality(Running) = 0 /\ Cardinality(Starting) = 0
      BY <2>2, <2>3, FS_CardinalityType DEF Remaining
    <3>2. Running = {} /\ Starting = {} BY <2>2, <3>1, FS_EmptySet
    <3> QED BY <2>3, <3>2 DEF TypeOK, Closes, Running, Starting
  <2>4. CASE cpc' = "left" BY <2>4 DEF TypeOK, Closes
  <2> QED BY <2>3, <2>4
<1>6. Counted' BY UsersKept DEF TypeOK, Roles, RoleOf
<1>7. LeaseBlocksStop' BY DEF TypeOK, LeaseBlocksStop, Closes
<1>8. CancelIsLocal' BY DEF TypeOK, Roles, RoleOf, CancelIsLocal, Error
<1> QED BY <1>1, <1>2, <1>3, <1>4, <1>5, <1>6, <1>7, <1>8

\* The deadlines of close_all pass after it has begun.
LEMMA CloseLateKeeps == ASSUME IInv, CloseLate PROVE IInv'
<1> USE DEF IInv, CloseLate, Remaining
<1>1. TypeOK' BY DEF TypeOK, Location, Error
<1>2. Flights' BY DEF TypeOK, Flights, Roles, RoleOf
<1>3. Roles' BY DEF TypeOK, Flights, Roles, RoleOf, Holders
<1>4. Holders' BY DEF TypeOK, Flights, Roles, RoleOf, Holders
<1>5. Closes' BY DEF TypeOK, Flights, Closes
<1>6. Counted' BY UsersKept DEF TypeOK, Roles, RoleOf
<1>7. LeaseBlocksStop' BY DEF TypeOK, LeaseBlocksStop, Closes
<1>8. CancelIsLocal' BY DEF TypeOK, Roles, RoleOf, CancelIsLocal, Error
<1> QED BY <1>1, <1>2, <1>3, <1>4, <1>5, <1>6, <1>7, <1>8

-----------------------------------------------------------------------------
(* The invariant and what follows from it.                                 *)

\* Initially there is no instance and no start.
LEMMA InitHolds == ASSUME Init PROVE IInv
<1> USE DEF Init, IInv
<1>1. TypeOK
  <2>1. /\ table \in [Root -> Inst \cup {None}] /\ starts \in [Root -> Call \cup {None}]
        /\ rootOf \in [Inst -> Root \cup {None}] /\ active \in [Inst -> Nat]
        /\ proc \in [Inst -> {"none", "alive", "closed", "reported"}]
    OBVIOUS
  <2>2. /\ pc \in [Call -> Location] /\ root \in [Call -> Root \cup {None}]
        /\ own \in [Call -> Inst \cup {None}] /\ error \in [Call -> Error \cup {None}]
    BY DEF Location
  <2>3. /\ closing \in BOOLEAN /\ schema \in {"unknown", "ok", "bad"}
        /\ prober \in Call \cup {None} /\ halts \in Inst \cup {None}
        /\ cpc \in {"open", "starts", "walk", "stop", "stopWait", "closed", "left"}
    OBVIOUS
  <2>4. late \in 0 .. 2 /\ events \in 0 .. MaxEvents BY BoundsAreNat
  <2> QED BY <2>1, <2>2, <2>3, <2>4 DEF TypeOK
<1>2. Flights /\ Roles /\ Holders /\ Closes
  BY DEF Flights, Roles, RoleOf, Holders, Closes
<1>3. Counted
  <2>1. \A i \in Inst : Users(i) = {} BY DEF Users
  <2> QED BY <2>1, FS_EmptySet DEF Counted
<1>4. LeaseBlocksStop /\ CancelIsLocal BY DEF LeaseBlocksStop, CancelIsLocal, Error
<1> QED BY <1>1, <1>2, <1>3, <1>4

\* Every step keeps the inductive invariant.
LEMMA NextKeeps == ASSUME IInv, [Next]_vars PROVE IInv'
<1>1. CASE UNCHANGED vars
  <2> USE <1>1 DEF IInv
  <2>1. TypeOK' BY DEF TypeOK
  <2>2. Flights' /\ Closes' BY DEF Flights, Closes
  <2>3. Roles' BY DEF Roles, RoleOf
  <2>4. Holders' BY DEF Holders
  <2>5. Counted' BY UsersKept
  <2>6. LeaseBlocksStop' /\ CancelIsLocal' BY DEF LeaseBlocksStop, CancelIsLocal
  <2> QED BY <2>1, <2>2, <2>3, <2>4, <2>5, <2>6
<1>2. ASSUME NEW k \in Call, CallStep(k) \/ Cancel(k) PROVE IInv'
  BY <1>2, TryLeaseKeeps, ReleaseKeeps, AcquireKeeps, WaitTimesOutKeeps,
     SeesCancelKeeps, StopInstanceKeeps, StopReturnsKeeps, EnsureSchemaKeeps,
     ProbeDoneKeeps, EnsureCapacityKeeps, SpawnKeeps, InitializeKeeps,
     AbortKeeps, CompleteStartKeeps, CancelKeeps
  DEF CallStep
<1>3. ASSUME NEW i \in Inst,
             \/ TaskStops(i) \/ Shutdown(i) \/ ClientCloses(i)
             \/ CloseHandler(i) \/ SweepIdle(i) \/ CloseStops(i)
      PROVE  IInv'
  BY <1>3, TaskStopsKeeps, StopDoneKeeps, StopTimesOutKeeps, ClientClosesKeeps,
     CloseHandlerKeeps, SweepIdleKeeps, CloseStopsKeeps
  DEF Shutdown
<1>4. CASE CloseAll \/ CloseStarts \/ CloseStopReturns \/ CloseReturns \/ CloseLate
  BY <1>4, CloseAllKeeps, CloseStartsKeeps, CloseStopReturnsKeeps,
     CloseReturnsKeeps, CloseLateKeeps
<1>5. CASE Rest BY <1>1, <1>5 DEF Rest
<1> QED BY <1>1, <1>2, <1>3, <1>4, <1>5 DEF Next, Closing

\* The inductive invariant holds of every state.
LEMMA Invariance == Spec => []IInv
<1>1. Init => IInv BY InitHolds
<1>2. IInv /\ [Next]_vars => IInv' BY NextKeeps
<1> QED BY <1>1, <1>2, PTL DEF Spec

\* Types: the table, the flights, the instances and the calls keep their shape,
\* and no lease is given back that was not taken.
THEOREM TypesHold == Spec => []TypeOK
<1>1. IInv => TypeOK BY DEF IInv
<1> QED BY <1>1, Invariance, PTL

\* The invariant gives every open client exactly one holder.
LEMMA OwnedOnce == ASSUME IInv PROVE AnalyzersAreOwned
<1> USE DEF IInv, TypeOK
<1>1. OneAnalyzerPerRoot
  <2> SUFFICES ASSUME NEW i \in Inst, NEW j \in Inst, proc[i] = "alive",
                      proc[j] = "alive", rootOf[i] = rootOf[j]
               PROVE  i = j
    BY DEF OneAnalyzerPerRoot
  <2>1. ASSUME NEW x \in Inst, NEW k \in Call, own[k] = x, pc[k] \in Holder
        PROVE  rootOf[x] \in Root /\ starts[rootOf[x]] = k /\ table[rootOf[x]] = None
    <3>1. root[k] \in Root /\ starts[root[k]] = k BY <2>1 DEF Flights
    <3>2. rootOf[x] = root[k] BY <2>1 DEF Roles, RoleOf
    <3> QED BY <3>1, <3>2 DEF Flights
  <2>2. CASE /\ rootOf[i] \in Root /\ table[rootOf[i]] = i
             /\ rootOf[j] \in Root /\ table[rootOf[j]] = j
    BY <2>2
  <2>3. CASE \E k \in Call : own[k] = i /\ pc[k] \in Holder
    <3>1. PICK k \in Call : own[k] = i /\ pc[k] \in Holder BY <2>3
    <3>2. table[rootOf[j]] # j BY <2>1, <3>1
    <3>3. PICK w \in Call : own[w] = j /\ pc[w] \in Holder BY <3>2 DEF Holders
    <3> QED BY <2>1, <3>1, <3>3
  <2>4. CASE \E k \in Call : own[k] = j /\ pc[k] \in Holder
    <3>1. PICK k \in Call : own[k] = j /\ pc[k] \in Holder BY <2>4
    <3>2. table[rootOf[i]] # i BY <2>1, <3>1
    <3>3. PICK w \in Call : own[w] = i /\ pc[w] \in Holder BY <3>2 DEF Holders
    <3> QED BY <2>1, <3>1, <3>3
  <2> QED BY <2>2, <2>3, <2>4 DEF Holders
<1>2. CloseLeavesNothing
  <2> SUFFICES ASSUME cpc = "closed"
               PROVE  /\ \A i \in Inst : proc[i] # "alive"
                      /\ \A k \in Call : pc[k] \notin {"spawn", "init"}
    BY DEF CloseLeavesNothing
  <2>1. \A k \in Call : pc[k] \notin Starter BY DEF Closes, Flights
  <2> QED BY <2>1 DEF Closes, Holders
<1> QED BY <1>1, <1>2 DEF AnalyzersAreOwned

\* One analyzer to a root, and none once close_all has reported that nothing
\* remains: an open client is in the table or with the one start of its root,
\* whoever evicts, crashes, cancels or closes meanwhile (acquire_canonical,
\* complete_start, stop_marked_until, close_all).
THEOREM EveryAnalyzerIsOwned == Spec => []AnalyzersAreOwned
<1>1. IInv => AnalyzersAreOwned BY OwnedOnce
<1> QED BY <1>1, Invariance, PTL

\* A leased analyzer is stopped only by a close_all that has waited for it, and
\* only a call that was cancelled is told so, although starts and probes are
\* shared (try_lease, mark_stopping, complete_start, ensure_schema).
THEOREM CallsDoNotDisturb == Spec => []CallsAreApart
<1>1. IInv => CallsAreApart BY DEF IInv, CallsAreApart
<1> QED BY <1>1, Invariance, PTL

\* The counter that eviction, sweep and close look at is the number of calls
\* that use the instance, on every path of a lease (try_lease, the drop of a
\* lease).
THEOREM LeasesAreCounted == Spec => []Counted
<1>1. IInv => Counted BY DEF IInv
<1> QED BY <1>1, Invariance, PTL

=============================================================================
