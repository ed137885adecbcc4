----------------------------- MODULE LspManager -----------------------------
(***************************************************************************)
(* The manager of rust-analyzer instances: one per workspace root, started *)
(* on demand by the first of the calls that need it, leased while in use,  *)
(* evicted when others need the room, swept when idle, closed at shutdown. *)
(* (lsp/manager.rs; the process behind a client: lsp/client.rs)            *)
(*                                                                         *)
(* A step is what happens between two awaits, or under one hold of the     *)
(* lock of ManagerState.  Time is not modelled: a wait that has a deadline *)
(* may end by it at any moment, and of several idle instances any may be   *)
(* the least recently used.  Waiters of a flight get its result at once;   *)
(* the code stores it in the flight, where it does not change any more.    *)
(* The binary is taken to resolve.                                         *)
(***************************************************************************)
EXTENDS Integers, FiniteSets

CONSTANTS Call,         \* calls of with_client: each uses one instance once
          NRoots,       \* workspace roots, in the order of the BTreeMap
          MaxInstances, \* rust_analyzer.max_instances
          MaxSpawns,    \* bound on the processes ever spawned
          MaxEvents,    \* bound on cancellations, crashes and sweeps
          DenyCode,     \* workspace_code is Deny: the schema is probed first
          None

ASSUME BoundsAreNat == /\ NRoots \in Nat /\ MaxInstances \in Nat \ {0}
                       /\ MaxSpawns \in Nat /\ MaxEvents \in Nat
ASSUME DenyIsBool == DenyCode \in BOOLEAN
ASSUME CallsAreFinite == IsFiniteSet(Call)

Root == 1 .. NRoots
Inst == 1 .. MaxSpawns
\* ManagerError; Closing, WaitTimeout, Unavailable and the rest are not told apart.
Error == {"cancelled", "failed"}
ASSUME NoneIsNothing ==
    None \notin Call /\ None \notin Root /\ None \notin Inst /\ None \notin Error

VARIABLES \* ManagerState and ManagerInner
          table,    \* instances: the instance of a root, or None
          starts,   \* the call that owns the StartFlight of a root, or None
          closing,
          schema,   \* the cached result of the schema probe
          prober,   \* the call that owns the SchemaFlight, or None
          \* Instance and its client
          rootOf, proc, active, stopping, finished,
          halting,  \* instances that somebody is inside stop_marked_until for
          tasks,    \* instances that a spawned task is about to stop
          \* the calls; own is the instance a call leases, starts or stops
          pc, root, own, error, gone,
          \* close_all: where it is, the instance it stops, and how late it is
          \* (1: past the deadline of the leases, 2: past its own)
          cpc, halts, late,
          events

manager == <<table, starts, closing, schema, prober>>
inst == <<rootOf, proc, active, stopping, finished, halting, tasks>>
calls == <<pc, root, own, error, gone>>
closer == <<cpc, halts, late>>
vars == <<manager, inst, calls, closer, events>>

\* stop: about to mark the instance, halt: shutting it down, haltWait: waiting
\* for somebody else's stop of it
Location == {"lease", "acquire", "waitStop", "stop", "halt", "haltWait",
             "waitStart", "schema", "probe", "waitSchema", "capacity",
             "capWait", "spawn", "init", "abort", "complete", "use", "done"}

\* The state stays well formed; only a marked instance is being shut down.
TypeOK ==
    /\ table \in [Root -> Inst \cup {None}]
    /\ starts \in [Root -> Call \cup {None}]
    /\ closing \in BOOLEAN
    /\ schema \in {"unknown", "ok", "bad"}
    /\ prober \in Call \cup {None}
    /\ rootOf \in [Inst -> Root \cup {None}]
    /\ proc \in [Inst -> {"none", "alive", "closed", "reported"}]
    /\ active \in [Inst -> Nat]
    /\ stopping \subseteq Inst /\ finished \subseteq Inst
    /\ halting \subseteq stopping /\ tasks \subseteq Inst
    /\ pc \in [Call -> Location]
    /\ root \in [Call -> Root \cup {None}]
    /\ own \in [Call -> Inst \cup {None}]
    /\ error \in [Call -> Error \cup {None}]
    /\ gone \subseteq Call
    /\ cpc \in {"open", "starts", "walk", "stop", "stopWait", "closed", "left"}
    /\ halts \in Inst \cup {None} /\ late \in 0 .. 2
    /\ events \in 0 .. MaxEvents

Init ==
    /\ table = [r \in Root |-> None] /\ starts = [r \in Root |-> None]
    /\ closing = FALSE /\ schema = "unknown" /\ prober = None
    /\ rootOf = [i \in Inst |-> None] /\ proc = [i \in Inst |-> "none"]
    /\ active = [i \in Inst |-> 0]
    /\ stopping = {} /\ finished = {} /\ halting = {} /\ tasks = {}
    /\ pc = [k \in Call |-> "lease"] /\ root \in [Call -> Root]
    /\ own = [k \in Call |-> None] /\ error = [k \in Call |-> None]
    /\ gone = {}
    /\ cpc = "open" /\ halts = None /\ late = 0
    /\ events = 0

-----------------------------------------------------------------------------
(* Common parts.                                                           *)

Goto(k, p) == pc' = [pc EXCEPT ![k] = p]
Event == events < MaxEvents /\ events' = events + 1

\* availability.notify_waiters: everyone registers before looking at the state,
\* so whoever waits, or is about to, looks again.
Wake(p) == [k \in Call |-> IF p[k] = "capWait" THEN "capacity" ELSE p[k]]

\* LspClient::is_closed
Closed(i) == proc[i] # "alive"

\* The call returns.
Return(k, a) ==
    /\ Goto(k, "done")
    /\ error' = [error EXCEPT ![k] = a]
    /\ root' = [root EXCEPT ![k] = None] /\ own' = [own EXCEPT ![k] = None]
    /\ UNCHANGED gone

\* start_instance returns an error: a client that was spawned is shut down
\* first, then complete_start gets the error.
FailStart(k, e) ==
    /\ Goto(k, IF own[k] = None THEN "complete" ELSE "abort")
    /\ error' = [error EXCEPT ![k] = e]
    /\ UNCHANGED <<root, own, gone>>

-----------------------------------------------------------------------------
(* Taking a lease.                                                         *)

\* try_lease.  A lease that is given back at once because the token was
\* cancelled meanwhile is SeesCancel.
Leasable(i) == i # None /\ i \notin stopping /\ ~Closed(i)
TryLease(k) ==
    /\ pc[k] = "lease" /\ k \notin gone
    /\ LET i == table[root[k]]
       IN  \/ closing /\ Return(k, "failed") /\ UNCHANGED active
           \/ /\ ~closing /\ ~Leasable(i)
              /\ Goto(k, "acquire") /\ UNCHANGED <<active, root, own, error, gone>>
           \/ \* another directory may be at the root now
              /\ ~closing /\ Leasable(i)
              /\ \/ Return(k, "failed") /\ UNCHANGED active
                 \/ /\ active' = [active EXCEPT ![i] = @ + 1]
                    /\ own' = [own EXCEPT ![k] = i] /\ Goto(k, "use")
                    /\ UNCHANGED <<root, error, gone>>
    /\ UNCHANGED <<manager, rootOf, proc, stopping, finished, halting, tasks,
                   closer, events>>

\* The operation is over and the lease dropped.
Release(k) ==
    /\ pc[k] = "use"
    /\ active' = [active EXCEPT ![own[k]] = @ - 1]
    /\ pc' = Wake([pc EXCEPT ![k] = "done"])
    /\ root' = [root EXCEPT ![k] = None] /\ own' = [own EXCEPT ![k] = None]
    /\ UNCHANGED <<manager, rootOf, proc, stopping, finished, halting, tasks,
                   error, gone, closer, events>>

\* A start of the root is in flight.
InFlight(r) == starts[r] # None

\* acquire_canonical looks for the instance, the start or nothing.
Acquire(k) ==
    /\ pc[k] = "acquire" /\ k \notin gone
    /\ LET r == root[k] i == table[root[k]]
       IN  \/ /\ closing /\ Return(k, "failed") /\ UNCHANGED starts
           \/ /\ ~closing /\ i # None /\ (i \in stopping \/ Closed(i))
              /\ own' = [own EXCEPT ![k] = i]
              /\ Goto(k, IF i \in stopping THEN "waitStop" ELSE "stop")
              /\ UNCHANGED <<starts, root, error, gone>>
           \/ /\ ~closing /\ i # None /\ i \notin stopping /\ ~Closed(i)
              /\ \/ Return(k, "failed")
                 \/ Goto(k, "lease") /\ UNCHANGED <<root, own, error, gone>>
              /\ UNCHANGED starts
           \/ /\ ~closing /\ i = None /\ InFlight(r)
              /\ Goto(k, "waitStart")
              /\ UNCHANGED <<starts, root, own, error, gone>>
           \/ /\ ~closing /\ i = None /\ ~InFlight(r)
              /\ starts' = [starts EXCEPT ![r] = k]
              /\ Goto(k, IF DenyCode THEN "schema" ELSE "capacity")
              /\ UNCHANGED <<root, own, error, gone>>
    /\ UNCHANGED <<table, closing, schema, prober, inst, closer, events>>

\* A deadline of a wait passes.
WaitTimesOut(k) ==
    /\ \/ pc[k] \in {"waitStop", "waitStart"} /\ Return(k, "failed")
       \/ pc[k] \in {"waitSchema", "capWait"} /\ FailStart(k, "failed")
    /\ UNCHANGED <<manager, inst, closer, events>>

\* check_cancellation, or a select! on the token.
SeesCancel(k) ==
    /\ k \in gone
    /\ \/ /\ pc[k] \in {"lease", "acquire", "waitStop", "waitStart"}
          /\ Return(k, "cancelled")
       \/ /\ pc[k] \in {"schema", "waitSchema", "capacity", "capWait", "spawn",
                        "init"}
          /\ FailStart(k, "cancelled")
    /\ UNCHANGED <<manager, inst, closer, events>>

-----------------------------------------------------------------------------
(* Stopping an instance.                                                   *)

\* mark_stopping; the instance may have been leased, marked, replaced or
\* removed since it was looked up.
\* Mutant: the leases are not looked at again.
CanMark_Leased(i, force) == table[rootOf[i]] = i /\ i \notin stopping
CanMark(i, force) ==
    /\ table[rootOf[i]] = i /\ i \notin stopping
    /\ force \/ active[i] = 0
Mark(i) ==
    /\ stopping' = stopping \cup {i} /\ halting' = halting \cup {i}
    /\ UNCHANGED <<rootOf, proc, active, finished>>

\* stop_instance_until by a call that found a closed instance (acquire), or
\* that evicts one (ensure_capacity)
StopInstance(k) ==
    /\ pc[k] = "stop"
    /\ LET i == own[k]
       IN  \/ CanMark(i, FALSE) /\ Mark(i) /\ Goto(k, "halt")
           \/ ~CanMark(i, FALSE) /\ Goto(k, "haltWait")
              /\ UNCHANGED <<rootOf, proc, active, stopping, finished, halting>>
    /\ UNCHANGED <<manager, tasks, root, own, error, gone, closer, events>>

\* Its own stop is over, or it waits no longer for the other's (which it does
\* until a deadline); it looks again.
StopReturns(k) ==
    /\ \/ pc[k] = "halt" /\ own[k] \notin halting
       \/ pc[k] = "haltWait"
       \/ pc[k] = "waitStop" /\ own[k] \in finished
    /\ Goto(k, IF starts[root[k]] = k THEN "capacity" ELSE "acquire")
    /\ own' = [own EXCEPT ![k] = None]
    /\ UNCHANGED <<manager, inst, root, error, gone, closer, events>>

\* A task spawned by sweep_idle or complete_start begins to stop its instance.
TaskStops(i) ==
    /\ i \in tasks /\ tasks' = tasks \ {i}
    /\ \/ CanMark(i, FALSE) /\ Mark(i)
       \/ ~CanMark(i, FALSE)
          /\ UNCHANGED <<rootOf, proc, active, stopping, finished, halting>>
    /\ UNCHANGED <<manager, calls, closer, events>>

\* The instance leaves the table, if it is still the one of its root.
Forget(i) == table' = [table EXCEPT ![rootOf[i]] = IF @ = i THEN None ELSE @]

\* stop_marked_until: shutdown has returned with the process gone, or with the
\* client closed for good.
StopDone(i) ==
    /\ i \in halting /\ Closed(i)
    /\ Forget(i) /\ finished' = finished \cup {i} /\ halting' = halting \ {i}
    /\ pc' = Wake(pc)
    /\ UNCHANGED <<starts, closing, schema, prober, rootOf, proc, active,
                   stopping, tasks, root, own, error, gone, closer, events>>

\* The deadline of the stop passes: the instance stays, marked.
StopTimesOut(i) ==
    /\ i \in halting /\ halting' = halting \ {i}
    /\ UNCHANGED <<manager, rootOf, proc, active, stopping, finished, tasks,
                   calls, closer, events>>

-----------------------------------------------------------------------------
(* The start of an instance by the call that owns the flight.              *)

\* ensure_schema: the cache, an active probe, or a probe of its own
EnsureSchema(k) ==
    /\ pc[k] = "schema" /\ k \notin gone
    /\ \/ schema = "ok" /\ Goto(k, "capacity") /\ UNCHANGED <<prober, root, own, error, gone>>
       \/ schema = "bad" /\ FailStart(k, "failed") /\ UNCHANGED prober
       \/ /\ schema = "unknown" /\ prober # None /\ Goto(k, "waitSchema")
          /\ UNCHANGED <<prober, root, own, error, gone>>
       \/ /\ schema = "unknown" /\ prober = None /\ Goto(k, "probe")
          /\ prober' = k /\ UNCHANGED <<root, own, error, gone>>
    /\ UNCHANGED <<table, starts, closing, schema, inst, closer, events>>

\* Of the errors of a flight, those who wait for it share all but the owner's
\* cancellation, after which they try again.
Shared(e) == e # "cancelled"

\* The probe answers: everything but a cancellation is cached, and given to
\* those who wait.
ProbeDone(k) ==
    /\ pc[k] = "probe" /\ prober' = None
    /\ \E e \in {None, "failed"} \cup (IF k \in gone THEN {"cancelled"} ELSE {}) :
          LET waiting == {w \in Call : pc[w] = "waitSchema"}
              failed == IF e = None THEN {}
                        ELSE {k} \cup (IF Shared(e) THEN waiting ELSE {})
          IN  /\ schema' = CASE e = None -> "ok" [] e = "failed" -> "bad"
                             [] OTHER -> schema
              /\ pc' = [w \in Call |->
                    CASE w \in failed -> "complete"
                      [] w \in (waiting \cup {k}) \ failed ->
                            IF e = None THEN "capacity" ELSE "schema"
                      [] OTHER -> pc[w]]
              /\ error' = [w \in Call |-> IF w \in failed THEN e ELSE error[w]]
    /\ UNCHANGED <<table, starts, closing, inst, root, own, gone, closer, events>>

\* ensure_capacity: room is counted against every other instance and start;
\* while there is no instance, by the rank of the root among the starts.
Running == {r \in Root : table[r] # None}
Starting == {r \in Root : starts[r] # None}
HasRoom(r) ==
    \/ Cardinality(Running) + Cardinality(Starting) - 1 < MaxInstances
    \/ Running = {} /\ Cardinality({s \in Starting : s < r}) < MaxInstances
Evictable(r) == {i \in {table[s] : s \in Running \ {r}} :
                    active[i] = 0 /\ i \notin stopping}
EnsureCapacity(k) ==
    /\ pc[k] = "capacity" /\ k \notin gone
    /\ LET r == root[k]
       IN  \/ closing /\ FailStart(k, "failed")
           \/ /\ ~closing /\ HasRoom(r) /\ Goto(k, "spawn")
              /\ UNCHANGED <<root, own, error, gone>>
           \/ /\ ~closing /\ ~HasRoom(r)
              /\ \E i \in Evictable(r) : own' = [own EXCEPT ![k] = i]
              /\ Goto(k, "stop") /\ UNCHANGED <<root, error, gone>>
           \/ /\ ~closing /\ ~HasRoom(r) /\ Evictable(r) = {}
              /\ Goto(k, "capWait") /\ UNCHANGED <<root, own, error, gone>>
    /\ UNCHANGED <<manager, inst, closer, events>>

\* The factory spawns the process and the callbacks are set, or it fails.
Unused == {i \in Inst : proc[i] = "none"}
Spawn(k) ==
    /\ pc[k] = "spawn" /\ k \notin gone
    /\ \/ FailStart(k, "failed") /\ UNCHANGED <<rootOf, proc>>
       \/ /\ Unused # {}
          /\ LET i == CHOOSE j \in Unused : TRUE
             IN  /\ proc' = [proc EXCEPT ![i] = "alive"]
                 /\ rootOf' = [rootOf EXCEPT ![i] = root[k]]
                 /\ own' = [own EXCEPT ![k] = i]
          /\ Goto(k, "init") /\ UNCHANGED <<root, error, gone>>
    /\ UNCHANGED <<manager, active, stopping, finished, halting, tasks, closer,
                   events>>

\* initialize, document sync and initialized succeed, or one of them fails.
Initialize(k) ==
    /\ pc[k] = "init" /\ k \notin gone
    /\ \/ FailStart(k, "failed")
       \/ /\ ~Closed(own[k]) /\ Goto(k, "complete")
          /\ UNCHANGED <<root, own, error, gone>>
    /\ UNCHANGED <<manager, inst, closer, events>>

\* client.shutdown after a failure: it returns when the process is gone, or
\* has been given up.
Abort(k) ==
    /\ pc[k] = "abort" /\ Closed(own[k])
    /\ Goto(k, "complete") /\ own' = [own EXCEPT ![k] = None]
    /\ UNCHANGED <<manager, inst, root, error, gone, closer, events>>

\* complete_start, and what the owner and the waiters do with the result: a
\* waiter may find that the instance is of another directory.
CompleteStart(k) ==
    /\ pc[k] = "complete"
    /\ LET r == root[k]
           i == own[k]
           e == error[k]
           waiting == {w \in Call : pc[w] = "waitStart" /\ root[w] = r}
           usable == e = None /\ ~Closed(i)
       IN  \E strangers \in SUBSET (IF usable THEN waiting ELSE {}) :
             LET ended == IF e = None THEN strangers
                          ELSE {k} \cup (IF Shared(e) THEN waiting ELSE {})
             IN  /\ table' = IF e = None THEN [table EXCEPT ![r] = i] ELSE table
                 /\ tasks' = IF e = None /\ closing THEN tasks \cup {i} ELSE tasks
                 /\ starts' = [starts EXCEPT ![r] = IF @ = k THEN None ELSE @]
                 /\ pc' = Wake([w \in Call |->
                       CASE w \in ended -> "done"
                         [] w \in (waiting \cup {k}) \ ended ->
                               IF usable THEN "lease" ELSE "acquire"
                         [] OTHER -> pc[w]])
                 /\ error' = [w \in Call |-> IF w \notin ended THEN error[w]
                                              ELSE IF e = None THEN "failed" ELSE e]
                 /\ root' = [w \in Call |-> IF w \in ended THEN None ELSE root[w]]
                 /\ own' = [own EXCEPT ![k] = None]
    /\ UNCHANGED <<closing, schema, prober, rootOf, proc, active, stopping,
                   finished, halting, gone, closer, events>>

-----------------------------------------------------------------------------
(* The process behind a client.                                            *)

BeingShutDown(i) ==
    i \in halting \/ \E k \in Call : pc[k] = "abort" /\ own[k] = i

\* The client is closed: read_stdout or wait_for_child saw the end of a process
\* that crashed or was asked to end, or shutdown gave up on one that survives.
ClientCloses(i) ==
    /\ proc[i] = "alive"
    /\ Event \/ (BeingShutDown(i) /\ UNCHANGED events)
    /\ proc' = [proc EXCEPT ![i] = "closed"]
    /\ UNCHANGED <<manager, rootOf, active, stopping, finished, halting, tasks,
                   calls, closer>>

\* mark_process_exited: the close handler of the manager's callbacks.  It may
\* run before the instance is inserted; once the instance has left the table it
\* would find nothing, a step that is left out.
CloseHandler(i) ==
    /\ proc[i] = "closed" /\ proc' = [proc EXCEPT ![i] = "reported"]
    /\ \/ /\ table[rootOf[i]] = i /\ Forget(i)
          /\ finished' = finished \cup {i} /\ pc' = Wake(pc)
       \/ /\ \E k \in Call : own[k] = i /\ pc[k] \in {"init", "complete"}
          /\ UNCHANGED <<table, finished, pc>>
    /\ UNCHANGED <<starts, closing, schema, prober, rootOf, active, stopping,
                   halting, tasks, root, own, error, gone, closer, events>>

-----------------------------------------------------------------------------
(* sweep_idle, close_all, and cancellations.                               *)

SweepIdle(i) ==
    /\ ~closing /\ Event
    /\ i \in {table[r] : r \in Running} \ (stopping \cup tasks) /\ active[i] = 0
    /\ tasks' = tasks \cup {i}
    /\ UNCHANGED <<manager, rootOf, proc, active, stopping, finished, halting,
                   calls, closer>>

\* close_all begins.  In each turn of its loop it waits for the starts, walks
\* over the instances and counts what remains.  Here it may walk in any order,
\* and begin a turn without the notification the code waits for.
CloseAll ==
    /\ cpc = "open" /\ closing' = TRUE
    /\ pc' = Wake(pc) /\ cpc' = "starts"
    /\ UNCHANGED <<table, starts, schema, prober, inst, root, own, error, gone,
                   halts, late, events>>

\* The starts have ended, or its deadline has passed; no start begins any more.
CloseStarts ==
    /\ cpc = "starts" /\ (Starting = {} \/ late = 2) /\ cpc' = "walk"
    /\ UNCHANGED <<manager, inst, calls, halts, late, events>>

\* An instance is stopped if no lease is left or the time for leases is over.
\* Past the deadline it is marked, and stop_marked_until returns at once.
CloseStops(i) ==
    /\ cpc = "walk" /\ i \in {table[r] : r \in Running}
    /\ active[i] = 0 \/ late > 0
    /\ \/ /\ CanMark(i, late > 0) /\ cpc' = "stop"
          /\ stopping' = stopping \cup {i}
          /\ halting' = IF late = 2 THEN halting ELSE halting \cup {i}
       \/ /\ ~CanMark(i, late > 0) /\ cpc' = "stopWait"
          /\ UNCHANGED <<stopping, halting>>
    /\ halts' = i
    /\ UNCHANGED <<manager, rootOf, proc, active, finished, tasks, calls, late,
                   events>>

CloseStopReturns ==
    /\ \/ cpc = "stop" /\ halts \notin halting
       \/ cpc = "stopWait" /\ (halts \in finished \/ late = 2)
    /\ cpc' = "walk" /\ halts' = None
    /\ UNCHANGED <<manager, inst, calls, late, events>>

\* Nothing remains, or the deadline has passed.
\* Mutant: only the instances are counted.
Remaining_Instances == Cardinality(Running)
Remaining == Cardinality(Running) + Cardinality(Starting)
CloseReturns ==
    /\ cpc = "walk"
    /\ \/ Remaining = 0 /\ cpc' = "closed"
       \/ Remaining # 0 /\ late = 2 /\ cpc' = "left"
    /\ UNCHANGED <<manager, inst, calls, halts, late, events>>

\* Time passes for close_all while it waits, or looks at what remains.
CloseLate ==
    /\ \/ cpc \in {"starts", "stopWait"}
       \/ cpc = "walk" /\ Remaining # 0
    /\ late < 2 /\ late' = late + 1
    /\ UNCHANGED <<manager, inst, calls, cpc, halts, events>>

\* The token of the request of a call is cancelled.
Cancel(k) ==
    /\ pc[k] # "done" /\ k \notin gone /\ Event
    /\ gone' = gone \cup {k}
    /\ UNCHANGED <<manager, inst, pc, root, own, error, closer>>

CallStep(k) ==
    \/ TryLease(k) \/ Release(k) \/ Acquire(k) \/ WaitTimesOut(k)
    \/ SeesCancel(k) \/ StopInstance(k) \/ StopReturns(k) \/ EnsureSchema(k)
    \/ ProbeDone(k) \/ EnsureCapacity(k) \/ Spawn(k) \/ Initialize(k)
    \/ Abort(k) \/ CompleteStart(k)
Shutdown(i) == StopDone(i) \/ StopTimesOut(i)
Closing == \/ CloseStarts \/ CloseStopReturns \/ CloseReturns \/ CloseLate
           \/ \E i \in Inst : CloseStops(i)

\* Every call has returned and nothing is left to happen by itself.
Rest == /\ \A k \in Call : pc[k] = "done"
        /\ cpc \in {"closed", "left"}
        /\ UNCHANGED vars

Next ==
    \/ \E k \in Call : CallStep(k) \/ Cancel(k)
    \/ \E i \in Inst : \/ TaskStops(i) \/ Shutdown(i) \/ ClientCloses(i)
                       \/ CloseHandler(i) \/ SweepIdle(i)
    \/ CloseAll \/ Closing
    \/ Rest

Spec == Init /\ [][Next]_vars

-----------------------------------------------------------------------------
(* Properties.                                                             *)

\* An instance with a lease is never stopped (test
\* active_lease_blocks_eviction_until_request_finishes), except by close_all
\* when the time for leases is over.
LeaseBlocksStop ==
    \A i \in Inst : active[i] > 0 /\ i \in stopping => closing /\ late > 0

\* There are never two open clients of the same root, whoever starts, evicts,
\* crashes and restarts (test same_workspace_start_is_singleflight...).
OneAnalyzerPerRoot ==
    \A i, j \in Inst : proc[i] = "alive" /\ proc[j] = "alive" /\ i # j
                          => rootOf[i] # rootOf[j]

\* close_all reports that nothing remains only when no client is open and none
\* can be opened any more (test close_all_waits_for_initialize_and_does_not_leak...).
CloseLeavesNothing ==
    cpc = "closed" => /\ \A i \in Inst : proc[i] # "alive"
                      /\ \A k \in Call : pc[k] \notin {"spawn", "init"}

\* "A cancelled owner must not cancel an unrelated waiter": a call is told that
\* it was cancelled only if it was.
CancelIsLocal == \A k \in Call : error[k] = "cancelled" => k \in gone

\* No call loses its analyzer or its start to another: a leased instance is not
\* stopped, and a cancellation reaches the call that was cancelled only
\* (mark_stopping, select_or_start, the shared starts and probes).
CallsAreApart == LeaseBlocksStop /\ CancelIsLocal

\* Every analyzer is accounted for: one to a root while the manager is open, and
\* none, running or about to be spawned, once close_all has reported
\* (insert_instance, close_all).
AnalyzersAreOwned == OneAnalyzerPerRoot /\ CloseLeavesNothing

\* docs/tools.md: rust_analyzer.max_instances is the number of concurrent
\* workspace processes.
InstanceLimit ==
    Cardinality({i \in Inst : proc[i] = "alive"}) <= MaxInstances
=============================================================================
