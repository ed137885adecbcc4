--------------------------- MODULE ServerAdmission ---------------------------
(***************************************************************************)
(* Admission of MCP tool calls, the bounded task table and the shutdown of *)
(* the server (server/admission.rs, server/tasks.rs, AppState in           *)
(* server/mod.rs and the check handler of server/handler.rs).              *)
(*                                                                         *)
(* A request takes an in-flight permit, looks at the shutdown flag,        *)
(* resolves its workspace and then either runs inline or is handed to the  *)
(* task manager as a task.  A task owns two permits: the in-flight permit  *)
(* of the call and a permit of the active-task semaphore.  Shutdown runs   *)
(* concurrently with all of that and in several steps.                     *)
(*                                                                         *)
(* The task manager itself is the RMCP SDK's: it is modelled from how the  *)
(* code uses it (an entry is visible from spawn until the SDK evicts it;   *)
(* the entry of an over-age task fails while its future may still run).    *)
(***************************************************************************)
EXTENDS Naturals, FiniteSets

CONSTANTS
    Requests,      \* the tool calls of one server lifetime
    MaxInFlight,   \* limits.max_in_flight_tools
    MaxActive,     \* limits.max_active_tasks
    MaxRetained    \* limits.max_retained_tasks

\* What Config::validate guarantees before AppState::new is reached.
ASSUME LimitsAssumption ==
    /\ MaxInFlight \in Nat \ {0}
    /\ MaxActive \in Nat \ {0}
    /\ MaxRetained \in Nat \ {0}
    /\ MaxActive <= MaxRetained

ASSUME RequestsAssumption == IsFiniteSet(Requests)

VARIABLES
    pc,            \* where the handler of each request is
    inFlight,      \* requests whose in-flight permit is held
    active,        \* requests whose active-task permit is held
    entry,         \* SDK task entry of a request
    future,        \* requests whose task future exists
    retained,      \* TaskState.retained (only its membership is observable)
    shuttingDown,  \* AppState.shutting_down
    closing,       \* AdmissionController.closing
    permitsClosed, \* the in-flight semaphore is closed
    token,         \* AppState.shutdown is cancelled
    closed,        \* TaskState.closed (and the active semaphore closed)
    sd             \* progress of shutdown_async

requestVars == <<pc, inFlight>>
taskVars == <<active, entry, future, retained, closed>>
shutdownVars == <<shuttingDown, closing, permitsClosed, token, sd>>
admissionVars == <<requestVars, taskVars, shutdownVars>>

(***************************************************************************)
(* "idle"      not received          "permitting" passed is_closing        *)
(* "admitted"  holds a permit        "resolving"  passed is_shutting_down  *)
(* "inline"    tool runs in the call "spawning"   about to spawn a task    *)
(* "spawned"   holds an active-task permit, about to lock TaskState        *)
(* "task"      answered with a task  "done" answered   "blocked" refused   *)
(***************************************************************************)
HandlerStages == {"idle", "permitting", "admitted", "resolving", "inline",
           "spawning", "spawned", "task", "done", "blocked"}

Entries == {"none", "working", "terminal", "evicted"}

ShutdownStages == {"up", "flagged", "begun", "closing", "drained", "down"}

AdmissionInit ==
    /\ pc = [r \in Requests |-> "idle"]
    /\ inFlight = {}
    /\ active = {}
    /\ entry = [r \in Requests |-> "none"]
    /\ future = {}
    /\ retained = {}
    /\ shuttingDown = FALSE
    /\ closing = FALSE
    /\ permitsClosed = FALSE
    /\ token = FALSE
    /\ closed = FALSE
    /\ sd = "up"

-----------------------------------------------------------------------------
(* The handler of a request                                                *)

\* AdmissionController::try_acquire reads the closing flag first.
TryAcquire(r) ==
    /\ pc[r] = "idle"
    /\ pc' = [pc EXCEPT ![r] = IF closing THEN "blocked" ELSE "permitting"]
    /\ UNCHANGED <<inFlight, taskVars, shutdownVars>>

\* try_acquire_owned: refused when the semaphore is closed or has no permit.
TakePermit(r) ==
    /\ pc[r] = "permitting"
    /\ IF permitsClosed \/ Cardinality(inFlight) >= MaxInFlight
       THEN /\ pc' = [pc EXCEPT ![r] = "blocked"]
            /\ UNCHANGED inFlight
       ELSE /\ pc' = [pc EXCEPT ![r] = "admitted"]
            /\ inFlight' = inFlight \cup {r}
    /\ UNCHANGED <<taskVars, shutdownVars>>

\* Mutant: the early return forgets that it holds a permit.
CheckShutdownKeepsPermit(r) ==
    /\ pc[r] = "admitted"
    /\ pc' = [pc EXCEPT ![r] = IF shuttingDown THEN "blocked" ELSE "resolving"]
    /\ UNCHANGED <<inFlight, taskVars, shutdownVars>>

\* The handler looks at shutting_down once more with the permit in hand.
CheckShutdown(r) ==
    /\ pc[r] = "admitted"
    /\ IF shuttingDown
       THEN /\ pc' = [pc EXCEPT ![r] = "blocked"]
            /\ inFlight' = inFlight \ {r}
       ELSE /\ pc' = [pc EXCEPT ![r] = "resolving"]
            /\ UNCHANGED inFlight
    /\ UNCHANGED <<taskVars, shutdownVars>>

\* resolve_workspace fails: an INCONCLUSIVE answer, the permit is dropped.
ResolveFails(r) ==
    /\ pc[r] = "resolving"
    /\ pc' = [pc EXCEPT ![r] = "done"]
    /\ inFlight' = inFlight \ {r}
    /\ UNCHANGED <<taskVars, shutdownVars>>

\* resolve_workspace succeeds; a client with the task capability gets a task.
Resolve(r) ==
    /\ pc[r] = "resolving"
    /\ \E mode \in {"inline", "spawning"} : pc' = [pc EXCEPT ![r] = mode]
    /\ UNCHANGED <<inFlight, taskVars, shutdownVars>>

InlineEnds(r) ==
    /\ pc[r] = "inline"
    /\ pc' = [pc EXCEPT ![r] = "done"]
    /\ inFlight' = inFlight \ {r}
    /\ UNCHANGED <<taskVars, shutdownVars>>

-----------------------------------------------------------------------------
(* TaskAdmission::spawn                                                    *)

\* The active-task permit is taken before TaskState is locked.  A refusal
\* drops make_future and with it the in-flight permit it captured.
SpawnPermit(r) ==
    /\ pc[r] = "spawning"
    /\ IF closed \/ Cardinality(active) >= MaxActive
       THEN /\ pc' = [pc EXCEPT ![r] = "blocked"]
            /\ inFlight' = inFlight \ {r}
            /\ UNCHANGED active
       ELSE /\ pc' = [pc EXCEPT ![r] = "spawned"]
            /\ active' = active \cup {r}
            /\ UNCHANGED inFlight
    /\ UNCHANGED <<entry, future, retained, closed, shutdownVars>>

\* sweep_retained keeps the ids the SDK still knows.
Swept(ids) == {t \in ids : entry[t] \in {"working", "terminal"}}

\* The rest of spawn, under the TaskState mutex.
Spawn(r) ==
    /\ pc[r] = "spawned"
    /\ IF closed \/ Cardinality(Swept(retained)) >= MaxRetained
       THEN /\ pc' = [pc EXCEPT ![r] = "blocked"]
            /\ inFlight' = inFlight \ {r}
            /\ active' = active \ {r}
            /\ retained' = IF closed THEN retained ELSE Swept(retained)
            /\ UNCHANGED <<entry, future>>
       ELSE /\ pc' = [pc EXCEPT ![r] = "task"]
            /\ entry' = [entry EXCEPT ![r] = "working"]
            /\ future' = future \cup {r}
            /\ retained' = Swept(retained) \cup {r}
            /\ UNCHANGED <<inFlight, active>>
    /\ UNCHANGED <<closed, shutdownVars>>

\* retained_count sweeps as well (the Debug output of the server calls it).
RetainedCount ==
    /\ retained' = Swept(retained)
    /\ retained' # retained
    /\ UNCHANGED <<requestVars, active, entry, future, closed, shutdownVars>>

-----------------------------------------------------------------------------
(* The SDK's task manager                                                  *)

\* The future returns (on its own or because it was cancelled) and is
\* dropped, which releases both permits; a live entry becomes terminal.
FutureEnds(r) ==
    /\ r \in future
    /\ future' = future \ {r}
    /\ active' = active \ {r}
    /\ inFlight' = inFlight \ {r}
    /\ entry' = [entry EXCEPT ![r] = IF @ = "working" THEN "terminal" ELSE @]
    /\ UNCHANGED <<pc, retained, closed, shutdownVars>>

\* The ttl of a running task passes: its entry fails, its future runs on.
EntryExpires(r) ==
    /\ entry[r] = "working"
    /\ entry' = [entry EXCEPT ![r] = "terminal"]
    /\ UNCHANGED <<requestVars, active, future, retained, closed, shutdownVars>>

EntryEvicted(r) ==
    /\ entry[r] = "terminal"
    /\ entry' = [entry EXCEPT ![r] = "evicted"]
    /\ UNCHANGED <<requestVars, active, future, retained, closed, shutdownVars>>

-----------------------------------------------------------------------------
(* Shutdown                                                                *)

\* begin_shutdown: the flag, then AdmissionController::close in two steps.
BeginShutdown ==
    /\ sd = "up"
    /\ sd' = "flagged"
    /\ shuttingDown' = TRUE
    /\ UNCHANGED <<requestVars, taskVars, closing, permitsClosed, token>>

CloseAdmission ==
    /\ sd = "flagged"
    /\ \/ /\ ~closing
          /\ closing' = TRUE
          /\ UNCHANGED <<permitsClosed, sd>>
       \/ /\ closing
          /\ permitsClosed' = TRUE
          /\ sd' = "begun"
          /\ UNCHANGED closing
    /\ UNCHANGED <<requestVars, taskVars, shuttingDown, token>>

\* Mutant: the worker starts without cancelling the token.
CancelTokenForgotten ==
    /\ sd = "begun"
    /\ sd' = "closing"
    /\ UNCHANGED <<requestVars, taskVars, shuttingDown, closing, permitsClosed, token>>

\* The first caller of shutdown_async cancels the token and starts the worker.
CancelToken ==
    /\ sd = "begun"
    /\ token' = TRUE
    /\ sd' = "closing"
    /\ UNCHANGED <<requestVars, taskVars, shuttingDown, closing, permitsClosed>>

\* The gate, the process supervisor and rust-analyzer have been closed.
ServicesClosed ==
    /\ sd = "closing"
    /\ sd' = "drained"
    /\ UNCHANGED <<requestVars, taskVars, shuttingDown, closing, permitsClosed, token>>

\* TaskAdmission::shutdown, under the TaskState mutex; the SDK stops every
\* task, whose futures are dropped afterwards by FutureEnds.
TasksShutdown ==
    /\ sd = "drained"
    /\ sd' = "down"
    /\ closed' = TRUE
    /\ entry' = [r \in Requests |-> IF entry[r] = "working" THEN "terminal" ELSE entry[r]]
    /\ retained' = {}
    /\ UNCHANGED <<requestVars, active, future, shuttingDown, closing, permitsClosed, token>>

-----------------------------------------------------------------------------

Handler(r) ==
    \/ TryAcquire(r) \/ TakePermit(r) \/ CheckShutdown(r)
    \/ ResolveFails(r) \/ Resolve(r)
    \/ SpawnPermit(r) \/ Spawn(r)

Shutdown == CloseAdmission \/ CancelToken \/ ServicesClosed \/ TasksShutdown

\* All calls answered, all futures gone, the server down: nothing is left.
AllAnswered ==
    /\ sd = "down"
    /\ future = {}
    /\ \A r \in Requests : pc[r] \in {"task", "done", "blocked"}
    /\ UNCHANGED admissionVars

AdmissionNext ==
    \/ \E r \in Requests :
          \/ Handler(r) \/ InlineEnds(r)
          \/ FutureEnds(r) \/ EntryExpires(r) \/ EntryEvicted(r)
    \/ RetainedCount
    \/ BeginShutdown
    \/ Shutdown
    \/ AllAnswered

(***************************************************************************)
(* Fairness.  Handlers and the shutdown worker are tokio tasks, which the  *)
(* runtime polls.  A running tool or task future is only promised to end   *)
(* once the shutdown token is cancelled: every tool future selects on it.  *)
(* Nobody promises that a shutdown begins, or that requests arrive.        *)
(***************************************************************************)
AdmissionFairness ==
    /\ \A r \in Requests :
          /\ WF_admissionVars(pc[r] # "idle" /\ Handler(r))
          /\ WF_admissionVars(token /\ InlineEnds(r))
          /\ WF_admissionVars(token /\ FutureEnds(r))
    /\ WF_admissionVars(Shutdown)

AdmissionSpec == AdmissionInit /\ [][AdmissionNext]_admissionVars /\ AdmissionFairness

-----------------------------------------------------------------------------
(* Properties                                                              *)

\* Every variable has its type.
AdmissionTypeOK ==
    /\ pc \in [Requests -> HandlerStages]
    /\ inFlight \subseteq Requests
    /\ active \subseteq Requests
    /\ entry \in [Requests -> Entries]
    /\ future \subseteq Requests
    /\ retained \subseteq Requests
    /\ shuttingDown \in BOOLEAN
    /\ closing \in BOOLEAN
    /\ permitsClosed \in BOOLEAN
    /\ token \in BOOLEAN
    /\ closed \in BOOLEAN
    /\ sd \in ShutdownStages

\* No permit leaks: an in-flight permit belongs to a handler that is still
\* working on the call or to a task future that exists, and an active-task
\* permit to a task being spawned or to a future that exists.  In particular
\* every refused spawn gives both permits back (tasks.rs, spawn).
NoPermitLeak ==
    /\ inFlight = future \cup
          {r \in Requests : pc[r] \in {"admitted", "resolving", "inline", "spawning", "spawned"}}
    /\ active = future \cup {r \in Requests : pc[r] = "spawned"}

Known == {r \in Requests : entry[r] \in {"working", "terminal"}}

\* The SDK never holds more task entries than max_retained_tasks, whatever
\* the order of spawns, expiries, evictions, sweeps and shutdown: the list of
\* retained ids covers the SDK's table until the table is shut down.
TaskTableBounded ==
    /\ Cardinality(Known) <= MaxRetained
    /\ Cardinality(active) <= MaxActive
    /\ ~closed => Known \subseteq retained

\* A shutdown drains the server, for good: every permit comes back, from calls
\* that were refused as well as from tools and tasks that were running, the
\* task table is shut down, and no call that was on its way to spawn takes a
\* permit again (shutdown_async; tasks.rs, spawn and shutdown).
ShutdownDrains ==
    shuttingDown ~> [](sd = "down" /\ inFlight = {} /\ active = {} /\ future = {})

=============================================================================
