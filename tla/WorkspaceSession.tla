-------------------------- MODULE WorkspaceSession --------------------------
(***************************************************************************)
(* How a tool call gets its workspace, and how long it may keep it         *)
(* (server/client_roots.rs, RootGuard in workspace/roots.rs, resolve_      *)
(* workspace and context_snapshot in server/handler.rs, MetadataService in *)
(* workspace/metadata.rs).                                                 *)
(*                                                                         *)
(* The client declares its roots and notifies the server when they change. *)
(* The coordinator asks for them once per epoch; all calls of the epoch    *)
(* share the answer.  A notification starts an epoch in three steps: the   *)
(* coordinator is reset under its lock, then the token of the old epoch is *)
(* cancelled, then the snapshot of the guard is dropped.  Calls of the old *)
(* epoch may be anywhere while that happens.                               *)
(*                                                                         *)
(* A call then acquires the cargo metadata of its package: one owner runs  *)
(* cargo per key, the others wait for it and share its result, and a       *)
(* result is cached when its inputs are still what they were.  A call with *)
(* a control has a deadline; the anchor explanation of handler.rs acquires *)
(* without one, and cargo may then run for as long as it likes.            *)
(***************************************************************************)
EXTENDS WorkspaceSelect

CONSTANTS
    Callers,         \* tool calls
    Uncontrolled,    \* those that acquire metadata without a control
    Cancellable,     \* those whose client may cancel them
    Unbounded,       \* those whose inputs may exceed the cache's limits
    Configured,      \* configured workspace roots
    RootSets,        \* what the client may declare
    Directories,     \* what a call may ask for
    MaxChanges,      \* changes of the client's roots
    MaxEdits,        \* edits of the inputs of cargo metadata
    Interrupted,     \* end of a flight whose owner was stopped
    Broken,          \* any other end without metadata
    None

VARIABLES
    supports,    \* the client has the roots capability
    declared,    \* the roots the client declares now
    notices,     \* change notifications on their way to the server
    changes,     \* changes made so far
    epoch,       \* RootEpochState.epoch
    cached,      \* RootEpochState.cached: None, or the answer of the epoch
    fetching,    \* RootEpochState.in_flight is set
    fetch,       \* the roots/list request of each epoch: None, Sent or its end
    toCancel,    \* epochs whose token is not yet cancelled by invalidate
    toGuard,     \* invalidations that have not reached the guard
    cancelled,   \* epochs whose token is cancelled
    guard,       \* RootGuard.client: epoch and normalised roots
    call,        \* the calls, see CallFields
    inputs,      \* versions of what cargo metadata reads: files and layout
    flights,     \* MetadataState.active: keys of flights with their owners
    result,      \* what the flight of an owner left for those who wait
    cache        \* MetadataState.cache

clientVars == <<supports, declared, notices, changes>>
coordVars == <<epoch, cached, fetching, fetch, toCancel, toGuard, cancelled>>
metaVars == <<flights, result, cache>>
vars == <<clientVars, coordVars, guard, call, inputs, metaVars>>

Epochs == 0..MaxChanges

(***************************************************************************)
(* An answer is the set of declared roots.  RootError::ClientRoots-        *)
(* Unavailable is the empty set: no root is granted either way.  A client  *)
(* without the capability restricts nothing, as if it declared the file    *)
(* system.  A request that has no answer yet is no set of paths: Sent.     *)
(***************************************************************************)
Unavailable == {}
Unsupported == {<<>>}
Sent == {NoPath}

\* What the constants stand for: paths are sequences of names, and the marks
\* for what is missing are none of the values they are compared with.
ConstantsAreSound ==
    /\ MaxChanges \in Nat /\ MaxEdits \in Nat
    /\ Tree \subseteq Seq(STRING) /\ Configured \subseteq Seq(STRING)
    /\ \A s \in RootSets : s \subseteq Seq(STRING) /\ s # Sent /\ s # None
    /\ None # Unavailable /\ None # Unsupported /\ None # Sent
    /\ None # Interrupted /\ None # Broken
    /\ \A a, b \in 0..MaxEdits : None # [files |-> a, layout |-> b]

ASSUME SessionAssumption == ConstantsAreSound

(***************************************************************************)
(* "idle"      not received         "looking"  about to lock the state     *)
(* "awaiting"  shares the fetch     "storing"  has the answer, no lock yet *)
(* "granting"  has its roots        "running"  has its workspace           *)
(* "keyed"     knows its key        "joined"   waits for another's flight  *)
(* "loading"   runs cargo           "checking" cargo has answered          *)
(* "direct"    runs cargo for itself alone     "done", "failed"            *)
(***************************************************************************)
Stages == {"idle", "looking", "awaiting", "storing", "granting", "running",
           "keyed", "joined", "loading", "checking", "direct", "done", "failed"}
Ended == {"done", "failed"}
Granted == {"running", "keyed", "joined", "loading", "checking", "direct"}

(***************************************************************************)
(* dir, work  what the call asks for and the directory it works in         *)
(* tok        the epoch whose token the call holds                         *)
(* roots, gep its roots and the epoch of the guard they were given under   *)
(* key, load  the key of its metadata; what its cargo has read, or the     *)
(*            owner of the flight it waits for                             *)
(* served     the metadata it got                                          *)
(* withdrawn  its own token, or the server's, is cancelled                 *)
(* told       its control says stop: its bridged token is cancelled, or    *)
(*            its deadline has passed                                      *)
(***************************************************************************)
Fresh == [pc |-> "idle", dir |-> NoPath, work |-> NoPath, tok |-> 0,
          roots |-> Unavailable, gep |-> 0, key |-> None, load |-> None,
          served |-> None, withdrawn |-> FALSE, told |-> FALSE]

Init ==
    /\ supports \in BOOLEAN
    /\ declared \in RootSets
    /\ notices = 0 /\ changes = 0
    /\ epoch = 0 /\ cached = None /\ fetching = FALSE
    /\ fetch = [e \in Epochs |-> None]
    /\ toCancel = {} /\ toGuard = 0 /\ cancelled = {}
    /\ guard = [epoch |-> 0, roots |-> None]
    /\ call = [r \in Callers |-> Fresh]
    /\ inputs = [files |-> 0, layout |-> 0] /\ cache = {} /\ flights = {}
    /\ result = [r \in Callers |-> None]

Stage(r) == call[r].pc
Goto(r, s) == call' = [call EXCEPT ![r].pc = s]

\* The call is over and answered; nothing of it is kept.
End(r, s) == call' = [call EXCEPT ![r] = [Fresh EXCEPT !.pc = s]]

-----------------------------------------------------------------------------
(* The client and the disk                                                 *)

\* The client declares other roots and sends roots/list_changed.
ChangeRoots ==
    /\ supports /\ changes < MaxChanges
    /\ \E s \in RootSets \ {declared} : declared' = s
    /\ notices' = notices + 1 /\ changes' = changes + 1
    /\ UNCHANGED <<supports, coordVars, guard, call, inputs, metaVars>>

FetchEnds(e, answer) ==
    /\ fetch[e] = Sent
    /\ fetch' = [fetch EXCEPT ![e] = answer]
    /\ UNCHANGED <<clientVars, epoch, cached, fetching, toCancel, toGuard,
                   cancelled, guard, call, inputs, metaVars>>

\* The client answers the roots/list request of an epoch.
ClientAnswers(e) == FetchEnds(e, declared)

\* fetch_client_roots fails: the request cannot be sent, times out, is
\* answered with an error or with a URI that is no file, or its epoch ends.
FetchFails(e) == FetchEnds(e, Unavailable)

\* The client cancels a call, or the server begins to shut down.
Withdraw(r) ==
    /\ r \in Cancellable /\ ~call[r].withdrawn
    /\ Stage(r) \notin {"idle"} \cup Ended
    /\ call' = [call EXCEPT ![r].withdrawn = TRUE]
    /\ UNCHANGED <<clientVars, coordVars, guard, inputs, metaVars>>

\* A manifest, the lock file or a cargo configuration changes, or a target
\* is added or removed.  Every version differs from all earlier ones.
Edit ==
    /\ inputs.files + inputs.layout < MaxEdits
    /\ \E part \in {"files", "layout"} : inputs' = [inputs EXCEPT ![part] = @ + 1]
    /\ UNCHANGED <<clientVars, coordVars, guard, call, metaVars>>

-----------------------------------------------------------------------------
(* ClientRootsCoordinator::invalidate                                      *)

\* Under the lock: the next epoch begins with nothing known.
InvalidateResets ==
    /\ notices > 0
    /\ notices' = notices - 1
    /\ epoch' = epoch + 1
    /\ cached' = None /\ fetching' = FALSE
    /\ toCancel' = toCancel \cup {epoch}
    /\ UNCHANGED <<supports, declared, changes, fetch, toGuard, cancelled,
                   guard, call, inputs, metaVars>>

\* The lock is released and the token of the old epoch cancelled.
InvalidateCancels(e) ==
    /\ e \in toCancel
    /\ toCancel' = toCancel \ {e}
    /\ cancelled' = cancelled \cup {e}
    /\ toGuard' = toGuard + 1
    /\ UNCHANGED <<clientVars, epoch, cached, fetching, fetch, guard, call,
                   inputs, metaVars>>

\* RootGuard::invalidate_client_roots.
InvalidateGuard ==
    /\ toGuard > 0
    /\ toGuard' = toGuard - 1
    /\ guard' = [epoch |-> guard.epoch + 1, roots |-> None]
    /\ UNCHANGED <<clientVars, epoch, cached, fetching, fetch, toCancel,
                   cancelled, call, inputs, metaVars>>

-----------------------------------------------------------------------------
(* ClientRootsCoordinator::resolve                                         *)

\* The handler of a call reaches resolve_workspace.
Receive(r) ==
    /\ Stage(r) = "idle"
    /\ \E d \in Directories :
           call' = [call EXCEPT ![r].pc = "looking", ![r].dir = d]
    /\ UNCHANGED <<clientVars, coordVars, guard, inputs, metaVars>>

\* The call goes on with the roots it was told, or fails without any.
TakeRoots(r, answer) ==
    IF answer = Unavailable THEN End(r, "failed")
    ELSE call' = [call EXCEPT ![r].pc = "granting", ![r].roots = answer,
                              ![r].tok = epoch]

\* client_roots, first critical section: the cached answer of the epoch, the
\* fetch in flight, or a fetch of one's own.
Lookup(r) ==
    /\ Stage(r) = "looking"
    /\ \/ /\ ~supports
          /\ TakeRoots(r, Unsupported)
          /\ UNCHANGED <<fetching, fetch>>
       \/ /\ supports /\ cached # None
          /\ TakeRoots(r, cached)
          /\ UNCHANGED <<fetching, fetch>>
       \/ /\ supports /\ cached = None
          /\ fetching' = TRUE
          /\ fetch' = IF fetching THEN fetch ELSE [fetch EXCEPT ![epoch] = Sent]
          /\ call' = [call EXCEPT ![r].pc = "awaiting", ![r].tok = epoch]
    /\ UNCHANGED <<clientVars, epoch, cached, toCancel, toGuard, cancelled,
                   guard, inputs, metaVars>>

\* The shared fetch is ready, or the call is cancelled while it waits.
Await(r) ==
    /\ Stage(r) = "awaiting"
    /\ \/ fetch[call[r].tok] \notin {None, Sent} /\ Goto(r, "storing")
       \/ call[r].withdrawn /\ End(r, "failed")
    /\ UNCHANGED <<clientVars, coordVars, guard, inputs, metaVars>>

\* Mutant: the answer is cached whatever the epoch has become.
Store_AnyEpoch(r) ==
    LET answer == fetch[call[r].tok]
    IN /\ Stage(r) = "storing"
       /\ fetching' = FALSE /\ cached' = answer
       /\ TakeRoots(r, answer)
       /\ UNCHANGED <<clientVars, epoch, fetch, toCancel, toGuard, cancelled,
                      guard, inputs, metaVars>>

\* client_roots, second critical section: an answer of a past epoch is
\* neither cached nor used.
Store(r) ==
    LET answer == fetch[call[r].tok]
    IN /\ Stage(r) = "storing"
       /\ IF epoch # call[r].tok
          THEN End(r, "failed") /\ UNCHANGED <<fetching, cached>>
          ELSE /\ fetching' = FALSE /\ cached' = answer
               /\ TakeRoots(r, answer)
       /\ UNCHANGED <<clientVars, epoch, fetch, toCancel, toGuard, cancelled,
                      guard, inputs, metaVars>>

Effective(c) == IntersectClientRoots(Configured, c)

\* RootGuard::snapshot: other roots than those of the last snapshot begin a
\* new epoch of the guard.  An empty intersection fails and changes nothing.
SnapshotGuard(c) ==
    IF Effective(c) = {} \/ guard.roots = c THEN guard
    ELSE [epoch |-> guard.epoch + 1, roots |-> c]

\* The rest of resolve: the snapshot, and the root of the requested directory.
Grant(r) ==
    LET chosen == SelectRoot(Effective(call[r].roots), call[r].dir)
    IN /\ Stage(r) = "granting"
       /\ guard' = SnapshotGuard(call[r].roots)
       /\ IF chosen.root = NoPath THEN End(r, "failed")
          ELSE call' = [call EXCEPT ![r].pc = "running",
                                    ![r].work = chosen.dir,
                                    ![r].gep = guard'.epoch]
       /\ UNCHANGED <<clientVars, coordVars, inputs, metaVars>>

\* The waiter of WorkspaceRequest::cancellation.
Bridge(r) ==
    /\ Stage(r) \in Granted /\ ~call[r].told
    /\ call[r].withdrawn \/ call[r].tok \in cancelled
    /\ call' = [call EXCEPT ![r].told = TRUE]
    /\ UNCHANGED <<clientVars, coordVars, guard, inputs, metaVars>>

\* The deadline of a control passes.  MetadataError::TimedOut is treated as
\* Cancelled wherever either may come up.
Expire(r) ==
    /\ r \notin Uncontrolled
    /\ Stage(r) \in Granted /\ ~call[r].told
    /\ call' = [call EXCEPT ![r].told = TRUE]
    /\ UNCHANGED <<clientVars, coordVars, guard, inputs, metaVars>>

\* A tool that needs no metadata, or has got it, answers.
Finish(r) ==
    /\ Stage(r) = "running"
    /\ End(r, "done")
    /\ UNCHANGED <<clientVars, coordVars, guard, inputs, metaVars>>

-----------------------------------------------------------------------------
(* MetadataService::acquire_inner                                          *)

\* MetadataControl::checkpoint.
Stopped(r) == r \notin Uncontrolled /\ call[r].told

\* cache_fingerprint_inner: the bytes of the manifests of the closure, of the
\* manifests and cargo configurations above the package, and of Cargo.lock.
FileInputs == inputs.files

\* hash_target_layout: which target files exist, not what is in them.
TargetLayout == inputs.layout

Fingerprint == [files |-> FileInputs, layout |-> TargetLayout]

KeyOf(r) == [package |-> call[r].work, epoch |-> call[r].gep, fp |-> Fingerprint]

\* check_epoch, preflight and fingerprint.  A checkpoint, an epoch that has
\* passed or a manifest that is blocked or missing ends it.
Prepare(r) ==
    /\ Stage(r) = "running" /\ call[r].served = None
    /\ IF Stopped(r) \/ guard.epoch # call[r].gep
       THEN End(r, "done")
       ELSE \/ End(r, "done")
            \/ call' = [call EXCEPT ![r].pc = "keyed", ![r].key = KeyOf(r)]
    /\ UNCHANGED <<clientVars, coordVars, guard, inputs, metaVars>>

\* The call has its metadata; its tool goes on.
Serve(r, content) ==
    call' = [call EXCEPT ![r].pc = "running", ![r].served = content]

\* Too many or too large inputs, or one that cannot be read, have no
\* fingerprint: cargo runs for this call alone and nothing is cached.
Bypass(r) ==
    /\ r \in Unbounded
    /\ Stage(r) = "running" /\ call[r].served = None
    /\ ~Stopped(r) /\ guard.epoch = call[r].gep
    /\ Goto(r, "direct")
    /\ UNCHANGED <<clientVars, coordVars, guard, inputs, metaVars>>

\* load_uncached returns to its caller: cargo has answered, or it fails, is
\* stopped or finds its epoch gone.
BypassEnds(r) ==
    /\ Stage(r) = "direct"
    /\ \/ End(r, "done")
       \/ ~Stopped(r) /\ guard.epoch = call[r].gep /\ Serve(r, inputs)
    /\ UNCHANGED <<clientVars, coordVars, guard, inputs, metaVars>>

\* One round of the loop: a hit, another's flight, or a flight of one's own.
Claim(r) ==
    LET k       == call[r].key
        hits    == {c \in cache : c.key = k}
        matching == {f \in flights : f.key = k}
    IN /\ Stage(r) = "keyed"
       /\ \/ /\ Stopped(r)
             /\ End(r, "done") /\ UNCHANGED flights
          \/ /\ ~Stopped(r) /\ hits # {}
             /\ \E c \in hits : Serve(r, c.content)
             /\ UNCHANGED flights
          \/ /\ ~Stopped(r) /\ hits = {} /\ matching # {}
             /\ \E f \in matching :
                   call' = [call EXCEPT ![r].pc = "joined", ![r].load = f.owner]
             /\ UNCHANGED flights
          \/ /\ ~Stopped(r) /\ hits = {} /\ matching = {}
             /\ flights' = flights \cup {[key |-> k, owner |-> r]}
             /\ Goto(r, "loading")
       /\ UNCHANGED <<clientVars, coordVars, guard, inputs, result, cache>>

\* wait_for_flight: a follower that is stopped gives up; an owner that was
\* cancelled or ran out of time leaves the flight to be claimed again; any
\* other end is shared.
Join(r) ==
    LET left == result[call[r].load]
    IN /\ Stage(r) = "joined"
       /\ \/ left = None /\ Stopped(r) /\ End(r, "done")
          \/ left = Interrupted /\ Goto(r, "keyed")
          \/ left = Broken /\ End(r, "done")
          \/ left \notin {None, Interrupted, Broken} /\ Serve(r, left)
       /\ UNCHANGED <<clientVars, coordVars, guard, inputs, metaVars>>

\* load_uncached: cargo reads the inputs and answers, or it fails.
RunCargo(r) ==
    /\ Stage(r) = "loading"
    /\ \E content \in {inputs, Broken} :
           call' = [call EXCEPT ![r].pc = "checking", ![r].load = content]
    /\ UNCHANGED <<clientVars, coordVars, guard, inputs, metaVars>>

\* Mutant: the fingerprint is not compared again.
Outcome_NoRecheck(r) ==
    IF Stopped(r) THEN Interrupted
    ELSE IF call[r].load = Broken \/ guard.epoch # call[r].gep THEN Broken
    ELSE call[r].load

\* What the owner leaves: stopped at a checkpoint or by the supervisor, an error of cargo, of the
\* epoch or of the inputs, or the metadata under its key.
Outcome(r) ==
    IF Stopped(r) THEN Interrupted
    ELSE IF \/ call[r].load = Broken \/ guard.epoch # call[r].gep
            \/ Fingerprint # call[r].key.fp
    THEN Broken
    ELSE call[r].load

\* Mutant: an owner that fails leaves its flight in the table.
Publish_LeavesFlight(r) ==
    /\ Stage(r) = "checking"
    /\ IF Outcome(r) \in {Interrupted, Broken}
       THEN End(r, "done") /\ UNCHANGED metaVars
       ELSE /\ flights' = {f \in flights : f.owner # r}
            /\ result' = [result EXCEPT ![r] = Outcome(r)]
            /\ cache' = cache \cup {[key |-> call[r].key, content |-> Outcome(r)]}
            /\ Serve(r, Outcome(r))
    /\ UNCHANGED <<clientVars, coordVars, guard, inputs>>

\* Under the lock: the flight leaves the table before anybody is woken.  The
\* comparison of the inputs happens just before, and nothing it depends on
\* is read again.
Publish(r) ==
    /\ Stage(r) = "checking"
    /\ flights' = {f \in flights : f.owner # r}
    /\ result' = [result EXCEPT ![r] = Outcome(r)]
    /\ IF Outcome(r) \in {Interrupted, Broken}
       THEN End(r, "done") /\ UNCHANGED cache
       ELSE /\ cache' = cache \cup {[key |-> call[r].key, content |-> Outcome(r)]}
            /\ Serve(r, Outcome(r))
    /\ UNCHANGED <<clientVars, coordVars, guard, inputs>>

-----------------------------------------------------------------------------
CallStep(r) ==
    \/ Lookup(r) \/ Await(r) \/ Store(r) \/ Grant(r) \/ Finish(r)
    \/ Prepare(r) \/ Bypass(r) \/ Claim(r) \/ Join(r) \/ Publish(r)

\* The run of cargo a call waits for ends.
CargoStep(r) == RunCargo(r) \/ BypassEnds(r)

\* Every call is answered and every notification handled.
Finished ==
    /\ \A r \in Callers : Stage(r) \in Ended
    /\ notices = 0 /\ toCancel = {} /\ toGuard = 0
    /\ UNCHANGED vars

Next ==
    \/ Finished
    \/ ChangeRoots \/ Edit \/ InvalidateResets \/ InvalidateGuard
    \/ \E e \in Epochs : ClientAnswers(e) \/ FetchFails(e) \/ InvalidateCancels(e)
    \/ \E r \in Callers : Receive(r) \/ Withdraw(r) \/ Bridge(r) \/ Expire(r)
                            \/ CallStep(r) \/ CargoStep(r)

(***************************************************************************)
(* Handlers, spawned tasks and the blocking pool run: every step of a call *)
(* that is possible is taken, a notification is handled to its end, the    *)
(* bridge wakes up, a deadline passes, and a roots/list request ends       *)
(* because the SDK gives it five seconds.  The client owes nothing: it     *)
(* need not change, cancel or answer.  Nor does cargo, unless its call is  *)
(* stopped: the supervisor then ends the run.                              *)
(***************************************************************************)
Fairness ==
    /\ \A r \in Callers : /\ WF_vars(CallStep(r)) /\ WF_vars(Bridge(r))
                          /\ WF_vars(Expire(r))
                          /\ WF_vars(Stopped(r) /\ CargoStep(r))
    /\ \A e \in Epochs : WF_vars(FetchFails(e)) /\ WF_vars(InvalidateCancels(e))
    /\ WF_vars(InvalidateResets) /\ WF_vars(InvalidateGuard)

Spec == Init /\ [][Next]_vars /\ Fairness

-----------------------------------------------------------------------------
(* Properties                                                              *)

\* The coordinator, the guard, the calls and the metadata keep their shape.
Answers == RootSets \cup {Unavailable, Unsupported}
Versions == [files : 0..MaxEdits, layout : 0..MaxEdits]
Places == Seq(STRING) \cup {NoPath}
Keys == [package : Places, epoch : Nat, fp : Versions]
CallFields ==
    [pc : Stages, dir : Directories \cup {NoPath}, work : Places, tok : Epochs,
     roots : Answers, gep : Nat, key : Keys \cup {None},
     load : Versions \cup Callers \cup {None, Broken},
     served : Versions \cup {None}, withdrawn : BOOLEAN, told : BOOLEAN]
TypeOK ==
    /\ supports \in BOOLEAN /\ declared \in RootSets
    /\ notices \in Nat /\ changes \in 0..MaxChanges
    /\ epoch \in Nat /\ fetching \in BOOLEAN
    /\ cached \in RootSets \cup {Unavailable, None}
    /\ fetch \in [Epochs -> RootSets \cup {Unavailable, Sent, None}]
    /\ toCancel \subseteq Epochs /\ cancelled \subseteq Epochs /\ toGuard \in Nat
    /\ guard \in [epoch : Nat, roots : Answers \cup {None}]
    /\ call \in [Callers -> CallFields]
    /\ inputs \in Versions
    /\ flights \subseteq [key : Keys, owner : Callers]
    /\ cache \subseteq [key : Keys, content : Versions]
    /\ result \in [Callers -> Versions \cup {Interrupted, Broken, None}]

\* No change of the roots is on its way through the server.
Settled == notices = 0 /\ toCancel = {} /\ toGuard = 0

(***************************************************************************)
(* A call that holds a workspace, and whose epoch is not cancelled, works  *)
(* in a directory the client declares now and the configuration allows: an *)
(* answer fetched before a change authorises nothing after it              *)
(* (client_roots.rs, the epoch comparison after the await, invalidate).    *)
(***************************************************************************)
GrantsAreCurrent ==
    Settled => \A r \in Callers :
        (Stage(r) \in Granted /\ call[r].tok \notin cancelled) =>
            /\ \E c \in Configured : Within(c, call[r].work)
            /\ supports => \E c \in declared : Within(c, call[r].work)

(***************************************************************************)
(* The epoch of the guard names one set of roots: two calls with the same  *)
(* epoch were given the same roots, which is what the caches and the work  *)
(* records keyed by it rely on (RootGuard::snapshot and invalidate).       *)
(***************************************************************************)
EpochNamesRoots ==
    \A r, q \in Callers :
        (Stage(r) \in Granted /\ Stage(q) \in Granted /\ call[r].gep = call[q].gep)
        => call[r].roots = call[q].roots

\* What a call may touch is what the client and the configuration allow now,
\* and what the guard's epoch says of it holds of every call of that epoch
\* (client_roots, invalidate, snapshot).
AuthorityIsCurrent == GrantsAreCurrent /\ EpochNamesRoots

(***************************************************************************)
(* Metadata a call gets - its own, another's or cached - was read from the *)
(* very inputs the call fingerprinted when it asked: no flight and no      *)
(* cache entry hands on what cargo read before or after (acquire_inner,    *)
(* the comparison before publication, hash_target_layout).                 *)
(***************************************************************************)
MetadataIsFresh ==
    \A r \in Callers : (call[r].served # None /\ call[r].key # None) =>
        call[r].served = call[r].key.fp

\* A call without a control whose cargo still runs, or that waits for the
\* flight of another such call: nothing in the server can end it.
HeldByCargo(r) ==
    /\ r \in Uncontrolled
    /\ \/ Stage(r) \in {"loading", "direct"}
       \/ /\ Stage(r) = "joined" /\ call[r].load \in Uncontrolled
          /\ Stage(call[r].load) = "loading"

(***************************************************************************)
(* Every call that is received ends, whoever it waits for, unless it runs  *)
(* cargo without a control and cargo itself does not end: an owner that is *)
(* cancelled or out of time does not take its followers with it, a         *)
(* follower with a control leaves an owner that never ends, and nobody     *)
(* waits for a flight that has ended (acquire_inner, wait_for_flight).     *)
(***************************************************************************)
EveryCallEnds ==
    <>[](\A r \in Callers : Stage(r) \in {"idle"} \cup Ended \/ HeldByCargo(r))
=============================================================================
