---------------------------- MODULE ServerProofs ----------------------------
(***************************************************************************)
(* Proofs about what a call passes before its tool runs.                   *)
(*                                                                         *)
(* ServerAdmission: for every set of requests and every limit, the permits *)
(* of the server are never leaked and the task table never outgrows its    *)
(* limits.  WorkspaceSession: for any number of calls, roots, changes of   *)
(* the client's roots and edits of the inputs of cargo metadata, a call's  *)
(* authority is current and its metadata fresh.                            *)
(***************************************************************************)
EXTENDS ServerAdmission, WorkspaceSession, FiniteSetTheorems, TLAPS

-----------------------------------------------------------------------------
(* Admission, tasks and shutdown                                           *)

\* The lists the two semaphores and the sweep bound, and what the closed flag
\* is worth once TaskAdmission::shutdown has run.
Bounds ==
    /\ Cardinality(retained) <= MaxRetained
    /\ TaskTableBounded

AdmissionIInv ==
    /\ AdmissionTypeOK /\ NoPermitLeak /\ Bounds
    /\ \A r \in future : pc[r] = "task"

-----------------------------------------------------------------------------

\* Adding one element to a set that is below a bound keeps it within the
\* bound (a semaphore hands out one permit, spawn appends one id).
LEMMA AddOne ==
    ASSUME NEW S, NEW x, NEW k \in Nat, IsFiniteSet(S), ~(Cardinality(S) >= k)
    PROVE  Cardinality(S \cup {x}) <= k
  <1>1. Cardinality(S) \in Nat
    BY FS_CardinalityType
  <1>2. Cardinality(S \cup {x}) = IF x \in S THEN Cardinality(S) ELSE Cardinality(S) + 1
    BY FS_AddElement
  <1>. QED
    BY <1>1, <1>2

\* A subset of a bounded finite set is bounded.
LEMMA Smaller ==
    ASSUME NEW S, NEW T, NEW k \in Nat, IsFiniteSet(S), T \subseteq S, Cardinality(S) <= k
    PROVE  Cardinality(T) <= k
  <1>1. /\ IsFiniteSet(T)
        /\ Cardinality(T) <= Cardinality(S)
    BY FS_Subset
  <1>2. Cardinality(S) \in Nat /\ Cardinality(T) \in Nat
    BY <1>1, FS_CardinalityType
  <1>. QED
    BY <1>1, <1>2

\* Every set of requests the model talks about is finite.
LEMMA SetsFinite ==
    ASSUME NEW S, S \subseteq Requests
    PROVE  IsFiniteSet(S)
  BY FS_Subset, RequestsAssumption

-----------------------------------------------------------------------------

\* Initially no permit is held and no task exists.
LEMMA AdmissionBegins == AdmissionInit => AdmissionIInv
  <1>. SUFFICES ASSUME AdmissionInit PROVE AdmissionIInv
    OBVIOUS
  <1>1. AdmissionTypeOK
    BY DEF AdmissionInit, AdmissionTypeOK, HandlerStages, Entries, ShutdownStages
  <1>2. NoPermitLeak /\ \A r \in future : pc[r] = "task"
    BY DEF AdmissionInit, NoPermitLeak
  <1>3. Known = {} /\ retained = {} /\ active = {}
    BY DEF AdmissionInit, Known
  <1>4. Cardinality({}) = 0
    BY FS_EmptySet
  <1>5. Bounds
    BY <1>3, <1>4, LimitsAssumption DEF Bounds, TaskTableBounded
  <1>. QED
    BY <1>1, <1>2, <1>5 DEF AdmissionIInv

\* One step of the server preserves the types.
LEMMA StepTypeOK == AdmissionIInv /\ [AdmissionNext]_admissionVars => AdmissionTypeOK'
  <1>. SUFFICES ASSUME AdmissionIInv, [AdmissionNext]_admissionVars PROVE AdmissionTypeOK'
    OBVIOUS
  <1>. USE DEF AdmissionIInv, AdmissionTypeOK, HandlerStages, Entries, ShutdownStages, requestVars, taskVars, shutdownVars
  <1>1. ASSUME NEW r \in Requests, Handler(r) PROVE AdmissionTypeOK'
    <2>1. CASE TryAcquire(r) BY <2>1 DEF TryAcquire
    <2>2. CASE TakePermit(r) BY <2>2 DEF TakePermit
    <2>3. CASE CheckShutdown(r) BY <2>3 DEF CheckShutdown
    <2>4. CASE ResolveFails(r) BY <2>4 DEF ResolveFails
    <2>5. CASE Resolve(r) BY <2>5 DEF Resolve
    <2>6. CASE SpawnPermit(r) BY <2>6 DEF SpawnPermit
    <2>7. CASE Spawn(r) BY <2>7 DEF Spawn, Swept
    <2>. QED BY <1>1, <2>1, <2>2, <2>3, <2>4, <2>5, <2>6, <2>7 DEF Handler
  <1>2. ASSUME NEW r \in Requests, InlineEnds(r) PROVE AdmissionTypeOK'
    BY <1>2 DEF InlineEnds
  <1>3. ASSUME NEW r \in Requests, FutureEnds(r) PROVE AdmissionTypeOK'
    BY <1>3 DEF FutureEnds
  <1>4. ASSUME NEW r \in Requests, EntryExpires(r) PROVE AdmissionTypeOK'
    BY <1>4 DEF EntryExpires
  <1>5. ASSUME NEW r \in Requests, EntryEvicted(r) PROVE AdmissionTypeOK'
    BY <1>5 DEF EntryEvicted
  <1>6. CASE RetainedCount BY <1>6 DEF RetainedCount, Swept
  <1>7. CASE BeginShutdown BY <1>7 DEF BeginShutdown
  <1>8. CASE CloseAdmission BY <1>8 DEF CloseAdmission
  <1>9. CASE CancelToken BY <1>9 DEF CancelToken
  <1>10. CASE ServicesClosed BY <1>10 DEF ServicesClosed
  <1>11. CASE TasksShutdown BY <1>11 DEF TasksShutdown
  <1>12. CASE UNCHANGED admissionVars BY <1>12 DEF admissionVars
  <1>. QED
    BY <1>1, <1>2, <1>3, <1>4, <1>5, <1>6, <1>7, <1>8, <1>9, <1>10, <1>11, <1>12
    DEF AdmissionNext, Shutdown, AllAnswered

Owned == NoPermitLeak /\ \A r \in future : pc[r] = "task"

\* One step of the server keeps every permit with its owner.
LEMMA StepOwned == AdmissionIInv /\ [AdmissionNext]_admissionVars => Owned'
  <1>. SUFFICES ASSUME AdmissionIInv, [AdmissionNext]_admissionVars PROVE Owned'
    OBVIOUS
  <1>. USE DEF AdmissionIInv, AdmissionTypeOK, NoPermitLeak, Owned, HandlerStages, requestVars, taskVars, shutdownVars
  <1>1. ASSUME NEW r \in Requests, Handler(r) PROVE Owned'
    <2>1. CASE TryAcquire(r) BY <2>1 DEF TryAcquire
    <2>2. CASE TakePermit(r) BY <2>2 DEF TakePermit
    <2>3. CASE CheckShutdown(r) BY <2>3 DEF CheckShutdown
    <2>4. CASE ResolveFails(r) BY <2>4 DEF ResolveFails
    <2>5. CASE Resolve(r) BY <2>5 DEF Resolve
    <2>6. CASE SpawnPermit(r) BY <2>6 DEF SpawnPermit
    <2>7. CASE Spawn(r) BY <2>7 DEF Spawn
    <2>. QED BY <1>1, <2>1, <2>2, <2>3, <2>4, <2>5, <2>6, <2>7 DEF Handler
  <1>2. ASSUME NEW r \in Requests, InlineEnds(r) PROVE Owned'
    BY <1>2 DEF InlineEnds
  <1>3. ASSUME NEW r \in Requests, FutureEnds(r) PROVE Owned'
    BY <1>3 DEF FutureEnds
  <1>4. CASE UNCHANGED <<pc, inFlight, active, future>>
    BY <1>4
  <1>. QED
    BY <1>1, <1>2, <1>3, <1>4
    DEF AdmissionNext, admissionVars, Shutdown, AllAnswered, EntryExpires, EntryEvicted, RetainedCount, BeginShutdown,
        CloseAdmission, CancelToken, ServicesClosed, TasksShutdown

\* One step of the server keeps the task table within its limits.
LEMMA StepBounds == AdmissionIInv /\ [AdmissionNext]_admissionVars => Bounds'
  <1>. SUFFICES ASSUME AdmissionIInv, [AdmissionNext]_admissionVars PROVE Bounds'
    OBVIOUS
  <1>. USE DEF AdmissionIInv, AdmissionTypeOK, Bounds, TaskTableBounded, requestVars, taskVars, shutdownVars
  <1>a. /\ MaxRetained \in Nat /\ MaxActive \in Nat
        /\ IsFiniteSet(retained) /\ IsFiniteSet(active) /\ IsFiniteSet(Known)
        /\ IsFiniteSet(Swept(retained))
    BY LimitsAssumption, SetsFinite DEF Known, Swept
  <1>b. Cardinality({}) = 0
    BY FS_EmptySet
  <1>c. Cardinality(Swept(retained)) <= MaxRetained
    BY <1>a, Smaller DEF Swept
  <1>1. ASSUME NEW r \in Requests, SpawnPermit(r) PROVE Bounds'
    <2>1. Cardinality(active') <= MaxActive
      BY <1>1, <1>a, AddOne DEF SpawnPermit
    <2>. QED BY <1>1, <2>1 DEF SpawnPermit, Known
  <1>2. ASSUME NEW r \in Requests, Spawn(r) PROVE Bounds'
    <2>1. CASE closed \/ Cardinality(Swept(retained)) >= MaxRetained
      <3>1. /\ active' \subseteq active /\ UNCHANGED <<entry, closed>>
            /\ retained' = retained \/ retained' = Swept(retained)
            /\ ~closed => retained' = Swept(retained)
        BY <1>2, <2>1 DEF Spawn
      <3>2. Cardinality(active') <= MaxActive
        BY <3>1, <1>a, Smaller
      <3>3. Cardinality(retained') <= MaxRetained
        BY <3>1, <1>c
      <3>. QED BY <3>1, <3>2, <3>3 DEF Known, Swept
    <2>2. CASE ~(closed \/ Cardinality(Swept(retained)) >= MaxRetained)
      <3>1. /\ retained' = Swept(retained) \cup {r}
            /\ entry' = [entry EXCEPT ![r] = "working"]
            /\ UNCHANGED <<active, closed>>
        BY <1>2, <2>2 DEF Spawn
      <3>2. Cardinality(retained') <= MaxRetained
        BY <3>1, <2>2, <1>a, AddOne
      <3>3. Known' \subseteq retained'
        BY <3>1, <2>2 DEF Known, Swept
      <3>4. retained' \subseteq Requests
        BY <3>1 DEF Swept
      <3>5. Cardinality(Known') <= MaxRetained
        BY <3>2, <3>3, <3>4, <1>a, SetsFinite, Smaller
      <3>. QED BY <3>1, <3>2, <3>3, <3>5
    <2>. QED BY <2>1, <2>2
  <1>3. ASSUME NEW r \in Requests, FutureEnds(r) PROVE Bounds'
    <2>1. Known' = Known
      BY <1>3 DEF FutureEnds, Known
    <2>2. Cardinality(active') <= MaxActive
      BY <1>3, <1>a, Smaller DEF FutureEnds
    <2>. QED BY <1>3, <2>1, <2>2 DEF FutureEnds
  <1>4. ASSUME NEW r \in Requests, EntryExpires(r) PROVE Bounds'
    BY <1>4 DEF EntryExpires, Known
  <1>5. ASSUME NEW r \in Requests, EntryEvicted(r) PROVE Bounds'
    <2>1. Known' \subseteq Known
      BY <1>5 DEF EntryEvicted, Known
    <2>2. Cardinality(Known') <= MaxRetained
      BY <2>1, <1>a, Smaller
    <2>. QED BY <1>5, <2>1, <2>2 DEF EntryEvicted
  <1>6. CASE RetainedCount
    BY <1>6, <1>c DEF RetainedCount, Known, Swept
  <1>7. CASE TasksShutdown
    <2>1. Known' = Known
      BY <1>7 DEF TasksShutdown, Known
    <2>. QED BY <1>7, <1>b, <1>a, <2>1 DEF TasksShutdown
  <1>8. CASE UNCHANGED <<active, entry, retained, closed>>
    BY <1>8 DEF Known
  <1>. QED
    BY <1>1, <1>2, <1>3, <1>4, <1>5, <1>6, <1>7, <1>8
    DEF AdmissionNext, admissionVars, Shutdown, AllAnswered, Handler, TryAcquire, TakePermit, CheckShutdown, ResolveFails,
        Resolve, InlineEnds, BeginShutdown, CloseAdmission, CancelToken, ServicesClosed

-----------------------------------------------------------------------------

\* AdmissionIInv is an invariant of the server.
LEMMA AdmissionInvariance == AdmissionSpec => []AdmissionIInv
  <1>1. AdmissionIInv /\ [AdmissionNext]_admissionVars => AdmissionIInv'
    BY StepTypeOK, StepOwned, StepBounds DEF AdmissionIInv, Owned
  <1>. QED
    BY AdmissionBegins, <1>1, PTL DEF AdmissionSpec

\* No order of refusals, spawns, completions, expiries and shutdown steps
\* leaks an in-flight or an active-task permit, or releases one twice.
THEOREM PermitsNeverLeak == AdmissionSpec => []NoPermitLeak
  <1>1. AdmissionIInv => NoPermitLeak
    BY DEF AdmissionIInv
  <1>. QED
    BY AdmissionInvariance, <1>1, PTL

\* The SDK's task table and the active-task semaphore stay within the
\* configured limits, for every set of requests and every limit.
THEOREM TasksStayBounded == AdmissionSpec => []TaskTableBounded
  <1>1. AdmissionIInv => TaskTableBounded
    BY DEF AdmissionIInv, Bounds
  <1>. QED
    BY AdmissionInvariance, <1>1, PTL

\* Types are preserved.
THEOREM TypeCorrect == AdmissionSpec => []AdmissionTypeOK
  <1>1. AdmissionIInv => AdmissionTypeOK
    BY DEF AdmissionIInv
  <1>. QED
    BY AdmissionInvariance, <1>1, PTL

-----------------------------------------------------------------------------
(* Roots, workspaces and metadata                                          *)

\* An epoch begins with every notification that is handled.  All earlier ones
\* are cancelled or about to be, and nothing is known of a later one.  While no
\* notification is on its way, what is known of the epoch is what the client
\* declares now.
EpochKnown ==
    /\ epoch + notices = changes
    /\ \A e \in Epochs : e < epoch => e \in toCancel \cup cancelled
    /\ \A e \in Epochs : e > epoch => fetch[e] = None
    /\ cached = None /\ ~fetching => fetch[epoch] = None
    /\ notices = 0 => /\ fetch[epoch] \in {None, Sent, Unavailable, declared}
                      /\ cached \in {None, Unavailable, declared}

\* A call c holds the token of an epoch that has begun, stores only an answer,
\* and holds the roots the client declares unless its epoch is over.
Rooted(c) ==
    /\ c.tok <= epoch
    /\ c.pc = "storing" => fetch[c.tok] \notin {None, Sent}
    /\ c.pc \in {"granting"} \cup Granted /\ c.tok = epoch /\ notices = 0
           => c.roots = declared \/ ~supports
    /\ c.pc \in Granted => /\ c.work \in Seq(STRING)
                           /\ \E g \in Effective(c.roots) : Within(g, c.work)

\* The guard's epoch and roots are those of its latest snapshot.
Guarded(c) ==
    c.pc \in Granted => /\ c.gep <= guard.epoch
                        /\ c.gep = guard.epoch => guard.roots = c.roots

\* Versions only grow.
UpTo(v, w) == v.files <= w.files /\ v.layout <= w.layout

\* The key of a call is older than what it loads, and that older than the disk;
\* a follower's flight is in the table or has left a result for its key.
Keyed == {"keyed", "joined", "loading", "checking"}
Loaded(c) ==
    /\ c.pc \notin Keyed \cup {"running"} => c.key = None /\ c.served = None
    /\ c.pc = "running" /\ c.served = None => c.key = None
    /\ c.served # None /\ c.key # None => c.served = c.key.fp
    /\ c.pc \in Keyed => /\ c.key \in Keys /\ c.served = None
                         /\ UpTo(c.key.fp, inputs)
    /\ c.pc = "checking" /\ c.load # Broken =>
           /\ c.load \in Versions
           /\ UpTo(c.key.fp, c.load) /\ UpTo(c.load, inputs)
    /\ c.pc = "joined" =>
           /\ c.load \in Callers
           /\ \/ [key |-> c.key, owner |-> c.load] \in flights
              \/ result[c.load] \in {Interrupted, Broken, c.key.fp}

\* A flight is its owner's, an owner leaves one result, and the cache holds
\* under a key what was read from its inputs.
Flights == \A f \in flights : /\ call[f.owner].pc \in {"loading", "checking"}
                             /\ call[f.owner].key = f.key
Leaves(c) == c.pc \in Ended \/ (c.pc = "running" /\ c.served # None)
Results == \A r \in Callers : result[r] # None => Leaves(call[r])
Cached == \A c \in cache : c.content = c.key.fp

IInv == /\ TypeOK /\ EpochKnown /\ Flights /\ Results /\ Cached /\ EpochNamesRoots
        /\ \A r \in Callers : Rooted(call[r]) /\ Guarded(call[r]) /\ Loaded(call[r])

-----------------------------------------------------------------------------
(* Paths.                                                                  *)

\* A path is inside itself.
LEMMA WithinItself == ASSUME NEW p \in Seq(STRING) PROVE Within(p, p)
BY DEF Within, IsPrefix

\* What is inside a directory of a root is inside the root.
LEMMA WithinThrough ==
    ASSUME NEW a \in Seq(STRING), NEW b \in Seq(STRING), NEW c \in Seq(STRING),
           Within(a, b), Within(b, c)
    PROVE  Within(a, c)
<1>1. /\ Len(a) <= Len(b) /\ Len(b) <= Len(c)
      /\ Len(a) \in Nat /\ Len(b) \in Nat /\ Len(c) \in Nat
  BY DEF Within, IsPrefix
<1>2. \A i \in 1 .. Len(a) : a[i] = b[i]
  <2>1. SubSeq(a, 1, Len(a)) = SubSeq(b, 1, Len(a)) BY DEF Within, IsPrefix
  <2>2. \A i \in 1 .. Len(a) : SubSeq(a, 1, Len(a))[i] = a[i] BY <1>1
  <2>3. \A i \in 1 .. Len(a) : SubSeq(b, 1, Len(a))[i] = b[i] BY <1>1
  <2> QED BY <2>1, <2>2, <2>3
<1>3. \A i \in 1 .. Len(b) : b[i] = c[i]
  <2>1. SubSeq(b, 1, Len(b)) = SubSeq(c, 1, Len(b)) BY DEF Within, IsPrefix
  <2>2. \A i \in 1 .. Len(b) : SubSeq(b, 1, Len(b))[i] = b[i] BY <1>1
  <2>3. \A i \in 1 .. Len(b) : SubSeq(c, 1, Len(b))[i] = c[i] BY <1>1
  <2> QED BY <2>1, <2>2, <2>3
<1>4. \A i \in 1 .. Len(a) : a[i] = c[i] BY <1>1, <1>2, <1>3
<1>5. SubSeq(a, 1, Len(a)) = SubSeq(c, 1, Len(a))
  <2>1. SubSeq(a, 1, Len(a)) = [i \in 1 .. Len(a) |-> a[i]] BY <1>1
  <2>2. SubSeq(c, 1, Len(a)) = [i \in 1 .. Len(a) |-> c[i]] BY <1>1
  <2> QED BY <1>4, <2>1, <2>2
<1> QED BY <1>1, <1>5 DEF Within, IsPrefix

\* Whatever a client declares, a root it is given lies in a configured root and
\* in a root of the client (intersect_client_roots).
LEMMA GrantsLieInside ==
    ASSUME NEW configured, configured \subseteq Seq(STRING),
           NEW client, client \subseteq Seq(STRING)
    PROVE  /\ GrantsInside(configured, client)
           /\ IntersectClientRoots(configured, client) \subseteq Seq(STRING)
BY WithinItself DEF GrantsInside, IntersectClientRoots

\* The directory a call is given lies in one of the roots it was selected from,
\* and without a root there is none (RootSnapshot::select).
LEMMA SelectedInside ==
    ASSUME ConstantsAreSound, NEW roots, roots \subseteq Seq(STRING), NEW dir,
           SelectRoot(roots, dir).root # NoPath
    PROVE  /\ roots # {}
           /\ SelectRoot(roots, dir).dir \in Seq(STRING)
           /\ \E g \in roots : Within(g, SelectRoot(roots, dir).dir)
<1>1. CASE dir = NoPath /\ Cardinality(roots) = 1
  <2> DEFINE g == CHOOSE g \in roots : TRUE
  <2>1. roots # {} BY <1>1, FS_EmptySet
  <2>2. g \in roots BY <2>1
  <2>3. SelectRoot(roots, dir).dir = g BY <1>1 DEF SelectRoot
  <2>4. Within(g, g) BY <2>2, WithinItself
  <2> HIDE DEF g
  <2> QED BY <2>1, <2>2, <2>3, <2>4
<1>2. CASE dir = NoPath /\ Cardinality(roots) # 1
  BY <1>2 DEF SelectRoot
<1>3. CASE dir # NoPath
  <2> DEFINE holding == {g \in roots : Within(g, dir)}
  <2>1. holding # {} /\ dir \in Tree BY <1>3 DEF SelectRoot
  <2>2. SelectRoot(roots, dir).dir = dir BY <1>3, <2>1 DEF SelectRoot
  <2> QED BY <2>1, <2>2 DEF ConstantsAreSound
<1> QED BY <1>1, <1>2, <1>3

-----------------------------------------------------------------------------
(* Every step keeps the invariant.                                         *)

USE DEF clientVars, coordVars, metaVars, Epochs, Granted, Ended, Keyed

\* The fields of a call.
LEMMA CallTyped ==
    ASSUME TypeOK, NEW r \in Callers
    PROVE  /\ call[r] \in CallFields
           /\ call[r].pc \in Stages /\ call[r].dir \in Directories \cup {NoPath}
           /\ call[r].work \in Places /\ call[r].tok \in Epochs
           /\ call[r].roots \in Answers /\ call[r].gep \in Nat
           /\ call[r].key \in Keys \cup {None}
           /\ call[r].load \in Versions \cup Callers \cup {None, Broken}
           /\ call[r].served \in Versions \cup {None}
           /\ call[r].withdrawn \in BOOLEAN /\ call[r].told \in BOOLEAN
<1>1. call[r] \in CallFields BY DEF TypeOK
<1> QED BY <1>1 DEF CallFields

\* A call that has ended, or was not received, is a call.
LEMMA FreshTyped ==
    ASSUME ConstantsAreSound, NEW s \in Stages
    PROVE  Fresh \in CallFields /\ [Fresh EXCEPT !.pc = s] \in CallFields
<1>1. /\ 0 \in Epochs /\ Unavailable \in Answers /\ NoPath \in Places
      /\ "idle" \in Stages
  BY DEF ConstantsAreSound, Answers, Places, Stages
<1>2. Fresh \in CallFields BY <1>1 DEF Fresh, CallFields
<1> QED BY <1>2 DEF CallFields

\* A step of one call that leaves the rest alone: it is enough that the call
\* is all right afterwards, keeps its flight, and gets no new roots.
LEMMA CallMoves ==
    ASSUME ConstantsAreSound, IInv, NEW r \in Callers, NEW c \in CallFields,
           call' = [call EXCEPT ![r] = c],
           UNCHANGED <<clientVars, coordVars, guard, inputs, metaVars>>,
           Rooted(c), Guarded(c), Loaded(c),
           call[r].pc \in {"loading", "checking"} =>
               c.pc \in {"loading", "checking"} /\ c.key = call[r].key,
           Leaves(call[r]) => Leaves(c),
           c.pc \in Granted => /\ call[r].pc \in Granted
                               /\ c.gep = call[r].gep /\ c.roots = call[r].roots
    PROVE  IInv'
<1> USE DEF IInv
<1>0. \A x \in Callers : call'[x] = IF x = r THEN c ELSE call[x] BY DEF TypeOK
<1>1. TypeOK' BY DEF TypeOK
<1>2. EpochKnown' BY DEF EpochKnown
<1>3. Flights'
  <2>1. \A f \in flights : f.owner \in Callers BY DEF TypeOK
  <2> QED BY <1>0, <2>1 DEF Flights
<1>4. Results' BY <1>0 DEF Results, Leaves
<1>5. Cached' BY DEF Cached
<1>6. EpochNamesRoots' BY <1>0 DEF EpochNamesRoots, Stage
<1>7. ASSUME NEW x \in Callers
      PROVE  Rooted(call[x])' /\ Guarded(call[x])' /\ Loaded(call[x])'
  <2>1. Rooted(call[x])' BY <1>0 DEF Rooted
  <2>2. Guarded(call[x])' BY <1>0 DEF Guarded
  <2>3. Loaded(call[x])' BY <1>0 DEF Loaded
  <2> QED BY <2>1, <2>2, <2>3
<1> QED BY <1>1, <1>2, <1>3, <1>4, <1>5, <1>6, <1>7

\* A call that ends keeps nothing.
LEMMA EndMoves ==
    ASSUME ConstantsAreSound, IInv, NEW r \in Callers, NEW s \in Ended, End(r, s),
           call[r].pc \notin {"loading", "checking"},
           UNCHANGED <<clientVars, coordVars, guard, inputs, metaVars>>
    PROVE  IInv'
<1>1. PICK c : c = [Fresh EXCEPT !.pc = s] OBVIOUS
<1>2. c \in CallFields BY <1>1, FreshTyped DEF Stages
<1>3. c.pc = s /\ c.tok = 0 /\ c.key = None /\ c.served = None BY <1>1 DEF Fresh
<1>4. Rooted(c) /\ Guarded(c) /\ Loaded(c)
  BY <1>3 DEF Rooted, Guarded, Loaded, IInv, TypeOK
<1>5. Leaves(c) BY <1>3 DEF Leaves
<1> QED BY <1>1, <1>2, <1>3, <1>4, <1>5, CallMoves DEF End

\* Other roots are declared only together with a notification.
LEMMA ChangeRootsKeeps ==
    ASSUME ConstantsAreSound, IInv, ChangeRoots PROVE IInv'
<1> USE DEF IInv, ChangeRoots
<1>1. TypeOK'
  <2>1. declared' \in RootSets OBVIOUS
  <2>2. notices' \in Nat /\ changes' \in 0..MaxChanges
    BY DEF TypeOK, ConstantsAreSound
  <2> QED BY <2>1, <2>2 DEF TypeOK
<1>2. EpochKnown' BY DEF EpochKnown, TypeOK
<1>3. Flights' /\ Results' /\ Cached' BY DEF Flights, Results, Cached, Leaves
<1>4. EpochNamesRoots' BY DEF EpochNamesRoots, Stage
<1>5. ASSUME NEW x \in Callers
      PROVE  Rooted(call[x])' /\ Guarded(call[x])' /\ Loaded(call[x])'
  BY <1>5 DEF Rooted, Guarded, Loaded, TypeOK
<1> QED BY <1>1, <1>2, <1>3, <1>4, <1>5

\* The answer of an epoch is what the client declares, or that it has none.
LEMMA FetchKeeps ==
    ASSUME ConstantsAreSound, IInv, NEW e \in Epochs, ClientAnswers(e) \/ FetchFails(e)
    PROVE  IInv'
<1> USE DEF IInv
<1>1. PICK a \in {declared, Unavailable} :
          /\ fetch[e] = Sent /\ fetch' = [fetch EXCEPT ![e] = a]
          /\ UNCHANGED <<clientVars, epoch, cached, fetching, toCancel, toGuard,
                         cancelled, guard, call, inputs, metaVars>>
  BY DEF ClientAnswers, FetchFails, FetchEnds
<1>2. a \in RootSets \cup {Unavailable} /\ a # None /\ a # Sent
  BY DEF TypeOK, ConstantsAreSound, Unavailable, Sent
<1>3. TypeOK' BY <1>1, <1>2 DEF TypeOK
<1>4. EpochKnown'
  <2>1. None # Sent BY DEF ConstantsAreSound
  <2> QED BY <1>1, <1>2, <2>1 DEF EpochKnown, TypeOK
<1>5. Flights' /\ Results' /\ Cached' BY <1>1 DEF Flights, Results, Cached, Leaves
<1>6. EpochNamesRoots' BY <1>1 DEF EpochNamesRoots, Stage
<1>7. ASSUME NEW x \in Callers
      PROVE  Rooted(call[x])' /\ Guarded(call[x])' /\ Loaded(call[x])'
  <2>1. Rooted(call[x])'
    <3>1. call[x].tok \in Epochs BY CallTyped
    <3> QED BY <1>1, <1>2, <3>1 DEF Rooted, TypeOK
  <2>2. Guarded(call[x])' BY <1>1 DEF Guarded
  <2>3. Loaded(call[x])' BY <1>1 DEF Loaded
  <2> QED BY <2>1, <2>2, <2>3
<1> QED BY <1>3, <1>4, <1>5, <1>6, <1>7

\* An edit makes a version that is later than all that was read.
LEMMA EditKeeps ==
    ASSUME ConstantsAreSound, IInv, Edit PROVE IInv'
<1> USE DEF IInv
<1>1. /\ inputs' \in Versions /\ UpTo(inputs, inputs')
      /\ UNCHANGED <<clientVars, coordVars, guard, call, metaVars>>
  <2>1. PICK part \in {"files", "layout"} : inputs' = [inputs EXCEPT ![part] = @ + 1]
    BY DEF Edit
  <2>2. inputs.files \in 0 .. MaxEdits /\ inputs.layout \in 0 .. MaxEdits
    BY DEF TypeOK, Versions
  <2>3. inputs.files + inputs.layout < MaxEdits /\ MaxEdits \in Nat
    BY DEF Edit, ConstantsAreSound
  <2>4. CASE part = "files"
    <3>1. inputs' = [files |-> inputs.files + 1, layout |-> inputs.layout]
      BY <2>1, <2>4 DEF TypeOK, Versions
    <3> QED BY <2>2, <2>3, <3>1 DEF Versions, UpTo, Edit
  <2>5. CASE part = "layout"
    <3>1. inputs' = [files |-> inputs.files, layout |-> inputs.layout + 1]
      BY <2>1, <2>5 DEF TypeOK, Versions
    <3> QED BY <2>2, <2>3, <3>1 DEF Versions, UpTo, Edit
  <2> QED BY <2>4, <2>5
<1>2. \A v \in Versions : UpTo(v, inputs) => UpTo(v, inputs')
  BY <1>1 DEF UpTo, Versions, TypeOK
<1>3. TypeOK' BY <1>1 DEF TypeOK
<1>4. EpochKnown' BY <1>1 DEF EpochKnown
<1>5. Flights' /\ Results' /\ Cached' BY <1>1 DEF Flights, Results, Cached, Leaves
<1>6. EpochNamesRoots' BY <1>1 DEF EpochNamesRoots, Stage
<1>7. ASSUME NEW x \in Callers
      PROVE  Rooted(call[x])' /\ Guarded(call[x])' /\ Loaded(call[x])'
  <2>1. Rooted(call[x])' BY <1>1 DEF Rooted
  <2>2. Guarded(call[x])' BY <1>1 DEF Guarded
  <2>3. Loaded(call[x])'
    <3>1. call[x].pc \in Keyed => call[x].key.fp \in Versions BY DEF Loaded, Keys
    <3> QED BY <1>1, <1>2, <3>1 DEF Loaded
  <2> QED BY <2>1, <2>2, <2>3
<1> QED BY <1>3, <1>4, <1>5, <1>6, <1>7

\* A new epoch begins with nothing known, and the old one will be cancelled.
LEMMA InvalidateResetsKeeps ==
    ASSUME ConstantsAreSound, IInv, InvalidateResets PROVE IInv'
<1> USE DEF IInv, InvalidateResets
<1>1. epoch + 1 <= MaxChanges /\ epoch \in Epochs /\ epoch + 1 \in Epochs
  BY DEF EpochKnown, TypeOK, ConstantsAreSound
<1>2. TypeOK'
  <2>1. epoch' \in Nat /\ notices' \in Nat BY <1>1 DEF TypeOK
  <2>2. cached' \in RootSets \cup {Unavailable, None} /\ fetching' \in BOOLEAN OBVIOUS
  <2>3. toCancel' \subseteq Epochs BY <1>1 DEF TypeOK
  <2> QED BY <2>1, <2>2, <2>3 DEF TypeOK
<1>3. EpochKnown'
  <2>1. fetch[epoch + 1] = None BY <1>1 DEF EpochKnown, TypeOK
  <2> QED BY <1>1, <2>1 DEF EpochKnown, TypeOK
<1>4. Flights' /\ Results' /\ Cached' BY DEF Flights, Results, Cached, Leaves
<1>5. EpochNamesRoots' BY DEF EpochNamesRoots, Stage
<1>6. ASSUME NEW x \in Callers
      PROVE  Rooted(call[x])' /\ Guarded(call[x])' /\ Loaded(call[x])'
  <2>1. Rooted(call[x])'
    <3>1. call[x].tok \in Nat BY CallTyped DEF ConstantsAreSound
    <3> QED BY <1>1, <3>1 DEF Rooted, TypeOK
  <2>2. Guarded(call[x])' BY DEF Guarded
  <2>3. Loaded(call[x])' BY DEF Loaded
  <2> QED BY <2>1, <2>2, <2>3
<1> QED BY <1>2, <1>3, <1>4, <1>5, <1>6

\* The token of an old epoch is cancelled.
LEMMA InvalidateCancelsKeeps ==
    ASSUME ConstantsAreSound, IInv, NEW e \in Epochs, InvalidateCancels(e) PROVE IInv'
<1> USE DEF IInv, InvalidateCancels
<1>1. TypeOK' BY DEF TypeOK
<1>2. EpochKnown' BY DEF EpochKnown, TypeOK
<1>3. Flights' /\ Results' /\ Cached' BY DEF Flights, Results, Cached, Leaves
<1>4. EpochNamesRoots' BY DEF EpochNamesRoots, Stage
<1>5. ASSUME NEW x \in Callers
      PROVE  Rooted(call[x])' /\ Guarded(call[x])' /\ Loaded(call[x])'
  BY <1>5 DEF Rooted, Guarded, Loaded, TypeOK
<1> QED BY <1>1, <1>2, <1>3, <1>4, <1>5

\* The guard moves to an epoch nobody has been given.
LEMMA InvalidateGuardKeeps ==
    ASSUME ConstantsAreSound, IInv, InvalidateGuard PROVE IInv'
<1> USE DEF IInv, InvalidateGuard
<1>0. guard' = [epoch |-> guard.epoch + 1, roots |-> None] /\ guard.epoch \in Nat
  BY DEF TypeOK
<1>1. TypeOK' BY <1>0 DEF TypeOK
<1>2. EpochKnown' BY DEF EpochKnown
<1>3. Flights' /\ Results' /\ Cached' BY DEF Flights, Results, Cached, Leaves
<1>4. EpochNamesRoots' BY DEF EpochNamesRoots, Stage
<1>5. ASSUME NEW x \in Callers
      PROVE  Rooted(call[x])' /\ Guarded(call[x])' /\ Loaded(call[x])'
  <2>1. Rooted(call[x])' BY DEF Rooted
  <2>2. Guarded(call[x])' BY <1>0, CallTyped DEF Guarded
  <2>3. Loaded(call[x])' BY DEF Loaded
  <2> QED BY <2>1, <2>2, <2>3
<1> QED BY <1>1, <1>2, <1>3, <1>4, <1>5

\* A cancellation of a call, its bridge and its deadline are marks on the call.
LEMMA MarksKeep ==
    ASSUME ConstantsAreSound, IInv, NEW r \in Callers,
           Withdraw(r) \/ Bridge(r) \/ Expire(r)
    PROVE  IInv'
<1> USE DEF IInv
<1>1. PICK c : /\ c \in CallFields /\ call' = [call EXCEPT ![r] = c]
               /\ c.pc = call[r].pc /\ c.tok = call[r].tok /\ c.roots = call[r].roots
               /\ c.work = call[r].work /\ c.gep = call[r].gep /\ c.key = call[r].key
               /\ c.load = call[r].load /\ c.served = call[r].served
  <2>1. CASE Withdraw(r)
    <3>1. PICK c : c = [call[r] EXCEPT !.withdrawn = TRUE] OBVIOUS
    <3>2. call[r] \in CallFields BY CallTyped
    <3>3. c \in CallFields BY <3>1, <3>2 DEF CallFields
    <3>4. /\ c.pc = call[r].pc /\ c.tok = call[r].tok /\ c.roots = call[r].roots
          /\ c.work = call[r].work /\ c.gep = call[r].gep /\ c.key = call[r].key
          /\ c.load = call[r].load /\ c.served = call[r].served
      BY <3>1, <3>2 DEF CallFields
    <3>5. call' = [call EXCEPT ![r] = c] BY <2>1, <3>1 DEF Withdraw, TypeOK
    <3> QED BY <3>3, <3>4, <3>5
  <2>2. CASE Bridge(r) \/ Expire(r)
    <3>1. PICK c : c = [call[r] EXCEPT !.told = TRUE] OBVIOUS
    <3>2. call[r] \in CallFields BY CallTyped
    <3>3. c \in CallFields BY <3>1, <3>2 DEF CallFields
    <3>4. /\ c.pc = call[r].pc /\ c.tok = call[r].tok /\ c.roots = call[r].roots
          /\ c.work = call[r].work /\ c.gep = call[r].gep /\ c.key = call[r].key
          /\ c.load = call[r].load /\ c.served = call[r].served
      BY <3>1, <3>2 DEF CallFields
    <3>5. call' = [call EXCEPT ![r] = c] BY <2>2, <3>1 DEF Bridge, Expire, TypeOK
    <3> QED BY <3>3, <3>4, <3>5
  <2> QED BY <2>1, <2>2
<1>2. UNCHANGED <<clientVars, coordVars, guard, inputs, metaVars>>
  BY DEF Withdraw, Bridge, Expire
<1>3. Rooted(c) /\ Guarded(c) /\ Loaded(c) BY <1>1 DEF Rooted, Guarded, Loaded
<1>4. Leaves(call[r]) => Leaves(c) BY <1>1 DEF Leaves
<1> HIDE DEF IInv
<1> QED BY <1>1, <1>2, <1>3, <1>4, CallMoves

\* A call that is received holds nothing yet.
LEMMA ReceiveKeeps ==
    ASSUME ConstantsAreSound, IInv, NEW r \in Callers, Receive(r) PROVE IInv'
<1> USE DEF IInv
<1>1. PICK d \in Directories : call' = [call EXCEPT ![r].pc = "looking", ![r].dir = d]
  BY DEF Receive
<1>2. PICK c : c = [call[r] EXCEPT !.pc = "looking", !.dir = d] OBVIOUS
<1>3. /\ c \in CallFields /\ c.pc = "looking" /\ c.tok = call[r].tok
      /\ c.key = call[r].key /\ c.served = call[r].served
  BY <1>2, CallTyped DEF CallFields, Stages
<1>4. call' = [call EXCEPT ![r] = c] BY <1>1, <1>2 DEF TypeOK
<1>5. call[r].pc = "idle" BY DEF Receive, Stage
<1>6. Rooted(c) /\ Guarded(c) /\ Loaded(c) BY <1>3, <1>5 DEF Rooted, Guarded, Loaded
<1>7. ~Leaves(call[r]) BY <1>5 DEF Leaves
<1>8. UNCHANGED <<clientVars, coordVars, guard, inputs, metaVars>> BY DEF Receive
<1> HIDE DEF IInv
<1> QED BY <1>3, <1>4, <1>5, <1>6, <1>7, <1>8, CallMoves

\* A call goes on to store an answer only when there is one.
LEMMA AwaitKeeps ==
    ASSUME ConstantsAreSound, IInv, NEW r \in Callers, Await(r) PROVE IInv'
<1> USE DEF IInv
<1>1. call[r].pc = "awaiting" BY DEF Await, Stage
<1>2. UNCHANGED <<clientVars, coordVars, guard, inputs, metaVars>> BY DEF Await
<1>3. CASE fetch[call[r].tok] \notin {None, Sent} /\ Goto(r, "storing")
  <2>1. PICK c : c = [call[r] EXCEPT !.pc = "storing"] OBVIOUS
  <2>2. /\ c \in CallFields /\ c.pc = "storing" /\ c.tok = call[r].tok
        /\ c.key = call[r].key /\ c.served = call[r].served
    BY <2>1, CallTyped DEF CallFields, Stages
  <2>3. call' = [call EXCEPT ![r] = c] BY <1>3, <2>1 DEF TypeOK, Goto
  <2>4. Rooted(c) /\ Guarded(c) /\ Loaded(c)
    BY <1>1, <1>3, <2>2 DEF Rooted, Guarded, Loaded
  <2>5. ~Leaves(call[r]) BY <1>1 DEF Leaves
  <2> HIDE DEF IInv
  <2> QED BY <1>1, <1>2, <2>2, <2>3, <2>4, <2>5, CallMoves
<1>4. CASE End(r, "failed")
  <2> HIDE DEF IInv
  <2> QED BY <1>1, <1>2, <1>4, EndMoves
<1> QED BY <1>3, <1>4 DEF Await

\* A tool answers.
LEMMA FinishKeeps ==
    ASSUME ConstantsAreSound, IInv, NEW r \in Callers, Finish(r) PROVE IInv'
BY EndMoves DEF Finish, Stage

\* The key of a call is made of the inputs as they are.
LEMMA PrepareKeeps ==
    ASSUME ConstantsAreSound, IInv, NEW r \in Callers, Prepare(r) PROVE IInv'
<1> USE DEF IInv
<1>1. call[r].pc = "running" /\ call[r].served = None BY DEF Prepare, Stage
<1>2. UNCHANGED <<clientVars, coordVars, guard, inputs, metaVars>> BY DEF Prepare
<1>3. CASE End(r, "done")
  <2> HIDE DEF IInv
  <2> QED BY <1>1, <1>2, <1>3, EndMoves
<1>4. CASE call' = [call EXCEPT ![r].pc = "keyed", ![r].key = KeyOf(r)]
  <2>0. PICK k : k = KeyOf(r) OBVIOUS
  <2>1. PICK c : c = [call[r] EXCEPT !.pc = "keyed", !.key = k] OBVIOUS
  <2>2. Fingerprint = inputs
    BY DEF TypeOK, Versions, Fingerprint, FileInputs, TargetLayout
  <2>3. k \in Keys /\ k.fp = inputs
    BY <2>0, <2>2, CallTyped DEF KeyOf, Keys, TypeOK
  <2>4. /\ c \in CallFields /\ c.pc = "keyed" /\ c.key = k
        /\ c.tok = call[r].tok /\ c.roots = call[r].roots /\ c.work = call[r].work
        /\ c.gep = call[r].gep /\ c.served = call[r].served
    BY <2>1, <2>3, CallTyped DEF CallFields, Stages
  <2>5. call' = [call EXCEPT ![r] = c] BY <1>4, <2>0, <2>1 DEF TypeOK
  <2>6. UpTo(inputs, inputs) BY DEF UpTo, TypeOK, Versions
  <2>7. Rooted(c) /\ Guarded(c) BY <1>1, <2>4 DEF Rooted, Guarded
  <2>8. Loaded(c) BY <1>1, <2>3, <2>4, <2>6 DEF Loaded
  <2>9. ~Leaves(call[r]) BY <1>1 DEF Leaves
  <2> HIDE DEF IInv
  <2> QED BY <1>1, <1>2, <2>4, <2>5, <2>7, <2>8, <2>9, CallMoves
<1> QED BY <1>3, <1>4 DEF Prepare

\* A call without a key runs cargo for itself alone.
LEMMA BypassKeeps ==
    ASSUME ConstantsAreSound, IInv, NEW r \in Callers, Bypass(r) PROVE IInv'
<1>1. call[r].pc = "running" /\ call[r].served = None BY DEF Bypass, Stage
<1>2. UNCHANGED <<clientVars, coordVars, guard, inputs, metaVars>> BY DEF Bypass
<1>3. PICK c : c = [call[r] EXCEPT !.pc = "direct"] OBVIOUS
<1>4. call[r] \in CallFields BY CallTyped DEF IInv
<1>5. c \in CallFields BY <1>3, <1>4 DEF CallFields, Stages
<1>6. /\ c.pc = "direct" /\ c.key = call[r].key /\ c.tok = call[r].tok
      /\ c.roots = call[r].roots /\ c.work = call[r].work
      /\ c.gep = call[r].gep /\ c.served = None
  BY <1>1, <1>3, <1>4 DEF CallFields
<1>7. call' = [call EXCEPT ![r] = c] BY <1>3 DEF IInv, TypeOK, Bypass, Goto
<1>8. Rooted(c) /\ Guarded(c) BY <1>1, <1>6 DEF IInv, Rooted, Guarded
<1>9. Loaded(c) BY <1>1, <1>6 DEF IInv, Loaded
<1>10. ~Leaves(call[r]) BY <1>1 DEF Leaves
<1> QED BY <1>1, <1>2, <1>5, <1>6, <1>7, <1>8, <1>9, <1>10, CallMoves

\* Versions are something.
LEMMA VersionIsSome == ASSUME ConstantsAreSound, NEW v \in Versions PROVE v # None
<1>1. v = [files |-> v.files, layout |-> v.layout]
      /\ v.files \in 0 .. MaxEdits /\ v.layout \in 0 .. MaxEdits
  BY DEF Versions
<1> QED BY <1>1 DEF ConstantsAreSound

\* A call is served what its key stands for.
LEMMA ServeMoves ==
    ASSUME ConstantsAreSound, IInv, NEW r \in Callers, NEW v \in Versions, Serve(r, v),
           call[r].pc \in {"keyed", "joined"}, v = call[r].key.fp,
           UNCHANGED <<clientVars, coordVars, guard, inputs, metaVars>>
    PROVE  IInv'
<1>1. PICK c : c = [call[r] EXCEPT !.pc = "running", !.served = v] OBVIOUS
<1>2. call[r] \in CallFields /\ "running" \in Stages BY CallTyped DEF IInv, Stages
<1>3. c \in CallFields BY <1>1, <1>2 DEF CallFields
<1>4. /\ c.pc = "running" /\ c.key = call[r].key /\ c.tok = call[r].tok
      /\ c.roots = call[r].roots /\ c.work = call[r].work
      /\ c.gep = call[r].gep /\ c.served = v
  BY <1>1, <1>2 DEF CallFields
<1>5. call' = [call EXCEPT ![r] = c] BY <1>1 DEF IInv, TypeOK, Serve
<1>6. Rooted(c) /\ Guarded(c) BY <1>4 DEF IInv, Rooted, Guarded
<1>7. Loaded(c) BY <1>4, VersionIsSome DEF Loaded
<1>8. ~Leaves(call[r]) BY DEF Leaves
<1> QED BY <1>3, <1>4, <1>5, <1>6, <1>7, <1>8, CallMoves

\* A hit serves what was read from the inputs of the key, a follower waits for
\* the flight of its own key, and a flight is entered by its owner.
LEMMA ClaimKeeps ==
    ASSUME ConstantsAreSound, IInv, NEW r \in Callers, Claim(r) PROVE IInv'
<1> DEFINE k == call[r].key
           hits == {c \in cache : c.key = k}
           matching == {f \in flights : f.key = k}
<1>1. call[r].pc = "keyed" BY DEF Claim, Stage
<1>2. call[r] \in CallFields BY CallTyped DEF IInv
<1>3. k \in Keys /\ call[r].served = None /\ UpTo(k.fp, inputs)
  BY <1>1 DEF IInv, Loaded
<1>4. ~Leaves(call[r]) BY <1>1 DEF Leaves
<1>5. CASE End(r, "done") /\ UNCHANGED flights
  BY <1>1, <1>5, EndMoves DEF Claim
<1>6. CASE hits # {} /\ UNCHANGED flights /\ \E c \in hits : Serve(r, c.content)
  <2>1. PICK c \in hits : Serve(r, c.content) BY <1>6
  <2>2. c.content \in Versions /\ c.content = k.fp BY <2>1 DEF IInv, TypeOK, Cached
  <2> QED BY <1>1, <1>6, <2>1, <2>2, ServeMoves DEF Claim
<1>7. CASE /\ UNCHANGED flights
           /\ \E f \in matching :
                  call' = [call EXCEPT ![r].pc = "joined", ![r].load = f.owner]
  <2>1. PICK f \in matching :
            call' = [call EXCEPT ![r].pc = "joined", ![r].load = f.owner]
    BY <1>7
  <2>2. f \in flights /\ f \in [key : Keys, owner : Callers] /\ f.key = k
    BY <2>1 DEF IInv, TypeOK
  <2>3. f = [key |-> k, owner |-> f.owner] /\ f.owner \in Callers BY <2>2
  <2>4. PICK c : c = [call[r] EXCEPT !.pc = "joined", !.load = f.owner] OBVIOUS
  <2>5. c \in CallFields BY <1>2, <2>3, <2>4 DEF CallFields, Stages
  <2>6. /\ c.pc = "joined" /\ c.key = k /\ c.tok = call[r].tok
        /\ c.roots = call[r].roots /\ c.work = call[r].work
        /\ c.gep = call[r].gep /\ c.served = None /\ c.load = f.owner
    BY <1>2, <1>3, <2>4 DEF CallFields
  <2>7. call' = [call EXCEPT ![r] = c] BY <2>1, <2>4 DEF IInv, TypeOK
  <2>8. Rooted(c) /\ Guarded(c) BY <1>1, <2>6 DEF IInv, Rooted, Guarded
  <2>9. Loaded(c) BY <1>3, <2>2, <2>3, <2>6 DEF Loaded
  <2>10. UNCHANGED <<clientVars, coordVars, guard, inputs, metaVars>>
    BY <1>7 DEF Claim
  <2> QED BY <1>1, <1>4, <2>5, <2>6, <2>7, <2>8, <2>9, <2>10, CallMoves
<1>8. CASE matching = {} /\ flights' = flights \cup {[key |-> k, owner |-> r]}
           /\ Goto(r, "loading")
  <2>1. PICK c : c = [call[r] EXCEPT !.pc = "loading"] OBVIOUS
  <2>2. c \in CallFields BY <1>2, <2>1 DEF CallFields, Stages
  <2>3. /\ c.pc = "loading" /\ c.key = k /\ c.tok = call[r].tok
        /\ c.roots = call[r].roots /\ c.work = call[r].work
        /\ c.gep = call[r].gep /\ c.served = None
    BY <1>2, <1>3, <2>1 DEF CallFields
  <2>4. call' = [call EXCEPT ![r] = c] BY <1>8, <2>1 DEF IInv, TypeOK, Goto
  <2>5. UNCHANGED <<clientVars, coordVars, guard, inputs, result, cache>>
    BY DEF Claim
  <2>6. \A x \in Callers : call'[x] = IF x = r THEN c ELSE call[x]
    BY <2>4 DEF IInv, TypeOK
  <2>7. TypeOK'
    <3>1. call' \in [Callers -> CallFields] BY <2>2, <2>4 DEF IInv, TypeOK
    <3>2. flights' \subseteq [key : Keys, owner : Callers]
      BY <1>3, <1>8 DEF IInv, TypeOK
    <3> QED BY <2>5, <3>1, <3>2 DEF IInv, TypeOK
  <2>8. EpochKnown' BY <2>5 DEF IInv, EpochKnown
  <2>9. Flights'
    <3>1. \A f \in flights : f.owner \in Callers /\ f.owner # r
      BY <1>1 DEF IInv, TypeOK, Flights
    <3> QED BY <1>8, <2>3, <2>6, <3>1 DEF IInv, Flights
  <2>10. Results' BY <1>4, <2>5, <2>6 DEF IInv, Results, Leaves
  <2>11. Cached' BY <2>5 DEF IInv, Cached
  <2>12. EpochNamesRoots' BY <1>1, <2>3, <2>6 DEF IInv, EpochNamesRoots, Stage
  <2>13. ASSUME NEW x \in Callers
         PROVE  Rooted(call[x])' /\ Guarded(call[x])' /\ Loaded(call[x])'
    <3>1. Rooted(call[x])' BY <1>1, <2>3, <2>5, <2>6 DEF IInv, Rooted
    <3>2. Guarded(call[x])' BY <1>1, <2>3, <2>5, <2>6 DEF IInv, Guarded
    <3>3. Loaded(call[x])' BY <1>3, <1>8, <2>3, <2>5, <2>6 DEF IInv, Loaded
    <3> QED BY <3>1, <3>2, <3>3
  <2> QED BY <2>7, <2>8, <2>9, <2>10, <2>11, <2>12, <2>13 DEF IInv
<1> QED BY <1>5, <1>6, <1>7, <1>8 DEF Claim

\* A follower gives up, claims again, or gets what was read for its key.
LEMMA JoinKeeps ==
    ASSUME ConstantsAreSound, IInv, NEW r \in Callers, Join(r) PROVE IInv'
<1> DEFINE left == result[call[r].load]
<1>1. call[r].pc = "joined" BY DEF Join, Stage
<1>2. UNCHANGED <<clientVars, coordVars, guard, inputs, metaVars>> BY DEF Join
<1>3. call[r] \in CallFields BY CallTyped DEF IInv
<1>4. CASE End(r, "done") BY <1>1, <1>2, <1>4, EndMoves
<1>5. CASE Goto(r, "keyed")
  <2>1. PICK c : c = [call[r] EXCEPT !.pc = "keyed"] OBVIOUS
  <2>2. c \in CallFields BY <1>3, <2>1 DEF CallFields, Stages
  <2>3. /\ c.pc = "keyed" /\ c.key = call[r].key /\ c.tok = call[r].tok
        /\ c.roots = call[r].roots /\ c.work = call[r].work
        /\ c.gep = call[r].gep /\ c.served = call[r].served
    BY <1>3, <2>1 DEF CallFields
  <2>4. call' = [call EXCEPT ![r] = c] BY <1>5, <2>1 DEF IInv, TypeOK, Goto
  <2>5. Rooted(c) /\ Guarded(c) BY <1>1, <2>3 DEF IInv, Rooted, Guarded
  <2>6. Loaded(c) BY <1>1, <2>3 DEF IInv, Loaded
  <2>7. ~Leaves(call[r]) BY <1>1 DEF Leaves
  <2> QED BY <1>1, <1>2, <2>2, <2>3, <2>4, <2>5, <2>6, <2>7, CallMoves
<1>6. CASE left \notin {None, Interrupted, Broken} /\ Serve(r, left)
  <2>1. call[r].load \in Callers BY <1>1 DEF IInv, Loaded
  <2>2. [key |-> call[r].key, owner |-> call[r].load] \notin flights
    <3>1. Leaves(call[call[r].load]) BY <1>6, <2>1 DEF IInv, Results
    <3> QED BY <3>1 DEF IInv, Flights, Leaves
  <2>3. left = call[r].key.fp BY <1>1, <1>6, <2>2 DEF IInv, Loaded
  <2>4. left \in Versions BY <1>6, <2>1 DEF IInv, TypeOK
  <2> QED BY <1>1, <1>2, <1>6, <2>3, <2>4, ServeMoves
<1> QED BY <1>4, <1>5, <1>6 DEF Join

\* Metadata that has no key is the call's own.
LEMMA BypassEndsKeeps ==
    ASSUME ConstantsAreSound, IInv, NEW r \in Callers, BypassEnds(r) PROVE IInv'
<1>1. call[r].pc = "direct" BY DEF BypassEnds, Stage
<1>2. UNCHANGED <<clientVars, coordVars, guard, inputs, metaVars>> BY DEF BypassEnds
<1>3. CASE End(r, "done") BY <1>1, <1>2, <1>3, EndMoves
<1>4. CASE Serve(r, inputs)
  <2>1. call[r] \in CallFields /\ inputs \in Versions BY CallTyped DEF IInv, TypeOK
  <2>2. PICK c : c = [call[r] EXCEPT !.pc = "running", !.served = inputs] OBVIOUS
  <2>3. c \in CallFields BY <2>1, <2>2 DEF CallFields, Stages
  <2>4. /\ c.pc = "running" /\ c.key = call[r].key /\ c.tok = call[r].tok
        /\ c.roots = call[r].roots /\ c.work = call[r].work
        /\ c.gep = call[r].gep /\ c.served = inputs
    BY <2>1, <2>2 DEF CallFields
  <2>5. call' = [call EXCEPT ![r] = c] BY <1>4, <2>2 DEF IInv, TypeOK, Serve
  <2>6. call[r].key = None BY <1>1 DEF IInv, Loaded
  <2>7. Rooted(c) /\ Guarded(c) BY <1>1, <2>4 DEF IInv, Rooted, Guarded
  <2>8. Loaded(c)
    <3>1. inputs # None BY <2>1, VersionIsSome
    <3> QED BY <2>4, <2>6, <3>1 DEF Loaded
  <2>9. ~Leaves(call[r]) BY <1>1 DEF Leaves
  <2> QED BY <1>1, <1>2, <2>3, <2>4, <2>5, <2>7, <2>8, <2>9, CallMoves
<1> QED BY <1>3, <1>4 DEF BypassEnds

\* Cargo reads the inputs as they are.
LEMMA RunCargoKeeps ==
    ASSUME ConstantsAreSound, IInv, NEW r \in Callers, RunCargo(r) PROVE IInv'
<1>1. call[r].pc = "loading" BY DEF RunCargo, Stage
<1>2. UNCHANGED <<clientVars, coordVars, guard, inputs, metaVars>> BY DEF RunCargo
<1>3. call[r] \in CallFields /\ inputs \in Versions BY CallTyped DEF IInv, TypeOK
<1>4. PICK v \in {inputs, Broken} :
          call' = [call EXCEPT ![r].pc = "checking", ![r].load = v]
  BY DEF RunCargo
<1>5. PICK c : c = [call[r] EXCEPT !.pc = "checking", !.load = v] OBVIOUS
<1>6. c \in CallFields BY <1>3, <1>4, <1>5 DEF CallFields, Stages
<1>7. /\ c.pc = "checking" /\ c.key = call[r].key /\ c.tok = call[r].tok
      /\ c.roots = call[r].roots /\ c.work = call[r].work
      /\ c.gep = call[r].gep /\ c.served = call[r].served /\ c.load = v
  BY <1>3, <1>5 DEF CallFields
<1>8. call' = [call EXCEPT ![r] = c] BY <1>4, <1>5 DEF IInv, TypeOK
<1>9. Rooted(c) /\ Guarded(c) BY <1>1, <1>7 DEF IInv, Rooted, Guarded
<1>10. Loaded(c)
  <2>1. UpTo(inputs, inputs) BY <1>3 DEF UpTo, Versions
  <2> QED BY <1>1, <1>3, <1>4, <1>7, <2>1 DEF IInv, Loaded
<1>11. ~Leaves(call[r]) BY <1>1 DEF Leaves
<1> QED BY <1>1, <1>2, <1>6, <1>7, <1>8, <1>9, <1>10, <1>11, CallMoves

\* A step of one call under the lock of the coordinator, which may change what
\* is known of the epoch but no answer that another call is about to store.
LEMMA CoordMoves ==
    ASSUME ConstantsAreSound, IInv, NEW r \in Callers, NEW c \in CallFields,
           call' = [call EXCEPT ![r] = c],
           UNCHANGED <<clientVars, epoch, toCancel, toGuard, cancelled, guard,
                       inputs, metaVars>>,
           fetching' \in BOOLEAN, cached' \in RootSets \cup {Unavailable, None},
           fetch' \in [Epochs -> RootSets \cup {Unavailable, Sent, None}],
           EpochKnown', Rooted(c)',
           call[r].pc \in {"looking", "storing"},
           c.pc \in {"awaiting", "granting"} \cup Ended,
           c.key = None, c.served = None,
           \A x \in Callers : call[x].pc = "storing" =>
               fetch'[call[x].tok] = fetch[call[x].tok]
    PROVE  IInv'
<1> USE DEF IInv
<1>0. \A x \in Callers : call'[x] = IF x = r THEN c ELSE call[x] BY DEF TypeOK
<1>1. TypeOK' BY DEF TypeOK
<1>3. Flights'
  <2>1. \A f \in flights : f.owner \in Callers BY DEF TypeOK
  <2> QED BY <1>0, <2>1 DEF Flights
<1>4. Results' BY <1>0 DEF Results, Leaves
<1>5. Cached' BY DEF Cached
<1>6. EpochNamesRoots' BY <1>0 DEF EpochNamesRoots, Stage
<1>7. ASSUME NEW x \in Callers
      PROVE  Rooted(call[x])' /\ Guarded(call[x])' /\ Loaded(call[x])'
  <2>1. CASE x = r
    <3>1. call'[x] = c BY <1>0, <2>1
    <3>2. Rooted(call[x])' BY <3>1 DEF Rooted
    <3>3. Guarded(call[x])' /\ Loaded(call[x])' BY <3>1 DEF Guarded, Loaded
    <3> QED BY <3>2, <3>3
  <2>2. CASE x # r
    <3>1. call'[x] = call[x] BY <1>0, <2>2
    <3>2. Rooted(call[x])' BY <3>1 DEF Rooted
    <3>3. Guarded(call[x])' /\ Loaded(call[x])' BY <3>1 DEF Guarded, Loaded
    <3> QED BY <3>2, <3>3
  <2> QED BY <2>1, <2>2
<1> QED BY <1>1, <1>3, <1>4, <1>5, <1>6, <1>7

\* A call takes the roots of the epoch, or ends without any.
LEMMA TakeRootsMoves ==
    ASSUME ConstantsAreSound, IInv, NEW r \in Callers, NEW a \in Answers,
           TakeRoots(r, a), call[r].pc \in {"looking", "storing"},
           notices = 0 => a \in {declared, Unavailable} \/ ~supports,
           UNCHANGED <<clientVars, epoch, fetch, toCancel, toGuard, cancelled,
                       guard, inputs, metaVars>>,
           fetching' \in BOOLEAN, cached' \in RootSets \cup {Unavailable, None},
           EpochKnown'
    PROVE  IInv'
<1>1. epoch \in Epochs /\ epoch \in Nat
  BY DEF IInv, EpochKnown, TypeOK, ConstantsAreSound
<1>2. fetch' \in [Epochs -> RootSets \cup {Unavailable, Sent, None}]
  BY DEF IInv, TypeOK
<1>3. CASE a = Unavailable
  <2>1. PICK c : c = [Fresh EXCEPT !.pc = "failed"] OBVIOUS
  <2>2. c \in CallFields BY <2>1, FreshTyped DEF Stages
  <2>3. c.pc = "failed" /\ c.tok = 0 /\ c.key = None /\ c.served = None
    BY <2>1 DEF Fresh
  <2>4. Rooted(c)' BY <1>1, <2>3 DEF Rooted
  <2>5. call' = [call EXCEPT ![r] = c] BY <1>3, <2>1 DEF TakeRoots, End
  <2> QED BY <1>2, <2>2, <2>3, <2>4, <2>5, CoordMoves
<1>4. CASE a # Unavailable
  <2>1. PICK e : e = epoch OBVIOUS
  <2>2. PICK c : c = [call[r] EXCEPT !.pc = "granting", !.roots = a, !.tok = e] OBVIOUS
  <2>3. call[r] \in CallFields BY CallTyped DEF IInv
  <2>4. c \in CallFields BY <1>1, <2>1, <2>2, <2>3 DEF CallFields, Stages
  <2>5. /\ c.pc = "granting" /\ c.roots = a /\ c.tok = epoch
        /\ c.key = call[r].key /\ c.served = call[r].served
    BY <2>1, <2>2, <2>3 DEF CallFields
  <2>6. c.key = None /\ c.served = None BY <2>5 DEF IInv, Loaded
  <2>7. call' = [call EXCEPT ![r] = c] BY <1>4, <2>1, <2>2 DEF IInv, TypeOK, TakeRoots
  <2>8. Rooted(c)' BY <1>1, <1>4, <2>5 DEF Rooted
  <2> QED BY <1>2, <2>4, <2>5, <2>6, <2>7, <2>8, CoordMoves
<1> QED BY <1>3, <1>4

\* The first critical section: a fetch is begun only when nothing is known.
LEMMA LookupKeeps ==
    ASSUME ConstantsAreSound, IInv, NEW r \in Callers, Lookup(r) PROVE IInv'
<1>1. call[r].pc = "looking" BY DEF Lookup, Stage
<1>2. UNCHANGED <<clientVars, epoch, cached, toCancel, toGuard, cancelled,
                  guard, inputs, metaVars>>
  BY DEF Lookup
<1>3. /\ epoch \in Epochs /\ epoch \in Nat /\ fetching \in BOOLEAN
      /\ cached \in RootSets \cup {Unavailable, None}
  BY DEF IInv, EpochKnown, TypeOK, ConstantsAreSound
<1>4. CASE ~supports /\ TakeRoots(r, Unsupported) /\ UNCHANGED <<fetching, fetch>>
  <2>1. Unsupported \in Answers BY DEF Answers
  <2>2. EpochKnown' BY <1>2, <1>4 DEF IInv, EpochKnown
  <2> QED BY <1>1, <1>2, <1>3, <1>4, <2>1, <2>2, TakeRootsMoves
<1>5. CASE supports /\ cached # None /\ TakeRoots(r, cached)
           /\ UNCHANGED <<fetching, fetch>>
  <2>1. PICK a : a = cached OBVIOUS
  <2>2. a \in Answers BY <1>3, <1>5, <2>1 DEF Answers
  <2>3. EpochKnown' BY <1>2, <1>5 DEF IInv, EpochKnown
  <2>4. notices = 0 => a \in {declared, Unavailable}
    BY <1>5, <2>1 DEF IInv, EpochKnown
  <2>5. TakeRoots(r, a) BY <1>5, <2>1
  <2> QED BY <1>1, <1>2, <1>3, <1>5, <2>2, <2>3, <2>4, <2>5, TakeRootsMoves
<1>6. CASE /\ supports /\ cached = None /\ fetching' = TRUE
           /\ fetch' = IF fetching THEN fetch ELSE [fetch EXCEPT ![epoch] = Sent]
           /\ call' = [call EXCEPT ![r].pc = "awaiting", ![r].tok = epoch]
  <2>1. PICK e : e = epoch OBVIOUS
  <2>2. PICK c : c = [call[r] EXCEPT !.pc = "awaiting", !.tok = e] OBVIOUS
  <2>3. call[r] \in CallFields BY CallTyped DEF IInv
  <2>4. c \in CallFields BY <1>3, <2>1, <2>2, <2>3 DEF CallFields, Stages
  <2>5. /\ c.pc = "awaiting" /\ c.tok = epoch
        /\ c.key = call[r].key /\ c.served = call[r].served
    BY <2>1, <2>2, <2>3 DEF CallFields
  <2>6. c.key = None /\ c.served = None BY <1>1, <2>5 DEF IInv, Loaded
  <2>7. call' = [call EXCEPT ![r] = c] BY <1>6, <2>1, <2>2 DEF IInv, TypeOK
  <2>8. fetch' \in [Epochs -> RootSets \cup {Unavailable, Sent, None}]
    BY <1>6 DEF IInv, TypeOK
  <2>9. fetch \in [Epochs -> RootSets \cup {Unavailable, Sent, None}]
    BY DEF IInv, TypeOK
  <2>10. EpochKnown'
    <3>1. \A x \in Epochs : x # epoch => fetch'[x] = fetch[x] BY <1>6, <2>9
    <3>2. fetch'[epoch] \in {fetch[epoch], Sent} BY <1>3, <1>6, <2>9
    <3> QED BY <1>2, <1>3, <1>6, <3>1, <3>2 DEF IInv, EpochKnown
  <2>11. Rooted(c)' BY <1>2, <1>3, <2>5 DEF Rooted
  <2>12. ASSUME NEW x \in Callers, call[x].pc = "storing"
         PROVE  fetch'[call[x].tok] = fetch[call[x].tok]
    <3>1. call[x].tok \in Epochs BY CallTyped DEF IInv
    <3>2. fetch[call[x].tok] # None BY <2>12 DEF IInv, Rooted
    <3>3. ~fetching => fetch[epoch] = None BY <1>6 DEF IInv, EpochKnown
    <3> QED BY <1>3, <1>6, <2>9, <3>1, <3>2, <3>3
  <2>13. fetching' \in BOOLEAN /\ cached' \in RootSets \cup {Unavailable, None}
    BY <1>2, <1>3, <1>6
  <2> QED BY <1>1, <1>2, <2>4, <2>5, <2>6, <2>7, <2>8, <2>10, <2>11, <2>12, <2>13,
             CoordMoves
<1> QED BY <1>4, <1>5, <1>6 DEF Lookup

\* The second critical section: only an answer of this epoch is kept.
LEMMA StoreKeeps ==
    ASSUME ConstantsAreSound, IInv, NEW r \in Callers, Store(r) PROVE IInv'
<1>1. call[r].pc = "storing" BY DEF Store, Stage
<1>2. UNCHANGED <<clientVars, epoch, fetch, toCancel, toGuard, cancelled,
                  guard, inputs, metaVars>>
  BY DEF Store
<1>3. CASE epoch # call[r].tok
  <2>1. End(r, "failed") /\ UNCHANGED <<fetching, cached>> BY <1>3 DEF Store
  <2> QED BY <1>1, <1>2, <2>1, EndMoves
<1>4. CASE epoch = call[r].tok
  <2>1. PICK a : a = fetch[call[r].tok] OBVIOUS
  <2>2. fetching' = FALSE /\ cached' = a /\ TakeRoots(r, a) BY <1>4, <2>1 DEF Store
  <2>3. call[r].tok \in Epochs BY CallTyped DEF IInv
  <2>4. a \in RootSets \cup {Unavailable} /\ a # None
    BY <1>1, <2>1, <2>3 DEF IInv, TypeOK, Rooted
  <2>5. a \in Answers /\ cached' \in RootSets \cup {Unavailable, None}
    BY <2>2, <2>4 DEF Answers
  <2>6. notices = 0 => a \in {declared, Unavailable}
    BY <1>1, <1>4, <2>1 DEF IInv, EpochKnown, Rooted
  <2>7. EpochKnown' BY <1>2, <2>2, <2>4, <2>6 DEF IInv, EpochKnown
  <2> QED BY <1>1, <1>2, <2>2, <2>5, <2>6, <2>7, TakeRootsMoves
<1> QED BY <1>3, <1>4
\* A snapshot of the guard keeps its epoch only for the roots it has.
LEMMA SnapshotMoves ==
    ASSUME ConstantsAreSound, IInv, NEW a \in Answers, guard' = SnapshotGuard(a)
    PROVE  /\ guard' \in [epoch : Nat, roots : Answers \cup {None}]
           /\ guard' = guard \/ guard'.epoch = guard.epoch + 1
           /\ Effective(a) # {} => guard'.roots = a
<1>1. guard \in [epoch : Nat, roots : Answers \cup {None}] BY DEF IInv, TypeOK
<1>2. CASE Effective(a) = {} \/ guard.roots = a
  BY <1>1, <1>2 DEF SnapshotGuard
<1>3. CASE ~(Effective(a) = {} \/ guard.roots = a)
  <2>1. guard' = [epoch |-> guard.epoch + 1, roots |-> a]
    BY <1>3 DEF SnapshotGuard
  <2> QED BY <1>1, <2>1
<1> QED BY <1>2, <1>3

\* A call that is given its workspace, or none, under a snapshot of the guard.
LEMMA GuardMoves ==
    ASSUME ConstantsAreSound, IInv, NEW r \in Callers, NEW c \in CallFields,
           call' = [call EXCEPT ![r] = c],
           UNCHANGED <<clientVars, coordVars, inputs, metaVars>>,
           guard' = SnapshotGuard(call[r].roots),
           call[r].pc = "granting", c.pc \in {"running"} \cup Ended,
           Rooted(c), c.key = None, c.served = None,
           c.pc = "running" => /\ c.gep = guard'.epoch /\ c.roots = call[r].roots
                               /\ Effective(c.roots) # {}
    PROVE  IInv'
<1>0. \A x \in Callers : call'[x] = IF x = r THEN c ELSE call[x]
  BY DEF IInv, TypeOK
<1>1. PICK a \in Answers : a = call[r].roots BY CallTyped DEF IInv
<1>2. /\ guard' \in [epoch : Nat, roots : Answers \cup {None}]
      /\ guard' = guard \/ guard'.epoch = guard.epoch + 1
      /\ Effective(a) # {} => guard'.roots = a
  <2>1. guard' = SnapshotGuard(a) BY <1>1
  <2> QED BY <2>1, SnapshotMoves
<1>3. guard.epoch \in Nat BY DEF IInv, TypeOK
<1>4. TypeOK' BY <1>2 DEF IInv, TypeOK
<1>5. EpochKnown' BY DEF IInv, EpochKnown
<1>6. Flights'
  <2>1. \A f \in flights : f.owner \in Callers BY DEF IInv, TypeOK
  <2> QED BY <1>0, <2>1 DEF IInv, Flights
<1>7. Results' BY <1>0 DEF IInv, Results, Leaves
<1>8. Cached' BY DEF IInv, Cached
<1>9. ASSUME NEW x \in Callers
      PROVE  Rooted(call[x])' /\ Guarded(call[x])' /\ Loaded(call[x])'
  <2>1. CASE x = r
    <3>1. call'[x] = c BY <1>0, <2>1
    <3>2. Rooted(call[x])' BY <3>1 DEF Rooted
    <3>3. Guarded(call[x])' BY <1>1, <1>2, <3>1 DEF Guarded
    <3>4. Loaded(call[x])' BY <3>1 DEF Loaded
    <3> QED BY <3>2, <3>3, <3>4
  <2>2. CASE x # r
    <3>1. call'[x] = call[x] BY <1>0, <2>2
    <3>2. Rooted(call[x])' BY <3>1 DEF IInv, Rooted
    <3>3. Guarded(call[x])'
      <4>1. call[x].gep \in Nat BY CallTyped DEF IInv
      <4> QED BY <1>2, <1>3, <3>1, <4>1 DEF IInv, Guarded
    <3>4. Loaded(call[x])' BY <3>1 DEF IInv, Loaded
    <3> QED BY <3>2, <3>3, <3>4
  <2> QED BY <2>1, <2>2
<1>10. EpochNamesRoots'
  <2>1. SUFFICES ASSUME NEW x \in Callers, NEW y \in Callers,
                        call'[x].pc \in Granted, call'[y].pc \in Granted,
                        call'[x].gep = call'[y].gep
                 PROVE  call'[x].roots = call'[y].roots
    BY DEF EpochNamesRoots, Stage
  <2>2. CASE x = r \/ y = r
    <3>1. call'[x].gep = guard'.epoch /\ call'[y].gep = guard'.epoch
      BY <1>0, <2>1, <2>2
    <3> QED BY <1>9, <2>1, <3>1 DEF Guarded
  <2>3. CASE x # r /\ y # r
    BY <1>0, <2>1, <2>3 DEF IInv, EpochNamesRoots, Stage
  <2> QED BY <2>2, <2>3
<1> QED BY <1>4, <1>5, <1>6, <1>7, <1>8, <1>9, <1>10 DEF IInv

\* The workspace a call is given lies in a root it may have.
LEMMA GrantKeeps ==
    ASSUME ConstantsAreSound, IInv, NEW r \in Callers, Grant(r) PROVE IInv'
<1>1. PICK roots \in Answers : roots = call[r].roots BY CallTyped DEF IInv
<1>2. PICK chosen : chosen = SelectRoot(Effective(roots), call[r].dir) OBVIOUS
<1>3. /\ call[r].pc = "granting" /\ guard' = SnapshotGuard(call[r].roots)
      /\ UNCHANGED <<clientVars, coordVars, inputs, metaVars>>
  BY DEF Grant, Stage
<1>4. call[r] \in CallFields BY CallTyped DEF IInv
<1>5. CASE chosen.root = NoPath
  <2>1. End(r, "failed") BY <1>1, <1>2, <1>5 DEF Grant
  <2>2. PICK c : c = [Fresh EXCEPT !.pc = "failed"] OBVIOUS
  <2>3. c \in CallFields BY <2>2, FreshTyped DEF Stages
  <2>4. c.pc = "failed" /\ c.tok = 0 /\ c.key = None /\ c.served = None
    BY <2>2 DEF Fresh
  <2>5. Rooted(c) BY <2>4 DEF Rooted, IInv, TypeOK
  <2>6. call' = [call EXCEPT ![r] = c] BY <2>1, <2>2 DEF End
  <2> QED BY <1>3, <2>3, <2>4, <2>5, <2>6, GuardMoves
<1>6. CASE chosen.root # NoPath
  <2>1. PICK e : e = guard'.epoch OBVIOUS
  <2>2. e \in Nat
    <3>1. guard' = SnapshotGuard(roots) BY <1>1, <1>3
    <3> QED BY <2>1, <3>1, SnapshotMoves
  <2>3. Effective(roots) \subseteq Seq(STRING)
    <3>1. roots \subseteq Seq(STRING)
      <4>1. <<>> \in Seq(STRING) OBVIOUS
      <4> QED BY <4>1 DEF Answers, ConstantsAreSound, Unavailable, Unsupported
    <3>2. Configured \subseteq Seq(STRING) BY DEF ConstantsAreSound
    <3> QED BY <3>1, <3>2, GrantsLieInside DEF Effective
  <2>4. /\ Effective(roots) # {} /\ chosen.dir \in Seq(STRING)
        /\ \E g \in Effective(roots) : Within(g, chosen.dir)
    BY <1>2, <1>6, <2>3, SelectedInside
  <2>5. PICK c : c = [call[r] EXCEPT !.pc = "running", !.work = chosen.dir, !.gep = e]
    OBVIOUS
  <2>6. c \in CallFields BY <1>4, <2>2, <2>4, <2>5 DEF CallFields, Stages, Places
  <2>7. /\ c.pc = "running" /\ c.work = chosen.dir /\ c.gep = e
        /\ c.tok = call[r].tok /\ c.roots = roots
        /\ c.key = call[r].key /\ c.served = call[r].served
    BY <1>1, <1>4, <2>5 DEF CallFields
  <2>8. c.key = None /\ c.served = None BY <1>3, <2>7 DEF IInv, Loaded
  <2>9. call' = [call EXCEPT ![r] = c]
    BY <1>1, <1>2, <1>6, <2>1, <2>5 DEF Grant, IInv, TypeOK
  <2>10. Rooted(c) BY <1>1, <1>3, <2>4, <2>7 DEF IInv, Rooted
  <2> QED BY <1>1, <1>3, <2>1, <2>4, <2>6, <2>7, <2>8, <2>9, <2>10, GuardMoves
<1> QED BY <1>5, <1>6

\* What an owner leaves: nothing, or what was read from the inputs of its key.
LEMMA OutcomeIsRead ==
    ASSUME ConstantsAreSound, IInv, NEW r \in Callers, call[r].pc = "checking"
    PROVE  \/ Outcome(r) \in {Interrupted, Broken}
           \/ Outcome(r) \in Versions /\ Outcome(r) = call[r].key.fp
<1>1. SUFFICES ASSUME Outcome(r) \notin {Interrupted, Broken}
               PROVE  Outcome(r) \in Versions /\ Outcome(r) = call[r].key.fp
  OBVIOUS
<1>2. /\ Outcome(r) = call[r].load /\ call[r].load # Broken
      /\ Fingerprint = call[r].key.fp
  BY <1>1 DEF Outcome
<1>3. Fingerprint = inputs /\ inputs \in Versions
  BY DEF IInv, TypeOK, Versions, Fingerprint, FileInputs, TargetLayout
<1>4. PICK v \in Versions : v = call[r].load BY <1>2 DEF IInv, Loaded
<1>5. UpTo(inputs, v) /\ UpTo(v, inputs) BY <1>2, <1>3, <1>4 DEF IInv, Loaded
<1>6. v = [files |-> v.files, layout |-> v.layout]
      /\ inputs = [files |-> inputs.files, layout |-> inputs.layout]
  BY <1>3, <1>4 DEF Versions
<1>7. v.files = inputs.files /\ v.layout = inputs.layout
  <2>1. /\ v.files \in 0 .. MaxEdits /\ v.layout \in 0 .. MaxEdits
        /\ inputs.files \in 0 .. MaxEdits /\ inputs.layout \in 0 .. MaxEdits
    BY <1>3, <1>4 DEF Versions
  <2> QED BY <1>5, <2>1 DEF UpTo, ConstantsAreSound
<1> QED BY <1>2, <1>3, <1>4, <1>6, <1>7

\* The flight of an owner leaves the table with its result.
LEMMA PublishKeeps ==
    ASSUME ConstantsAreSound, IInv, NEW r \in Callers, Publish(r) PROVE IInv'
<1>1. call[r].pc = "checking" BY DEF Publish, Stage
<1>2. PICK o : o = Outcome(r) OBVIOUS
<1>3. o \in {Interrupted, Broken} \/ (o \in Versions /\ o = call[r].key.fp)
  BY <1>1, <1>2, OutcomeIsRead
<1>4. /\ flights' = {f \in flights : f.owner # r} /\ result' = [result EXCEPT ![r] = o]
      /\ UNCHANGED <<clientVars, coordVars, guard, inputs>>
  BY <1>2 DEF Publish
<1>5. call[r] \in CallFields /\ call[r].key \in Keys /\ call[r].served = None
  BY <1>1, CallTyped DEF IInv, Loaded
<1>6. /\ \/ o \in {Interrupted, Broken} /\ UNCHANGED cache
         \/ /\ cache' = cache \cup {[key |-> call[r].key, content |-> o]}
            /\ o \in Versions /\ o = call[r].key.fp
  BY <1>2, <1>3 DEF Publish
<1>7. PICK c \in CallFields :
          /\ call' = [call EXCEPT ![r] = c] /\ Rooted(c) /\ Guarded(c)
          /\ Leaves(c) /\ c.pc \in {"running", "done"}
          /\ c.served # None /\ c.key # None => c.served = c.key.fp
          /\ c.pc = "done" => c.key = None /\ c.served = None
          /\ c.pc \in Granted => c.gep = call[r].gep /\ c.roots = call[r].roots
  <2>1. CASE o \in {Interrupted, Broken}
    <3>1. PICK c : c = [Fresh EXCEPT !.pc = "done"] OBVIOUS
    <3>2. c \in CallFields BY <3>1, FreshTyped DEF Stages
    <3>3. c.pc = "done" /\ c.tok = 0 /\ c.key = None /\ c.served = None
      BY <3>1 DEF Fresh
    <3>4. Rooted(c) /\ Guarded(c) BY <3>3 DEF Rooted, Guarded, IInv, TypeOK
    <3>5. call' = [call EXCEPT ![r] = c] BY <1>2, <2>1, <3>1 DEF Publish, End
    <3> QED BY <3>2, <3>3, <3>4, <3>5 DEF Leaves
  <2>2. CASE o \notin {Interrupted, Broken}
    <3>1. PICK c : c = [call[r] EXCEPT !.pc = "running", !.served = o] OBVIOUS
    <3>2. c \in CallFields BY <1>3, <1>5, <2>2, <3>1 DEF CallFields, Stages
    <3>3. /\ c.pc = "running" /\ c.key = call[r].key /\ c.tok = call[r].tok
          /\ c.roots = call[r].roots /\ c.work = call[r].work
          /\ c.gep = call[r].gep /\ c.served = o
      BY <1>5, <3>1 DEF CallFields
    <3>4. Rooted(c) /\ Guarded(c) BY <1>1, <3>3 DEF IInv, Rooted, Guarded
    <3>5. call' = [call EXCEPT ![r] = c]
      BY <1>2, <2>2, <3>1 DEF Publish, Serve, IInv, TypeOK
    <3>6. o # None BY <1>3, <2>2, VersionIsSome
    <3> QED BY <1>3, <2>2, <3>2, <3>3, <3>4, <3>5, <3>6 DEF Leaves
  <2> QED BY <2>1, <2>2
<1>8. \A x \in Callers : call'[x] = IF x = r THEN c ELSE call[x]
  BY <1>7 DEF IInv, TypeOK
<1>9. TypeOK'
  <2>1. call' \in [Callers -> CallFields] BY <1>7 DEF IInv, TypeOK
  <2>2. flights' \subseteq [key : Keys, owner : Callers] BY <1>4 DEF IInv, TypeOK
  <2>3. result' \in [Callers -> Versions \cup {Interrupted, Broken, None}]
    BY <1>3, <1>4 DEF IInv, TypeOK
  <2>4. cache' \subseteq [key : Keys, content : Versions]
    BY <1>5, <1>6 DEF IInv, TypeOK
  <2> QED BY <1>4, <2>1, <2>2, <2>3, <2>4 DEF IInv, TypeOK
<1>10. EpochKnown' BY <1>4 DEF IInv, EpochKnown
<1>11. Flights'
  <2>1. \A f \in flights : f.owner \in Callers BY DEF IInv, TypeOK
  <2> QED BY <1>4, <1>8, <2>1 DEF IInv, Flights
<1>12. Results'
  <2>1. \A x \in Callers : x # r => result'[x] = result[x] BY <1>4 DEF IInv, TypeOK
  <2> QED BY <1>7, <1>8, <2>1 DEF IInv, Results, Leaves
<1>13. Cached' BY <1>6 DEF IInv, Cached
<1>14. EpochNamesRoots' BY <1>1, <1>7, <1>8 DEF IInv, EpochNamesRoots, Stage
<1>15. ASSUME NEW x \in Callers
       PROVE  Rooted(call[x])' /\ Guarded(call[x])' /\ Loaded(call[x])'
  <2>1. Rooted(call[x])' BY <1>4, <1>7, <1>8 DEF IInv, Rooted
  <2>2. Guarded(call[x])' BY <1>4, <1>7, <1>8 DEF IInv, Guarded
  <2>3. Loaded(call[x])'
    <3>1. CASE x = r
      <4>1. call'[x] = c BY <1>8, <3>1
      <4> QED BY <1>7, <4>1 DEF Loaded, Leaves
    <3>2. CASE x # r
      <4>1. call'[x] = call[x] BY <1>8, <3>2
      <4>2. ASSUME call[x].pc = "joined"
            PROVE  \/ [key |-> call[x].key, owner |-> call[x].load] \in flights'
                   \/ result'[call[x].load] \in {Interrupted, Broken, call[x].key.fp}
        <5>0. call[x].load \in Callers BY <4>2 DEF IInv, Loaded
        <5>1. CASE call[x].load = r
          <6>1. result'[call[x].load] = o BY <1>4, <5>1 DEF IInv, TypeOK
          <6>2. result[r] = None BY <1>1 DEF IInv, Results, Leaves
          <6>3. [key |-> call[x].key, owner |-> r] \in flights
                \/ result[r] \in {Interrupted, Broken, call[x].key.fp}
            BY <4>2, <5>1 DEF IInv, Loaded
          <6>4. call[x].key.fp # None
            <7>1. call[x].key.fp \in Versions BY <4>2 DEF IInv, Loaded, Keys
            <7> QED BY <7>1, VersionIsSome
          <6>5. [key |-> call[x].key, owner |-> r] \in flights
            BY <6>2, <6>3, <6>4 DEF ConstantsAreSound
          <6>6. call[r].key = call[x].key BY <6>5 DEF IInv, Flights
          <6> QED BY <1>3, <6>1, <6>6
        <5>2. CASE call[x].load # r
          <6>1. result'[call[x].load] = result[call[x].load]
            BY <1>4, <5>0, <5>2 DEF IInv, TypeOK
          <6> QED BY <1>4, <4>2, <5>2, <6>1 DEF IInv, Loaded
        <5> QED BY <5>1, <5>2
      <4> QED BY <1>4, <4>1, <4>2 DEF IInv, Loaded
    <3> QED BY <3>1, <3>2
  <2> QED BY <2>1, <2>2, <2>3
<1> QED BY <1>9, <1>10, <1>11, <1>12, <1>13, <1>14, <1>15 DEF IInv

-----------------------------------------------------------------------------
(* The invariant.                                                          *)

\* The invariant holds before any call.
LEMMA InitHolds == ASSUME ConstantsAreSound, Init PROVE IInv
<1>1. Fresh \in CallFields BY FreshTyped DEF Stages
<1>2. \A r \in Callers : call[r] = Fresh BY DEF Init
<1>3. /\ Fresh.pc = "idle" /\ Fresh.tok = 0 /\ Fresh.key = None /\ Fresh.served = None
  BY DEF Fresh
<1>4. TypeOK
  <2>1. call \in [Callers -> CallFields] BY <1>1 DEF Init
  <2>2. /\ inputs \in Versions /\ guard \in [epoch : Nat, roots : Answers \cup {None}]
        /\ changes \in 0 .. MaxChanges
    BY DEF Init, Versions, ConstantsAreSound
  <2>3. supports \in BOOLEAN /\ fetching \in BOOLEAN BY DEF Init
  <2>4. /\ fetch \in [Epochs -> RootSets \cup {Unavailable, Sent, None}]
        /\ result \in [Callers -> Versions \cup {Interrupted, Broken, None}]
    BY DEF Init
  <2> QED BY <2>1, <2>2, <2>3, <2>4 DEF Init, TypeOK
<1>5. EpochKnown BY DEF Init, EpochKnown, ConstantsAreSound
<1>6. Flights /\ Results /\ Cached BY DEF Init, Flights, Results, Cached
<1>7. EpochNamesRoots BY <1>2, <1>3 DEF EpochNamesRoots, Stage
<1>8. ASSUME NEW x \in Callers
      PROVE  Rooted(call[x]) /\ Guarded(call[x]) /\ Loaded(call[x])
  BY <1>2, <1>3 DEF Rooted, Guarded, Loaded, Init
<1> QED BY <1>4, <1>5, <1>6, <1>7, <1>8 DEF IInv

\* Nothing happens.
LEMMA StutterKeeps == ASSUME IInv, UNCHANGED vars PROVE IInv'
<1> USE DEF vars
<1>1. TypeOK' BY DEF IInv, TypeOK
<1>2. EpochKnown' BY DEF IInv, EpochKnown
<1>3. Flights' /\ Results' /\ Cached' BY DEF IInv, Flights, Results, Cached, Leaves
<1>4. EpochNamesRoots' BY DEF IInv, EpochNamesRoots, Stage
<1>5. ASSUME NEW x \in Callers
      PROVE  Rooted(call[x])' /\ Guarded(call[x])' /\ Loaded(call[x])'
  BY <1>5 DEF IInv, Rooted, Guarded, Loaded
<1> QED BY <1>1, <1>2, <1>3, <1>4, <1>5 DEF IInv

\* Every step keeps the invariant.
LEMMA NextKeeps == ASSUME ConstantsAreSound, IInv, [Next]_vars PROVE IInv'
<1>1. CASE Finished BY <1>1, StutterKeeps DEF Finished
<1>2. CASE ChangeRoots \/ Edit \/ InvalidateResets \/ InvalidateGuard
  BY <1>2, ChangeRootsKeeps, EditKeeps, InvalidateResetsKeeps, InvalidateGuardKeeps
<1>3. ASSUME NEW e \in Epochs, ClientAnswers(e) \/ FetchFails(e) \/ InvalidateCancels(e)
      PROVE  IInv'
  BY <1>3, FetchKeeps, InvalidateCancelsKeeps
<1>4. ASSUME NEW r \in Callers, Receive(r) \/ Withdraw(r) \/ Bridge(r) \/ Expire(r)
      PROVE  IInv'
  BY <1>4, ReceiveKeeps, MarksKeep
<1>5. ASSUME NEW r \in Callers, CallStep(r) \/ CargoStep(r)
      PROVE  IInv'
  BY <1>5, LookupKeeps, AwaitKeeps, StoreKeeps, GrantKeeps, FinishKeeps, PrepareKeeps,
     BypassKeeps, BypassEndsKeeps, ClaimKeeps, JoinKeeps, RunCargoKeeps, PublishKeeps
  DEF CallStep, CargoStep
<1>6. CASE UNCHANGED vars BY <1>6, StutterKeeps
<1> QED BY <1>1, <1>2, <1>3, <1>4, <1>5, <1>6 DEF Next

\* The invariant holds in every behaviour of the coordinator, the guard, the
\* calls and the metadata service.
THEOREM Invariance == Spec => []IInv
<1>1. Init => IInv BY InitHolds, SessionAssumption
<1>2. IInv /\ [Next]_vars => IInv' BY NextKeeps, SessionAssumption
<1> QED BY <1>1, <1>2, PTL DEF Spec

\* The coordinator, the guard, the calls and the metadata keep their shape
\* whatever the client declares and whenever (client_roots.rs, metadata.rs).
THEOREM TypesHold == Spec => []TypeOK
<1>1. IInv => TypeOK BY DEF IInv
<1> QED BY <1>1, Invariance, PTL

\* Once every change of the roots is through, a call whose epoch is not
\* cancelled holds the roots the client declares now.
LEMMA HoldsDeclared ==
    ASSUME ConstantsAreSound, IInv, Settled, NEW r \in Callers,
           Stage(r) \in Granted, call[r].tok \notin cancelled
    PROVE  supports => call[r].roots = declared
<1>1. call[r].tok \in Epochs /\ call[r].tok <= epoch
  BY CallTyped DEF IInv, Rooted
<1>2. call[r].tok \in Nat /\ epoch \in Nat
  BY <1>1 DEF IInv, TypeOK, ConstantsAreSound
<1>3. ~(call[r].tok < epoch) BY <1>1 DEF IInv, EpochKnown, Settled
<1>4. call[r].tok = epoch BY <1>1, <1>2, <1>3
<1> QED BY <1>4 DEF IInv, Rooted, Settled, Stage

\* A call works where the client and the configuration allow it now, and an
\* epoch of the guard names one set of roots, for any number of calls, roots
\* and changes (client_roots, invalidate, RootGuard::snapshot).
THEOREM AuthorityStaysCurrent == Spec => []AuthorityIsCurrent
<1>0. ConstantsAreSound BY SessionAssumption
<1>1. ASSUME IInv PROVE GrantsAreCurrent
  <2>1. SUFFICES ASSUME Settled, NEW r \in Callers,
                        Stage(r) \in Granted, call[r].tok \notin cancelled
                 PROVE  /\ \E c \in Configured : Within(c, call[r].work)
                        /\ supports => \E c \in declared : Within(c, call[r].work)
    BY DEF GrantsAreCurrent
  <2>2. PICK roots \in Answers : roots = call[r].roots BY <1>0, <1>1, CallTyped DEF IInv
  <2>3. roots \subseteq Seq(STRING)
    <3>1. <<>> \in Seq(STRING) OBVIOUS
    <3> QED BY <1>0, <3>1 DEF Answers, ConstantsAreSound, Unavailable, Unsupported
  <2>4. Configured \subseteq Seq(STRING) BY <1>0 DEF ConstantsAreSound
  <2>5. PICK g \in Effective(roots) : Within(g, call[r].work)
    BY <1>1, <2>1, <2>2 DEF IInv, Rooted, Stage
  <2>6. /\ GrantsInside(Configured, roots) /\ Effective(roots) \subseteq Seq(STRING)
    BY <1>0, <2>3, <2>4, GrantsLieInside DEF Effective
  <2>7. /\ \E c \in Configured : Within(c, g)
        /\ \E c \in roots : Within(c, g)
    BY <2>5, <2>6 DEF GrantsInside, Effective
  <2>8. call[r].work \in Seq(STRING) BY <1>1, <2>1 DEF IInv, Rooted, Stage
  <2>9. \E c \in Configured : Within(c, call[r].work)
    BY <2>4, <2>5, <2>6, <2>7, <2>8, WithinThrough
  <2>10. \E c \in roots : Within(c, call[r].work)
    BY <2>3, <2>5, <2>6, <2>7, <2>8, WithinThrough
  <2>11. supports => roots = declared BY <1>0, <1>1, <2>1, <2>2, HoldsDeclared
  <2> QED BY <2>9, <2>10, <2>11
<1>2. IInv => AuthorityIsCurrent BY <1>1 DEF AuthorityIsCurrent, IInv
<1> QED BY <1>2, Invariance, PTL

\* Metadata a call gets was read from the inputs it fingerprinted, whoever ran
\* cargo and whatever was edited meanwhile (acquire_inner).
THEOREM MetadataStaysFresh == Spec => []MetadataIsFresh
<1>1. IInv => MetadataIsFresh BY DEF IInv, Loaded, MetadataIsFresh
<1> QED BY <1>1, Invariance, PTL
=============================================================================
