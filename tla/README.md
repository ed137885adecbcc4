# Verification of agz-rust-mcp

agz-rust-mcp is a Model Context Protocol server for Rust projects. It admits tool calls, finds out which workspace a
call may touch, compiles and tests worktrees through a shared gate, keeps server-owned scratch changes, drives bounded
repair work, compares and profiles builds, resolves documentation, and supervises child processes and a small pool of
rust-analyzer instances. This directory holds TLA+ models of it, the TLC configurations that check them, and TLAPS
proofs about the core. `PROJECT.json` lists components, runs, mutants, findings, hazards and theorems, and maps the
definitions to the lines they model; a helper whose lines lie inside those of the operations that use it is not always
listed apart. Paths below are relative to `src/crates/agz-rust-mcp/src/` unless they begin with
`docs/`.

## Inventory

| Component | State | Interacts with | Hard part | Correct when |
|---|---|---|---|---|
| server admission, tasks (`server/admission.rs`, `tasks.rs`, `mod.rs`) | two semaphores, the retained-task list, the shutdown token | every tool; the SDK's task manager | shutdown between two halves of an admission | permits return, shutdown drains |
| server handler, responses (`server/handler.rs`, `response.rs`) | one call | all services | two layers of validation, many statuses, answers cut to a byte limit | no answer claims more than its service found |
| client roots (`server/client_roots.rs`) | epochs, one shared fetch of roots | handler, root guard | an answer of an older epoch | nothing runs under withdrawn roots |
| workspace (`workspace/`) | root guard, metadata cache and flights, input identities | all | caches and fingerprints stale when used | a call stays inside its roots; metadata and identities name their inputs |
| config (`config.rs`) | the settings of a process | all | three layers, links, paths not there yet | the server's files lie apart from the roots |
| gate leases (`gate/lease.rs`) | lease files shared by all server processes | scheduler | stat, read, unlink are separate; crashes | one job per worktree, no starvation |
| gate scheduler (`gate/scheduler.rs`, `tools/check.rs`) | job table, generations, subscriptions | leases, supervisor, identities | sources change under a running job | a verdict is about its sources |
| change (`change/service.rs`, `store.rs`, `runtime.rs`) | a record and a candidate tree on disk, locked per change | gate, work, repair, verify, runtime | crashes, failing writes, several processes, unlinked lock files | evidence and exports match the bytes |
| work (`work/service.rs`) | records in memory, stripes, tokens, budgets | change, gate | whole copies written back across awaits | READY is earned, tokens single-use |
| repair (`repair/`) | one call; scratch changes | change, gate | the workspace and the change move on between candidates | a selection or a reproducer was measured as it is |
| verify (`tools/verify.rs`, `gate/selection.rs`) | one call; scratch changes | gate, change | plans cut by budgets, edits between two runs | "full" and "satisfied" mean the whole |
| profile, runtime (`tools/profile.rs`, `runtime.rs`) | retained records, snapshots | gate, change | samples taken minutes apart | a claim compares like with like |
| process (`process/supervisor.rs`, `journal.rs`, `output.rs`) | active runs, process groups, a journal directory, bounded tails | gate, lsp, docs | crash of a server, failing kills, chunks cut anywhere | nothing survives unnoticed |
| diagnostics (`diagnostics/stream.rs`) | bounded evidence of one Cargo run | gate | the record limit | nothing dropped in silence |
| lsp manager (`lsp/manager.rs`) | instances by root, start and probe flights, leases | lsp client | state read before an await | one analyzer per root, leases respected |
| lsp client (`lsp/client.rs`) | pending requests, document snapshots, frame decoder | rust-analyzer | cancellation after a frame was written | what the client keeps is what the analyzer has |
| docs (`docs/resolver.rs`, `cache.rs`) | cached pages, generation flights | supervisor, cache | joining a generation, taking over a lock | a complete entry is whole, sources are the locked ones |
| cache (`cache/atomic.rs`, `retention.rs`) | published files, locks, leases | docs, gate, change | crash between rename and sync | readers see whole files |
| telemetry (`telemetry.rs`) | one log shared by processes | all | rotation by several writers | only the oldest events go |
| context (`tools/context.rs`, `context/`) | a bounded store of capsules, calls side by side | lsp, workspace, roots | files edited between two reads, pages cut to a budget | what changed is marked, what is cut is named or counted |
| api, migrate, symbol, audit, knowledge, xtask, npm | none, or of one call | | | see Not modelled |

## Modules

A step is what the code does between two awaits, or under one hold of a lock; a blocking file operation is a step of
its own wherever another process can see the state between two of them. Time is nowhere a number: a deadline is a step
that may happen whenever the code waits for it, which includes the outcomes of every setting of the timeouts.
Definitions marked "Mutant" are faulty variants used only to show that a property can fail. In the lists of `map`,
definitions for the SDK, Git, Cargo, the compiler, the analyzer and the operating system are marked external.

### Server

* **ServerAdmission**. `pc` is the handler of each call; `TryAcquire`, `CheckShutdown`, `Resolve`, `SpawnPermit` and
  `Spawn` are the awaits and lock sections of `call_tool` and `TaskAdmission::spawn`; `BeginShutdown` to
  `TasksShutdown` are the steps of `AppState::shutdown`. The SDK's task table is external: an entry appears at spawn,
  expires or is evicted.
* **WorkspaceSession**. The coordinator (`epoch`, `fetching`, `cached`), the tokens of the epochs, the guard's
  snapshot, the metadata flights and cache. A notification is three steps, `InvalidateResets`, `InvalidateCancels`,
  `InvalidateGuard`; calls of the old epoch are anywhere meanwhile. A metadata flight has an owner, who runs Cargo, and
  followers, who take it over when the owner is cancelled or its deadline passes (`Expire`: `MetadataError::TimedOut`
  is treated like a cancellation). A call in `Uncontrolled` acquires metadata without a control, as `handler.rs:5892`
  does: nothing ends its Cargo run, and `EveryCallEnds` exempts it and who waits for it.
* **WorkspaceSelect**. Which roots a client gets, the package a directory selects, the closure of manifests, as
  operators over one disk.
* **ServerConfig**. Layers, ranges, the resolution of paths through links and missing ends, and the rejection of
  overlaps; **ToolCall**, what the handler and then the service demand of the arguments, and one call from
  its arrival to its answer, with the outcomes of each service and the shrinking of the answer. What only a service
  refuses, with an INVALID result and not a protocol error, is kept apart from the shape of the arguments:
  ids of a foreign form (`ValidChangeId`, `ValidWorkId`), a consumer scope it does not support (`ScopeSupported`)
  and an anchor it cannot read (`AnchorReadable`).

### Gate, changes and work

* **GateLease**. A lease is a file with a record, an owner and an age. `Create`, `WriteRecord`, `Stat`, `Read`,
  `Remove`, `Poll`, `ReleaseRead` and `ReleaseRemove` are the system calls of `acquire`, `reclaim_dead_lease` and
  `release`; `Crash` and `WriteFails` are the faults. A failed write leaves an empty file, or, when only `sync_all`
  failed, a whole record of a process that lives and holds no lease. `probe` says whether `process_is_alive` can tell a
  dead process: it can on Linux only.
* **GateScheduler**. One server and worktree: `Prepare` hashes, `Join`/`Create` is `submit_at` under its lock,
  `Subscribe`, `Detach`, `Receive` are the caller's side, `AcquireLeases` to `Retire` is `execute_job` with the second
  hash, publication and removal as separate steps; `CloseScheduler` and `Closed` are `close`. There the identity of
  the sources is an opaque version.
* **InputIdentity** opens that version: the two passes of `compute_input_identity_inner` around a compilation, step by
  step (`RevParseHead`, `Diff`, `Others`, the walks, the configurations, each read with its budget), while files are
  written, deleted and committed between any two of them.
* **ChangeService**. One change on disk, several processes: `Load` to `DiscardSave` are the steps of the operations,
  `Sweep*` and `Recover` those of a starting process, `Crash` stops a process anywhere and frees its locks,
  `SaveFails` is a failed record write. File bytes are named after the operation that wrote them. A validation keeps at
  most 256 rows of evidence (`change/service.rs:1594`), so it may drop the row that proved an earlier gate.
* **ChangeLedger** is what a change promises: a sequence of whole revisions, the proof of the last one, and exports of
  proved revisions. A proof may be forgotten (`Forget`) and then has to be earned again. There is no lock, marker,
  evidence row or half of a stage in it. `ChangeService!ImplementsLedger`
  is `ChangeLedger!Spec` under a mapping that reads the revision and the bytes from the saved record and shows an
  inconsistent or discarded change as broken or closed.
* **WorkService**. `records` is the map of the service, `loc` the copy of each call. `Commit` and `SetState` are the
  two ways of writing back; `Drive` is the loop of stage and gates; `Cancel` and `Inspect` interleave at each await.
  `ChangeService` is seen through its answers (revision, refusal).

### Tools on top of the gate

* **VerifyPlan** computes matrix cells, impacted packages and test items as the code does, limits and warnings
  included; **VerifyRun** runs them, one step for the start and one for the end of each gate, and drives a candidate
  test through its probe, the baseline and the fixed runs.
* **RepairCandidates**. Ownership, grouping, guards and selection as operators, over patches reduced to counts of what
  the guards look for, and the loop that replays every candidate in a scratch change.
* **RepairMinimize**. The units of a plan (items, modules, files with their dependents), the halving search, the two
  confirmations, the budget of compiles and the export.
* **ProfileReport**, **ProfileRun**. The critical path, the conditions of a comparison and its verdict as operators;
  samples, retained records with eviction and two-sided comparison as steps. A gate run may be joined by another call,
  which leaves a second record, with an id of its own, of the same run (`JoinedRecord`). **RuntimeCompare**: the two snapshots of
  a change, verified byte for byte, gates and alternating samples.
* **ContextCapsule**. `disk` and `epoch` are the files and the roots, `store` the retained capsules in order of use,
  `calls` the calls. `Begin`, `NextAnchor`, `ReadNext` and `Finish` are `prepare` and `delta`, one step for each read
  of a file, since edits fall between them; `RefreshItem` and `Expand` are a page of a stored capsule; `Edit`,
  `RootsChange` and `Expire` are the surroundings. An excerpt has the version of its file and a weight instead of its
  text. Budgets, trimming, the list of omissions and the page cursor are computed as in the code; the purpose, the label of
  a change and the toolchain, which only enter the capsule's name, are left out.

These share two simplifications: a gate run that the sources changed under reports STALE, which is `SoundEvidence` of
GateScheduler, and a validated scratch copy holds one version of the sources, which is `CandidateBytes` of
ChangeService.

### Processes, pipes and files

* **ProcessSupervisor**. A run is a process group of a leader and descendants: `Reserve`, `Check`, `Spawn`, `Record`,
  the wait loop (`StopSeen`, `TimeOut`, `GraceEnds`, `PollExit`, ...), `Reap`, `Remove`; `Drop` is a future dropped at
  an await; `ReadEntry` to `RemoveEntry` is the recovery of the journal; `Crash` ends a server.
* **ProcessOutput** and **CargoStream**. Two readers that share a bounded channel and a collector, with chunks cut
  inside characters and escapes, reads that fail and a drain that ends at its deadline (`Finish`); lines, their limits
  and the bounded set of diagnostics in which errors displace warnings.
* **LspManager**. A call is one `with_client`: `TryLease`, `Acquire`, the start (`EnsureSchema`, `ProbeDone`,
  `EnsureCapacity`, `Spawn`, `Initialize`, `Abort`, `CompleteStart`), `Release`. Stops are `StopInstance`, `TaskStops`
  and `CloseStops`, ending in `StopDone` or `StopTimesOut`; `CloseAll` to `CloseReturns` is `close_all`, whose turns are
  abstracted (any order). Flights deliver their result to waiters in one step. `Spawn` gives the analyzer a process
  identity that no other has had.
* **LspFraming**, **LspClient**. The decoder over bytes that know their frame and part, with the four bytes of the blank
  line and a buffer of the largest header and body together; and the connection: writer,
  pending table, document locks and snapshots with incremental changes, requests of the analyzer, closing and shutdown.
* **AtomicPublish**. Lock, temporary, validation, rename and cleanup of two processes, with crashes, cancellations and
  the retention of a process that knows none of their leases: `SweepFinal`, `SweepTemp`, `SweepLock` and
  `SweepDirectory` are the removals of `remove_directory`, child by child and in any order, which may stop anywhere. A
  lock file is an identity of its own (`lockName` is the one under the name now), since the code locks what it opened.
  **ActivityLog**: `TakeMutex` and `LockLog` are the two locks of `record`, with `LockFails` for
  the deadline. Under them each file operation is a step, since a process may die between two (`LoggerDies`) and any may
  fail (`LogFails`): `RemoveExpiredArchive` for one archive, `MeasureLog`, `RotateLast`, `MoveArchive` for one rename,
  `AppendEvent`. Either may cut the line being appended short (`MayCut`). `flush` only synchronises and changes nothing
  modelled.
* **DocsResolver**. `rq` is a request on its chain of providers (`ProviderStep`), `table` and `fl` the generations of a
  server with their subscribers (`Join`, `Subscribe`, `Wait`, `Release`, `Drain`), `disk`, `lockFile` and `holder` the
  entries with their pages, markers and generation locks. `OpenLock` to `Leave` are the worker: lock files are opened and
  locked in two steps, because another process may unlink one in between, and retention removes an entry page by page.
  A request that stops waiting has chosen to before it takes the lock of the flight, so `Release` is a step of its own.
  **DocsSources**: which locked package, which source roots and which files
  enter the fingerprint, over small trees of manifests with their members, inherited, patched and replaced
  dependencies, and the cases in which a pattern or a checkout refuses the request. The files hashed are `Cargo.toml`,
  `Cargo.lock`, `build.rs` and `*.rs` outside `.git`, `target`, `vendor` and `node_modules`.
  The second prune of `publish_pages` (`docs/cache.rs:274`) repeats the first and is not a step.

### Compositions

`MCServer`, `MCAnswers` and `MCFilesAndPipes` check several components in one run. Their components share no modelled
state, so a behaviour shows one of them, the `subject`, while the variables of the others rest: nothing a property of
one says can depend on a step of another, and the product of their state spaces would add only interleavings of
independent steps. `MCServer` has what a call passes before its tool runs, `MCAnswers` what the answers of the tools
claim, `MCFilesAndPipes` what crosses a file or a pipe.

## Runs

| Run | Bounds | Shows |
|---|---|---|
| `server` | 3 calls, 2 in flight, 1 active and 1 retained task; or 2 calls on a tree of 3 directories, 1 change of roots, 1 edit of the manifests | permits do not leak and the shutdown drains; a call's authority is current, metadata belongs to its fingerprint, every call ends that has a control |
| `lease` | 3 jobs in 2 processes, 2 worktrees, 2 slots, 2 faults, with and without a probe for dead processes | exclusion before the first fault; with faults every job settles and dead leases are reclaimed, but for stranded leases |
| `lease_reclaim` | 3 jobs on one worktree, 1 crash | **violated**: two reclaimers of one dead lease both enter |
| `scheduler` | 2 requests, 2 commands, 1 edit, 1 cancel, failures, close | a verdict is of the request's command on the sources it hashed |
| `scheduler_live` | 2 requests, 1 command, 1 dirty mark, close | every request is answered and close returns |
| `change` | 4 operations, 2 processes, 2 files, 2 revisions, 1 crash, 2 failed writes | bytes, exclusive writers, exports; the service implements the ledger |
| `change_inspect` | as above, no faults of the store | **violated**: inspect answers verified after a stage failed half way |
| `process` | 2 servers with one run each, 1 failing call, crashes | journal, cleanliness and reports; a stop ends its run |
| `work` | 3 calls, 1 change, 2 gates, 2 candidates, budgets 2/2/1, 1 event | READY, tokens, cancellation |
| `lsp` | 3 calls, 2 roots, room for 1 instance, 2 spawns, 1 event, close | every analyzer has one owner; calls do not disturb each other |
| `answers` | per subject, see below | an answer never says more than what was run on the bytes it names |
| `files_and_pipes` | per subject, see below | what the other side reads is whole, in order and attributed to its source |

The largest runs have 3.6 million (`lsp`), 2.9 million (`scheduler`), 2.7 million (`answers`) and 2.6 million
(`files_and_pipes`) distinct states and take up to four minutes.

A lease is stranded when no rule of the code lets anybody remove it: a record of a living process that holds no lease,
because `sync_all` failed after it was written, and off Linux any record of a process that died (`lease.rs:311`:
"Manual recovery may be required"). `EveryJobSettles` and `DeadLeaseReclaimed` exempt who waits for one, and nothing
else: an empty file left by a failed write is reclaimed by its age on every system.

Bounds of `answers`: 8 records, 8 calls and 9 candidates that fix, half fix, break a test, trip a guard or are equal
up to order (repair); 13 configurations, arguments of every tool with every subset of their optional
fields (tool: the server's own files lie apart from the roots, and what was accepted is valid); 2 versions of a
workspace of three packages, 9 matrix and 11 test requests, 10 gate outputs (verify); 2 roots, up to 2
records left by earlier calls, 2 samples a side, 3 runs, of which another call may join one at a time (`Joinable`), table of 3 records (profile); 6 change records, 2 samples a
side (runtime); a crate of 8 items in 3 files with 3 failures and budgets of 1, 3, 12 and 14 compiles (minimize); all
placings of manifests, links and repositories in a tree of 4 directories (selection), dependencies, members and
workspaces of one package (closure), all build graphs of up to 3 units, cycles included (path); 2 files in 2 versions, 1
edit, 1 change of roots, with either one call after another on every kind of anchor and a store of 1, or two side by
side on file anchors, 3 in all, and a store of 2, budgets that shrink and remove items, a list of 3 omissions and 1
entry of a delta (context).

Bounds of `files_and_pipes`: 3 publishers in 2 processes, 1 crash, cancellation or stale temporary, retention that
passes through 1 directory (`MaxRemoved`) and removes each name at most once; 3 loggers in 2 processes, 5
events, 1 event a file, 3 archives or none (which `rotate` handles although `config.rs` asks for one), 1 death and any
number of failing operations, all servers with the same `max_archives`; 2 requests of one or two processes for one or two documentation
entries of 2 pages with up to 2 cancellations, deadlines or crashes; some thousand trees of 8 directories with their
manifests and lock files; 6 pairs of output streams in chunks of 1, 2 and 4 bytes with tails of 6 and a channel of
3 events; logs of 3 Cargo lines with room for 2 diagnostics; all streams of 2 or 3 of 8 frames and one of 4 in reads of
1, 3, 8 and 20 bytes, body limit 3, header limit 6, which makes the buffer 9; 9 conversations of 3 tasks with the
analyzer; a Cargo workspace, a path dependency beside it inside the authorised directory and one outside, with a
repository that begins at the workspace, at the authorised directory or above, or none, 2 edits while the computation
is still complete, 3 files that may be created (`Creatable`), 1 failing probe.

Why the bounds suffice: each hazard involves two actors and a third party that changes the state between their steps,
so every run has two or three actors, a limit that two of them already exceed, and at least one fault, cancellation,
edit or crash that can fall between any two steps. Table limits of 1 and 2 make eviction, refusal, joining and waiting
happen. Two files and two revisions let an operation stop half way and be mistaken for an earlier or later one. Inputs
of the functions include each case the code tells apart. Every property of a passing run is broken by a mutant of the
code's control, so none holds for lack of behaviour. Symmetry is used only on interchangeable requests, calls and
files, and only in runs without liveness. Deadlock is checked in `server`, `lease`, `scheduler`, `scheduler_live` and
`lsp`, where a behaviour that rests ends in a stuttering step that requires every call to have returned; in the other
runs bounded events run out, single calls end, and a system that rests is normal.

### Fairness

* `ServerAdmission`, `GateScheduler`: weak fairness of each handler, job and of the closing task: the tokio scheduler
  runs every woken task. A handler need not be called (`idle` is not fair), a running tool need not end by itself, only
  after the token is cancelled, which every tool watches.
* `WorkspaceSession`: weak fairness of each step of a call, of the bridge that cancels the work of an old epoch, of the
  three steps of an invalidation, and of the failure of a fetch of roots, because the SDK gives the request five
  seconds; of the deadline of a controlled call (`Expire`), and of the end of a Cargo run only once its call was
  stopped, since the supervisor then kills it. Cargo need not end by itself. The client need not answer, change its
  roots or cancel.
* `GateLease`: weak fairness of a job's steps (its poll loop sleeps and retries) and of ageing. A job is not assumed
  to win a race for a file; that everyone settles follows because each holder releases. Crashes are not fair.
* `ProcessSupervisor`: weak fairness of a run's own loop, which polls with a timer. The operating system is assumed
  to let a killed process die; exits of healthy processes and servers' actions are not fair.

### Findings

1. `lease_reclaim` (`gate/lease.rs:246`): removal by path of a dead lease may hit a fresh one.
2. `change_inspect` (`change/service.rs:2946`): fresh evidence survives a stage that failed half way.

### Further disagreements, outside the runs

Each was met while modelling. The model has the code's behaviour and the properties are stated so that they hold with it.

* `gate/scheduler.rs:620`: a request that hashed older sources supersedes the job on newer ones; the reason it gives,
  `:69`, speaks of a newer input (`GateScheduler!SupersededByNewerOnly` fails).
* `lsp/manager.rs:2122`: with `max_instances = 1` two first calls on two roots both start an analyzer, since the rank
  rule ignores starts that are already spawning (`LspManager!InstanceLimit` fails); `docs/tools.md:490` calls it a limit.
* `gate/lease.rs:212`: a failed `sync_all` returns an error and leaves the whole record of a living process, on which
  every other job of the worktree waits until that process ends. `:311`: off Linux a crash leaves a lease for good.
* `server/handler.rs:5892`: `explain` acquires metadata without cancellation or deadline, so a `cargo metadata` that hangs
  keeps the call, and those that joined its flight without a control, for good.
* `lsp/manager.rs:2198`: an eviction whose deadline passes leaves the instance marked as stopping.
* `lsp/client.rs:787`, `:800`: neither the request timeout nor the cancellation covers the write, so an analyzer that
  stops reading blocks the writer and with it shutdown outside the manager's timed stop (`docs/architecture.md:65`).
  `:1107`: a notification cancelled after its write has reached the analyzer although the snapshot was not kept;
  `ClientAgrees` exempts exactly that document. `:1166`: document locks are never dropped, since nothing closes documents.
  `:135`, `:220`: the buffer holds one largest header and body, so more frames than one read may yield overflow it, and
  a header within four bytes of its limit is accepted or refused depending on where a read ends; `FramesAreWhole`
  speaks of shorter headers, and of the frames before an overflow.
* `workspace/identity.rs:858`: where the repository begins above the authorised boundary, the names of
  `git diff --name-only` are joined to a directory they are not relative to, and a changed tracked file that is not
  Rust source is not hashed (`docs/architecture.md:55`). A commit between `rev-parse HEAD` and `git diff HEAD` of the second
  pass hides such an edit too. `IdentityBindsInputs` exempts both, files that Git ignores, the skipped directories and
  contents that return to an earlier version. `:620`: without a HEAD, or with the repository above the boundary, only the
  Cargo workspace is walked, and a path dependency or member inside the worktree but outside of it is no external root
  either (`workspace/metadata.rs:1457`), so its edits go unseen, against `tools/check.rs:574`. `Covered` leaves these out.
* `cache/retention.rs:402`: a pass of another process unlinks a lock file that a writer holds, and a second writer then
  locks a fresh file beside it: each may remove or rename what the other is writing, and a half-written artifact can be
  published. `ArtifactIsWhole` claims whole artifacts only while no lock file was unlinked under a living call.
* `process/output.rs:57`: a read that fails sends its error and then the end of the stream, so the result has a complete
  drain and `output_truncated` false on part of the output; only the warnings tell. `OutputIsHonest` counts them.
* `docs/cache.rs:514`: the unlinking of a lock file admits two generators; `cache/retention.rs:62`: leases are known to
  their process only, so retention can remove pages under a marker. `GenerationIsSound` exempts entries so disturbed.
* `work/service.rs:652`: an expired continuation token is answered BLOCKED (`docs/tools.md:272`: STALE). `:411`:
  `work.max_active` is checked and used in two critical sections. `:1224`: READY may be told although a cancel was recorded.
* `repair/model.rs:314`, `repair/guards.rs:6`: the impact on the public API is counted as a union, so a candidate that
  repeats an item of the change counts as having none (`RepairCandidates!NoImpactAccepted` fails).
  `repair/service.rs:1233`: improvement is measured on the first 32 diagnostics of a run.
* `tools/verify.rs:3762`: the base of a candidate is compared with the workspace when its probe is created and not
  again, so an edit made later leaves SATISFIED; `CandidateIsProved` speaks of the base of the change.
  A candidate run that was cancelled or timed out with `repeats = 1` reads as VIOLATED; the cells of a
  matrix do not compare their input identities; feature groups beyond the limit are dropped with a warning.
* `tools/profile.rs:742`: a toolchain probe that failed is cached as unavailable. `tools/runtime.rs:545`: a candidate gate
  that ran out of time rejects the candidate. `tools/profile.rs:1864`: the samples of a named baseline are told apart by
  their ids, which are salted with the time, so two calls that joined one gate job (`gate/scheduler.rs:612`) count as
  two samples although they are one measurement; `ProfileIsHonest` asks for different runs of the candidate's side only.
* `tools/context.rs:139`: a second citation of a file overwrites the first, so a file edited during a collection leaves
  items whose hash is not the one in `identity.source_hashes`. Two capsules of one name can then differ in their items, and
  a delta between them says that the identity is unchanged; `CapsuleIsHonest` exempts capsules so torn. An `expand`
  whose list of omissions is full drops further items uncounted, and the `nextCursor` of a trimmed page skips the
  items that were trimmed, which are listed as omissions.
* `telemetry.rs`: a line cut by a crash or a failed write shares its line with the next event; a crash in a rotation drops an archive early.

## Proofs

The theorems hold for all values of the constants that satisfy the named `ASSUME`s (finite sets of actors, natural
bounds, "none" values that are no member). Each is proved from an inductive invariant
`IInv`: `Init => IInv`, `IInv /\ [Next]_vars => IInv'`, `IInv => property`.

* **ServerProofs**, about ServerAdmission: `PermitsNeverLeak`, `TasksStayBounded`, `TypeCorrect`. A permit is modelled
  by its holder, and the sets of holders are tied to the stages of handlers and futures; the bound of the task table
  needs that the retained list covers what the SDK lists at each spawn (`Bounds`). About WorkspaceSession:
  `AuthorityStaysCurrent`, `MetadataStaysFresh`, `TypesHold`, assuming that directories are sequences of names and that
  the marks for "nothing", "sent" and "failed" are no results. A cached list of roots carries the epoch it was fetched
  in (`EpochKnown`, `Cached`, `EpochNamesRoots`); a call's own copy is of an epoch that is current or cancelled
  (`Rooted`, `Guarded`); the result of a flight is of the inputs its owner saw before and after Cargo ran (`Flights`,
  `Results`, `Loaded`).
* **GateLeaseProofs**: `LeasesExclude`, `NothingLeftBehind`, under `NoStalls`. Ownership is a correspondence of files
  and jobs in both directions (`OwnerHasFile`, `FileHasOwner`); before a fault nobody sees a stale file
  (`NothingStale`), so nobody is about to remove one. After the first crash exclusion fails (finding 1), and the
  theorems say nothing.
* **GateSchedulerProofs**: `VerdictsAreSound`, `LiveJobsShareInput`, `CloseReachesEveryJob`. A live job is always
  listed (`LiveIsListed`), although `insert` may replace a cancelled one; what a job saw of the sources (`Seen`) binds
  its verdict (`Verdicts`), the result it publishes (`Bound`) and the answers of those who joined (`Answers`).
* **ChangeServiceProofs**: `ReadyBytesAreRecorded`, `FreshEvidenceIsCurrent`, `WritersAreAlone`, `ExportsAreChecked`,
  `RecordsMoveForward`, `TypesHold`, `ServiceImplementsLedger`. Exclusion does not follow from the lock alone since lock
  files are unlinked: `Own` adds what a remover, and an operation that has begun, still rely on. `Dwindles` is needed
  because a sweep deletes files under fresh evidence: they may only disappear, never change. `ServiceImplementsLedger` is the refinement of
  ChangeLedger: every step of an operation, a sweep, a crash or a failed write is a step of the ledger or leaves it as it
  is. It needs two more facts: an operation answers once (`AnswersOnce`), and one that applies a stage has a file left
  to write or has written one (`StagesWork`), so a stage that fails half way leaves a change the ledger shows as broken.
* **ProcessSupervisorProofs**: `LeadersStayInJournal`, `CleanRunsAreDead`, `ReportsAreTrue`, `RecoveriesSpareTheLiving`,
  `TypesHold`. `Killed` and `Orphans` record what each stage of a run and of a recovery has established; `Emptied` makes
  a report true from then on.
* **WorkServiceProofs**: `ReadyIsEarned`, `BudgetsAreKept`, `TokensAreSingleUse`, `CancellationsTakeEffect`,
  `TypesHold`. A copy is no older than what it will overwrite in what matters (`Copies`, `Counted`), at most one call
  drives a work (`OneDriver`, `Stripes`), a token that is stored is not in use elsewhere (`OpenHandoff`, `Tokens`,
  `FreshTokens`), and passed gates are of the copy's revision (`Earned`). Two lemmas on the shapes of steps (`Drives`,
  `Turns`) carry the cases.
* **LspManagerProofs**: `EveryAnalyzerIsOwned`, `CallsDoNotDisturb`, `LeasesAreCounted`, `TypesHold`. An open analyzer
  has exactly one holder, the start that spawned it or the table of instances: `Flights` ties flights to the calls
  that lead them, `Roles` the stage of a call to its flight, `Holders` the processes to starts and instances, `Closes`
  says what `close_all` still has to take. `Counted` makes the number of leases the number of calls that hold one, from
  which follows that a stop waits for them (`LeaseBlocksStop`).
* **FilesProofs**, about what is left on disk. AtomicPublish: `ArtifactsAreWhole`, `LocksExclude`. A living call past
  its file lock is alone on the lock file it opened (`LockIsHeld`, `OneWriter`), whatever retention unlinks. That file is
  also the one under the name in the directory as long as no lock was unlinked under a living call (`LockIsNamed`), and
  only then is a call alone in its directory (`Alone`): its temporary is its own until the rename although others remove
  stale ones (`TempsAreOwned`), it is whole when it is renamed (`TempsAreWhole`), and the path it renames to is free
  (`FinalIsOwned`). Retention may take any of these files away and never changes one (`SweepKeeps`).

  ActivityLog: `TheLatestAreKept`, for every `max_archives` and every `retention_bytes` that holds one event, which
  `LogAssumption` asks and `config.rs:714` enforces. The property alone is not inductive, because a rotation has moved
  some archives and not others: a living task among the files holds the lock (`LoggerIsAlone`), the place it moves a
  file to is empty and the log it appends to has room (`StageIsReady`), and no file lies beyond the limit or holds what
  was not recorded (`FilesInUse`). Whoever dies or fails leaves an empty archive between two others, which the order of
  the files and the absence of gaps both survive. That the files hold the end of the history is stated file by file
  (`LogIsOrdered`, `OldestGoFirst`), so no induction over the archives is needed; an event may be missing between two
  that are kept only if it had been found older than `retention_age`.

  DocsResolver: `GenerationsAreSound`, from `DocsAssumption` (finite sets, each case of `Starts` gives every request an
  entry). For the marker: a living generation past its lock holds the file under the name of its entry, unless the entry
  is recorded as disturbed (`LocksAreHeld`), and what it has published stays until it marks the entry (`PagesAreThere`).
  For cancellation: a request starts at most one generation (`StartsOnce`), which needs that its chain has one local step
  (`OneLocalStep`), generations in use were started (`FlightsExist`), and the count of subscribers is their number, so it
  reaches zero only when nobody waits (`SubscribersCount`).

Only model-checked:

* all liveness (`ShutdownDrains`, `EveryCallEnds`, `EveryJobSettles`, `DeadLeaseReclaimed`, `EveryRequestAnswered`,
  `StopEndsRun`), since the prover does not handle fairness and ENABLED;
* the properties of `answers`, and `SourcesAreBound`, `OutputIsHonest`, `FramesAreWhole`, `ClientAgrees` and
  `IdentityBindsInputs` of `files_and_pipes`. What they say rests on what a recursion or a fold over plans, records, bytes,
  lines, frames, changes or directory trees computes (VerifyPlan, RepairCandidates, CargoStream, LspFraming,
  ContextCapsule and the others), and proving that for every input needs induction over data, which this prover cannot
  instantiate.

## Not modelled

* Parsing, rendering and formatting: single diagnostics, docs HTML, symbol and navigation answers, item signatures
  (`tools/api.rs`), source transformations (`change/migrate.rs`), URI and position conversion. They
  are functions of text; where a decision depends on one, the model has its outcome.
* Static texts, platform calls below the supervisor (root-bound spawn, Windows job objects), measurement, release and
  packaging tooling.
* Within modelled components: the wording of handoffs, the scope of paths of a work (a candidate is inside or not), pid
  reuse, descendants that leave their process group, the acquisition of an analyzer without a lease, progress
  notifications, the limit on active changes, the age and size accounting of retention (which entry is pruned is a
  choice), ".." in configured paths, the depth of walks and untracked nested repositories in an identity.
* Calls that only tests make: `mark_dirty`, `clear` and `is_current` of the metadata service, `close_document`.
* A child between its spawn and its journal record (`process/supervisor.rs:702`) is modelled, but nothing in the code
  covers it: `LeaderInJournal` begins with the record.

## Plan

1. GateLease as the refinement of one mutex per worktree until the first fault.
2. The steps of RepairCandidates and RuntimeCompare that do not fold over data, as lemmas about their control.
