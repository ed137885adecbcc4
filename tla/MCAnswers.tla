----------------------------- MODULE MCAnswers -----------------------------
(***************************************************************************)
(* TLC instance of what the answers of the tools claim: the start of a     *)
(* server and the way of a call through it (ToolCall), matrices, suites    *)
(* and candidate tests (VerifyRun), build profiles (ProfileRun), runtime   *)
(* comparisons (RuntimeCompare), the selection of a repair                 *)
(* (RepairCandidates), the reduction of a failure (RepairMinimize) and     *)
(* context capsules (ContextCapsule);                                      *)
(* and, one input at a time, functions behind them: the package that a     *)
(* directory selects, the manifests it loads (WorkspaceSelect) and the     *)
(* critical path of a build (ProfileReport).                               *)
(*                                                                         *)
(* Each is one call, and the calls share no state that is modelled here,   *)
(* so a behaviour shows one of them, the subject, while the others rest:   *)
(* nothing that a property of one of them says could depend on a step of   *)
(* another.                                                                *)
(***************************************************************************)
EXTENDS RepairCandidates, TLC

CONSTANTS NoValue, Unparsable   \* of ToolCall

VARIABLES subject, sample,
    config, services, free, closing, dropped, toolCall,
    source, cancelled, expired, call, change, probe,
    sources, epoch, aborted, timedOut, toolchain, evidence, ids, calls, moves,
    profile,
    staged, copy, halted, tooLate, scratch, runtime,
    task, failure, ended, overdue, noise,
    files, written, rootEpoch, capsules, asked, contextCalls

toolVars == <<config, services, free, closing, dropped, toolCall>>
verifyVars == <<source, cancelled, expired, call, change, probe>>
profileVars == <<sources, epoch, aborted, timedOut, toolchain, evidence, ids,
                 calls, moves, profile>>
runtimeVars == <<staged, copy, halted, tooLate, scratch, runtime>>
minimizeVars == <<task, failure, ended, overdue, noise>>
contextVars == <<files, written, rootEpoch, capsules, asked, contextCalls>>

-----------------------------------------------------------------------------
(* RepairCandidates: a change with one patch that adds an unsafe block and *)
(* a public item; candidates that fix, half-fix, break a test, add a       *)
(* clone, remove an assertion, or are the same twice.                      *)

With(name, kind, n) == [Text(name) EXCEPT !.tokens = [k \in {kind} |-> n]]
Patch(old, new) == [file |-> "lib", old |-> old, new |-> new]
BasePatch == Patch(Text(1), [With(2, "unsafeAdded", 1) EXCEPT !.api = {"shared"}])
Fix == <<Patch(Text(10), Text(11))>>
SmallFix == <<Patch([Text(10) EXCEPT !.lines = 0], Text(12))>>
HalfFix == <<Patch([Text(10) EXCEPT !.lines = 0], [Text(13) EXCEPT !.lines = 0])>>
BreaksTest == <<Patch(Text(10), [Text(14) EXCEPT !.lines = 0])>>
Unsafe == <<Patch([Text(10) EXCEPT !.lines = 0], With(15, "unsafeAdded", 1))>>
NoAssert == <<Patch(With(10, "assertionRemoval", 1), [Text(16) EXCEPT !.lines = 0])>>
SameApi == <<Patch([Text(10) EXCEPT !.lines = 0], [Text(17) EXCEPT !.api = {"shared"}, !.lines = 0])>>
TwoParts == <<Patch(Text(20), Text(21)), Patch(Text(22), Text(23))>>
MCHosts == [fix |-> Fix, small |-> SmallFix, half |-> HalfFix, test |-> BreaksTest, unsafe |-> Unsafe,
            assertion |-> NoAssert, api |-> SameApi, two |-> TwoParts, owt |-> <<TwoParts[2], TwoParts[1]>>]

Diag(level, code, file, line, symbol) == [level |-> level, code |-> code, file |-> file, line |-> line, symbol |-> symbol]
Broken == <<Diag("error", "E0382", "lib", 10, 30), Diag("error", "E0425", "lib", 20, 31), Diag("warning", "W", None, 0, 0),
            Diag("error", "E0425", "lib", 21, 0)>>
Passes == [build |-> "ok", gate |-> "PASS", diagnostics |-> <<>>]
MCVerdicts ==
  [h \in {CandidateHash(MCHosts[n]) : n \in DOMAIN MCHosts} \union {CandidateHash(<<MechanicalPatch(Broken[n])>>) : n \in 1..2}
           \union {CandidateHash(Fix \o SmallFix)} |->
     CASE h = CandidateHash(HalfFix) -> [Passes EXCEPT !.diagnostics = <<Broken[2]>>]
       [] h = CandidateHash(BreaksTest) -> [Passes EXCEPT !.gate = "FAIL"]
       [] h = CandidateHash(TwoParts) -> [build |-> "failed", gate |-> "FAIL", diagnostics |-> Broken]
       [] OTHER -> Passes]

Row(revision, status) == [revision |-> revision, fresh |-> TRUE, authoritative |-> TRUE, status |-> status,
                          omitted |-> FALSE, diagnostics |-> IF status = "FAIL" THEN Broken ELSE <<>>]
Rec == [state |-> "ready", revision |-> 2, base |-> 1, patches |-> <<BasePatch>>, cut |-> FALSE, newFiles |-> 0,
        warnings |-> FALSE, rows |-> <<Row(1, "PASS"), Row(2, "FAIL")>>]
MCRecords == {Rec, [Rec EXCEPT !.newFiles = 2], [Rec EXCEPT !.rows = <<Row(1, "FAIL"), Row(2, "PASS")>>],
              [Rec EXCEPT !.rows = <<Row(1, "FAIL")>>],
              [Rec EXCEPT !.cut = TRUE], [Rec EXCEPT !.rows = <<[Row(2, "FAIL") EXCEPT !.omitted = TRUE]>>],
              [Rec EXCEPT !.rows = <<[Row(2, "FAIL") EXCEPT !.fresh = FALSE]>>], [Rec EXCEPT !.state = "broken"]}

Call(action, testTarget, given) ==
  [action |-> action, testTarget |-> testTarget, given |-> given, requested |-> {}, maxCandidates |-> 4, maxCompiles |-> 3]
MCCalls ==
  {Call("analyze", FALSE, <<>>), Call("compare", FALSE, <<"half", "fix", "small">>),
   Call("compare", TRUE, <<"test", "unsafe", "fix", "assertion">>), Call("compare", FALSE, <<"two", "owt", "fix">>), Call("compare", FALSE, <<"api">>),
   [Call("compare", FALSE, <<"test", "half">>) EXCEPT !.maxCandidates = 1],
   [Call("compare", FALSE, <<>>) EXCEPT !.requested = {[kind |-> "code", code |-> "E0425"]}],
   [Call("try", FALSE, <<>>) EXCEPT !.maxCompiles = 1, !.requested = {[kind |-> "group", group |-> 1],
                                                                     [kind |-> "id", id |-> <<"gone", None, 0>>]}]}
MCPackages == {<<>>, Fix \o SmallFix}
MCAssists == {<<>>, <<Fix, Fix>>}

-----------------------------------------------------------------------------
(* ToolCall: layers, disks, arguments and payloads.                        *)

MCSwitches ==
    {"check", "profile", "audit", "crate_lookup", "docs", "context", "api",
     "explain", "verify", "change", "work", "repair", "rename", "refactor",
     "lsp", "telemetry", "gate.own_cache"}
MCNumbers == {"limits.max_active_tasks", "limits.max_retained_tasks",
              "profile.runtime_min_samples", "profile.runtime_max_samples"}
MCOwnedPaths == {"docs.cache_dir", "gate.lease_dir",
                 "gate.cache_dir", "change.scratch_dir", "telemetry.path"}
MCRootLists == {"server.allow_roots", "server.allow_dependency_roots"}

MCLeast == [n \in MCNumbers |-> 1]
MCGreatest == [n \in MCNumbers |-> 3]

\* /home/repo and /var exist; /link stands for /home/repo.
MCDirs == {<<>>, <<"home">>, <<"home", "repo">>, <<"var">>}
MCLinks == (<<"link">> :> <<"home", "repo">>)

MCDefaults ==
    [s \in MCSwitches |-> TRUE] @@ [n \in MCNumbers |-> 2]
    @@ [p \in MCOwnedPaths |-> <<"var", p>>] @@ [r \in MCRootLists |-> {}]

NoLayer == [s \in {} |-> TRUE]
AllowRoots == "server.allow_roots" :> {<<"home", "repo">>}

Launch(file, env, cli, adapters) ==
    [file |-> file, env |-> env, cli |-> cli, adapters |-> adapters]

Log == "telemetry.path" :> <<"link", "log">>
Adapter == [name |-> "a", workloads |-> <<"w">>]

MCLaunches ==
    {Launch(AllowRoots, NoLayer, NoLayer, <<Adapter>>),
     Launch(AllowRoots @@ Log, NoLayer, NoLayer, <<>>),
     Launch(AllowRoots @@ Log, "telemetry" :> FALSE, NoLayer, <<>>),
     Launch(NoLayer, "server.allow_dependency_roots" :> {<<"home">>},
            "docs.cache_dir" :> <<"home", "repo", "target">>, <<>>),
     Launch(AllowRoots, "limits.max_active_tasks" :> 3, NoLayer, <<>>),
     Launch(AllowRoots, "limits.max_active_tasks" :> 3,
            "limits.max_retained_tasks" :> 3, <<>>),
     Launch(AllowRoots, "lsp" :> Unparsable, NoLayer, <<>>),
     Launch(AllowRoots, NoLayer, "work" :> Unparsable, <<>>),
     Launch(AllowRoots @@ ("change" :> FALSE), NoLayer, NoLayer, <<>>),
     Launch(AllowRoots, "change" :> FALSE, "change" :> TRUE, <<>>),
     Launch(AllowRoots, "work" :> FALSE, "repair" :> FALSE, <<>>),
     Launch(AllowRoots, NoLayer, NoLayer, <<Adapter, Adapter>>),
     Launch(AllowRoots, NoLayer, NoLayer, <<[Adapter EXCEPT !.workloads = <<>>]>>)}

Arguments(t, a, fields, targets, options) ==
    [tool : {t}, action : {a}, has : SUBSET fields,
     bad : {{}, {CHOOSE f \in fields : TRUE}},
     alien : {{}, fields \cap {"changeId", "workId", "path", "consumerScope"}},
     target : targets, opts : options, parses : {TRUE}]

SomeTargets == {"check", "test", "fmt", "all"}
SomeOptions == {{}, {"cargoTarget"}, {"packages", "cargoTarget"}, {"testFilter"},
                {"allFeatures", "features"}}

ToolArguments ==
    Arguments("check", "run", {"dir"}, SomeTargets, SomeOptions)
    \cup UNION {Arguments("profile", a, {"changeId", "benchmarkSpec", "correctnessGate",
                                     "baselineEvidence"}, {"check", "all"}, {{}})
                : a \in {"build_analyze", "build_compare", "runtime_compare"}}
    \cup UNION {Arguments("verify", a, {"changeId", "testPatch", "behaviorContract"},
                      {"test"}, {{}}) : a \in {"matrix", "test_candidate"}}
    \cup UNION {Arguments("context", a, {"anchors", "capsuleId", "previousCapsuleId"},
                      {"check"}, {{}}) : a \in {"prepare", "expand", "delta"}}
    \cup UNION {Arguments("api", a, {"symbol", "snippets", "path"}, {"check"}, {{}})
                : a \in {"resolve", "probe"}}
    \cup UNION {Arguments("explain", a, {"symbol"}, {"check"}, {{}})
                : a \in {"cfg", "macro", "trait"}}
    \cup UNION {Arguments("change", a, {"changeId", "expectedRevision", "baseIdentity",
                                    "patches", "anchor", "transformation", "consumerScope"},
                      {"check", "fmt"}, {{}, {"cargoTarget"}})
                : a \in {"create", "stage", "inspect", "export", "discard",
                         "migrate", "validate"}}
    \cup UNION {Arguments("repair", a, {"candidates", "failurePredicate", "testTarget"},
                      {"check"}, {{}}) : a \in {"analyze", "evaluate", "minimize"}}
    \cup UNION {Arguments("work", a, {"intent", "workId", "continuationToken", "changeId"},
                      {"check"}, {{}}) : a \in {"start", "resume", "inspect", "cancel"}}
    \cup UNION {Arguments(t, "run", {"name"}, {"check"}, {{}})
                : t \in {"audit", "crate_lookup", "docs", "symbol", "rename"}}
    \cup {[tool |-> "check", action |-> "run", has |-> {}, bad |-> {}, alien |-> {},
           target |-> "check", opts |-> {}, parses |-> FALSE]}

MCPayloads ==
    {[data |-> d, warnings |-> w, summary |-> s, truncated |-> FALSE] :
        d \in {<<>>, <<9, 40>>}, w \in {<<>>, <<6>>}, s \in {30}}

Tool == INSTANCE ToolCall WITH
    Switches <- MCSwitches, Numbers <- MCNumbers, Least <- MCLeast,
    Greatest <- MCGreatest, OwnedPaths <- MCOwnedPaths, RootLists <- MCRootLists,
    Dirs <- MCDirs, Links <- MCLinks, MaxAdapters <- 2, Defaults <- MCDefaults,
    Launches <- MCLaunches, Inputs <- ToolArguments, Payloads <- MCPayloads,
    MaxBytes <- 40, Envelope <- 4, MinChars <- 2, MaxRounds <- 6, None <- NoValue,
    cancelled <- dropped, call <- toolCall

-----------------------------------------------------------------------------
(* VerifyRun: two packages, app using core; the second version of the      *)
(* source adds a test target to app.                                       *)

CargoTarget(name, kind, test, doctest, path) ==
  [name |-> name, kind |-> kind, test |-> test, doctest |-> doctest, path |-> path]
Core == [member |-> TRUE, root |-> <<"core">>, deps |-> {},
         targets |-> {CargoTarget("core", "lib", TRUE, TRUE, <<"core", "lib.rs">>)}]
App == [member |-> TRUE, root |-> <<"app">>, deps |-> {"core"},
        targets |-> {CargoTarget("app", "bin", TRUE, FALSE, <<"app", "main.rs">>),
                     CargoTarget("demo", "example", FALSE, FALSE, <<"app", "demo.rs">>)}]
Vendored == [member |-> FALSE, root |-> <<"vendored">>, deps |-> {"core"}, targets |-> {}]
AppTested == [App EXCEPT !.targets = @ \union {CargoTarget("new", "test", TRUE, FALSE, <<"app", "new.rs">>)}]
Shape(core, app) == [external |-> FALSE, packages |-> [core |-> core, app |-> app, vendored |-> Vendored]]
MCShapes == <<Shape(Core, App), Shape(Core, AppTested)>>

Required == [default |-> TRUE, noDefault |-> FALSE, policy |-> TRUE, msrv |-> FALSE,
             groups |-> <<>>, targets |-> <<>>, stages |-> <<>>]
MatrixPolicy == [groups |-> <<<<"a">>>>, targets |-> <<>>, stages |-> <<>>, exclusive |-> {{"a", "b"}}, msrv |-> "none"]
Facts == [host |-> "host", installed |-> {"host", "wasm"}, toolchains |-> {"old", "older"}, runnable |-> {"old"},
          ci |-> <<>>]
MatrixAsk(required, policy, maxCells) ==
  [required |-> required, policy |-> policy, facts |-> Facts, maxCells |-> maxCells, declared |-> "none",
   features |-> [a |-> <<>>, b |-> <<>>, c |-> <<"a">>]]
MCMatrixRequests ==
  {MatrixAsk(Required, MatrixPolicy, 3),
   MatrixAsk([Required EXCEPT !.groups = <<<<"b">>, <<"c">>>>, !.policy = FALSE], MatrixPolicy, 3),
   MatrixAsk([Required EXCEPT !.groups = <<<<"b", "c">>>>], MatrixPolicy, 3),
   MatrixAsk([Required EXCEPT !.groups = <<<<"unknown">>>>], MatrixPolicy, 3),
   MatrixAsk([Required EXCEPT !.groups = <<<<"b">>, <<"c">>, <<"a", "c">>>>], MatrixPolicy, 2),
   MatrixAsk([Required EXCEPT !.targets = <<"wasm">>, !.noDefault = TRUE], MatrixPolicy, 4),
   MatrixAsk([Required EXCEPT !.targets = <<"wasm", "host", "arm", "bad">>, !.stages = <<"test">>], MatrixPolicy, 3),
   MatrixAsk([Required EXCEPT !.stages = <<"check", "test", "check">>], [MatrixPolicy EXCEPT !.msrv = "old"], 4),
   MatrixAsk([Required EXCEPT !.msrv = TRUE], [MatrixPolicy EXCEPT !.msrv = "older"], 2)}

AnyTests == [change |-> FALSE, paths |-> {}, references |-> {}, mappings |-> {}, packages |-> {},
        target |-> [kind |-> "none", name |-> "none"], filter |-> FALSE, runner |-> "cargo"]
Mapping(package, path, target, test) == [package |-> package, path |-> path, target |-> target, test |-> test]
Tests(request, maxTests) == [request |-> request, record |-> {}, maxTests |-> maxTests]
MCTestRequests ==
  {Tests(AnyTests, 6),
   Tests([AnyTests EXCEPT !.paths = {<<"core", "lib.rs">>}, !.change = TRUE], 6),
   [Tests([AnyTests EXCEPT !.change = TRUE], 6) EXCEPT !.record = {<<"core", "part.rs">>}],
   Tests([AnyTests EXCEPT !.paths = {<<"core", "part.rs">>}], 2),
   Tests([AnyTests EXCEPT !.paths = {<<"app", "part.rs">>, <<"..", "x">>}, !.runner = "nextest"], 6),
   Tests([AnyTests EXCEPT !.paths = {<<"app", "Cargo.toml">>}, !.filter = TRUE], 6),
   Tests([AnyTests EXCEPT !.packages = {"app"}, !.target = [kind |-> "bin", name |-> "app"]], 6),
   Tests([AnyTests EXCEPT !.packages = {"app"}, !.target = [kind |-> "bin", name |-> "gone"]], 6),
   Tests([AnyTests EXCEPT !.mappings = {Mapping("app", <<>>, "app", "t"), Mapping("core", <<"core", "x.rs">>, "none", "t"),
                                   Mapping("core", <<>>, "doctest", "d")}], 6),
   Tests([AnyTests EXCEPT !.mappings = {Mapping("app", <<"core", "x.rs">>, "none", "t")}], 6),
   Tests([AnyTests EXCEPT !.mappings = {Mapping("app", <<>>, "gone", "t")}], 6)}

Good == [removes |-> FALSE, ignores |-> FALSE, weakens |-> FALSE, narrows |-> FALSE, provides |-> TRUE]
MCCandidateRequests == {[repeats |-> n, patch |-> p] : n \in {1, 2}, p \in {Good, [Good EXCEPT !.ignores = TRUE]}}
Fixed == [state |-> "READY", revision |-> 1, base |-> 1, current |-> TRUE, fix |-> "fix"]
FixedChanges == {Fixed, [Fixed EXCEPT !.state = "BROKEN"], [Fixed EXCEPT !.revision = 0],
              [Fixed EXCEPT !.fix = "harmful"]}

Gate(status, lines) ==
  [status |-> status, buildFailed |-> FALSE, built |-> TRUE, steps |-> 1, summaries |-> 9, binaries |-> 1,
   empty |-> 0, lines |-> lines, expected |-> FALSE]
TestLine(name, result) == [kind |-> "test", name |-> name, result |-> result]
Summary(passed, failed, ignored) == [kind |-> "summary", passed |-> passed, failed |-> failed, ignored |-> ignored]
GateOutputs ==
  {Gate("FULL_PASS", <<TestLine(<<"m", "contract">>, "ok"), TestLine(<<"t">>, "ok"), Summary(2, 0, 0)>>),
   Gate("FULL_PASS", <<TestLine(<<"contract_extra">>, "ok"), TestLine(<<"t">>, "ignored"), Summary(1, 0, 1)>>),
   Gate("FULL_PASS", <<Summary(0, 0, 0)>>),
   [Gate("FULL_PASS", <<>>) EXCEPT !.summaries = 0],
   [Gate("FAIL", <<TestLine(<<"contract">>, "FAILED"), Summary(0, 1, 0)>>) EXCEPT !.expected = TRUE],
   Gate("FAIL", <<TestLine(<<"contract">>, "FAILED"), Summary(0, 1, 0)>>),
   [Gate("FAIL", <<>>) EXCEPT !.buildFailed = TRUE],
   Gate("TIMEOUT", <<>>), Gate("UNAVAILABLE", <<>>),
   Gate("INCONCLUSIVE", <<Summary(0, 0, 1)>>)}

Verify == INSTANCE VerifyRun WITH
    GroupLimit <- 2, GroupSize <- 2, ClosureLimit <- 4, BadNames <- {"bad"},
    Shapes <- MCShapes, MatrixRequests <- MCMatrixRequests,
    TestRequests <- MCTestRequests, CandidateRequests <- MCCandidateRequests,
    Changes <- FixedChanges, Outputs <- GateOutputs

-----------------------------------------------------------------------------
(* ProfileRun: two workspaces, two samples per side and the gate outputs   *)
(* that differ.                                                            *)

Units == <<[i |-> 1, duration |-> 2, unblocks |-> {2}], [i |-> 2, duration |-> 1, unblocks |-> {}]>>
Ran(status, ms, rebuilt) ==
  [status |-> status, steps |-> <<ms>>, wall |-> ms + 1, admission |-> 1, changed |-> {"source"},
   build |-> [available |-> TRUE, partial |-> FALSE, total |-> 2, rebuilt |-> rebuilt, scripts |-> 0],
   artifact |-> [file |-> "regular", bytes |-> 1, anchored |-> TRUE, units |-> Units], stored |-> TRUE]
ProfileAsks == {[root |-> "w", change |-> "c1", options |-> "check"], [root |-> "v", change |-> "c2", options |-> "test"]}
\* What earlier calls have left: one toolchain per process; two records of
\* one run, when the calls had joined it.
Left(id, run, root, epoch_, change_, input, status, t) ==
  [id |-> id, run |-> run, status |-> status, root |-> root, epoch |-> epoch_, change |-> change_, options |-> "check",
   input |-> input, toolchain |-> t, cache |-> "cold", cargo |-> 10, wall |-> 10]
EarlierEvidence ==
  {<<>>} \union
  {<<Left(1, 1, "w", 1, "c1", 1, "COMPLETE", t), Left(2, 1, "w", 1, "c1", 1, "COMPLETE", t)>> :
     t \in {"stable", "unavailable"}} \union
  {<<Left(1, 1, "w", 1, "c1", 1, "COMPLETE", "unavailable"), Left(2, 2, "w", 1, "c1", 1, "COMPLETE", "unavailable")>>} \union
  {<<Left(1, 1, "w", 1, c, 1, "COMPLETE", t), Left(2, 2, r, e, d, i, s, t)>> :
     r \in {"w", "v"}, e \in {1, 2}, c \in {"c1"}, d \in {"c1", "c2"}, i \in {1, 2},
     s \in {"COMPLETE", "STALE"}, t \in {"stable"}}
NamedEvidence == {<<>>, <<1, 1>>, <<1, 2>>}
ProfiledRuns == {Ran("FULL_PASS", 10, 2), [Ran("FAIL", 8, 2) EXCEPT !.artifact.file = "missing"],
              [Ran("RESOURCE_BLOCKED", 0, 0) EXCEPT !.steps = <<>>, !.build.available = FALSE, !.stored = FALSE]}

Profile == INSTANCE ProfileRun WITH
    Roots <- {"w", "v"}, Asks <- ProfileAsks, Named <- NamedEvidence,
    Outputs <- ProfiledRuns, Earlier <- EarlierEvidence, CompareSamples <- 2,
    MaxRuns <- 3, MaxRetained <- 3, MaxDepth <- 2, MaxReportBytes <- 1,
    MaxUnits <- 2, MaxCalls <- 1, MaxMoves <- 2,
    source <- sources, cancelled <- aborted, expired <- timedOut, call <- profile

-----------------------------------------------------------------------------
(* RuntimeCompare: one change in the states a record can be in; two        *)
(* samples a side.                                                         *)

Staged(patches, current, new) ==
  [state |-> "ready", revision |-> 1, root |-> "w", epoch |-> 1, base |-> <<"a", "b">>,
   current |-> current, patches |-> patches, newFiles |-> new]
Edited(old, new) == [old |-> old, new |-> new]
Simple == Staged(<<Edited("a", "x")>>, <<"x", "b">>, {"n"})
StagedChanges == {Simple, Staged(<<Edited("a", "b")>>, <<"b", "b">>, {}), Staged(<<Edited("a", "(nothing)")>>, <<"b">>, {}),
              Staged(<<Edited("a", "x"), Edited("x", "a")>>, <<"a", "b">>, {}),
              [Simple EXCEPT !.epoch = 2], [Simple EXCEPT !.state = "inconsistent"]}
CandidateCopies == {[other |-> "captured", new |-> {}], [other |-> "drifted", new |-> {}], [other |-> "captured", new |-> {"e"}]}
RuntimeAsk(adapter, revision, warmup, prepare) ==
  [adapter |-> adapter, revision |-> revision, root |-> "w", epoch |-> 1, samples |-> 2,
   warmup |-> warmup, prepare |-> prepare, threshold |-> 10]
RuntimeRequests == {RuntimeAsk(TRUE, 1, 0, FALSE), RuntimeAsk(TRUE, 1, 1, TRUE), RuntimeAsk(TRUE, 2, 0, FALSE), RuntimeAsk(FALSE, 1, 0, FALSE)}

Runtime == INSTANCE RuntimeCompare WITH
    Changes <- StagedChanges, Copies <- CandidateCopies,
    Requests <- RuntimeRequests, Durations <- {8, 10},
    change <- staged, cancelled <- halted, expired <- tooLate, call <- runtime

-----------------------------------------------------------------------------
(* RepairMinimize.  lib: a module block around the target, a helper it     *)
(* uses, a declaration of module m, a test; m: an item; o: a file nobody   *)
(* loads.                                                                  *)

It(file, kind, name, mentions, lines) ==
  [file |-> file, kind |-> kind, name |-> name, mentions |-> mentions, lines |-> lines,
   paths |-> {}, loads |-> "none", parent |-> "none", test |-> FALSE]
CrateItems ==
  [block  |-> It("lib", "modBlock", "block", {}, 5),
   target |-> [It("lib", "item", "target", {"helper"}, 2) EXCEPT !.parent = "block"],
   beside |-> [It("lib", "item", "beside", {}, 1) EXCEPT !.parent = "block"],
   helper |-> It("lib", "item", "helper", {}, 2),
   test   |-> [It("lib", "item", "test", {"helper"}, 1) EXCEPT !.test = TRUE],
   decl   |-> [It("lib", "modDecl", "m", {}, 1) EXCEPT !.loads = "m"],
   inner  |-> It("m", "item", "inner", {}, 3),
   orphan |-> It("o", "item", "orphan", {}, 1)]
CrateFailures ==
  {[target |-> "target", needs |-> {"target"}, others |-> {}],
   [target |-> "target", needs |-> {"target", "test"}, others |-> {"inner"}],
   [target |-> "inner", needs |-> {"inner", "beside"}, others |-> {}]}
MinimizeRequests ==
  {[scope |-> s, anchored |-> TRUE, maxCompiles |-> 12, maxCandidates |-> 9] : s \in {"all", "items"}}
   \union {[scope |-> "all", anchored |-> FALSE, maxCompiles |-> 14, maxCandidates |-> 12],
           [scope |-> "modules", anchored |-> TRUE, maxCompiles |-> 3, maxCandidates |-> 9],
           [scope |-> "all", anchored |-> TRUE, maxCompiles |-> 14, maxCandidates |-> 2],
           [scope |-> "files", anchored |-> TRUE, maxCompiles |-> 1, maxCandidates |-> 9]}

Minimize == INSTANCE RepairMinimize WITH
    Items <- CrateItems, Files <- {"lib", "m", "o"}, Roots <- {"lib"},
    Failures <- CrateFailures, Requests <- MinimizeRequests, MaxNoise <- 1,
    cancelled <- ended, expired <- overdue

-----------------------------------------------------------------------------
(* ContextCapsule: one call after another with every kind of anchor, and   *)
(* two side by side with files alone.                                      *)

Place(file, line, test) == [file |-> file, line |-> line, test |-> test]
FileAnchor(file) == [symbol |-> NoValue, file |-> file, line |-> 1]
SymbolAnchor(file) == [symbol |-> "s", file |-> file, line |-> 1]
Resolved ==
  {[hover |-> "text", definitions |-> <<Place("a", 2, FALSE)>>, implementations |-> <<>>,
    references |-> <<Place("a", 2, FALSE), Place("b", 3, FALSE), Place("b", 4, FALSE),
                     Place(NoValue, 1, FALSE), Place("b", 5, TRUE)>>,
    hierarchy |-> TRUE, failed |-> FALSE],
   [hover |-> "empty", definitions |-> <<>>, implementations |-> <<Place("b", 2, FALSE)>>,
    references |-> <<>>, hierarchy |-> FALSE, failed |-> TRUE],
   [hover |-> "none", definitions |-> <<>>, implementations |-> <<>>, references |-> <<>>,
    hierarchy |-> FALSE, failed |-> TRUE]}
CargoPackage(name, inside, member, features, dependencies) ==
  [name |-> name, files |-> inside, member |-> member, features |-> features,
   dependencies |-> dependencies]
Meta(state, packages) == [state |-> state, packages |-> packages]
OnePackage ==
  Meta("ok", <<CargoPackage("p", {}, TRUE, "some", <<"d">>)>>)
TwoPackages == Meta("ok", <<CargoPackage("p", {"a"}, TRUE, "many", <<"d", "e">>),
                            CargoPackage("q", {"a", "b"}, FALSE, "none", <<>>)>>)
ContextAsk(action, anchors, budget) ==
  [action |-> action, anchors |-> anchors, budget |-> budget, manager |-> TRUE,
   metadata |-> Meta("error", <<>>), named |-> "all", cursor |-> 0, size |-> 2]
Both == <<FileAnchor("a"), FileAnchor("b")>>
FileRequests ==
  {ContextAsk("prepare", Both, 9), ContextAsk("prepare", <<FileAnchor("b")>>, 9),
   ContextAsk("delta", Both, 9), ContextAsk("expand", <<>>, 99)}
AnchorRequests ==
  {ContextAsk("prepare", Both, 9), ContextAsk("delta", <<FileAnchor("b")>>, 9),
   [ContextAsk("prepare", <<SymbolAnchor("a")>>, NoValue) EXCEPT !.metadata = TwoPackages],
   [ContextAsk("delta", <<SymbolAnchor("a")>>, 20) EXCEPT !.metadata = TwoPackages],
   [ContextAsk("prepare", <<SymbolAnchor(NoValue), SymbolAnchor("b"), FileAnchor("a")>>, 1)
      EXCEPT !.manager = FALSE, !.metadata = Meta("ok", <<>>)],
   [ContextAsk("prepare", <<SymbolAnchor(NoValue)>>, 7) EXCEPT !.metadata = TwoPackages],
   [ContextAsk("prepare", <<FileAnchor("b")>>, 6) EXCEPT !.metadata = Meta("none", <<>>)],
   [ContextAsk("prepare", <<FileAnchor("a")>>, NoValue) EXCEPT !.metadata = OnePackage],
   ContextAsk("expand", <<>>, NoValue), [ContextAsk("expand", <<>>, 7) EXCEPT !.size = 9],
   [ContextAsk("expand", <<>>, 5) EXCEPT !.cursor = 9, !.named = "last"],
   [ContextAsk("expand", <<>>, 99) EXCEPT !.cursor = 2, !.size = 0]}

Anchored == INSTANCE ContextCapsule WITH
    Calls <- {1}, MaxCalls <- 2, Files <- {"a", "b"}, Versions <- {1, 2}, MaxEdits <- 1,
    MaxEpoch <- 1, Requests <- AnchorRequests, Resolutions <- Resolved, MaxAnchors <- 2,
    MaxPerAnchor <- 1, MaxPackages <- 1, MaxDependencies <- 1, MaxItems <- 4, MaxListed <- 3,
    MaxEntries <- 1, MaxPage <- 3, MaxTrims <- 40, MaxRounds <- 8, MaxCapsules <- 1,
    MinBudget <- 5, OutputBudget <- 14, None <- NoValue,
    disk <- files, edits <- written, epoch <- rootEpoch, store <- capsules, begun <- asked,
    calls <- contextCalls
Paired == INSTANCE ContextCapsule WITH
    Calls <- {1, 2}, MaxCalls <- 3, Files <- {"a", "b"}, Versions <- {1, 2}, MaxEdits <- 1,
    MaxEpoch <- 1, Requests <- FileRequests, Resolutions <- {}, MaxAnchors <- 2,
    MaxPerAnchor <- 1, MaxPackages <- 1, MaxDependencies <- 1, MaxItems <- 6, MaxListed <- 3,
    MaxEntries <- 1, MaxPage <- 3, MaxTrims <- 40, MaxRounds <- 8, MaxCapsules <- 2,
    MinBudget <- 5, OutputBudget <- 14, None <- NoValue,
    disk <- files, edits <- written, epoch <- rootEpoch, store <- capsules, begun <- asked,
    calls <- contextCalls

-----------------------------------------------------------------------------
(* WorkspaceSelect: a root h with a directory w that holds a, and a        *)
(* directory x.  Every placing of manifests, links and repositories; and   *)
(* the package a with every kind of dependency, member and workspace.      *)

H == <<"h">>
W == <<"h", "w">>
A == <<"h", "w", "a">>
X == <<"h", "x">>
SelectTree == {H, W, A, X}
Selecting == INSTANCE WorkspaceSelect WITH Tree <- SelectTree, NoPath <- <<>>

NoDisk == [manifest |-> {}, link |-> {}, git |-> {}, workspace |-> {},
           explicit |-> [d \in SelectTree |-> <<>>],
           deps |-> [d \in SelectTree |-> {}], members |-> [d \in SelectTree |-> {}]]
Selections ==
    {[disk |-> [NoDisk EXCEPT !.manifest = m, !.link = l \ m, !.git = g], dir |-> d] :
        m \in SUBSET SelectTree, l \in SUBSET SelectTree, g \in SUBSET SelectTree,
        d \in SelectTree}
Package(d, sourced, member) == [dir |-> d, source |-> sourced, member |-> member]
Reports ==
    [root : {A, H, X},
     packages : {{Package(A, FALSE, TRUE)} \cup more :
                   more \in {{}, {Package(H, FALSE, FALSE)}, {Package(X, FALSE, FALSE)},
                             {Package(X, TRUE, FALSE)}, {Package(X, FALSE, TRUE)}}}]
Closures ==
    {[disk |-> [NoDisk EXCEPT !.manifest = m, !.workspace = ws, !.explicit[A] = e,
                              !.deps[A] = ds, !.members[H] = ms],
      sel |-> [package |-> A, worktree |-> t], dependencies |-> g, reported |-> r] :
        m \in {SelectTree, SelectTree \ {X}}, ws \in SUBSET {H, W}, e \in {<<>>, H, X},
        ds \in SUBSET {H, W, X}, ms \in {{}, {W}, {X}}, t \in {H, W}, g \in {{}, {X}},
        r \in Reports}

\* ProfileReport: the graphs of up to three units, cycles included.
Report == INSTANCE ProfileReport
Graphs ==
    UNION {{[p \in 1..n |-> [i |-> p, duration |-> w[p], unblocks |-> u[p]]] :
              w \in [1..n -> 1..2], u \in [1..n -> SUBSET (1..n)]} : n \in 1..3}

-----------------------------------------------------------------------------
(* A component that is not the subject rests.                              *)

RepairRests == Init /\ record = Rec /\ warned = FALSE
ToolRests ==
    config = 0 /\ services = 0 /\ free = 0 /\ closing = 0 /\ dropped = 0 /\ toolCall = 0
VerifyRests ==
    source = 0 /\ cancelled = 0 /\ expired = 0 /\ call = 0 /\ change = 0 /\ probe = 0
ProfileRests ==
    /\ sources = 0 /\ epoch = 0 /\ aborted = 0 /\ timedOut = 0 /\ toolchain = 0
    /\ evidence = 0 /\ ids = 0 /\ calls = 0 /\ moves = 0 /\ profile = 0
RuntimeRests ==
    staged = 0 /\ copy = 0 /\ halted = 0 /\ tooLate = 0 /\ scratch = 0 /\ runtime = 0
MinimizeRests == task = 0 /\ failure = 0 /\ ended = 0 /\ overdue = 0 /\ noise = 0
ContextRests ==
    files = 0 /\ written = 0 /\ rootEpoch = 0 /\ capsules = 0 /\ asked = 0 /\ contextCalls = 0

AnswersInit ==
    /\ subject \in {"repair", "tool", "verify", "profile", "runtime", "minimize",
                    "anchored", "paired", "selection", "closure", "path"}
    /\ sample \in CASE subject = "selection" -> Selections
                   [] subject = "closure" -> Closures
                   [] subject = "path" -> Graphs
                   [] OTHER -> {0}
    /\ IF subject = "repair" THEN Init ELSE RepairRests
    /\ IF subject = "tool" THEN Tool!Init ELSE ToolRests
    /\ IF subject = "verify" THEN Verify!Init ELSE VerifyRests
    /\ IF subject = "profile" THEN Profile!Init ELSE ProfileRests
    /\ IF subject = "runtime" THEN Runtime!Init ELSE RuntimeRests
    /\ IF subject = "minimize" THEN Minimize!Init ELSE MinimizeRests
    /\ CASE subject = "anchored" -> Anchored!Init
         [] subject = "paired" -> Paired!Init
         [] OTHER -> ContextRests

RepairStep ==
    subject = "repair" /\ Next
    /\ UNCHANGED <<subject, sample, toolVars, verifyVars, profileVars, runtimeVars,
                   minimizeVars, contextVars>>
ToolStep ==
    subject = "tool" /\ Tool!Next
    /\ UNCHANGED <<subject, sample, vars, verifyVars, profileVars, runtimeVars,
                   minimizeVars, contextVars>>
VerifyStep ==
    subject = "verify" /\ Verify!Next
    /\ UNCHANGED <<subject, sample, vars, toolVars, profileVars, runtimeVars,
                   minimizeVars, contextVars>>
ProfileStep ==
    subject = "profile" /\ Profile!Next
    /\ UNCHANGED <<subject, sample, vars, toolVars, verifyVars, runtimeVars,
                   minimizeVars, contextVars>>
RuntimeStep ==
    subject = "runtime" /\ Runtime!Next
    /\ UNCHANGED <<subject, sample, vars, toolVars, verifyVars, profileVars, minimizeVars, contextVars>>
MinimizeStep ==
    subject = "minimize" /\ Minimize!Next
    /\ UNCHANGED <<subject, sample, vars, toolVars, verifyVars, profileVars, runtimeVars, contextVars>>
AnchoredStep ==
    subject = "anchored" /\ Anchored!Next
    /\ UNCHANGED <<subject, sample, vars, toolVars, verifyVars, profileVars, runtimeVars,
                   minimizeVars>>
PairedStep ==
    subject = "paired" /\ Paired!Next
    /\ UNCHANGED <<subject, sample, vars, toolVars, verifyVars, profileVars, runtimeVars,
                   minimizeVars>>

AnswersNext ==
    \/ RepairStep \/ ToolStep \/ VerifyStep \/ ProfileStep \/ RuntimeStep \/ MinimizeStep
    \/ AnchoredStep \/ PairedStep

AnswersSpec ==
    AnswersInit /\ [][AnswersNext]_<<subject, sample, vars, toolVars, verifyVars, profileVars,
                                    runtimeVars, minimizeVars, contextVars>>

-----------------------------------------------------------------------------
(* The properties, each stated in full in its component's module.          *)

\* A running server keeps its own files apart from every root it may read,
\* whatever layer or link names them; an admitted call has the fields and options
\* its service asks for, an audit that says CLEAN or FINDINGS read every file it
\* should, and an answer that was cut says so (config.rs, reject_path_overlap; server/handler.rs, call_tool;
\* server/response.rs, bounded_result; tools/audit.rs).
CallIsSound == subject = "tool" => Tool!OwnFilesApart /\ Tool!CallIsSound

\* A full matrix ran every group, stage and target asked for, and a full suite
\* every test of the workspace as it is at the end (tools/verify.rs, matrix and
\* suite).
VerifiedIsWhole == subject = "verify" => Verify!VerifiedIsWhole

\* SATISFIED means that one and the same test failed without the fix and passed
\* with it, both on the base of the change, which was the workspace's when the
\* probe was captured; an edit made later is not noticed (tools/verify.rs,
\* candidate_flow).
CandidateIsProved == subject = "verify" => Verify!CandidateIsProved

\* The package that is selected lies under its root and in the worktree of the
\* directory asked for, and every manifest that is read, every path dependency that
\* Cargo reports and the workspace root in the worktree or in a dependency root;
\* workspace members are bound by the manifests alone (workspace/select.rs,
\* select_in_root; workspace/metadata.rs, preflight_inner, validate_metadata).
LoadsStayInside ==
    /\ subject = "selection" =>
          \A root \in {H, W} : Selecting!Within(root, sample.dir) =>
              Selecting!SelectionInside(sample.disk, root, sample.dir)
    /\ subject = "closure" =>
          Selecting!LoadsInside(sample.disk, sample.sel, sample.dependencies, sample.reported)

\* A build is called faster only by enough records of one version of the source a
\* side, under one root, epoch and toolchain, the candidate's of different gate runs,
\* and its critical path is a longest one (tools/profile.rs, compare,
\* build_critical_path).  Named baseline records may share a run that was joined.
ProfileIsHonest ==
    /\ subject = "profile" => Profile!SpeedClaimIsEarned
    /\ subject = "path" => Report!PathIsLongest(sample, 3)

\* A runtime verdict compares the captured source and the named revision, byte
\* for byte, after both passed their gate (tools/runtime.rs).
VerdictIsEarned == subject = "runtime" => Runtime!VerdictIsEarned

\* A published reproducer was compiled as it is and fails as the whole candidate
\* did, within the budget of compiles, and a search that ended by itself leaves
\* nothing that could go (repair/minimize.rs).
ReproducerIsSound == subject = "minimize" => Minimize!ReproducerIsSound

\* A context answer marks what is no longer what its capsule was made from, hides
\* nothing while it shows something, fits its budget, and tells the difference
\* between two capsules of its roots (tools/context.rs; context/planner.rs;
\* context/store.rs).
CapsuleIsHonest ==
    /\ subject = "anchored" => Anchored!CapsuleIsHonest
    /\ subject = "paired" => Paired!CapsuleIsHonest
=============================================================================
