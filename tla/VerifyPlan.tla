----------------------------- MODULE VerifyPlan -----------------------------
(***************************************************************************)
(* What the verify tool plans before it runs anything (tools/verify.rs,    *)
(* gate/selection.rs, workspace/graph.rs): the cells of a feature, target  *)
(* and toolchain matrix, and the test scopes a set of changed files calls  *)
(* for.                                                                    *)
(*                                                                         *)
(* Names are model values or strings, a path is a sequence of names.  A    *)
(* matrix request is the record [default, noDefault, policy, msrv: BOOLEAN,*)
(* groups, targets, stages: Seq], the project's policy the record [groups, *)
(* targets, stages: Seq, exclusive: set of sets, msrv], and the toolchain  *)
(* facts the record [host, installed, toolchains, runnable, ci].           *)
(***************************************************************************)
EXTENDS Integers, Sequences, FiniteSets, SequencesExt

CONSTANTS
  GroupLimit,         \* POLICY_ and REQUEST_FEATURE_GROUP_LIMIT
  GroupSize,          \* MAX_GROUP_FEATURES
  ClosureLimit,       \* FEATURE_CLOSURE_LIMIT
  BadNames            \* feature names and triples the syntax refuses

None == "none"
NoTarget == [kind |-> None, name |-> None]

(***************************************************************************)
(* The matrix.                                                             *)
(***************************************************************************)

\* First occurrences only, in order.
Distinct(s) ==
  FoldLeft(LAMBDA out, x : IF Contains(out, x) THEN out ELSE Append(out, x), <<>>, s)

\* policy_from_value: groups beyond the limit are dropped with a warning.
PolicyFromValue(policy) ==
  [policy EXCEPT !.groups = SubSeq(@, 1, IF Len(@) > GroupLimit THEN GroupLimit ELSE Len(@))]

\* effective_stages.
EffectiveStages(required, policy) ==
  LET chosen == IF required.stages = <<>> THEN policy.stages ELSE required.stages
  IN IF chosen = <<>> THEN <<"check">> ELSE Distinct(chosen)

\* feature_closure: the last feature of the queue first, until the limit.
RECURSIVE CloseFeatures(_, _, _)
CloseFeatures(features, queue, seen) ==
  IF queue = <<>> \/ Cardinality(seen) >= ClosureLimit
    THEN seen
    ELSE LET f == Last(queue)
             more == IF f \in DOMAIN features THEN features[f] ELSE <<>>
         IN IF f \in seen
              THEN CloseFeatures(features, Front(queue), seen)
              ELSE CloseFeatures(features, Front(queue) \o more, seen \union {f})

FeatureClosure(features, group) ==
  CloseFeatures(features,
                SetToSeq(group) \o (IF "default" \in DOMAIN features THEN features["default"] ELSE <<>>),
                {})

\* feature_conflict: two features of one exclusive group are active.
FeatureConflict(policy, active) ==
  \E group \in policy.exclusive : Cardinality(group \intersect active) >= 2

\* A skipped candidate: what kind of thing it is, the names it is about, why.
Skip(kind, about, status) == [kind |-> kind, about |-> about, status |-> status]

\* One group of feature_sets: the sets and skips it adds to those there are.
AddGroup(acc, policy, features, label, group) ==
  LET names == ToSet(group)
      refused == [acc EXCEPT !.skipped = @ \union {Skip(label, names, "UNSUPPORTED")}]
  IN CASE group = <<>> \/ Len(group) > GroupSize        -> refused
       [] names \in acc.seen                            -> acc
       [] names \intersect BadNames # {}                -> [refused EXCEPT !.seen = @ \union {names}]
       [] ~ names \subseteq DOMAIN features             -> [refused EXCEPT !.seen = @ \union {names}]
       [] FeatureConflict(policy, FeatureClosure(features, names)) ->
            [refused EXCEPT !.seen = @ \union {names}]
       [] OTHER -> [acc EXCEPT !.seen = @ \union {names},
                               !.sets = Append(@, [features |-> names, noDefault |-> FALSE])]

\* feature_sets: the default set, --no-default-features, the policy's groups
\* and the requested ones, of which those past the limit are skipped.
FeatureSets(required, policy, features) ==
  LET base == (IF required.default THEN <<[features |-> {}, noDefault |-> FALSE]>> ELSE <<>>)
              \o (IF required.noDefault THEN <<[features |-> {}, noDefault |-> TRUE]>> ELSE <<>>)
      asked == [i \in 1..Len(required.groups) |-> [label |-> "requested", group |-> required.groups[i]]]
      own == IF required.policy
               THEN [i \in 1..Len(policy.groups) |-> [label |-> "policy", group |-> policy.groups[i]]]
               ELSE <<>>
      over == {Skip("requested", ToSet(asked[i].group), "UNSUPPORTED") : i \in {j \in DOMAIN asked : j > GroupLimit}}
      kept == SubSeq(asked, 1, IF Len(asked) > GroupLimit THEN GroupLimit ELSE Len(asked))
  IN FoldLeft(LAMBDA acc, g : AddGroup(acc, policy, features, g.label, g.group),
              [sets |-> base, skipped |-> over, seen |-> {}],
              own \o kept)

Cell(features, noDefault, target, toolchain, stage) ==
  [features |-> features, noDefault |-> noDefault, target |-> target,
   toolchain |-> toolchain, stage |-> stage]

\* plan_targets: a foreign target is only ever checked, and only when it is
\* installed, not the host and check is among the stages.
PlanTargets(required, policy, facts, stages) ==
  LET wanted == Distinct((IF required.policy THEN policy.targets ELSE <<>>) \o required.targets
                         \o SelectSeq(facts.ci, LAMBDA t : t \in facts.installed))
      why(t) == CASE t \in BadNames -> "UNSUPPORTED"
                  [] t = facts.host -> "UNSUPPORTED"
                  [] t \notin facts.installed -> "NOT_INSTALLED"
                  [] ~ Contains(stages, "check") -> "UNSUPPORTED"
                  [] OTHER -> "planned"
      planned == SelectSeq(wanted, LAMBDA t : why(t) = "planned")
      other == (\E i \in DOMAIN required.stages : required.stages[i] # "check") /\ required.targets # <<>>
  IN [cells |-> [i \in 1..Len(planned) |-> Cell({}, FALSE, planned[i], None, "check")],
      skipped |-> {Skip("target", {t}, why(t)) : t \in {u \in ToSet(wanted) : why(u) # "planned"}}
                  \union (IF other THEN {Skip("target", {"non-check-stages"}, "UNSUPPORTED")} ELSE {})]

\* plan_msrv: one check with the toolchain the policy or a manifest names.
PlanMsrv(required, policy, facts, declared) ==
  LET requested == IF policy.msrv # None THEN policy.msrv ELSE declared
      include == required.msrv \/ (required.policy /\ requested # None)
      none == [cells |-> <<>>, skipped |-> {}]
      skip(status) == [none EXCEPT !.skipped = {Skip("msrv", {}, status)}]
  IN CASE ~ include -> none
       [] requested = None -> skip("UNSUPPORTED")
       [] requested \notin facts.toolchains -> skip("NOT_INSTALLED")
       [] requested \notin facts.runnable -> skip("UNSUPPORTED")
       [] OTHER -> [none EXCEPT !.cells = <<Cell({}, FALSE, None, requested, "check")>>]

\* The cells up to the budget; the others are skipped.
WithinBudget(cells, skipped, maxCells) ==
  LET kept == IF Len(cells) > maxCells THEN maxCells ELSE Len(cells)
  IN [cells |-> SubSeq(cells, 1, kept),
      skipped |-> skipped \union {Skip("cell", cells[i].features \union {cells[i].stage}, "BUDGET") :
                                    i \in kept + 1 .. Len(cells)}]

\* Every feature set in every stage, on the host.
HostCells(sets, stages) ==
  FlattenSeq([i \in 1..Len(sets) |->
    [j \in 1..Len(stages) |-> Cell(sets[i].features, sets[i].noDefault, None, None, stages[j])]])

\* build_plan: the cells in order, cut at the budget, and what was skipped.
BuildPlan(required, rawPolicy, facts, features, declared, maxCells) ==
  LET policy == PolicyFromValue(rawPolicy)
      stages == EffectiveStages(required, policy)
      sets == FeatureSets(required, policy, features)
      targets == PlanTargets(required, policy, facts, stages)
      msrv == PlanMsrv(required, policy, facts, declared)
  IN WithinBudget(HostCells(sets.sets, stages) \o targets.cells \o msrv.cells,
                  sets.skipped \union targets.skipped \union msrv.skipped, maxCells)

(***************************************************************************)
(* The test plan.  A workspace is the record [packages, external], each    *)
(* package the record [member: BOOLEAN, root: path, targets, deps]; a      *)
(* target is [name, kind, test, doctest, path].  A request is the record   *)
(* [change, paths, references, mappings, packages, target, filter, runner].*)
(***************************************************************************)

Members(ws) == {p \in DOMAIN ws.packages : ws.packages[p].member}
LibKinds == {"lib", "rlib", "dylib", "cdylib", "staticlib"}
TestKinds == LibKinds \union {"bin", "test", "proc-macro", "example", "bench"}

\* PackageGraph::reverse_dependents: the seeds and all who reach them.
RECURSIVE ReverseDependents(_, _)
ReverseDependents(ws, seeds) ==
  LET next == seeds \union {p \in DOMAIN ws.packages : ws.packages[p].deps \intersect seeds # {}}
  IN IF next = seeds THEN seeds ELSE ReverseDependents(ws, next)

\* owner_node: the member with the longest root above the path, or None.
OwnerNode(ws, path) ==
  LET above == {p \in Members(ws) : IsPrefix(ws.packages[p].root, path)}
  IN IF above = {} THEN None
     ELSE CHOOSE p \in above :
            \A q \in above : Len(ws.packages[p].root) >= Len(ws.packages[q].root)

GlobalNames == {"Cargo.toml", "Cargo.lock", "build.rs", "rust-toolchain.toml"}

\* global_cargo_input.
GlobalCargoInput(path) == Last(path) \in GlobalNames \/ \E i \in DOMAIN path : path[i] = ".cargo"

\* push_changed_path refuses absolute paths and "..".
BoundedPath(path) == path # <<>> /\ \A i \in DOMAIN path : path[i] \notin {"/", ".."}

\* resolve_changed_set: the record's files when it has any, else the paths of
\* the request, and the references of either; what it could not use widens.
ResolveChangedSet(request, record) ==
  LET raw == (IF record # {} THEN record ELSE request.paths) \union request.references
  IN [paths |-> {p \in raw : BoundedPath(p)},
      widened |-> (request.change /\ record = {}) \/ \E p \in raw : ~ BoundedPath(p)]

\* A changed path whose effect on other packages cannot be bounded.
PathWidens(ws, path) ==
  LET owner == OwnerNode(ws, path)
  IN \/ GlobalCargoInput(path)
     \/ owner = None
     \/ \E t \in ws.packages[owner].targets :
          \/ t.kind = "proc-macro"
          \/ t.kind \in LibKinds /\ t.path = path

\* CargoTargetSelection::matches and cargo_test_target.
Matches(selected, target) ==
  IF selected.kind = "lib" THEN target.kind \in LibKinds \union {"proc-macro"}
  ELSE selected.kind = target.kind /\ selected.name = target.name
CargoTestTarget(target) ==
  IF target.kind \in LibKinds \union {"proc-macro"} THEN [kind |-> "lib", name |-> None]
  ELSE [kind |-> target.kind, name |-> target.name]

\* target_supports_doctests.
SupportsDoctests(target) == target.doctest /\ target.kind \in {"lib", "rlib", "proc-macro"}

Item(rank, package, target, kind, selected, exact, compileOnly) ==
  [rank |-> rank, package |-> package, target |-> target, kind |-> kind,
   selected |-> selected, exact |-> exact, compileOnly |-> compileOnly]

\* package_test_items: the tests, the compile-only examples and the doctests
\* of one package, and the scopes of it that are left out.
PackageTestItems(package, pkg, request, rank) ==
  LET bearing == {t \in pkg.targets : t.kind \in TestKinds}
      tested(t) == t.test \/ (request.target # NoTarget /\ Matches(request.target, t))
      compiled(t) == t.kind = "example" /\ ~ tested(t) /\ ~ request.filter /\ request.target = NoTarget
      doctested == {t \in bearing : SupportsDoctests(t)}
  IN [items |-> {Item(rank, package, t.name, t.kind, CargoTestTarget(t), None, compiled(t)) :
                   t \in {u \in bearing : tested(u) \/ compiled(u)}}
                \union (IF request.filter THEN {}
                        ELSE {Item(rank + 2, package, t.name, "doctest", NoTarget, None, FALSE) : t \in doctested}),
      skipped |-> {Skip("kind", {package, t.name}, "UNSUPPORTED") :
                     t \in {u \in pkg.targets \ bearing : u.kind # "custom-build" /\ (u.test \/ u.doctest)}}
                  \union (IF request.filter
                            THEN {Skip("doctest", {package, t.name}, "UNSUPPORTED") : t \in doctested}
                            ELSE {})]

\* resolve_mapping_package: "error" for an unknown or a contradictory owner.
ResolveMapping(ws, mapping) ==
  LET byPath == IF mapping.path = <<>> THEN None ELSE OwnerNode(ws, mapping.path)
  IN CASE mapping.package # None /\ mapping.package \notin Members(ws) -> "error"
       [] mapping.path # <<>> /\ (~ BoundedPath(mapping.path) \/ byPath = None) -> "error"
       [] mapping.package # None /\ byPath # None /\ mapping.package # byPath -> "error"
       [] mapping.package # None -> mapping.package
       [] OTHER -> byPath

\* gate::selection::validate and resolve: the packages the request selects,
\* or {"error"}.
ResolveSelection(ws, request) ==
  LET names == IF request.packages = {} THEN Members(ws) ELSE request.packages
  IN IF \/ request.target # NoTarget /\ request.packages = {}
        \/ ~ names \subseteq Members(ws)
        \/ /\ request.target # NoTarget
           /\ \E p \in names : \A t \in ws.packages[p].targets : ~ Matches(request.target, t)
       THEN {"error"} ELSE names

\* The targets a mapping's label may mean inside the selected packages.
MappedTargets(ws, request, mapping, selection) ==
  LET owner == ResolveMapping(ws, mapping)
      in == {p \in selection : owner = None \/ owner = p}
  IN {t \in UNION {ws.packages[p].targets : p \in in} :
        /\ \/ t.name = mapping.target
           \/ mapping.target = "lib" /\ t.kind \in LibKinds \union {"proc-macro"}
        /\ request.target = NoTarget \/ Matches(request.target, t)}

\* The exact test of a mapping, bound to one kind of target, or "error".
MappedItem(ws, request, mapping, selection) ==
  LET owner == ResolveMapping(ws, mapping)
      targets == MappedTargets(ws, request, mapping, selection)
      item(kind, selected) == Item(0, owner, mapping.target, kind, selected, mapping.test, FALSE)
      failed == item("error", NoTarget)
  IN CASE mapping.target = None -> item("test", request.target)
       [] mapping.target = "doctest" -> IF request.target # NoTarget THEN failed ELSE item("doctest", NoTarget)
       [] Cardinality({t.kind : t \in targets}) # 1 -> failed
       [] OTHER -> item((CHOOSE t \in targets : TRUE).kind, CargoTestTarget(CHOOSE t \in targets : TRUE))

\* What the selected packages and the exact tests leave of the inventory.
Bind(request, items, exact, owners, selection) ==
  IF \/ selection = {"error"}
     \/ \E o \in owners : o # None /\ o \notin selection
     \/ request.filter /\ exact # {}
     \/ \E i \in exact : i.kind = "error"
  THEN [ok |-> FALSE, items |-> {}, explicit |-> TRUE]
  ELSE [ok |-> TRUE,
        items |-> {i \in items \union exact :
                     /\ i.package = None \/ i.package \in selection
                     /\ request.target = NoTarget \/ i.selected = request.target},
        explicit |-> request.packages # {} \/ request.target # NoTarget \/ request.filter]

\* bind_test_selection: exact tests are bound to one target, and only what
\* the selection names stays in the plan.
BindTestSelection(ws, request, inventory, owners) ==
  LET selection == ResolveSelection(ws, request)
      named == {m \in request.mappings : m.test # None}
  IN Bind(request, inventory, {MappedItem(ws, request, m, selection) : m \in named}, owners, selection)

\* The rank of a package's scopes: mapped, changed, consumer, widening.
RankOf(p, mapped, changed, dependents) ==
  CASE p \in mapped /\ p \notin changed -> 0
    [] p \in changed -> 1
    [] p \in dependents -> 4
    [] OTHER -> 7

\* Which packages are in the plan: those that changed, those that depend on
\* them, the mapped ones, and all members where the effect is not bounded.
Scope(ws, request, changed, owners, direct) ==
  LET mapped == owners \ {None}
      dependents == ReverseDependents(ws, direct) \ direct
      widened == \/ changed.widened
                 \/ \E p \in changed.paths : PathWidens(ws, p)
                 \/ ws.external
                 \/ direct = {} /\ mapped = {} /\ \A m \in request.mappings : m.test = None
  IN [owners |-> owners, mapped |-> mapped, changed |-> direct, dependents |-> dependents,
      widened |-> widened,
      included |-> direct \union dependents \union mapped
                   \union (request.packages \intersect DOMAIN ws.packages)
                   \union (IF widened THEN Members(ws) ELSE {})]

PlanScope(ws, request, record) ==
  LET changed == ResolveChangedSet(request, record)
  IN Scope(ws, request, changed, {ResolveMapping(ws, m) : m \in request.mappings},
           {OwnerNode(ws, p) : p \in {q \in changed.paths : ~ PathWidens(ws, q)}})

\* The excess over max_tests, the highest ranks, is skipped.
CutToBudget(items, maxTests) ==
  IF Cardinality(items) <= maxTests THEN items
  ELSE CHOOSE kept \in SUBSET items :
         /\ Cardinality(kept) = maxTests
         /\ \A i \in kept, j \in items \ kept : i.rank <= j.rank

\* suite is the number of doctest scopes of the one Cargo suite that replaces
\* the items, -1 when the items are run one by one.
TestPlan(request, widened, bound, kept, skipped) ==
  LET full == widened /\ ~ bound.explicit /\ skipped = {}
      suite == /\ full \/ request.packages # {}
               /\ skipped = {}
               /\ request.runner = "cargo"
               /\ request.mappings = {}
               /\ ~ request.filter
  IN [items |-> kept, skipped |-> skipped, full |-> full, explicit |-> bound.explicit,
      suite |-> IF suite THEN Cardinality({i \in kept : i.kind = "doctest"}) ELSE -1]

NoTests(why) ==
  [items |-> {}, skipped |-> why, full |-> FALSE, explicit |-> TRUE, suite |-> -1]

PlanBound(request, widened, bound, left, kept) ==
  IF ~ bound.ok THEN NoTests(left \union {Skip("explicit-selection", {}, "UNSUPPORTED")})
  ELSE TestPlan(request, widened, bound, kept,
                left \union {Skip("item", {i.package, i.target}, "BUDGET") : i \in bound.items \ kept})

PlanPackages(ws, request, maxTests, scope) ==
  LET parts == {PackageTestItems(p, ws.packages[p], request,
                                 RankOf(p, scope.mapped, scope.changed, scope.dependents)) :
                  p \in scope.included \intersect Members(ws)}
      bound == BindTestSelection(ws, request, UNION {part.items : part \in parts}, scope.owners)
  IN IF "error" \in scope.owners THEN NoTests({Skip("mapping", {}, "UNSUPPORTED")})
     ELSE PlanBound(request, scope.widened, bound, UNION {part.skipped : part \in parts},
                    CutToBudget(bound.items, maxTests))

\* build_test_plan.
BuildTestPlan(ws, request, record, maxTests) ==
  PlanPackages(ws, request, maxTests, PlanScope(ws, request, record))
=============================================================================
