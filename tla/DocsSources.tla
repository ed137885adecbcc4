---------------------------- MODULE DocsSources ----------------------------
(***************************************************************************)
(* What a documentation request is about (docs/resolver.rs, prepare): the  *)
(* package and workspace of the directory asked for, the one Cargo.lock    *)
(* package that matches, the source roots that package may be read from,   *)
(* and the fingerprint that names its cache entry. A world is one file     *)
(* tree with its manifests, lock file and Git checkouts.                   *)
(***************************************************************************)
EXTENDS Naturals, Sequences, FiniteSets

CONSTANTS
  Dirs,       \* directories
  Above,      \* the directories on the path to each one, itself included
  Norm,       \* normalize_name: crate names that Cargo takes for one another
  Worlds,     \* the trees, lock files and requests examined
  MaxFiles    \* MAX_FINGERPRINT_FILES, MAX_SOURCE_FILES

VARIABLES world, answer

vars == <<world, answer>>
None == "none"
Any == "any"
Refused == [kind |-> "refused", error |-> TRUE]
NoAnswer == [kind |-> "none"]

Depth(d) == Cardinality(Above[d])
Deepest(S) == CHOOSE d \in S : \A g \in S : Depth(g) <= Depth(d)

\* authorize_dir: a directory is reached through a root that contains it.
Contains(root, d) == root \in Above[d]
AuthorizeSourceRoot(allowed, d) == \E root \in allowed : Contains(root, d)

HasManifest(w, d) == w.manifest[d].there
\* The walk upwards stops after a directory with .git and at the authorized root.
Walk(w, root, d) ==
  {x \in Above[d] : Contains(root, x) /\
     \A y \in Above[d] : (x \in Above[y] /\ y # x) => y \notin w.git}
FindPackageRoot(w, root, d) ==
  LET S == {x \in Walk(w, root, d) : HasManifest(w, x)} IN IF S = {} THEN None ELSE Deepest(S)
FindWorkspaceRoot(w, root, d) ==
  LET S == {x \in Walk(w, root, d) : HasManifest(w, x) /\ w.manifest[x].workspace}
  IN IF S = {} THEN None ELSE Deepest(S)
FindLockPath(w, package, workspace) ==
  CASE workspace \in w.locks -> workspace
    [] workspace \notin w.locks /\ package \in w.locks -> package
    [] OTHER -> None

\* lock_candidate and candidate_matches_source: a source selector names the kind or the URL.
CandidateMatchesSource(p, source) == source \in {Any, p.kind, p.url}
\* parse_cargo_lock_dependency: exact names before equivalent ones, then version, then source.
ParseCargoLockDependency(w) ==
  LET exact == {p \in w.lock : p.name = w.request.name}
      named == IF exact # {} THEN exact ELSE {p \in w.lock : Norm[p.name] = Norm[w.request.name]}
  IN {p \in named : /\ w.request.version \in {Any, p.version}
                    /\ CandidateMatchesSource(p, w.request.source)}

\* workspace_package_version and package_identity: a version of its own or the workspace's.
WorkspacePackageVersion(w, root, d) ==
  LET ws == FindWorkspaceRoot(w, root, d) IN IF ws = None THEN None ELSE w.manifest[ws].shared
PackageIdentity(w, root, d) ==
  LET m == w.manifest[d]
      version == IF m.version = "inherit" THEN WorkspacePackageVersion(w, root, d) ELSE m.version
  IN [name |-> m.name, version |-> version]
NoIdentity == [name |-> None, version |-> None]
\* package_identity_from_roots: the first allowed root that gives the package an identity.
PackageIdentityFromRoots(w, allowed, d) ==
  LET ids == {PackageIdentity(w, root, d) : root \in {x \in allowed : Contains(x, d) /\ HasManifest(w, d)}}
      named == {i \in ids : i.name # None /\ i.version # None}
  IN IF named = {} THEN NoIdentity ELSE CHOOSE i \in named : TRUE

\* workspace_owner: the deepest workspace any allowed root finds above the package.
WorkspaceOwner(w, allowed, d) ==
  LET S == {FindWorkspaceRoot(w, root, d) : root \in {x \in allowed : Contains(x, d)}} \ {None}
  IN IF S = {} THEN None ELSE Deepest(S)
\* expand_workspace_pattern: a pattern is a directory or the children of one ("*"). It fails when it is
\* absolute, empty, leaves the base or is another glob, and when it names no directory below the base.
PatternFails(base, pattern) == pattern.dir \notin Dirs \/ ~Contains(base, pattern.dir)
ExpandWorkspacePattern(base, pattern) ==
  IF pattern.star THEN {d \in Dirs : d # pattern.dir /\ Above[d] = Above[pattern.dir] \union {d}} ELSE {pattern.dir}
WorkspaceMemberRoots(w, base) ==
  LET of(patterns) == UNION {ExpandWorkspacePattern(base, p) : p \in patterns}
  IN {d \in of(w.manifest[base].members) \ of(w.manifest[base].exclude) : HasManifest(w, d)}

\* collect_dependency_table, collect_workspace_path_dependencies and collect_replace_table:
\* the path edges of a manifest; "workspace = true" takes the workspace's specification, and
\* [patch] and [replace] count in the workspace root alone.
Inherited(w, owner, name) ==
  IF owner = None THEN {} ELSE {e \in w.manifest[owner].shares : e.alias = name}
TableEdges(w, d) == {e \in w.manifest[d].deps : ~e.inherit}
Overrides(w, d, owner) == IF d = owner THEN w.manifest[d].overrides ELSE {}
\* Mutant: inherited specifications are not followed.
CollectPathDependencies_OwnOnly(w, d, owner) ==
  TableEdges(w, d) \union Overrides(w, d, owner)

CollectPathDependencies(w, d, owner) ==
  TableEdges(w, d) \union Overrides(w, d, owner)
    \union UNION {Inherited(w, owner, e.alias) : e \in {x \in w.manifest[d].deps : x.inherit}}
PathVersionMatches(e, version) == e.version = Any \/ version \in e.accepts

\* The directories one turn of source_roots appends to its queue.
Edges(w, allowed, d) ==
  LET owner == WorkspaceOwner(w, allowed, d)
  IN (CASE owner = None -> {} [] owner = d -> WorkspaceMemberRoots(w, d) [] OTHER -> {owner})
       \union {e.root : e \in CollectPathDependencies(w, d, owner)}
\* A turn fails on a package outside the allowed roots, an unreadable manifest, a pattern of the
\* workspace that does not expand, or an edge whose target is not the package it names.
TurnFails(w, allowed, d) ==
  \/ ~AuthorizeSourceRoot(allowed, d) \/ ~HasManifest(w, d)
  \/ /\ WorkspaceOwner(w, allowed, d) = d
     /\ \E p \in w.manifest[d].members \union w.manifest[d].exclude : PatternFails(d, p)
  \/ \E e \in CollectPathDependencies(w, d, WorkspaceOwner(w, allowed, d)) :
       LET id == PackageIdentityFromRoots(w, allowed, e.root)
       IN \/ ~AuthorizeSourceRoot(allowed, e.root) \/ id = NoIdentity
          \/ Norm[id.name] # Norm[e.package] \/ ~PathVersionMatches(e, id.version)
Turn(w, allowed, seen) ==
  seen \union UNION {IF TurnFails(w, allowed, d) THEN {} ELSE Edges(w, allowed, d) : d \in seen}
Visited(w, allowed, from) ==
  LET turn[n \in 0 .. Cardinality(Dirs)] ==
        IF n = 0 THEN from ELSE Turn(w, allowed, turn[n-1])
  IN turn[Cardinality(Dirs)]

\* find_git_sources and verify_git_checkout: the checkout's manifest must carry the name and
\* version, its HEAD the locked revision, its origin the locked URL.
VerifyGitCheckout(p, c) == c.head = p.revision /\ c.origin = p.url
FindGitSources(w, p) ==
  {c.dir : c \in {c \in w.checkouts : c.name = p.name /\ c.version = p.version /\ VerifyGitCheckout(p, c)}}
\* bounded_manifests: a walk of the checkouts with an issue or past its limit refuses the request.
CheckoutsWalked(w) == w.home # "incomplete"

NoRoots == [ok |-> TRUE, source |-> {}, fingerprint |-> {}]
SourceRoots(w, package, workspace, p) ==
  CASE p.kind \in {"registry", "unknown"} -> NoRoots
    [] p.kind = "git" /\ w.home = None -> NoRoots      \* no Cargo home is authorized
    [] p.kind = "git" /\ w.home # None ->
         [ok |-> CheckoutsWalked(w), source |-> FindGitSources(w, p), fingerprint |-> FindGitSources(w, p)]
    [] p.kind = "path" ->
         LET allowed == {workspace} \union w.allowed
             seen == Visited(w, allowed, {package, workspace})
         IN [ok |-> Cardinality(seen) <= MaxFiles /\ \A d \in seen : ~TurnFails(w, allowed, d),
             fingerprint |-> seen,
             source |-> {d \in seen : LET id == PackageIdentityFromRoots(w, allowed, d)
                                      IN /\ id # NoIdentity /\ Norm[id.name] = Norm[p.name]
                                         /\ id.version = p.version}]

\* fingerprint: Cargo.toml, Cargo.lock, build.rs and the Rust sources under the workspace and every
\* fingerprint root, outside .git, target, vendor and node_modules: one stands for those of its
\* directory. A walk with an issue or beyond the limit leaves the request without a cache entry.
BoundedFingerprintFiles(w, d) == {f \in w.files : Contains(d, f) /\ f \notin w.skipped}
Fingerprint(w, workspace, roots) ==
  LET files == UNION {BoundedFingerprintFiles(w, d) : d \in roots \union {workspace}}
  IN [complete |-> /\ Cardinality(files) <= MaxFiles
                   /\ \A d \in w.issues : \A r \in roots \union {workspace} : ~Contains(r, d),
      files |-> files]
\* read_source_page: what the source provider may read, the Rust sources among those files.
SourceFiles(w, roots) == UNION {BoundedFingerprintFiles(w, d) : d \in roots}
\* resolve_cache_root: never below the workspace.
ResolveCacheRoot(w, workspace) ==
  IF ~Contains(workspace, w.cache) THEN w.cache
  ELSE IF ~Contains(workspace, w.temp) THEN w.temp ELSE "processTemp"
\* network_page and docs_rs_url: docs.rs is asked about crates.io packages alone.
NetworkAllowed(p) == p.kind = "registry" /\ p.url = "crates-io"

PrepareOutcome(w) ==
  LET root == w.root
      package == FindPackageRoot(w, root, w.request.dir)
      ws == IF package = None THEN None ELSE FindWorkspaceRoot(w, root, package)
      workspace == IF ws = None THEN package ELSE ws
      found == ParseCargoLockDependency(w)
  IN CASE ~Contains(root, w.request.dir) -> Refused
       [] Contains(root, w.request.dir) /\ package = None -> Refused
       [] OTHER ->
            CASE FindLockPath(w, package, workspace) = None -> [Refused EXCEPT !.error = FALSE]
              [] FindLockPath(w, package, workspace) # None /\ Cardinality(found) # 1 ->
                   [Refused EXCEPT !.error = FALSE, !.kind = IF found = {} THEN "refused" ELSE "ambiguous"]
              [] OTHER ->
                   LET p == CHOOSE p \in found : TRUE
                       roots == SourceRoots(w, package, workspace, p)
                       print == Fingerprint(w, workspace, roots.fingerprint)
                   IN IF ~roots.ok THEN Refused
                      ELSE [kind |-> "prepared", package |-> package, workspace |-> workspace,
                            dependency |-> p, source |-> roots.source,
                            identity |-> print.complete, files |-> print.files,
                            cache |-> ResolveCacheRoot(w, workspace), network |-> NetworkAllowed(p)]

Init == world \in Worlds /\ answer = NoAnswer
Prepare ==
  /\ answer = NoAnswer
  /\ answer' = PrepareOutcome(world) /\ UNCHANGED world
Next == Prepare
Spec == Init /\ [][Next]_vars

-----------------------------------------------------------------------------
\* The path packages Cargo would build for the request: closed under dependency edges, the
\* workspace of a member and, of a workspace, its members and the packages it patches or replaces.
Matches(patterns, d) ==
  \E p \in patterns : IF p.star THEN d # p.dir /\ Above[d] = Above[p.dir] \union {d} ELSE d = p.dir
Closed(w, S) ==
  \A d \in S :
    LET m == w.manifest[d]
        above == {x \in Above[d] : HasManifest(w, x) /\ w.manifest[x].workspace
                                   /\ \A y \in Above[d] : (x \in Above[y] /\ x # y) => y \notin w.git}
    IN /\ {e.root : e \in {e \in m.deps : ~e.inherit}} \subseteq S
       /\ above # {} => Deepest(above) \in S
       /\ above # {} => \A e \in m.deps : e.inherit =>
            \A s \in w.manifest[Deepest(above)].shares : s.alias = e.alias => s.root \in S
       /\ m.workspace =>
            /\ {e.root : e \in m.overrides} \subseteq S
            /\ {x \in Dirs : HasManifest(w, x) /\ Matches(m.members, x) /\ ~Matches(m.exclude, x)} \subseteq S

(* A prepared path dependency is bound to its sources: the files the fingerprint hashes   *)
(* are the manifests, lock file, build scripts and Rust sources of a set of packages that *)
(* is closed under the edges Cargo follows, overrides and workspace members included, so  *)
(* no change to one of those files keeps an old cache entry alive (another file that a    *)
(* source includes, or one below vendor or target, is not hashed); what the source        *)
(* provider reads belongs to the locked name and version and is hashed as well; and       *)
(* neither the sources nor the cache leave the places they are confined to.               *)
SourcesAreBound ==
  answer.kind = "prepared" =>
    LET p == answer.dependency
        within == {d \in Dirs : AuthorizeSourceRoot({answer.workspace} \union world.allowed, d)}
        hashed == {d \in within : BoundedFingerprintFiles(world, d) \subseteq answer.files}
    IN /\ p.kind = "path" =>
            /\ answer.source \subseteq within
            /\ SourceFiles(world, answer.source) \subseteq answer.files
            /\ \A d \in answer.source : Norm[world.manifest[d].name] = Norm[p.name]
            /\ \E S \in SUBSET hashed : {answer.package, answer.workspace} \subseteq S /\ Closed(world, S)
       /\ p.kind # "path" => \A d \in answer.source : \E c \in world.checkouts :
            c.dir = d /\ c.head = p.revision /\ c.version = p.version
       /\ answer.network => answer.source = {}
       /\ answer.cache = "processTemp" \/ ~Contains(answer.workspace, answer.cache)
=============================================================================
