--------------------------- MODULE InputIdentity ---------------------------
(***************************************************************************)
(* The input identity of a gate: what a worktree holds as far as Cargo can *)
(* see it, named by HEAD, the paths Git calls changed, and the bytes of    *)
(* the files that were collected.  The gate computes it before a           *)
(* compilation and again after it, and publishes a verdict only if the two *)
(* are complete and equal.  Nothing is locked meanwhile: between any two   *)
(* probes, walks and reads files are written, deleted and committed.       *)
(* (workspace/identity.rs; workspace/git_probe.rs; tools/check.rs,         *)
(* identity_for)                                                           *)
(*                                                                         *)
(* Paths are sequences of names.  The bytes of a file are a version and a  *)
(* size; SHA-256 of length-prefixed fields is the fields themselves.  The  *)
(* depth and the number of directories of a walk, and untracked nested     *)
(* repositories, are left out.                                             *)
(***************************************************************************)
EXTENDS Integers, FiniteSets, Sequences

CONSTANTS
  Path,          \* the files there may be
  Authority,     \* the authorised root
  Workspace,     \* the root of the Cargo workspace
  Manifest, CargoHome, TargetDir,
  PathRoots,     \* the roots of path dependencies, outside the Cargo workspace
  RustName,      \* names with the extension rs
  Ignored,       \* what .gitignore covers
  Starts,        \* [there: what the disk holds, tracked: what HEAD does,
                 \*  git: is there a HEAD, top: where .git is, <<>> if above all or nowhere]
  Sizes,
  MaxFiles, MaxFileBytes, MaxTotalBytes, MaxExternalFiles, MaxExternalBytes,
  MaxEdits, MaxFaults,
  Creatable,     \* bound: the files that may be created
  Nothing        \* no reason why an identity is incomplete

VARIABLES
  disk,      \* path -> [kind, version, size]
  commits,   \* what each commit holds, the last one is HEAD; <<>>: no repository
  top,       \* the top of the repository
  phase,     \* "first", "window", "second" or "done"
  pass,      \* the computation under way
  first,     \* the identity before the compilation
  second,    \* and the one after it
  seen,      \* history: the disk at the start of the compilation
  moved,     \* history: the paths that changed during it
  torn,      \* history: a commit fell between the probes of the second pass
  spent,     \* the paths that were created or deleted
  edits, faults

inputs == <<disk, commits, top, moved, torn, spent, edits>>
vars == <<inputs, phase, pass, first, second, seen, faults>>

Absent == [kind |-> "absent", version |-> 0, size |-> 0]
File(v, n) == [kind |-> "file", version |-> v, size |-> n]
Entry(d, p) == IF p \in DOMAIN d THEN d[p] ELSE Absent

-----------------------------------------------------------------------------
(* Paths.                                                                  *)

Within(dir, p) == Len(dir) <= Len(p) /\ SubSeq(p, 1, Len(dir)) = dir
Name(p) == p[Len(p)]

\* git_cwd, find_worktree_boundary: where .git was found, or the authorised root.
Worktree == IF Within(Authority, top) THEN top ELSE Authority
\* metadata_external_roots: the path dependencies outside it.
Externals == {dir \in PathRoots : ~Within(Worktree, dir)}
External(p) == \E dir \in Externals : Within(dir, p)

SkippedNames == {".git", ".worktrees", "node_modules", "target"}
ShouldSkip(start, p) == \E i \in (Len(start) + 1)..Len(p) : p[i] \in SkippedNames

CargoNames == {"Cargo.toml", "Cargo.lock", "rust-toolchain", "rust-toolchain.toml"}
IsIdentityCandidate(p) == Name(p) \in CargoNames \union {"config", "config.toml"} \union RustName

\* Manifests and toolchains at three places, Cargo configurations at and above
\* them, and those of the Cargo home.
IdentityConfigPaths ==
  LET roots == {Workspace, Worktree, SubSeq(Manifest, 1, Len(Manifest) - 1)}
      above == UNION {{SubSeq(r, 1, n) : n \in 0..Len(r)} : r \in roots}
  IN {Manifest}
       \union {r \o <<n>> : r \in roots, n \in CargoNames}
       \union {a \o <<".cargo", n>> : a \in above, n \in {"config", "config.toml"}}
       \union {CargoHome \o <<n>> : n \in {"config", "config.toml"}}

-----------------------------------------------------------------------------
(* The steps of compute_input_identity_inner.                              *)

Started == [pc |-> "head", head |-> 0, changed |-> {}, files |-> {},
            read |-> <<>>, counts |-> [own |-> 0, ownBytes |-> 0, ext |-> 0, extBytes |-> 0],
            reason |-> Nothing]

\* set_reason: the first reason stays.
Because(reason, next) == IF reason = Nothing THEN next ELSE reason

Computing == phase \in {"first", "second"}
Step(from) == Computing /\ pass.pc = from /\ UNCHANGED <<inputs, phase, first, second, seen>>
Faulty == faults < MaxFaults /\ faults' = faults + 1

\* Without a HEAD, or an answer of Git, everything is walked.
RevParseHead ==
  /\ Step("head")
  /\ \/ commits # <<>> /\ pass' = [pass EXCEPT !.pc = "diff", !.head = Len(commits)] /\ faults' = faults
     \/ commits = <<>> /\ pass' = [pass EXCEPT !.pc = "walk"] /\ faults' = faults
     \/ Faulty /\ pass' = [pass EXCEPT !.pc = "walk"]

\* What Git prints, external: diff --name-only names paths from the top of the
\* repository, ls-files from the current directory.
HeadTree == commits[Len(commits)]
InIndex(p) == HeadTree[p] # Absent
After(dir, p) == SubSeq(p, Len(dir) + 1, Len(p))
Below == {p \in Path : Within(Worktree, p)}
DiffNames == {After(top, p) : p \in {q \in Below : InIndex(q) /\ disk[q] # HeadTree[q]}}
OtherNames ==
  {After(Worktree, p) : p \in {q \in Below : ~InIndex(q) /\ disk[q] # Absent /\ q \notin Ignored}}

\* collect_git_paths: both probes are joined to the current directory.
Joined(names) == {p \in {Worktree \o n : n \in names} : ~Within(TargetDir, p)}
Probe(from, to, names) ==
  LET all == pass.changed \union Joined(names)
  IN
  /\ Step(from)
  /\ \/ /\ pass' = [pass EXCEPT !.pc = to, !.changed = all,
                      !.reason = IF Cardinality(all) > MaxFiles THEN "FileBudget" ELSE @]
        /\ faults' = faults
     \/ /\ Faulty
        /\ \E why \in {"GitTruncated", "GitFailed"} : pass' = [pass EXCEPT !.pc = "changed", !.reason = why]
Diff == Probe("diff", "others", DiffNames)
Others == Probe("others", "changed", OtherNames)

\* insert_with_limit: which ones stay out does not matter, the identity is
\* incomplete then.
Insert(files, new, external) ==
  LET all == files \union new
      max == IF external THEN MaxExternalFiles ELSE MaxFiles
      counted == {p \in all : External(p) = external}
  IN IF Cardinality(counted) <= max THEN [files |-> all, reason |-> Nothing]
     ELSE [files |-> files, reason |-> IF external THEN "ExternalBudget" ELSE "FileBudget"]

\* Links, and entries that are neither files nor directories.
Oddity(paths) ==
  CASE \E p \in paths : Entry(disk, p).kind = "link" -> "Symlink"
    [] \E p \in paths : Entry(disk, p).kind = "other" -> "Unreadable"
    [] OTHER -> Nothing
Regular(paths) == {p \in paths : Entry(disk, p).kind = "file"}

Collect(from, to, paths, kept, external) ==
  LET inserted == Insert(pass.files, Regular(kept), external)
  IN /\ Step(from)
     /\ pass' = [pass EXCEPT !.pc = to, !.files = inserted.files,
                             !.reason = Because(Because(@, Oddity(paths)), inserted.reason)]
     /\ faults' = faults

CollectChangedPaths == Collect("changed", "walk", pass.changed, pass.changed, FALSE)

\* walk_tree.
Walked(dir) == {p \in Path : Within(dir, p) /\ p # dir /\ ~ShouldSkip(dir, p) /\ ~Within(TargetDir, p)}
Sources(paths, all) == {p \in paths : all \/ IsIdentityCandidate(p)}
WalkWorkspace ==
  Collect("walk", "config", Walked(Workspace), Sources(Walked(Workspace), pass.head = 0), FALSE)

\* Mutant: only the configurations inside the authorised root.
AddIdentityConfigPaths_Inside ==
  /\ Step("config") /\ faults' = faults
  /\ pass' = [pass EXCEPT !.pc = "external",
                          !.files = @ \union Regular({p \in IdentityConfigPaths : Within(Authority, p)})]

\* Configurations are not counted.
AddIdentityConfigPaths ==
  /\ Step("config") /\ faults' = faults
  /\ pass' = [pass EXCEPT !.pc = "external", !.files = @ \union Regular(IdentityConfigPaths),
                          !.reason = Because(@, Oddity(IdentityConfigPaths))]

WalkExternalRoots ==
  LET paths == UNION {Walked(dir) : dir \in Externals}
  IN Collect("external", "missing", paths, paths, TRUE)

\* The changed paths are hashed with what is there now.
HashChangedPaths ==
  /\ Step("missing") /\ faults' = faults
  /\ pass' = [pass EXCEPT !.pc = "read",
                          !.changed = {[path |-> p, there |-> Entry(disk, p).kind \in {"file", "other"}] : p \in pass.changed}]

\* read_identity_file and the budgets, one file at a time.
Budget(counts, p, e) ==
  CASE External(p) /\ counts.ext >= MaxExternalFiles -> "ExternalBudget"
    [] ~External(p) /\ counts.own >= MaxFiles -> "FileBudget"
    [] e.kind = "file" /\ e.size > MaxFileBytes -> "FileSizeBudget"
    [] e.kind = "file" /\ External(p) /\ counts.extBytes + e.size > MaxExternalBytes -> "ExternalBudget"
    [] e.kind = "file" /\ ~External(p) /\ counts.ownBytes + e.size > MaxTotalBytes -> "ByteBudget"
    [] e.kind = "link" -> "Symlink"
    [] e.kind = "other" -> "Unreadable"
    [] OTHER -> Nothing
Counted(counts, p, e) ==
  IF External(p) THEN [counts EXCEPT !.ext = @ + 1, !.extBytes = @ + e.size]
  ELSE [counts EXCEPT !.own = @ + 1, !.ownBytes = @ + e.size]
ReadFile ==
  /\ Step("read") /\ pass.files # {} /\ faults' = faults
  /\ LET p == CHOOSE q \in pass.files : TRUE   \* the order of the paths
         e == Entry(disk, p)
         why == Budget(pass.counts, p, e)
     IN pass' = [pass EXCEPT !.files = @ \ {p},
                   !.reason = Because(@, why),
                   !.read = [q \in DOMAIN @ \union {p} |-> IF q \in DOMAIN @ THEN @[q] ELSE e.version],
                   !.counts = IF why = Nothing /\ e.kind = "file" THEN Counted(@, p, e) ELSE @]

Identity == [head |-> pass.head, changed |-> pass.changed, read |-> pass.read,
             complete |-> pass.reason = Nothing]

\* An incomplete identity ends the request before Cargo is started.
Finish ==
  /\ Computing /\ pass.pc = "read" /\ pass.files = {}
  /\ pass' = Started /\ UNCHANGED <<inputs, faults>>
  /\ \/ /\ phase = "first" /\ first' = Identity /\ seen' = disk /\ UNCHANGED second
        /\ phase' = IF Identity.complete THEN "window" ELSE "done"
     \/ phase = "second" /\ second' = Identity /\ phase' = "done" /\ UNCHANGED <<first, seen>>

\* checkpoint: cancelled or out of time, the request ends without a verdict.
Checkpoint ==
  /\ Computing /\ Faulty /\ phase' = "done" /\ pass' = Started
  /\ UNCHANGED <<inputs, first, second, seen>>

\* The second computation begins when the compilation has ended.
Recompute ==
  /\ phase = "window" /\ phase' = "second"
  /\ UNCHANGED <<inputs, pass, first, second, seen, faults>>

\* Mutant: the verdict stands if HEAD and the changed paths are the same.
Published_Names ==
  /\ phase = "done" /\ first.complete /\ second.complete
  /\ second.head = first.head /\ second.changed = first.changed

\* The verdict of the compilation is published.
Published ==
  /\ phase = "done" /\ first.complete /\ second.complete
  /\ second.head = first.head /\ second.changed = first.changed /\ second.read = first.read

-----------------------------------------------------------------------------
(* Meanwhile, outside.  What was changed is not restored: a version is     *)
(* never written twice, and a path is created or deleted once.             *)

\* A bound: a computation that is incomplete ends the request, whatever is changed after.
Outside(changed) ==
  /\ phase # "done" /\ pass.reason = Nothing
  /\ edits < MaxEdits /\ edits' = edits + 1
  /\ moved' = IF phase = "window" THEN moved \union changed ELSE moved
  /\ UNCHANGED <<top, phase, pass, first, second, seen, faults>>

Put(p, e) == disk' = [disk EXCEPT ![p] = e] /\ Outside({p}) /\ UNCHANGED <<commits, torn>>

Write(p) ==
  /\ disk[p] # Absent /\ UNCHANGED spent
  /\ \/ \E n \in Sizes : Put(p, File(disk[p].version + 1, n))
     \/ Put(p, [kind |-> "link", version |-> disk[p].version + 1, size |-> 0])

Create(p) ==
  /\ p \in Creatable /\ disk[p] = Absent /\ p \notin spent /\ spent' = spent \union {p}
  /\ \E n \in Sizes : Put(p, File(2, n))

Delete(p) ==
  /\ disk[p] # Absent /\ p \notin spent /\ spent' = spent \union {p}
  /\ Put(p, Absent)

\* Everything below the top that is tracked or not ignored.
Commit ==
  /\ commits # <<>> /\ Len(commits) = 1
  /\ commits' = Append(commits, [p \in Path |->
                  IF Within(top, p) /\ (InIndex(p) \/ p \notin Ignored) THEN disk[p] ELSE Absent])
  /\ torn' = (torn \/ (phase = "second" /\ pass.pc \in {"diff", "others"}))
  /\ Outside({}) /\ UNCHANGED <<disk, spent>>

-----------------------------------------------------------------------------
NoIdentity == [head |-> 0, changed |-> {}, read |-> <<>>, complete |-> FALSE]
Tree(paths) == [p \in Path |-> IF p \in paths THEN File(1, CHOOSE n \in Sizes : TRUE) ELSE Absent]

Init ==
  /\ \E start \in Starts :
       /\ disk = Tree(start.there) /\ top = start.top
       /\ commits = IF start.git THEN <<Tree({p \in start.tracked : Within(start.top, p)})>> ELSE <<>>
  /\ phase = "first" /\ pass = Started /\ first = NoIdentity /\ second = NoIdentity
  /\ seen = disk /\ moved = {} /\ torn = FALSE /\ spent = {} /\ edits = 0 /\ faults = 0

Next ==
  \/ RevParseHead \/ Diff \/ Others \/ CollectChangedPaths \/ WalkWorkspace
  \/ AddIdentityConfigPaths \/ WalkExternalRoots \/ HashChangedPaths \/ ReadFile
  \/ Finish \/ Checkpoint \/ Recompute
  \/ \E p \in Path : Write(p) \/ Create(p) \/ Delete(p)
  \/ Commit

Spec == Init /\ [][Next]_vars

-----------------------------------------------------------------------------
\* What an identity answers for.  Left out are the target directory, what Git
\* ignores unless it is a source, the names that a walk skips, and, where the
\* repository begins above the directory that Git is run in, all but sources:
\* the names that git diff prints are then joined to the wrong directory.  And
\* there, or without a HEAD, everything in the worktree outside the Cargo
\* workspace is left out, its path dependencies and members included: they are
\* not external, and only the Cargo workspace is walked, so their edits go unseen.
Covered(id, p) ==
  /\ ~Within(TargetDir, p)
  /\ \/ p \in IdentityConfigPaths
     \/ \E dir \in Externals : Within(dir, p) /\ ~ShouldSkip(dir, p)
     \/ Within(Workspace, p) /\ ~ShouldSkip(Workspace, p) /\ (IsIdentityCandidate(p) \/ id.head = 0)
     \/ id.head > 0 /\ top = Worktree /\ Within(Worktree, p) /\ p \notin Ignored

\* The version that an identity names for a path.
Named(id, p) ==
  CASE p \in DOMAIN id.read -> id.read[p]
    [] p \in IdentityConfigPaths \/ p \in Sources(Walked(Workspace), FALSE) -> 0
    [] \E c \in id.changed : c.path = p /\ ~c.there -> 0
    [] id.head > 0 /\ Within(Worktree, p) -> commits[id.head][p].version
    [] OTHER -> 0

\* A verdict is published only for inputs that the identity in it names: every
\* path that Cargo could read and the identity answers for held, when the
\* compilation began, the version that the identity names, and did not change
\* while it ran, whatever was written, created, deleted or committed between the
\* steps of the two computations.  Except: a commit between the probes of the
\* second one hides what it commits (workspace/identity.rs,
\* compute_input_identity_inner; tools/check.rs, the post identity).
IdentityBindsInputs ==
  Published /\ ~torn =>
    \A p \in Path : Covered(first, p) => p \notin moved /\ seen[p].version = Named(first, p)
=============================================================================
