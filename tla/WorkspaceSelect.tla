--------------------------- MODULE WorkspaceSelect ---------------------------
(***************************************************************************)
(* The pure part of workspace authority: which roots a client gets, which  *)
(* package a directory selects, and which manifests a package depends on   *)
(* (workspace/roots.rs, workspace/select.rs, workspace/metadata.rs).       *)
(*                                                                         *)
(* A path is the sequence of its names.  A disk says which directories     *)
(* hold a Cargo.toml, a symbolic link in its place, a .git entry, a        *)
(* [workspace] table, and where its dependencies and members point.  Every *)
(* operator is evaluated on one disk: the code reads it through directory  *)
(* handles, entry by entry.                                                *)
(***************************************************************************)
EXTENDS Naturals, Sequences, FiniteSets, SequencesExt

CONSTANTS
    Tree,      \* the directories, with all their ancestors
    NoPath     \* absence of a path

(***************************************************************************)
(* disk.manifest    directories whose Cargo.toml is a regular file         *)
(* disk.link        directories whose Cargo.toml is a symbolic link        *)
(* disk.git         directories with a .git entry                          *)
(* disk.workspace   manifests with a [workspace] table                     *)
(* disk.explicit[d] the package.workspace key of the manifest of d         *)
(* disk.deps[d]     where the path dependencies of the manifest of d point *)
(* disk.members[d]  what its workspace members expand to                   *)
(***************************************************************************)
Within(root, path) == IsPrefix(root, path)

Children(d) == {c \in Tree : Len(c) = Len(d) + 1 /\ IsPrefix(d, c)}

\* The directories from path up to root, both included.
Upwards(root, path) == {d \in Tree : Within(root, d) /\ Within(d, path)}

Nearest(dirs) == CHOOSE d \in dirs : \A e \in dirs : Len(e) <= Len(d)

Unique(dirs) == Cardinality(dirs) = 1

-----------------------------------------------------------------------------
(* RootGuard::snapshot, RootSnapshot::select                               *)

\* intersect_client_roots: the deeper of each comparable pair.
IntersectClientRoots(configured, client) ==
    {c \in client : \E g \in configured : Within(g, c)} \cup
    {g \in configured : \E c \in client : Within(c, g)}

\* RootSnapshot::select: an argument is tried against the roots in their
\* order, and the first root that holds it is its authority.
SelectRoot(roots, dir) ==
    LET holding == {g \in roots : Within(g, dir)}
        first   == CHOOSE g \in holding : \A h \in holding : Len(g) <= Len(h)
    IN CASE dir = NoPath /\ Cardinality(roots) = 1 ->
              LET g == CHOOSE g \in roots : TRUE IN [root |-> g, dir |-> g]
         [] dir = NoPath /\ Cardinality(roots) # 1 ->
              [root |-> NoPath, dir |-> NoPath]
         [] dir # NoPath /\ (holding = {} \/ dir \notin Tree) ->
              [root |-> NoPath, dir |-> NoPath]
         [] OTHER -> [root |-> first, dir |-> dir]

-----------------------------------------------------------------------------
(* select_in_root                                                          *)

FindWorktreeBoundary(disk, root, dir) ==
    LET marked == Upwards(root, dir) \cap disk.git
    IN IF marked = {} THEN root ELSE Nearest(marked)

\* A manifest that is met on the way decides, a link in its place is an error.
FindAncestorManifest(disk, boundary, dir) ==
    LET met == Upwards(boundary, dir) \cap (disk.manifest \cup disk.link)
    IN CASE met = {} -> [ok |-> TRUE, package |-> NoPath]
         [] met # {} /\ Nearest(met) \in disk.link ->
              [ok |-> FALSE, package |-> NoPath]
         [] OTHER -> [ok |-> TRUE, package |-> Nearest(met)]

\* child_manifest_candidates: a nested repository is never entered.
ChildManifestCandidates(disk, parent) ==
    LET open == Children(parent) \ disk.git
    IN [ok |-> open \cap disk.link = {}, found |-> open \cap disk.manifest]

Unselected == [package |-> NoPath, worktree |-> NoPath]

\* select_in_root: the manifest above, else the only child, else the only
\* grandchild; several candidates are refused.
SelectInRoot(disk, root, dir) ==
    LET boundary == FindWorktreeBoundary(disk, root, dir)
        above    == FindAncestorManifest(disk, boundary, dir)
        direct   == ChildManifestCandidates(disk, dir)
        below    == {ChildManifestCandidates(disk, c) :
                        c \in Children(dir) \ disk.git}
        nested   == UNION {b.found : b \in below}
        only(ds) == [package |-> CHOOSE d \in ds : TRUE, worktree |-> boundary]
    IN CASE ~above.ok -> Unselected
         [] above.ok /\ above.package # NoPath ->
              [package |-> above.package, worktree |-> boundary]
         [] above.ok /\ above.package = NoPath /\ ~direct.ok -> Unselected
         [] above.ok /\ above.package = NoPath /\ direct.ok
            /\ direct.found # {} ->
              IF Unique(direct.found) THEN only(direct.found) ELSE Unselected
         [] OTHER ->
              IF Unique(nested) /\ \A b \in below : b.ok
              THEN only(nested) ELSE Unselected

-----------------------------------------------------------------------------
(* MetadataService::preflight_inner and validate_metadata                  *)

\* owning_workspace_dir: upwards from the package to the worktree, the first
\* [workspace] table or the package.workspace key of the package itself.
OwningWorkspace(disk, sel) ==
    LET up    == Upwards(sel.worktree, sel.package)
        named == disk.explicit[sel.package]
        owns(d) == \/ d \in disk.workspace \cap disk.manifest
                   \/ d = sel.package /\ named # NoPath
        met   == {d \in up : owns(d) \/ d \in disk.link}
        first == Nearest(met)
    IN CASE met = {} -> [ok |-> TRUE, dir |-> NoPath]
         [] met # {} /\ first \in disk.workspace \cap disk.manifest ->
              [ok |-> TRUE, dir |-> first]
         [] met # {} /\ first \in disk.link -> [ok |-> FALSE, dir |-> NoPath]
         [] OTHER -> [ok |-> Within(sel.worktree, named), dir |-> named]

\* authorize_manifest_dir: the worktree, or a configured dependency root.
Authorized(sel, dependencies, d) ==
    \/ Within(sel.worktree, d)
    \/ \E g \in dependencies : Within(g, d)

\* collect_path_values: the path of every dependency, development or build
\* dependency, of the workspace, a target, a patch or a replacement.
DependencyPaths(disk, d) == disk.deps[d]

\* expand_workspace_member: a member is below its manifest and has one itself.
WorkspaceMembers(disk, d) ==
    LET all == disk.members[d]
    IN [ok |-> \A m \in all : Within(d, m) /\ m \in disk.manifest,
        found |-> all]

\* One round of the manifest queue.
Enqueued(disk, dirs) ==
    dirs \cup UNION {DependencyPaths(disk, d) \cup WorkspaceMembers(disk, d).found :
                       d \in dirs}

\* The queue of preflight_inner, run until nothing new is enqueued: there
\* are at most Cardinality(Tree) rounds.
Reached(disk, start) ==
    LET round[n \in 0..Cardinality(Tree)] ==
            IF n = 0 THEN start ELSE Enqueued(disk, round[n - 1])
    IN round[Cardinality(Tree)]

\* Mutant: a path dependency is enqueued without being authorised.
Preflight_Unauthorized(disk, sel, dependencies) ==
    LET owner == OwningWorkspace(disk, sel)
        start == {sel.package} \cup ({owner.dir} \ {NoPath})
        dirs  == Reached(disk, start)
    IN [ok |-> owner.ok /\ dirs \subseteq disk.manifest
               /\ \A d \in dirs : WorkspaceMembers(disk, d).ok,
        manifests |-> dirs,
        external |-> {d \in dirs : ~Within(sel.worktree, d)}]

\* preflight_inner: the closure of the manifests, each authorised and
\* readable before cargo runs at all; otherwise the acquisition fails.
Preflight(disk, sel, dependencies) ==
    LET owner == OwningWorkspace(disk, sel)
        start == {sel.package} \cup ({owner.dir} \ {NoPath})
        dirs  == Reached(disk, start)
    IN [ok |-> /\ owner.ok
               /\ \A d \in dirs : Authorized(sel, dependencies, d)
               /\ dirs \subseteq disk.manifest
               /\ \A d \in dirs : WorkspaceMembers(disk, d).ok,
        manifests |-> dirs,
        external |-> {d \in dirs : ~Within(sel.worktree, d)}]

(***************************************************************************)
(* What cargo metadata reports is [root, packages]: the workspace root, and *)
(* for every package its directory, whether it has a source (a registry or *)
(* Git) and whether it is a workspace member.                              *)
(***************************************************************************)

\* validate_metadata: of the packages without a source that are no members,
\* those outside the worktree are exactly the external roots of the closure,
\* each in a dependency root.
ValidateMetadata(reported, sel, closure, dependencies) ==
    LET judged  == {p.dir : p \in {q \in reported.packages : ~q.source /\ ~q.member}}
        outside == {d \in judged : ~Within(sel.worktree, d)}
    IN /\ \A d \in outside : \E g \in dependencies : Within(g, d)
       /\ outside = closure.external

\* canonical_metadata_workspace_root: the package itself, or in the worktree.
\* It is all that is asked of the members.
WorkspaceRootInside(reported, sel) ==
    reported.root = sel.package \/ Within(sel.worktree, reported.root)

-----------------------------------------------------------------------------
(* Properties of the results, checked over bounded disks                   *)

\* A root given to a client lies in a configured root and in a root of the
\* client (RootGuard::snapshot).
GrantsInside(configured, client) ==
    \A g \in IntersectClientRoots(configured, client) :
        /\ \E c \in configured : Within(c, g)
        /\ \E c \in client : Within(c, g)

\* The selected package lies under its root and inside the worktree of the
\* requested directory: no other repository begins on the way to it
\* (select_in_root).
SelectionInside(disk, root, dir) ==
    LET sel == SelectInRoot(disk, root, dir)
    IN sel # Unselected =>
         /\ sel.package \in disk.manifest \ disk.link
         /\ Within(root, sel.worktree) /\ Within(sel.worktree, sel.package)
         /\ \A d \in Upwards(sel.worktree, sel.package) :
                d \in disk.git => d = sel.worktree

(***************************************************************************)
(* Cargo is started only on a closure that lies in the worktree or in      *)
(* dependency roots, followed to its end.  Of what it then reports, the    *)
(* workspace root lies in the worktree, and a path dependency that is no   *)
(* workspace member lies there or is an authorised manifest of the         *)
(* closure, whose files the fingerprint covers.  Members are not judged    *)
(* again: those that the manifests name are in the closure (preflight_-    *)
(* inner, validate_metadata, canonical_metadata_workspace_root).           *)
(***************************************************************************)
LoadsInside(disk, sel, dependencies, reported) ==
    LET closure == Preflight(disk, sel, dependencies)
    IN closure.ok =>
         /\ \A d \in Enqueued(disk, closure.manifests) : Authorized(sel, dependencies, d)
         /\ (/\ ValidateMetadata(reported, sel, closure, dependencies)
             /\ WorkspaceRootInside(reported, sel)) =>
              /\ Within(sel.worktree, reported.root)
              /\ \A p \in reported.packages :
                    \/ p.source \/ p.member \/ Within(sel.worktree, p.dir)
                    \/ p.dir \in closure.manifests /\ Authorized(sel, dependencies, p.dir)
=============================================================================
