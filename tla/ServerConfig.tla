---------------------------- MODULE ServerConfig ----------------------------
(***************************************************************************)
(* The configuration a server starts with (config.rs), and the services it *)
(* builds from it (AppState::new in server/mod.rs).                        *)
(*                                                                         *)
(* A configuration maps settings to values.  A layer - the TOML file, the  *)
(* environment, the command line - maps some of them, and replaces what    *)
(* was there.  Path settings are sequences of names; the disk is a set of  *)
(* directories and of links to directories.                                *)
(***************************************************************************)
EXTENDS Naturals, Sequences, FiniteSets, TLC

CONSTANTS
    Switches,      \* settings that are true or false, the tools among them
    Numbers,       \* settings with a range
    Least,         \* least value of a number
    Greatest,      \* greatest value of a number
    OwnedPaths,    \* directories and files the server keeps for itself
    RootLists,     \* settings that are sets of authorized roots
    Unparsable,    \* text that is no value of its setting
    Dirs,          \* directories that exist
    Links,         \* links: the directory each one stands for
    MaxAdapters    \* bound on runtime adapters and on their workloads

Settings == Switches \cup Numbers \cup OwnedPaths \cup RootLists

-----------------------------------------------------------------------------
(* Layers                                                                  *)

\* apply_file: the file has been parsed as a whole, every value is one.
ApplyFile(config, file) == file @@ config

\* apply_environment, for every variable with the prefix: an unknown name or
\* a value that cannot be parsed stops the start.
EnvironmentParses(env) ==
    /\ DOMAIN env \subseteq Settings
    /\ \A s \in DOMAIN env : env[s] # Unparsable

ApplyEnvironment(config, env) == env @@ config

\* apply_cli: enumerations and lists are parsed here, the rest by the parser.
CliParses(cli) == \A s \in DOMAIN cli : cli[s] # Unparsable

ApplyCli(config, cli) == cli @@ config

\* from_sources: the command line overrides the environment, which overrides
\* the file, which overrides the defaults.
FromSources(defaults, file, env, cli) ==
    ApplyCli(ApplyEnvironment(ApplyFile(defaults, file), env), cli)

-----------------------------------------------------------------------------
(* Paths                                                                   *)

Prefixes(p) == {SubSeq(p, 1, n) : n \in 0..Len(p)}

PathIsWithin(root, p) == root \in Prefixes(p)

PathsOverlap(p, q) == PathIsWithin(p, q) \/ PathIsWithin(q, p)

\* The existing ancestors of a path, itself among them: fs::canonicalize
\* succeeds on these.  A link and what is under it exist with their target.
Through(link, p) == Links[link] \o SubSeq(p, Len(link) + 1, Len(p))

CrossedLinks(p) == Prefixes(p) \cap DOMAIN Links

Canonical(p) ==
    IF CrossedLinks(p) = {} THEN p
    ELSE Through(CHOOSE l \in CrossedLinks(p) : TRUE, p)

Exists(p) == Canonical(p) \in Dirs

\* Mutant: the path is compared as it is written when it does not exist yet.
CanonicalizeExistingAncestor_AsWritten(p) == IF Exists(p) THEN Canonical(p) ELSE p

\* normalize_config_path and canonicalize_existing_ancestor: the nearest
\* ancestor that exists is resolved, and the missing names are put back.
CanonicalizeExistingAncestor(p) ==
    LET near == CHOOSE a \in {x \in Prefixes(p) : Exists(x)} :
                    \A b \in {x \in Prefixes(p) : Exists(x)} : Len(b) <= Len(a)
    IN Canonical(near) \o SubSeq(p, Len(near) + 1, Len(p))

\* reject_path_overlap, in both directions.
OverlapsRoot(p, roots) ==
    \E r \in roots : PathsOverlap(CanonicalizeExistingAncestor(p),
                                  CanonicalizeExistingAncestor(r))

-----------------------------------------------------------------------------
(* Validation                                                              *)

\* check_range
InRange(config, n) == config[n] \in Least[n]..Greatest[n]

\* An adapter is a record of its name and of the names of its workloads.
Distinct(names) == \A i, j \in DOMAIN names : names[i] = names[j] => i = j

\* validate_runtime_adapters
AdaptersAreBounded(adapters) ==
    /\ Len(adapters) <= MaxAdapters
    /\ Distinct([i \in DOMAIN adapters |-> adapters[i].name])
    /\ \A i \in DOMAIN adapters :
           /\ Len(adapters[i].workloads) \in 1..MaxAdapters
           /\ Distinct(adapters[i].workloads)

\* The owned paths that the configuration uses: a project cache lives in the
\* workspace, a disabled tool has no scratch and disabled telemetry no log.
PathsInUse(config) ==
    {p \in OwnedPaths :
        CASE p = "gate.cache_dir"     -> config["gate.own_cache"]
          [] p = "change.scratch_dir" -> config["change"]
          [] p = "telemetry.path"     -> config["telemetry"]
          [] OTHER                    -> TRUE}

AuthorizedRoots(config) == UNION {config[r] : r \in RootLists}

\* Config::validate
Valid(config, adapters) ==
    /\ \A n \in Numbers : InRange(config, n)
    /\ config["limits.max_active_tasks"] <= config["limits.max_retained_tasks"]
    /\ config["profile.runtime_min_samples"] <= config["profile.runtime_max_samples"]
    /\ AdaptersAreBounded(adapters)
    /\ \A p \in PathsInUse(config) : ~OverlapsRoot(config[p], AuthorizedRoots(config))

-----------------------------------------------------------------------------
(* Tools and services                                                      *)

LspTools == {"symbol", "references", "definition", "symbols",
             "implementations", "hierarchy"}

\* enabled_tool_names
EnabledTools(config) ==
    {t \in {"check", "profile", "audit", "crate_lookup", "docs", "context",
            "api", "explain", "verify", "change", "work"} : config[t]}
    \cup (IF config["lsp"] THEN LspTools ELSE {})
    \cup {t \in {"rename", "refactor"} : config["lsp"] /\ config[t]}
    \cup {t \in {"repair"} : config["repair"] /\ config["change"]}

\* AppState::new: the services that may be missing.  The analyzer is there
\* when its binary was found, whatever the tools are.
Services(config, analyzer) ==
    {s \in {"change"} : config["change"]}
    \cup {s \in {"repair"} : config["repair"] /\ config["change"]}
    \cup {s \in {"lsp"} : analyzer}
=============================================================================
