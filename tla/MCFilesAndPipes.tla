---------------------------- MODULE MCFilesAndPipes ----------------------------
(***************************************************************************)
(* TLC instance of what crosses the boundary of a server process.  Files   *)
(* that it shares with other servers and with its successors: artifacts    *)
(* (AtomicPublish), the activity log (ActivityLog), the documentation      *)
(* cache (DocsResolver) and what its entries stand for (DocsSources), and  *)
(* the worktree that a gate names while others write it (InputIdentity).   *)
(* Pipes: the output of a command (ProcessOutput), Cargo's messages        *)
(* (CargoStream), the frames of rust-analyzer (LspFraming) and the         *)
(* conversation they carry (LspClient).                                    *)
(*                                                                         *)
(* They share no state, so a behaviour shows one of them, the subject,     *)
(* while the others rest: nothing that a property of one of them says      *)
(* could depend on a step of another.                                      *)
(***************************************************************************)
EXTENDS AtomicPublish, ActivityLog, DocsResolver, TLC

VARIABLES subject,
    world, prepared,
    printed, unread, readers, queue, col, eof, phase, drained,
    log, bytes, st, stage,
    frames, incoming, decoder, seen,
    closed, closing, writer, exited, shutdownStarted, pending, chan, documents,
    locks, nextLock, sync, task, cancelled, analyzer, reader, server, faults, torn,
    worktree, commits, top, gate, pass, first, second, before, moved, hidden, spent,
    edits, misses

sourceVars == <<world, prepared>>
outputVars == <<printed, unread, readers, queue, col, eof, phase, drained>>
cargoVars == <<log, bytes, st, stage>>
frameVars == <<frames, incoming, decoder, seen>>
clientVars == <<closed, closing, writer, exited, shutdownStarted, pending, chan,
                documents, locks, nextLock, sync, task, cancelled, analyzer,
                reader, server, faults, torn>>
identityVars == <<worktree, commits, top, gate, pass, first, second, before, moved,
                  hidden, spent, edits, misses>>

-----------------------------------------------------------------------------
\* AtomicPublish: two calls of one process and one of another publish the same
\* artifact.
Publishers == [a |-> "p", b |-> "p", c |-> "q"]

\* ActivityLog: two tasks of one process and one of another record events, with
\* and without archives.
Tasks == [a1 |-> "a", a2 |-> "a", b1 |-> "b"]

\* DocsResolver: two processes at one cold entry; two requests of one process at
\* it; a complete entry that another request's retention removes; and a cold one
\* whose lock file it removes; or no request.
One == [a |-> "e", b |-> "e", c |-> "e"]
Two == [a |-> "e", b |-> "e", c |-> "f"]
Start(rs, entries, complete, n, kinds) ==
    [requests |-> rs, want |-> entries, complete |-> complete,
     faults |-> [number |-> n, kinds |-> kinds]]
EveryFault == {"cancel", "late", "crash"}
Beginnings ==
    {Start({"a", "c"}, One, {}, 1, EveryFault), Start({"a", "b"}, One, {}, 2, EveryFault),
     Start({"a", "c"}, Two, {"e"}, 1, {"crash"}), Start({"a", "c"}, Two, {}, 0, {}),
     Start({}, One, {}, 0, {})}
Asked == [a |-> "x", b |-> "z", c |-> "x"]
DocsRs == {<<"missing", "page">>, <<"empty", "missing">>, <<"failed", "page">>}
Policy == [a |-> "local", b |-> "local", c |-> "expensive"]
-----------------------------------------------------------------------------
(* DocsSources: root > ws > {m, n, nested}, a workspace with two members   *)
(* and a package with a repository of its own; ext > lib, a dependency     *)
(* root outside.                                                           *)
Nil == "none"
Whichever == "any"
AllDirs == {"root", "ws", "m", "n", "nested", "ext", "lib", "tmp"}
Within == [root |-> {}, ws |-> {"root"}, m |-> {"root", "ws"}, n |-> {"root", "ws"},
           nested |-> {"root", "ws"}, ext |-> {}, lib |-> {"ext"}, tmp |-> {}]
Paths == [d \in AllDirs |-> Within[d] \cup {d}]
Names == {"app", "n", "N", "lib", "nested", "none", "git", "reg"}

Normalized == [n \in Names |-> IF n = "N" THEN "n" ELSE n]

NoManifest == [there |-> FALSE, workspace |-> FALSE, name |-> Nil, version |-> Nil,
               shared |-> Nil, members |-> {}, exclude |-> {}, deps |-> {},
               shares |-> {}, overrides |-> {}]
Package(name, version, deps) ==
    [NoManifest EXCEPT !.there = TRUE, !.name = name, !.version = version, !.deps = deps]
Edge(alias, package, root, version) ==
    [alias |-> alias, package |-> package, root |-> root, version |-> version,
     accepts |-> {version}, inherit |-> FALSE]
Take(alias) == [Edge(alias, alias, "ws", Whichever) EXCEPT !.inherit = TRUE]
Pat(d, star) == [dir |-> d, star |-> star]

Workspaces ==
    {[NoManifest EXCEPT !.there = TRUE, !.workspace = TRUE, !.shared = "1", !.members = ms,
                        !.exclude = {Pat("nested", FALSE)}, !.shares = sh, !.overrides = ov] :
        ms \in {{Pat("ws", TRUE)}, {Pat("m", FALSE)}, {Pat("m", FALSE), Pat("ext", FALSE)},
                {Pat(Nil, FALSE)}},
        sh \in {{}, {Edge("lib", "lib", "lib", "1")}},
        ov \in {{}, {Edge("n", "n", "n", "1")}, {Edge("lib", "lib", "lib", "1")}}}
Plain == [NoManifest EXCEPT !.there = TRUE, !.workspace = TRUE, !.members = {Pat("ws", TRUE)}]
Members ==
    {Package("app", v, ds) : v \in {"1", "inherit"},
        ds \in {{}, {Edge("n", "n", "n", Whichever)}, {Take("lib")}, {Edge("n", "N", "n", "2")}}}
Libs == {NoManifest, Package("lib", "1", {}), Package("lib", "inherit", {Take("n")})}
Outer == {NoManifest,
          [NoManifest EXCEPT !.there = TRUE, !.workspace = TRUE, !.shared = "1",
              !.members = {Pat("lib", FALSE)}, !.shares = {Edge("n", "n", "n", "1")}]}
Manifests(ws, m, n, lib, ext) ==
    [d \in AllDirs |->
        CASE d = "ws" -> ws [] d = "m" -> m [] d = "lib" -> lib [] d = "ext" -> ext
          [] d = "n" -> Package("n", "1", n) [] d = "nested" -> Package("nested", "1", {})
          [] OTHER -> NoManifest]
Locked(name, kind, url) ==
    [name |-> name, version |-> "1", kind |-> kind, url |-> url, revision |-> "r1"]
LockFile == {Locked("app", "path", Nil), Locked("n", "path", Nil), Locked("lib", "path", Nil),
             Locked("reg", "registry", "crates-io"), Locked("git", "git", "u1"),
             Locked("git", "git", "u2")}
Wanted(d, n, s) == [dir |-> d, name |-> n, version |-> Whichever, source |-> s]
World(manifests, allowed, git, issues, request) ==
    [manifest |-> manifests, root |-> "root", allowed |-> allowed, git |-> git,
     locks |-> {"ws"}, lock |-> LockFile, request |-> request,
     files |-> {"ws", "m", "n", "nested", "lib"}, skipped |-> {}, issues |-> issues,
     cache |-> "ext", temp |-> "tmp", home |-> "walked",
     checkouts |-> {[dir |-> "lib", name |-> "git", version |-> "1", head |-> h,
                     origin |-> "u1"] : h \in {"r1", "r2"}}]
AllWorlds ==
    {World(Manifests(ws, m, deps, lib, ext), al, git, {}, Wanted("m", n, Whichever)) :
        ws \in Workspaces, m \in Members, deps \in {{}, {Edge("lib", "lib", "lib", Whichever)}},
        lib \in Libs, ext \in Outer,
        al \in {{}, {"ext"}}, git \in {{}, {"m"}}, n \in {"N", "lib"}}
    \cup
    {[World(Manifests(Plain, Package("app", "1", {}), {}, NoManifest, NoManifest), {}, {}, iss,
            Wanted(d, n, s)) EXCEPT !.locks = lk, !.cache = ca, !.home = ho] :
        iss \in {{}, {"n"}}, d \in {"m", "ext", "root"}, n \in {"n", "reg", "git"},
        s \in {Whichever, "u1"}, lk \in {{}, {"ws"}, {"m"}}, ca \in {"n", "ext"},
        ho \in {Nil, "walked", "incomplete"}}

Sources == INSTANCE DocsSources WITH
    Dirs <- AllDirs, Above <- Paths, Worlds <- AllWorlds, MaxFiles <- 8,
    Norm <- Normalized,
    answer <- prepared

-----------------------------------------------------------------------------
\* ProcessOutput: texts with characters of several bytes, escape sequences and
\* diagnostics, longer and shorter than the tail that is kept.
Out(a, b) == [stdout |-> a, stderr |-> b]
Prints ==
    {Out(<<"a", "m1", "m2">>, <<"esc", "[", "d", "a">>),
     Out(<<"a", "m1", "m2", "nl", "d">>, <<"x", "m1">>),
     Out(<<"esc", "[", "nl", "a", "m1", "m2", "m1", "a">>, <<"d", "a", "nl">>),
     Out(<<"esc", "]", "a", "esc", "esc", "bs", "d", "nl">>, <<"ctl", "m1", "m2">>),
     Out(<<"a", "m1", "m2", "m1", "m2", "x", "a">>, <<"esc", "a", "a">>),
     Out(<<"esc", "]", "esc", "a", "bel", "d", "nl">>, <<"m2", "a">>)}
Output == INSTANCE ProcessOutput WITH
    Outputs <- Prints, ChunkSizes <- {1, 2, 4}, MaxBytes <- 6, Capacity <- 3,
    reader <- readers

\* CargoStream: three lines, among them more diagnostics and bytes than are kept.
NoDiagnostic == [level |-> "note", key |-> "none", size |-> 0]
Line(kind, len) == [kind |-> kind, len |-> len, diagnostic |-> NoDiagnostic]
Message(level, key, len, size) ==
    [kind |-> "diagnostic", len |-> len,
     diagnostic |-> [level |-> level, key |-> key, size |-> size]]
AnError == Message("error", "e1", 3, 3)
Diagnostics ==
    {Message("warning", "w1", 2, 2), Message("warning", "w2", 2, 2), AnError,
     Message("error", "e2", 2, 1), Message("error", "e3", 2, 5), Message("error", "e4", 4, 1)}
Lines == Diagnostics \cup
    {Line("finished", 1), Line("artifact", 1), Line("summary", 2), Line("human", 1),
     Line("malformed", 2), Line("badutf8", 1)}
CargoLogs == {<<a, b, c>> : a, b, c \in Diagnostics}
             \cup {<<a, AnError, c>> : a, c \in Lines}
Cargo == INSTANCE CargoStream WITH
    Logs <- CargoLogs, ChunkSizes <- {1, 2, 5}, MaxLine <- 3, MaxDiagnostics <- 2,
    MaxEvidenceBytes <- 4, unread <- bytes, phase <- stage

\* LspFraming: two or three frames, sound, unreadable, at a limit or beyond it, and
\* four of the smallest, more than the buffer has room for when two were taken.
Frame(h, says, len, body) == [header |-> h, says |-> says, len |-> len, body |-> body]
SomeFrames ==
    {Frame(1, "length", 2, "json"), Frame(2, "length", 0, "InvalidJson"),
     Frame(1, "length", 3, "InvalidUtf8"), Frame(1, "length", 6, "json"),
     Frame(2, "length", 3, "json"), Frame(2, "MissingContentLength", 1, "json"),
     Frame(1, "InvalidContentLength", 2, "json"), Frame(6, "length", 3, "json"),
     Frame(8, "length", 1, "json")}
Smallest == Frame(1, "length", 0, "InvalidJson")
FrameStreams == {<<a, b, c>> : a, b, c \in SomeFrames} \cup {<<a, b>> : a, b \in SomeFrames}
                \cup {<<Smallest, Smallest, Smallest, Smallest>>}
Framing == INSTANCE LspFraming WITH
    Streams <- FrameStreams, ReadSizes <- {1, 3, 8, 20}, MaxBody <- 3,
    MaxHeader <- 6, MaxFrames <- 2, unread <- incoming

\* LspClient: documents synchronised by several calls, requests that compete for
\* the table, shutdowns, and an analyzer that dies, stalls or closes its output.
Job(kind, text, token, attempts, hold) ==
    [kind |-> kind, uri |-> "u", text |-> text, token |-> token, attempts |-> attempts,
     hold |-> hold]
T1 == <<"a", "n", "w">>
T2 == <<"a", "n", "w", "b", "w">>
T3 == <<"w", "b">>
TooLong == <<"a", "a", "a">>
Ask(token, attempts) == Job("request", <<>>, token, attempts, FALSE)
SyncTo(text, token, hold) == Job("sync", text, token, 1, hold)
Close == Job("close", <<>>, FALSE, 1, FALSE)
CloseOther == [Close EXCEPT !.uri = "v"]
Stop == Job("shutdown", <<>>, FALSE, 1, FALSE)
Case(a, b, c, failures, calls, options) ==
    [jobs |-> ("t1" :> a) @@ ("t2" :> b) @@ ("t3" :> c), faults |-> failures,
     server |-> calls, sync |-> options]
Opt(open, change) == [open_close |-> open, change |-> change]
Conversations ==
    {Case(<<SyncTo(T1, FALSE, TRUE), SyncTo(T2, FALSE, FALSE), SyncTo(TooLong, FALSE, FALSE)>>,
          <<SyncTo(T3, TRUE, TRUE)>>, <<>>, {"dies"}, {}, o) : o \in {Opt(TRUE, 2), Opt(TRUE, 1)}}
    \cup
    {Case(<<SyncTo(T2, FALSE, FALSE), SyncTo(T1, FALSE, TRUE)>>, <<Close>>,
          <<SyncTo(T3, FALSE, FALSE), CloseOther>>, {}, {}, o) :
        o \in {Opt(TRUE, 2), Opt(FALSE, 0)}}
    \cup
    {Case(<<Ask(FALSE, 2)>>, <<Ask(TRUE, 1)>>, <<>>, {"stdout"}, {}, Opt(TRUE, 2)),
     Case(<<Ask(FALSE, 1)>>, <<Ask(FALSE, 1)>>, <<Ask(FALSE, 1)>>, {"dies"}, {}, Opt(TRUE, 2)),
     Case(<<Ask(TRUE, 1)>>, <<Stop>>, <<>>, {"stdout", "stalls"}, {}, Opt(TRUE, 2)),
     Case(<<Stop>>, <<Stop>>, <<>>, {"dies"}, {}, Opt(TRUE, 2)),
     Case(<<Ask(FALSE, 1)>>, <<>>, <<>>, {"dies", "stdout"}, {"k1", "k2"}, Opt(TRUE, 2))}
Client == INSTANCE LspClient WITH
    Tasks <- {"t1", "t2", "t3"}, Cases <- Conversations, Uris <- {"u", "v"},
    LongTexts <- {TooLong}, MaxPending <- 2, MaxDocuments <- 1,
    ServerCalls <- {"k1", "k2"}, MaxServerRequests <- 1

\* InputIdentity: /a is authorised, /a/w the Cargo workspace, /a/side and /dep are
\* path dependencies; the repository begins at /a/w, at /a, above both, or is none.
Crate == <<"a", "w">>
LibFile == Crate \o <<"lib.rs">>
DataFile == Crate \o <<"data">>
LogFile == Crate \o <<"log">>
SideFile == <<"a", "side", "lib.rs">>
ConfigFile == <<".cargo", "config.toml">>
DepFile == <<"dep", "lib.rs">>
Checkout(there, git, t) ==
    [there |-> there, tracked |-> {LibFile, DataFile, SideFile}, git |-> git, top |-> t]
Worktrees ==
    {Checkout({LibFile, DataFile, ConfigFile, DepFile}, TRUE, Crate),
     Checkout({LibFile, SideFile, DepFile}, TRUE, <<"a">>),
     Checkout({LibFile, SideFile, DepFile}, TRUE, <<>>),
     Checkout({LibFile, DataFile, LogFile, SideFile, DepFile}, FALSE, <<>>)}
Naming == INSTANCE InputIdentity WITH
    Path <- {LibFile, DataFile, LogFile, SideFile, ConfigFile, DepFile},
    Authority <- <<"a">>, Workspace <- Crate,
    Manifest <- Crate \o <<"Cargo.toml">>, CargoHome <- <<"home", ".cargo">>,
    TargetDir <- Crate \o <<"target">>, PathRoots <- {<<"dep">>, <<"a", "side">>},
    RustName <- {"lib.rs"},
    Ignored <- {LogFile}, Creatable <- {LibFile, SideFile, ConfigFile}, Starts <- Worktrees, Sizes <- {1, 3},
    MaxFiles <- 3, MaxFileBytes <- 2, MaxTotalBytes <- 4, MaxExternalFiles <- 1,
    MaxExternalBytes <- 1, MaxEdits <- 2, MaxFaults <- 1, Nothing <- "none",
    disk <- worktree, phase <- gate, seen <- before, torn <- hidden, faults <- misses

-----------------------------------------------------------------------------
(* A component that is not the subject rests.                              *)

PublishRests == Init /\ final = Absent /\ lockName = None
LogRests == LogInit /\ limit = MaxLimit
DocsRest == DocsInit /\ \A r \in Requests : rq[r].pc = "done"
SourcesRest == world = 0 /\ prepared = 0
OutputRests ==
    /\ printed = 0 /\ unread = 0 /\ readers = 0 /\ queue = 0
    /\ col = 0 /\ eof = 0 /\ phase = 0 /\ drained = 0
CargoRests == log = 0 /\ bytes = 0 /\ st = 0 /\ stage = 0
FramingRests == frames = 0 /\ incoming = 0 /\ decoder = 0 /\ seen = 0
ClientRests ==
    /\ closed = 0 /\ closing = 0 /\ writer = 0 /\ exited = 0 /\ shutdownStarted = 0
    /\ pending = 0 /\ chan = 0 /\ documents = 0 /\ locks = 0 /\ nextLock = 0
    /\ sync = 0 /\ task = 0 /\ cancelled = 0 /\ analyzer = 0 /\ reader = 0
    /\ server = 0 /\ faults = 0 /\ torn = 0
IdentityRests ==
    /\ worktree = 0 /\ commits = 0 /\ top = 0 /\ gate = 0 /\ pass = 0 /\ first = 0
    /\ second = 0 /\ before = 0 /\ moved = 0 /\ hidden = 0 /\ spent = 0 /\ edits = 0
    /\ misses = 0

IOInit ==
    /\ subject \in {"publication", "log", "docs", "sources", "output", "cargo",
                    "framing", "client", "identity"}
    /\ IF subject = "publication" THEN Init ELSE PublishRests
    /\ IF subject = "log" THEN LogInit ELSE LogRests
    /\ IF subject = "docs" THEN DocsInit ELSE DocsRest
    /\ IF subject = "sources" THEN Sources!Init ELSE SourcesRest
    /\ IF subject = "output" THEN Output!Init ELSE OutputRests
    /\ IF subject = "cargo" THEN Cargo!Init ELSE CargoRests
    /\ IF subject = "framing" THEN Framing!Init ELSE FramingRests
    /\ IF subject = "client" THEN Client!Init ELSE ClientRests
    /\ IF subject = "identity" THEN Naming!Init ELSE IdentityRests

\* The two calls of one process are interchangeable: a begins first.
PublicationStep ==
    /\ subject = "publication" /\ Next
    /\ w'["b"].pc # "idle" => w'["a"].pc # "idle"
    /\ UNCHANGED <<subject, logVars, docsVars, sourceVars, outputVars, cargoVars,
                   frameVars, clientVars, identityVars>>
LogStep ==
    subject = "log" /\ LogNext
    /\ UNCHANGED <<subject, vars, docsVars, sourceVars, outputVars, cargoVars,
                   frameVars, clientVars, identityVars>>
DocsStep ==
    subject = "docs" /\ DocsNext
    /\ UNCHANGED <<subject, vars, logVars, sourceVars, outputVars, cargoVars,
                   frameVars, clientVars, identityVars>>
SourcesStep ==
    subject = "sources" /\ Sources!Next
    /\ UNCHANGED <<subject, vars, logVars, docsVars, outputVars, cargoVars,
                   frameVars, clientVars, identityVars>>
OutputStep ==
    subject = "output" /\ Output!Next
    /\ UNCHANGED <<subject, vars, logVars, docsVars, sourceVars, cargoVars,
                   frameVars, clientVars, identityVars>>
CargoStep ==
    subject = "cargo" /\ Cargo!Next
    /\ UNCHANGED <<subject, vars, logVars, docsVars, sourceVars, outputVars,
                   frameVars, clientVars, identityVars>>
FramingStep ==
    subject = "framing" /\ Framing!Next
    /\ UNCHANGED <<subject, vars, logVars, docsVars, sourceVars, outputVars,
                   cargoVars, clientVars, identityVars>>
ClientStep ==
    subject = "client" /\ Client!Next
    /\ UNCHANGED <<subject, vars, logVars, docsVars, sourceVars, outputVars,
                   cargoVars, frameVars, identityVars>>

IdentityStep ==
    subject = "identity" /\ Naming!Next
    /\ UNCHANGED <<subject, vars, logVars, docsVars, sourceVars, outputVars,
                   cargoVars, frameVars, clientVars>>

IONext ==
    \/ PublicationStep \/ LogStep \/ DocsStep \/ SourcesStep
    \/ OutputStep \/ CargoStep \/ FramingStep \/ ClientStep \/ IdentityStep

IOSpec ==
    IOInit /\ [][IONext]_<<subject, vars, logVars, docsVars, sourceVars, outputVars,
                          cargoVars, frameVars, clientVars, identityVars>>

-----------------------------------------------------------------------------
(* The properties, each stated in full in its component's module.          *)

\* The files that the fingerprint of a path dependency hashes are closed under
\* the path edges Cargo follows, and what is read is hashed (docs/resolver.rs,
\* prepare).
SourcesAreBound == subject = "sources" => Sources!SourcesAreBound

\* Each tail that is kept of a command's output is the end of what it printed,
\* decoded as a whole, or says that it was cut; and no diagnostic of a Cargo run
\* is dropped in silence, and no error for a warning (process/output.rs;
\* diagnostics/stream.rs).
OutputIsHonest ==
    /\ subject = "output" => Output!TailsAreHonest
    /\ subject = "cargo" => Cargo!EvidenceIsHonest

\* However the pipe cuts the bytes, the reader gets each sound frame once and in
\* order and an error for each of the others (lsp/client.rs, FrameDecoder).
FramesAreWhole == subject = "framing" => Framing!FramesAreWhole

\* The table of pending requests holds exactly the calls that wait for an answer,
\* and the text recorded for an open document is the text the analyzer has, except
\* after a call that failed when its frame was out (lsp/client.rs, sync_document).
ClientAgrees == subject = "client" => Client!ClientAgrees

\* A verdict is published only for inputs that the identity in it names, and that
\* no one changed while the compilation ran (workspace/identity.rs,
\* compute_input_identity_inner; tools/check.rs, the post identity).
IdentityBindsInputs == subject = "identity" => Naming!IdentityBindsInputs
=============================================================================
