------------------------------ MODULE ToolCall ------------------------------
(***************************************************************************)
(* One tool call from its arrival to its answer (ServerHandler::call_tool  *)
(* in server/handler.rs and bounded_result in server/response.rs) on a     *)
(* server that was started with some configuration (config.rs, AppState).  *)
(*                                                                         *)
(* Other calls, the client and the shutdown are the environment: permits   *)
(* come and go, the call may be cancelled, the server may begin to close.  *)
(* Permits, tasks and the shutdown themselves are modelled in              *)
(* ServerAdmission, the roots in WorkspaceSession, the services in their   *)
(* own modules; here a service answers with any outcome it may have.       *)
(***************************************************************************)
EXTENDS ServerConfig

CONSTANTS
    Defaults,      \* the configuration without any layer
    Launches,      \* starts: file, env and cli are layers, adapters a list
    Inputs,        \* arguments of calls
    Payloads,      \* what an answer may carry: data, warnings, summary
    MaxBytes,      \* limits.tool_output_bytes
    Envelope,      \* bytes of an answer besides its payload
    MinChars,      \* truncate_string leaves a text of this length alone
    MaxRounds,     \* rounds of shrinking
    None

VARIABLES
    config,     \* the configuration of the running server, None before
    services,   \* the services it has built
    free,       \* a permit is free for this call
    closing,    \* AppState.shutting_down
    cancelled,  \* the cancellation the call was bridged to
    call        \* the call, see Idle

vars == <<config, services, free, closing, cancelled, call>>
envVars == <<config, services>>

-----------------------------------------------------------------------------
(***************************************************************************)
(* What the handler demands of the arguments of a tool call before it is   *)
(* admitted (the validate_ functions of server/handler.rs), and what the   *)
(* services demand of the request they get (change/service.rs,             *)
(* work/service.rs, tools/context.rs, tools/verify.rs, tools/runtime.rs).  *)
(*                                                                         *)
(* An input is a record:                                                   *)
(*   tool, action  what is called                                          *)
(*   has           the optional fields that are given and not empty        *)
(*   bad           those of them that break a bound of their own: blank,   *)
(*                 too long, too many, out of range, of the wrong form     *)
(*   alien         those of them whose value only a service can judge, and *)
(*                 does not know: an id of another form than the ones it   *)
(*                 issues, a consumerScope other than the workspace, a     *)
(*                 path that is not there or not readable                  *)
(*   target, opts  the Cargo target and the validation options             *)
(*   parses        the arguments have the shape of the tool's schema       *)
(***************************************************************************)
BuildSelection == {"packages", "cargoTarget", "allFeatures",
                   "noDefaultFeatures", "features", "targetTriple"}

\* The fields fs of the input keep their bounds.
Bounded(in, fs) == in.bad \cap fs = {}

Requires(in, fs) == fs \subseteq in.has
Rejects(in, fs) == in.has \cap fs = {}

-----------------------------------------------------------------------------
(* Validation options                                                      *)

\* gate::selection::validate
SelectionApplies(opts, target) ==
    /\ ({"packages", "cargoTarget"} \cap opts # {}) => target \notin {"all", "fmt"}
    /\ ("cargoTarget" \in opts) => /\ "packages" \in opts
                                   /\ target \in {"check", "build", "clippy", "test"}

\* ValidationOptions::validate
OptionsApply(opts, target) ==
    /\ SelectionApplies(opts, target)
    /\ ~({"allFeatures", "features"} \subseteq opts)
    /\ ("testFilter" \in opts) => target = "test"
    /\ ("nextest" \in opts) => target \in {"test", "all"}
    /\ (target = "fmt") => opts \cap (BuildSelection \cup {"sccache"}) = {}

\* profile_gate_target: one Cargo stage.
ProfileGateTarget(target) == target \notin {"fmt", "all"}

-----------------------------------------------------------------------------
(* The handler                                                             *)

ValidateCheck(in) == Bounded(in, {"dir"}) /\ OptionsApply(in.opts, in.target)

RuntimeOnly == {"baselineRevision", "candidateRevision", "benchmarkSpec",
                "correctnessGate", "hypothesis"}

\* A revision other than 0 is a bad baselineRevision; adapter, workload,
\* threshold, samples and warmup are bounds of the benchmarkSpec.
ValidateRuntimeProfile(in) ==
    /\ Requires(in, {"changeId", "benchmarkSpec", "correctnessGate"})
    /\ Rejects(in, {"baselineEvidence"})
    /\ Bounded(in, {"baselineRevision", "benchmarkSpec", "hypothesis"})
    /\ ProfileGateTarget(in.target) /\ OptionsApply(in.opts, in.target)

ValidateProfile(in) ==
    /\ Bounded(in, {"dir", "changeId", "baselineEvidence", "budget"})
    /\ in.action = "build_analyze" => Rejects(in, {"baselineEvidence"})
    /\ IF in.action = "runtime_compare" THEN ValidateRuntimeProfile(in)
       ELSE /\ ProfileGateTarget(in.target) /\ OptionsApply(in.opts, in.target)
            /\ Rejects(in, RuntimeOnly)

ValidateVerify(in) ==
    /\ Bounded(in, {"dir", "changeId", "budget", "requiredConfigurations",
                    "changedPaths", "testMappings", "testPatch",
                    "behaviorContract"})
    /\ OptionsApply(in.opts, "test")
    /\ in.action = "test_candidate" =>
           Requires(in, {"changeId", "testPatch", "behaviorContract"})

ValidateContext(in) ==
    /\ Bounded(in, {"dir", "anchors", "purpose", "changeId", "byteBudget",
                    "itemIds", "pageSize"})
    /\ in.action = "prepare" => Requires(in, {"anchors"})
    /\ in.action = "expand"  => Requires(in, {"capsuleId"})
    /\ in.action = "delta"   => Requires(in, {"previousCapsuleId", "anchors"})

ValidateApi(in) ==
    /\ Bounded(in, {"dir", "path", "symbol", "line", "changeId",
                    "expectedSignature", "snippets"})
    /\ OptionsApply(in.opts, "check")
    /\ in.action = "resolve" =>
           /\ in.has \cap {"symbol", "line"} # {}
           /\ Rejects(in, {"snippets", "expectedSignature"})
    /\ in.action = "probe" => Requires(in, {"snippets"})

ValidateExplain(in) ==
    /\ Bounded(in, {"dir", "path", "symbol", "line", "diagnosticId"})
    /\ OptionsApply(in.opts, "check")

\* audit, crate_lookup, docs and the semantic tools: bounds only.
ValidatePlain(in) ==
    Bounded(in, {"dir", "path", "symbol", "line", "name", "version", "source",
                 "depth", "newName", "only"})

Pinned == {"changeId", "expectedRevision", "baseIdentity"}
MigrateOnly == {"anchor", "transformation", "consumerScope", "constraints"}

\* Fields that the action does not use are refused for create and ignored for
\* inspect, export and discard; their bounds are looked at when they are used.
ValidateChange(in) ==
    /\ Bounded(in, {"dir", "consumerScope"})
    /\ CASE in.action = "create" -> Rejects(in, Pinned \cup {"patches", "newFiles"})
         [] in.action = "stage" ->
                /\ Requires(in, Pinned)
                /\ in.has \cap {"patches", "newFiles"} # {}
                /\ Bounded(in, {"patches", "newFiles"})
         [] in.action \in {"inspect", "export", "discard"} -> Requires(in, {"changeId"})
         [] in.action = "migrate" ->
                /\ Requires(in, Pinned \cup {"anchor", "transformation"})
                /\ Bounded(in, {"anchor", "transformation"})
                /\ OptionsApply(in.opts, in.target)
         [] in.action = "validate" ->
                Requires(in, Pinned) /\ OptionsApply(in.opts, in.target)
    /\ in.action \notin {"validate", "migrate"} =>
           in.opts = {} /\ in.target = "check" /\ Rejects(in, {"timings"})
    /\ in.action # "migrate" => Rejects(in, MigrateOnly)

MinimizeOnly == {"failurePredicate", "reductionScope"}

ValidateRepair(in) ==
    /\ Bounded(in, {"dir", "changeId", "diagnosticIds", "candidates", "budget"})
    /\ in.action \in {"analyze", "minimize"} => Rejects(in, {"candidates"})
    /\ IF in.action = "minimize"
       THEN Rejects(in, {"testTarget"}) /\ Bounded(in, {"failurePredicate"})
       ELSE Rejects(in, MinimizeOnly)

ValidateWork(in) ==
    /\ Bounded(in, {"dir", "workId", "continuationToken", "changeId", "patches",
                    "newFiles", "intent", "budget"})
    /\ CASE in.action = "start" ->
                Requires(in, {"intent"}) /\ Rejects(in, {"workId", "continuationToken"})
         [] in.action = "resume" ->
                Requires(in, {"workId", "continuationToken"}) /\ Rejects(in, {"changeId"})
         [] in.action = "inspect" -> in.has \cap {"workId", "changeId"} # {}
         [] in.action = "cancel" -> Requires(in, {"workId"})

\* parse_input, then the validation of the tool.
Validate(in) ==
    /\ in.parses
    /\ CASE in.tool = "check"   -> ValidateCheck(in)
         [] in.tool = "profile" -> ValidateProfile(in)
         [] in.tool = "verify"  -> ValidateVerify(in)
         [] in.tool = "context" -> ValidateContext(in)
         [] in.tool = "api"     -> ValidateApi(in)
         [] in.tool = "explain" -> ValidateExplain(in)
         [] in.tool = "change"  -> ValidateChange(in)
         [] in.tool = "repair"  -> ValidateRepair(in)
         [] in.tool = "work"    -> ValidateWork(in)
         [] OTHER               -> ValidatePlain(in)

-----------------------------------------------------------------------------
(* The services: which fields and options a request must have              *)

\* ChangeService: every action but create names a change; those that change
\* or judge it are pinned; migrate needs its plan and its command.
ChangeAccepts(in) ==
    /\ in.action # "create" => "changeId" \in in.has
    /\ in.action \in {"stage", "validate", "migrate"} => Requires(in, Pinned)
    /\ in.action = "migrate" => Requires(in, {"anchor", "transformation"})
    /\ in.action \in {"validate", "migrate"} => OptionsApply(in.opts, in.target)

\* WorkService::execute
WorkAccepts(in) ==
    /\ in.action = "start"   => /\ Requires(in, {"intent"})
                               /\ Rejects(in, {"workId", "continuationToken"})
    /\ in.action = "resume"  => Requires(in, {"workId", "continuationToken"})
    /\ in.action = "inspect" => in.has \cap {"workId", "changeId"} # {}
    /\ in.action = "cancel"  => Requires(in, {"workId"})

\* execute_context: expand and delta name a capsule.
ContextAccepts(in) ==
    /\ in.action = "expand" => Requires(in, {"capsuleId"})
    /\ in.action = "delta"  => Requires(in, {"previousCapsuleId"})

\* VerifyService, test_candidate.
VerifyAccepts(in) ==
    in.action = "test_candidate" =>
        Requires(in, {"changeId", "testPatch", "behaviorContract"})

\* The profile arm of call_tool after admission, and the gate it hands on.
ProfileAccepts(in) ==
    /\ ProfileGateTarget(in.target) /\ OptionsApply(in.opts, in.target)
    /\ in.action = "runtime_compare" =>
           Requires(in, {"changeId", "benchmarkSpec", "correctnessGate"})

\* build_probe_plan: a probe has something to compile.
ApiAccepts(in) == in.action = "probe" => Requires(in, {"snippets"})

\* What each service asks of the shape of a request.
ServiceAccepts(in) ==
    CASE in.tool = "change"  -> ChangeAccepts(in)
      [] in.tool = "work"    -> WorkAccepts(in)
      [] in.tool = "context" -> ContextAccepts(in)
      [] in.tool = "verify"  -> VerifyAccepts(in)
      [] in.tool = "profile" -> ProfileAccepts(in)
      [] in.tool = "api"     -> ApiAccepts(in)
      [] in.tool = "check"   -> OptionsApply(in.opts, in.target)
      [] OTHER               -> TRUE

-----------------------------------------------------------------------------
(* The services: values that nobody before them has judged                 *)

\* is_valid_change_id.  The handler does not look at the changeId of change.
ValidChangeId(in) == "changeId" \notin in.has \cap (in.bad \cup in.alien)

\* WorkService::resume, is_valid_work_id.
ValidWorkId(in) == in.action = "resume" => "workId" \notin in.alien

\* resolve_anchor_path and read_source, for resolve and for probe.
AnchorReadable(in) == "path" \notin in.alien

\* migrate serves consumers in the workspace only.
ScopeSupported(in) == "consumerScope" \notin in.has \cap in.alien

-----------------------------------------------------------------------------
(***************************************************************************)
(* pc      "off" the server has not started, "stopped" it refused to       *)
(*         "idle", "parsed", "admitted", "rechecked", "bound"              *)
(*         "render" has an outcome, "answered"                             *)
(* in      its input, dropped with the outcome                             *)
(* permit  it holds a permit                                               *)
(* kind    how it ended: a result, a protocol error or a task              *)
(* status, isError                                                         *)
(*         its outcome                                                     *)
(* missed  a scan left out a file that it should have looked at            *)
(* value   the payload, and round of shrinking                             *)
(***************************************************************************)
EmptyValue == [data |-> <<>>, warnings |-> <<>>, summary |-> 0, truncated |-> FALSE]
Idle == [pc |-> "idle", in |-> None, permit |-> FALSE, kind |-> None,
         status |-> None, isError |-> FALSE, missed |-> FALSE,
         value |-> EmptyValue, full |-> EmptyValue, round |-> 0]

Init ==
    /\ config = None /\ services = {}
    /\ free = TRUE /\ closing = FALSE /\ cancelled = FALSE
    /\ call = [Idle EXCEPT !.pc = "off"]

-----------------------------------------------------------------------------
(* The start, and the environment of the call                              *)

\* Config::load and AppState::new.
Start ==
    /\ call.pc = "off"
    /\ \E l \in Launches, analyzer \in BOOLEAN :
           LET c == FromSources(Defaults, l.file, l.env, l.cli)
           IN IF EnvironmentParses(l.env) /\ CliParses(l.cli) /\ Valid(c, l.adapters)
              THEN /\ config' = c /\ services' = Services(c, analyzer)
                   /\ call' = Idle
              ELSE call' = [call EXCEPT !.pc = "stopped"] /\ UNCHANGED envVars
    /\ UNCHANGED <<free, closing, cancelled>>

Others ==
    /\ call.pc \in {"parsed", "admitted", "rechecked", "bound"}
    /\ \/ free' = ~free /\ UNCHANGED <<closing, cancelled>>
       \/ closing' = TRUE /\ cancelled' = TRUE /\ UNCHANGED free
       \/ cancelled' = TRUE /\ UNCHANGED <<free, closing>>
    /\ UNCHANGED <<envVars, call>>

-----------------------------------------------------------------------------
(* Ends of a call                                                          *)

\* A result goes to the wire through bounded_result.
Outcome(status, isError, missed) ==
    \E p \in Payloads :
        call' = [Idle EXCEPT !.pc = "render", !.kind = "result", !.status = status,
                             !.isError = isError, !.missed = missed,
                             !.permit = call.permit, !.value = p, !.full = p]

Result(status, isError) == Outcome(status, isError, FALSE)

\* An McpError: no result at all.
Refuse(why) ==
    call' = [Idle EXCEPT !.pc = "answered", !.kind = "error", !.status = why,
                         !.permit = call.permit]

\* The RESOURCE_BLOCKED and INCONCLUSIVE results that need no service.
Blocked == Result("RESOURCE_BLOCKED", TRUE)
Unresolved == Result(IF call.in.tool \in LspTools \cup {"rename", "refactor"}
                     THEN "UNAVAILABLE" ELSE "INCONCLUSIVE", TRUE)

-----------------------------------------------------------------------------
(* call_tool up to the tool itself                                         *)

Receive ==
    /\ call.pc = "idle"
    /\ \E in \in Inputs :
         IF in.tool \notin EnabledTools(config) THEN Refuse("method_not_found")
         ELSE IF ~Validate(in) THEN Refuse("invalid_params")
         ELSE call' = [call EXCEPT !.pc = "parsed", !.in = in]
    /\ UNCHANGED <<envVars, free, closing, cancelled>>

\* try_admit
Admit ==
    /\ call.pc = "parsed"
    /\ IF free /\ ~closing
       THEN call' = [call EXCEPT !.pc = "admitted", !.permit = TRUE]
       ELSE Blocked
    /\ UNCHANGED <<envVars, free, closing, cancelled>>

\* Tools that start processes or own state look again after the admission.
LooksAgain == {"check", "profile", "verify", "docs", "api", "explain",
               "change", "repair", "work"}

Recheck ==
    /\ call.pc = "admitted"
    /\ IF call.in.tool \in LooksAgain /\ closing THEN Blocked
       ELSE call' = [call EXCEPT !.pc = "rechecked"]
    /\ UNCHANGED <<envVars, free, closing, cancelled>>

\* resolve_workspace; crate_lookup has no workspace.
ResolveWorkspace ==
    /\ call.pc = "rechecked"
    /\ \/ call' = [call EXCEPT !.pc = "bound"]
       \/ call.in.tool # "crate_lookup" /\ Unresolved
    /\ UNCHANGED <<envVars, free, closing, cancelled>>

-----------------------------------------------------------------------------
(* The tools: which result each makes of what its service returns          *)

Running(tools) == call.pc = "bound" /\ call.in.tool \in tools

Same == UNCHANGED <<envVars, free, closing, cancelled>>

GateStatuses == {"FAST_PASS", "FULL_PASS", "FAIL", "TIMEOUT", "STALE",
                 "SUPERSEDED", "CANCELLED", "UNAVAILABLE", "INCONCLUSIVE",
                 "RESOURCE_BLOCKED"}
GateVerdicts == {"FAST_PASS", "FULL_PASS", "FAIL"}

\* check_result
CheckResult(s) == Result(s, s \notin GateVerdicts)

\* The check tool.  A client with tasks gets one; the task ends as cancelled
\* when it was asked to and the gate left nothing behind.
RunCheck ==
    /\ Running({"check"})
    /\ \E s \in GateStatuses :
          \/ CheckResult(s)
          \/ call' = [Idle EXCEPT !.pc = "answered", !.kind = "task",
                                  !.permit = TRUE,
                                  !.status = IF cancelled /\ s = "CANCELLED"
                                             THEN "cancelled" ELSE s]
    /\ Same

\* build_analyze and build_compare.
RunBuildProfile ==
    /\ Running({"profile"}) /\ call.in.action # "runtime_compare"
    /\ IF ~ProfileGateTarget(call.in.target) THEN Refuse("invalid_params")
       ELSE \/ Result(IF call.in.action = "build_analyze" THEN "COMPLETE"
                      ELSE "COMPARABLE", FALSE)
            \/ \E s \in {"INCONCLUSIVE", "INCOMPARABLE", "CANCELLED"} :
                   Result(s, TRUE)
    /\ Same

\* runtime_compare: the change service, a revision, the spec and the gate.
RunRuntimeProfile ==
    /\ Running({"profile"}) /\ call.in.action = "runtime_compare"
    /\ IF "change" \notin services THEN Blocked
       ELSE IF ~ProfileAccepts(call.in) THEN Refuse("invalid_params")
       ELSE \/ Result("COMPARABLE", FALSE)
            \/ Result("INCOMPARABLE", TRUE)
    /\ Same

VerifySuccess == {"PLANNED", "FULL_REQUESTED_MATRIX", "PARTIAL",
                  "TESTED_SUBSET", "FULL_REQUESTED_SUITE", "SATISFIED"}

VerifyResult(s) == Result(s, s \notin VerifySuccess)

RunVerify ==
    /\ Running({"verify"})
    /\ IF ~VerifyAccepts(call.in) THEN VerifyResult("INVALID")
       ELSE \E s \in VerifySuccess \cup {"FAIL", "INVALID", "INCONCLUSIVE", "STALE"} :
                VerifyResult(s)
    /\ Same

\* Mutant: files that could not be read do not make a scan incomplete.
AuditStatus_IgnoresSkipped(findings, skipped, truncated) ==
    IF truncated THEN "INCONCLUSIVE"
    ELSE IF findings THEN "FINDINGS" ELSE "CLEAN"

\* audit_result: generated and ignored files may be left out, no others.
AuditStatus(findings, skipped, truncated) ==
    IF truncated \/ skipped \ {"Generated", "IgnoredPath"} # {} THEN "INCONCLUSIVE"
    ELSE IF findings THEN "FINDINGS" ELSE "CLEAN"

RunAudit ==
    /\ Running({"audit"})
    /\ \/ \E findings, truncated \in BOOLEAN,
             skipped \in SUBSET {"Generated", "Unreadable"} :
              Outcome(AuditStatus(findings, skipped, truncated), FALSE,
                      truncated \/ "Unreadable" \in skipped)
       \/ Result("INCONCLUSIVE", TRUE)
    /\ Same

\* render_crate_lookup: only an invalid name is an error; a registry that
\* cannot be reached is an answer.
CrateLookupResult(s) == Result(s, s = "INVALID")

RunCrateLookup ==
    /\ Running({"crate_lookup"})
    /\ \E s \in {"STD", "FOUND", "NOT_FOUND", "VERSION_MISMATCH", "INVALID",
                 "UNAVAILABLE"} : CrateLookupResult(s)
    /\ Same

DocsResult(s) == Result(s, s = "UNAVAILABLE")

\* A task that was asked to stop and has cleaned up is cancelled, whatever it
\* found (finish_docs_task).
RunDocs ==
    /\ Running({"docs"})
    /\ \E s \in {"FOUND", "AMBIGUOUS", "NOT_FOUND", "UNAVAILABLE"}, clean \in BOOLEAN :
          \/ DocsResult(s)
          \/ call' = [Idle EXCEPT !.pc = "answered", !.kind = "task",
                                  !.permit = TRUE,
                                  !.status = IF cancelled /\ clean
                                             THEN "cancelled" ELSE s]
    /\ Same

ContextResult(s) == Result(s, s # "OK")

\* RustMcpServer::context: looks at its token before and after the metadata.
RunContext ==
    /\ Running({"context"})
    /\ IF cancelled THEN ContextResult("CANCELLED")
       ELSE IF ~ContextAccepts(call.in) THEN ContextResult("INVALID")
       ELSE \E s \in {"OK", "NOT_FOUND", "EXPIRED", "CANCELLED", "UNAVAILABLE"} :
                ContextResult(s)
    /\ Same

ApiSuccess == {"OK", "COMPILES_IN_CONFIGURATION"}

ApiResult(s) == Result(s, s \notin ApiSuccess)

\* RustMcpServer::api
RunApi ==
    /\ Running({"api"})
    /\ IF cancelled THEN ApiResult("CANCELLED")
       ELSE IF ~ApiAccepts(call.in) \/ ~AnchorReadable(call.in) THEN ApiResult("INVALID")
       ELSE \/ ApiResult(IF call.in.action = "resolve" THEN "OK"
                         ELSE "COMPILES_IN_CONFIGURATION")
            \/ \E s \in {"COMPILE_FAILED", "INCOMPLETE_IMPLEMENTATION",
                         "UNSUPPORTED_CONTEXT", "CANCELLED", "TIMEOUT"} : ApiResult(s)
    /\ Same

\* Nothing found and several candidates are answers, no analyzer is none.
SemanticResult(s) == Result(s, s = "UNAVAILABLE")

RunSemantic ==
    /\ Running(LspTools)
    /\ IF "lsp" \notin services THEN SemanticResult("UNAVAILABLE")
       ELSE \E s \in {"OK", "NOT_FOUND", "AMBIGUOUS", "UNAVAILABLE"} : SemanticResult(s)
    /\ Same

EditResult(s) == Result(s, s = "UNAVAILABLE")

RunEdit ==
    /\ Running({"rename", "refactor"})
    /\ IF "lsp" \notin services THEN EditResult("UNAVAILABLE")
       ELSE \E s \in {"OK", "UNAVAILABLE"} : EditResult(s)
    /\ Same

-----------------------------------------------------------------------------
(* explain_result                                                          *)

\* The cfg action compiles nothing: it needs the text and a line of it.
ExplainCfg ==
    /\ Running({"explain"}) /\ call.in.action = "cfg"
    /\ \E source \in {"missing", "binary", "text"}, line \in BOOLEAN :
          CASE source # "text" -> Result("UNAVAILABLE", TRUE)
            [] source = "text" /\ ~line -> Result("NOT_FOUND", FALSE)
            [] OTHER -> Result("OK", FALSE)
    /\ Same

\* What a gate that gave no verdict becomes.
ExplainUnusable(s) ==
    CASE s \in {"CANCELLED", "RESOURCE_BLOCKED"} -> s
      [] s \in {"TIMEOUT", "UNAVAILABLE"} -> "UNAVAILABLE"
      [] OTHER -> "INCONCLUSIVE"

\* macro: what the compiler showed, what the analyzer could expand.  The
\* analyzer is there, is silent, or is missing and says why.
ExplainMacroStatus(matched, expanded, analyzer) ==
    IF ~expanded /\ analyzer = "missing" THEN "UNSUPPORTED_CAPABILITY"
    ELSE IF ~matched /\ analyzer # "there" THEN "NOT_FOUND" ELSE "OK"

\* trait: either side is enough.
ExplainTraitStatus(matched, analyzer) ==
    IF ~matched /\ analyzer # "there" THEN "NOT_FOUND" ELSE "OK"

ExplainCompiled ==
    /\ Running({"explain"}) /\ call.in.action # "cfg"
    /\ \/ Result("UNAVAILABLE", TRUE)        \* no readable anchor
       \/ \E s \in GateStatuses \ GateVerdicts : Result(ExplainUnusable(s), TRUE)
       \/ \E matched, expanded \in BOOLEAN,
             analyzer \in {"missing"} \cup
                          (IF "lsp" \in services THEN {"there", "silent"} ELSE {}) :
             LET status == IF call.in.action = "macro"
                           THEN ExplainMacroStatus(matched, matched /\ expanded, analyzer)
                           ELSE ExplainTraitStatus(matched, analyzer)
             IN Result(status, FALSE)
    /\ Same

-----------------------------------------------------------------------------
(* change, repair and work                                                 *)

\* A tool that is enabled without its service is not found, after admission.
RunChange ==
    /\ Running({"change"})
    /\ IF "change" \notin services THEN Refuse("method_not_found")
       ELSE IF ~ChangeAccepts(call.in) \/ ~ValidChangeId(call.in)
       THEN Result("INVALID", TRUE)
       ELSE IF ~ScopeSupported(call.in) THEN Result("MIGRATION_REFUSED", TRUE)
       ELSE \/ Result("DONE", FALSE)
            \/ \E s \in {"CONFLICT", "STALE", "NOT_FOUND", "CANCELLED"} :
                   Result(s, TRUE)
    /\ Same

RunRepair ==
    /\ Running({"repair"})
    /\ IF "repair" \notin services THEN Refuse("method_not_found")
       ELSE \/ Result("DONE", FALSE)
            \/ \E s \in {"STALE", "INCONCLUSIVE", "CANCELLED"} : Result(s, TRUE)
    /\ Same

\* Without a change service every action of work is blocked.
RunWork ==
    /\ Running({"work"})
    /\ IF "change" \notin services THEN Result("BLOCKED", TRUE)
       ELSE IF ~WorkAccepts(call.in) \/ ~ValidWorkId(call.in)
       THEN Result("INVALID", TRUE)
       ELSE \/ Result("DONE", FALSE)
            \/ \E s \in {"HANDOFF", "BLOCKED", "CANCELLED"} : Result(s, TRUE)
    /\ Same

-----------------------------------------------------------------------------
(* bounded_result                                                          *)

Total(texts) ==
    LET sum[n \in 0..Len(texts)] == IF n = 0 THEN 0 ELSE texts[n] + sum[n - 1]
    IN sum[Len(texts)]

\* wire_size: the answer is sent twice, as structure and as text.
WireSize(v) == 2 * (Envelope + Total(v.data) + Total(v.warnings) + v.summary)

Fits(v) == WireSize(v) <= MaxBytes

\* truncate_string: half of a text, but never less than MinChars of it.
Halve(n) == IF n \div 2 > MinChars THEN n \div 2 ELSE MinChars

\* shrink_node on an array: the last text shrinks, and goes when it cannot.
ShrinkList(texts) ==
    LET n == Len(texts)
    IN IF texts[n] > MinChars THEN [texts EXCEPT ![n] = Halve(@)]
       ELSE SubSeq(texts, 1, n - 1)

\* shrink_payload: the data first, then the warnings, then the summary.
Shrinkable(v) == v.data # <<>> \/ v.warnings # <<>> \/ v.summary > MinChars

ShrinkPayload(v) ==
    IF v.data # <<>> THEN [v EXCEPT !.data = ShrinkList(@)]
    ELSE IF v.warnings # <<>> THEN [v EXCEPT !.warnings = ShrinkList(@)]
    ELSE [v EXCEPT !.summary = Halve(@)]

Answer(v) == call' = [call EXCEPT !.pc = "answered", !.value = v]

\* mark_truncated, and the warning that says so.
MarkTruncated(v) == [v EXCEPT !.truncated = TRUE, !.warnings = Append(@, MinChars)]

\* One round: it fits, it is marked, or it shrinks.  When nothing is left to
\* shrink, or after MaxRounds, a fixed small payload replaces it.
Render ==
    /\ call.pc = "render"
    /\ IF Fits(call.value) THEN Answer(call.value)
       ELSE IF call.round = 0
       THEN call' = [call EXCEPT !.value = MarkTruncated(@), !.round = 1]
       ELSE IF Shrinkable(call.value) /\ call.round < MaxRounds
       THEN call' = [call EXCEPT !.value = ShrinkPayload(@), !.round = @ + 1]
       ELSE LET small == [data |-> <<>>, warnings |-> <<MinChars>>,
                          summary |-> MinChars, truncated |-> TRUE]
            IN Answer(IF Fits(small) THEN small
                      ELSE [small EXCEPT !.warnings = <<>>, !.summary = 0])
    /\ Same

\* The permit is dropped with the handler, or with the task.
Release ==
    /\ call.pc = "answered" /\ call.permit
    /\ call' = [call EXCEPT !.permit = FALSE]
    /\ Same

-----------------------------------------------------------------------------
RunTool ==
    \/ RunCheck \/ RunBuildProfile \/ RunRuntimeProfile \/ RunVerify \/ RunAudit
    \/ RunCrateLookup \/ RunDocs \/ RunContext \/ RunApi \/ RunSemantic
    \/ RunEdit \/ ExplainCfg \/ ExplainCompiled \/ RunChange \/ RunRepair \/ RunWork

Next ==
    \/ Start \/ Others \/ Admit \/ Recheck \/ ResolveWorkspace
    \/ Receive \/ RunTool \/ Render \/ Release

Spec == Init /\ [][Next]_vars

-----------------------------------------------------------------------------
(* Properties                                                              *)

TypeOK ==
    /\ services \subseteq {"change", "repair", "lsp"}
    /\ free \in BOOLEAN /\ closing \in BOOLEAN /\ cancelled \in BOOLEAN
    /\ call.pc \in {"off", "stopped", "idle", "parsed", "admitted", "rechecked",
                    "bound", "render", "answered"}
    /\ call.permit \in BOOLEAN /\ call.isError \in BOOLEAN /\ call.missed \in BOOLEAN
    /\ call.round \in 0..MaxRounds

\* The directory the operating system opens, or makes, for a configured path.
Opened(p) == Canonical(p)

(***************************************************************************)
(* A server that runs keeps its files outside of every root it may read,   *)
(* and no root inside of them, whatever layer named them and whatever link *)
(* leads there (Config::validate, reject_path_overlap).                    *)
(***************************************************************************)
OwnFilesApart ==
    config # None =>
        \A p \in PathsInUse(config), r \in AuthorizedRoots(config) :
            /\ Opened(config[p]) \notin Prefixes(Opened(r))
            /\ Opened(r) \notin Prefixes(Opened(config[p]))

(***************************************************************************)
(* The shape of a request is judged before the admission and nowhere else: *)
(* a call that holds a permit has every field its service needs for the    *)
(* action, none that it excludes, and options its command takes; it is not *)
(* refused with a protocol error, nor for a service that its tool is       *)
(* enabled without.  Ids of a foreign form, an unsupported scope and an    *)
(* unreadable anchor are left to the services, whose answer is a result    *)
(* (validate_*, tool_enabled and AppState::new against the arms of         *)
(* call_tool and the services).                                            *)
(***************************************************************************)
ValidationSuffices ==
    call.permit =>
        /\ call.kind # "error"
        /\ (call.pc \in {"admitted", "rechecked", "bound"}) => ServiceAccepts(call.in)

(***************************************************************************)
(* audit speaks of clean code, or of findings, only when no file it should *)
(* have read was left out, whichever limit or error kept it (audit_result). *)
(***************************************************************************)
ScanIsWhole ==
    (call.kind = "result" /\ call.status \in {"CLEAN", "FINDINGS"}) => ~call.missed

(***************************************************************************)
(* An answer fits into the wire limit or is the least there is, and one    *)
(* that does not carry the whole payload says that it is truncated         *)
(* (bounded_result).                                                       *)
(***************************************************************************)
AnswerFits ==
    (call.pc = "answered" /\ call.kind = "result") =>
        /\ Fits(call.value) \/ (call.value.data = <<>> /\ call.value.summary = 0)
        /\ call.value # call.full => call.value.truncated

(***************************************************************************)
(* A call from its arguments to the wire: what was validated has the shape *)
(* its service needs, a scan is whole, and what is cut says so.            *)
(***************************************************************************)
CallIsSound == ValidationSuffices /\ ScanIsWhole /\ AnswerFits
=============================================================================
