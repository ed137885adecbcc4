--------------------------- MODULE ContextCapsule ---------------------------
(***************************************************************************)
(* Context capsules (tools/context.rs and context/): prepare collects the  *)
(* evidence of its anchors, one file read at a time, and stores a capsule; *)
(* expand returns a page of a stored capsule, reading every file again;    *)
(* delta compares a capsule that it prepares now with a stored one.        *)
(*                                                                         *)
(* Calls run side by side while files change, the client changes its roots *)
(* and capsules expire.  Only the store is shared, and it is used under    *)
(* its lock: everything between two reads of a file, or between a read and *)
(* the use of the store, is one step.                                      *)
(*                                                                         *)
(* A file is the number of its contents, 0 when it cannot be read; a hash  *)
(* is what was hashed.  An excerpt weighs what is left to halve of it.     *)
(***************************************************************************)
EXTENDS Integers, SequencesExt

CONSTANTS
    Calls,         \* calls that may be in progress at once
    MaxCalls,      \* calls in all
    Files,
    Versions,      \* contents of a file, 1..n
    MaxEdits, MaxEpoch,
    Requests,      \* [action, anchors, budget, manager, metadata, named, cursor, size]
    Resolutions,   \* what rust-analyzer may say of a symbol
    MaxAnchors, MaxPerAnchor, MaxPackages, MaxDependencies,
    MaxItems, MaxListed, MaxEntries, MaxPage, MaxTrims, MaxRounds,
    MaxCapsules, MinBudget, OutputBudget,
    None

VARIABLES
    disk, edits,   \* the files and the edits so far
    epoch,         \* of the root
    store,         \* CapsuleStore: capsules in the order of their insertion
    begun,         \* calls begun so far
    calls

vars == <<disk, edits, epoch, store, begun, calls>>

Missing == 0

\* Lower is kept longer (CapsuleItemKind::priority).
Kinds == <<"definition", "consumer", "test", "implementation", "signature",
           "excerpt", "hierarchy", "package", "features", "dependency">>
Priority(kind) == CHOOSE n \in 1 .. Len(Kinds) : Kinds[n] = kind

\* The id of an item is over its kind, place and symbol.
Item(kind, file, line, symbol) ==
    [kind |-> kind, file |-> file, line |-> line, symbol |-> symbol,
     hash |-> Missing, text |-> Missing, stale |-> FALSE, lost |-> FALSE, bulk |-> 0]
ItemId(i) == <<i.kind, i.file, i.line, i.symbol>>
Ids(items) == {ItemId(items[n]) : n \in DOMAIN items}

\* With the contents that were read of its file.
Sourced(i, version) == [i EXCEPT !.hash = version, !.text = version, !.bulk = 1]

FirstOf(seq, n) == SubSeq(seq, 1, IF Len(seq) > n THEN n ELSE Len(seq))

\* OmittedItem: what was not there to be read has no id.
Omission(reason, id) == [reason |-> reason, id |-> id]

NoEvidence ==
    [items |-> <<>>, omitted |-> <<>>, overflow |-> 0, hashes |-> [f \in Files |-> Missing],
     packages |-> <<>>, responded |-> FALSE, consumers |-> 0, tests |-> 0, capped |-> 0]

Blank ==
    [pc |-> "idle", request |-> None, epoch |-> 0, named |-> None, anchors |-> <<>>,
     todo |-> <<>>, page |-> <<>>, evidence |-> NoEvidence, capsule |-> None,
     answer |-> None]

Init ==
    /\ disk = [f \in Files |-> CHOOSE v \in Versions : TRUE] /\ edits = 0 /\ epoch = 0
    /\ store = <<>> /\ begun = 0
    /\ calls = [c \in Calls |-> Blank]

-----------------------------------------------------------------------------
(* The store.                                                              *)

Stored(id) == {n \in DOMAIN store : store[n].capsule.id = id}
Without(id) == SelectSeq(store, LAMBDA e : e.capsule.id # id)

\* CapsuleStore::insert: the newest place, and the oldest ones go.
Insert(capsule) ==
    LET all == Append(Without(capsule.id), [capsule |-> capsule, old |-> FALSE])
    IN IF Len(all) > MaxCapsules THEN Tail(all) ELSE all

\* CapsuleStore::lookup: what has expired, or is of another epoch, goes.
Lookup(id, e) ==
    IF Stored(id) = {} THEN [found |-> "NOT_FOUND", capsule |-> None, left |-> store]
    ELSE LET entry == store[CHOOSE n \in Stored(id) : TRUE]
         IN IF entry.old \/ entry.capsule.epoch # e
            THEN [found |-> "EXPIRED", capsule |-> None, left |-> Without(id)]
            ELSE [found |-> "OK", capsule |-> entry.capsule, left |-> store]

-----------------------------------------------------------------------------
(* Evidence.                                                               *)

\* Evidence::omit: only so many omissions are listed.
Omit(ev, o) ==
    IF Len(ev.omitted) < MaxListed THEN [ev EXCEPT !.omitted = Append(@, o)]
    ELSE [ev EXCEPT !.overflow = @ + 1]

\* Evidence::push_item and cite.
Push(ev, i) == IF ItemId(i) \in Ids(ev.items) THEN ev ELSE [ev EXCEPT !.items = Append(@, i)]
Cite(ev, file, version) == [ev EXCEPT !.hashes[file] = version]

\* One read of a file for an item.  "must": without the file there is no item;
\* "may": the item has another text; "reference": counted against the caps, and
\* not where a definition is; "place": the item has a place only with a file.
Task(mode, kind, file, line, symbol, skip) ==
    [mode |-> mode, kind |-> kind, file |-> file, line |-> line, symbol |-> symbol,
     skip |-> skip]

\* collect_file_anchor.
FileTasks(a) == <<Task("must", "excerpt", a.file, a.line, None, FALSE)>>

\* collect_symbol_fallback: the first place where the symbol is written.
FallbackTasks(a) == <<Task("must", "signature", a.file, a.line, a.symbol, FALSE)>>

\* apply_symbol_evidence, push_ra_location and collect_hierarchy: the reads for
\* what rust-analyzer has answered.  A place outside the workspace has no file.
LocationTasks(mode, kind, places, a) ==
    [n \in DOMAIN places |->
        Task(mode, kind, places[n].file, places[n].line, a.symbol, FALSE)]
ReferenceTasks(found, a) ==
    [n \in DOMAIN found.references |->
        LET p == found.references[n]
        IN Task("reference", IF p.test THEN "test" ELSE "consumer", p.file, p.line, a.symbol,
                \E m \in DOMAIN found.definitions :
                    /\ found.definitions[m].file = p.file /\ p.file # None
                    /\ found.definitions[m].line = p.line)]
SymbolTasks(found, a) ==
    (IF found.hover = "text" THEN <<Task("may", "signature", a.file, a.line, a.symbol, FALSE)>>
     ELSE <<>>)
    \o LocationTasks("must", "definition", found.definitions, a)
    \o ReferenceTasks(found, a)
    \o <<Task("caps", "consumer", None, 0, a.symbol, FALSE)>>
    \o LocationTasks("must", "implementation", found.implementations, a)
    \o (IF found.hierarchy
        THEN <<Task("place", "hierarchy", a.file, a.line, a.symbol, FALSE)>>
        ELSE <<Task("none", "hierarchy", None, 0, a.symbol, FALSE)>>)

\* What rust-analyzer failed to answer, and whether it answered at all.
SymbolOmissions(ev, found) ==
    LET answered == \/ found.hover # "none" \/ found.definitions # <<>>
                    \/ found.references # <<>> \/ found.implementations # <<>>
        failed == IF found.failed THEN Omit(ev, Omission("unavailable", None)) ELSE ev
        empty == IF found.hover = "empty" THEN Omit(failed, Omission("unavailable", None))
                 ELSE failed
    IN [empty EXCEPT !.responded = @ \/ answered]

\* The task is done with what its file held: read_source fails when the file is
\* missing, no text, too large, linked or outside the root.
Done(ev, t, version) ==
    LET i == Item(t.kind, t.file, t.line, t.symbol)
        gone == t.file = None \/ version = Missing
        cited == IF gone THEN ev ELSE Cite(ev, t.file, version)
        full == IF t.kind = "test" THEN ev.tests >= MaxPerAnchor ELSE ev.consumers >= MaxPerAnchor
    IN CASE t.mode = "none" -> Omit(ev, Omission("unavailable", None))
         [] t.mode = "caps" ->
                IF ev.capped = 0 THEN ev ELSE Omit(ev, Omission("itemLimit", None))
         [] t.mode \in {"must", "reference"} /\ gone -> Omit(ev, Omission("unread", None))
         [] t.mode = "must" /\ ~gone -> Push(cited, Sourced(i, version))
         [] t.mode = "may" -> Push(cited, [i EXCEPT !.hash = version, !.bulk = 1])
         [] t.mode = "place" ->
                Push([cited EXCEPT !.responded = TRUE],
                     IF gone THEN [Item(t.kind, None, 0, t.symbol) EXCEPT !.bulk = 1]
                     ELSE [i EXCEPT !.hash = version, !.bulk = 1])
         [] t.mode = "reference" /\ ~gone /\ t.skip -> ev
         [] t.mode = "reference" /\ ~gone /\ ~t.skip /\ full -> [cited EXCEPT !.capped = @ + 1]
         [] t.mode = "reference" /\ ~gone /\ ~t.skip /\ ~full ->
                Push(IF t.kind = "test" THEN [cited EXCEPT !.tests = @ + 1]
                     ELSE [cited EXCEPT !.consumers = @ + 1], Sourced(i, version))

\* collect_package_evidence: a package, its features and its dependencies.
PackageEvidence(ev, p) ==
    LET known == Push([ev EXCEPT !.packages = Append(@, <<p.name, p.features>>)],
                      Item("package", None, 0, p.name))
        shown == Push(known, Item("features", None, 0, p.name))
        features == CASE p.features = "none" -> Omit(known, Omission("unavailable", None))
                      [] p.features = "some" -> shown
                      [] p.features = "many" -> Omit(shown, Omission("itemLimit", None))
        with == FoldLeft(LAMBDA e, d : Push(e, Item("dependency", None, 0, d)), features,
                         FirstOf(p.dependencies, MaxDependencies))
    IN IF Len(p.dependencies) > MaxDependencies THEN Omit(with, Omission("itemLimit", None))
       ELSE with

\* collect_workspace_evidence: the packages that own most of the cited files,
\* or else members of the workspace.
WorkspaceEvidence(ev, metadata) ==
    LET cited == {f \in Files : ev.hashes[f] # Missing}
        matches(p) == Cardinality(p.files \cap cited)
        owning == SortSeq(SelectSeq(metadata.packages, LAMBDA p : matches(p) > 0),
                          LAMBDA p, q : matches(p) > matches(q))
        members == SelectSeq(metadata.packages, LAMBDA p : p.member)
        chosen == IF owning = <<>> THEN members ELSE owning
        some == FirstOf(chosen, MaxPackages)
    IN CASE metadata.state = "error" -> Omit(ev, Omission("unavailable", None))
         [] metadata.state = "none" -> ev
         [] metadata.state = "ok" /\ some = <<>> -> Omit(ev, Omission("unavailable", None))
         [] metadata.state = "ok" /\ some # <<>> -> FoldLeft(PackageEvidence, ev, some)

-----------------------------------------------------------------------------
(* The planner: a payload d is made to fit a budget.  Its weight counts    *)
(* items, what can be halved of their excerpts, omissions, notes, the size *)
(* report, and a fixed part that cannot be trimmed.                        *)

Bytes(d) ==
    FoldLeft(LAMBDA n, i : n + 1 + i.bulk, Len(d.omitted) + Len(d.notes), d.items)
    + (IF d.measured THEN 1 ELSE 0) + d.fixed

Payload(items, omitted, notes, fixed) ==
    [items |-> items, omitted |-> omitted, notes |-> notes, fixed |-> fixed, measured |-> FALSE,
     trimmed |-> 0, removed |-> 0, overflow |-> 0, told |-> 0]

\* PlanOutcome::has_trimming, of what happened between two payloads.
Progressed(d, e) ==
    e.trimmed > d.trimmed \/ e.removed > d.removed \/ e.overflow > d.overflow

\* push_omission.
ListOmission(d, o) ==
    IF Len(d.omitted) >= MaxListed THEN [d EXCEPT !.overflow = @ + 1]
    ELSE [d EXCEPT !.omitted = Append(@, o)]

\* The least important of the items at these indices.
Lowest(d, at) ==
    CHOOSE n \in at : \A m \in at :
        \/ Priority(d.items[m].kind) < Priority(d.items[n].kind)
        \/ d.items[m].kind = d.items[n].kind /\ m <= n

\* trim_once and shrink_lowest_excerpt; the same payload when nothing is left.
TrimOnce(d) ==
    LET long == {n \in DOMAIN d.items : d.items[n].bulk > 0}
        half == Lowest(d, long)
        least == Lowest(d, DOMAIN d.items)
    IN CASE long # {} -> [d EXCEPT !.items[half].bulk = @ \div 2, !.trimmed = @ + 1]
         [] long = {} /\ d.items # <<>> ->
                ListOmission([d EXCEPT !.items = RemoveAt(@, least), !.removed = @ + 1],
                             Omission("budget", ItemId(d.items[least])))
         [] d.items = <<>> /\ d.notes # <<>> -> [d EXCEPT !.notes = Front(@)]
         [] d.items = <<>> /\ d.notes = <<>> /\ d.omitted # <<>> ->
                [d EXCEPT !.omitted = Front(@), !.overflow = @ + 1]
         [] OTHER -> d

\* enforce_data_budget.
RECURSIVE Enforce(_, _, _)
Enforce(d, budget, trims) ==
    IF trims = 0 \/ Bytes(d) <= budget \/ TrimOnce(d) = d THEN d
    ELSE Enforce(TrimOnce(d), budget, trims - 1)

\* apply_budget_and_sizes: the size report may itself be too much.
RECURSIVE Fit(_, _, _)
FitAgain(m, again, budget, rounds) ==
    IF rounds = 1 \/ ~Progressed(m, again) THEN again ELSE Fit(again, budget, rounds - 1)
FitMeasured(m, budget, rounds) ==
    IF Bytes(m) <= budget THEN m
    ELSE FitAgain(m, Enforce(m, budget, MaxTrims), budget, rounds)
Fit(d, budget, rounds) ==
    FitMeasured([Enforce(d, budget, MaxTrims) EXCEPT !.measured = TRUE], budget, rounds)

\* cap_items: the most important ones first, and only so many.  Among equals the
\* code sorts by id, which is a hash: any order will do.
CapItems(d) ==
    LET sorted == SortSeq(d.items, LAMBDA i, j : Priority(i.kind) < Priority(j.kind))
        rest == SubSeq(sorted, MaxItems + 1, Len(sorted))
    IN FoldLeft(LAMBDA e, i : ListOmission(e, Omission("itemLimit", ItemId(i))),
                [d EXCEPT !.items = FirstOf(sorted, MaxItems)], rest)

\* execute_context: a budget that is given is kept within bounds.
EffectiveBudget(r) ==
    IF r.budget = None THEN OutputBudget
    ELSE LET high == IF OutputBudget > MinBudget THEN OutputBudget ELSE MinBudget
         IN IF r.budget < MinBudget THEN MinBudget ELSE IF r.budget > high THEN high ELSE r.budget

\* upsert_budget_note: one note, with the counts as they are now.
TellBudget(d) ==
    [d EXCEPT !.told = d.overflow,
              !.notes = IF Contains(@, "budget") THEN @ ELSE Append(@, "budget")]

\* The rounds of build_capsule_data, each of which may add that note, and what
\* is left to do when they were not enough.
RECURSIVE FitAndTell(_, _, _, _)
FitTold(told, budget, rounds) ==
    IF Bytes(told) <= budget \/ rounds = 1 THEN told ELSE FitAndTell(told, budget, 0, rounds - 1)
FitAndTell(d, budget, pending, rounds) ==
    LET Counted(e) == [e EXCEPT !.overflow = @ + pending]
        Tell(e) == IF e.trimmed + e.removed + e.overflow > 0 THEN TellBudget(e) ELSE e
    IN FitTold(Tell(Counted(Fit(d, budget, MaxRounds))), budget, rounds)

FitLast(told, last, budget) ==
    IF Bytes(told) <= budget THEN told
    ELSE Fit(IF Progressed(told, last) THEN TellBudget(last) ELSE last, budget, MaxRounds)
FitFinally(told, budget) == FitLast(told, Fit(told, budget, MaxRounds), budget)

\* default_notes and the one about an analyzer that answered nothing.
Notes(r, ev) ==
    <<"untrusted">>
    \o (IF r.manager THEN <<>> ELSE <<"noAnalyzer">>)
    \o (IF r.metadata.state = "ok" THEN <<>> ELSE <<"noMetadata">>)
    \o (IF r.manager /\ ~ev.responded THEN <<"unresponsive">> ELSE <<>>)

\* compute_capsule_id: a hash is what was hashed.
CapsuleId(r, ev, e) ==
    [epoch |-> e, analyzer |-> r.manager /\ ev.responded, hashes |-> ev.hashes,
     anchors |-> r.anchors, packages |-> ev.packages, budget |-> EffectiveBudget(r)]

\* build_capsule_data: the capsule keeps what the payload keeps.
BuildCapped(r, ev, e, capped) ==
    LET Of(d) == [data |-> d,
                  capsule |-> [id |-> CapsuleId(r, ev, e), epoch |-> e, items |-> d.items]]
    IN Of(FitFinally(FitAndTell([capped EXCEPT !.overflow = 0], EffectiveBudget(r),
                                ev.overflow + capped.overflow, MaxRounds),
                     EffectiveBudget(r)))
Build(r, ev, e) ==
    BuildCapped(r, ev, e, CapItems(Payload(ev.items, ev.omitted, Notes(r, ev), 0)))

\* build_delta, push_delta_entry.
DeltaOf(added, changed, removed, total) ==
    [added |-> Ids(FirstOf(added, MaxEntries)), changed |-> Ids(FirstOf(changed, MaxEntries)),
     removed |-> Ids(FirstOf(removed, MaxEntries)),
     unchanged |-> total - Len(added) - Len(changed),
     truncated |-> \E s \in {added, changed, removed} : Len(s) > MaxEntries]
Delta(previous, current) ==
    LET known(i) == ItemId(i) \in Ids(previous.items)
        same(i) == \E n \in DOMAIN previous.items :
                      ItemId(previous.items[n]) = ItemId(i) /\ previous.items[n].hash = i.hash
    IN DeltaOf(SelectSeq(current.items, LAMBDA i : ~known(i)),
               SelectSeq(current.items, LAMBDA i : known(i) /\ ~same(i)),
               SelectSeq(previous.items, LAMBDA i : ItemId(i) \notin Ids(current.items)),
               Len(current.items))
DeltaSize(d) == Cardinality(d.added) + Cardinality(d.changed) + Cardinality(d.removed)

-----------------------------------------------------------------------------
(* A call.                                                                 *)

Failure(status) == [status |-> status]
Ok(d, id, next, delta) ==
    [status |-> "OK", data |-> d, id |-> id, next |-> next, delta |-> delta]

\* What a client may name: nothing, a capsule it has been told of, or another.
Unknown == [unknown |-> TRUE]
Named(r) ==
    IF r.action = "prepare" THEN {None}
    ELSE {None, Unknown} \cup {store[n].capsule.id : n \in DOMAIN store}

\* The items that are asked for, all of them or the last and one that is not
\* there.
Selected(r, capsule) ==
    IF r.named = "all" \/ capsule.items = <<>> THEN capsule.items ELSE <<Last(capsule.items)>>
Limit(r) == IF r.size < 1 THEN 1 ELSE IF r.size > MaxPage THEN MaxPage ELSE r.size
Offset(r, capsule) ==
    LET total == Len(Selected(r, capsule)) IN IF r.cursor > total THEN total ELSE r.cursor
Window(r, capsule) ==
    FirstOf(SubSeq(Selected(r, capsule), Offset(r, capsule) + 1, Len(Selected(r, capsule))),
            Limit(r))

\* A call begins with the root as it is; expand and delta look up a capsule.
Begin(c) ==
    /\ begun < MaxCalls /\ calls[c].pc \in {"idle", "done"}
    /\ begun' = begun + 1
    /\ \E r \in Requests : \E id \in Named(r) :
        LET looked == Lookup(id, epoch)
            call == [Blank EXCEPT !.request = r, !.epoch = epoch, !.named = id,
                                  !.anchors = FirstOf(r.anchors, MaxAnchors)]
            ends(status) == [call EXCEPT !.pc = "done", !.answer = Failure(status)]
        IN \/ /\ r.action = "prepare"
              /\ calls' = [calls EXCEPT ![c] = [call EXCEPT !.pc = "collect"]]
              /\ UNCHANGED store
           \/ /\ r.action # "prepare" /\ id = None
              /\ calls' = [calls EXCEPT ![c] = ends("INVALID")]
              /\ UNCHANGED store
           \/ /\ r.action # "prepare" /\ id # None /\ looked.found # "OK"
              /\ calls' = [calls EXCEPT ![c] = ends(looked.found)]
              /\ store' = looked.left
           \/ /\ r.action = "delta" /\ id # None /\ looked.found = "OK"
              /\ calls' = [calls EXCEPT ![c] =
                    [call EXCEPT !.pc = "collect", !.capsule = looked.capsule]]
              /\ UNCHANGED store
           \/ /\ r.action = "expand" /\ id # None /\ looked.found = "OK"
              /\ calls' = [calls EXCEPT ![c] =
                    [call EXCEPT !.pc = "refresh", !.capsule = looked.capsule,
                                 !.todo = Window(r, looked.capsule)]]
              /\ UNCHANGED store
    /\ UNCHANGED <<disk, edits, epoch>>

\* collect_file_anchor, collect_symbol_anchor: what an anchor may come to, with
\* what rust-analyzer says of it: the evidence, and the files to read.
Outcomes(r, ev, a) ==
    LET without(reason, tasks) == [evidence |-> Omit(ev, Omission(reason, None)), todo |-> tasks]
    IN CASE a.symbol = None -> {[evidence |-> ev, todo |-> FileTasks(a)]}
         [] a.symbol # None /\ a.file = None -> {without("unavailable", <<>>)}
         [] a.symbol # None /\ a.file # None /\ ~r.manager ->
                {without("unavailable", FallbackTasks(a))}
         [] a.symbol # None /\ a.file # None /\ r.manager ->
                {without(reason, FallbackTasks(a)) : reason \in {"ambiguity", "unavailable"}}
                \cup {[evidence |-> SymbolOmissions(ev, found), todo |-> SymbolTasks(found, a)] :
                        found \in Resolutions}

\* collect_anchors: the next anchor, with counts of its own.
NextAnchor(c) ==
    /\ calls[c].pc = "collect" /\ calls[c].todo = <<>> /\ calls[c].anchors # <<>>
    /\ \E o \in Outcomes(calls[c].request,
                          [calls[c].evidence EXCEPT !.consumers = 0, !.tests = 0, !.capped = 0],
                          Head(calls[c].anchors)) :
          calls' = [calls EXCEPT ![c].anchors = Tail(@), ![c].evidence = o.evidence,
                                 ![c].todo = o.todo]
    /\ UNCHANGED <<disk, edits, epoch, store, begun>>

ReadNext(c) ==
    LET call == calls[c]
        t == Head(call.todo)
    IN /\ call.pc = "collect" /\ call.todo # <<>>
       /\ calls' = [calls EXCEPT ![c].todo = Tail(@),
                                 ![c].evidence = Done(@, t, IF t.file = None THEN Missing
                                                            ELSE disk[t.file])]
       /\ UNCHANGED <<disk, edits, epoch, store, begun>>

\* The evidence that a call ends its collection with.
Gathered(call) ==
    LET many == Len(call.request.anchors) > MaxAnchors
        ev == IF many THEN Omit(call.evidence, Omission("itemLimit", None)) ELSE call.evidence
    IN WorkspaceEvidence(ev, call.request.metadata)

\* delta: the difference alone.
DeltaAnswer(call, built, delta) ==
    Ok(Fit([built.data EXCEPT
              !.items = <<>>, !.fixed = DeltaSize(delta),
              !.notes = @ \o (IF delta.truncated THEN <<"truncated">> ELSE <<>>)
                        \o (IF call.named = built.capsule.id THEN <<"same">> ELSE <<"other">>)],
           EffectiveBudget(call.request), MaxRounds),
       built.capsule.id, None, delta)

\* prepare and delta end: the capsule is stored.
Ended(c, ev, built) ==
    /\ calls' = [calls EXCEPT ![c] =
         [@ EXCEPT !.pc = "done", !.evidence = ev, !.page = built.capsule.items,
                   !.answer = IF calls[c].request.action = "prepare"
                              THEN Ok(built.data, built.capsule.id, None, None)
                              ELSE DeltaAnswer(calls[c], built,
                                               Delta(calls[c].capsule, built.capsule))]]
    /\ store' = Insert(built.capsule)
Finish(c) ==
    /\ calls[c].pc = "collect" /\ calls[c].todo = <<>> /\ calls[c].anchors = <<>>
    /\ \E ev \in {Gathered(calls[c])} :
         Ended(c, ev, Build(calls[c].request, ev, calls[c].epoch))
    /\ UNCHANGED <<disk, edits, epoch, begun>>

\* Mutant: an item is compared with what is read, but after the hash was set.
Refreshed_Late(i, version) ==
    IF i.file = None THEN i
    ELSE [i EXCEPT !.text = version, !.hash = version, !.stale = FALSE, !.bulk = 1]

\* refresh_item.
Refreshed(i, version) ==
    CASE i.file = None -> i
      [] i.file # None /\ version = Missing ->
            [i EXCEPT !.stale = TRUE, !.lost = TRUE, !.text = Missing, !.bulk = 0]
      [] i.file # None /\ version # Missing ->
            [i EXCEPT !.stale = (i.hash # version), !.hash = version, !.text = version,
                      !.bulk = 1]

RefreshItem(c) ==
    LET call == calls[c]
        i == Head(call.todo)
    IN /\ call.pc = "refresh" /\ call.todo # <<>>
       /\ calls' = [calls EXCEPT ![c].todo = Tail(@),
                                 ![c].page = Append(@, Refreshed(i, IF i.file = None THEN Missing
                                                                    ELSE disk[i.file]))]
       /\ UNCHANGED <<disk, edits, epoch, store, begun>>

\* expand: the next cursor counts the items before any is trimmed.
Expand(c) ==
    LET call == calls[c]
        r == call.request
        after == Offset(r, call.capsule) + Len(call.page)
        next == IF after < Len(Selected(r, call.capsule)) THEN after ELSE None
        unknown == IF r.named = "all" THEN <<>> ELSE <<Omission("unavailable", None)>>
        notes == <<"reread">>
                 \o (IF \E n \in DOMAIN call.page : call.page[n].stale THEN <<"stale">> ELSE <<>>)
                 \o (IF next # None THEN <<"more">> ELSE <<>>)
                 \o (IF unknown # <<>> THEN <<"unknown">> ELSE <<>>)
        data == Fit(Payload(call.page, unknown, notes, 0), EffectiveBudget(r), MaxRounds)
    IN /\ call.pc = "refresh" /\ call.todo = <<>>
       /\ calls' = [calls EXCEPT ![c].pc = "done",
                                 ![c].answer = Ok(data, call.capsule.id, next, None)]
       /\ UNCHANGED <<disk, edits, epoch, store, begun>>

-----------------------------------------------------------------------------
(* What happens meanwhile: the file is written, removed or restored; the   *)
(* client moves its roots; the oldest capsule expires.                     *)

Edit(f) ==
    /\ edits < MaxEdits /\ edits' = edits + 1
    /\ \E v \in (Versions \cup {Missing}) \ {disk[f]} : disk' = [disk EXCEPT ![f] = v]
    /\ UNCHANGED <<epoch, store, begun, calls>>

RootsChange ==
    /\ epoch < MaxEpoch /\ epoch' = epoch + 1
    /\ UNCHANGED <<disk, edits, store, begun, calls>>

Expire ==
    /\ \E n \in DOMAIN store :
        /\ ~store[n].old /\ \A m \in 1 .. n - 1 : store[m].old
        /\ store' = [store EXCEPT ![n].old = TRUE]
    /\ UNCHANGED <<disk, edits, epoch, begun, calls>>

Next ==
    \/ \E c \in Calls : Begin(c) \/ NextAnchor(c) \/ ReadNext(c) \/ Finish(c)
                       \/ RefreshItem(c) \/ Expand(c)
    \/ \E f \in Files : Edit(f)
    \/ RootsChange \/ Expire

Spec == Init /\ [][Next]_vars

-----------------------------------------------------------------------------
(* Properties.                                                             *)

Answered(c) == calls[c].pc = "done" /\ calls[c].answer.status = "OK"
Answer(c) == calls[c].answer.data
Given(c) == Answer(c).items
Listed(c) == {o \in Range(Answer(c).omitted) : o.id # None}
ListedIds(c) == {o.id : o \in Listed(c)}

\* An item that expand returns and does not mark as stale shows the bytes that
\* the capsule was made from, whatever happened to the file meanwhile
\* (tools/context.rs, refresh_item).
UnmarkedIsCurrent ==
    \A c \in Calls : Answered(c) /\ calls[c].request.action = "expand" =>
        \A n \in DOMAIN Given(c) :
            LET i == Given(c)[n]
                kept == {m \in DOMAIN calls[c].capsule.items :
                           ItemId(calls[c].capsule.items[m]) = ItemId(i)}
            IN i.file # None /\ ~i.stale =>
                 \E m \in kept : calls[c].capsule.items[m].hash = i.text /\ i.text # Missing

\* While an answer has items, each item it was made from is returned, or listed
\* as an omission, or counted: by the note of prepare, or by the full list of
\* expand (context/planner.rs, trim_once, cap_items; upsert_budget_note).
NothingVanishes ==
    \A c \in Calls : Answered(c) /\ Given(c) # <<>> =>
        LET call == calls[c]
            from == IF call.request.action = "prepare" THEN Ids(call.evidence.items)
                    ELSE Ids(call.page)
            lost == from \ (Ids(Given(c)) \cup ListedIds(c))
        IN \/ Cardinality(lost) <= (IF Contains(Answer(c).notes, "budget") THEN Answer(c).told
                                    ELSE 0)
           \/ call.request.action = "expand" /\ Len(Answer(c).omitted) >= MaxListed

\* An answer fits its budget, or has nothing left that could be trimmed
\* (context/planner.rs, apply_budget_and_sizes).
AnswerFits ==
    \A c \in Calls : Answered(c) =>
        \/ Bytes(Answer(c)) <= EffectiveBudget(calls[c].request)
        \/ TrimOnce(Answer(c)) = Answer(c)

\* A delta that is not truncated leads from the earlier capsule to the new one,
\* and between capsules of one identity, each made from one version of every
\* file, nothing has changed (tools/context.rs, build_delta).
Untorn(items, id) ==
    \A n \in DOMAIN items : items[n].file # None => items[n].hash = id.hashes[items[n].file]
DeltaLeads ==
    \A c \in Calls : Answered(c) /\ calls[c].request.action = "delta" =>
        LET d == calls[c].answer.delta
            old == calls[c].capsule.items
            new == calls[c].page
            same(i, j) == ItemId(i) = ItemId(j) /\ i.hash = j.hash
        IN /\ ~d.truncated =>
                /\ Ids(new) = (Ids(old) \ d.removed) \cup d.added
                /\ \A n \in DOMAIN new : ItemId(new[n]) \notin d.added \cup d.changed =>
                        \E m \in DOMAIN old : same(old[m], new[n])
                /\ d.unchanged + Cardinality(d.added) + Cardinality(d.changed) = Len(new)
           /\ calls[c].named = calls[c].answer.id /\ Untorn(old, calls[c].named)
              /\ Untorn(new, calls[c].named) => d.changed = {}

\* No call is answered from a capsule of roots other than its own, and the store
\* holds each capsule once and no more than it may (context/store.rs).
StoreIsSound ==
    /\ \A c \in Calls : Answered(c) /\ calls[c].request.action # "prepare" =>
            calls[c].capsule.epoch = calls[c].epoch
    /\ Len(store) <= MaxCapsules
    /\ \A m, n \in DOMAIN store : store[m].capsule.id = store[n].capsule.id => m = n

\* A context answer says what is stale, hides nothing while it shows something,
\* fits its budget, and tells the difference between two capsules of its roots.
CapsuleIsHonest ==
    UnmarkedIsCurrent /\ NothingVanishes /\ AnswerFits /\ DeltaLeads /\ StoreIsSound
=============================================================================
