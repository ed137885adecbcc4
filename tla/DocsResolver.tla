---------------------------- MODULE DocsResolver ----------------------------
(***************************************************************************)
(* Documentation requests (docs/resolver.rs) over the shared page cache    *)
(* (docs/cache.rs, cache/retention.rs): the chain of providers of one      *)
(* request, the table of generations a process runs at most once per       *)
(* entry, their subscribers and cancellation, and the entries on disk,     *)
(* which several processes lock, clear, fill, mark complete and prune.     *)
(* Publication of one file is one step here; AtomicPublish has its detail. *)
(***************************************************************************)
EXTENDS Naturals, Sequences, FiniteSets

CONSTANTS
  Requests, Entries, Pages,
  ServerOf,       \* the server process of a request
  Starts,       \* initial cases: the requests, the entry of each, the complete entries, and
                \* the bound on cancellations, passed deadlines and dead processes
  PageOf,       \* the page each request asks for (perhaps one no crate has)
  Replies,      \* what docs.rs may answer to the candidate pages of a request, in order
  Fallback,     \* provider policy of each request: DocsFallback and expensive
  MaxUnlinked   \* bound: generation lock files removed

\* Every case names entries and requests there are, and what none is called is none of them.
ASSUME DocsAssumption ==
  /\ IsFiniteSet(Requests) /\ "none" \notin Requests
  /\ IsFiniteSet(Entries) /\ "none" \notin Entries
  /\ MaxUnlinked \in Nat
  /\ \A s \in Starts : s.want \in [Requests -> Entries]

VARIABLES
  disk,      \* per entry: its pages and whether it is marked complete
  lockFile,  \* per entry: the file now under the name of its generation lock
  holder,    \* per lock file: the generation that holds it
  table,     \* per process and entry: the generation in the flights table
  fl,        \* per generation, named by the request that started it
  rq,        \* per request
  want,      \* the entry of each request (its CacheIdentity)
  dropped, expired, lost,  \* requests cancelled and past their deadline, dead servers
  ahead,    \* how many faults are still to come, and which kinds (a bound)
  disturbed  \* history: entries whose lock or removal went wrong (see Disturb)

docsVars == <<disk, lockFile, holder, table, fl, rq, want, dropped, expired, lost, ahead, disturbed>>

Unset == "none"
Servers == {ServerOf[r] : r \in Requests}
Files == 1 .. MaxUnlinked + Cardinality(Entries)
\* Each entry starts with a lock file of its own.
LockFiles == CHOOSE f \in [Entries -> 1 .. Cardinality(Entries)] : \A e, g \in Entries : f[e] = f[g] => e = g
Empty == [pages |-> {}, marker |-> FALSE]

NoFlight == [pc |-> Unset, file |-> 1, todo |-> {}, prune |-> Unset, end |-> Unset,
             result |-> Unset, subs |-> 0, cancelled |-> FALSE]
NoAnswer == [status |-> Unset, provider |-> Unset, error |-> FALSE, cleanup |-> TRUE]
NewRequest == [pc |-> "prepare", step |-> 1, identity |-> FALSE, complete |-> FALSE,
               flight |-> Unset, live |-> FALSE, took |-> Unset, answer |-> NoAnswer]

DocsInit ==
  /\ \E s \in Starts :
       /\ want = s.want /\ ahead = s.faults
       /\ rq = [r \in Requests |-> IF r \in s.requests THEN NewRequest
                                                        ELSE [NewRequest EXCEPT !.pc = "done"]]
       /\ disk = [e \in Entries |-> IF e \in s.complete THEN [pages |-> Pages, marker |-> TRUE]
                                                      ELSE Empty]
  /\ lockFile = LockFiles
  /\ holder = [x \in Files |-> Unset]
  /\ table = [p \in Servers |-> [e \in Entries |-> Unset]]
  /\ fl = [r \in Requests |-> NoFlight]
  /\ dropped = {} /\ expired = {} /\ lost = {} /\ disturbed = {}

Up(r) == ServerOf[r] \notin lost
Late(r) == r \in dropped \union expired

-----------------------------------------------------------------------------
(* A request. *)

\* fallback_steps.
FallbackSteps(policy) ==
  CASE policy = "off"       -> <<"cache">>
    [] policy = "local"     -> <<"cache", "local", "source">>
    [] policy = "expensive" -> <<"cache", "source", "network", "local">>
    [] OTHER                -> <<"cache", "source", "network">>
StepOf(r) == FallbackSteps(Fallback[r])[rq[r].step]
HasStep(r) == rq[r].step <= Len(FallbackSteps(Fallback[r]))

Is(r, pc) == Up(r) /\ rq[r].pc = pc
Goto(r, pc) == rq' = [rq EXCEPT ![r].pc = pc]
NextStep(r) == rq' = [rq EXCEPT ![r].pc = "step", ![r].step = @ + 1]
Answer(r, answer) ==
  rq' = [rq EXCEPT ![r] = [NewRequest EXCEPT !.pc = "done", !.answer = answer,
                                             !.live = rq[r].live, !.took = rq[r].took]]
Found(r, provider) == Answer(r, [NoAnswer EXCEPT !.status = "found", !.provider = provider])
Unavailable(r, error, cleanup) ==
  Answer(r, [NoAnswer EXCEPT !.status = "unavailable", !.error = error, !.cleanup = cleanup])

\* prepare: a refused directory, manifest, lock file or dependency answers at once; an
\* incomplete fingerprint leaves the request without a cache identity.
Prepare(r) ==
  /\ Is(r, "prepare")
  /\ \/ \E error \in BOOLEAN : Unavailable(r, error, TRUE)
     \/ \E id \in BOOLEAN : rq' = [rq EXCEPT ![r].pc = "step", ![r].identity = id]
  /\ UNCHANGED <<disk, lockFile, holder, table, fl, want, dropped, expired, lost, ahead, disturbed>>

\* network_page: a missing page leads to the next candidate, an empty one too; any other
\* failure (no answer, a redirect elsewhere, too large, an error status) ends the lookup.
NetworkPage(replies) ==
  \E i \in DOMAIN replies :
    replies[i] = "page" /\ \A j \in 1 .. i - 1 : replies[j] \in {"missing", "empty"}

\* read_page: the marker must carry this identity; the lease it takes belongs to the
\* retention object of this request alone, so no other request's prune sees it. After a
\* miss, is_complete reads the marker again.
CompleteIdentityMatches(r) == disk[want[r]].marker
ReadPageInner(r) == PageOf[r] \in disk[want[r]].pages

\* The head of the loop over the providers: a cancelled or late request stops with an error,
\* the exhausted chain is merely unavailable. A step without its precondition is skipped.
ProviderStep(r) ==
  /\ Is(r, "step")
  /\ \/ ~HasStep(r) /\ Unavailable(r, FALSE, TRUE)
     \/ HasStep(r) /\ Late(r) /\ Unavailable(r, TRUE, TRUE)
     \/ /\ HasStep(r) /\ ~Late(r)
        /\ \/ StepOf(r) = "source" /\ (Found(r, "source") \/ NextStep(r))
           \/ /\ StepOf(r) = "network"
              /\ \E replies \in Replies : IF NetworkPage(replies) THEN Found(r, "network") ELSE NextStep(r)
           \/ StepOf(r) = "cache" /\ ~rq[r].identity /\ NextStep(r)
           \/ /\ StepOf(r) = "cache" /\ rq[r].identity
              /\ Goto(r, IF CompleteIdentityMatches(r) THEN "read" ELSE "complete")
           \/ /\ StepOf(r) = "local"
              /\ IF rq[r].identity /\ ~rq[r].complete THEN Goto(r, "join") ELSE NextStep(r)
  /\ UNCHANGED <<disk, lockFile, holder, table, fl, want, dropped, expired, lost, ahead, disturbed>>

ReadPage(r) ==
  /\ Is(r, "read")
  /\ IF ReadPageInner(r) THEN Found(r, "cache") ELSE Goto(r, "complete")
  /\ UNCHANGED <<disk, lockFile, holder, table, fl, want, dropped, expired, lost, ahead, disturbed>>
IsComplete(r) ==
  /\ Is(r, "complete")
  /\ rq' = [rq EXCEPT ![r].pc = "step", ![r].step = @ + 1,
                      ![r].complete = CompleteIdentityMatches(r)]
  /\ UNCHANGED <<disk, lockFile, holder, table, fl, want, dropped, expired, lost, ahead, disturbed>>

\* local_generation_singleflight: the table is read and filled under its mutex; subscribing
\* is a second critical section, and so is starting the worker.
Join(r) ==
  /\ Is(r, "join")
  /\ LET p == ServerOf[r]  e == want[r]  f == table[p][e]
     IN \/ /\ f # Unset
           /\ rq' = [rq EXCEPT ![r].pc = "subscribe", ![r].flight = f]
           /\ UNCHANGED <<table, fl>>
        \/ /\ f = Unset
           /\ rq' = [rq EXCEPT ![r].pc = "subscribe", ![r].flight = r]
           /\ table' = [table EXCEPT ![p][e] = r]
           /\ fl' = [fl EXCEPT ![r] = [NoFlight EXCEPT !.pc = "new"]]
  /\ UNCHANGED <<disk, lockFile, holder, want, dropped, expired, lost, ahead, disturbed>>
Subscribe(r) ==
  /\ Is(r, "subscribe")
  /\ LET f == rq[r].flight
     IN /\ fl' = [fl EXCEPT ![f].subs = @ + 1, ![f].pc = IF f = r THEN "open" ELSE @]
        /\ rq' = [rq EXCEPT ![r].pc = "wait", ![r].live = ~fl[f].cancelled]
  /\ UNCHANGED <<disk, lockFile, holder, table, want, dropped, expired, lost, ahead, disturbed>>

\* wait: a result wins over a cancellation, a cancellation over the deadline.
Wait(r) ==
  /\ Is(r, "wait")
  /\ fl[rq[r].flight].result # Unset \/ Late(r)
  /\ rq' = [rq EXCEPT ![r].pc = "release",
                      ![r].took = IF fl[rq[r].flight].result # Unset THEN fl[rq[r].flight].result
                                                                     ELSE "left"]
  /\ UNCHANGED <<disk, lockFile, holder, table, fl, want, dropped, expired, lost, ahead, disturbed>>
\* release, a critical section of its own: the last subscriber of a generation that still has no
\* result cancels it.
Release(r) ==
  /\ Is(r, "release")
  /\ LET f == rq[r].flight
         last == fl[f].subs = 1 /\ fl[f].result = Unset
     IN /\ fl' = [fl EXCEPT ![f].subs = @ - 1, ![f].cancelled = @ \/ last]
        /\ Goto(r, IF last THEN "drain" ELSE "result")
  /\ UNCHANGED <<disk, lockFile, holder, table, want, dropped, expired, lost, ahead, disturbed>>
\* wait_for_completion gives a cancelled generation five seconds; the answer stays "left".
Drain(r) ==
  /\ Is(r, "drain") /\ Goto(r, "result")
  /\ UNCHANGED <<disk, lockFile, holder, table, fl, want, dropped, expired, lost, ahead, disturbed>>

\* What the chain does with the answer of the generation.
Result(r) ==
  /\ Is(r, "result")
  /\ \/ /\ rq[r].took = "ok"
        /\ IF CompleteIdentityMatches(r) /\ ReadPageInner(r) THEN Found(r, "local") ELSE NextStep(r)
     \/ rq[r].took = "cleanup" /\ Unavailable(r, TRUE, FALSE)
     \/ rq[r].took = "cache" /\ Unavailable(r, TRUE, TRUE)
     \/ /\ rq[r].took \notin {"ok", "cleanup", "cache"}
        /\ IF r \in dropped THEN Unavailable(r, TRUE, TRUE) ELSE NextStep(r)
  /\ UNCHANGED <<disk, lockFile, holder, table, fl, want, dropped, expired, lost, ahead, disturbed>>

-----------------------------------------------------------------------------
(* The worker of a generation f, for entry want[f]. *)

Runs(f, pc) == Up(f) /\ fl[f].pc = pc
Inside(f) == fl[f].pc \in {"cleanup", "prune", "remove", "check", "generate", "validate", "publish"}
Removing(e) == {f \in Requests : Up(f) /\ fl[f].prune = e}

\* The closure returns: the lock file is unlocked when the PreparedGeneration is dropped.
Ends(f, end) ==
  /\ fl' = [fl EXCEPT ![f] = [@ EXCEPT !.pc = "finish", !.end = end, !.prune = Unset,
                                       !.file = 1, !.todo = {}]]
  /\ holder' = [x \in Files |-> IF holder[x] = f THEN Unset ELSE holder[x]]

\* acquire_generation_lock: the file is opened (and created) and its identity compared with
\* the path before the loop of try_lock; each turn looks at cancellation and the deadline.
OpenLock(f) ==
  /\ Runs(f, "open")
  /\ fl' = [fl EXCEPT ![f].pc = "lock", ![f].file = lockFile[want[f]]]
  /\ UNCHANGED <<disk, lockFile, holder, table, rq, want, dropped, expired, lost, ahead, disturbed>>
Disturb(f) == IF fl[f].file # lockFile[want[f]] THEN {want[f]} ELSE {}
AcquireGenerationLock(f) ==
  /\ Runs(f, "lock")
  /\ \/ /\ fl[f].cancelled \/ f \in expired
        /\ Ends(f, "cache") /\ UNCHANGED disturbed
     \/ /\ ~fl[f].cancelled /\ f \notin expired /\ holder[fl[f].file] = Unset
        /\ holder' = [holder EXCEPT ![fl[f].file] = f]
        /\ fl' = [fl EXCEPT ![f].pc = "cleanup"]
        /\ disturbed' = disturbed \union Disturb(f)
  /\ UNCHANGED <<disk, lockFile, table, rq, want, dropped, expired, lost, ahead>>

\* cleanup_generation_locks: an expired or surplus lock file of another entry is removed if
\* it can be locked at that moment; whoever has it open keeps a file without a name.
CleanupGenerationLocks(f) ==
  /\ Runs(f, "cleanup")
  /\ fl' = [fl EXCEPT ![f].pc = "prune"]
  /\ \/ UNCHANGED lockFile
     \/ \E e \in Entries \ {want[f]}, x \in Files :
          /\ holder[lockFile[e]] = Unset
          /\ \A g \in Entries : lockFile[g] < x
          /\ lockFile' = [lockFile EXCEPT ![e] = x]
  /\ UNCHANGED <<disk, holder, table, rq, want, dropped, expired, lost, ahead, disturbed>>

\* Retention: complete entries that are old or beyond the budget, none of them leased in
\* this request's own coordinator, which leases only the entry it works on.
Leased(f) == {want[f]}
Prunable(f) == {e \in Entries \ Leased(f) : disk[e].marker}
Prune(f) ==
  /\ Runs(f, "prune")
  /\ \/ fl' = [fl EXCEPT ![f].pc = "check"]
     \/ \E e \in Prunable(f) : fl' = [fl EXCEPT ![f].pc = "remove", ![f].prune = e]
  /\ UNCHANGED <<disk, lockFile, holder, table, rq, want, dropped, expired, lost, ahead, disturbed>>
\* remove_directory deletes the children in the order the system lists them; a child that
\* cannot be removed stops it where it is.
RemoveEntry(f) ==
  /\ Runs(f, "remove")
  /\ LET e == fl[f].prune
         busy == {e} \intersect {want[g] : g \in {g \in Requests : Up(g) /\ Inside(g)}}
     IN \/ /\ \E p \in disk[e].pages : disk' = [disk EXCEPT ![e].pages = @ \ {p}]
           /\ disturbed' = disturbed \union busy /\ UNCHANGED fl
        \/ /\ disk[e].marker /\ disk' = [disk EXCEPT ![e].marker = FALSE]
           /\ disturbed' = disturbed \union busy /\ UNCHANGED fl
        \/ /\ disk[e] = Empty
           /\ fl' = [fl EXCEPT ![f].pc = "check", ![f].prune = Unset]
           /\ UNCHANGED <<disk, disturbed>>
        \/ /\ disk[e] # Empty
           /\ fl' = [fl EXCEPT ![f].pc = "check", ![f].prune = Unset]
           /\ disturbed' = disturbed \union {e} /\ UNCHANGED disk
  /\ UNCHANGED <<lockFile, holder, table, rq, want, dropped, expired, lost, ahead>>

\* clear_entry_contents.
Clear(e) == [disk EXCEPT ![e] = Empty]
\* The rest of prepare_generation_bounded: a complete entry ends the generation, any other
\* content is cleared. The directory may have to be recreated, which can fail.
PrepareGeneration(f) ==
  /\ Runs(f, "check")
  /\ disturbed' = IF Removing(want[f]) # {} THEN disturbed \union {want[f]} ELSE disturbed
  /\ \/ /\ disk[want[f]].marker
        /\ Ends(f, "ok") /\ UNCHANGED disk
     \/ /\ ~disk[want[f]].marker
        /\ disk' = Clear(want[f])
        /\ fl' = [fl EXCEPT ![f].pc = "generate"] /\ UNCHANGED holder
     \/ Ends(f, "cache") /\ UNCHANGED disk
  /\ UNCHANGED <<lockFile, table, rq, want, dropped, expired, lost, ahead>>

\* generate: the supervised `cargo doc` and the collection of its pages. It fails on its own,
\* when cancelled, at the owner's deadline, or without a proved cleanup.
Generate(f) ==
  /\ Runs(f, "generate")
  /\ \/ Ends(f, "failed")
     \/ Ends(f, "cleanup")
     \/ fl[f].cancelled /\ Ends(f, "cancelled")
     \/ ~fl[f].cancelled /\ fl' = [fl EXCEPT ![f].pc = "validate"] /\ UNCHANGED holder
  /\ UNCHANGED <<disk, lockFile, table, rq, want, dropped, expired, lost, ahead, disturbed>>

\* collect_generated_pages: every page rustdoc wrote, or an error when there are too many.
Collected == Pages
\* publish_pages: the pages are validated, the entry, unless complete, cleared once more, and each
\* page published until the deadline.  The prune before that, with the entry leased, removes
\* nothing that Prune could not have removed just before, and is not repeated.
Validate(f) ==
  /\ Runs(f, "validate")
  /\ \/ Ends(f, "cache") /\ UNCHANGED disk
     \/ fl[f].cancelled /\ Ends(f, "cancelled") /\ UNCHANGED disk
     \/ /\ fl' = [fl EXCEPT ![f].pc = "publish", ![f].todo = Collected]
        /\ disk' = IF disk[want[f]].marker THEN disk ELSE Clear(want[f])
        /\ UNCHANGED holder
  /\ UNCHANGED <<lockFile, table, rq, want, dropped, expired, lost, ahead, disturbed>>
PublishPage(f) ==
  /\ Runs(f, "publish") /\ fl[f].todo # {}
  /\ \/ Ends(f, "cache") /\ UNCHANGED disk
     \/ /\ f \notin expired
        /\ \E p \in fl[f].todo :
             /\ disk' = [disk EXCEPT ![want[f]].pages = @ \union {p}]
             /\ fl' = [fl EXCEPT ![f].todo = @ \ {p}]
        /\ UNCHANGED holder
  /\ UNCHANGED <<lockFile, table, rq, want, dropped, expired, lost, ahead, disturbed>>

\* Mutant: the marker is published with the first page.
PublishMarker_Early(f) ==
  /\ Runs(f, "publish") /\ f \notin expired
  /\ disk' = [disk EXCEPT ![want[f]].marker = TRUE]
  /\ Ends(f, "ok")
  /\ UNCHANGED <<lockFile, table, rq, want, dropped, expired, lost, ahead, disturbed>>

\* The marker comes last, and not after the deadline.
PublishMarker(f) ==
  /\ Runs(f, "publish") /\ fl[f].todo = {}
  /\ \/ Ends(f, "cache") /\ UNCHANGED disk
     \/ /\ f \notin expired
        /\ disk' = [disk EXCEPT ![want[f]].marker = TRUE]
        /\ Ends(f, "ok")
  /\ UNCHANGED <<lockFile, table, rq, want, dropped, expired, lost, ahead, disturbed>>

\* finish wakes the subscribers; the table forgets the generation in a later critical section.
Finish(f) ==
  /\ Runs(f, "finish")
  /\ fl' = [fl EXCEPT ![f].pc = "leave", ![f].result = fl[f].end, ![f].end = Unset]
  /\ UNCHANGED <<disk, lockFile, holder, table, rq, want, dropped, expired, lost, ahead, disturbed>>
Leave(f) ==
  /\ Runs(f, "leave")
  /\ fl' = [fl EXCEPT ![f].pc = "gone"]
  /\ table' = [table EXCEPT ![ServerOf[f]][want[f]] = Unset]
  /\ UNCHANGED <<disk, lockFile, holder, rq, want, dropped, expired, lost, ahead, disturbed>>

-----------------------------------------------------------------------------
(* The environment. *)
Suffer(kind) ==
  /\ ahead.number > 0 /\ kind \in ahead.kinds
  /\ ahead' = [ahead EXCEPT !.number = @ - 1]
Cancel(r) ==
  /\ Up(r) /\ rq[r].pc \notin {"done", "prepare"} /\ r \notin dropped
  /\ Suffer("cancel")
  /\ dropped' = dropped \union {r}
  /\ UNCHANGED <<disk, lockFile, holder, table, fl, rq, want, expired, lost, disturbed>>
Expire(r) ==
  /\ Up(r) /\ rq[r].pc \notin {"done", "prepare"} /\ r \notin expired
  /\ Suffer("late")
  /\ expired' = expired \union {r}
  /\ UNCHANGED <<disk, lockFile, holder, table, fl, rq, want, dropped, lost, disturbed>>
\* A process dies: its file locks go with it; a removal it was in the middle of stays half done.
ServerDies(p) ==
  /\ p \notin lost /\ Suffer("crash")
  /\ \E f \in Requests : ServerOf[f] = p /\ (Inside(f) \/ fl[f].prune # Unset)
  /\ lost' = lost \union {p}
  /\ holder' = [x \in Files |-> IF holder[x] # Unset /\ ServerOf[holder[x]] = p THEN Unset ELSE holder[x]]
  /\ disturbed' = disturbed \union
       {fl[f].prune : f \in {f \in Requests : ServerOf[f] = p /\ fl[f].prune # Unset}}
  /\ UNCHANGED <<disk, lockFile, table, fl, rq, want, dropped, expired>>

DocsNext ==
  \/ \E r \in Requests :
       Prepare(r) \/ ProviderStep(r) \/ ReadPage(r) \/ IsComplete(r) \/ Join(r)
         \/ Subscribe(r) \/ Wait(r) \/ Release(r) \/ Drain(r) \/ Result(r) \/ Cancel(r) \/ Expire(r)
  \/ \E f \in Requests :
       OpenLock(f) \/ AcquireGenerationLock(f) \/ CleanupGenerationLocks(f) \/ Prune(f)
         \/ RemoveEntry(f) \/ PrepareGeneration(f) \/ Generate(f) \/ Validate(f)
         \/ PublishPage(f) \/ PublishMarker(f) \/ Finish(f) \/ Leave(f)
  \/ \E p \in Servers : ServerDies(p)

DocsSpec == DocsInit /\ [][DocsNext]_docsVars

(* The marker of an entry means what readers take it to mean - every page of the crate is *)
(* there, so a missing page is a missing item and needs no generation - whatever crashes, *)
(* deadlines, failures and concurrent generators of both processes do. The exceptions are *)
(* named: an entry retention is removing, or removed halfway, or whose lock file had been *)
(* unlinked between its opening and its locking.                                          *)
CompleteIsWhole ==
  \A e \in Entries :
    disk[e].marker /\ e \notin disturbed /\ Removing(e) = {} => disk[e].pages = Pages

(* One request's cancellation stays its own: a request that subscribed to a generation    *)
(* nobody had cancelled yet never receives the "cancelled" of that generation, whoever    *)
(* else joins it or leaves it (LocalSubscription::release).                               *)
CancelStaysOwn ==
  \A r \in Requests : rq[r].took = "cancelled" => ~rq[r].live

(* What generators leave behind is whole, and what they tell is for whom it is meant      *)
(* (docs/cache.rs, publish_pages; docs/resolver.rs, local_generation_singleflight).       *)
GenerationIsSound == CompleteIsWhole /\ CancelStaysOwn
=============================================================================
