----------------------------- MODULE LspClient -----------------------------
(***************************************************************************)
(* The connection to one rust-analyzer process (lsp/client.rs): requests   *)
(* with their table of waiting callers, the writer every frame goes        *)
(* through, documents kept in step with the analyzer under a lock each,    *)
(* requests of the analyzer itself, and the ways the connection closes.    *)
(* Framing is LspFraming; here a message arrives whole.                    *)
(***************************************************************************)
EXTENDS Naturals, Sequences, FiniteSets, SequencesExt, TLC

CONSTANTS
  Tasks,                 \* callers of the client
  Cases,                 \* initial cases: the calls of each task, how the analyzer may fail, its own
                         \* requests and its DocumentSyncOptions
  Uris, LongTexts,       \* documents, and the texts whose frame exceeds max_frame_bytes
  MaxPending, MaxDocuments,
  ServerCalls, MaxServerRequests    \* requests of the analyzer, and how many run at once

VARIABLES
  closed, closing,       \* the flag, and how far mark_closed is, on whose behalf
  writer,                \* holder of the writer lock; "taken" once stdin is gone
  exited, shutdownStarted,
  pending, chan,         \* table of requests, and the answer of each task's request
  documents, locks,      \* snapshots, and the lock of each document (0: none)
  nextLock,
  sync,                  \* DocumentSyncOptions in force
  task,                  \* progress of each task
  cancelled,             \* tasks whose token is cancelled
  analyzer,              \* the process: alive, reading, its stdout, documents, open requests
  reader,                \* the task of read_stdout
  server,                \* state of each request of the analyzer
  faults,                \* the failures of the analyzer still to come
  torn                   \* history: documents of a frame written whose call then failed

vars == <<closed, closing, writer, exited, shutdownStarted, pending, chan, documents, locks,
          nextLock, sync, task, cancelled, analyzer, reader, server, faults, torn>>
conn == <<closed, closing, writer, exited, shutdownStarted>>
docs == <<documents, locks, nextLock>>
requests == <<pending, chan>>

None == "none"
NoDoc == [version |-> 0, text |-> <<>>]
NoFrame == [m |-> None, id |-> <<>>, uri |-> None, version |-> 0, from |-> [line |-> 0, character |-> 0],
            to |-> [line |-> 0, character |-> 0], whole |-> FALSE, text |-> <<>>]
Idle(jobs) == [pc |-> "idle", jobs |-> jobs, id |-> <<>>, lock |-> 0, holds |-> FALSE, frame |-> NoFrame, version |-> 0]

Init ==
  /\ \E s \in Cases : /\ task = [t \in Tasks |-> Idle(s.jobs[t])]
                      /\ faults = s.faults /\ sync = s.sync
                      /\ server = [k \in ServerCalls |-> IF k \in s.server THEN None ELSE "dropped"]
  /\ closed = FALSE /\ closing = [by |-> None, step |-> None] /\ writer = None
  /\ exited = FALSE /\ shutdownStarted = FALSE
  /\ pending = {} /\ chan = [t \in Tasks |-> None]
  /\ documents = [u \in Uris |-> NoDoc] /\ locks = [u \in Uris |-> 0] /\ nextLock = 1
  /\ cancelled = {} /\ torn = {}
  /\ analyzer = [alive |-> TRUE, reads |-> TRUE, stdout |-> TRUE, docs |-> [u \in Uris |-> NoDoc], asked |-> {}]
  /\ reader = "reading"

Job(t) == Head(task[t].jobs)
At(t, pc) == task[t].pc = pc /\ task[t].jobs # <<>>
Goto(t, pc) == task' = [task EXCEPT ![t].pc = pc]
\* The call returns: locks and references are dropped.
Return(t) == task' = [task EXCEPT ![t] = Idle(Tail(@.jobs))]
Cancelled(t) == t \in cancelled

-----------------------------------------------------------------------------
(* Text. *)

Units(c) == IF c = "w" THEN 2 ELSE 1     \* len_utf16
\* position_at_byte: line, and UTF-16 units since its start, of the place after k characters.
PositionAt(text, k) ==
  LET breaks == {i \in 1 .. k : text[i] = "n"}
      start  == IF breaks = {} THEN 0 ELSE CHOOSE i \in breaks : \A j \in breaks : j <= i
  IN  [line |-> Cardinality(breaks),
       character |-> FoldSeq(LAMBDA c, n : n + Units(c), 0, SubSeq(text, start + 1, k))]

\* incremental_change: what lies between the common prefix and the common suffix that follows it.
IncrementalChange(old, new) ==
  LET short  == IF Len(old) < Len(new) THEN Len(old) ELSE Len(new)
      Longest(S) == CHOOSE k \in S : \A j \in S : j <= k
      prefix == Longest({k \in 0 .. short : SubSeq(old, 1, k) = SubSeq(new, 1, k)})
      suffix == Longest({k \in 0 .. short - prefix :
                           SubSeq(old, Len(old) - k + 1, Len(old)) = SubSeq(new, Len(new) - k + 1, Len(new))})
  IN  [from |-> PositionAt(old, prefix), to |-> PositionAt(old, Len(old) - suffix),
       text |-> SubSeq(new, prefix + 1, Len(new) - suffix)]

\* The analyzer finds the place of a position in its own text; past the end it takes the end.
Offset(text, p) ==
  IF \E k \in 0 .. Len(text) : PositionAt(text, k) = p
  THEN CHOOSE k \in 0 .. Len(text) : PositionAt(text, k) = p ELSE Len(text)

\* What the analyzer does with a frame.
Receive(a, f) ==
  CASE f.m = "request"   -> [a EXCEPT !.asked = @ \union {f.id}]
    [] f.m = "cancel"    -> a
    [] f.m = "didOpen"   -> [a EXCEPT !.docs[f.uri] = [version |-> f.version, text |-> f.text]]
    [] f.m = "didChange" ->
         [a EXCEPT !.docs[f.uri] =
            [version |-> f.version,
             text |-> IF f.whole THEN f.text
                      ELSE SubSeq(@.text, 1, Offset(@.text, f.from)) \o f.text
                             \o SubSeq(@.text, Offset(@.text, f.to) + 1, Len(@.text))]]
    [] f.m = "didClose"  -> [a EXCEPT !.docs[f.uri] = NoDoc]
    [] OTHER -> a

-----------------------------------------------------------------------------
(* Writing a frame: write_value_with_cancellation, entered with the frame in the task.  A request *)
(* passes no token to it.                                                                         *)

Token(t) == Cancelled(t) /\ task[t].frame.m \in {"didOpen", "didChange"}

\* The table without the entry of a request.
Without(id) == {p \in pending : p.id # id}

\* What the callers make of a failed write.
Failed(t) ==
  LET f == task[t].frame
  IN  CASE f.m = "request" /\ Job(t).kind # "shutdown" ->
              Return(t) /\ pending' = Without(f.id)
        [] f.m \in {"request", "cancel"} /\ Job(t).kind = "shutdown" ->
              Goto(t, "exit") /\ pending' = Without(f.id)
        [] f.m = "exit" -> Goto(t, "wait") /\ UNCHANGED pending
        [] OTHER -> Return(t) /\ UNCHANGED pending
Written(t) ==
  LET f == task[t].frame
  IN  /\ CASE f.m = "request" -> Goto(t, "await")
           [] f.m = "cancel"  -> IF Job(t).kind = "shutdown" THEN Goto(t, "exit") ELSE Return(t)
           [] f.m = "exit"    -> Goto(t, "wait")
           [] f.m = "didClose" -> Goto(t, "forget")
           [] OTHER -> Goto(t, "store")
      /\ UNCHANGED pending

\* The flag, the bound on the frame and the writer lock.  A caller that read the flag before it was
\* set may still get the writer before it is taken.
TakeWriter(t) ==
  /\ At(t, "write")
  /\ \/ /\ closed \/ Token(t) \/ task[t].frame.text \in LongTexts
        /\ Failed(t)
        /\ UNCHANGED <<writer>>
     \/ /\ writer = None /\ task[t].frame.text \notin LongTexts
        /\ writer' = t
        /\ Goto(t, "flush")
        /\ UNCHANGED pending
  /\ UNCHANGED <<closed, closing, exited, shutdownStarted, chan, docs, sync, cancelled, analyzer,
                 reader, server, faults, torn>>

\* write_all: it waits for an analyzer that does not read and fails once the process is gone.  A
\* token cancelled by then turns the success into Cancelled, though the frame is out.
Flush(t) ==
  /\ At(t, "flush") /\ writer = t
  /\ writer' = None
  /\ \/ /\ ~analyzer.alive
        /\ Failed(t)
        /\ UNCHANGED <<analyzer, torn>>
     \/ /\ analyzer.alive /\ analyzer.reads
        /\ analyzer' = Receive(analyzer, task[t].frame)
        /\ IF Token(t) THEN Failed(t) /\ torn' = torn \union {task[t].frame.uri}
                       ELSE Written(t) /\ UNCHANGED torn
  /\ UNCHANGED <<closed, closing, exited, shutdownStarted, chan, docs, sync, cancelled, reader, server, faults>>

-----------------------------------------------------------------------------
(* Requests: request_with_cancellation and request_retry. *)

ReqStart(t) ==
  /\ At(t, "idle") /\ Job(t).kind = "request"
  /\ IF Cancelled(t) \/ closed THEN Return(t) ELSE Goto(t, "insert")
  /\ UNCHANGED <<conn, requests, docs, sync, cancelled, analyzer, reader, server, faults, torn>>

\* next_id: no two requests share an id, so the job and the attempt name it.
NextId(t) == <<t, Len(task[t].jobs), Job(t).attempts>>

Insert(t) ==
  /\ At(t, "insert")
  /\ IF Cardinality(pending) >= MaxPending
     THEN /\ IF Job(t).kind = "shutdown" THEN Goto(t, "exit") ELSE Return(t)
          /\ UNCHANGED pending
     ELSE /\ pending' = pending \union {[id |-> NextId(t), task |-> t]}
          /\ task' = [task EXCEPT ![t].pc = "recheck", ![t].id = NextId(t),
                                  ![t].frame = [NoFrame EXCEPT !.m = "request", !.id = NextId(t)]]
  /\ UNCHANGED <<conn, chan, docs, sync, cancelled, analyzer, reader, server, faults, torn>>

\* The flag is read again once the entry is made.
Recheck(t) ==
  /\ At(t, "recheck")
  /\ IF closed THEN Failed(t) ELSE Goto(t, "write") /\ UNCHANGED pending
  /\ UNCHANGED <<conn, chan, docs, sync, cancelled, analyzer, reader, server, faults, torn>>

\* The caller gets the answer.  A "content modified" error is retried by request_retry.
Receiver(t) ==
  /\ At(t, "await") /\ chan[t] # None
  /\ IF Job(t).kind = "shutdown" THEN Goto(t, "exit")
     ELSE IF chan[t] = "modified" /\ Job(t).attempts > 1
       THEN task' = [task EXCEPT ![t] = Idle(<<[Job(t) EXCEPT !.attempts = @ - 1]>> \o Tail(@.jobs))]
       ELSE Return(t)
  /\ chan' = [chan EXCEPT ![t] = None]
  /\ UNCHANGED <<conn, pending, docs, sync, cancelled, analyzer, reader, server, faults, torn>>

\* cancel_pending, after the timeout or the token, perhaps with an answer ready (select): an entry
\* already gone means the answer is dropped.
CancelPending(t, cause) ==
  /\ At(t, "await")
  /\ chan' = [chan EXCEPT ![t] = None]
  /\ cause = "cancelled" => Cancelled(t) /\ Job(t).kind # "shutdown"
  /\ pending' = Without(task[t].id)
  /\ IF \E p \in pending : p.id = task[t].id
     THEN task' = [task EXCEPT ![t].pc = "write",
                               ![t].frame = [NoFrame EXCEPT !.m = "cancel", !.id = task[t].id]]
     ELSE IF Job(t).kind = "shutdown" THEN Goto(t, "exit") ELSE Return(t)
  /\ UNCHANGED <<conn, docs, sync, cancelled, analyzer, reader, server, faults, torn>>

-----------------------------------------------------------------------------
(* Documents. *)

DocKinds == {"sync", "close"}
Uri(t) == Job(t).uri
\* Arc::strong_count: the table and every call that holds a reference.
References(l) == 1 + Cardinality({t \in Tasks : task[t].lock = l})

\* document_lock_with_cancellation.
DocumentLock(t) ==
  /\ At(t, "idle") /\ Job(t).kind \in DocKinds
  /\ \/ /\ Cancelled(t) /\ Job(t).kind = "sync"
        /\ Return(t)
        /\ UNCHANGED <<locks, nextLock>>
     \/ /\ locks[Uri(t)] # 0
        /\ task' = [task EXCEPT ![t].pc = "acquire", ![t].lock = locks[Uri(t)]]
        /\ UNCHANGED <<locks, nextLock>>
     \/ /\ locks[Uri(t)] = 0 /\ Cardinality({u \in Uris : locks[u] # 0}) >= MaxDocuments
        /\ Return(t)
        /\ UNCHANGED <<locks, nextLock>>
     \/ /\ locks[Uri(t)] = 0 /\ Cardinality({u \in Uris : locks[u] # 0}) < MaxDocuments
        /\ locks' = [locks EXCEPT ![Uri(t)] = nextLock]
        /\ nextLock' = nextLock + 1
        /\ task' = [task EXCEPT ![t].pc = "acquire", ![t].lock = nextLock]
  /\ UNCHANGED <<conn, requests, documents, sync, cancelled, analyzer, reader, server, faults, torn>>

\* The lock, or the token (select), in synchronize_document and begin_document.
Acquire(t) ==
  /\ At(t, "acquire")
  /\ \/ /\ \A x \in Tasks : ~(task[x].holds /\ task[x].lock = task[t].lock)
        /\ task' = [task EXCEPT ![t].pc = Job(t).kind, ![t].holds = TRUE]
     \/ /\ Cancelled(t) /\ Job(t).kind = "sync"
        /\ Return(t)
  /\ UNCHANGED <<conn, requests, docs, sync, cancelled, analyzer, reader, server, faults, torn>>

\* synchronize_document_locked up to the frame: the version and the notification.
Change(previous, text) ==
  IF sync.change = 2 THEN [whole |-> FALSE] @@ IncrementalChange(previous, text)
  ELSE [whole |-> TRUE, from |-> NoFrame.from, to |-> NoFrame.to, text |-> text]
Synchronize(t) ==
  /\ At(t, "sync")
  /\ LET previous == documents[Uri(t)]
         text     == Job(t).text
         changed  == previous.version = 0 \/ previous.text # text
         version  == IF changed THEN previous.version + 1 ELSE previous.version
         change   == Change(previous.text, text)
         open     == [NoFrame EXCEPT !.m = "didOpen", !.uri = Uri(t), !.version = version, !.text = text]
         edit     == [NoFrame EXCEPT !.m = "didChange", !.uri = Uri(t), !.version = version, !.text = change.text,
                                     !.whole = change.whole, !.from = change.from, !.to = change.to]
         send(f)  == task' = [task EXCEPT ![t].pc = "write", ![t].version = version, ![t].frame = f]
     IN  \/ Cancelled(t) /\ Return(t)
         \/ previous.version = 0 /\ sync.open_close /\ send(open)
         \/ previous.version # 0 /\ changed /\ sync.change # 0 /\ send(edit)
         \/ /\ IF previous.version = 0 THEN ~sync.open_close ELSE ~changed \/ sync.change = 0
            /\ task' = [task EXCEPT ![t].pc = "store", ![t].version = version]
  /\ UNCHANGED <<conn, requests, docs, sync, cancelled, analyzer, reader, server, faults, torn>>

\* The snapshot follows the frame, unless the token comes first (select).
Store(t) ==
  /\ At(t, "store")
  /\ \/ /\ documents' = [documents EXCEPT ![Uri(t)] = [version |-> task[t].version, text |-> Job(t).text]]
        /\ IF Job(t).hold THEN Goto(t, "hold") ELSE Return(t)
        /\ UNCHANGED torn
     \/ /\ Cancelled(t)
        /\ Return(t)
        /\ torn' = torn \union {Uri(t)}
        /\ UNCHANGED documents
  /\ UNCHANGED <<conn, requests, locks, nextLock, sync, cancelled, analyzer, reader, server, faults>>

\* with_document: the operation runs under the DocumentSyncGuard, then the guard is dropped.
DropGuard(t) ==
  /\ At(t, "hold")
  /\ Return(t)
  /\ UNCHANGED <<conn, requests, docs, sync, cancelled, analyzer, reader, server, faults, torn>>

\* close_document: didClose if the document is open, then the snapshot and the guard go.
CloseDocument(t) ==
  /\ At(t, "close")
  /\ IF sync.open_close /\ documents[Uri(t)].version # 0
     THEN task' = [task EXCEPT ![t].pc = "write", ![t].frame = [NoFrame EXCEPT !.m = "didClose", !.uri = Uri(t)]]
     ELSE Goto(t, "forget")
  /\ UNCHANGED <<conn, requests, docs, sync, cancelled, analyzer, reader, server, faults, torn>>
Forget(t) ==
  /\ At(t, "forget")
  /\ documents' = [documents EXCEPT ![Uri(t)] = NoDoc]
  /\ task' = [task EXCEPT ![t].pc = "unlink", ![t].holds = FALSE]
  /\ UNCHANGED <<conn, requests, locks, nextLock, sync, cancelled, analyzer, reader, server, faults, torn>>
\* Mutant: the lock is dropped from the table though another call has a reference to it.
Unused_Any(t) == locks[Uri(t)] = task[t].lock
\* The lock leaves the table only when this call and the table hold the last references.
Unused(t) == locks[Uri(t)] = task[t].lock /\ References(task[t].lock) = 2
Unlink(t) ==
  /\ At(t, "unlink")
  /\ locks' = IF Unused(t) THEN [locks EXCEPT ![Uri(t)] = 0] ELSE locks
  /\ Return(t)
  /\ UNCHANGED <<conn, requests, documents, nextLock, sync, cancelled, analyzer, reader, server, faults, torn>>

-----------------------------------------------------------------------------
(* Closing. *)

\* mark_closed: the first to set the flag goes on, in the steps below.
MarkClosed(by) ==
  IF closed THEN UNCHANGED <<closed, closing>>
  ELSE closed' = TRUE /\ closing' = [by |-> by, step |-> "writer"]
TakeStdin ==
  /\ closing.step = "writer" /\ writer = None
  /\ writer' = "taken" /\ closing' = [closing EXCEPT !.step = "pending"]
  /\ UNCHANGED <<closed, exited, shutdownStarted, requests, docs, sync, task, cancelled, analyzer, reader, server, faults, torn>>
DrainPending ==
  /\ closing.step = "pending"
  /\ chan' = [t \in Tasks |-> IF \E p \in pending : p.task = t THEN "closed" ELSE chan[t]]
  /\ pending' = {}
  /\ server' = [k \in ServerCalls |-> IF server[k] = "running" THEN "cancelled" ELSE server[k]]
  /\ closed' = TRUE
  /\ closing' = [closing EXCEPT !.step = "done"]
  /\ UNCHANGED <<writer, exited, shutdownStarted, docs, sync, task, cancelled, analyzer, reader, faults, torn>>

\* read_stdout at the end of the stream: mark_closed, and when it is through, the kill.
StdoutEnds ==
  /\ reader = "reading" /\ (~analyzer.stdout \/ ~analyzer.alive)
  /\ MarkClosed("reader") /\ reader' = "closing"
  /\ UNCHANGED <<writer, exited, shutdownStarted, requests, docs, sync, task, cancelled, analyzer, server, faults, torn>>
RequestKill ==
  /\ reader = "closing" /\ (closing.by = "reader" => closing.step = "done")
  /\ reader' = "done" /\ analyzer' = [analyzer EXCEPT !.alive = FALSE]
  /\ UNCHANGED <<conn, requests, docs, sync, task, cancelled, server, faults, torn>>

\* wait_for_child and mark_process_exited.
ProcessExited ==
  /\ ~analyzer.alive /\ ~exited
  /\ exited' = TRUE
  /\ MarkClosed("waiter")
  /\ UNCHANGED <<writer, shutdownStarted, requests, docs, sync, task, cancelled, analyzer, reader, server, faults, torn>>

\* shutdown: the polite request once, then the signals, each followed by a bounded wait.
Shutdown(t) ==
  /\ At(t, "idle") /\ Job(t).kind = "shutdown"
  /\ shutdownStarted' = TRUE
  /\ IF shutdownStarted \/ closed THEN Goto(t, "wait") ELSE Goto(t, "insert")
  /\ UNCHANGED <<closed, closing, writer, exited, requests, docs, sync, cancelled, analyzer, reader, server, faults, torn>>
NotifyExit(t) ==
  /\ At(t, "exit")
  /\ task' = [task EXCEPT ![t].pc = "write", ![t].frame = [NoFrame EXCEPT !.m = "exit"]]
  /\ UNCHANGED <<conn, requests, docs, sync, cancelled, analyzer, reader, server, faults, torn>>
\* wait_process_exited, then SIGTERM, then the kill, then a client closed by force.
WaitProcessExited(t) ==
  /\ task[t].pc \in {"wait", "term", "kill", "force"}
  /\ \/ exited /\ Return(t) /\ UNCHANGED <<closed, closing, analyzer>>
     \/ /\ ~exited
        /\ CASE task[t].pc = "wait" -> /\ Goto(t, "term")
                                       /\ \E dies \in BOOLEAN : analyzer' = [analyzer EXCEPT !.alive = @ /\ ~dies]
                                       /\ UNCHANGED <<closed, closing>>
             [] task[t].pc = "term" -> Goto(t, "kill") /\ analyzer' = [analyzer EXCEPT !.alive = FALSE] /\ UNCHANGED <<closed, closing>>
             [] task[t].pc = "kill" -> Goto(t, "force") /\ MarkClosed(t) /\ UNCHANGED analyzer
             [] OTHER -> (closing.by = t => closing.step = "done") /\ Return(t) /\ UNCHANGED <<closed, closing, analyzer>>
  /\ UNCHANGED <<writer, exited, shutdownStarted, requests, docs, sync, cancelled, reader, server, faults, torn>>

-----------------------------------------------------------------------------
(* The analyzer, and the messages read from it (handle_message). *)

Reading == reader = "reading" /\ analyzer.alive /\ analyzer.stdout

\* A response finds its caller by id and takes the entry out.
Response(id, value) ==
  /\ Reading /\ id \in analyzer.asked
  /\ analyzer' = [analyzer EXCEPT !.asked = @ \ {id}]
  /\ chan' = [t \in Tasks |-> IF [id |-> id, task |-> t] \in pending THEN value ELSE chan[t]]
  /\ pending' = Without(id)
  /\ UNCHANGED <<conn, docs, sync, task, cancelled, reader, server, faults, torn>>

\* A request of the analyzer runs in a task of its own, or is refused when too many do.
Running == {k \in ServerCalls : server[k] \in {"running", "cancelled"}}
ServerRequest(k) ==
  /\ Reading /\ server[k] = None
  /\ server' = [server EXCEPT ![k] = IF Cardinality(Running) >= MaxServerRequests THEN "answered" ELSE "running"]
  /\ Cardinality(Running) >= MaxServerRequests => writer = None
  /\ UNCHANGED <<conn, requests, docs, sync, task, cancelled, analyzer, reader, faults, torn>>
CancelServerRequest(k) ==
  /\ Reading /\ server[k] = "running"
  /\ server' = [server EXCEPT ![k] = "cancelled"]
  /\ UNCHANGED <<conn, requests, docs, sync, task, cancelled, analyzer, reader, faults, torn>>
\* run_server_request: the handler ends, the entry goes, and the answer is written unless closed.
RunServerRequest(k) ==
  /\ k \in Running /\ (closed \/ writer = None)
  /\ server' = [server EXCEPT ![k] = IF closed THEN "dropped" ELSE "answered"]
  /\ UNCHANGED <<conn, requests, docs, sync, task, cancelled, analyzer, reader, faults, torn>>

\* The analyzer dies, closes its output, or stops reading its input.
AnalyzerFails ==
  /\ analyzer.alive
  /\ \E f \in faults :
       /\ faults' = faults \ {f}
       /\ analyzer' = CASE f = "dies"   -> [analyzer EXCEPT !.alive = FALSE]
                        [] f = "stdout" -> [analyzer EXCEPT !.stdout = FALSE]
                        [] f = "stalls" -> [analyzer EXCEPT !.reads = FALSE]
  /\ UNCHANGED <<conn, requests, docs, sync, task, cancelled, reader, server, torn>>

Cancel(t) ==
  /\ task[t].jobs # <<>> /\ Job(t).token /\ ~Cancelled(t)
  /\ cancelled' = cancelled \union {t}
  /\ UNCHANGED <<conn, requests, docs, sync, task, analyzer, reader, server, faults, torn>>

Call(t) ==
  \/ TakeWriter(t) \/ Flush(t) \/ ReqStart(t) \/ Insert(t) \/ Recheck(t) \/ Receiver(t)
  \/ CancelPending(t, "timeout") \/ CancelPending(t, "cancelled")
  \/ DocumentLock(t) \/ Acquire(t) \/ Synchronize(t) \/ Store(t) \/ DropGuard(t)
  \/ CloseDocument(t) \/ Forget(t) \/ Unlink(t)
  \/ Shutdown(t) \/ NotifyExit(t) \/ WaitProcessExited(t)
Background == TakeStdin \/ DrainPending \/ StdoutEnds \/ RequestKill \/ ProcessExited
Answers == \E id \in analyzer.asked, value \in {"ok", "error", "modified"} : Response(id, value)
ServerSide == \E k \in ServerCalls : ServerRequest(k) \/ CancelServerRequest(k) \/ RunServerRequest(k)

Next == \/ \E t \in Tasks : Call(t) \/ Cancel(t)
        \/ Background \/ Answers \/ ServerSide \/ AnalyzerFails

Spec == Init /\ [][Next]_vars

-----------------------------------------------------------------------------
\* PendingIsExact: every entry of the table belongs to a call still in progress, so none leaks
\* towards the bound however the call ends, and once mark_closed is through every caller still waiting
\* has its answer: a request that enters while the connection closes is either drained or sees the
\* flag (request_with_cancellation, cancel_pending, mark_closed).
PendingIsExact ==
  /\ \A p \in pending : task[p.task].id = p.id /\ task[p.task].pc \in {"recheck", "write", "flush", "await"}
  /\ closing.step = "done" => \A t \in Tasks : At(t, "await") => chan[t] # None

\* DocumentsAgree: while no call is between its frame and its snapshot, the analyzer has the text and
\* version the client remembers, whatever calls synchronise or close the document and however they
\* fail, and an operation under a document guard sees the text it was given.  Excepted: documents of a
\* call that saw its token only after the frame was out (torn, client.rs:1107).
DocumentsAgree ==
  \A u \in Uris :
    (sync.open_close /\ sync.change # 0 /\ analyzer.alive /\ u \notin torn
      /\ \A t \in Tasks : task[t].holds /\ Uri(t) = u => At(t, "hold") \/ At(t, "sync") \/ At(t, "close"))
    => /\ analyzer.docs[u] = documents[u]
       /\ \A t \in Tasks : At(t, "hold") /\ Uri(t) = u => documents[u].text = Job(t).text

\* ClientAgrees: what the client keeps about the conversation, the waiting calls and the documents, is
\* what the conversation is.
ClientAgrees == PendingIsExact /\ DocumentsAgree
=============================================================================
