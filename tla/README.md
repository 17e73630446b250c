# KIR: models, checks and proofs

KIR turns building programs into C# that runs inside Autodesk Revit. Most of the
repository is translation and geometry (`kir/`, Python). What can go wrong in an
order nobody tested is at its edge: a program changes a user's model through a
local connector add-in (`connector/revit`, C#), over a pipe that may break, in a
process that may crash, on an API thread Revit alone schedules. The connector's
promise is *at most once, and never a wrong answer about it*; the stores and
journals on the Python side are there so that their promise is the same after a
restart of theirs. This directory states both in TLA+, checks them with TLC on
small instances and proves most of it with TLAPS for every instance: the connector's
whole, and the stores' and the A5 run's.

## Inventory

### The Revit connector (`connector/revit/src`)

| Component | State | Operations | Where it is hard |
| --- | --- | --- | --- |
| Operation journal (`Execution/OperationJournal.cs`) | `operations.jsonl`, index `_latest`, `_healthy` | load, `Get`, `TryStart`, `AppendTerminal` | appends that fail half-way; torn tails; late terminal receipts |
| Journal owner (`Execution/JournalOwner.cs`) | directory, `owner.lock` held open, `owner.json`, `_disposed` | `CreateNew`, `Append`, `Dispose`, `OpenRecovery` | racing creators; crash inside creation; late append after disposal |
| Execution engine (`Execution/ExecutionEngine.cs`) | `_legacyAssemblyCount` | `Execute`, `Rejected`, `Cancelled`, `RuntimeClosed`, `FailedUnknown` | claim before invocation; failure of the terminal append; process-wide limit |
| External event scheduler (`Execution/ExternalEventScheduler.cs`) | `_queue`, `_gate`, `_disposed`, `_executing`, Revit's pending event | `Enqueue`, `Execute`, `RaiseOrReject`, `Dispose` | one item per event; refused raises; re-entrant disposal |
| Session admission (`Execution/SessionAdmission.cs`) | `_closed`, expiry instant | `IsOpen`, `Close`, `TryStart`, `TryCancelBeforeStart` | closing against starting; cancelling against starting |
| Connector service (`ConnectorService.cs`) | none of its own | ping, context, receipt, recover_receipt, cancel_before_start, execute | look-ups that are stale after compiling; deadlines that leave work queued |
| App and sessions (`App.cs`, `ConnectorSession.cs`) | `_session`, `_stopping`, owner | `OnStartup`, `Enable`, `Disable`, expiry, `OnShutdown` | shutdown from inside an invocation; an old session's request outliving it |
| Named pipe host (`Transport/NamedPipeHost.cs`) | one pipe per session | accept, read, handle, write, dispose | disposal does not wait for the request being handled |
| Context queries (`Context/ContextQueryScheduler.cs`) | `_pending`, `_disposed` | `Capture`, `Execute`, `Dispose` | coalesced requests; an event that is never raised |
| Document revisions (`Context/DocumentRevisionTracker.cs`) | entries, key counter, `_failure` | change and close events, `GetState` | a missed event; counting past a failure |
| Discovery file, compiler host, protocol types, pipe client | a file per session; a child process per compilation | publish, remove; compile | files that outlive their process |

Threads: each session's pipe has a handler of its own that serves one request at
a time; a compiler answer may come minutes later; Revit's API thread runs the
engine and `OnShutdown`. They meet at three locks (the session gate in `App`, the
admission gate of each session, the scheduler's gate) and at the journal's own.
Another process, or this one for an older identity, may recover a journal once
its lease is free.

What makes the connector correct:

* generated code runs at most once per operation id, whatever is retried;
* the claim is in the file before the code runs, so no crash hides an invocation;
* a client told "did not start, you may retry" is right for ever;
* a final receipt is the last word of the file, for every session, every process
  and every recovery;
* a closed session claims nothing more, a released journal is not touched again;
* every queued execution is settled and every request ends;
* an execution is let through only on the document its client was shown, with not
  one change in between.

### The Python side (`kir/`)

| Component | State | Operations | Where it is hard |
| --- | --- | --- | --- |
| Operation protocol and stores (`operations/`) | records with a phase, an outcome, a receipt; the dispatch claim | `create`, `claim_dispatch`, `transition` | reports late, twice, in any order; a transition refused after it was half applied |
| Saved executions (`saved_execution.py`) | one new SQLite file per execution | create, load | death and power loss between creating, committing, flushing and sending |
| CREATE publications (`project_create_store.py`, `standalone_publish.py`, `connector_result.py`) | reservations of outputs and operation ids, receipts, releases | reserve, send, look up, cancel, release | a lost acknowledgement; another client under the same id; giving outputs to a second archive |
| Level update streams (`project_realization_store.py`, `revit_level_update.py`, `level_settlement.py`, `level_resolution.py`) | per stream a checkpoint and a pending update; owners of elements | plan, reserve, send, settle, resolve | the user edits between plan and run; a cancellation answered while its request is under way |
| Live journal (`live/journal.py`, `live/journal_store.py`, the turns in `serving.py`) | sessions of records in memory, an append-only file | append, bind, advance, restore, late receipts | memory first, file later and outside the lock; restore racing a new turn |
| Live idempotence run A5 (`idempotence.py`, `a5_live.py`, `a5_recovery.py`) | a checksummed journal per request, the copy in the document | rebuild, reconcile, compare, clean up, recover | an answer lost after Revit committed; death at any line; a cleanup that falls short |
| Bridge client (`bridge/client.py`) | requests waiting for replies | connect, request, retry | reconnects |
| Acceptance journal, created-element ledger, compile cache, decompile journals and caches, bureau runner, MCP server | one file or directory each | | |
| Compiler, emitters, spec, checker, clash, construction, decompile, viewer, course | none worth exploring | | computation |

What makes them correct: an operation is dispatched by one worker and its record
tells one story; what was sent is on disk before it goes, and one file is one
execution; no authored output is created in Revit by two archives; an update runs
only over settled ones and on what it was planned on; a record of the live journal
never says of Revit what is not so; and everything the A5 run left in a document
is named by its journal.

`PROJECT.json` lists every component with its status, and the hazards with the
line where each bites and the property that would catch it.

## Modules

```
OperationLedger            what the journal promises per operation id
      ^ refined by                                     ^ instantiated by
OperationJournal           file, index, poisoned flag  |
   |            |                                      |
JournalOwner   Connector   processes / engine, queue   CreatePublications
   |            |
MCJournalOwner MCConnector                  instances for TLC
JournalLogProofs           lemmas on the file and on one append
   |            |
   |       ConnectorProofs                  theorems
   |
   |   DocumentRevisions   documents, their changes, the tracker
   |        |
   |   ContextQueries      queries, clients, the precondition of an execution; MCContextQueries
   |        |
JournalAndContextProofs                     theorems

OperationStore  ExecutionArchive  LiveJournal    LevelStreams       A5Recovery
         |           |               |               |                  |     each with its MC module
         +-----------+---------------+               |                  |
        StoreProofs                          LevelStreamsProofs  A5RecoveryProofs  CreatePublicationsProofs
             |
        LiveJournalProofs
```

### OperationLedger

The abstract specification: an id is absent, claimed by one input, or resolved
for ever; a tombstone resolves an id that was never claimed. No file, no failure.

### OperationJournal

`disk` is the sequence of complete records, `torn` says that bytes follow the last
newline, `index` is `_latest`, `healthy` is `_healthy`. A record is an id, an
input and a state: `"started"`, or the state of its terminal receipt. An *input*
is the whole binding the code compares (source hash, document, revision, view,
selection, target) as one value. The `started` flag is a function of the state, because
`ParseRecord` refuses any other combination; `may_retry`, which it refuses only beside
`started` (`OperationJournal.cs` 232), is left out.

`Persist` takes what the append did: `ok`, or an exception after `nothing`, a
`prefix` or the `whole` record reached the file. Only `ok` reaches the index; any
other outcome poisons it. `TryStart` and `AppendTerminal` are the two methods
that append; `TerminalVerdict` is what the second one decides before it does.
`WellFormed` is the loading loop: each line must be a valid transition from the
lines above.

`ImplementsLedger` is the abstract ledger with `ledger` read off the file
(`LatestOf(disk)`), so it speaks of what survives a crash.

### JournalOwner

Several processes and one journal identity. `CheckAbsent` to `CreateJournal` are
the steps of `CreateNew`, `CreateFails` an exception or death at any of them (with
`owner.json` perhaps cut short). The owner's journal calls go through `Append`,
which refuses a disposed owner; the process and its index live on after `Release`.
`AcquireRecovery`, `LoadRecovery` and `EndRecovery` are `OpenRecovery` and the
disposal of what it returns. `served` is a history of every record an owner gave
out.

### Connector

One Revit process from `OnStartup` to its end. An action is what one thread does
under one acquisition of a lock. The scheduler's gate is held across several of
them, so it is the variable `gate`: `executing` while the engine runs, `rejecting`
or `cancelling` while the queue is emptied.

| In the module | In the code |
| --- | --- |
| `Enable`, `Expire`, `Disable`, `ClosePipe` | `App.Enable`, the expiry instant or timer, `App.DisableSession`, `ConnectorSession.Dispose` |
| `Lookup`, `RecoverReceipt` | `receipt` and `recover_receipt`, the second from another process as well |
| `CancelBeforeStart`, `TryCancelBeforeStart` | the look-up, then the append under the admission gate |
| `Execute`, `Compile`, `Enqueue`, `AnswerExecute` | the request's look-up, the compiler's answer, the queueing, the receipt or the deadline |
| `Wake`, `EngineLookup` to `EnginePersist`, `EndRun` | one `ExternalEvent` call: dequeue, `ExecutionEngine.Execute`, raise again |
| `DrainOne`, `DrainEnd` | the loops of `RaiseOrReject` and `Dispose` |
| `BeginShutdown`, `ShutdownDisable`, `ShutdownDispose`, `Release` | `OnShutdown`, refused when re-entered from an invocation |
| `Settle` | `PersistTerminal`, with `AppendTerminal` inside |
| `Crash` | the process dies at any point |

`EngineReturn` chooses among the four states an invocation can end in; what
document changed is data. `invoked` counts how often generated code was entered,
`told` collects the final receipts clients were given; both are histories no guard
reads.

### DocumentRevisions and ContextQueries

`document`, `active` and `changes` are what happens in Revit; `entries`, `lastKey`,
`failed` and `retired` are the tracker's `_entries`, `_nextDocument`, `_failure` and
`_disposed`. The tracker never sees `changes`: it counts the events it gets, and
`DocumentChanged` may fail in `OnDocumentChanged`, which latches. An entry is held
per native document, because wrappers are compared with `Document.Equals`; a
reopened file is another native document.

`Capture`, `Raise`, `Execute`, `Dispose` are `ContextQueryScheduler`; a query is a
`TaskCompletionSource` and `result` what it completed with. `Answer` is the
requesting handler's `Timeout`, in time or too late. `EngineContext` is the
engine's own capture and `Matches`. `Connector` leaves the outcome of this
comparison free, which allows all that `EngineContext` does here. A snapshot carries the
document and its real number of changes (`doc`, `at`) beside the key and revision
the code has; `lastRun` compares them, and no guard reads any of it.

`Raise` may throw after `_pending` is set. Then nothing is ever raised again and
every later capture joins that query and times out, until shutdown cancels it.
`threw` records it: `PendingHasWakeup` and `EveryQuerySettles` say what holds
without it, `ShutdownSettles` holds with it.

### OperationStore

`records` is `_records`; each method holds the store's lock and is one action.
`AllowedTransitions` and `PhaseRank` are the two tables of `protocol.py`,
`TransitionAllowed` the function over them, `Applied` what the in-memory store does
to the shared record, which happens even when the changed receipt is then refused.
`ClaimDispatch`, `Send` and `WorkerDies` are a dispatcher; `Report` takes every phase
with every outcome and receipt at any time, which covers reports lost, repeated and
reordered. `sent` and `past` are histories.

### ExecutionArchive

One path, several processes. `CheckSidecars`, `CreateFile`, `Begin`, `Commit`, `FlushFile`,
`FlushDirectory` and `Load` are the steps between `create` and the one `SendArchived`; names
that `OperationStore` has too carry `Path` here, so that `StoreProofs` can extend both.
`Fail` is an error or death at any of them. `PowerLoss` may take what was not flushed: the
contents of the file, its entry in the directory, or the deletion of the journal, which then
lies beside the file again. `_flush_created` flushes the file everywhere and the directory
only where `os.name` is `posix`; `posix` is chosen once in `PathInit`, so each run and each
theorem covers both platforms. SQLite and the file system are modelled from what the code
relies on: a commit writes the record or not, a rollback journal makes the file unreadable
to the strict loader.

The properties say what the module's docstring says (`saved_execution.py` 3-6): `Promised`
is everything up to the first power loss, and on posix across power losses too. On
Windows, the product's platform, a power loss after a send may take the path's entry; then
nothing is found there, and the same path can be sent again. TLC refutes both properties
without `Promised`.

### CreatePublications

Each store call is one SQLite transaction and one action: `Reserve` checks the head,
the operation id against both ledgers and the owners of every output, and takes
them; `RecordReceipt` adds what `connector_result.py` binds to this exact input
(`BoundReceipts`); `Release` ends a reservation on a receipt that shows it never
started and frees what it still owns. The connector is `OperationLedger`, which
`Connector` is proved to implement, with requests in flight (`frames`) that are
answered, run, refused or forgotten in any order, and another client that may have
used an operation id first (`ForeignClaim`). `GiveUp` is a publisher that dies, loses
an acknowledgement or runs out of time; what it sent stays under way.

### LevelStreams

A stream is the scope of an original publication: a target Level and the elements
promised untouched. `Plan` is made on an observation of the document and on a
baseline read earlier; `Reserve` checks it again against the ledger
(`Reservable`, with `_check_before_checkpoint` as `FollowsCheckpoint`); `Invoke` lets
an update run only at the document revision of its plan. `Read` is what a process
takes with it before it asks Revit; `Settle` and `ResolveNotStarted` compare and swap
with it (`Current`). `UserEdits` moves any Level between two steps, and a finished
update may have set its elevation whatever it reported, unless it was accepted.

### LiveJournal

`mem` is the journal of the sessions in memory, `lru` their order of use, `tried`
`_RESTORE_TRIED`, `store` the store's complete lines; `NoSession` stands for a session
that is not in memory. `evicted` and `reconciled` are histories no guard reads: the
sessions that were ever pushed out of memory, and those that ever took a late receipt.
A turn publishes its program (restoring the session first when it is the first of its process), binds and
dispatches its chunks, hears or does not hear of their ends and puts the record in
its last stage. Memory moves under the lock; `Say` leaves the line to be written to a
later `WriteLine`, which may write it, lose it or tear it. `Replay` is
`read_events` and `replay` with the same automaton (`Fits`), one line after the other
(`Read`); `Restored` is what `restore` makes of it.
`Reconcile` is a late receipt; `Crash` forgets memory and ends every turn, while Revit
goes on. `native` is what Revit did.

### A5Recovery

`journal` is what replaying the file gives (`A5Replay`): the phase, the pending
effects, the receipts of the current rebuild epoch, what was proved. `Advance`,
`Start`, `Finish`, `Receipt` and `NewEpoch` are its records. `run` is the request being
handled: `Request` to `Check` find the journal, repair its tail and recover; then the
plan is built one program at a time (`StartRebuild`, `RunRebuild`, `FinishRebuild` or
`FinishRefused`), proved, reconciled, compared and previewed, and the copy is deleted,
swept and the journal closed (`Settle`). `Fail` is an exception inside the run, after
which the copy is cleaned up in the same way.

A program of `Isolated` is one host group by itself. When it ends without a witness the
run goes on to the next one (`Unanswered`, `idempotence.py` 1415-1422), and its effect,
if one was begun, stays pending: `skipped` keeps these programs, and several rebuilds may
pend when cleanup begins. `EndBuild` then finds the plan uncovered and fails, as
`after_rebuilt` does. If the process dies first, the next request finds a pending effect
to recover, or receipts that are no prefix of the plan; `prepare_rebuild_plan` then sweeps
and forgets them (`a5_live.py` 753-768: `Check` to `replan`, `Reset`, `restart`,
`Renew`). `Transition` is the journal's refusal of a phase while an effect pends. Every command may lose its answer: it
has then happened or not before the next command runs, because Revit runs one at a
time. `Die` stops the process anywhere, with a torn tail if it was appending; a
journal sealed by a failed write stops every later effect and is the same. An element
is identified with the effect that made it, so a program makes one or none.

## Runs

TLC finishes every passing run with no error.

| Run | Instance | Shows |
| --- | --- | --- |
| `journal_owner` | 2 processes, 2 ids, 2 inputs; 27,755 states | recovery and creation; the file implements the ledger |
| `connector` | 1 id with 2 inputs, 2 sessions, 2 work items; 405,407 states | two sessions and two inputs compete for one id |
| `connector_live` | 2 ids, 1 input, 1 session, 2 work items, assembly limit 1; 334,181 states | different operations share queue and engine; the limit is reached; every item is settled, every request ends |
| `context` | 2 documents, 2 clients, 1 query, 1 change per document; 1,927,145 states | what a client was shown is what its execution runs on; shared answers are fresh; every query is settled |
| `operation_store` | 1 operation, 2 bodies, 2 workers, 2 receipts, 2 outcomes; 60,685 states | one dispatch, one story, a receipt that stays |
| `create_publications` | 2 archives that share an output, 2 ids, 2 publishers, 1 progress receipt, 2 heads; 974,712 states | no output made twice; what was sent is retained |
| `level_streams` | 2 streams that share a Level, 2 operations, 2 publishers, 3 authored revisions, 3 document revisions; 1,221,816 states | one send per operation; accepted checkpoints follow the model |
| `execution_archive` | 1 path, 3 publishers, 2 inputs, both platforms; 4,032 states | what was sent can be recovered; one send per path |
| `live_journal` | 2 sessions of which memory keeps 1, with 1 record; 2 programs of up to 2 chunks, 1 crash, torn lines, late receipts; 776,082 states | stages contradict nothing Revit did; ends stand |
| `live_journal_restore` | 1 session, 3 programs of 1 chunk, 1 crash, late receipts; 1,062,817 states | nothing is forgotten by a restore; the file says what memory says |
| `live_journal_chunks` | 1 program of 2 chunks; expects a violation | see *What the models refute* |
| `a5_recovery` | a plan of 2 programs, the first isolated, 4 requests, 1 edit beside the copy; 1,607,524 states | what is in the document is in the journal; nothing is built twice; a closed run left what it says |

The bounds are the sets themselves and the constants named here.

*Connector.* `ItemLeft` in `Execute` lets a new execution be requested only while a
work item is left for it, so `ItemIds` bounds the executions of a run, and each
session is enabled once, so `Sessions` bounds how often the user enables the
connector. Everything else is finite by itself: an id has at most two records, and
the first failed append stops all further ones. Two work items are enough for a
duplicate of an operation to be queued behind the original, cancelled or drained
while the other runs. Two sessions give a request that outlives its session; two
inputs give a conflicting binding. `LegacyAssemblyLimit` is 64 in the source; 64
stands for a runtime that never meets it, 1 for one that does.

*Context.* Two documents are enough for one to be mistaken for the other after a
close, and two clients for one to join the other's query. `Queries` bounds the
queries somebody still waits for; one that is forgotten is used again, so the number
of captures is unbounded. `MaxChanges` caps the changes of one document: one is
enough for a stale context, and the tracker may fail on it.

*Stores.* In `operation_store` reports are unbounded: a record has finitely many
values. `MaxProgress` is the source's limit on progress receipts, met by one here;
`MaxHead` lets the head move once past the archives' source. Two archives of one
output are the smallest case in which one must wait for the other's end. `MaxRev`
bounds document revisions: the update, an edit before it or after it, both streams.
Three authored revisions set a Level to 0, 1 and 0 again, so that equal fields do
not mean the same revision. `sent` stops counting at two.

*LiveJournal.* `MaxTurns` bounds the turns that run at once, and `TurnLeft` lets them
run together only in the last process of a run: what an earlier process leaves behind
it leaves one turn at a time, which gives every file two turns in sequence can. Two
chunks are the fewest that can end in the middle; a session that keeps one record
drops another's. In `live_journal` the second session pushes the first one out of memory
while a turn may still be at work in it. One crash gives one restore, after which a second
turn may start while it is under way.

*A5Recovery.* Two programs are the fewest for a partial rebuild with a receipt. The first
being isolated, it can be passed over and the second decided, which gives a pending
effect beside a later receipt, and receipts that are no prefix of the plan.
`MaxRequests` bounds how often the request is made: a death in the rebuild, one in
its recovery, one in the cleanup and a last one. `MaxEdits` bounds the edits beside
the copy; elements of the copy may be deleted by the user without bound.

Deadlock is not checked in any run: a process that has shut down or died, whose
requests are all answered, really stops, and so does a store nobody asks any more.

Symmetry is used for safety only. Ids, inputs, sessions, work items, processes,
documents, clients, publishers, workers, bodies, receipts and programs are compared
for equality and nothing else.

Each property of a passing run is paired in `PROJECT.json` with a plausible slip in
one operation (defined beside it, marked *Mutant*) that makes TLC refute the property.

### What the models refute

`live_journal_chunks`: a program of two chunks whose first was sent and never answered
is `running_unknown` with one bound operation. A late receipt for that chunk makes the
record `committed`, though the second chunk was never sent: the guard counts the bound
operations, not the program's (`live/journal.py` 702). The comment above it
(698-701) says the journal then "must leave the record unknown".

Four more observations came with the models. The first two are why some properties of
`LiveJournal` except a session; the hazards of `PROJECT.json` carry them.

* A late receipt can make a session's file unreadable. Memory takes the receipt for a
  record that is `running_unknown` while the file still has `dispatched` (the turn's line
  comes after it, or the reclassification by a restart was in memory only). The replay
  refuses that line, and the session is never restored again (`live/journal_store.py`
  611). `StoreMirrorsMemory` excepts sessions in `reconciled`; without the exception TLC
  refutes it in `live_journal_restore`.
* A session that was pushed out of memory while a turn held a number of its records begins
  again from zero; that turn then moves another program's record, and the replay refuses
  the second body of a number (`live/journal.py` 815). `StagesAreTrue`,
  `NothingForgotten` and `StoreMirrorsMemory` except sessions in `evicted`; without the
  exception TLC refutes each with two keys, three programs and `MaxSessions = 1`.
* An isolated program whose answer is unknown does not end an A5 run
  (`idempotence.py` 1415-1422), though the documentation of `_refused_without_commit`
  (1038-1041) says such a chunk "must fail the run". The run builds the rest of the plan
  on a document it does not know, and refuses it at the end, since the plan is not
  covered. The three properties of `A5Recovery` hold all the same.
* An A5 run whose copy is gone before its journal was closed (it failed after `Rebuilt`,
  cleaned up and died, or the recovery of a lost deletion swept the rest) can
  neither go on nor be abandoned: the revision it expects is that of the copy.
  A journal whose first record is torn refuses every request of that directory. Both
  fail closed; an operator has to move the file.

### Fairness

`connector_live` assumes, and nothing more:

* a handler thread inside a request keeps going (weak fairness of each session's
  `HandlerStep`: the compiler client has a deadline, so `Compile` always ends);
* Revit runs an event it accepted, and the drain loops go on (weak fairness of
  `SchedulerStep`);
* `OnShutdown`, once begun, goes on (weak fairness of `ShutdownStep`);
* the engine goes on (strong fairness of `EngineStep`): generated code is assumed
  to return. It may re-enter `OnShutdown` again and again, and each refusal takes
  the API thread away and gives it back, so the engine is enabled infinitely often
  rather than for good.

`context` assumes that Revit runs an event it accepted (weak fairness of
`Execute`) and nothing of the clients.

No client has to send anything and no user has to press anything. Without the
assumption that generated code returns, a request would still end (its deadline
passes), but nothing queued behind it would be settled.

## Proofs

All theorems hold for every value of the constants under the named assumptions of
the modules: the null values are not members of the sets they complete, limits and
bounds are natural numbers, and what the parameters describe is what the code makes of
it (a stream's target is in its scope, a parent revision is a revision). Sets given as
constants may be infinite: the bounds of the runs are not used.

`JournalLogProofs` has the lemmas about the file: what `Latest` and `WellFormed`
become after one more record, that an allowed append keeps the file well formed
and never moves an id except along the abstract ledger, and that it never takes
back a terminal record or a claim.

`JournalAndContextProofs`, about `JournalOwner`. The inductive invariant adds to the types: the process whose
stage says so holds the lease, and nobody else; at most one process ever had the
journal in memory; nothing is in the file before that process; the file is
well formed and, while it is healthy, equals the index; everything served is
still what the file says; and a reader's view is the file. The lease is why the
last part is inductive: an owner that is not disposed holds it, so a reader
excludes every append. `TypeCorrect`, `IndexIsTheFile`, `FileReplays`,
`RecoveryIsFrozen` and `RecoveryAgrees` follow, and `LedgerImplemented` shows
each step to be a ledger step or a stutter.

`ConnectorProofs`. The inductive invariant is a conjunction of six parts:

* `Types`, the type invariant, and the journal's own invariant: the file is well
  formed and a healthy index equals it;
* `Bindings`: a busy handler has an id and an input, an item it waits for exists
  and carries them, and whatever is queued or running exists;
* `History`: whatever was invoked was claimed and has no before-start record, what
  is about to be invoked is claimed and has never run, and every final answer
  recorded in an item or given to a client is the last word of the file;
* `Lifecycle`: how `life`, `gate`, `disposed`, `run` and the sessions go together,
  so that after disposal nothing is queued, running or open;
* `NoLostWakeup`;
* `AssembliesLeft`: between the limit check and the load the count is below the
  limit.

`AtMostOnce` rests on `History`: the only way into an invocation is the stage after
a durable start, and a second start of the same id is refused because a healthy
index is the file. `RetryPermissionSound` follows
because a not-started record and a start record of one id exclude each other in a
well formed file. `LedgerImplemented` is the refinement of the abstract ledger by
the whole process, crash included.

`JournalAndContextProofs`, about `ContextQueries`. `RunsOnWhatWasSeen` is not inductive: nothing in it says why
equal keys and revisions mean the same document in the same state. The inductive
invariant says of every snapshot that a client holds or a query was answered with
(`Current`): no other document's entry has its key; and as long as the tracker is
usable and the document open, that document's entry still has that key, and its
revision has grown since by as much as the real count of changes. It needs the keys
to be distinct and below the counter (`KeysDistinct`), since pruned entries free
their place in the list but never their key. `AnswersAreFresh` and
`ShutdownSettles` rest on `QueriesPending`: a query is unsettled exactly while it is
the pending one, so whoever joins it joins before it is answered.

`StoreProofs`, about `OperationStore`. `SentByOneWorker` rests on the transition table: no phase leads
back to the two that can be claimed (`NeverClaimableAgain`), so of all workers one has
an attempt that is not idle (`OneClaim`), whatever is reported meanwhile. `OneStory`
needs the ranks: every change the table allows goes up in `PHASE_RANK` (`TableRises`), so
a phase that is added outranks the whole past and the rank of the endings, or of the
verdicts, is met once (`OneOrder`). The proof compares the two tables of `protocol.py`
for every pair of phases.

`StoreProofs`, about `ExecutionArchive`. The invariant says that whoever is past the creation of the file
is alone there (`OneCreator`), what the file holds at each of that publisher's stages
(`StageHolds`), and that after a send nobody is past creation any more (`SentInv`). What
it says of sends is conditioned by `Promised`, as the properties are: a power loss where
the directory is not flushed ends it.

`CreatePublicationsProofs`. That no output is made by two archives rests on a chain the
invariant follows link by link: an output has the owner the catalogue names
(`StoreInv`), an owner is freed only by a release marker, the marker names a receipt
the store holds, the store's receipts are what the connector's journal says
(`LedgerInv`), and that is its last word, because the abstract ledger resolves an id
for ever. In between the receipt is in a publisher's hands, hence `PubsInv` (whoever
answers or records carries the journal's word) and `FramesInv` (one answer on its way
to one waiting publisher, about its own archive; without it a late answer could be
taken for another archive's). `SentInv` gives the right to send to the one process
whose reservation committed. `NoOutputMadeTwice`, `SentIsRetained`, `CatalogSound`,
`RetainedReceiptsTrue` and the action property `OwnersFreedByNoStart` follow. The
proof uses of the connector only that it is `OperationLedger`, which `ConnectorProofs`
shows.

`LevelStreamsProofs`. A row of `level_streams` is only two operation ids; the invariant
says what they stand for. `RowsInv`: the pending one is the stream's one archive
without an end, made on the checkpoint the row still names. `ChainInv`: the settlements
of a stream are numbered from zero without a gap, each names the one before, and the
checkpoint is the last; the step that adds one needs that the checkpoint's number is
the count of the others less one. `AcceptedInv`: every settlement was satisfied by its
own update's result, which the connector never changes (`NativeInv`), and every archive
was planned on the fields last accepted. `PubsInv` keeps a publisher's proof good until
the compare-and-swap of `Settle` and `ResolveNotStarted`, which by `RowsInv` can only
find the archive the proof is about. `SentOnce`, `LedgerSound`, `ResolvedNeverStarts` and
`AcceptedFollowsModel` follow. `StartsOnlySettled` does too: what may start has no end,
an update that may have run and was not settled has none either, a stream has one such
update, and `owners` lets no two streams share an element. The record sets and the
assumption that the history has a first revision are there for the proof; the history
of an authored project starts with one that has no parent.

`A5RecoveryProofs`. `EveryElementAccounted` and `NothingBuiltTwice` speak of the file and
the document, and neither is inductive: a rebuild may answer nothing, the run may die,
and the next request knows only the file. The invariant says what each stage of a
request may rely on: which phases the file can be in (`PhaseInv`), which effects can be
pending (`Pends`: while programs are built the one in hand and those of isolated programs
the run has passed over, none where a phase is recorded, only what the sweep is about to
delete while one is under way) and that the effect in hand is of a program neither
decided nor passed over and not in the document (`EffectInv`).
`FileInv` keeps one receipt per program, and a closed file's claims; `DocumentInv` is the
accounting itself. `ClosedIsSettled` rests on `FileInv`: phase 7 is recorded only
over a preview that names the whole document, phase 8 only once nothing pends.

`StoreProofs` and `LiveJournalProofs`, about `LiveJournal`. What a restart reads is a
fold over the file, and what a fold computes on every file would take an induction over
data. The proofs need less: one line more at the end of the file is one `Read` more
(`ReplayAppend`). That the two folds agree up to the old length holds because there is
no least place where they differ (`LeastNumber`), an argument in first-order steps.
Everything else about the file is an invariant over the steps that write it.

The invariant is built in three layers, each on the one below.

* `Base` holds of any journal, whatever is lost, torn, pushed out or late: the types;
  where a turn stands, what it holds and which line it has in hand (`TurnFacts`); while
  a session is restored nobody else works on its key (`Locks`); whose records the file,
  a reading and memory may hold (`StoreFacts`, `SeenFacts`, `MemFacts`), the last with
  what makes a dispatch somebody's: the record of a turn that is over has an end, or
  was not dispatched and nobody has its number any more. `LiveTypes` and
  `DispatchedInFlight` are read off it. `EndsStandAlways` goes through the steps with it:
  a record in memory moves by `Advance`, `Bind` and `Reconcile` only, each along the law
  of stages, and a restore never replaces records.
* `Honest` adds what Revit did. `NativeFacts` ties each turn to Revit: up to its place
  everything is committed, beyond it nothing was sent. `NumberFacts` gives every number
  of a session to one turn at work. `MemTruth`, `SeenTruth`, `LateFacts` and `StoreTruth`
  say of a record in memory, of one that was read and is not raised yet, of a late
  receipt on its way and of the file that nothing Revit did contradicts them.
  `StagesAreTrue` is not inductive without the file: a false line would come back as a
  false record. What these say of memory, of numbers and of the
  file they say of sessions outside `evicted` only; that the histories only grow is
  `PastStep`. `StagesTrue` and `NothingForgottenAlways` follow.
* `Mirror` adds, while no line was lost and for sessions outside `evicted` and
  `reconciled`, that memory is the replay and the one line each
  turn still has to write; `StoreMirrorsMemoryAlways` is what is left where none has.

No proof expands `TurnLeft`: the theorems hold for any number of turns at once in every
process, where the runs have several in the last process only.

None of the six has a hypothesis: memory may have room for fewer sessions than are used,
and receipts may come late at any time. Where the code breaks a property in a session it
pushed out, or that took a late receipt, the property says so and still binds every
other session in the same journal (*What the models refute*). `LiveTypes`,
`DispatchedInFlight` and `EndsStandAlways` except none.

`ClaimedBeforeInvoked`, `IndexMirrorsDisk`, `PendingHasWakeup` and the type invariants of
these modules are proved and not run; TLC agreed with each, and with every inductive
invariant of the last four components, before it was proved.

Every safety property of a passing run is proved. Only model-checked are
`EveryItemSettled`, `EveryRequestEnds` and `EveryQuerySettles`, since TLAPS does not
handle `ENABLED` and hence fairness, and that the code violates `BuiltIsWhole`.

## Assumptions about what is outside

* A durable append (write-through and flush) that returns has written the whole
  record; one that throws wrote nothing, a prefix or all of it, and no other
  bytes. `owner.lock` opened with `FileShare.None` excludes every other open and
  is released by the system when a process dies.
* Revit calls the handler of an accepted event on the API thread, one call at a
  time, and runs `OnShutdown` there too.
* Operation ids are canonical when they reach the journal.
* `Document.Equals` holds between wrappers of one native document and no others;
  a closed document's wrappers are invalid when `DocumentClosed` is raised. Every
  commit, undo and redo raises `DocumentChanged` on the API thread before the next
  capture runs.
* The wall clock does not go back. A clock set back reopens an expired session
  until its timer fires; the model closes it for good.
* SQLite transactions are atomic, and durable once the file is flushed; a new file is found
  after a power loss once its directory was flushed too. Revit runs
  one command at a time, in the order it was given them.
* The user of a document in which an A5 run works may edit it and delete the copy's
  elements, but does not undo a deletion; the fingerprint of a document is a function
  of its content.

## Not modelled

*Connector.* Authentication and field validation (a refused request changes nothing);
the content of receipts, results and change manifests, truncation included; ping;
the view and selection fields of a context; legacy journal records, which a journal
created by this code never contains; durations, so that the time `Enqueue` waits for
a running invocation before the request's deadline starts is out of the model; the
steps inside the session constructor and `OnStartup`.

*OperationStore.* `DatabaseOperationStore` hands each call to a database outside the
repository; the attempt id and error text of a record; `clear`.

*CreatePublications.* One native namespace; the lineage of staged imports; digests,
budgets, history pages and schema upgrades; the `confirmed` flag a caller computes
around a receipt.

*LevelStreams.* Publishing without a store, which keeps nothing; the pin of an authored
head; one runtime and document; status pages and schema upgrades. There is no
liveness: an update whose outcome is unknown stays pending by design.

*LiveJournal.* Reset, keys of the legacy form, datums, what sections contain, the plan
stream's frames, the verdict and the transfer of programs.

*A5Recovery.* The lease and a second server. The journal is read before the lease is
taken, so a server that waited may append to a file it no longer knows
(`serving.py` 9942); the model has one. Legacy ledgers, escrowed atoms and their form
verdicts, the comparison itself, programs of several elements.

Everything listed as `not_modelled` in `PROJECT.json` has the reason there.

## Plan

Done: the journal, its owners and recovery; the connector process; context queries
and document revisions; the operation store; saved executions; CREATE publications over
the abstract ledger; Level update streams; the live journal; the A5 run; the theorems of
all these. Next:

1. `A5Lease`: two servers, the lease and its heartbeat, around the journal.
2. `Connector` with `ContextQueries` in place of the free choice of `EngineContext`:
   one id's execution, its precondition and the claim together.
3. `SessionPublication`: the session constructor step by step with the discovery
   file, stale files after a crash, the client's choice of a session.
4. `BridgeClient`, live transfer, the acceptance journal, in that order of worth.
