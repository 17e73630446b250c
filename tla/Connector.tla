----------------------------- MODULE Connector -----------------------------
(***************************************************************************)
(* One Revit process with the connector in it, from OnStartup to its end:   *)
(* App, ConnectorSession, ConnectorService, SessionAdmission,               *)
(* ExternalEventScheduler and ExecutionEngine on top of one                 *)
(* OperationJournal (connector/revit/src/Kir.Revit.Connector).              *)
(*                                                                          *)
(* Threads.  Every session's pipe serves one request at a time, on a        *)
(* handler thread of its own; an older session's handler may still be       *)
(* inside a request when the next session is enabled.  The engine and       *)
(* OnShutdown run on Revit's API thread; OnShutdown may be re-entered from  *)
(* inside an invocation.  Locks: each action is what one thread does under  *)
(* one acquisition of the admission, journal or session gate.  The          *)
(* scheduler's gate is held across several actions, so it is a variable.    *)
(*                                                                          *)
(* Out of the model: protocol, token, target and field validation (a        *)
(* request that fails it changes nothing), the content of receipts beyond   *)
(* their binding and state, and context queries (they never touch this      *)
(* state).                                                                  *)
(***************************************************************************)
EXTENDS OperationJournal

CONSTANTS Sessions,      \* ten-minute sessions, each enabled at most once
          NoSession,     \* App._session is null
          ItemIds,       \* execution work items: bounds the executions queued
          NoItem,        \* no work item
          Unsettled,     \* a completion that has no result yet
          LegacyAssemblyLimit  \* generated assemblies one process may load

\* What a work item carries, besides its assembly.
Binding == [session : Sessions, op : Ops, input : Inputs]

ASSUME SessionAssumption == NoSession \notin Sessions
ASSUME ItemAssumption == NoItem \notin ItemIds \union Binding
ASSUME UnsettledAssumption == Unsettled \notin Record \union {NoRecord}
ASSUME LimitAssumption == LegacyAssemblyLimit \in Nat

VARIABLES
    life,        \* where App is between startup, shutdown and death
    stopping,    \* App._stopping
    current,     \* App._session
    admission,   \* SessionAdmission of each session
    listening,   \* sessions whose pipe is not disposed
    handler,     \* what each session's handler thread is doing
    gate,        \* who holds ExternalEventScheduler._gate
    disposed,    \* ExternalEventScheduler._disposed
    raised,      \* an accepted ExternalEvent has not run yet
    queue,       \* queued work items
    items,       \* the binding and session of each work item
    done,        \* the completion of each work item
    run,         \* the work item inside ExecutionEngine.Execute
    assemblies,  \* ExecutionEngine._legacyAssemblyCount
    invoked,     \* how often generated code ran, per id and input (history)
    told         \* final receipts clients were given (history)

appVars == <<life, stopping, current, admission, listening>>
schedulerVars == <<gate, disposed, raised, queue, items, done>>
engineVars == <<run, assemblies, invoked>>
vars == <<disk, torn, index, healthy, life, stopping, current, admission, listening,
          handler, gate, disposed, raised, queue, items, done, run, assemblies,
          invoked, told>>

-----------------------------------------------------------------------------
(* Types *)

\* up: running.  closing, disposing: inside OnShutdown, before and after
\* Disable.  draining: the scheduler is disposed, its queue is being settled.
\* released: the journal owner is disposed.  dead: the process is gone.
Lives == {"up", "closing", "disposing", "draining", "released", "dead"}

HandlerPcs == {"idle", "cancelling", "compiling", "compiled", "waiting"}
Idle == [pc |-> "idle", op |-> NoRecord, input |-> NoRecord, item |-> NoItem]
HandlerState == [pc : HandlerPcs, op : Ops \union {NoRecord},
                 input : Inputs \union {NoRecord}, item : ItemIds \union {NoItem}]

RunPcs == {"none", "lookup", "context", "start", "invoke", "invoking", "persist"}
NotRunning == [pc |-> "none", item |-> NoItem, state |-> "started"]
RunState == [pc : RunPcs, item : ItemIds \union {NoItem},
             state : {"started"} \union TerminalStates]

\* A receipt that closes its operation for the client; running_unknown and the
\* failure statuses do not.
FinalStates == TerminalStates \ {"running_unknown"}
IsFinal(r) == r # NoRecord /\ r.state \in FinalStates

TypeOK ==
    /\ disk \in Seq(Record)
    /\ torn \in BOOLEAN
    /\ index \in [Ops -> Record \union {NoRecord}]
    /\ healthy \in BOOLEAN
    /\ life \in Lives
    /\ stopping \in BOOLEAN
    /\ current \in Sessions \union {NoSession}
    /\ admission \in [Sessions -> {"unborn", "open", "shut"}]
    /\ listening \in SUBSET Sessions
    /\ handler \in [Sessions -> HandlerState]
    /\ gate \in {"free", "executing", "rejecting", "cancelling"}
    /\ disposed \in BOOLEAN
    /\ raised \in BOOLEAN
    /\ queue \in Seq(ItemIds)
    /\ items \in [ItemIds -> Binding \union {NoItem}]
    /\ done \in [ItemIds -> Record \union {NoRecord, Unsettled}]
    /\ run \in RunState
    /\ assemblies \in Nat
    /\ invoked \in [Ops -> [Inputs -> Nat]]
    /\ told \in SUBSET [asked : Inputs, receipt : Record]

\* OnStartup: a fresh journal identity, no session.
Init ==
    /\ JournalInit
    /\ life = "up"
    /\ stopping = FALSE
    /\ current = NoSession
    /\ admission = [s \in Sessions |-> "unborn"]
    /\ listening = {}
    /\ handler = [s \in Sessions |-> Idle]
    /\ gate = "free"
    /\ disposed = FALSE
    /\ raised = FALSE
    /\ queue = << >>
    /\ items = [i \in ItemIds |-> NoItem]
    /\ done = [i \in ItemIds |-> NoRecord]
    /\ run = NotRunning
    /\ assemblies = 0
    /\ invoked = [op \in Ops |-> [in \in Inputs |-> 0]]
    /\ told = {}

-----------------------------------------------------------------------------
(* App and ConnectorSession: sessions open and close *)

Close(S) == [s \in Sessions |-> IF s \in S THEN "shut" ELSE admission[s]]

\* Enable disables the previous session, pipe and all, before it opens s.  The
\* ConnectorSession constructor may throw: then s is closed and never current.
Enable(s) ==
    /\ life = "up" /\ ~stopping
    /\ admission[s] = "unborn"
    /\ \/ /\ admission' = [Close({current}) EXCEPT ![s] = "open"]
          /\ current' = s
          /\ listening' = (listening \ {current}) \union {s}
       \/ /\ admission' = [Close({current}) EXCEPT ![s] = "shut"]
          /\ current' = NoSession
          /\ listening' = listening \ {current}
    /\ UNCHANGED <<journalVars, life, stopping, handler, schedulerVars, engineVars, told>>

\* The clock passes ExpiresUtc: IsOpen is false from here on.
Expire(s) ==
    /\ life # "dead"
    /\ admission[s] = "open"
    /\ admission' = Close({s})
    /\ UNCHANGED <<journalVars, life, stopping, current, listening, handler,
                   schedulerVars, engineVars, told>>

\* DisableSession, by the user or by s's own expiry timer: admission closes
\* under the session gate, resources go afterwards (ClosePipe).
Disable(s) ==
    /\ life # "dead"
    /\ current = s
    /\ admission' = Close({s})
    /\ current' = NoSession
    /\ UNCHANGED <<journalVars, life, stopping, listening, handler, schedulerVars,
                   engineVars, told>>

\* ConnectorSession.Dispose does not wait for the request being handled.
ClosePipe(s) ==
    /\ life # "dead"
    /\ s \in listening /\ s # current /\ admission[s] = "shut"
    /\ listening' = listening \ {s}
    /\ UNCHANGED <<journalVars, life, stopping, current, admission, handler,
                   schedulerVars, engineVars, told>>

-----------------------------------------------------------------------------
(* Receipts *)

\* A client that asked about `in` is given r; only final receipts matter.
Tell(in, r) ==
    told' = IF IsFinal(r) THEN told \union {[asked |-> in, receipt |-> r]} ELSE told

\* What an exact retry is answered from a durable record: its receipt, or no
\* final answer when the record has another input or only a start.
Existing(r, in) == IF r.input = in /\ IsTerminal(r) THEN r ELSE NoRecord

\* JournalOwner.Append throws once the owner is disposed.
AppendOutcome == IF life = "released" THEN {"nothing"} ELSE AppendOutcomes

-----------------------------------------------------------------------------
(* ConnectorService: one request at a time per session *)

Ready(s) == life # "dead" /\ s \in listening /\ handler[s].pc = "idle"

Become(s, pc, op, in, item) ==
    handler' = [handler EXCEPT ![s] = [pc |-> pc, op |-> op, input |-> in, item |-> item]]

Answered(s) == handler' = [handler EXCEPT ![s] = Idle]

\* receipt, and recover_receipt for this very journal: by id alone, so the
\* receipt answers for the input it carries.
Lookup(s, op) ==
    /\ Ready(s)
    /\ healthy /\ index[op] # NoRecord
    /\ Tell(index[op].input, index[op])
    /\ UNCHANGED <<journalVars, appVars, handler, schedulerVars, engineVars>>

\* cancel_before_start: look first ...
CancelBeforeStart(s, op, in) ==
    /\ Ready(s)
    /\ healthy
    /\ \/ /\ index[op] # NoRecord
          /\ Tell(in, Existing(index[op], in))
          /\ UNCHANGED handler
       \/ /\ index[op] = NoRecord
          /\ Become(s, "cancelling", op, in, NoItem)
          /\ UNCHANGED told
    /\ UNCHANGED <<journalVars, appVars, schedulerVars, engineVars>>

\* ... then append the tombstone under the admission gate, against whatever
\* was appended in between.
TryCancelBeforeStart(s) ==
    LET op == handler[s].op
        in == handler[s].input
        verdict == TerminalVerdict(op, in, "cancelled_before_start")
    IN
    /\ life # "dead"
    /\ handler[s].pc = "cancelling"
    /\ Answered(s)
    /\ \/ /\ admission[s] = "open"
          /\ \E how \in AppendOutcome :
                /\ AppendTerminal(op, in, "cancelled_before_start", how)
                /\ Tell(in, IF how = "ok" THEN Rec(op, in, "cancelled_before_start")
                                          ELSE NoRecord)
       \/ /\ admission[s] = "open" /\ verdict = "prior"
          /\ Tell(in, index[op])
          /\ UNCHANGED journalVars
       \/ /\ admission[s] # "open" \/ verdict \notin {"append", "prior"}
          /\ UNCHANGED <<journalVars, told>>
    /\ UNCHANGED <<appVars, schedulerVars, engineVars>>

\* Bound: a new execution is only requested while a work item is left for it.
ItemLeft ==
    Cardinality({t \in Sessions : handler[t].pc \in {"compiling", "compiled"}})
        < Cardinality({i \in ItemIds : items[i] = NoItem})

\* execute: an id that has a record is answered from it; a new one is compiled
\* if the session is open.
Execute(s, op, in) ==
    /\ Ready(s)
    /\ healthy
    /\ \/ /\ index[op] # NoRecord
          /\ Tell(in, Existing(index[op], in))
          /\ UNCHANGED handler
       \/ /\ index[op] = NoRecord
          /\ admission[s] = "open" /\ ItemLeft
          /\ Become(s, "compiling", op, in, NoItem)
          /\ UNCHANGED told
    /\ UNCHANGED <<journalVars, appVars, schedulerVars, engineVars>>

\* The compiler host answers, refuses or exceeds its deadline.
Compile(s) ==
    /\ life # "dead"
    /\ handler[s].pc = "compiling"
    /\ \/ handler' = [handler EXCEPT ![s].pc = "compiled"]
       \/ Answered(s)
    /\ UNCHANGED <<journalVars, appVars, schedulerVars, engineVars, told>>

\* The client gets its item's receipt, or the deadline passes first; the item
\* stays where it is.
AnswerExecute(s) ==
    /\ life # "dead"
    /\ handler[s].pc = "waiting"
    /\ \/ /\ done[handler[s].item] # Unsettled
          /\ Tell(handler[s].input, done[handler[s].item])
       \/ UNCHANGED told
    /\ Answered(s)
    /\ UNCHANGED <<journalVars, appVars, schedulerVars, engineVars>>

-----------------------------------------------------------------------------
(* ExternalEventScheduler *)

\* RaiseOrReject, as the last thing done under the gate: an accepted event will
\* run; otherwise the gate is kept to reject the whole queue.
RaiseOrReject ==
    \/ raised' = TRUE /\ gate' = "free"
    \/ raised' = raised /\ gate' = "rejecting"

\* Mutant: a disposed scheduler still takes work.
EnqueueAlways(s) ==
    /\ life # "dead"
    /\ handler[s].pc = "compiled"
    /\ gate = "free"
    /\ \E i \in ItemIds :
          /\ items[i] = NoItem
          /\ items' = [items EXCEPT ![i] =
                [session |-> s, op |-> handler[s].op, input |-> handler[s].input]]
          /\ done' = [done EXCEPT ![i] = Unsettled]
          /\ queue' = Append(queue, i)
          /\ Become(s, "waiting", handler[s].op, handler[s].input, i)
    /\ RaiseOrReject
    /\ UNCHANGED <<journalVars, appVars, disposed, engineVars, told>>

\* A late compiler completion meets a disposed scheduler, or joins the queue.
Enqueue(s) ==
    /\ life # "dead"
    /\ handler[s].pc = "compiled"
    /\ gate = "free"
    /\ \/ /\ disposed
          /\ Answered(s)
          /\ UNCHANGED schedulerVars
       \/ /\ ~disposed
          /\ \E i \in ItemIds :
                /\ items[i] = NoItem
                /\ items' = [items EXCEPT ![i] =
                      [session |-> s, op |-> handler[s].op, input |-> handler[s].input]]
                /\ done' = [done EXCEPT ![i] = Unsettled]
                /\ queue' = Append(queue, i)
                /\ Become(s, "waiting", handler[s].op, handler[s].input, i)
          /\ RaiseOrReject
          /\ UNCHANGED disposed
    /\ UNCHANGED <<journalVars, appVars, engineVars, told>>

\* Mutant: the provisional receipt is returned although its append failed.
SettleProvisional(i, st) ==
    LET op == items[i].op
        in == items[i].input
        verdict == TerminalVerdict(op, in, st)
    IN
    \/ \E how \in AppendOutcome :
          /\ AppendTerminal(op, in, st, how)
          /\ done' = [done EXCEPT ![i] = Rec(op, in, st)]
    \/ /\ verdict = "prior"
       /\ done' = [done EXCEPT ![i] = index[op]]
       /\ UNCHANGED journalVars
    \/ /\ verdict \notin {"append", "prior"}
       /\ done' = [done EXCEPT ![i] = NoRecord]
       /\ UNCHANGED journalVars

\* PersistTerminal and TrySetResult: the item's answer is the journal's own
\* terminal record, or nothing final when it cannot be appended.
Settle(i, st) ==
    LET op == items[i].op
        in == items[i].input
        verdict == TerminalVerdict(op, in, st)
    IN
    \/ \E how \in AppendOutcome :
          /\ AppendTerminal(op, in, st, how)
          /\ done' = [done EXCEPT ![i] = IF how = "ok" THEN Rec(op, in, st) ELSE NoRecord]
    \/ /\ verdict = "prior"
       /\ done' = [done EXCEPT ![i] = index[op]]
       /\ UNCHANGED journalVars
    \/ /\ verdict \notin {"append", "prior"}
       /\ done' = [done EXCEPT ![i] = NoRecord]
       /\ UNCHANGED journalVars

\* One turn of the rejecting loop of RaiseOrReject or the cancelling loop of
\* Dispose.
DrainOne ==
    /\ life # "dead"
    /\ gate \in {"rejecting", "cancelling"}
    /\ queue # << >>
    /\ Settle(Head(queue), IF gate = "rejecting" THEN "rejected_before_start"
                                                 ELSE "cancelled_before_start")
    /\ queue' = Tail(queue)
    /\ UNCHANGED <<appVars, handler, gate, disposed, raised, items, engineVars, told>>

\* Mutant: the gate is not released after the cancelling loop.
DrainEndKeepsGate ==
    /\ life # "dead"
    /\ gate = "rejecting"
    /\ queue = << >>
    /\ gate' = "free"
    /\ UNCHANGED <<journalVars, appVars, handler, disposed, raised, queue, items, done,
                   engineVars, told>>

DrainEnd ==
    /\ life # "dead"
    /\ gate \in {"rejecting", "cancelling"}
    /\ queue = << >>
    /\ gate' = "free"
    /\ UNCHANGED <<journalVars, appVars, handler, disposed, raised, queue, items, done,
                   engineVars, told>>

\* Revit runs the accepted event on the API thread: one item, if there is one.
Wake ==
    /\ life = "up"
    /\ raised /\ gate = "free" /\ ~disposed
    /\ raised' = FALSE
    /\ \/ /\ queue = << >>
          /\ UNCHANGED <<gate, queue, run>>
       \/ /\ queue # << >>
          /\ gate' = "executing"
          /\ run' = [pc |-> "lookup", item |-> Head(queue), state |-> "started"]
          /\ queue' = Tail(queue)
    /\ UNCHANGED <<journalVars, appVars, handler, disposed, items, done, assemblies,
                   invoked, told>>

\* Mutant: the rest of the queue waits for an event nobody raises.
EndRunWithoutRaise ==
    /\ run' = NotRunning
    /\ gate' = "free"
    /\ UNCHANGED raised

\* The end of ExternalEventScheduler.Execute: a nonempty queue needs another
\* event.
EndRun ==
    /\ run' = NotRunning
    /\ IF queue = << >> THEN gate' = "free" /\ UNCHANGED raised ELSE RaiseOrReject

-----------------------------------------------------------------------------
(* ExecutionEngine.Execute, on the API thread *)

Running(pc) == life = "up" /\ gate = "executing" /\ run.pc = pc

Op == items[run.item].op
Input == items[run.item].input
Open == admission[items[run.item].session] = "open"

ToPersist(st) == run' = [run EXCEPT !.pc = "persist", !.state = st]

\* Execute returns without having to append: the record answers.
ReturnExisting(r) ==
    /\ done' = [done EXCEPT ![run.item] = r]
    /\ EndRun

\* An unhealthy journal throws; so may the context capture and a failing start.
\* The scheduler turns any exception into FailedUnknown.
FailedUnknown == "failed_after_start_unknown"

EngineLookup ==
    /\ Running("lookup")
    /\ \/ /\ ~healthy
          /\ ToPersist(FailedUnknown)
          /\ UNCHANGED <<gate, raised, done>>
       \/ /\ healthy /\ index[Op] # NoRecord
          /\ ReturnExisting(Existing(index[Op], Input))
       \/ /\ healthy /\ index[Op] = NoRecord
          /\ IF Open THEN run' = [run EXCEPT !.pc = "context"]
                     ELSE ToPersist("cancelled_before_start")
          /\ UNCHANGED <<gate, raised, done>>
    /\ UNCHANGED <<journalVars, appVars, handler, disposed, queue, items, assemblies,
                   invoked, told>>

\* Mutant: one assembly too many.
EngineContextOffByOne ==
    /\ Running("context")
    /\ \/ assemblies <= LegacyAssemblyLimit /\ run' = [run EXCEPT !.pc = "start"]
       \/ assemblies > LegacyAssemblyLimit /\ ToPersist("rejected_before_start")
       \/ ToPersist("context_changed_before_start")
       \/ ToPersist(FailedUnknown)
    /\ UNCHANGED <<journalVars, appVars, handler, schedulerVars, assemblies, invoked, told>>

\* The captured context matches the precondition, differs, or cannot be read;
\* a legacy runtime that has loaded its last assembly rejects.
EngineContext ==
    /\ Running("context")
    /\ \/ assemblies < LegacyAssemblyLimit /\ run' = [run EXCEPT !.pc = "start"]
       \/ assemblies >= LegacyAssemblyLimit /\ ToPersist("rejected_before_start")
       \/ ToPersist("context_changed_before_start")
       \/ ToPersist(FailedUnknown)
    /\ UNCHANGED <<journalVars, appVars, handler, schedulerVars, assemblies, invoked, told>>

\* Mutant: the admission is not looked at again under its gate.
EngineStartUnadmitted ==
    /\ Running("start")
    /\ \/ /\ ~healthy
          /\ ToPersist(FailedUnknown)
          /\ UNCHANGED <<journalVars, gate, raised, done>>
       \/ /\ healthy /\ index[Op] # NoRecord
          /\ ReturnExisting(Existing(index[Op], Input))
          /\ UNCHANGED journalVars
       \/ /\ \E how \in AppendOutcome :
                /\ TryStart(Op, Input, how)
                /\ IF how = "ok" THEN run' = [run EXCEPT !.pc = "invoke"]
                                 ELSE ToPersist(FailedUnknown)
          /\ UNCHANGED <<gate, raised, done>>
    /\ UNCHANGED <<appVars, handler, disposed, queue, items, assemblies, invoked, told>>

\* SessionAdmission.TryStart: one admission check and one durable claim.
EngineStart ==
    /\ Running("start")
    /\ \/ /\ ~Open
          /\ ToPersist("cancelled_before_start")
          /\ UNCHANGED <<journalVars, gate, raised, done>>
       \/ /\ Open /\ ~healthy
          /\ ToPersist(FailedUnknown)
          /\ UNCHANGED <<journalVars, gate, raised, done>>
       \/ /\ Open /\ healthy /\ index[Op] # NoRecord
          /\ ReturnExisting(Existing(index[Op], Input))
          /\ UNCHANGED journalVars
       \/ /\ Open
          /\ \E how \in AppendOutcome :
                /\ TryStart(Op, Input, how)
                /\ IF how = "ok" THEN run' = [run EXCEPT !.pc = "invoke"]
                                 ELSE ToPersist(FailedUnknown)
          /\ UNCHANGED <<gate, raised, done>>
    /\ UNCHANGED <<appVars, handler, disposed, queue, items, assemblies, invoked, told>>

\* The assembly is loaded and UserCode.Execute is entered, or loading fails.
EngineInvoke ==
    /\ Running("invoke")
    /\ \/ /\ run' = [run EXCEPT !.pc = "invoking"]
          /\ invoked' = [invoked EXCEPT ![Op][Input] = @ + 1]
       \/ /\ ToPersist(FailedUnknown)
          /\ UNCHANGED invoked
    /\ assemblies' = assemblies + 1
    /\ UNCHANGED <<journalVars, appVars, handler, schedulerVars, told>>

\* Mutant: an invocation that throws before any observed change is tried again.
EngineReturnRetries ==
    /\ Running("invoking")
    /\ \/ \E st \in {"invocation_completed", "foreign_document_changed",
                     "failed_after_observed_change"} : ToPersist(st)
       \/ run' = [run EXCEPT !.pc = "invoke"]
    /\ UNCHANGED <<journalVars, appVars, handler, schedulerVars, assemblies, invoked, told>>

\* The invocation returns or throws, having changed the bound document,
\* another one, or none.
EngineReturn ==
    /\ Running("invoking")
    /\ \E st \in {"invocation_completed", "foreign_document_changed",
                  "failed_after_observed_change", "failed_after_start_unknown"} :
          ToPersist(st)
    /\ UNCHANGED <<journalVars, appVars, handler, schedulerVars, assemblies, invoked, told>>

EnginePersist ==
    /\ Running("persist")
    /\ Settle(run.item, run.state)
    /\ EndRun
    /\ UNCHANGED <<appVars, handler, disposed, queue, items, assemblies, invoked, told>>

-----------------------------------------------------------------------------
(* OnShutdown, and the end of the process *)

\* On the API thread: between events, or re-entered from inside an invocation.
BeginShutdown ==
    /\ life = "up"
    /\ gate = "executing" => run.pc = "invoking"
    /\ life' = "closing"
    /\ stopping' = TRUE
    /\ UNCHANGED <<journalVars, current, admission, listening, handler, schedulerVars,
                   engineVars, told>>

ShutdownDisable ==
    /\ life = "closing"
    /\ life' = "disposing"
    /\ admission' = Close({current})
    /\ listening' = listening \ {current}
    /\ current' = NoSession
    /\ UNCHANGED <<journalVars, stopping, handler, schedulerVars, engineVars, told>>

\* Mutant: Dispose does not settle what is queued.
ShutdownDisposeDropsQueue ==
    /\ life = "disposing"
    /\ \/ /\ gate = "executing"
          /\ life' = "up"
          /\ UNCHANGED disposed
       \/ /\ gate = "free"
          /\ life' = "draining"
          /\ disposed' = TRUE
    /\ UNCHANGED <<journalVars, stopping, current, admission, listening, handler, gate,
                   raised, queue, items, done, engineVars, told>>

\* ExternalEventScheduler.Dispose refuses to pull the journal from under a
\* running invocation; OnShutdown then reports failure and keeps the owner.
ShutdownDispose ==
    /\ life = "disposing"
    /\ \/ /\ gate = "executing"
          /\ life' = "up"
          /\ UNCHANGED <<gate, disposed>>
       \/ /\ gate = "free"
          /\ life' = "draining"
          /\ disposed' = TRUE
          /\ gate' = "cancelling"
    /\ UNCHANGED <<journalVars, stopping, current, admission, listening, handler, raised,
                   queue, items, done, engineVars, told>>

\* JournalOwner.Dispose.
Release ==
    /\ life = "draining"
    /\ gate = "free"
    /\ life' = "released"
    /\ UNCHANGED <<journalVars, stopping, current, admission, listening, handler,
                   schedulerVars, engineVars, told>>

\* The process dies; only the file is left.
Crash ==
    /\ life # "dead"
    /\ life' = "dead"
    /\ index' = EmptyIndex
    /\ healthy' = FALSE
    /\ handler' = [s \in Sessions |-> Idle]
    /\ run' = NotRunning
    /\ queue' = << >>
    /\ raised' = FALSE
    /\ gate' = "free"
    /\ UNCHANGED <<disk, torn, stopping, current, admission, listening, disposed, items,
                   done, assemblies, invoked, told>>

\* Another process recovers the journal once its lease is free, and answers
\* recover_receipt from what it loads.
RecoverReceipt(op) ==
    /\ life \in {"released", "dead"}
    /\ ~torn /\ WellFormed(disk)
    /\ Latest(disk, op) # NoRecord
    /\ Tell(Latest(disk, op).input, Latest(disk, op))
    /\ UNCHANGED <<journalVars, appVars, handler, schedulerVars, engineVars>>

-----------------------------------------------------------------------------
HandlerStep(s) ==
    \/ TryCancelBeforeStart(s) \/ Compile(s) \/ Enqueue(s) \/ AnswerExecute(s)

SchedulerStep == Wake \/ DrainOne \/ DrainEnd

EngineStep ==
    \/ EngineLookup \/ EngineContext \/ EngineStart
    \/ EngineInvoke \/ EngineReturn \/ EnginePersist

ShutdownStep == ShutdownDisable \/ ShutdownDispose \/ Release

Next ==
    \/ \E s \in Sessions :
          \/ Enable(s) \/ Expire(s) \/ Disable(s) \/ ClosePipe(s)
          \/ HandlerStep(s)
          \/ \E op \in Ops :
                \/ Lookup(s, op)
                \/ \E in \in Inputs : CancelBeforeStart(s, op, in) \/ Execute(s, op, in)
    \/ SchedulerStep
    \/ EngineStep
    \/ BeginShutdown
    \/ ShutdownStep
    \/ Crash
    \/ \E op \in Ops : RecoverReceipt(op)

Spec == Init /\ [][Next]_vars

-----------------------------------------------------------------------------
(* Safety *)

\* Generated code runs at most once per operation id, whatever sessions,
\* retries, timeouts and shutdowns do around it (ExecutionEngine.cs 35-105).
AtMostOnce ==
    \A op \in Ops :
        /\ \A in \in Inputs : invoked[op][in] <= 1
        /\ \A i, j \in Inputs : invoked[op][i] > 0 /\ invoked[op][j] > 0 => i = j

\* The claim of what is about to run is in the file before it runs, so that no
\* crash can hide an invocation (SessionAdmission.cs 31-40).
ClaimedBeforeInvoked ==
    \A op \in Ops, in \in Inputs :
        invoked[op][in] > 0 => \E k \in DOMAIN disk : disk[k] = Rec(op, in, "started")

\* A client told that an operation did not start, and that it may retry under a
\* new id, is right for ever: that operation has not run (PROTOCOL.md 88-92,
\* ExecutionEngine.cs 170-181).
RetryPermissionSound ==
    \A t \in told : t.receipt.state \in NotStartedStates =>
        \A in \in Inputs : invoked[t.receipt.op][in] = 0

\* Every final receipt any client was given answers for the input it asked
\* about and is the last word of the file: neither a queued item, nor another
\* session, nor recovery can later say something else (OperationJournal.cs
\* 102-125, ConnectorService.cs 204-222).
AnsweredIsDurable ==
    \A t \in told :
        /\ t.receipt.input = t.asked
        /\ Latest(disk, t.receipt.op) = t.receipt

\* A legacy Revit process, which can never unload an assembly, loads at most the
\* limit of them (ExecutionEngine.cs 49-52, 84).
LegacyAssembliesBounded == assemblies <= LegacyAssemblyLimit

\* A queued item always has a wake-up coming or is being drained: the scheduler
\* runs one item per event and must not leave the rest behind
\* (ExternalEventScheduler.cs 35-63).
NoLostWakeup ==
    life # "dead" /\ queue # << >> => raised \/ gate # "free"

\* Once a session is closed or expired nothing it queued is claimed any more
\* (SessionAdmission.cs 29-40): a start record is only ever appended for an
\* item of an open session.
ShutSessionClaimsNothing ==
    [][ \A s \in Sessions : admission[s] # "open" =>
          (disk' # disk /\ disk'[Len(disk')].state = "started"
              => items[run.item].session # s) ]_vars

\* After the owner is released the process neither writes the journal nor
\* poisons it by trying (ConnectorService.cs 158-202, ExternalEventScheduler.cs
\* 24-33, 66-77): every late completion is answered without it.
ReleasedJournalUntouched ==
    [][ life = "released" /\ life' = "released" => UNCHANGED journalVars ]_vars

-----------------------------------------------------------------------------
(* Liveness *)

\* Threads keep running, Revit runs an event it accepted, and OnShutdown goes
\* on.  Generated code returns, even if it keeps re-entering OnShutdown, which
\* is refused each time: hence strong fairness of the engine.  Nothing makes a
\* client send a request or a user press a button.
Fairness ==
    /\ \A s \in Sessions : WF_vars(HandlerStep(s))
    /\ WF_vars(SchedulerStep)
    /\ SF_vars(EngineStep)
    /\ WF_vars(ShutdownStep)

FairSpec == Spec /\ Fairness

\* Every queued execution is settled, one way or another, unless the process
\* dies (ExternalEventScheduler.cs 24-77).
EveryItemSettled ==
    \A i \in ItemIds :
        done[i] = Unsettled ~> (done[i] # Unsettled \/ life = "dead")

\* Every request is answered.
EveryRequestEnds ==
    \A s \in Sessions : handler[s].pc # "idle" ~> handler[s].pc = "idle"
=============================================================================
