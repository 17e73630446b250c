-------------------------- MODULE ConnectorProofs --------------------------
(***************************************************************************)
(* Theorems about Connector, for every set of operation ids, inputs,        *)
(* sessions and work items and every legacy assembly limit.                 *)
(*                                                                          *)
(* The safety properties are not inductive.  IInv adds what they rest on:   *)
(* the journal's own invariant (the file replays and a healthy index says   *)
(* what it says), that whatever is queued, running or waited for has a      *)
(* binding, that everything ever invoked or answered is in the file, and    *)
(* where the scheduler and the sessions are at each point of OnShutdown.    *)
(***************************************************************************)
EXTENDS Connector, JournalLogProofs

(* TypeOK by owner of the variables *)

AppType ==
    /\ life \in Lives
    /\ stopping \in BOOLEAN
    /\ current \in Sessions \union {NoSession}
    /\ admission \in [Sessions -> {"unborn", "open", "shut"}]
    /\ listening \in SUBSET Sessions

HandlerType == handler \in [Sessions -> HandlerState]

SchedulerType ==
    /\ gate \in {"free", "executing", "rejecting", "cancelling"}
    /\ disposed \in BOOLEAN
    /\ raised \in BOOLEAN
    /\ queue \in Seq(ItemIds)
    /\ items \in [ItemIds -> Binding \union {NoItem}]
    /\ done \in [ItemIds -> Record \union {NoRecord, Unsettled}]

EngineType ==
    /\ run \in RunState
    /\ assemblies \in Nat
    /\ invoked \in [Ops -> [Inputs -> Nat]]

ToldType == told \in SUBSET [asked : Inputs, receipt : Record]

-----------------------------------------------------------------------------
(* The strengthening *)

Bound(i) == i \in ItemIds /\ items[i] \in Binding

\* Requests in progress, the queue and the engine only hold bound work items.
HandlersBound ==
    \A s \in Sessions :
        /\ handler[s].pc # "idle" => handler[s].op \in Ops /\ handler[s].input \in Inputs
        /\ handler[s].pc = "waiting" =>
              /\ Bound(handler[s].item)
              /\ items[handler[s].item].op = handler[s].op
              /\ items[handler[s].item].input = handler[s].input

QueueBound == \A k \in DOMAIN queue : Bound(queue[k])

RunBound ==
    /\ run.pc = "none" <=> gate # "executing"
    /\ run.pc # "none" => Bound(run.item)
    /\ run.pc = "persist" => run.state \in TerminalStates

\* Whatever ran is claimed in the file and has no before-start record.
InvokedClaimed ==
    \A op \in Ops, in \in Inputs :
        /\ invoked[op][in] <= 1
        /\ invoked[op][in] > 0 =>
              /\ Latest(disk, op) # NoRecord
              /\ Latest(disk, op).input = in
              /\ Latest(disk, op).state \notin NotStartedStates
              /\ \E k \in DOMAIN disk : disk[k] = Rec(op, in, "started")

\* What is about to run is claimed and has never run.
AboutToRun ==
    run.pc = "invoke" =>
        /\ Latest(disk, Op) = Rec(Op, Input, "started")
        /\ \E k \in DOMAIN disk : disk[k] = Rec(Op, Input, "started")
        /\ \A in \in Inputs : invoked[Op][in] = 0

\* A final answer is the file's terminal record for the input it answers.
Settled(i) ==
    done[i] \in Record =>
        /\ items[i] \in Binding
        /\ IsTerminal(done[i])
        /\ done[i].op = items[i].op /\ done[i].input = items[i].input
        /\ Latest(disk, done[i].op) = done[i]

ItemsSettled == \A i \in ItemIds : Settled(i)

ToldFinal == \A t \in told : IsTerminal(t.receipt)

\* Only the current session is open, and none is once OnShutdown has closed it;
\* a disposed scheduler is drained before it is free again.
Lifecycle ==
    /\ \A s \in Sessions : admission[s] = "open" => current = s
    /\ life \in {"disposing", "draining", "released"} => current = NoSession
    /\ life \in {"draining", "released"} => disposed
    /\ disposed => gate # "executing"
    /\ disposed /\ gate = "free" => queue = << >>
    /\ life = "released" => gate = "free"

AssembliesLeft ==
    /\ assemblies <= LegacyAssemblyLimit
    /\ run.pc \in {"start", "invoke"} => assemblies < LegacyAssemblyLimit

Types == JournalInv /\ AppType /\ HandlerType /\ SchedulerType /\ EngineType /\ ToldType
Bindings == HandlersBound /\ QueueBound /\ RunBound
History == InvokedClaimed /\ AboutToRun /\ ItemsSettled /\ ToldFinal /\ AnsweredIsDurable

IInv ==
    /\ Types
    /\ Bindings
    /\ History
    /\ Lifecycle
    /\ NoLostWakeup
    /\ AssembliesLeft

-----------------------------------------------------------------------------
LEMMA InitInv == Init => IInv
  <1> SUFFICES ASSUME Init PROVE IInv
    OBVIOUS
  <1>1. JournalInv
    BY JournalInitInv DEF Init
  <1>2. Idle \in HandlerState /\ NotRunning \in RunState
    BY DEF Idle, HandlerState, HandlerPcs, NotRunning, RunState, RunPcs
  <1>3. AppType /\ HandlerType /\ SchedulerType /\ EngineType /\ ToldType
    <2>1. AppType
      BY DEF Init, AppType, Lives
    <2>2. HandlerType
      BY <1>2 DEF Init, HandlerType
    <2>3. SchedulerType
      <3>1. << >> \in Seq(ItemIds)
        OBVIOUS
      <3>2. [i \in ItemIds |-> NoItem] \in [ItemIds -> Binding \union {NoItem}]
        OBVIOUS
      <3>3. [i \in ItemIds |-> NoRecord] \in
                [ItemIds -> Record \union {NoRecord, Unsettled}]
        OBVIOUS
      <3> QED BY <3>1, <3>2, <3>3 DEF Init, SchedulerType
    <2>4. EngineType
      BY <1>2 DEF Init, EngineType
    <2>5. ToldType
      BY DEF Init, ToldType
    <2> QED BY <2>1, <2>2, <2>3, <2>4, <2>5
  <1>4. HandlersBound /\ QueueBound /\ RunBound
    BY DEF Init, HandlersBound, QueueBound, RunBound, Idle, NotRunning
  <1>5. InvokedClaimed /\ AboutToRun
    BY DEF Init, InvokedClaimed, AboutToRun, NotRunning
  <1>6. ItemsSettled /\ ToldFinal /\ AnsweredIsDurable
    BY NoRecordAssumption DEF Init, ItemsSettled, Settled, ToldFinal, AnsweredIsDurable
  <1>7. Lifecycle /\ NoLostWakeup /\ AssembliesLeft
    BY LimitAssumption DEF Init, Lifecycle, NoLostWakeup, AssembliesLeft, NotRunning
  <1> QED BY <1>1, <1>3, <1>4, <1>5, <1>6, <1>7 DEF IInv, Types, Bindings, History

-----------------------------------------------------------------------------
(* Steps that leave parts of the state alone *)

LEMMA SameJournal ==
    ASSUME JournalInv, UNCHANGED journalVars PROVE JournalInv' /\ Grows
  BY DEF JournalInv, JournalType, journalVars, Grows

LEMMA SameBindings ==
    ASSUME Bindings, UNCHANGED <<handler, gate, queue, items, run>>
    PROVE  Bindings'
  BY DEF Bindings, HandlersBound, QueueBound, RunBound, Bound

LEMMA SameHistory ==
    ASSUME History, UNCHANGED <<disk, items, done, run, invoked, told>>
    PROVE  History'
  <1>1. InvokedClaimed'
    BY DEF History, InvokedClaimed
  <1>2. AboutToRun'
    BY DEF History, AboutToRun, Op, Input
  <1>3. ItemsSettled'
    BY DEF History, ItemsSettled, Settled
  <1>4. ToldFinal' /\ AnsweredIsDurable'
    BY DEF History, ToldFinal, AnsweredIsDurable
  <1> QED BY <1>1, <1>2, <1>3, <1>4 DEF History

\* App, ConnectorSession: nothing moves but the lifecycle.
LEMMA AppStep ==
    ASSUME IInv, UNCHANGED <<journalVars, handler, raised, queue, items, done, engineVars, told>>,
           gate' \in {gate, "cancelling"}, gate' # gate => gate = "free",
           disposed' \in BOOLEAN, AppType', Lifecycle', NoLostWakeup'
    PROVE  IInv'
  <1>1. JournalInv'
    BY SameJournal DEF IInv, Types
  <1>2. HandlerType' /\ SchedulerType' /\ EngineType' /\ ToldType'
    BY DEF IInv, Types, HandlerType, SchedulerType, EngineType, ToldType, engineVars
  <1>3. Bindings'
    BY DEF IInv, Bindings, HandlersBound, QueueBound, RunBound, Bound, engineVars
  <1>4. History'
    BY SameHistory DEF IInv, engineVars, journalVars
  <1>5. AssembliesLeft'
    BY DEF IInv, AssembliesLeft, engineVars
  <1> QED BY <1>1, <1>2, <1>3, <1>4, <1>5 DEF IInv, Types

LEMMA EnableInv ==
    ASSUME IInv, NEW s \in Sessions, Enable(s) PROVE IInv'
  <1>1. AppType'
    BY DEF Enable, Close, IInv, Types, AppType
  <1>2. Lifecycle'
    BY DEF Enable, Close, IInv, Types, AppType, Lifecycle, schedulerVars
  <1>3. NoLostWakeup'
    BY DEF Enable, IInv, NoLostWakeup, schedulerVars
  <1> QED BY <1>1, <1>2, <1>3, AppStep DEF Enable, schedulerVars, IInv, Types, SchedulerType

LEMMA ExpireInv ==
    ASSUME IInv, NEW s \in Sessions, Expire(s) PROVE IInv'
  <1>1. AppType'
    BY DEF Expire, Close, IInv, Types, AppType
  <1>2. Lifecycle'
    BY DEF Expire, Close, IInv, Types, AppType, Lifecycle, schedulerVars
  <1>3. NoLostWakeup'
    BY DEF Expire, IInv, NoLostWakeup, schedulerVars
  <1> QED BY <1>1, <1>2, <1>3, AppStep DEF Expire, schedulerVars, IInv, Types, SchedulerType

LEMMA DisableInv ==
    ASSUME IInv, NEW s \in Sessions, Disable(s) PROVE IInv'
  <1>1. AppType'
    BY DEF Disable, Close, IInv, Types, AppType
  <1>2. Lifecycle'
    BY DEF Disable, Close, IInv, Types, AppType, Lifecycle, schedulerVars
  <1>3. NoLostWakeup'
    BY DEF Disable, IInv, NoLostWakeup, schedulerVars
  <1> QED BY <1>1, <1>2, <1>3, AppStep DEF Disable, schedulerVars, IInv, Types, SchedulerType

LEMMA ClosePipeInv ==
    ASSUME IInv, NEW s \in Sessions, ClosePipe(s) PROVE IInv'
  <1>1. AppType'
    BY DEF ClosePipe, IInv, Types, AppType
  <1>2. Lifecycle' /\ NoLostWakeup'
    BY DEF ClosePipe, IInv, Lifecycle, NoLostWakeup, schedulerVars
  <1> QED BY <1>1, <1>2, AppStep DEF ClosePipe, schedulerVars, IInv, Types, SchedulerType

LEMMA BeginShutdownInv ==
    ASSUME IInv, BeginShutdown PROVE IInv'
  <1>1. AppType'
    BY DEF BeginShutdown, IInv, Types, AppType, Lives
  <1>2. Lifecycle' /\ NoLostWakeup'
    BY DEF BeginShutdown, IInv, Lifecycle, NoLostWakeup, schedulerVars
  <1> QED BY <1>1, <1>2, AppStep DEF BeginShutdown, schedulerVars, IInv, Types, SchedulerType

LEMMA ShutdownDisableInv ==
    ASSUME IInv, ShutdownDisable PROVE IInv'
  <1>1. AppType'
    BY DEF ShutdownDisable, Close, IInv, Types, AppType, Lives
  <1>2. Lifecycle'
    BY DEF ShutdownDisable, Close, IInv, Types, AppType, Lifecycle, schedulerVars
  <1>3. NoLostWakeup'
    BY DEF ShutdownDisable, IInv, NoLostWakeup, schedulerVars
  <1> QED BY <1>1, <1>2, <1>3, AppStep DEF ShutdownDisable, schedulerVars, IInv, Types,
                                           SchedulerType

LEMMA ShutdownDisposeInv ==
    ASSUME IInv, ShutdownDispose PROVE IInv'
  <1>1. AppType'
    BY DEF ShutdownDispose, IInv, Types, AppType, Lives
  <1>2. Lifecycle'
    BY DEF ShutdownDispose, IInv, Types, AppType, Lifecycle
  <1>3. NoLostWakeup'
    BY DEF ShutdownDispose, IInv, NoLostWakeup
  <1> QED BY <1>1, <1>2, <1>3, AppStep DEF ShutdownDispose, IInv, Types, SchedulerType

LEMMA ReleaseInv ==
    ASSUME IInv, Release PROVE IInv'
  <1>1. AppType'
    BY DEF Release, IInv, Types, AppType, Lives
  <1>2. Lifecycle' /\ NoLostWakeup'
    BY DEF Release, IInv, Lifecycle, NoLostWakeup, schedulerVars
  <1> QED BY <1>1, <1>2, AppStep DEF Release, schedulerVars, IInv, Types, SchedulerType

-----------------------------------------------------------------------------
(* What the growing file keeps true *)

LEMMA InvokedKept ==
    ASSUME Types, InvokedClaimed, Grows, UNCHANGED invoked
    PROVE  InvokedClaimed'
  <1> SUFFICES ASSUME NEW op \in Ops, NEW in \in Inputs
               PROVE  /\ invoked[op][in] <= 1
                      /\ invoked[op][in] > 0 =>
                            /\ Latest(disk', op) # NoRecord
                            /\ Latest(disk', op).input = in
                            /\ Latest(disk', op).state \notin NotStartedStates
                            /\ \E k \in DOMAIN disk' : disk'[k] = Rec(op, in, "started")
    BY DEF InvokedClaimed
  <1>1. disk \in Seq(Record)
    BY DEF Types, JournalInv, JournalType
  <1>2. CASE invoked[op][in] > 0
    <2>1. /\ Latest(disk, op) # NoRecord
          /\ Latest(disk, op).input = in
          /\ Latest(disk, op).state \notin NotStartedStates
          /\ \E k \in DOMAIN disk : disk[k] = Rec(op, in, "started")
      BY <1>2 DEF InvokedClaimed
    <2>2. /\ Latest(disk', op) # NoRecord
          /\ Latest(disk', op).input = in
          /\ Latest(disk', op).state \notin NotStartedStates
      BY <1>1, <2>1, GrowsKeepsClaim
    <2>3. \E k \in DOMAIN disk' : disk'[k] = Rec(op, in, "started")
      BY <1>1, <2>1, GrowsKeepsRecords
    <2> QED BY <2>2, <2>3 DEF InvokedClaimed
  <1> QED BY <1>2 DEF InvokedClaimed

LEMMA SettledKept ==
    ASSUME Types, Grows, NEW i, Settled(i), items'[i] = items[i], done'[i] = done[i]
    PROVE  Settled(i)'
  <1>1. disk \in Seq(Record)
    BY DEF Types, JournalInv, JournalType
  <1> QED BY <1>1, GrowsKeepsTerminal DEF Settled

\* A client may be told what the file now says of the input it asked about.
LEMMA Telling ==
    ASSUME Types, ToldFinal, AnsweredIsDurable, Grows, NEW in \in Inputs, NEW r,
           Tell(in, r),
           r # NoRecord => r \in Record /\ r.input = in /\ Latest(disk', r.op) = r
    PROVE  ToldType' /\ ToldFinal' /\ AnsweredIsDurable'
  <1>1. disk \in Seq(Record)
    BY DEF Types, JournalInv, JournalType
  <1>2. ASSUME NEW t \in told
        PROVE  /\ t \in [asked : Inputs, receipt : Record]
               /\ IsTerminal(t.receipt)
               /\ t.receipt.input = t.asked
               /\ Latest(disk', t.receipt.op) = t.receipt
    BY <1>1, GrowsKeepsTerminal DEF Types, ToldType, ToldFinal, AnsweredIsDurable
  <1>3. ASSUME IsFinal(r)
        PROVE  /\ [asked |-> in, receipt |-> r] \in [asked : Inputs, receipt : Record]
               /\ IsTerminal(r) /\ r.input = in /\ Latest(disk', r.op) = r
    BY <1>3 DEF IsFinal, FinalStates, IsTerminal
  <1>4. \A t \in told' : t \in told \/ (IsFinal(r) /\ t = [asked |-> in, receipt |-> r])
    BY DEF Tell
  <1>5. ASSUME NEW t \in told'
        PROVE  /\ t \in [asked : Inputs, receipt : Record]
               /\ IsTerminal(t.receipt)
               /\ t.receipt.input = t.asked
               /\ Latest(disk', t.receipt.op) = t.receipt
    <2>1. CASE t \in told
      BY <1>2, <2>1
    <2>2. CASE IsFinal(r) /\ t = [asked |-> in, receipt |-> r]
      BY <1>3, <2>2
    <2> QED BY <1>4, <2>1, <2>2
  <1> QED BY <1>5 DEF ToldType, ToldFinal, AnsweredIsDurable

LEMMA ToldKept ==
    ASSUME Types, ToldFinal, AnsweredIsDurable, Grows, UNCHANGED told
    PROVE  ToldType' /\ ToldFinal' /\ AnsweredIsDurable'
  <1>1. disk \in Seq(Record)
    BY DEF Types, JournalInv, JournalType
  <1> QED BY <1>1, GrowsKeepsTerminal
          DEF Types, ToldType, ToldFinal, AnsweredIsDurable

\* A healthy index is the file, record by record.
LEMMA IndexIsLatest ==
    ASSUME Types, healthy, NEW op \in Ops
    PROVE  /\ index[op] = Latest(disk, op)
           /\ index[op] # NoRecord => index[op] \in Record /\ index[op].op = op
  <1>1. index[op] = Latest(disk, op) /\ disk \in Seq(Record)
    BY DEF Types, JournalInv, JournalType, LatestOf
  <1> QED BY <1>1, LatestType

-----------------------------------------------------------------------------
(* Requests, as long as they leave the journal alone *)

\* A handler moves and possibly answers; nothing else changes.
LEMMA HandlerStepInv ==
    ASSUME IInv, UNCHANGED <<journalVars, appVars, schedulerVars, engineVars>>,
           HandlerType', HandlersBound', ToldType', ToldFinal', AnsweredIsDurable'
    PROVE  IInv'
  <1>1. JournalInv' /\ Grows
    BY SameJournal DEF IInv, Types
  <1>2. AppType' /\ SchedulerType' /\ EngineType'
    BY DEF IInv, Types, AppType, SchedulerType, EngineType, appVars, schedulerVars,
           engineVars
  <1>3. QueueBound' /\ RunBound'
    BY DEF IInv, Bindings, QueueBound, RunBound, Bound, schedulerVars, engineVars
  <1>4. InvokedClaimed'
    BY <1>1, InvokedKept DEF IInv, History, engineVars
  <1>5. AboutToRun'
    BY DEF IInv, History, AboutToRun, Op, Input, schedulerVars, engineVars, journalVars
  <1>6. ItemsSettled'
    BY DEF IInv, History, ItemsSettled, Settled, schedulerVars, journalVars
  <1>7. Lifecycle' /\ NoLostWakeup' /\ AssembliesLeft'
    BY DEF IInv, Lifecycle, NoLostWakeup, AssembliesLeft, appVars, schedulerVars, engineVars
  <1> QED BY <1>1, <1>2, <1>3, <1>4, <1>5, <1>6, <1>7 DEF IInv, Types, Bindings, History

LEMMA SameTold ==
    ASSUME IInv, UNCHANGED <<journalVars, told>>
    PROVE  ToldType' /\ ToldFinal' /\ AnsweredIsDurable'
  BY SameJournal, ToldKept DEF IInv, Types, History

\* A handler is idle again, or holds a new id and input without a work item.
LEMMA HandlerMoves ==
    ASSUME IInv, NEW s \in Sessions, UNCHANGED items,
           \/ Answered(s)
           \/ UNCHANGED handler
           \/ \E pc \in {"cancelling", "compiling", "compiled"}, op \in Ops, in \in Inputs :
                 Become(s, pc, op, in, NoItem)
    PROVE  HandlerType' /\ HandlersBound'
  <1>1. CASE Answered(s)
    <2>1. Idle \in HandlerState
      BY DEF Idle, HandlerState, HandlerPcs
    <2>2. HandlerType'
      BY <1>1, <2>1 DEF Answered, IInv, Types, HandlerType
    <2>3. HandlersBound'
      BY <1>1 DEF Answered, IInv, Types, HandlerType, Bindings, HandlersBound, Bound, Idle
    <2> QED BY <2>2, <2>3
  <1>2. CASE UNCHANGED handler
    BY <1>2 DEF IInv, Types, HandlerType, Bindings, HandlersBound, Bound
  <1>3. ASSUME NEW pc \in {"cancelling", "compiling", "compiled"}, NEW op \in Ops,
               NEW in \in Inputs, Become(s, pc, op, in, NoItem)
        PROVE  HandlerType' /\ HandlersBound'
    <2>1. [pc |-> pc, op |-> op, input |-> in, item |-> NoItem] \in HandlerState
      BY DEF HandlerState, HandlerPcs
    <2>2. HandlerType'
      BY <1>3, <2>1 DEF Become, IInv, Types, HandlerType
    <2>3. HandlersBound'
      BY <1>3 DEF Become, IInv, Types, HandlerType, Bindings, HandlersBound, Bound
    <2> QED BY <2>2, <2>3
  <1> QED BY <1>1, <1>2, <1>3

LEMMA LookupInv ==
    ASSUME IInv, NEW s \in Sessions, NEW op \in Ops, Lookup(s, op) PROVE IInv'
  <1>1. HandlerType' /\ HandlersBound'
    BY HandlerMoves DEF Lookup, schedulerVars
  <1>2. /\ index[op] = Latest(disk', op) /\ index[op].op = op
        /\ index[op] \in Record /\ index[op].input \in Inputs /\ Grows
    BY IndexIsLatest, SameJournal DEF Lookup, IInv, Types, Record, journalVars
  <1>3. ToldType' /\ ToldFinal' /\ AnsweredIsDurable'
    BY <1>2, Telling DEF Lookup, IInv, History
  <1> QED BY <1>1, <1>3, HandlerStepInv DEF Lookup

\* The answer from a durable record.
LEMMA TellExisting ==
    ASSUME IInv, NEW op \in Ops, NEW in \in Inputs, healthy,
           UNCHANGED journalVars, Tell(in, Existing(index[op], in)), index[op] # NoRecord
    PROVE  ToldType' /\ ToldFinal' /\ AnsweredIsDurable'
  <1>1. /\ index[op] = Latest(disk', op) /\ index[op].op = op
        /\ index[op] \in Record /\ Grows
    BY IndexIsLatest, SameJournal DEF IInv, Types, journalVars
  <1>2. Existing(index[op], in) # NoRecord =>
           Existing(index[op], in) = index[op] /\ index[op].input = in
    BY DEF Existing
  <1> QED BY <1>1, <1>2, Telling DEF IInv, History

LEMMA CancelBeforeStartInv ==
    ASSUME IInv, NEW s \in Sessions, NEW op \in Ops, NEW in \in Inputs,
           CancelBeforeStart(s, op, in)
    PROVE  IInv'
  <1>1. HandlerType' /\ HandlersBound'
    BY HandlerMoves DEF CancelBeforeStart, schedulerVars
  <1>2. ToldType' /\ ToldFinal' /\ AnsweredIsDurable'
    BY TellExisting, SameTold DEF CancelBeforeStart
  <1> QED BY <1>1, <1>2, HandlerStepInv DEF CancelBeforeStart

LEMMA ExecuteInv ==
    ASSUME IInv, NEW s \in Sessions, NEW op \in Ops, NEW in \in Inputs,
           Execute(s, op, in)
    PROVE  IInv'
  <1>1. HandlerType' /\ HandlersBound'
    BY HandlerMoves DEF Execute, schedulerVars
  <1>2. ToldType' /\ ToldFinal' /\ AnsweredIsDurable'
    BY TellExisting, SameTold DEF Execute
  <1> QED BY <1>1, <1>2, HandlerStepInv DEF Execute

LEMMA CompileInv ==
    ASSUME IInv, NEW s \in Sessions, Compile(s) PROVE IInv'
  <1>1. HandlerType' /\ HandlersBound'
    <2>1. CASE Answered(s)
      BY <2>1, HandlerMoves DEF Compile, schedulerVars
    <2>2. CASE handler' = [handler EXCEPT ![s].pc = "compiled"]
      BY <2>2 DEF Compile, schedulerVars, IInv, Types, HandlerType, HandlerState,
                  HandlerPcs, Bindings, HandlersBound, Bound
    <2> QED BY <2>1, <2>2 DEF Compile
  <1>2. ToldType' /\ ToldFinal' /\ AnsweredIsDurable'
    BY SameTold DEF Compile
  <1> QED BY <1>1, <1>2, HandlerStepInv DEF Compile

LEMMA AnswerExecuteInv ==
    ASSUME IInv, NEW s \in Sessions, AnswerExecute(s) PROVE IInv'
  <1>1. HandlerType' /\ HandlersBound'
    BY HandlerMoves DEF AnswerExecute, schedulerVars
  <1> DEFINE i == handler[s].item
             in == handler[s].input
  <1>2. /\ i \in ItemIds /\ items[i].input = in /\ in \in Inputs
        /\ done[i] \in Record \union {NoRecord, Unsettled}
        /\ Settled(i)
    BY DEF AnswerExecute, IInv, Bindings, HandlersBound, Bound, Types, SchedulerType,
           History, ItemsSettled
  <1>3. ASSUME UNCHANGED told
        PROVE  ToldType' /\ ToldFinal' /\ AnsweredIsDurable'
    BY <1>3, SameTold DEF AnswerExecute
  <1>4. ASSUME done[i] # Unsettled, Tell(in, done[i])
        PROVE  ToldType' /\ ToldFinal' /\ AnsweredIsDurable'
    <2>1. done[i] # NoRecord =>
             done[i] \in Record /\ done[i].input = in /\ Latest(disk', done[i].op) = done[i]
      BY <1>2, <1>4 DEF Settled, AnswerExecute, journalVars
    <2>2. Grows
      BY SameJournal DEF AnswerExecute, IInv, Types
    <2> QED BY <1>2, <1>4, <2>1, <2>2, Telling DEF IInv, History
  <1> QED BY <1>1, <1>3, <1>4, HandlerStepInv DEF AnswerExecute

-----------------------------------------------------------------------------
(* Appends *)

LEMMA OutcomeType == ASSUME NEW how \in AppendOutcome PROVE how \in AppendOutcomes
  BY DEF AppendOutcome, AppendOutcomes

\* AppendTerminal, confirmed or not, keeps the journal's invariant; confirmed, its
\* record is the last word on its id.
LEMMA AppendTerminalGrows ==
    ASSUME Types, NEW op \in Ops, NEW in \in Inputs, NEW st \in TerminalStates,
           NEW how \in AppendOutcome, AppendTerminal(op, in, st, how)
    PROVE  /\ JournalInv' /\ Grows
           /\ Rec(op, in, st) \in Record /\ IsTerminal(Rec(op, in, st))
           /\ Rec(op, in, st).op = op /\ Rec(op, in, st).input = in
           /\ how = "ok" => Latest(disk', op) = Rec(op, in, st)
           /\ \A o : o # op => Latest(disk', o) = Latest(disk, o)
           /\ st \in NotStartedStates => Latest(disk, op) = NoRecord
  <1> DEFINE r == Rec(op, in, st)
  <1>1. how \in AppendOutcomes /\ JournalInv /\ disk \in Seq(Record)
    BY OutcomeType DEF Types, JournalInv, JournalType
  <1>2. r \in Record /\ ValidTransition(Latest(disk, op), r)
    BY <1>1, AppendTerminalValid
  <1>3. r.op = op /\ r.input = in /\ r.state = st
    BY DEF Rec
  <1>4. IsTerminal(r)
    BY <1>2, <1>3, NoRecordAssumption DEF IsTerminal
  <1>5. Persist(r, how)
    BY DEF AppendTerminal
  <1> HIDE DEF r
  <1>6. JournalInv'
    BY <1>1, AppendTerminalInv
  <1>7. Grows
    BY <1>1, <1>2, <1>3, <1>5, PersistGrows
  <1>8. /\ how = "ok" => Latest(disk', op) = r
        /\ \A o : o # op => Latest(disk', o) = Latest(disk, o)
    BY <1>1, <1>2, <1>3, <1>5, LatestAfterPersist
  <1>9. st \in NotStartedStates => Latest(disk, op) = NoRecord
    BY <1>2, <1>3 DEF ValidTransition, StartedStates, NotStartedStates
  <1> QED BY <1>2, <1>3, <1>4, <1>6, <1>7, <1>8, <1>9 DEF r

\* The prior terminal record of the same input is what the file says.
LEMMA PriorIsLatest ==
    ASSUME Types, NEW op \in Ops, NEW in \in Inputs, NEW st,
           TerminalVerdict(op, in, st) = "prior"
    PROVE  /\ index[op] = Latest(disk, op)
           /\ index[op] \in Record /\ index[op].op = op /\ index[op].input = in
           /\ IsTerminal(index[op])
  <1>1. healthy
    BY DEF TerminalVerdict
  <1>2. index[op] # NoRecord
    BY <1>1 DEF TerminalVerdict, IsTerminal
  <1>3. index[op].input = in
    BY <1>1, <1>2 DEF TerminalVerdict
  <1>4. IsTerminal(index[op])
    BY <1>1, <1>2, <1>3 DEF TerminalVerdict
  <1> QED BY <1>1, <1>2, <1>3, <1>4, IndexIsLatest

\* Settling a work item keeps the journal and answers the item from it.
LEMMA SettleKeeps ==
    ASSUME IInv, NEW i, Bound(i), NEW st \in TerminalStates, Settle(i, st),
           UNCHANGED items
    PROVE  /\ JournalInv' /\ Grows
           /\ done' \in [ItemIds -> Record \union {NoRecord, Unsettled}]
           /\ ItemsSettled'
  <1> DEFINE op == items[i].op
             in == items[i].input
  <1>1. i \in ItemIds /\ items[i] \in Binding /\ op \in Ops /\ in \in Inputs
    BY DEF Bound, Binding
  <1> DEFINE Answer(r) ==
                /\ JournalInv' /\ Grows
                /\ done' = [done EXCEPT ![i] = r]
                /\ r # NoRecord => /\ IsTerminal(r) /\ r.op = op /\ r.input = in
                                   /\ Latest(disk', r.op) = r
  <1>2. \E r \in Record \union {NoRecord} : Answer(r)
    <2>1. ASSUME NEW how \in AppendOutcome, AppendTerminal(op, in, st, how),
                 done' = [done EXCEPT ![i] = IF how = "ok" THEN Rec(op, in, st)
                                                           ELSE NoRecord]
          PROVE  \E r \in Record \union {NoRecord} : Answer(r)
      <3>1. /\ JournalInv' /\ Grows
            /\ Rec(op, in, st) \in Record /\ IsTerminal(Rec(op, in, st))
            /\ Rec(op, in, st).op = op /\ Rec(op, in, st).input = in
            /\ how = "ok" => Latest(disk', op) = Rec(op, in, st)
        BY <1>1, <2>1, AppendTerminalGrows DEF IInv
      <3>2. CASE how = "ok"
        <4>1. Answer(Rec(op, in, st))
          BY <2>1, <3>1, <3>2
        <4> QED BY <3>1, <4>1
      <3>3. CASE how # "ok"
        <4>1. Answer(NoRecord)
          BY <2>1, <3>1, <3>3
        <4> QED BY <4>1
      <3> QED BY <3>2, <3>3
    <2>2. ASSUME TerminalVerdict(op, in, st) = "prior",
                 done' = [done EXCEPT ![i] = index[op]], UNCHANGED journalVars
          PROVE  \E r \in Record \union {NoRecord} : Answer(r)
      <3>1. /\ index[op] = Latest(disk, op)
            /\ index[op] \in Record /\ index[op].op = op /\ index[op].input = in
            /\ IsTerminal(index[op])
        BY <1>1, <2>2, PriorIsLatest DEF IInv
      <3>2. Answer(index[op])
        BY <2>2, <3>1, SameJournal DEF IInv, Types, journalVars
      <3> QED BY <3>1, <3>2
    <2>3. ASSUME done' = [done EXCEPT ![i] = NoRecord], UNCHANGED journalVars
          PROVE  \E r \in Record \union {NoRecord} : Answer(r)
      <3>1. Answer(NoRecord)
        BY <2>3, SameJournal DEF IInv, Types
      <3> QED BY <3>1
    <2> QED BY <2>1, <2>2, <2>3 DEF Settle
  <1>3. PICK r \in Record \union {NoRecord} : Answer(r)
    BY <1>2
  <1>4. done \in [ItemIds -> Record \union {NoRecord, Unsettled}]
    BY DEF IInv, Types, SchedulerType
  <1>5. done' \in [ItemIds -> Record \union {NoRecord, Unsettled}]
    BY <1>3, <1>4
  <1>6. ASSUME NEW j \in ItemIds PROVE Settled(j)'
    <2>1. CASE j = i
      BY <1>1, <1>3, <1>4, <2>1, NoRecordAssumption DEF Settled
    <2>2. CASE j # i
      <3>1. Settled(j) /\ done'[j] = done[j]
        BY <1>3, <1>4, <2>2 DEF IInv, History, ItemsSettled
      <3> QED BY <1>3, <3>1, SettledKept DEF IInv
    <2> QED BY <2>1, <2>2
  <1> QED BY <1>3, <1>5, <1>6 DEF ItemsSettled

-----------------------------------------------------------------------------
(* The scheduler *)

\* Draining moves no handler and nothing of the engine.
LEMMA DrainOneInv ==
    ASSUME IInv, DrainOne PROVE IInv'
  <1> DEFINE i == Head(queue)
             st == IF gate = "rejecting" THEN "rejected_before_start"
                                         ELSE "cancelled_before_start"
  <1>1. /\ queue \in Seq(ItemIds) /\ queue # << >>
        /\ gate \in {"rejecting", "cancelling"}
        /\ UNCHANGED <<appVars, handler, gate, disposed, raised, items, engineVars, told>>
        /\ queue' = Tail(queue)
    BY DEF DrainOne, IInv, Types, SchedulerType
  <1>2. Bound(i)
    <2>1. 1 \in DOMAIN queue /\ i = queue[1]
      BY <1>1
    <2> QED BY <2>1 DEF IInv, Bindings, QueueBound
  <1>3. st \in TerminalStates /\ Settle(i, st)
    BY DEF DrainOne, TerminalStates, NotStartedStates
  <1>4. /\ JournalInv' /\ Grows
        /\ done' \in [ItemIds -> Record \union {NoRecord, Unsettled}]
        /\ ItemsSettled'
    BY <1>1, <1>2, <1>3, SettleKeeps
  <1>5. AppType' /\ HandlerType' /\ EngineType'
    BY <1>1 DEF IInv, Types, AppType, HandlerType, EngineType, appVars, engineVars
  <1>6. ToldType' /\ ToldFinal' /\ AnsweredIsDurable'
    BY <1>1, <1>4, ToldKept DEF IInv, Types, History
  <1>7. queue' \in Seq(ItemIds) /\ \A k \in DOMAIN queue' : k + 1 \in DOMAIN queue /\ queue'[k] = queue[k + 1]
    BY <1>1
  <1>8. SchedulerType'
    BY <1>1, <1>4, <1>7 DEF IInv, Types, SchedulerType
  <1>9. Bindings'
    BY <1>1, <1>7 DEF IInv, Bindings, HandlersBound, QueueBound, RunBound, Bound, engineVars
  <1>10. InvokedClaimed'
    BY <1>1, <1>4, InvokedKept DEF IInv, History, engineVars
  <1>11. AboutToRun'
    BY <1>1 DEF IInv, Bindings, RunBound, AboutToRun, engineVars
  <1>12. Lifecycle' /\ NoLostWakeup' /\ AssembliesLeft'
    BY <1>1 DEF IInv, Lifecycle, NoLostWakeup, AssembliesLeft, appVars, engineVars
  <1> QED BY <1>4, <1>5, <1>6, <1>8, <1>9, <1>10, <1>11, <1>12 DEF IInv, Types, History

LEMMA DrainEndInv ==
    ASSUME IInv, DrainEnd PROVE IInv'
  <1>1. JournalInv' /\ AppType' /\ HandlerType' /\ EngineType' /\ ToldType'
    BY SameJournal DEF DrainEnd, IInv, Types, AppType, HandlerType, EngineType, ToldType,
                       appVars, engineVars
  <1>2. SchedulerType'
    BY DEF DrainEnd, IInv, Types, SchedulerType
  <1>3. Bindings'
    BY DEF DrainEnd, IInv, Bindings, HandlersBound, QueueBound, RunBound, Bound, engineVars
  <1>4. History'
    BY SameHistory DEF DrainEnd, IInv, engineVars, journalVars
  <1>5. Lifecycle' /\ NoLostWakeup' /\ AssembliesLeft'
    BY DEF DrainEnd, IInv, Lifecycle, NoLostWakeup, AssembliesLeft, appVars, engineVars
  <1> QED BY <1>1, <1>2, <1>3, <1>4, <1>5 DEF IInv, Types

LEMMA EnqueueInv ==
    ASSUME IInv, NEW s \in Sessions, Enqueue(s) PROVE IInv'
  <1>1. ASSUME disposed, Answered(s), UNCHANGED schedulerVars PROVE IInv'
    <2>1. HandlerType' /\ HandlersBound'
      BY <1>1, HandlerMoves DEF schedulerVars
    <2>2. ToldType' /\ ToldFinal' /\ AnsweredIsDurable'
      BY SameTold DEF Enqueue
    <2> QED BY <1>1, <2>1, <2>2, HandlerStepInv DEF Enqueue
  <1>2. ASSUME NEW i \in ItemIds, ~disposed, items[i] = NoItem,
               items' = [items EXCEPT ![i] =
                     [session |-> s, op |-> handler[s].op, input |-> handler[s].input]],
               done' = [done EXCEPT ![i] = Unsettled],
               queue' = Append(queue, i),
               Become(s, "waiting", handler[s].op, handler[s].input, i),
               RaiseOrReject, UNCHANGED disposed
        PROVE  IInv'
    <2> DEFINE b == [session |-> s, op |-> handler[s].op, input |-> handler[s].input]
    <2>1. /\ handler[s].pc = "compiled" /\ gate = "free"
          /\ UNCHANGED <<journalVars, appVars, engineVars, told>>
      BY DEF Enqueue
    <2>2. handler[s].op \in Ops /\ handler[s].input \in Inputs /\ b \in Binding
      BY <2>1 DEF IInv, Bindings, HandlersBound, Binding
    <2>3. JournalInv' /\ AppType' /\ EngineType' /\ ToldType'
      BY <2>1, SameJournal DEF IInv, Types, AppType, EngineType, ToldType, appVars, engineVars
    <2>4. /\ items \in [ItemIds -> Binding \union {NoItem}]
          /\ done \in [ItemIds -> Record \union {NoRecord, Unsettled}]
          /\ queue \in Seq(ItemIds)
      BY DEF IInv, Types, SchedulerType
    <2>5. /\ items' \in [ItemIds -> Binding \union {NoItem}]
          /\ items'[i] = b
          /\ \A j \in ItemIds : j # i => items'[j] = items[j]
      BY <1>2, <2>2, <2>4
    <2>6. /\ done' \in [ItemIds -> Record \union {NoRecord, Unsettled}]
          /\ done'[i] = Unsettled
          /\ \A j \in ItemIds : j # i => done'[j] = done[j]
      BY <1>2, <2>4
    <2>7. queue' \in Seq(ItemIds)
      BY <1>2, <2>4
    <2>8. SchedulerType'
      BY <1>2, <2>5, <2>6, <2>7 DEF IInv, Types, SchedulerType, RaiseOrReject
    <2>9. ASSUME NEW j, Bound(j) PROVE Bound(j)' /\ items'[j] = items[j]
      <3>1. CASE j = i
        BY <1>2, <2>9, <3>1, ItemAssumption DEF Bound
      <3>2. CASE j # i
        BY <2>5, <2>9, <3>2 DEF Bound
      <3> QED BY <3>1, <3>2
    <2>10. QueueBound'
      <3>1. ASSUME NEW k \in DOMAIN queue' PROVE queue'[k] = i \/ \E n \in DOMAIN queue : queue'[k] = queue[n]
        BY <1>2, <2>4
      <3> QED BY <2>2, <2>5, <2>9, <3>1 DEF IInv, Bindings, QueueBound, Bound
    <2>11. RunBound'
      BY <1>2, <2>1, <2>9 DEF IInv, Bindings, RunBound, RaiseOrReject, engineVars
    <2>12. [pc |-> "waiting", op |-> handler[s].op, input |-> handler[s].input, item |-> i]
              \in HandlerState
      BY <2>2 DEF HandlerState, HandlerPcs
    <2>13. HandlerType'
      BY <1>2, <2>12 DEF IInv, Types, HandlerType, Become
    <2>14. HandlersBound'
      <3> SUFFICES ASSUME NEW t \in Sessions
                   PROVE  (/\ handler[t].pc # "idle" =>
                                 handler[t].op \in Ops /\ handler[t].input \in Inputs
                           /\ handler[t].pc = "waiting" =>
                                 /\ Bound(handler[t].item)
                                 /\ items[handler[t].item].op = handler[t].op
                                 /\ items[handler[t].item].input = handler[t].input)'
        BY DEF HandlersBound
      <3>1. CASE t = s
        BY <1>2, <2>2, <2>5, <3>1 DEF IInv, Types, HandlerType, Become, Bound
      <3>2. CASE t # s
        <4>1. handler'[t] = handler[t]
          BY <1>2, <3>2 DEF IInv, Types, HandlerType, Become
        <4> QED BY <2>9, <4>1 DEF IInv, Bindings, HandlersBound, Bound
      <3> QED BY <3>1, <3>2
    <2>15. InvokedClaimed' /\ ToldFinal' /\ AnsweredIsDurable'
      BY <2>1 DEF IInv, History, InvokedClaimed, ToldFinal, AnsweredIsDurable, engineVars,
                  journalVars
    <2>16. AboutToRun'
      BY <2>1, <2>9 DEF IInv, Bindings, RunBound, History, AboutToRun, Op, Input, engineVars,
                        journalVars
    <2>17. ItemsSettled'
      <3> SUFFICES ASSUME NEW j \in ItemIds PROVE Settled(j)'
        BY DEF ItemsSettled
      <3>1. CASE j = i
        BY <2>6, <3>1, UnsettledAssumption DEF Settled
      <3>2. CASE j # i
        BY <2>1, <2>5, <2>6, <3>2 DEF IInv, History, ItemsSettled, Settled, journalVars
      <3> QED BY <3>1, <3>2
    <2>18. Lifecycle' /\ NoLostWakeup' /\ AssembliesLeft'
      BY <1>2, <2>1 DEF IInv, Lifecycle, NoLostWakeup, AssembliesLeft, RaiseOrReject, appVars,
                        engineVars
    <2> QED BY <2>3, <2>8, <2>10, <2>11, <2>13, <2>14, <2>15, <2>16, <2>17, <2>18
            DEF IInv, Types, Bindings, History
  <1> QED BY <1>1, <1>2 DEF Enqueue

LEMMA WakeInv ==
    ASSUME IInv, Wake PROVE IInv'
  <1>1. JournalInv' /\ AppType' /\ HandlerType' /\ ToldType'
    BY SameJournal DEF Wake, IInv, Types, AppType, HandlerType, ToldType, appVars
  <1>2. InvokedClaimed' /\ ItemsSettled' /\ ToldFinal' /\ AnsweredIsDurable'
    BY DEF Wake, IInv, History, InvokedClaimed, ItemsSettled, Settled, ToldFinal,
           AnsweredIsDurable, journalVars
  <1>3. CASE queue = << >> /\ UNCHANGED <<gate, queue, run>>
    <2>1. SchedulerType' /\ EngineType'
      BY <1>3 DEF Wake, IInv, Types, SchedulerType, EngineType
    <2>2. Bindings' /\ AboutToRun'
      BY <1>3 DEF Wake, IInv, Bindings, HandlersBound, QueueBound, RunBound, Bound, History,
                  AboutToRun, Op, Input, journalVars
    <2>3. Lifecycle' /\ NoLostWakeup' /\ AssembliesLeft'
      BY <1>3 DEF Wake, IInv, Lifecycle, NoLostWakeup, AssembliesLeft, appVars
    <2> QED BY <1>1, <1>2, <2>1, <2>2, <2>3 DEF IInv, Types, History
  <1>4. CASE /\ queue # << >>
             /\ gate' = "executing"
             /\ run' = [pc |-> "lookup", item |-> Head(queue), state |-> "started"]
             /\ queue' = Tail(queue)
    <2>1. queue \in Seq(ItemIds) /\ Head(queue) = queue[1] /\ 1 \in DOMAIN queue
      BY <1>4 DEF IInv, Types, SchedulerType
    <2>2. Bound(Head(queue))
      BY <2>1 DEF IInv, Bindings, QueueBound
    <2>3. /\ queue' \in Seq(ItemIds)
          /\ \A k \in DOMAIN queue' : k + 1 \in DOMAIN queue /\ queue'[k] = queue[k + 1]
      BY <1>4, <2>1
    <2>4. SchedulerType'
      BY <1>4, <2>3 DEF Wake, IInv, Types, SchedulerType
    <2>5. EngineType'
      BY <1>4, <2>2 DEF Wake, IInv, Types, EngineType, RunState, RunPcs, Bound
    <2>6. HandlersBound' /\ QueueBound'
      BY <2>3 DEF Wake, IInv, Bindings, HandlersBound, QueueBound, Bound
    <2>7. RunBound' /\ AboutToRun'
      BY <1>4, <2>2 DEF Wake, RunBound, Bound, AboutToRun
    <2>8. Lifecycle' /\ NoLostWakeup' /\ AssembliesLeft'
      BY <1>4 DEF Wake, IInv, Lifecycle, NoLostWakeup, AssembliesLeft, appVars
    <2> QED BY <1>1, <1>2, <2>4, <2>5, <2>6, <2>7, <2>8 DEF IInv, Types, Bindings, History
  <1> QED BY <1>3, <1>4 DEF Wake

-----------------------------------------------------------------------------
(* The engine *)

\* The end of an execution: the gate is free, or kept to reject a queue that got
\* no wake-up.
LEMMA EndRunKeeps ==
    ASSUME IInv, EndRun, gate = "executing",
           UNCHANGED <<appVars, handler, disposed, queue, items, assemblies>>
    PROVE  /\ gate' \in {"free", "rejecting"} /\ raised' \in BOOLEAN
           /\ run' \in RunState
           /\ Bindings' /\ AboutToRun' /\ Lifecycle' /\ NoLostWakeup' /\ AssembliesLeft'
  <1>1. gate' \in {"free", "rejecting"} /\ raised' \in BOOLEAN /\ run' = NotRunning
    BY DEF EndRun, RaiseOrReject, IInv, Types, SchedulerType
  <1>2. run' \in RunState
    BY <1>1 DEF NotRunning, RunState, RunPcs
  <1>3. Bindings'
    BY <1>1 DEF IInv, Bindings, HandlersBound, QueueBound, RunBound, Bound, NotRunning
  <1>4. AboutToRun' /\ AssembliesLeft'
    BY <1>1 DEF IInv, AboutToRun, AssembliesLeft, NotRunning
  <1>5. Lifecycle'
    BY <1>1 DEF IInv, Lifecycle, appVars
  <1>6. NoLostWakeup'
    BY DEF EndRun, RaiseOrReject, NoLostWakeup
  <1> QED BY <1>1, <1>2, <1>3, <1>4, <1>5, <1>6

\* Persisting and returning from a step that ends the execution.
LEMMA EndingStep ==
    ASSUME IInv, EndRun, gate = "executing",
           UNCHANGED <<appVars, handler, disposed, queue, items, assemblies, invoked, told>>,
           JournalInv', Grows, ItemsSettled',
           done' \in [ItemIds -> Record \union {NoRecord, Unsettled}]
    PROVE  IInv'
  <1>1. /\ gate' \in {"free", "rejecting"} /\ raised' \in BOOLEAN
        /\ run' \in RunState
        /\ Bindings' /\ AboutToRun' /\ Lifecycle' /\ NoLostWakeup' /\ AssembliesLeft'
    BY EndRunKeeps
  <1>2. AppType' /\ HandlerType'
    BY DEF IInv, Types, AppType, HandlerType, appVars
  <1>3. SchedulerType' /\ EngineType'
    BY <1>1 DEF IInv, Types, SchedulerType, EngineType
  <1>4. ToldType' /\ ToldFinal' /\ AnsweredIsDurable'
    BY ToldKept DEF IInv, Types, History
  <1>5. InvokedClaimed'
    BY InvokedKept DEF IInv, History
  <1> QED BY <1>1, <1>2, <1>3, <1>4, <1>5 DEF IInv, Types, History

\* The running item's binding is known.
LEMMA RunningBound ==
    ASSUME IInv, NEW pc \in RunPcs \ {"none"}, Running(pc)
    PROVE  /\ Bound(run.item) /\ items[run.item] \in Binding
           /\ Op \in Ops /\ Input \in Inputs
  <1>1. Bound(run.item)
    BY DEF Running, IInv, Bindings, RunBound
  <1> QED BY <1>1 DEF Bound, Op, Input, Binding

\* Execute answers from the record it found.
LEMMA ReturnExistingInv ==
    ASSUME IInv, Bound(run.item), items[run.item] \in Binding, healthy,
           index[Op] # NoRecord, ReturnExisting(Existing(index[Op], Input)),
           gate = "executing", Op \in Ops,
           UNCHANGED <<journalVars, appVars, handler, disposed, queue, items, assemblies,
                       invoked, told>>
    PROVE  IInv'
  <1> DEFINE i == run.item
             r == Existing(index[Op], Input)
  <1>1. /\ index[Op] = Latest(disk, Op) /\ index[Op] \in Record /\ index[Op].op = Op
        /\ JournalInv' /\ Grows
    BY IndexIsLatest, SameJournal DEF IInv, Types
  <1>2. /\ r \in Record \union {NoRecord}
        /\ r # NoRecord => IsTerminal(r) /\ r = index[Op] /\ r.input = Input
    BY <1>1 DEF Existing
  <1>3. /\ done \in [ItemIds -> Record \union {NoRecord, Unsettled}]
        /\ done' = [done EXCEPT ![i] = r] /\ i \in ItemIds /\ disk' = disk
    BY DEF IInv, Types, SchedulerType, ReturnExisting, Bound, journalVars
  <1> HIDE DEF r
  <1>4. done' \in [ItemIds -> Record \union {NoRecord, Unsettled}]
    BY <1>2, <1>3
  <1>5. ASSUME NEW j \in ItemIds PROVE Settled(j)'
    <2>1. CASE j = i
      BY <1>1, <1>2, <1>3, <2>1, NoRecordAssumption DEF Settled, Op, Input
    <2>2. CASE j # i
      BY <1>3, <2>2 DEF IInv, History, ItemsSettled, Settled
    <2> QED BY <2>1, <2>2
  <1>6. ItemsSettled'
    BY <1>5 DEF ItemsSettled
  <1> QED BY <1>1, <1>4, <1>6, EndingStep DEF ReturnExisting

\* A step inside the execution of one item.
LEMMA InnerStep ==
    ASSUME IInv, gate = "executing",
           UNCHANGED <<appVars, handler, schedulerVars, told>>,
           JournalInv', Grows, EngineType', InvokedClaimed', AboutToRun', AssembliesLeft',
           run'.item = run.item, run'.pc # "none",
           run'.pc = "persist" => run'.state \in TerminalStates
    PROVE  IInv'
  <1>1. AppType' /\ HandlerType' /\ SchedulerType'
    BY DEF IInv, Types, AppType, HandlerType, SchedulerType, appVars, schedulerVars
  <1>2. ToldType' /\ ToldFinal' /\ AnsweredIsDurable'
    BY ToldKept DEF IInv, Types, History
  <1>3. Bindings'
    BY DEF IInv, Bindings, HandlersBound, QueueBound, RunBound, Bound, schedulerVars
  <1>4. ASSUME NEW j \in ItemIds PROVE Settled(j)'
    BY SettledKept DEF IInv, History, ItemsSettled, schedulerVars
  <1>5. ItemsSettled'
    BY <1>4 DEF ItemsSettled
  <1>6. Lifecycle' /\ NoLostWakeup'
    BY DEF IInv, Lifecycle, NoLostWakeup, appVars, schedulerVars
  <1> QED BY <1>1, <1>2, <1>3, <1>5, <1>6 DEF IInv, Types, History

LEMMA ToPersistType ==
    ASSUME IInv, NEW st \in TerminalStates, ToPersist(st)
    PROVE  /\ run' \in RunState /\ run'.item = run.item /\ run'.pc = "persist"
           /\ run'.state = st
  BY DEF ToPersist, IInv, Types, EngineType, RunState, RunPcs

\* On the way to the persist step nothing but the journal may have moved.
LEMMA PersistStep ==
    ASSUME IInv, gate = "executing", NEW st \in TerminalStates, ToPersist(st),
           UNCHANGED <<appVars, handler, schedulerVars, assemblies, invoked, told>>,
           JournalInv', Grows
    PROVE  IInv'
  <1>1. /\ run' \in RunState /\ run'.item = run.item /\ run'.pc = "persist"
        /\ run'.state = st
    BY ToPersistType
  <1>2. EngineType' /\ AboutToRun' /\ AssembliesLeft'
    BY <1>1 DEF IInv, Types, EngineType, AboutToRun, AssembliesLeft
  <1>3. InvokedClaimed'
    BY InvokedKept DEF IInv, History
  <1> QED BY <1>1, <1>2, <1>3, InnerStep

LEMMA StatesTerminal ==
    /\ FailedUnknown \in TerminalStates
    /\ {"cancelled_before_start", "rejected_before_start", "context_changed_before_start",
        "invocation_completed", "foreign_document_changed", "failed_after_observed_change",
        "failed_after_start_unknown"} \subseteq TerminalStates
  BY DEF FailedUnknown, TerminalStates, StartedStates, NotStartedStates

LEMMA EngineLookupInv ==
    ASSUME IInv, EngineLookup PROVE IInv'
  <1>1. /\ gate = "executing" /\ run.pc = "lookup"
        /\ UNCHANGED <<journalVars, appVars, handler, disposed, queue, items, assemblies,
                       invoked, told>>
    BY DEF EngineLookup, Running
  <1>2. JournalInv' /\ Grows
    BY <1>1, SameJournal DEF IInv, Types
  <1>3. ASSUME NEW st \in TerminalStates, ToPersist(st), UNCHANGED <<gate, raised, done>>
        PROVE  IInv'
    BY <1>1, <1>2, <1>3, PersistStep DEF schedulerVars
  <1>4. CASE healthy /\ index[Op] # NoRecord /\ ReturnExisting(Existing(index[Op], Input))
    <2>1. Bound(run.item) /\ items[run.item] \in Binding /\ Op \in Ops
      BY RunningBound DEF EngineLookup, RunPcs
    <2> QED BY <1>1, <1>4, <2>1, ReturnExistingInv
  <1>5. CASE run' = [run EXCEPT !.pc = "context"] /\ UNCHANGED <<gate, raised, done>>
    <2>1. run' \in RunState /\ run'.item = run.item /\ run'.pc = "context"
      BY <1>5 DEF IInv, Types, EngineType, RunState, RunPcs
    <2>2. EngineType' /\ InvokedClaimed' /\ AboutToRun' /\ AssembliesLeft'
      BY <1>1, <1>2, <2>1, InvokedKept
      DEF IInv, Types, EngineType, History, AboutToRun, AssembliesLeft
    <2> QED BY <1>1, <1>2, <1>5, <2>1, <2>2, InnerStep DEF schedulerVars
  <1> QED BY <1>3, <1>4, <1>5, StatesTerminal DEF EngineLookup

LEMMA EngineContextInv ==
    ASSUME IInv, EngineContext PROVE IInv'
  <1>1. /\ gate = "executing" /\ run.pc = "context"
        /\ UNCHANGED <<journalVars, appVars, handler, schedulerVars, assemblies, invoked, told>>
    BY DEF EngineContext, Running
  <1>2. JournalInv' /\ Grows
    BY <1>1, SameJournal DEF IInv, Types
  <1>3. ASSUME NEW st \in TerminalStates, ToPersist(st) PROVE IInv'
    BY <1>1, <1>2, <1>3, PersistStep
  <1>4. CASE assemblies < LegacyAssemblyLimit /\ run' = [run EXCEPT !.pc = "start"]
    <2>1. run' \in RunState /\ run'.item = run.item /\ run'.pc = "start"
      BY <1>4 DEF IInv, Types, EngineType, RunState, RunPcs
    <2>2. EngineType' /\ InvokedClaimed' /\ AboutToRun' /\ AssembliesLeft'
      BY <1>1, <1>2, <1>4, <2>1, InvokedKept
      DEF IInv, Types, EngineType, History, AboutToRun, AssembliesLeft
    <2> QED BY <1>1, <1>2, <2>1, <2>2, InnerStep
  <1> QED BY <1>3, <1>4, StatesTerminal DEF EngineContext

\* The claim, confirmed, is the file's last word, and nothing ran before it.
LEMMA ClaimKeeps ==
    ASSUME Types, InvokedClaimed, NEW op \in Ops, NEW in \in Inputs,
           NEW how \in AppendOutcome, TryStart(op, in, how)
    PROVE  /\ JournalInv' /\ Grows
           /\ \A other \in Inputs : invoked[op][other] = 0
           /\ how = "ok" =>
                 /\ Latest(disk', op) = Rec(op, in, "started")
                 /\ \E k \in DOMAIN disk' : disk'[k] = Rec(op, in, "started")
  <1> DEFINE r == Rec(op, in, "started")
  <1>1. how \in AppendOutcomes /\ JournalInv /\ disk \in Seq(Record)
    BY OutcomeType DEF Types, JournalInv, JournalType
  <1>2. r \in Record /\ Latest(disk, op) = NoRecord /\ ValidTransition(Latest(disk, op), r)
    BY <1>1, TryStartValid
  <1>3. r.op = op /\ Persist(r, how)
    BY DEF Rec, TryStart
  <1> HIDE DEF r
  <1>4. JournalInv' /\ Grows
    BY <1>1, <1>2, <1>3, TryStartInv, PersistGrows
  <1>5. \A other \in Inputs : invoked[op][other] = 0
    BY <1>2 DEF InvokedClaimed, Types, EngineType
  <1>6. ASSUME how = "ok"
        PROVE  /\ Latest(disk', op) = r
               /\ \E k \in DOMAIN disk' : disk'[k] = r
    <2>1. disk' = Append(disk, r)
      BY <1>3, <1>6 DEF Persist
    <2>2. Len(disk) + 1 \in DOMAIN disk' /\ disk'[Len(disk) + 1] = r
      BY <1>1, <1>2, <2>1, AppendProperties, LenProperties
    <2>3. Latest(disk', op) = r
      BY <1>1, <1>2, <1>3, <2>1, LatestAppend
    <2> QED BY <2>2, <2>3
  <1> QED BY <1>4, <1>5, <1>6 DEF r

LEMMA EngineStartInv ==
    ASSUME IInv, EngineStart PROVE IInv'
  <1>1. /\ gate = "executing" /\ run.pc = "start"
        /\ UNCHANGED <<appVars, handler, disposed, queue, items, assemblies, invoked, told>>
        /\ Bound(run.item) /\ items[run.item] \in Binding /\ Op \in Ops /\ Input \in Inputs
    BY RunningBound DEF EngineStart, Running, RunPcs
  <1>2. ASSUME NEW st \in TerminalStates, ToPersist(st), JournalInv', Grows,
               UNCHANGED <<gate, raised, done>>
        PROVE  IInv'
    BY <1>1, <1>2, PersistStep DEF schedulerVars
  <1>3. ASSUME NEW st \in TerminalStates, ToPersist(st), UNCHANGED journalVars,
               UNCHANGED <<gate, raised, done>>
        PROVE  IInv'
    BY <1>2, <1>3, SameJournal DEF IInv, Types
  <1>4. CASE /\ healthy /\ index[Op] # NoRecord /\ UNCHANGED journalVars
             /\ ReturnExisting(Existing(index[Op], Input))
    BY <1>1, <1>4, ReturnExistingInv
  <1>5. ASSUME NEW how \in AppendOutcome, TryStart(Op, Input, how),
               IF how = "ok" THEN run' = [run EXCEPT !.pc = "invoke"]
                             ELSE ToPersist(FailedUnknown),
               UNCHANGED <<gate, raised, done>>
        PROVE  IInv'
    <2>1. /\ JournalInv' /\ Grows
          /\ \A other \in Inputs : invoked[Op][other] = 0
          /\ how = "ok" =>
                /\ Latest(disk', Op) = Rec(Op, Input, "started")
                /\ \E k \in DOMAIN disk' : disk'[k] = Rec(Op, Input, "started")
      BY <1>1, <1>5, ClaimKeeps DEF IInv, History
    <2>2. CASE how # "ok"
      BY <1>2, <1>5, <2>1, <2>2, StatesTerminal
    <2>3. CASE how = "ok"
      <3>1. run' = [run EXCEPT !.pc = "invoke"]
        BY <1>5, <2>3
      <3>2. run' \in RunState /\ run'.item = run.item /\ run'.pc = "invoke"
        BY <3>1 DEF IInv, Types, EngineType, RunState, RunPcs
      <3>3. EngineType' /\ InvokedClaimed'
        BY <1>1, <2>1, <3>2, InvokedKept DEF IInv, Types, EngineType, History
      <3>4. Op' = Op /\ Input' = Input
        BY <1>1, <3>2 DEF Op, Input
      <3>5. AboutToRun'
        BY <1>1, <2>1, <2>3, <3>4 DEF AboutToRun
      <3>6. AssembliesLeft'
        BY <1>1, <3>2 DEF IInv, AssembliesLeft
      <3> QED BY <1>1, <1>5, <2>1, <3>2, <3>3, <3>5, <3>6, InnerStep DEF schedulerVars
    <2> QED BY <2>2, <2>3
  <1> QED BY <1>3, <1>4, <1>5, StatesTerminal DEF EngineStart

LEMMA EngineInvokeInv ==
    ASSUME IInv, EngineInvoke PROVE IInv'
  <1>1. /\ gate = "executing" /\ run.pc = "invoke"
        /\ UNCHANGED <<journalVars, appVars, handler, schedulerVars, told>>
        /\ assemblies' = assemblies + 1
        /\ Op \in Ops /\ Input \in Inputs
    BY RunningBound DEF EngineInvoke, Running, RunPcs
  <1>2. JournalInv' /\ Grows
    BY <1>1, SameJournal DEF IInv, Types
  <1>3. /\ Latest(disk, Op) = Rec(Op, Input, "started")
        /\ \E k \in DOMAIN disk : disk[k] = Rec(Op, Input, "started")
        /\ \A in \in Inputs : invoked[Op][in] = 0
    BY <1>1 DEF IInv, History, AboutToRun
  <1>4. assemblies' \in Nat /\ assemblies' <= LegacyAssemblyLimit
    BY <1>1, LimitAssumption DEF IInv, AssembliesLeft, Types, EngineType
  <1>5. ASSUME run' = [run EXCEPT !.pc = "invoking"],
               invoked' = [invoked EXCEPT ![Op][Input] = @ + 1]
        PROVE  IInv'
    <2>1. run' \in RunState /\ run'.item = run.item /\ run'.pc = "invoking"
      BY <1>5 DEF IInv, Types, EngineType, RunState, RunPcs
    <2>2. /\ invoked \in [Ops -> [Inputs -> Nat]]
          /\ invoked' = [invoked EXCEPT ![Op] = [invoked[Op] EXCEPT ![Input] = invoked[Op][Input] + 1]]
      BY <1>5 DEF IInv, Types, EngineType
    <2>3. [invoked[Op] EXCEPT ![Input] = invoked[Op][Input] + 1] \in [Inputs -> Nat]
      BY <1>1, <2>2
    <2>4. EngineType' /\ AboutToRun' /\ AssembliesLeft'
      BY <1>1, <1>4, <2>1, <2>2, <2>3 DEF EngineType, AboutToRun, AssembliesLeft
    <2>5. InvokedClaimed'
      <3> SUFFICES ASSUME NEW op \in Ops, NEW in \in Inputs
                   PROVE  /\ invoked'[op][in] <= 1
                          /\ invoked'[op][in] > 0 =>
                                /\ Latest(disk, op) # NoRecord
                                /\ Latest(disk, op).input = in
                                /\ Latest(disk, op).state \notin NotStartedStates
                                /\ \E k \in DOMAIN disk : disk[k] = Rec(op, in, "started")
        BY <1>1 DEF InvokedClaimed, journalVars
      <3>1. CASE op = Op /\ in = Input
        <4>1. Rec(Op, Input, "started") \in Record
          BY <1>1 DEF Rec, Record
        <4>2. invoked'[op][in] = 1
          BY <1>1, <1>3, <2>2, <2>3, <3>1
        <4> QED BY <1>3, <3>1, <4>1, <4>2, NoRecordAssumption DEF Rec, NotStartedStates
      <3>2. CASE ~(op = Op /\ in = Input)
        <4>1. invoked'[op][in] = invoked[op][in]
          BY <1>1, <2>2, <2>3, <3>2
        <4> QED BY <4>1 DEF IInv, History, InvokedClaimed
      <3> QED BY <3>1, <3>2
    <2> QED BY <1>1, <1>2, <2>1, <2>4, <2>5, InnerStep
  <1>6. ASSUME ToPersist(FailedUnknown), UNCHANGED invoked PROVE IInv'
    <2>1. /\ run' \in RunState /\ run'.item = run.item /\ run'.pc = "persist"
          /\ run'.state \in TerminalStates
      BY <1>6, ToPersistType, StatesTerminal
    <2>2. EngineType' /\ AboutToRun' /\ AssembliesLeft' /\ InvokedClaimed'
      BY <1>2, <1>4, <1>6, <2>1, InvokedKept
      DEF IInv, Types, EngineType, History, AboutToRun, AssembliesLeft
    <2> QED BY <1>1, <1>2, <2>1, <2>2, InnerStep
  <1> QED BY <1>5, <1>6 DEF EngineInvoke

LEMMA EngineReturnInv ==
    ASSUME IInv, EngineReturn PROVE IInv'
  <1>1. JournalInv' /\ Grows
    BY SameJournal DEF EngineReturn, IInv, Types
  <1>2. PICK st \in TerminalStates : ToPersist(st)
    BY StatesTerminal DEF EngineReturn
  <1> QED BY <1>1, <1>2, PersistStep DEF EngineReturn, Running

LEMMA EnginePersistInv ==
    ASSUME IInv, EnginePersist PROVE IInv'
  <1>1. /\ gate = "executing" /\ run.pc = "persist" /\ EndRun /\ Settle(run.item, run.state)
        /\ UNCHANGED <<appVars, handler, disposed, queue, items, assemblies, invoked, told>>
    BY DEF EnginePersist, Running
  <1>2. Bound(run.item) /\ run.state \in TerminalStates
    BY <1>1 DEF IInv, Bindings, RunBound
  <1>3. /\ JournalInv' /\ Grows /\ ItemsSettled'
        /\ done' \in [ItemIds -> Record \union {NoRecord, Unsettled}]
    BY <1>1, <1>2, SettleKeeps
  <1> QED BY <1>1, <1>3, EndingStep

-----------------------------------------------------------------------------
(* Cancellation, the end of the process, recovery *)

\* A tombstone is only ever appended for an id without a record: it cannot touch
\* the claim of what is about to run.
LEMMA TryCancelBeforeStartInv ==
    ASSUME IInv, NEW s \in Sessions, TryCancelBeforeStart(s) PROVE IInv'
  <1> DEFINE op == handler[s].op
             in == handler[s].input
             st == "cancelled_before_start"
  <1>1. /\ op \in Ops /\ in \in Inputs
        /\ UNCHANGED <<appVars, schedulerVars, engineVars>> /\ Answered(s)
    BY DEF TryCancelBeforeStart, IInv, Bindings, HandlersBound
  <1>2. HandlerType' /\ HandlersBound'
    BY <1>1, HandlerMoves DEF schedulerVars
  <1>3. ASSUME NEW how \in AppendOutcome, AppendTerminal(op, in, st, how),
               Tell(in, IF how = "ok" THEN Rec(op, in, st) ELSE NoRecord)
        PROVE  IInv'
    <2>1. /\ JournalInv' /\ Grows
          /\ Rec(op, in, st) \in Record
          /\ Rec(op, in, st).op = op /\ Rec(op, in, st).input = in
          /\ how = "ok" => Latest(disk', op) = Rec(op, in, st)
          /\ \A o : o # op => Latest(disk', o) = Latest(disk, o)
          /\ Latest(disk, op) = NoRecord
      BY <1>1, <1>3, AppendTerminalGrows DEF IInv, TerminalStates, NotStartedStates
    <2>2. ToldType' /\ ToldFinal' /\ AnsweredIsDurable'
      BY <1>1, <1>3, <2>1, Telling DEF IInv, History
    <2>3. AppType' /\ SchedulerType' /\ EngineType'
      BY <1>1 DEF IInv, Types, AppType, SchedulerType, EngineType, appVars, schedulerVars,
                  engineVars
    <2>4. QueueBound' /\ RunBound'
      BY <1>1 DEF IInv, Bindings, QueueBound, RunBound, Bound, schedulerVars, engineVars
    <2>5. InvokedClaimed'
      BY <1>1, <2>1, InvokedKept DEF IInv, History, engineVars
    <2>6. ASSUME NEW j \in ItemIds PROVE Settled(j)'
      BY <1>1, <2>1, SettledKept DEF IInv, History, ItemsSettled, schedulerVars
    <2>7. AboutToRun'
      <3> SUFFICES ASSUME run.pc = "invoke" PROVE AboutToRun'
        BY <1>1 DEF AboutToRun, engineVars
      <3>1. Op' = Op /\ Input' = Input /\ UNCHANGED <<run, invoked>>
        BY <1>1 DEF Op, Input, schedulerVars, engineVars
      <3>2. /\ Latest(disk, Op) = Rec(Op, Input, "started")
            /\ \E k \in DOMAIN disk : disk[k] = Rec(Op, Input, "started")
            /\ \A other \in Inputs : invoked[Op][other] = 0
        BY DEF IInv, History, AboutToRun
      <3>3. Bound(run.item)
        BY DEF IInv, Bindings, RunBound
      <3>4. Op \in Ops /\ Input \in Inputs
        BY <3>3 DEF Bound, IInv, Types, SchedulerType, Op, Input, Binding
      <3>5. Rec(Op, Input, "started") # NoRecord
        BY <3>4, NoRecordAssumption DEF Rec, Record
      <3>6. Latest(disk', Op) = Rec(Op, Input, "started")
        BY <2>1, <3>2, <3>5
      <3>7. \E k \in DOMAIN disk' : disk'[k] = Rec(Op, Input, "started")
        BY <2>1, <3>2, GrowsKeepsRecords DEF IInv, Types, JournalInv, JournalType
      <3> QED BY <3>1, <3>2, <3>6, <3>7 DEF AboutToRun
    <2>8. Lifecycle' /\ NoLostWakeup' /\ AssembliesLeft'
      BY <1>1 DEF TryCancelBeforeStart, IInv, Lifecycle, NoLostWakeup, AssembliesLeft,
                  appVars, schedulerVars, engineVars
    <2>9. ItemsSettled'
      BY <2>6 DEF ItemsSettled
    <2> QED BY <1>2, <2>1, <2>2, <2>3, <2>4, <2>5, <2>7, <2>8, <2>9
            DEF IInv, Types, Bindings, History
  <1>4. ASSUME TerminalVerdict(op, in, st) = "prior", Tell(in, index[op]),
               UNCHANGED journalVars
        PROVE  IInv'
    <2>1. /\ index[op] = Latest(disk', op) /\ index[op].op = op
          /\ index[op] \in Record /\ index[op].input = in /\ Grows
      BY <1>1, <1>4, PriorIsLatest, SameJournal DEF IInv, Types, journalVars
    <2>2. ToldType' /\ ToldFinal' /\ AnsweredIsDurable'
      BY <1>1, <1>4, <2>1, Telling DEF IInv, History
    <2> QED BY <1>1, <1>2, <1>4, <2>2, HandlerStepInv
  <1>5. ASSUME UNCHANGED <<journalVars, told>> PROVE IInv'
    BY <1>1, <1>2, <1>5, SameTold, HandlerStepInv
  <1> QED BY <1>3, <1>4, <1>5 DEF TryCancelBeforeStart

LEMMA CrashInv ==
    ASSUME IInv, Crash PROVE IInv'
  <1>1. JournalInv'
    BY DEF Crash, IInv, Types, JournalInv, JournalType, EmptyIndex
  <1>2. Idle \in HandlerState /\ NotRunning \in RunState /\ << >> \in Seq(ItemIds)
    BY DEF Idle, HandlerState, HandlerPcs, NotRunning, RunState, RunPcs
  <1>3. AppType' /\ HandlerType' /\ EngineType' /\ ToldType'
    BY <1>2 DEF Crash, IInv, Types, AppType, HandlerType, EngineType, ToldType, Lives
  <1>4. SchedulerType'
    BY <1>2 DEF Crash, IInv, Types, SchedulerType
  <1>5. Bindings'
    BY DEF Crash, Bindings, HandlersBound, QueueBound, RunBound, Idle, NotRunning
  <1>6. History'
    BY DEF Crash, IInv, History, InvokedClaimed, AboutToRun, ItemsSettled, Settled, ToldFinal,
           AnsweredIsDurable, NotRunning
  <1>7. Lifecycle' /\ NoLostWakeup' /\ AssembliesLeft'
    BY DEF Crash, IInv, Lifecycle, NoLostWakeup, AssembliesLeft, NotRunning
  <1> QED BY <1>1, <1>3, <1>4, <1>5, <1>6, <1>7 DEF IInv, Types

LEMMA RecoverReceiptInv ==
    ASSUME IInv, NEW op \in Ops, RecoverReceipt(op) PROVE IInv'
  <1> DEFINE r == Latest(disk, op)
  <1>1. r \in Record /\ r.op = op /\ r.input \in Inputs /\ Latest(disk', op) = r
    BY LatestType DEF RecoverReceipt, IInv, Types, JournalInv, JournalType, Record, journalVars
  <1>2. Grows
    BY SameJournal DEF RecoverReceipt, IInv, Types
  <1>3. ToldType' /\ ToldFinal' /\ AnsweredIsDurable'
    BY <1>1, <1>2, Telling DEF RecoverReceipt, IInv, History
  <1>4. HandlerType' /\ HandlersBound'
    BY DEF RecoverReceipt, IInv, Types, HandlerType, Bindings, HandlersBound, Bound,
           schedulerVars
  <1> QED BY <1>3, <1>4, HandlerStepInv DEF RecoverReceipt

-----------------------------------------------------------------------------
(* The invariant *)

LEMMA HandlerStepsInv ==
    ASSUME IInv, NEW s \in Sessions, HandlerStep(s) PROVE IInv'
  BY TryCancelBeforeStartInv, CompileInv, EnqueueInv, AnswerExecuteInv DEF HandlerStep

LEMMA SchedulerStepInv == ASSUME IInv, SchedulerStep PROVE IInv'
  BY WakeInv, DrainOneInv, DrainEndInv DEF SchedulerStep

LEMMA EngineStepInv == ASSUME IInv, EngineStep PROVE IInv'
  BY EngineLookupInv, EngineContextInv, EngineStartInv, EngineInvokeInv, EngineReturnInv,
     EnginePersistInv DEF EngineStep

LEMMA ShutdownStepInv == ASSUME IInv, ShutdownStep PROVE IInv'
  BY ShutdownDisableInv, ShutdownDisposeInv, ReleaseInv DEF ShutdownStep

LEMMA StutterInv == ASSUME IInv, UNCHANGED vars PROVE IInv'
  <1>1. UNCHANGED <<journalVars, appVars, schedulerVars, engineVars, told, handler>>
    BY DEF vars, journalVars, appVars, schedulerVars, engineVars
  <1>2. HandlerType' /\ HandlersBound'
    BY <1>1 DEF IInv, Types, HandlerType, Bindings, HandlersBound, Bound, schedulerVars
  <1>3. ToldType' /\ ToldFinal' /\ AnsweredIsDurable'
    BY <1>1, SameTold
  <1> QED BY <1>1, <1>2, <1>3, HandlerStepInv

LEMMA NextInv == IInv /\ [Next]_vars => IInv'
  <1> SUFFICES ASSUME IInv, [Next]_vars PROVE IInv'
    OBVIOUS
  <1>1. ASSUME NEW s \in Sessions,
               Enable(s) \/ Expire(s) \/ Disable(s) \/ ClosePipe(s) \/ HandlerStep(s)
        PROVE  IInv'
    BY <1>1, EnableInv, ExpireInv, DisableInv, ClosePipeInv, HandlerStepsInv
  <1>2. ASSUME NEW s \in Sessions, NEW op \in Ops,
               \/ Lookup(s, op)
               \/ \E in \in Inputs : CancelBeforeStart(s, op, in) \/ Execute(s, op, in)
        PROVE  IInv'
    BY <1>2, LookupInv, CancelBeforeStartInv, ExecuteInv
  <1>3. CASE SchedulerStep \/ EngineStep \/ BeginShutdown \/ ShutdownStep \/ Crash
    BY <1>3, SchedulerStepInv, EngineStepInv, BeginShutdownInv, ShutdownStepInv, CrashInv
  <1>4. ASSUME NEW op \in Ops, RecoverReceipt(op) PROVE IInv'
    BY <1>4, RecoverReceiptInv
  <1>5. CASE UNCHANGED vars
    BY <1>5, StutterInv
  <1> QED BY <1>1, <1>2, <1>3, <1>4, <1>5 DEF Next

THEOREM InvariantHolds == Spec => []IInv
  BY InitInv, NextInv, PTL DEF Spec

-----------------------------------------------------------------------------
(* Theorems *)

\* Every variable keeps its type.
THEOREM TypeCorrect == Spec => []TypeOK
  <1>1. IInv => TypeOK
    BY DEF IInv, Types, TypeOK, JournalInv, JournalType, AppType, HandlerType, SchedulerType,
           EngineType, ToldType
  <1> QED BY InvariantHolds, <1>1, PTL

\* Generated code runs at most once per operation id, for one input
\* (ExecutionEngine.cs 35-105).
THEOREM RunsAtMostOnce == Spec => []AtMostOnce
  <1>1. IInv => AtMostOnce
    BY DEF IInv, History, InvokedClaimed, AtMostOnce
  <1> QED BY InvariantHolds, <1>1, PTL

\* What ran had its claim in the file first (SessionAdmission.cs 31-40).
THEOREM ClaimComesFirst == Spec => []ClaimedBeforeInvoked
  <1>1. IInv => ClaimedBeforeInvoked
    BY DEF IInv, History, InvokedClaimed, ClaimedBeforeInvoked
  <1> QED BY InvariantHolds, <1>1, PTL

\* No client that was told "not started, you may retry" is ever proved wrong
\* (ExecutionEngine.cs 170-181).
THEOREM RetryPermissionHolds == Spec => []RetryPermissionSound
  <1>1. IInv => RetryPermissionSound
    <2> SUFFICES ASSUME IInv, NEW t \in told, t.receipt.state \in NotStartedStates,
                        NEW in \in Inputs
                 PROVE  invoked[t.receipt.op][in] = 0
      BY DEF RetryPermissionSound
    <2>1. t.receipt.op \in Ops
      BY DEF IInv, Types, ToldType, Record
    <2>2. Latest(disk, t.receipt.op) = t.receipt
      BY DEF IInv, History, AnsweredIsDurable
    <2>3. ~(invoked[t.receipt.op][in] > 0)
      BY <2>1, <2>2 DEF IInv, History, InvokedClaimed
    <2>4. invoked[t.receipt.op][in] \in Nat
      BY <2>1 DEF IInv, Types, EngineType
    <2> QED BY <2>3, <2>4
  <1> QED BY InvariantHolds, <1>1, PTL

\* A final receipt is and stays the last word of the file
\* (OperationJournal.cs 102-125, ConnectorService.cs 204-222).
THEOREM AnswersAreDurable == Spec => []AnsweredIsDurable
  <1>1. IInv => AnsweredIsDurable
    BY DEF IInv, History
  <1> QED BY InvariantHolds, <1>1, PTL

\* No queued item is left without a wake-up (ExternalEventScheduler.cs 35-63).
THEOREM WakeupNeverLost == Spec => []NoLostWakeup
  <1>1. IInv => NoLostWakeup
    BY DEF IInv
  <1> QED BY InvariantHolds, <1>1, PTL

\* A legacy process loads no more assemblies than its limit
\* (ExecutionEngine.cs 49-52).
THEOREM AssembliesBounded == Spec => []LegacyAssembliesBounded
  <1>1. IInv => LegacyAssembliesBounded
    BY DEF IInv, AssembliesLeft, LegacyAssembliesBounded
  <1> QED BY InvariantHolds, <1>1, PTL

-----------------------------------------------------------------------------
(* What a step may never do *)

\* Every way a step can write to the file.
Starts ==
    /\ EngineStart
    /\ \E how \in AppendOutcome : TryStart(Op, Input, how)
    /\ Open

Ends ==
    \E op \in Ops, in \in Inputs, st \in TerminalStates, how \in AppendOutcome :
        AppendTerminal(op, in, st, how)

LEMMA SettleWrites ==
    ASSUME IInv, NEW i, Bound(i), NEW st \in TerminalStates, Settle(i, st)
    PROVE  Ends \/ UNCHANGED journalVars
  <1>1. items[i].op \in Ops /\ items[i].input \in Inputs
    BY DEF Bound, Binding, IInv, Types, SchedulerType
  <1> QED BY <1>1 DEF Settle, Ends

LEMMA WritesOf ==
    ASSUME IInv, Next
    PROVE  \/ Starts \/ Ends \/ disk' = disk
  <1>1. ASSUME NEW s \in Sessions, TryCancelBeforeStart(s) PROVE Ends \/ disk' = disk
    <2>1. handler[s].op \in Ops /\ handler[s].input \in Inputs
      BY <1>1 DEF TryCancelBeforeStart, IInv, Bindings, HandlersBound
    <2>2. "cancelled_before_start" \in TerminalStates
      BY StatesTerminal
    <2> QED BY <1>1, <2>1, <2>2 DEF TryCancelBeforeStart, Ends, journalVars
  <1>2. ASSUME DrainOne PROVE Ends \/ disk' = disk
    <2>1. queue \in Seq(ItemIds) /\ queue # << >>
      BY <1>2 DEF DrainOne, IInv, Types, SchedulerType
    <2>2. 1 \in DOMAIN queue /\ Head(queue) = queue[1]
      BY <2>1
    <2>3. Bound(Head(queue))
      BY <2>2 DEF IInv, Bindings, QueueBound
    <2> QED BY <1>2, <2>3, SettleWrites, StatesTerminal DEF DrainOne, journalVars
  <1>3. ASSUME EnginePersist PROVE Ends \/ disk' = disk
    <2>1. Bound(run.item) /\ run.state \in TerminalStates
      BY <1>3 DEF EnginePersist, Running, IInv, Bindings, RunBound
    <2> QED BY <1>3, <2>1, SettleWrites DEF EnginePersist, journalVars
  <1>4. ASSUME EngineStart PROVE Starts \/ disk' = disk
    BY <1>4 DEF EngineStart, Starts, journalVars
  <1>5. ASSUME NEW s \in Sessions,
               \/ Enable(s) \/ Expire(s) \/ Disable(s) \/ ClosePipe(s)
               \/ Compile(s) \/ Enqueue(s) \/ AnswerExecute(s)
               \/ \E op \in Ops :
                     \/ Lookup(s, op)
                     \/ \E in \in Inputs : CancelBeforeStart(s, op, in) \/ Execute(s, op, in)
        PROVE  disk' = disk
    BY <1>5 DEF Enable, Expire, Disable, ClosePipe, Compile, Enqueue, AnswerExecute, Lookup,
                CancelBeforeStart, Execute, journalVars
  <1>6. ASSUME \/ Wake \/ DrainEnd \/ EngineLookup \/ EngineContext \/ EngineInvoke
               \/ EngineReturn \/ BeginShutdown \/ ShutdownStep \/ Crash
               \/ \E op \in Ops : RecoverReceipt(op)
        PROVE  disk' = disk
    BY <1>6 DEF Wake, DrainEnd, EngineLookup, EngineContext, EngineInvoke, EngineReturn,
                BeginShutdown, ShutdownStep, ShutdownDisable, ShutdownDispose, Release, Crash,
                RecoverReceipt, journalVars
  <1> QED BY <1>1, <1>2, <1>3, <1>4, <1>5, <1>6
          DEF Next, HandlerStep, SchedulerStep, EngineStep

\* A terminal append never puts a start record at the end of the file.
LEMMA EndsAppendTerminal ==
    ASSUME IInv, Ends, disk' # disk PROVE disk'[Len(disk')].state # "started"
  <1>1. PICK op \in Ops, in \in Inputs, st \in TerminalStates, how \in AppendOutcome :
           AppendTerminal(op, in, st, how)
    BY DEF Ends
  <1>2. disk' = Append(disk, Rec(op, in, st)) /\ disk \in Seq(Record)
    BY <1>1 DEF AppendTerminal, Persist, IInv, Types, JournalInv, JournalType
  <1>3. Rec(op, in, st) \in Record
    BY DEF Rec, Record
  <1>4. disk'[Len(disk')] = Rec(op, in, st)
    BY <1>2, <1>3, AppendProperties, LenProperties
  <1> QED BY <1>4 DEF Rec, TerminalStates, StartedStates, NotStartedStates

\* Nothing is claimed for a session that is closed or expired
\* (SessionAdmission.cs 29-40).
THEOREM ClosedClaimsNothing == Spec => ShutSessionClaimsNothing
  <1>1. IInv /\ [Next]_vars =>
          [ \A s \in Sessions : admission[s] # "open" =>
              (disk' # disk /\ disk'[Len(disk')].state = "started"
                  => items[run.item].session # s) ]_vars
    <2> SUFFICES ASSUME IInv, Next, NEW s \in Sessions, admission[s] # "open",
                        disk' # disk, disk'[Len(disk')].state = "started"
                 PROVE  items[run.item].session # s
      OBVIOUS
    <2>1. Starts
      BY WritesOf, EndsAppendTerminal
    <2> QED BY <2>1 DEF Starts, Open
  <1> QED BY InvariantHolds, <1>1, PTL DEF Spec, ShutSessionClaimsNothing

\* A released journal is neither written nor poisoned
\* (ExternalEventScheduler.cs 24-33, 66-77).
THEOREM ReleasedIsUntouched == Spec => ReleasedJournalUntouched
  <1>1. IInv /\ [Next]_vars =>
          [ life = "released" /\ life' = "released" => UNCHANGED journalVars ]_vars
    <2> SUFFICES ASSUME IInv, Next, life = "released", life' = "released"
                 PROVE  UNCHANGED journalVars
      OBVIOUS
    <2>1. gate = "free" /\ \A s \in Sessions : admission[s] # "open"
      BY SessionAssumption DEF IInv, Lifecycle
    <2>2. ASSUME NEW s \in Sessions,
                 \/ Enable(s) \/ Expire(s) \/ Disable(s) \/ ClosePipe(s) \/ HandlerStep(s)
                 \/ \E op \in Ops :
                       \/ Lookup(s, op)
                       \/ \E in \in Inputs : CancelBeforeStart(s, op, in) \/ Execute(s, op, in)
          PROVE  UNCHANGED journalVars
      BY <2>1, <2>2 DEF Enable, Expire, Disable, ClosePipe, HandlerStep, TryCancelBeforeStart,
                        Compile, Enqueue, AnswerExecute, Lookup, CancelBeforeStart, Execute
    <2>3. ASSUME SchedulerStep \/ EngineStep PROVE UNCHANGED journalVars
      BY <2>1, <2>3 DEF SchedulerStep, Wake, DrainOne, DrainEnd, EngineStep, Running,
                        EngineLookup, EngineContext, EngineStart, EngineInvoke, EngineReturn,
                        EnginePersist
    <2>4. ASSUME \/ BeginShutdown \/ ShutdownStep \/ Crash
                 \/ \E op \in Ops : RecoverReceipt(op)
          PROVE  UNCHANGED journalVars
      BY <2>4 DEF BeginShutdown, ShutdownStep, ShutdownDisable, ShutdownDispose, Release,
                  Crash, RecoverReceipt
    <2> QED BY <2>2, <2>3, <2>4 DEF Next
  <1> QED BY InvariantHolds, <1>1, PTL DEF Spec, ReleasedJournalUntouched

-----------------------------------------------------------------------------
(* The ledger *)

LEMMA LedgerInit == Init => Ledger!Init
  BY EmptyLog DEF Init, JournalInit, Ledger!Init, EmptyIndex

LEMMA LedgerNext == IInv /\ [Next]_vars => [Ledger!Next]_(LatestOf(disk))
  <1> SUFFICES ASSUME IInv, [Next]_vars
               PROVE  Ledger!Next \/ LatestOf(disk') = LatestOf(disk)
    OBVIOUS
  <1>1. CASE disk' = disk
    BY <1>1
  <1>2. CASE Starts
    <2>1. PICK how \in AppendOutcome : TryStart(Op, Input, how)
      BY <1>2 DEF Starts
    <2>2. Op \in Ops /\ Input \in Inputs
      BY <1>2, RunningBound DEF Starts, EngineStart, RunPcs
    <2>3. LatestOf(disk') = LatestOf(disk) \/ Ledger!Claim(Op, Input)
      BY <2>1, <2>2, OutcomeType, TryStartClaims DEF IInv, Types
    <2> QED BY <2>2, <2>3 DEF Ledger!Next
  <1>3. CASE Ends
    <2>1. PICK op \in Ops, in \in Inputs, st \in TerminalStates, how \in AppendOutcome :
             AppendTerminal(op, in, st, how)
      BY <1>3 DEF Ends
    <2>2. \/ LatestOf(disk') = LatestOf(disk)
          \/ st \in StartedStates /\ Ledger!Resolve(op, st)
          \/ st \in NotStartedStates /\ Ledger!Tombstone(op, in, st)
      BY <2>1, OutcomeType, AppendTerminalResolves DEF IInv, Types
    <2> QED BY <2>2 DEF Ledger!Next
  <1> QED BY <1>1, <1>2, <1>3, WritesOf DEF vars

\* Whatever sessions, retries, failed appends, shutdowns and crashes do, the
\* file implements the ledger (OperationJournal.cs 85-125).
THEOREM LedgerImplemented == Spec => ImplementsLedger
  BY InvariantHolds, LedgerInit, LedgerNext, PTL DEF Spec, ImplementsLedger, Ledger!Spec
=============================================================================
