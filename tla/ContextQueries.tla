--------------------------- MODULE ContextQueries ---------------------------
(***************************************************************************)
(* How a client learns what document it is about to change, and what the    *)
(* engine later holds it to: ContextQueryScheduler and                      *)
(* ContextSnapshotCollector on top of DocumentRevisions                     *)
(* (connector/revit/src/Kir.Revit.Connector/Context).                       *)
(*                                                                          *)
(* Capture runs on handler threads, Execute and the engine on Revit's API   *)
(* thread, all of them under the scheduler's gate for as long as they touch *)
(* its state, so each is one action.                                        *)
(*                                                                          *)
(* View and selection are further fields of the same comparison and left    *)
(* out.  A snapshot carries two fields the code has not: the document it    *)
(* was taken of and how often that had changed (`doc`, `at`).               *)
(***************************************************************************)
EXTENDS DocumentRevisions

CONSTANTS Clients,   \* requests in progress, one per session
          Queries,   \* TaskCompletionSources; one is used again when forgotten
          NoQuery,   \* _pending is null
          Unsettled, \* a completion that has no result yet
          Failed,    \* a completion with an exception
          NoSnapshot \* nothing captured

Snapshot == [doc : Docs, key : Nat, revision : Nat, at : 0 .. MaxChanges]

ASSUME QueryAssumption == NoQuery \notin Queries
ASSUME ResultAssumption == {Unsettled, Failed, NoSnapshot} \intersect Snapshot = {}
ASSUME NullAssumption == Unsettled # Failed /\ Unsettled # NoSnapshot

VARIABLES pending,   \* _pending
          raised,    \* the accepted ExternalEvent has not run yet
          disposed,  \* ContextQueryScheduler._disposed
          threw,     \* Raise threw after _pending was set
          result,    \* the completion of each query
          client,    \* what each client waits for, and since when
          held,      \* the last snapshot each client was given
          lastRun    \* the last execution let through (history)

queryVars == <<pending, raised, disposed, threw, result>>
contextVars == <<document, active, changes, entries, lastKey, failed, retired,
                pending, raised, disposed, threw, result, client, held, lastRun>>

Counts == [Docs -> 0 .. MaxChanges]
Idle == [query |-> NoQuery, since |-> [d \in Docs |-> 0]]

ContextTypeOK ==
    /\ TrackerTypeOK
    /\ pending \in Queries \union {NoQuery}
    /\ raised \in BOOLEAN
    /\ disposed \in BOOLEAN
    /\ threw \in BOOLEAN
    /\ result \in [Queries -> Snapshot \union {NoSnapshot, Unsettled, Failed}]
    /\ client \in [Clients -> [query : Queries \union {NoQuery}, since : Counts]]
    /\ held \in [Clients -> Snapshot \union {NoSnapshot}]
    /\ lastRun \in [seen : Snapshot, doc : Docs, at : 0 .. MaxChanges] \union {NoSnapshot}

ContextInit ==
    /\ TrackerInit
    /\ pending = NoQuery
    /\ raised = FALSE
    /\ disposed = FALSE
    /\ threw = FALSE
    /\ result = [q \in Queries |-> NoSnapshot]
    /\ client = [c \in Clients |-> Idle]
    /\ held = [c \in Clients |-> NoSnapshot]
    /\ lastRun = NoSnapshot

-----------------------------------------------------------------------------
(* ContextSnapshotCollector *)

SnapshotOf(d, e) == [doc |-> d, key |-> e.key, revision |-> e.revision, at |-> changes[d]]

\* What a capture returns now: nothing without an active document.
Seen == IF active = NoDoc THEN NoSnapshot ELSE SnapshotOf(active, FindOrCreate(active))

\* The capture returns; the tracker may have seen the document for the first
\* time.
Captures ==
    \/ active = NoDoc /\ UNCHANGED trackerVars
    \/ active # NoDoc /\ Usable /\ Observe(active, FindOrCreate(active)) /\ UNCHANGED retired

\* GetState throws, for good, or the collector does after it.
CaptureThrows ==
    /\ active # NoDoc
    /\ \/ Usable /\ Fail
       \/ Usable /\ Observe(active, FindOrCreate(active))
       \/ ~Usable /\ UNCHANGED <<entries, lastKey, failed>>
    /\ UNCHANGED retired

-----------------------------------------------------------------------------
(* ContextQueryScheduler *)

Wait(c, q) == client' = [client EXCEPT ![c] = [query |-> q, since |-> changes]]
Free == {q \in Queries : q # pending /\ \A c \in Clients : client[c].query # q}

\* Mutant: a refused request stays pending.
RaiseKeepsRefused(c, q) ==
    /\ \/ pending' = q /\ raised' = TRUE /\ UNCHANGED threw
       \/ pending' = q /\ threw' = TRUE /\ UNCHANGED raised
       \/ pending' = q /\ UNCHANGED <<raised, threw>>
    /\ result' = [result EXCEPT ![q] = Unsettled]
    /\ Wait(c, q)

\* Raise accepts, throws past _pending, or refuses, which answers the request.
Raise(c, q) ==
    \/ /\ pending' = q
       /\ result' = [result EXCEPT ![q] = Unsettled]
       /\ \/ raised' = TRUE /\ Wait(c, q) /\ UNCHANGED threw
          \/ threw' = TRUE /\ UNCHANGED <<raised, client>>
    \/ /\ result' = [result EXCEPT ![q] = Failed]
       /\ UNCHANGED <<pending, raised, threw, client>>

\* Join what is pending, or begin a query and raise the event.
Capture(c) ==
    /\ client[c].query = NoQuery
    /\ ~disposed
    /\ \/ /\ pending # NoQuery
          /\ Wait(c, pending)
          /\ UNCHANGED <<pending, raised, threw, result>>
       \/ /\ pending = NoQuery
          /\ \E q \in Free : Raise(c, q)
    /\ UNCHANGED <<documentVars, trackerVars, disposed, held, lastRun>>

\* Mutant: the query stays pending after it was answered.
ExecuteKeepsPending ==
    /\ raised /\ ~disposed
    /\ raised' = FALSE
    /\ \/ Captures /\ result' = [result EXCEPT ![pending] = Seen]
       \/ CaptureThrows /\ result' = [result EXCEPT ![pending] = Failed]
    /\ UNCHANGED <<pending, documentVars, disposed, threw, client, held, lastRun>>

\* Revit runs the event: the pending query is answered and forgotten.
Execute ==
    /\ raised /\ ~disposed
    /\ raised' = FALSE
    /\ pending' = NoQuery
    /\ \/ Captures /\ result' = [result EXCEPT ![pending] = Seen]
       \/ CaptureThrows /\ result' = [result EXCEPT ![pending] = Failed]
    /\ UNCHANGED <<documentVars, disposed, threw, client, held, lastRun>>

\* The waiting client gets the answer, or its deadline passes first.
Answer(c) ==
    /\ client[c].query # NoQuery
    /\ client' = [client EXCEPT ![c] = Idle]
    /\ \/ /\ result[client[c].query] \notin {Unsettled, Failed, NoSnapshot}
          /\ held' = [held EXCEPT ![c] = result[client[c].query]]
       \/ UNCHANGED held
    /\ UNCHANGED <<documentVars, trackerVars, queryVars, lastRun>>

\* Mutant: Dispose forgets the query that is pending.
DisposeForgets ==
    /\ ~disposed
    /\ disposed' = TRUE
    /\ pending' = NoQuery
    /\ UNCHANGED <<documentVars, trackerVars, raised, threw, result, client, held, lastRun>>

\* OnShutdown: the pending query is cancelled ...
Dispose ==
    /\ ~disposed
    /\ disposed' = TRUE
    /\ pending' = NoQuery
    /\ result' = IF pending = NoQuery THEN result ELSE [result EXCEPT ![pending] = Failed]
    /\ UNCHANGED <<documentVars, trackerVars, raised, threw, client, held, lastRun>>

\* ... and then the tracker is disposed.
DisposeRevisions ==
    /\ disposed
    /\ DisposeTracker
    /\ UNCHANGED <<queryVars, client, held, lastRun>>

-----------------------------------------------------------------------------
(* ExecutionEngine: the precondition of an execution.  Its revision is        *)
(* mandatory (ExecutionInput in Messages.cs refuses a request without one).   *)

Matches(s, precondition) ==
    s # NoSnapshot /\ s.key = precondition.key /\ s.revision = precondition.revision

\* The engine captures for itself.  Only a capture that matches the context the
\* client was last given lets the execution through.
EngineContext(c) ==
    /\ ~disposed
    /\ held[c] # NoSnapshot
    /\ \/ /\ Captures
          /\ lastRun' = IF Matches(Seen, held[c])
                        THEN [seen |-> held[c], doc |-> active, at |-> changes[active]]
                        ELSE lastRun
       \/ CaptureThrows /\ UNCHANGED lastRun
    /\ UNCHANGED <<documentVars, queryVars, client, held>>

-----------------------------------------------------------------------------
RevitEvent == \E d \in Docs : Activate(d) \/ DocumentChanged(d) \/ DocumentClosed(d)

ContextNext ==
    \/ RevitEvent /\ UNCHANGED <<queryVars, client, held, lastRun>>
    \/ Execute \/ Dispose \/ DisposeRevisions
    \/ \E c \in Clients : Capture(c) \/ Answer(c) \/ EngineContext(c)

ContextSpec == ContextInit /\ [][ContextNext]_contextVars

\* Revit runs an event it accepted, unless it has been disposed.
FairContextSpec == ContextSpec /\ WF_contextVars(Execute)

-----------------------------------------------------------------------------
(* Properties *)

\* An execution is only let through on the very document its client was shown,
\* with not one change in between, whatever was opened, closed, changed or
\* missed meanwhile (ContextSnapshotCollector.cs 46-54, ExecutionEngine.cs
\* 44-47, DocumentRevisionTracker.cs 72-111).
RunsOnWhatWasSeen ==
    lastRun # NoSnapshot =>
        lastRun.seen.doc = lastRun.doc /\ lastRun.seen.at = lastRun.at

\* A request that joins another one's query is never answered with a state from
\* before it was made (ContextQueryScheduler.cs 22-49).
AnswersAreFresh ==
    \A c \in Clients :
        LET answer == result[client[c].query] IN
        client[c].query # NoQuery /\ answer \notin {Unsettled, Failed, NoSnapshot}
            => answer.at >= client[c].since[answer.doc]

\* A pending query has an event coming, except when Raise threw: then every
\* later request joins a query nobody answers (ContextQueryScheduler.cs 27-34).
PendingHasWakeup == pending # NoQuery => raised \/ threw

\* Shutdown leaves no context request unanswered, stranded ones included
\* (PROTOCOL.md 199-201, ContextQueryScheduler.cs 52-62).
ShutdownSettles == disposed => \A q \in Queries : result[q] # Unsettled

\* Every query is answered in the end unless Raise threw.
EveryQuerySettles ==
    \A q \in Queries : result[q] = Unsettled ~> result[q] # Unsettled \/ threw
=============================================================================
