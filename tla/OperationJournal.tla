-------------------------- MODULE OperationJournal --------------------------
(***************************************************************************)
(* The durable operation journal of one connector process:                  *)
(* connector/revit/src/Kir.Revit.Connector/Execution/OperationJournal.cs.   *)
(*                                                                          *)
(* operations.jsonl is `disk` (its complete, newline-terminated records)    *)
(* and `torn` (bytes after the last newline).  The process answers from     *)
(* `index`, never from the file, as long as `healthy` holds.  An append may *)
(* fail having written nothing, a prefix or the whole record; the process   *)
(* may die at any point; the file is then only ever opened again read-only, *)
(* through JournalOwner.OpenRecovery.                                       *)
(*                                                                          *)
(* Every method body runs under the journal's lock, so one operator on the  *)
(* state is one method call.  JournalOwner adds the processes that create,  *)
(* own and recover the journal; Connector adds the sessions that use it.    *)
(***************************************************************************)
EXTENDS Integers, Sequences, FiniteSetsExt

CONSTANTS Ops,       \* operation ids
          Inputs,    \* complete input bindings (source hash, document, view...)
          NoRecord   \* the null of `JournalRecord?`

-----------------------------------------------------------------------------
(* Records *)

StartedStates == {"invocation_completed", "failed_after_observed_change",
                  "foreign_document_changed", "failed_after_start_unknown",
                  "running_unknown"}

NotStartedStates == {"rejected_before_start", "context_changed_before_start",
                     "cancelled_before_start"}

TerminalStates == StartedStates \union NotStartedStates

\* A start record, or a terminal record whose receipt is in `state`.  The
\* receipt's `started` flag is a function of its state: ParseRecord refuses
\* any other combination.
Record == [op : Ops, input : Inputs, state : {"started"} \union TerminalStates]

ASSUME NoRecordAssumption == NoRecord \notin Record

Rec(op, in, st) == [op |-> op, input |-> in, state |-> st]

IsTerminal(r) == r # NoRecord /\ r.state \in TerminalStates

\* A record may follow `prior`, the latest record of the same operation.
ValidTransition(prior, r) ==
    IF prior = NoRecord
    THEN r.state \notin StartedStates
    ELSE /\ prior.input = r.input
         /\ prior.state = "started"
         /\ r.state \in StartedStates

-----------------------------------------------------------------------------
(* The file, as a sequence of complete records *)

Positions(log, op) == {i \in DOMAIN log : log[i].op = op}

Latest(log, op) ==
    IF Positions(log, op) = {} THEN NoRecord ELSE log[Max(Positions(log, op))]

\* The loading loop accepts the log: each line follows from the lines above.
WellFormed(log) ==
    \A i \in DOMAIN log :
        ValidTransition(Latest(SubSeq(log, 1, i - 1), log[i].op), log[i])

LatestOf(log) == [op \in Ops |-> Latest(log, op)]

-----------------------------------------------------------------------------
(* The journal *)

VARIABLES disk,     \* complete records in operations.jsonl
          torn,     \* the file ends in bytes without a record delimiter
          index,    \* _latest
          healthy   \* _healthy

journalVars == <<disk, torn, index, healthy>>

EmptyIndex == [op \in Ops |-> NoRecord]

JournalInit ==
    /\ disk = << >>
    /\ torn = FALSE
    /\ index = EmptyIndex
    /\ healthy = TRUE

\* What a failing append may have left in the file.
AppendOutcomes == {"ok", "nothing", "prefix", "whole"}

\* Mutant: the index is updated before the append and never taken back.
PersistIndexFirst(r, how) ==
    /\ disk' = IF how \in {"ok", "whole"} THEN Append(disk, r) ELSE disk
    /\ torn' = (torn \/ how = "prefix")
    /\ index' = [index EXCEPT ![r.op] = r]
    /\ UNCHANGED healthy

\* Only a confirmed append reaches the index; any failure poisons it.
Persist(r, how) ==
    /\ disk' = IF how \in {"ok", "whole"} THEN Append(disk, r) ELSE disk
    /\ torn' = (torn \/ how = "prefix")
    /\ index' = IF how = "ok" THEN [index EXCEPT ![r.op] = r] ELSE index
    /\ healthy' = (healthy /\ how = "ok")

\* Mutant: the start does not look for an earlier record of the id.
TryStartUnchecked(op, in, how) ==
    /\ healthy
    /\ Persist(Rec(op, in, "started"), how)

\* TryStart returns true, or its append throws.
TryStart(op, in, how) ==
    /\ healthy
    /\ index[op] = NoRecord
    /\ Persist(Rec(op, in, "started"), how)

\* Mutant: a later terminal result replaces the first one.
TerminalVerdictLastWins(op, in, st) ==
    LET prior == index[op] IN
    CASE ~healthy -> "journal_unavailable"
      [] healthy /\ prior # NoRecord /\ prior.input # in -> "operation_conflict"
      [] OTHER -> "append"

\* Mutant: a before-start receipt may follow a start record.
TerminalVerdictCancelsStarted(op, in, st) ==
    LET prior == index[op] IN
    CASE ~healthy -> "journal_unavailable"
      [] healthy /\ prior = NoRecord ->
            IF ValidTransition(prior, Rec(op, in, st)) THEN "append" ELSE "invalid"
      [] healthy /\ prior # NoRecord /\ prior.input # in -> "operation_conflict"
      [] healthy /\ IsTerminal(prior) /\ prior.input = in -> "prior"
      [] OTHER -> "append"

\* What AppendTerminal does with a receipt in state `st`: append it, return
\* the prior terminal record, or throw.
TerminalVerdict(op, in, st) ==
    LET prior == index[op] IN
    CASE ~healthy -> "journal_unavailable"
      [] healthy /\ prior = NoRecord ->
            IF ValidTransition(prior, Rec(op, in, st)) THEN "append" ELSE "invalid"
      [] healthy /\ prior # NoRecord /\ prior.input # in -> "operation_conflict"
      [] healthy /\ IsTerminal(prior) /\ prior.input = in -> "prior"
      [] OTHER -> IF st \in StartedStates THEN "append" ELSE "running_unknown"

AppendTerminal(op, in, st, how) ==
    /\ TerminalVerdict(op, in, st) = "append"
    /\ Persist(Rec(op, in, st), how)

-----------------------------------------------------------------------------
(* What the file promises *)

\* The operation ids as the file knows them.
Ledger == INSTANCE OperationLedger
            WITH Absent <- NoRecord, ledger <- LatestOf(disk)

\* The file implements the abstract ledger: ids are claimed once, resolved
\* once, and stay resolved, across failed appends and crashes
\* (OperationJournal.cs 85-125).
ImplementsLedger == Ledger!Spec
=============================================================================
