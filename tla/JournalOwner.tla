---------------------------- MODULE JournalOwner ----------------------------
(***************************************************************************)
(* One durable journal identity and the processes that create it, own it    *)
(* and recover it: Execution/JournalOwner.cs on top of OperationJournal.    *)
(*                                                                          *)
(* The directory holds owner.lock, owner.json and operations.jsonl.  A      *)
(* creator holds owner.lock open with FileShare.None from the moment it     *)
(* creates the file until it disposes the owner or dies; the file is never  *)
(* unlinked.  A recoverer opens the same file with the same exclusivity,    *)
(* loads the journal and only reads.                                        *)
(***************************************************************************)
EXTENDS OperationJournal

CONSTANTS Procs,     \* processes of the machine
          NoProc     \* nobody holds the lease

ASSUME NoProcAssumption == NoProc \notin Procs

VARIABLES at,        \* what each process is doing with this journal identity
          lease,     \* the process that has owner.lock open
          directory, \* the journal directory exists
          lockFile,  \* owner.lock exists
          metadata,  \* owner.json: missing, cut short by a crash, or complete
          file,      \* operations.jsonl exists
          view,      \* what each recoverer loaded
          served     \* every record the owner ever answered from (history)

dirVars == <<directory, lockFile, metadata, file>>
vars == <<disk, torn, index, healthy, at, lease, directory, lockFile, metadata,
          file, view, served>>

\* idle: not involved.  checked .. described: inside CreateNew.  owner: holds
\* the JournalOwner.  released: disposed it, still running.  leased/reading:
\* inside OpenRecovery, holding the JournalRecovery.  gone: died or refused.
Stages == {"idle", "checked", "created", "described", "owner", "released",
           "leased", "reading", "gone"}

Move(p, stage) == at' = [at EXCEPT ![p] = stage]

TypeOK ==
    /\ disk \in Seq(Record)
    /\ torn \in BOOLEAN
    /\ index \in [Ops -> Record \union {NoRecord}]
    /\ healthy \in BOOLEAN
    /\ at \in [Procs -> Stages]
    /\ lease \in Procs \union {NoProc}
    /\ directory \in BOOLEAN
    /\ lockFile \in BOOLEAN
    /\ metadata \in {"missing", "partial", "complete"}
    /\ file \in BOOLEAN
    /\ view \in [Procs -> [Ops -> Record \union {NoRecord}]]
    /\ served \in SUBSET Record

Init ==
    /\ JournalInit
    /\ at = [p \in Procs |-> "idle"]
    /\ lease = NoProc
    /\ directory = FALSE
    /\ lockFile = FALSE
    /\ metadata = "missing"
    /\ file = FALSE
    /\ view = [p \in Procs |-> EmptyIndex]
    /\ served = {}

-----------------------------------------------------------------------------
(* CreateNew *)

\* Directory.Exists is only a first look: two creators may both pass it.
CheckAbsent(p) ==
    /\ at[p] = "idle"
    /\ ~directory
    /\ Move(p, "checked")
    /\ UNCHANGED <<journalVars, lease, dirVars, view, served>>

\* FileMode.CreateNew succeeds for one creator; the others give up.
CreateLock(p) ==
    /\ at[p] = "checked"
    /\ directory' = TRUE
    /\ \/ /\ ~lockFile
          /\ lockFile' = TRUE
          /\ lease' = p
          /\ Move(p, "created")
       \/ /\ lockFile
          /\ Move(p, "gone")
          /\ UNCHANGED <<lockFile, lease>>
    /\ UNCHANGED <<journalVars, metadata, file, view, served>>

\* owner.json is written through before operations.jsonl is created.
WriteMetadata(p) ==
    /\ at[p] = "created"
    /\ metadata = "missing"
    /\ metadata' = "complete"
    /\ Move(p, "described")
    /\ UNCHANGED <<journalVars, lease, directory, lockFile, file, view, served>>

\* The constructor accepts the empty file: the process owns the journal.
CreateJournal(p) ==
    /\ at[p] = "described"
    /\ ~file
    /\ file' = TRUE
    /\ Move(p, "owner")
    /\ UNCHANGED <<journalVars, lease, directory, lockFile, metadata, view, served>>

\* Any step of CreateNew may throw (or the process die): the lease is closed,
\* the files stay as they are.
CreateFails(p) ==
    /\ at[p] \in {"created", "described"}
    /\ metadata' \in (IF at[p] = "created" THEN {metadata, "partial"} ELSE {metadata})
    /\ lease' = NoProc
    /\ Move(p, "gone")
    /\ UNCHANGED <<journalVars, directory, lockFile, file, view, served>>

-----------------------------------------------------------------------------
(* The owner *)

\* Mutant: Append does not look at _disposed.
AppendOutcomeUnchecked(p) == AppendOutcomes

\* Append refuses a disposed owner before it touches the file.
AppendOutcome(p) ==
    IF at[p] = "owner" THEN AppendOutcomes ELSE {"nothing"}

InMemory(p) == at[p] \in {"owner", "released"}

\* Get: what it returns is what a client is told.
OwnerGet(p, op) ==
    /\ InMemory(p)
    /\ healthy
    /\ index[op] # NoRecord
    /\ served' = served \union {index[op]}
    /\ UNCHANGED <<journalVars, at, lease, dirVars, view>>

OwnerTryStart(p, op, in) ==
    /\ InMemory(p)
    /\ \E how \in AppendOutcome(p) : TryStart(op, in, how)
    /\ UNCHANGED <<at, lease, dirVars, view, served>>

\* The terminal record AppendTerminal appends is also its result.
OwnerAppendTerminal(p, op, in, st) ==
    /\ InMemory(p)
    /\ \E how \in AppendOutcome(p) :
          /\ AppendTerminal(op, in, st, how)
          /\ served' = IF how = "ok" THEN served \union {Rec(op, in, st)} ELSE served
    /\ UNCHANGED <<at, lease, dirVars, view>>

\* Dispose: the lease is closed, the process and its index live on.
Release(p) ==
    /\ at[p] = "owner"
    /\ lease' = NoProc
    /\ Move(p, "released")
    /\ UNCHANGED <<journalVars, dirVars, view, served>>

\* The owning process ends; the system closes its lease.
Die(p) ==
    /\ InMemory(p)
    /\ lease' = IF lease = p THEN NoProc ELSE lease
    /\ index' = EmptyIndex
    /\ healthy' = FALSE
    /\ Move(p, "gone")
    /\ UNCHANGED <<disk, torn, dirVars, view, served>>

-----------------------------------------------------------------------------
(* OpenRecovery *)

\* The three files exist and the exclusive open succeeds.
AcquireRecovery(p) ==
    /\ at[p] = "idle"
    /\ lockFile /\ metadata # "missing" /\ file
    /\ lease = NoProc
    /\ lease' = p
    /\ Move(p, "leased")
    /\ UNCHANGED <<journalVars, dirVars, view, served>>

Loadable == metadata = "complete" /\ ~torn /\ WellFormed(disk)

\* The strict loader accepts metadata and every record; the JournalRecovery
\* keeps what it loaded.
LoadRecovery(p) ==
    /\ at[p] = "leased"
    /\ Loadable
    /\ view' = [view EXCEPT ![p] = LatestOf(disk)]
    /\ Move(p, "reading")
    /\ UNCHANGED <<journalVars, lease, dirVars, served>>

\* The loader refuses and closes the lease, or the JournalRecovery is disposed.
EndRecovery(p) ==
    /\ \/ at[p] = "leased" /\ ~Loadable
       \/ at[p] = "reading"
    /\ lease' = NoProc
    /\ view' = [view EXCEPT ![p] = EmptyIndex]
    /\ Move(p, "idle")
    /\ UNCHANGED <<journalVars, dirVars, served>>

-----------------------------------------------------------------------------
Next ==
    \E p \in Procs :
        \/ CheckAbsent(p) \/ CreateLock(p) \/ WriteMetadata(p)
        \/ CreateJournal(p) \/ CreateFails(p)
        \/ Release(p) \/ Die(p)
        \/ AcquireRecovery(p) \/ LoadRecovery(p) \/ EndRecovery(p)
        \/ \E op \in Ops :
              \/ OwnerGet(p, op)
              \/ \E in \in Inputs :
                    \/ OwnerTryStart(p, op, in)
                    \/ \E st \in TerminalStates : OwnerAppendTerminal(p, op, in, st)

Spec == Init /\ [][Next]_vars

-----------------------------------------------------------------------------
(* Properties *)

\* While the owner's index is an authority it is exactly what a reader of the
\* file would reconstruct: OperationJournal.cs 145-161 updates it only after a
\* confirmed append, and any doubt about the file withdraws it.
IndexMirrorsDisk ==
    (\E p \in Procs : InMemory(p)) /\ healthy => ~torn /\ index = LatestOf(disk)

\* Whatever appends failed half-way, the complete lines of the file always
\* pass the strict loader (OperationJournal.cs 50-57): a crash never leaves a
\* journal that is refused for its content, only for a torn tail.
DiskReplayable == WellFormed(disk)

\* A record the owner answered from is never contradicted by recovery: a
\* terminal record is recovered as it was served, a start is recovered with
\* the same input, and nothing served is forgotten (JournalOwner.cs 64-95).
RecoveryNeverRegresses ==
    \A p \in Procs : at[p] = "reading" =>
        \A r \in served :
            /\ view[p][r.op] # NoRecord
            /\ view[p][r.op].input = r.input
            /\ r.state \in TerminalStates => view[p][r.op] = r

\* What a recoverer holds stays the file's content until it disposes it: no
\* owner, not even one that released its lease and still has the journal in
\* memory, appends behind its back (JournalOwner.cs 133-150).
RecoveryReadsFrozenFile ==
    \A p \in Procs : at[p] = "reading" => ~torn /\ view[p] = LatestOf(disk)
=============================================================================
