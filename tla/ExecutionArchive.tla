-------------------------- MODULE ExecutionArchive --------------------------
(***************************************************************************)
(* The archive a client makes of an execution before it sends it: one new    *)
(* SQLite file per execution (kir/saved_execution.py), and the publisher that *)
(* sends only what it saw archived (kir/standalone_publish.py).              *)
(*                                                                          *)
(* Several processes, restarted ones among them, may try the same path with   *)
(* the same or with other inputs.  Any step may fail, a process may die        *)
(* anywhere, and the machine may lose power: then every process dies and what  *)
(* was not flushed may be gone.  What is flushed depends on the platform: a    *)
(* directory is flushed on posix only, and elsewhere the module promises        *)
(* nothing across a power loss.  SQLite and the file system are modelled from   *)
(* what the code relies on.  Names that OperationStore has too are of the path   *)
(* here (PathInit, PathNext), so that one module can speak of both.            *)
(***************************************************************************)
EXTENDS Naturals

CONSTANTS Publishers, Inputs, Missing

ASSUME MissingAssumption == Missing \notin Inputs

VARIABLES posix,      \* os.name = "posix": directories can be flushed
          file,       \* what the path names, and what of it is on the disk
          journal,    \* the rollback journal beside it
          pubs,       \* what each publisher is doing, with which input
          sends,      \* how often each input was sent to execute (history)
          asked,      \* inputs a restarted client found and asked about (history)
          powerLost   \* the machine has lost power (history)

pathVars == <<posix, file, journal, pubs, sends, asked, powerLost>>

Steps == {"checked", "created", "writing", "committed", "synced", "flushed", "archived"}
Idle == [step |-> "idle"]

\* No file; or one with the record committed to it, if any, and whether its
\* contents and its entry in the directory are on the disk.
File == [record : Inputs \union {Missing}, synced : BOOLEAN, entered : BOOLEAN]

\* A journal whose deletion is not on the disk yet may come back.
Journals == {"none", "beside", "deleted"}

ASSUME FileAssumption == Missing \notin File

PathTypeOK ==
    /\ posix \in BOOLEAN
    /\ file \in File \union {Missing}
    /\ journal \in Journals
    /\ pubs \in [Publishers -> [step : Steps, input : Inputs] \union {Idle}]
    /\ sends \in [Inputs -> 0 .. 2]
    /\ asked \subseteq Inputs
    /\ powerLost \in BOOLEAN

PathInit ==
    /\ posix \in BOOLEAN
    /\ file = Missing
    /\ journal = "none"
    /\ pubs = [p \in Publishers |-> Idle]
    /\ sends = [i \in Inputs |-> 0]
    /\ asked = {}
    /\ powerLost = FALSE

At(p, step) == pubs[p].step = step
Step(p, step) == pubs' = [pubs EXCEPT ![p].step = step]
Stop(p) == pubs' = [pubs EXCEPT ![p] = Idle]

NewFile == [record |-> Missing, synced |-> FALSE, entered |-> FALSE]

-----------------------------------------------------------------------------
(* create_new, step by step *)

\* _sidecars_absent: a journal means recovery, which is not attempted.
CheckSidecars(p, input) ==
    /\ At(p, "idle") /\ journal # "beside"
    /\ pubs' = [pubs EXCEPT ![p] = [step |-> "checked", input |-> input]]
    /\ UNCHANGED <<posix, file, journal, sends, asked, powerLost>>

\* Mutant: a file that holds this very input will do.
CreateOrAdopt(p) ==
    /\ At(p, "checked")
    /\ \/ file = Missing /\ file' = NewFile /\ Step(p, "created")
       \/ /\ file # Missing /\ file.record = pubs[p].input
          /\ Step(p, "flushed") /\ UNCHANGED file
       \/ file # Missing /\ file.record # pubs[p].input /\ Stop(p) /\ UNCHANGED file
    /\ UNCHANGED <<posix, journal, sends, asked, powerLost>>

\* An existing path is never adopted or overwritten.
CreateFile(p) ==
    /\ At(p, "checked")
    /\ \/ file = Missing /\ file' = NewFile /\ Step(p, "created")
       \/ file # Missing /\ Stop(p) /\ UNCHANGED file
    /\ UNCHANGED <<posix, journal, sends, asked, powerLost>>

\* BEGIN IMMEDIATE on a database nobody else initialised, then the rows.
Begin(p) ==
    /\ At(p, "created") /\ file.record = Missing
    /\ journal' = "beside"
    /\ Step(p, "writing")
    /\ UNCHANGED <<posix, file, sends, asked, powerLost>>

\* COMMIT ends with the deletion of the journal.
Commit(p) ==
    /\ At(p, "writing")
    /\ file' = [file EXCEPT !.record = pubs[p].input]
    /\ journal' = "deleted"
    /\ Step(p, "committed")
    /\ UNCHANGED <<posix, sends, asked, powerLost>>

\* _flush_created, first half: the contents of the file.
FlushFile(p) ==
    /\ At(p, "committed")
    /\ file' = [file EXCEPT !.synced = TRUE]
    /\ Step(p, "synced")
    /\ UNCHANGED <<posix, journal, sends, asked, powerLost>>

\* Mutant: the flush of the file is enough on every platform.
FlushFileOnly(p) ==
    /\ At(p, "synced")
    /\ Step(p, "flushed")
    /\ UNCHANGED <<posix, file, journal, sends, asked, powerLost>>

\* _flush_created, second half: on posix the directory, and with it the entry
\* of the file and the deletion of the journal.
FlushDirectory(p) ==
    /\ At(p, "synced")
    /\ IF posix THEN file' = [file EXCEPT !.entered = TRUE] /\ journal' = "none"
                ELSE UNCHANGED <<file, journal>>
    /\ Step(p, "flushed")
    /\ UNCHANGED <<posix, sends, asked, powerLost>>

Loadable(input) == file # Missing /\ journal # "beside" /\ file.record = input

\* What was written is loaded again and must be the input.
Load(p) ==
    /\ At(p, "flushed")
    /\ IF Loadable(pubs[p].input) THEN Step(p, "archived") ELSE Stop(p)
    /\ UNCHANGED <<posix, file, journal, sends, asked, powerLost>>

\* The one exchange that executes; whatever comes of it, it is not repeated.
SendArchived(p) ==
    /\ At(p, "archived")
    /\ sends' = [sends EXCEPT ![pubs[p].input] = IF @ < 2 THEN @ + 1 ELSE @]
    /\ Stop(p)
    /\ UNCHANGED <<posix, file, journal, asked, powerLost>>

-----------------------------------------------------------------------------
(* Faults, and what a restarted client can do *)

\* An error or the death of the process, anywhere.  The rollback of an open
\* transaction may fail too, and after an error in COMMIT nobody knows.
Fail(p) ==
    /\ ~At(p, "idle")
    /\ Stop(p)
    /\ IF At(p, "writing")
       THEN \/ journal' = "deleted" /\ UNCHANGED file
            \/ UNCHANGED <<journal, file>>
            \/ journal' = "deleted" /\ file' = [file EXCEPT !.record = pubs[p].input]
       ELSE UNCHANGED <<journal, file>>
    /\ UNCHANGED <<posix, sends, asked, powerLost>>

\* What the disk may hold after a power loss: an entry that was not flushed may
\* be gone, contents that were not flushed too; what is still there is on the
\* disk.
Surviving ==
    [record : IF file.synced THEN {file.record} ELSE {file.record, Missing},
     synced : {TRUE}, entered : {TRUE}]

PowerLoss ==
    /\ powerLost' = TRUE
    /\ pubs' = [p \in Publishers |-> Idle]
    /\ IF file # Missing /\ ~file.entered
       THEN /\ file' \in Surviving \union {Missing}
            /\ journal' \in IF journal = "none" THEN {"none"} ELSE {"none", "beside"}
       ELSE UNCHANGED <<file, journal>>
    /\ UNCHANGED <<posix, sends, asked>>

\* load, then a receipt, a recovery or a cancellation: never an execution.
Recover(input) ==
    /\ Loadable(input)
    /\ asked' = asked \union {input}
    /\ UNCHANGED <<posix, file, journal, pubs, sends, powerLost>>

-----------------------------------------------------------------------------
PathNext ==
    \/ \E p \in Publishers :
          \/ \E input \in Inputs : CheckSidecars(p, input)
          \/ CreateFile(p) \/ Begin(p) \/ Commit(p) \/ FlushFile(p)
          \/ FlushDirectory(p) \/ Load(p) \/ SendArchived(p) \/ Fail(p)
    \/ PowerLoss
    \/ \E input \in Inputs : Recover(input)

PathSpec == PathInit /\ [][PathNext]_pathVars

-----------------------------------------------------------------------------
(* Properties *)

\* What the platform lets the archive promise: everything across the death of
\* processes, and across a power loss where the directory is flushed.
\* (saved_execution.py:3, 308)
Promised == posix \/ ~powerLost

\* Whatever was sent can be found again after any crash, and on posix after any
\* power loss: the path holds that very record, with no journal to recover.
\* (saved_execution.py:363, standalone_publish.py:244)
SentIsRecoverable ==
    Promised => \A input \in Inputs : sends[input] > 0 => Loadable(input)

\* One path is the ticket of one execution, in the same case: restarted with the
\* same input or with another one, no process sends a second time.
\* (saved_execution.py:368)
OneSendPerPath ==
    Promised => \A i, j \in Inputs : sends[i] > 0 /\ sends[j] > 0 => i = j /\ sends[i] = 1

=============================================================================
