---------------------- MODULE JournalAndContextProofs ----------------------
(***************************************************************************)
(* Theorems about two parts of the connector that share nothing: who owns    *)
(* its journal (JournalOwner), for every set of processes, operation ids and  *)
(* inputs, and what a client is told of the open documents (ContextQueries),  *)
(* for any number of documents, changes, clients and queries.               *)
(*                                                                          *)
(* The owner's inductive invariant adds three facts to the properties: one   *)
(* process at most ever gets past the creation of owner.lock, whoever is     *)
(* inside CreateNew, owner or recoverer holds the lease, and what the owner  *)
(* ever served is in the file.                                              *)
(*                                                                          *)
(* RunsOnWhatWasSeen is not inductive: it rests on what every snapshot that *)
(* a client or a query holds still has to do with the tracker.  No other    *)
(* document's entry ever has its key, and as long as the tracker is usable  *)
(* and the document open, revisions and real changes have grown by the      *)
(* same amount since.                                                       *)
(***************************************************************************)
EXTENDS JournalOwner, ContextQueries, JournalLogProofs

-----------------------------------------------------------------------------
(* The owner of the journal *)

\* Stages entered through CreateLock, and stages that need the lease.
Staked(p) == at[p] \in {"created", "described", "owner", "released"}
Holding(p) == at[p] \in {"created", "described", "owner", "leased", "reading"}

OneCreator ==
    /\ ~lockFile => \A p \in Procs : at[p] \in {"idle", "checked", "gone"}
    /\ \A p, q \in Procs : Staked(p) /\ Staked(q) => p = q

LeaseHeld == \A p \in Procs : Holding(p) => lease = p

\* The file has at least what was served of r's operation id.
Kept(r) ==
    /\ Latest(disk, r.op) # NoRecord
    /\ Latest(disk, r.op).input = r.input
    /\ r.state \in TerminalStates => Latest(disk, r.op) = r

ServedKept == \A r \in served : Kept(r)

IInv ==
    /\ TypeOK
    /\ JournalInv
    /\ OneCreator
    /\ LeaseHeld
    /\ RecoveryReadsFrozenFile
    /\ ServedKept

-----------------------------------------------------------------------------
(* The initial state *)

LEMMA InitInv == Init => IInv
  <1> SUFFICES ASSUME Init PROVE IInv
    OBVIOUS
  <1>1. JournalInv
    BY JournalInitInv DEF Init
  <1>2. EmptyIndex \in [Ops -> Record \union {NoRecord}]
    BY DEF EmptyIndex
  <1>3. TypeOK
    BY <1>1, <1>2 DEF Init, TypeOK, JournalInv, JournalType, Stages
  <1>4. OneCreator /\ LeaseHeld /\ RecoveryReadsFrozenFile /\ ServedKept
    BY DEF Init, OneCreator, LeaseHeld, RecoveryReadsFrozenFile, ServedKept,
           Staked, Holding
  <1> QED BY <1>1, <1>3, <1>4 DEF IInv

-----------------------------------------------------------------------------
(* Steps that leave the file alone *)

\* The file's content is only a matter of disk and torn.
LEMMA SameFile ==
    ASSUME disk' = disk
    PROVE  /\ LatestOf(disk') = LatestOf(disk)
           /\ \A op : Latest(disk', op) = Latest(disk, op)
           /\ WellFormed(disk') <=> WellFormed(disk)
  OBVIOUS

LEMMA CheckAbsentInv ==
    ASSUME IInv, NEW p \in Procs, CheckAbsent(p) PROVE IInv'
  <1>1. TypeOK'
    BY DEF CheckAbsent, IInv, TypeOK, Move, Stages, journalVars, dirVars
  <1>2. JournalInv'
    BY DEF CheckAbsent, IInv, JournalInv, JournalType, journalVars
  <1>3. OneCreator' /\ LeaseHeld' /\ RecoveryReadsFrozenFile' /\ ServedKept'
    BY DEF CheckAbsent, IInv, TypeOK, Move, OneCreator, LeaseHeld, Staked, Holding,
           RecoveryReadsFrozenFile, ServedKept, Kept, journalVars, dirVars
  <1> QED BY <1>1, <1>2, <1>3 DEF IInv

LEMMA CreateLockInv ==
    ASSUME IInv, NEW p \in Procs, CreateLock(p) PROVE IInv'
  <1>1. TypeOK'
    BY DEF CreateLock, IInv, TypeOK, Move, Stages, journalVars
  <1>2. JournalInv'
    BY DEF CreateLock, IInv, JournalInv, JournalType, journalVars
  <1>3. OneCreator'
    BY DEF CreateLock, IInv, TypeOK, Move, OneCreator, Staked
  <1>4. LeaseHeld'
    BY DEF CreateLock, IInv, TypeOK, Move, OneCreator, LeaseHeld, Holding
  <1>5. RecoveryReadsFrozenFile' /\ ServedKept'
    BY DEF CreateLock, IInv, TypeOK, Move, RecoveryReadsFrozenFile, ServedKept, Kept,
           journalVars
  <1> QED BY <1>1, <1>2, <1>3, <1>4, <1>5 DEF IInv

\* Steps of one process that change only where it is and what exists.
LEMMA WriteMetadataInv ==
    ASSUME IInv, NEW p \in Procs, WriteMetadata(p) PROVE IInv'
  <1>1. TypeOK'
    BY DEF WriteMetadata, IInv, TypeOK, Move, Stages, journalVars
  <1>2. JournalInv'
    BY DEF WriteMetadata, IInv, JournalInv, JournalType, journalVars
  <1>3. OneCreator' /\ LeaseHeld'
    BY DEF WriteMetadata, IInv, TypeOK, Move, OneCreator, Staked, LeaseHeld, Holding
  <1>4. RecoveryReadsFrozenFile' /\ ServedKept'
    BY DEF WriteMetadata, IInv, TypeOK, Move, RecoveryReadsFrozenFile, ServedKept, Kept,
           journalVars
  <1> QED BY <1>1, <1>2, <1>3, <1>4 DEF IInv

LEMMA CreateJournalInv ==
    ASSUME IInv, NEW p \in Procs, CreateJournal(p) PROVE IInv'
  <1>1. TypeOK'
    BY DEF CreateJournal, IInv, TypeOK, Move, Stages, journalVars
  <1>2. JournalInv'
    BY DEF CreateJournal, IInv, JournalInv, JournalType, journalVars
  <1>3. OneCreator' /\ LeaseHeld'
    BY DEF CreateJournal, IInv, TypeOK, Move, OneCreator, Staked, LeaseHeld, Holding
  <1>4. RecoveryReadsFrozenFile' /\ ServedKept'
    BY DEF CreateJournal, IInv, TypeOK, Move, RecoveryReadsFrozenFile, ServedKept, Kept,
           journalVars
  <1> QED BY <1>1, <1>2, <1>3, <1>4 DEF IInv

LEMMA CreateFailsInv ==
    ASSUME IInv, NEW p \in Procs, CreateFails(p) PROVE IInv'
  <1>1. TypeOK'
    BY DEF CreateFails, IInv, TypeOK, Move, Stages, journalVars
  <1>2. JournalInv'
    BY DEF CreateFails, IInv, JournalInv, JournalType, journalVars
  <1>3. OneCreator'
    BY DEF CreateFails, IInv, TypeOK, Move, OneCreator, Staked
  <1>4. LeaseHeld'
    BY NoProcAssumption DEF CreateFails, IInv, TypeOK, Move, LeaseHeld, Holding
  <1>5. RecoveryReadsFrozenFile' /\ ServedKept'
    BY DEF CreateFails, IInv, TypeOK, Move, RecoveryReadsFrozenFile, ServedKept, Kept,
           journalVars
  <1> QED BY <1>1, <1>2, <1>3, <1>4, <1>5 DEF IInv

LEMMA ReleaseInv ==
    ASSUME IInv, NEW p \in Procs, Release(p) PROVE IInv'
  <1>1. TypeOK'
    BY DEF Release, IInv, TypeOK, Move, Stages, journalVars, dirVars
  <1>2. JournalInv'
    BY DEF Release, IInv, JournalInv, JournalType, journalVars
  <1>3. OneCreator' /\ LeaseHeld'
    BY NoProcAssumption DEF Release, IInv, TypeOK, Move, OneCreator, Staked, LeaseHeld,
           Holding, dirVars
  <1>4. RecoveryReadsFrozenFile' /\ ServedKept'
    BY DEF Release, IInv, TypeOK, Move, RecoveryReadsFrozenFile, ServedKept, Kept,
           journalVars
  <1> QED BY <1>1, <1>2, <1>3, <1>4 DEF IInv

LEMMA DieInv ==
    ASSUME IInv, NEW p \in Procs, Die(p) PROVE IInv'
  <1>1. EmptyIndex \in [Ops -> Record \union {NoRecord}]
    BY DEF EmptyIndex
  <1>2. TypeOK'
    BY <1>1 DEF Die, IInv, TypeOK, Move, Stages, dirVars
  <1>3. JournalInv'
    BY <1>1 DEF Die, IInv, JournalInv, JournalType
  <1>4. OneCreator'
    BY DEF Die, IInv, TypeOK, Move, OneCreator, Staked, dirVars
  <1>5. LeaseHeld'
    BY NoProcAssumption DEF Die, IInv, TypeOK, Move, LeaseHeld, Holding
  <1>6. RecoveryReadsFrozenFile' /\ ServedKept'
    BY DEF Die, IInv, TypeOK, Move, RecoveryReadsFrozenFile, ServedKept, Kept
  <1> QED BY <1>2, <1>3, <1>4, <1>5, <1>6 DEF IInv

LEMMA AcquireRecoveryInv ==
    ASSUME IInv, NEW p \in Procs, AcquireRecovery(p) PROVE IInv'
  <1>1. TypeOK'
    BY DEF AcquireRecovery, IInv, TypeOK, Move, Stages, journalVars, dirVars
  <1>2. JournalInv'
    BY DEF AcquireRecovery, IInv, JournalInv, JournalType, journalVars
  <1>3. OneCreator'
    BY DEF AcquireRecovery, IInv, TypeOK, Move, OneCreator, Staked, dirVars
  <1>4. LeaseHeld'
    BY NoProcAssumption DEF AcquireRecovery, IInv, TypeOK, Move, LeaseHeld, Holding
  <1>5. RecoveryReadsFrozenFile' /\ ServedKept'
    BY DEF AcquireRecovery, IInv, TypeOK, Move, RecoveryReadsFrozenFile, ServedKept,
           Kept, journalVars
  <1> QED BY <1>1, <1>2, <1>3, <1>4, <1>5 DEF IInv

LEMMA LoadRecoveryInv ==
    ASSUME IInv, NEW p \in Procs, LoadRecovery(p) PROVE IInv'
  <1>1. LatestOf(disk) \in [Ops -> Record \union {NoRecord}]
    BY LatestType DEF LatestOf, IInv, TypeOK
  <1>2. TypeOK'
    BY <1>1 DEF LoadRecovery, IInv, TypeOK, Move, Stages, journalVars, dirVars
  <1>3. JournalInv'
    BY DEF LoadRecovery, IInv, JournalInv, JournalType, journalVars
  <1>4. OneCreator' /\ LeaseHeld'
    BY DEF LoadRecovery, IInv, TypeOK, Move, OneCreator, Staked, LeaseHeld, Holding,
           dirVars
  <1>5. RecoveryReadsFrozenFile' /\ ServedKept'
    BY DEF LoadRecovery, Loadable, IInv, TypeOK, Move, RecoveryReadsFrozenFile,
           ServedKept, Kept, journalVars
  <1> QED BY <1>2, <1>3, <1>4, <1>5 DEF IInv

LEMMA EndRecoveryInv ==
    ASSUME IInv, NEW p \in Procs, EndRecovery(p) PROVE IInv'
  <1>1. EmptyIndex \in [Ops -> Record \union {NoRecord}]
    BY DEF EmptyIndex
  <1>2. TypeOK'
    BY <1>1 DEF EndRecovery, IInv, TypeOK, Move, Stages, journalVars, dirVars
  <1>3. JournalInv'
    BY DEF EndRecovery, IInv, JournalInv, JournalType, journalVars
  <1>4. OneCreator'
    BY DEF EndRecovery, IInv, TypeOK, Move, OneCreator, Staked, dirVars
  <1>5. LeaseHeld'
    BY NoProcAssumption DEF EndRecovery, IInv, TypeOK, Move, LeaseHeld, Holding
  <1>6. RecoveryReadsFrozenFile' /\ ServedKept'
    BY DEF EndRecovery, IInv, TypeOK, Move, RecoveryReadsFrozenFile, ServedKept, Kept,
           journalVars
  <1> QED BY <1>2, <1>3, <1>4, <1>5, <1>6 DEF IInv

-----------------------------------------------------------------------------
(* Steps of the owner on the journal *)

LEMMA OwnerGetInv ==
    ASSUME IInv, NEW p \in Procs, NEW op \in Ops, OwnerGet(p, op) PROVE IInv'
  <1>1. index[op] \in Record /\ index[op] = Latest(disk, op) /\ index[op].op = op
    <2>1. index[op] = Latest(disk, op)
      BY DEF OwnerGet, IInv, JournalInv, LatestOf
    <2>2. index[op] \in Record
      BY DEF OwnerGet, IInv, TypeOK
    <2>3. Latest(disk, op).op = op
      BY <2>1, <2>2, LatestType, NoRecordAssumption DEF IInv, TypeOK
    <2> QED BY <2>1, <2>2, <2>3
  <1>2. TypeOK'
    BY <1>1 DEF OwnerGet, IInv, TypeOK, journalVars, dirVars
  <1>3. JournalInv'
    BY DEF OwnerGet, IInv, JournalInv, JournalType, journalVars
  <1>4. OneCreator' /\ LeaseHeld' /\ RecoveryReadsFrozenFile'
    BY DEF OwnerGet, IInv, OneCreator, Staked, LeaseHeld, Holding,
           RecoveryReadsFrozenFile, journalVars, dirVars
  <1>5. Kept(index[op])
    BY <1>1, NoRecordAssumption DEF Kept
  <1>6. ServedKept'
    BY <1>5 DEF OwnerGet, IInv, ServedKept, Kept, journalVars
  <1> QED BY <1>2, <1>3, <1>4, <1>6 DEF IInv

\* No append reaches the file behind a recoverer's back: the owner that could
\* write would hold the lease the recoverer holds.
LEMMA AppendKeepsRecoverers ==
    ASSUME IInv, NEW p \in Procs, NEW how \in AppendOutcome(p), InMemory(p),
           NEW r \in Record, Persist(r, how), at' = at, view' = view
    PROVE  RecoveryReadsFrozenFile'
  <1> SUFFICES ASSUME NEW q \in Procs, at[q] = "reading"
               PROVE  ~torn' /\ view[q] = LatestOf(disk')
    BY DEF RecoveryReadsFrozenFile
  <1>1. lease = q /\ at[p] # "reading"
    BY DEF IInv, LeaseHeld, Holding, InMemory
  <1>2. at[p] # "owner"
    BY <1>1 DEF IInv, LeaseHeld, Holding
  <1>3. how = "nothing"
    BY <1>2 DEF AppendOutcome
  <1>4. disk' = disk /\ torn' = torn
    BY <1>3 DEF Persist, IInv, TypeOK
  <1> QED BY <1>4 DEF IInv, RecoveryReadsFrozenFile

LEMMA OutcomeType ==
    ASSUME NEW p \in Procs, NEW how \in AppendOutcome(p) PROVE how \in AppendOutcomes
  BY DEF AppendOutcome, AppendOutcomes

LEMMA OwnerTryStartInv ==
    ASSUME IInv, NEW p \in Procs, NEW op \in Ops, NEW in \in Inputs,
           OwnerTryStart(p, op, in)
    PROVE  IInv'
  <1>1. PICK how \in AppendOutcome(p) : TryStart(op, in, how)
    BY DEF OwnerTryStart
  <1>2. how \in AppendOutcomes /\ JournalInv
    BY OutcomeType DEF IInv
  <1> DEFINE r == Rec(op, in, "started")
  <1>3. r \in Record /\ Latest(disk, op) = NoRecord /\ r.op = op
    BY <1>1, <1>2, TryStartValid DEF Rec
  <1>4. Persist(r, how)
    BY <1>1 DEF TryStart
  <1> HIDE DEF r
  <1>5. JournalInv'
    BY <1>1, <1>2, TryStartInv
  <1>6. UNCHANGED <<at, lease, dirVars, view, served>>
    BY DEF OwnerTryStart
  <1>7. TypeOK'
    BY <1>5, <1>6 DEF IInv, TypeOK, JournalInv, JournalType, dirVars
  <1>8. OneCreator' /\ LeaseHeld'
    BY <1>6 DEF IInv, OneCreator, Staked, LeaseHeld, Holding, dirVars
  <1>9. RecoveryReadsFrozenFile'
    BY <1>3, <1>4, <1>6, AppendKeepsRecoverers DEF OwnerTryStart
  <1>10. ServedKept'
    <2> SUFFICES ASSUME NEW s \in served PROVE Kept(s)'
      BY <1>6 DEF ServedKept
    <2>1. Kept(s)
      BY DEF IInv, ServedKept
    <2>2. s.op # op
      BY <1>3, <2>1 DEF Kept
    <2>3. Latest(disk', s.op) = Latest(disk, s.op)
      BY <1>2, <1>3, <1>4, <2>2, LatestAfterPersist DEF IInv, TypeOK
    <2> QED BY <2>1, <2>3 DEF Kept
  <1> QED BY <1>5, <1>7, <1>8, <1>9, <1>10 DEF IInv

LEMMA OwnerAppendTerminalInv ==
    ASSUME IInv, NEW p \in Procs, NEW op \in Ops, NEW in \in Inputs,
           NEW st \in TerminalStates, OwnerAppendTerminal(p, op, in, st)
    PROVE  IInv'
  <1> DEFINE r == Rec(op, in, st)
  <1>1. PICK how \in AppendOutcome(p) :
           /\ AppendTerminal(op, in, st, how)
           /\ served' = IF how = "ok" THEN served \union {r} ELSE served
    BY DEF OwnerAppendTerminal
  <1>2. how \in AppendOutcomes /\ JournalInv
    BY OutcomeType DEF IInv
  <1>3. /\ r \in Record /\ r.op = op /\ r.input = in /\ r.state = st
        /\ ValidTransition(Latest(disk, op), r)
    BY <1>1, <1>2, AppendTerminalValid DEF Rec
  <1>4. Persist(r, how)
    BY <1>1 DEF AppendTerminal
  <1> HIDE DEF r
  <1>5. JournalInv'
    BY <1>1, <1>2, AppendTerminalInv
  <1>6. UNCHANGED <<at, lease, dirVars, view>>
    BY DEF OwnerAppendTerminal
  <1>7. TypeOK'
    BY <1>1, <1>3, <1>5, <1>6 DEF IInv, TypeOK, JournalInv, JournalType, dirVars
  <1>8. OneCreator' /\ LeaseHeld'
    BY <1>6 DEF IInv, OneCreator, Staked, LeaseHeld, Holding, dirVars
  <1>9. RecoveryReadsFrozenFile'
    BY <1>3, <1>4, <1>6, AppendKeepsRecoverers DEF OwnerAppendTerminal
  <1>10. ASSUME NEW s \in served PROVE Kept(s)'
    <2>1. Kept(s) /\ s \in Record
      BY DEF IInv, ServedKept, TypeOK
    <2>2. CASE Latest(disk', s.op) = Latest(disk, s.op)
      BY <2>1, <2>2 DEF Kept
    <2>3. CASE s.op = op /\ Latest(disk', s.op) = r
      <3>1. Latest(disk, op).state = "started" /\ Latest(disk, op).input = in
        BY <1>3, <2>1, <2>3 DEF Kept, ValidTransition
      <3>2. s.state \notin TerminalStates
        BY <2>1, <2>3, <3>1 DEF Kept, TerminalStates, StartedStates, NotStartedStates
      <3> QED BY <1>3, <2>1, <2>3, <3>1, <3>2, NoRecordAssumption DEF Kept
    <2> QED
      BY <1>2, <1>3, <1>4, <2>2, <2>3, LatestAfterPersist DEF IInv, TypeOK
  <1>11. ASSUME how = "ok" PROVE Kept(r)'
    <2>1. Latest(disk', op) = r
      BY <1>2, <1>3, <1>4, <1>11, LatestAfterPersist DEF IInv, TypeOK
    <2> QED BY <1>3, <2>1, NoRecordAssumption DEF Kept
  <1>12. ServedKept'
    BY <1>1, <1>10, <1>11 DEF ServedKept
  <1> QED BY <1>5, <1>7, <1>8, <1>9, <1>12 DEF IInv

-----------------------------------------------------------------------------
(* Theorems *)

LEMMA StutterInv == IInv /\ UNCHANGED vars => IInv'
  BY DEF IInv, vars, TypeOK, JournalInv, JournalType, OneCreator, Staked, LeaseHeld,
         Holding, RecoveryReadsFrozenFile, ServedKept, Kept

LEMMA NextInv == IInv /\ [Next]_vars => IInv'
  <1> SUFFICES ASSUME IInv, [Next]_vars PROVE IInv'
    OBVIOUS
  <1>1. CASE UNCHANGED vars
    BY <1>1, StutterInv
  <1>2. CASE Next
    <2> PICK p \in Procs :
           \/ CheckAbsent(p) \/ CreateLock(p) \/ WriteMetadata(p)
           \/ CreateJournal(p) \/ CreateFails(p)
           \/ Release(p) \/ Die(p)
           \/ AcquireRecovery(p) \/ LoadRecovery(p) \/ EndRecovery(p)
           \/ \E op \in Ops :
                 \/ OwnerGet(p, op)
                 \/ \E in \in Inputs :
                       \/ OwnerTryStart(p, op, in)
                       \/ \E st \in TerminalStates : OwnerAppendTerminal(p, op, in, st)
      BY <1>2 DEF Next
    <2> QED
      BY CheckAbsentInv, CreateLockInv, WriteMetadataInv, CreateJournalInv,
         CreateFailsInv, ReleaseInv, DieInv, AcquireRecoveryInv, LoadRecoveryInv,
         EndRecoveryInv, OwnerGetInv, OwnerTryStartInv, OwnerAppendTerminalInv
  <1> QED BY <1>1, <1>2

THEOREM InvariantHolds == Spec => []IInv
  <1> QED BY InitInv, NextInv, PTL DEF Spec

\* Every variable of the journal and of the processes around it keeps its type.
THEOREM TypeCorrect == Spec => []TypeOK
  <1>1. IInv => TypeOK
    BY DEF IInv
  <1> QED BY InvariantHolds, <1>1, PTL

\* The index a process answers from is what a reader of the file would find
\* (OperationJournal.cs 145-161).
THEOREM IndexIsTheFile == Spec => []IndexMirrorsDisk
  <1>1. IInv => IndexMirrorsDisk
    BY DEF IInv, JournalInv, IndexMirrorsDisk
  <1> QED BY InvariantHolds, <1>1, PTL

\* Failed appends and crashes never leave complete lines the strict loader
\* refuses (OperationJournal.cs 50-57).
THEOREM FileReplays == Spec => []DiskReplayable
  <1>1. IInv => DiskReplayable
    BY DEF IInv, JournalInv, DiskReplayable
  <1> QED BY InvariantHolds, <1>1, PTL

\* Recovery answers from the file as it is for as long as it holds the lease
\* (JournalOwner.cs 133-150).
THEOREM RecoveryIsFrozen == Spec => []RecoveryReadsFrozenFile
  <1>1. IInv => RecoveryReadsFrozenFile
    BY DEF IInv
  <1> QED BY InvariantHolds, <1>1, PTL

\* Recovery never contradicts or forgets what the owner answered
\* (JournalOwner.cs 64-95).
THEOREM RecoveryAgrees == Spec => []RecoveryNeverRegresses
  <1>1. IInv => RecoveryNeverRegresses
    <2> SUFFICES ASSUME IInv, NEW p \in Procs, at[p] = "reading", NEW r \in served
                 PROVE  /\ view[p][r.op] # NoRecord
                        /\ view[p][r.op].input = r.input
                        /\ r.state \in TerminalStates => view[p][r.op] = r
      BY DEF RecoveryNeverRegresses
    <2>1. r.op \in Ops
      BY DEF IInv, TypeOK, Record
    <2>2. view[p][r.op] = Latest(disk, r.op)
      BY <2>1 DEF IInv, RecoveryReadsFrozenFile, LatestOf
    <2> QED BY <2>2 DEF IInv, ServedKept, Kept
  <1> QED BY InvariantHolds, <1>1, PTL

LEMMA LedgerInit == Init => Ledger!Init
  BY EmptyLog DEF Init, JournalInit, Ledger!Init, EmptyIndex

LEMMA LedgerNext == IInv /\ [Next]_vars => [Ledger!Next]_(LatestOf(disk))
  <1> SUFFICES ASSUME IInv, [Next]_vars
               PROVE  Ledger!Next \/ LatestOf(disk') = LatestOf(disk)
    OBVIOUS
  <1>1. CASE disk' = disk
    BY <1>1
  <1>2. CASE \E p \in Procs, op \in Ops, in \in Inputs : OwnerTryStart(p, op, in)
    <2> PICK p \in Procs, op \in Ops, in \in Inputs : OwnerTryStart(p, op, in)
      BY <1>2
    <2>1. PICK how \in AppendOutcome(p) : TryStart(op, in, how)
      BY DEF OwnerTryStart
    <2>2. LatestOf(disk') = LatestOf(disk) \/ Ledger!Claim(op, in)
      BY <2>1, OutcomeType, TryStartClaims DEF IInv
    <2> QED BY <2>2 DEF Ledger!Next
  <1>3. CASE \E p \in Procs, op \in Ops, in \in Inputs, st \in TerminalStates :
                OwnerAppendTerminal(p, op, in, st)
    <2> PICK p \in Procs, op \in Ops, in \in Inputs, st \in TerminalStates :
                OwnerAppendTerminal(p, op, in, st)
      BY <1>3
    <2>1. PICK how \in AppendOutcome(p) : AppendTerminal(op, in, st, how)
      BY DEF OwnerAppendTerminal
    <2>2. \/ LatestOf(disk') = LatestOf(disk)
          \/ st \in StartedStates /\ Ledger!Resolve(op, st)
          \/ st \in NotStartedStates /\ Ledger!Tombstone(op, in, st)
      BY <2>1, OutcomeType, AppendTerminalResolves DEF IInv
    <2> QED BY <2>2 DEF Ledger!Next
  <1>4. \/ disk' = disk
        \/ \E p \in Procs, op \in Ops, in \in Inputs : OwnerTryStart(p, op, in)
        \/ \E p \in Procs, op \in Ops, in \in Inputs, st \in TerminalStates :
              OwnerAppendTerminal(p, op, in, st)
    BY DEF Next, vars, journalVars, CheckAbsent, CreateLock, WriteMetadata,
           CreateJournal, CreateFails, Release, Die, AcquireRecovery, LoadRecovery,
           EndRecovery, OwnerGet
  <1> QED BY <1>1, <1>2, <1>3, <1>4

\* The file is an implementation of the ledger: whatever fails or dies, an
\* operation id is claimed once and resolved once (OperationJournal.cs 85-125).
THEOREM LedgerImplemented == Spec => ImplementsLedger
  BY InvariantHolds, LedgerInit, LedgerNext, PTL DEF Spec, ImplementsLedger, Ledger!Spec

-----------------------------------------------------------------------------
(* The context queries *)

ActiveIsOpen == active # NoDoc => document[active] = "open"

\* Keys are handed out once.
KeysDistinct ==
    /\ \A d \in Docs : entries[d] # NoEntry => entries[d].key <= lastKey
    /\ \A d, e \in Docs :
          entries[d] # NoEntry /\ entries[e] # NoEntry /\ entries[d].key = entries[e].key
              => d = e

\* What a snapshot still says about the tracker.
Current(s) ==
    /\ s.key <= lastKey
    /\ s.at <= changes[s.doc]
    /\ document[s.doc] # "unopened"
    /\ \A d \in Docs : entries[d] # NoEntry /\ entries[d].key = s.key => d = s.doc
    /\ Usable /\ document[s.doc] = "open" =>
          /\ entries[s.doc] # NoEntry
          /\ entries[s.doc].key = s.key
          /\ entries[s.doc].revision - s.revision = changes[s.doc] - s.at

\* Whatever a client holds or a query was answered with.
Known == {result[q] : q \in Queries} \union {held[c] : c \in Clients}

SnapshotsCurrent == \A s \in Snapshot \intersect Known : Current(s)

\* A query is unsettled exactly while it is pending; a client's request is not
\* from the future.
QueriesPending ==
    /\ pending # NoQuery => result[pending] = Unsettled
    /\ \A q \in Queries : result[q] = Unsettled => pending = q
    /\ disposed => pending = NoQuery
    /\ raised /\ ~disposed => pending # NoQuery
    /\ \A c \in Clients, d \in Docs : client[c].since[d] <= changes[d]

ContextInv ==
    /\ ContextTypeOK
    /\ ActiveIsOpen
    /\ KeysDistinct
    /\ SnapshotsCurrent
    /\ QueriesPending
    /\ RunsOnWhatWasSeen
    /\ AnswersAreFresh
    /\ PendingHasWakeup

-----------------------------------------------------------------------------
LEMMA ContextInitInv == ContextInit => ContextInv
  <1> SUFFICES ASSUME ContextInit PROVE ContextInv
    OBVIOUS
  <1> USE DEF ContextInit, TrackerInit
  <1>1. 0 \in 0 .. MaxChanges
    BY ChangesAssumption
  <1>2. NoSnapshot \notin Snapshot /\ NoSnapshot # Unsettled
    BY ResultAssumption, NullAssumption
  <1>3. ContextTypeOK
    BY <1>1 DEF ContextTypeOK, TrackerTypeOK, Idle, Counts
  <1>4. ActiveIsOpen /\ KeysDistinct /\ SnapshotsCurrent
    BY <1>2 DEF ActiveIsOpen, KeysDistinct, SnapshotsCurrent, Known
  <1>5. QueriesPending
    BY <1>1, <1>2 DEF QueriesPending, Idle
  <1>6. RunsOnWhatWasSeen /\ AnswersAreFresh /\ PendingHasWakeup
    BY DEF RunsOnWhatWasSeen, AnswersAreFresh, PendingHasWakeup, Idle
  <1> QED BY <1>3, <1>4, <1>5, <1>6 DEF ContextInv

-----------------------------------------------------------------------------
(* The tracker *)

\* The entry a valid document has or gets: its key belongs to no other document.
LEMMA FindOrCreateFacts ==
    ASSUME ContextInv, Usable, NEW d \in Docs, document[d] = "open"
    PROVE  LET e == FindOrCreate(d) IN
           /\ e \in Entry
           /\ entries[d] # NoEntry => e = entries[d]
           /\ entries[d] = NoEntry => e = [key |-> lastKey + 1, revision |-> 0]
           /\ PruneInvalid(Valid)[d] = entries[d]
  <1>1. d \in Valid
    BY DEF Valid
  <1>2. PruneInvalid(Valid)[d] = entries[d]
    BY <1>1 DEF PruneInvalid
  <1> QED BY <1>2 DEF FindOrCreate, NewEntry, ContextInv, ContextTypeOK, TrackerTypeOK, Entry

\* Observing an open document, with its revision as it was or one more.
LEMMA ObserveKeys ==
    ASSUME ContextInv, Usable, NEW d \in Docs, document[d] = "open",
           NEW e \in Entry, e.key = FindOrCreate(d).key,
           Observe(d, e)
    PROVE  /\ entries' \in [Docs -> Entry \union {NoEntry}]
           /\ lastKey' \in Nat /\ failed' \in BOOLEAN
           /\ lastKey' >= lastKey
           /\ entries'[d] = e
           /\ \A x \in Docs : x # d => entries'[x] \in {entries[x], NoEntry}
           /\ \A x \in Docs : x # d /\ document[x] = "open" => entries'[x] = entries[x]
           /\ KeysDistinct'
  <1> DEFINE kept == PruneInvalid(Valid)
  <1>1. entries \in [Docs -> Entry \union {NoEntry}] /\ lastKey \in Nat /\ failed \in BOOLEAN
    BY DEF ContextInv, ContextTypeOK, TrackerTypeOK
  <1>2. kept \in [Docs -> Entry \union {NoEntry}]
    BY <1>1 DEF PruneInvalid
  <1>3. \A x \in Docs : kept[x] \in {entries[x], NoEntry}
                        /\ (document[x] = "open" => kept[x] = entries[x])
    BY DEF PruneInvalid, Valid
  <1>4. /\ entries' = [kept EXCEPT ![d] = e]
        /\ lastKey' = IF kept[d] = NoEntry THEN lastKey + 1 ELSE lastKey
        /\ failed' = failed
    BY DEF Observe
  <1>5. entries'[d] = e /\ \A x \in Docs : x # d => entries'[x] = kept[x]
    BY <1>2, <1>4
  <1>6. entries' \in [Docs -> Entry \union {NoEntry}] /\ lastKey' \in Nat /\ lastKey' >= lastKey
    BY <1>1, <1>2, <1>4
  <1>7. KeysDistinct'
    <2>1. e.key = IF kept[d] = NoEntry THEN lastKey + 1 ELSE entries[d].key
      BY FindOrCreateFacts
    <2>2. \A x \in Docs : kept[x] # NoEntry => kept[x] = entries[x] /\ kept[x].key <= lastKey
      BY <1>3 DEF ContextInv, KeysDistinct
    <2>3. e.key <= lastKey'
      BY <1>1, <1>3, <1>4, <2>1, <2>2
    <2>4. \A x \in Docs : entries'[x] # NoEntry => entries'[x].key <= lastKey'
      BY <1>1, <1>2, <1>5, <1>6, <2>2, <2>3 DEF Entry
    <2>5. \A x \in Docs : x # d /\ entries'[x] # NoEntry => entries'[x].key # e.key
      BY <1>1, <1>2, <1>3, <1>5, <2>1, <2>2 DEF ContextInv, KeysDistinct, Entry
    <2>6. \A x, y \in Docs : x # d /\ y # d /\ entries'[x] # NoEntry /\ entries'[y] # NoEntry
                             /\ entries'[x].key = entries'[y].key => x = y
      BY <1>5, <2>2 DEF ContextInv, KeysDistinct
    <2>7. \A x, y \in Docs : entries'[x] # NoEntry /\ entries'[y] # NoEntry
                             /\ entries'[x].key = entries'[y].key => x = y
      BY <1>5, <2>5, <2>6
    <2> QED BY <2>4, <2>7 DEF KeysDistinct
  <1> QED BY <1>1, <1>3, <1>4, <1>5, <1>6, <1>7

\* A snapshot stays current when an open document is observed and `by` changes
\* of it are counted.
LEMMA ObserveCurrent ==
    ASSUME ContextInv, Usable, NEW d \in Docs, document[d] = "open",
           NEW by \in {0, 1},
           Observe(d, [FindOrCreate(d) EXCEPT !.revision = @ + by]),
           changes' = [changes EXCEPT ![d] = @ + by],
           UNCHANGED <<document, retired>>,
           NEW s \in Snapshot, Current(s)
    PROVE  Current(s)'
  <1> DEFINE e == [FindOrCreate(d) EXCEPT !.revision = @ + by]
  <1>0. FindOrCreate(d) \in Entry
    BY FindOrCreateFacts
  <1>1. e \in Entry /\ e.key = FindOrCreate(d).key /\ e.revision = FindOrCreate(d).revision + by
    BY <1>0 DEF Entry
  <1>2. /\ lastKey' \in Nat /\ lastKey' >= lastKey
        /\ entries'[d] = e
        /\ \A x \in Docs : x # d => entries'[x] \in {entries[x], NoEntry}
        /\ \A x \in Docs : x # d /\ document[x] = "open" => entries'[x] = entries[x]
    BY <1>1, ObserveKeys
  <1>3. changes \in [Docs -> 0 .. MaxChanges] /\ lastKey \in Nat /\ MaxChanges \in Nat
        /\ entries \in [Docs -> Entry \union {NoEntry}]
    BY ChangesAssumption DEF ContextInv, ContextTypeOK, TrackerTypeOK
  <1>4. s.doc \in Docs /\ s.key \in Nat /\ s.revision \in Nat /\ s.at \in 0 .. MaxChanges
    BY DEF Snapshot
  <1>5. changes'[s.doc] = IF s.doc = d THEN changes[d] + by ELSE changes[s.doc]
    BY <1>3, <1>4
  <1>6. s.key <= lastKey' /\ s.at <= changes'[s.doc] /\ document'[s.doc] # "unopened"
    BY <1>2, <1>3, <1>4, <1>5 DEF Current
  <1>7. entries[d] = NoEntry => e.key > s.key
    BY <1>1, <1>3, <1>4, FindOrCreateFacts DEF Current
  <1>8. \A x \in Docs : entries'[x] # NoEntry /\ entries'[x].key = s.key => x = s.doc
    <2>1. e.key = s.key => d = s.doc
      BY <1>1, <1>4, <1>7, FindOrCreateFacts DEF Current, Entry
    <2>2. \A x \in Docs : x # d /\ entries'[x] # NoEntry /\ entries'[x].key = s.key => x = s.doc
      BY <1>2 DEF Current
    <2> QED BY <1>2, <2>1, <2>2
  <1>9. ASSUME Usable', document'[s.doc] = "open"
        PROVE  /\ entries'[s.doc] # NoEntry
               /\ entries'[s.doc].key = s.key
               /\ entries'[s.doc].revision - s.revision = changes'[s.doc] - s.at
    <2>1. /\ entries[s.doc] # NoEntry
          /\ entries[s.doc].key = s.key
          /\ entries[s.doc].revision - s.revision = changes[s.doc] - s.at
      BY <1>9 DEF Current
    <2>2. CASE s.doc # d
      BY <1>2, <1>4, <1>5, <1>9, <2>1, <2>2
    <2>3. CASE s.doc = d
      <3>1. FindOrCreate(d) = entries[d]
        BY <2>1, <2>3, FindOrCreateFacts
      <3>2. entries'[s.doc].key = s.key /\ entries'[s.doc].revision = entries[d].revision + by
        BY <1>1, <1>2, <2>1, <2>3, <3>1
      <3>3. entries[d].revision \in Nat /\ changes[d] \in Nat
        BY <1>0, <1>3, <3>1 DEF Entry
      <3>4. entries'[s.doc] # NoEntry
        BY <1>1, <1>2, <2>3, EntryAssumption DEF Entry
      <3> QED BY <1>4, <1>5, <2>1, <2>3, <3>2, <3>3, <3>4
    <2> QED BY <2>2, <2>3
  <1> QED BY <1>6, <1>8, <1>9 DEF Current

\* What every step of the tracker and of the documents does for the invariant.
TrackerKept ==
    /\ TrackerTypeOK'
    /\ ActiveIsOpen'
    /\ KeysDistinct'
    /\ \A s \in Snapshot : Current(s) => Current(s)'
    /\ \A d \in Docs : changes[d] <= changes'[d]

LEMMA ObserveKept ==
    ASSUME ContextInv, Usable, NEW d \in Docs, document[d] = "open",
           NEW by \in {0, 1}, changes[d] + by <= MaxChanges,
           Observe(d, [FindOrCreate(d) EXCEPT !.revision = @ + by]),
           changes' = [changes EXCEPT ![d] = @ + by],
           UNCHANGED <<document, active, retired>>
    PROVE  TrackerKept
  <1> DEFINE e == [FindOrCreate(d) EXCEPT !.revision = @ + by]
  <1>1. e \in Entry /\ e.key = FindOrCreate(d).key
    BY FindOrCreateFacts DEF Entry
  <1>2. changes \in [Docs -> 0 .. MaxChanges] /\ MaxChanges \in Nat
    BY ChangesAssumption DEF ContextInv, ContextTypeOK, TrackerTypeOK
  <1>3. entries' \in [Docs -> Entry \union {NoEntry}] /\ lastKey' \in Nat /\ failed' \in BOOLEAN
        /\ KeysDistinct'
    BY <1>1, ObserveKeys
  <1>4. changes' \in [Docs -> 0 .. MaxChanges] /\ \A x \in Docs : changes[x] <= changes'[x]
    BY <1>2
  <1>5. TrackerTypeOK'
    BY <1>3, <1>4 DEF ContextInv, ContextTypeOK, TrackerTypeOK
  <1>6. ActiveIsOpen'
    BY DEF ContextInv, ActiveIsOpen
  <1>7. \A s \in Snapshot : Current(s) => Current(s)'
    BY ObserveCurrent
  <1> QED BY <1>3, <1>4, <1>5, <1>6, <1>7 DEF TrackerKept

\* With the tracker out of use, entries no longer matter.
LEMMA UnusableKept ==
    ASSUME ContextInv, UNCHANGED <<document, active, entries, lastKey, retired>>,
           failed' \in BOOLEAN, ~Usable',
           changes' \in [Docs -> 0 .. MaxChanges],
           \A d \in Docs : changes[d] <= changes'[d]
    PROVE  TrackerKept
  <1>1. TrackerTypeOK'
    BY DEF ContextInv, ContextTypeOK, TrackerTypeOK
  <1>2. ActiveIsOpen' /\ KeysDistinct'
    BY DEF ContextInv, ActiveIsOpen, KeysDistinct
  <1>3. ASSUME NEW s \in Snapshot, Current(s) PROVE Current(s)'
    <2>1. s.doc \in Docs /\ s.at \in 0 .. MaxChanges
      BY DEF Snapshot
    <2>2. changes[s.doc] \in 0 .. MaxChanges /\ changes'[s.doc] \in 0 .. MaxChanges
      BY <2>1 DEF ContextInv, ContextTypeOK, TrackerTypeOK
    <2>3. s.at <= changes'[s.doc]
      BY <1>3, <2>1, <2>2, ChangesAssumption DEF Current
    <2> QED BY <1>3, <2>3 DEF Current
  <1> QED BY <1>1, <1>2, <1>3 DEF TrackerKept

LEMMA ActivateKept == ASSUME ContextInv, NEW d \in Docs, Activate(d) PROVE TrackerKept
  <1> USE DEF Activate, trackerVars
  <1>1. TrackerTypeOK'
    BY DEF ContextInv, ContextTypeOK, TrackerTypeOK
  <1>2. document'[d] = "open" /\ \A x \in Docs : x # d => document'[x] = document[x]
    BY DEF ContextInv, ContextTypeOK, TrackerTypeOK
  <1>3. ActiveIsOpen' /\ KeysDistinct'
    BY <1>2 DEF ContextInv, ActiveIsOpen, KeysDistinct
  <1>4. ASSUME NEW s \in Snapshot, Current(s) PROVE Current(s)'
    <2>1. s.doc \in Docs
      BY DEF Snapshot
    <2>2. document'[s.doc] = document[s.doc]
      BY <1>2, <1>4, <2>1 DEF Current, ContextInv, ContextTypeOK, TrackerTypeOK
    <2> QED BY <1>4, <2>2 DEF Current, Usable
  <1>5. \A x \in Docs : changes[x] <= changes'[x]
    BY ChangesAssumption DEF ContextInv, ContextTypeOK, TrackerTypeOK
  <1> QED BY <1>1, <1>3, <1>4, <1>5 DEF TrackerKept

LEMMA ChangedKept == ASSUME ContextInv, NEW d \in Docs, DocumentChanged(d) PROVE TrackerKept
  <1>1. changes \in [Docs -> 0 .. MaxChanges] /\ MaxChanges \in Nat /\ failed \in BOOLEAN
    BY ChangesAssumption DEF ContextInv, ContextTypeOK, TrackerTypeOK
  <1>2. document[d] = "open" /\ changes[d] < MaxChanges
        /\ changes' = [changes EXCEPT ![d] = @ + 1]
        /\ UNCHANGED <<document, active, retired>>
    BY DEF DocumentChanged
  <1>3. changes' \in [Docs -> 0 .. MaxChanges] /\ \A x \in Docs : changes[x] <= changes'[x]
    BY <1>1, <1>2
  <1>4. CASE Usable /\ Observe(d, [FindOrCreate(d) EXCEPT !.revision = @ + 1])
    <2>1. 1 \in {0, 1} /\ changes[d] + 1 <= MaxChanges
      BY <1>1, <1>2
    <2> QED BY <1>2, <1>4, <2>1, ObserveKept
  <1>5. CASE Usable /\ Fail
    BY <1>2, <1>3, <1>5, UnusableKept DEF Fail, Usable
  <1>6. CASE ~Usable /\ UNCHANGED <<entries, lastKey, failed>>
    BY <1>1, <1>2, <1>3, <1>6, UnusableKept DEF Usable
  <1> QED BY <1>4, <1>5, <1>6 DEF DocumentChanged

LEMMA ClosedKept == ASSUME ContextInv, NEW d \in Docs, DocumentClosed(d) PROVE TrackerKept
  <1>1. /\ entries \in [Docs -> Entry \union {NoEntry}] /\ failed \in BOOLEAN
        /\ changes \in [Docs -> 0 .. MaxChanges] /\ active \in Docs \union {NoDoc}
        /\ document \in [Docs -> {"unopened", "open", "closed"}]
    BY DEF ContextInv, ContextTypeOK, TrackerTypeOK
  <1>2. /\ document' = [document EXCEPT ![d] = "closed"]
        /\ active' = IF active = d THEN NoDoc ELSE active
        /\ UNCHANGED <<changes, retired, lastKey>>
    BY DEF DocumentClosed, Fail
  <1>3. \/ ~Usable' /\ entries' = entries /\ failed' \in BOOLEAN
        \/ entries' = PruneInvalid(Valid \ {d}) /\ failed' = failed
    <2>1. CASE Usable /\ entries' = PruneInvalid(Valid \ {d}) /\ UNCHANGED <<lastKey, failed>>
      BY <2>1
    <2>2. CASE Usable /\ Fail
      BY <2>2 DEF Fail, Usable
    <2>3. CASE ~Usable /\ UNCHANGED <<entries, lastKey, failed>>
      BY <1>1, <1>2, <2>3 DEF Usable
    <2> QED BY <2>1, <2>2, <2>3 DEF DocumentClosed
  <1>4. \A x \in Docs : entries'[x] \in {entries[x], NoEntry}
    BY <1>3 DEF PruneInvalid
  <1>5. entries' \in [Docs -> Entry \union {NoEntry}] /\ failed' \in BOOLEAN
    BY <1>1, <1>3 DEF PruneInvalid
  <1>6. TrackerTypeOK'
    BY <1>1, <1>2, <1>5 DEF ContextInv, ContextTypeOK, TrackerTypeOK
  <1>7. ActiveIsOpen'
    BY <1>1, <1>2 DEF ContextInv, ActiveIsOpen
  <1>8. KeysDistinct'
    BY <1>2, <1>4 DEF ContextInv, KeysDistinct
  <1>9. ASSUME NEW s \in Snapshot, Current(s) PROVE Current(s)'
    <2>1. s.doc \in Docs
      BY DEF Snapshot
    <2>2. s.key <= lastKey' /\ s.at <= changes'[s.doc] /\ document'[s.doc] # "unopened"
      BY <1>1, <1>2, <1>9, <2>1 DEF Current
    <2>3. \A x \in Docs : entries'[x] # NoEntry /\ entries'[x].key = s.key => x = s.doc
      BY <1>4, <1>9 DEF Current
    <2>4. ASSUME Usable', document'[s.doc] = "open"
          PROVE  Usable /\ document[s.doc] = "open" /\ entries'[s.doc] = entries[s.doc]
      <3>1. s.doc # d /\ document[s.doc] = "open"
        BY <1>1, <1>2, <2>1, <2>4
      <3>2. entries' = PruneInvalid(Valid \ {d}) /\ Usable
        BY <1>2, <1>3, <2>4 DEF Usable
      <3> QED BY <2>1, <3>1, <3>2 DEF PruneInvalid, Valid
    <2> QED BY <1>2, <1>9, <2>2, <2>3, <2>4 DEF Current
  <1>10. \A x \in Docs : changes[x] <= changes'[x]
    BY <1>1, <1>2, ChangesAssumption
  <1> QED BY <1>6, <1>7, <1>8, <1>9, <1>10 DEF TrackerKept

LEMMA DisposeKept == ASSUME ContextInv, DisposeTracker PROVE TrackerKept
  <1> USE DEF DisposeTracker, documentVars
  <1>1. TrackerTypeOK'
    BY DEF ContextInv, ContextTypeOK, TrackerTypeOK
  <1>2. ActiveIsOpen' /\ KeysDistinct'
    BY DEF ContextInv, ActiveIsOpen, KeysDistinct
  <1>3. \A s \in Snapshot : Current(s) => Current(s)'
    BY DEF Current, Usable
  <1>4. \A x \in Docs : changes[x] <= changes'[x]
    BY ChangesAssumption DEF ContextInv, ContextTypeOK, TrackerTypeOK
  <1> QED BY <1>1, <1>2, <1>3, <1>4 DEF TrackerKept

LEMMA StillKept == ASSUME ContextInv, UNCHANGED documentVars, UNCHANGED trackerVars PROVE TrackerKept
  <1> USE DEF documentVars, trackerVars
  <1>1. TrackerTypeOK'
    BY DEF ContextInv, ContextTypeOK, TrackerTypeOK
  <1>2. ActiveIsOpen' /\ KeysDistinct'
    BY DEF ContextInv, ActiveIsOpen, KeysDistinct
  <1>3. \A s \in Snapshot : Current(s) => Current(s)'
    BY DEF Current, Usable
  <1>4. \A x \in Docs : changes[x] <= changes'[x]
    BY ChangesAssumption DEF ContextInv, ContextTypeOK, TrackerTypeOK
  <1> QED BY <1>1, <1>2, <1>3, <1>4 DEF TrackerKept

-----------------------------------------------------------------------------
(* Captures *)

\* An observation that counts nothing.
LEMMA CountNothing ==
    ASSUME ContextInv, active # NoDoc, Usable, UNCHANGED documentVars, UNCHANGED retired,
           Observe(active, FindOrCreate(active))
    PROVE  /\ TrackerKept
           /\ entries'[active] = FindOrCreate(active)
           /\ Usable'
  <1>1. active \in Docs /\ document[active] = "open"
    BY DEF ContextInv, ActiveIsOpen, ContextTypeOK, TrackerTypeOK
  <1>2. FindOrCreate(active) \in Entry
    BY <1>1, FindOrCreateFacts
  <1>3. FindOrCreate(active) = [FindOrCreate(active) EXCEPT !.revision = @ + 0]
    BY <1>2 DEF Entry
  <1>4. changes \in [Docs -> 0 .. MaxChanges] /\ MaxChanges \in Nat
    BY ChangesAssumption DEF ContextInv, ContextTypeOK, TrackerTypeOK
  <1>5. changes' = [changes EXCEPT ![active] = @ + 0] /\ changes[active] + 0 <= MaxChanges
    BY <1>1, <1>4 DEF documentVars
  <1>6. UNCHANGED <<document, active, retired>>
    BY DEF documentVars
  <1>7. Observe(active, [FindOrCreate(active) EXCEPT !.revision = @ + 0])
    BY <1>3
  <1>8. TrackerKept
    BY <1>1, <1>5, <1>6, <1>7, ObserveKept
  <1>9. entries'[active] = FindOrCreate(active)
    BY <1>1, <1>2, ObserveKeys
  <1>10. Usable'
    BY DEF Observe, Usable
  <1> QED BY <1>8, <1>9, <1>10

\* A capture that returns: what it returned is current.
LEMMA CaptureCurrent ==
    ASSUME ContextInv, Captures, UNCHANGED documentVars
    PROVE  /\ TrackerKept
           /\ Seen \in Snapshot \union {NoSnapshot}
           /\ Seen \in Snapshot =>
                /\ active \in Docs /\ document[active] = "open" /\ Usable'
                /\ Seen.doc = active /\ Seen.at = changes[active]
                /\ entries'[active] \in Entry
                /\ entries'[active].key = Seen.key /\ entries'[active].revision = Seen.revision
                /\ \A s \in Snapshot : s = Seen => Current(s)'
  <1>1. CASE active = NoDoc
    BY <1>1, StillKept, DocAssumption, ResultAssumption DEF Captures, Seen
  <1>2. CASE active # NoDoc
    <2> DEFINE e == FindOrCreate(active)
    <2>1. active \in Docs /\ document[active] = "open"
      BY <1>2 DEF ContextInv, ActiveIsOpen, ContextTypeOK, TrackerTypeOK
    <2>2. Usable /\ Observe(active, e) /\ UNCHANGED retired
      BY <1>2 DEF Captures
    <2>3. TrackerKept /\ entries'[active] = e /\ Usable'
      BY <1>2, <2>2, CountNothing
    <2>4. e \in Entry
      BY <2>1, <2>2, FindOrCreateFacts
    <2>5. Seen = SnapshotOf(active, e) /\ changes[active] \in 0 .. MaxChanges
      BY <1>2, <2>1 DEF Seen, ContextInv, ContextTypeOK, TrackerTypeOK
    <2>6. /\ Seen \in Snapshot /\ Seen.doc = active /\ Seen.at = changes[active]
          /\ Seen.key = e.key /\ Seen.revision = e.revision
      BY <2>1, <2>4, <2>5 DEF SnapshotOf, Snapshot, Entry
    <2>7. entries'[active] # NoEntry
      BY <2>3, <2>4, EntryAssumption DEF Entry
    <2> HIDE DEF e
    <2>8. ASSUME NEW s \in Snapshot, s = Seen PROVE Current(s)'
      <3>1. e.key <= lastKey' /\ \A x \in Docs : entries'[x] # NoEntry /\ entries'[x].key = e.key => x = active
        BY <2>1, <2>3, <2>7 DEF TrackerKept, KeysDistinct
      <3>2. changes' = changes /\ document' = document
        BY DEF documentVars
      <3>3. e.revision - e.revision = changes[active] - changes[active]
        BY <2>4, <2>5, ChangesAssumption DEF Entry
      <3>4. changes[active] <= changes[active]
        BY <2>5, ChangesAssumption
      <3> QED BY <2>1, <2>3, <2>6, <2>7, <2>8, <3>1, <3>2, <3>3, <3>4 DEF Current
    <2>9. active \in Docs /\ document[active] = "open" /\ entries'[active] \in Entry
          /\ entries'[active].key = Seen.key /\ entries'[active].revision = Seen.revision
      BY <2>1, <2>3, <2>4, <2>6
    <2> QED BY <2>3, <2>6, <2>8, <2>9
  <1> QED BY <1>1, <1>2

LEMMA ThrowKept == ASSUME ContextInv, CaptureThrows, UNCHANGED documentVars PROVE TrackerKept
  <1>1. active # NoDoc /\ UNCHANGED retired
    BY DEF CaptureThrows
  <1>2. changes' \in [Docs -> 0 .. MaxChanges] /\ \A x \in Docs : changes[x] <= changes'[x]
    BY ChangesAssumption DEF documentVars, ContextInv, ContextTypeOK, TrackerTypeOK
  <1>3. CASE Usable /\ Observe(active, FindOrCreate(active))
    BY <1>1, <1>3, CountNothing
  <1>4. CASE Usable /\ Fail
    BY <1>1, <1>2, <1>4, UnusableKept DEF Fail, Usable, documentVars
  <1>5. CASE ~Usable /\ UNCHANGED <<entries, lastKey, failed>>
    BY <1>1, <1>2, <1>5, UnusableKept DEF Usable, documentVars, ContextInv, ContextTypeOK, TrackerTypeOK
  <1> QED BY <1>3, <1>4, <1>5 DEF CaptureThrows

-----------------------------------------------------------------------------
(* Steps *)

\* A value of `result` or `held` that is not a snapshot is one of the nulls.
LEMMA ResultFacts ==
    ASSUME ContextInv
    PROVE  /\ result \in [Queries -> Snapshot \union {NoSnapshot, Unsettled, Failed}]
           /\ client \in [Clients -> [query : Queries \union {NoQuery}, since : Counts]]
           /\ held \in [Clients -> Snapshot \union {NoSnapshot}]
           /\ NoSnapshot \notin Snapshot /\ Unsettled \notin Snapshot /\ Failed \notin Snapshot
           /\ Unsettled # Failed /\ Unsettled # NoSnapshot /\ NoQuery \notin Queries
           /\ pending \in Queries \union {NoQuery}
  BY ResultAssumption, NullAssumption, QueryAssumption DEF ContextInv, ContextTypeOK

\* What is known after a step was known before it or is current after it.
LEMMA KnownKept ==
    ASSUME ContextInv, TrackerKept,
           \A s \in Snapshot \intersect Known' : s \in Known \/ Current(s)'
    PROVE  SnapshotsCurrent'
  <1>1. ASSUME NEW s \in Snapshot, s \in Known' PROVE Current(s)'
    BY <1>1 DEF ContextInv, SnapshotsCurrent, TrackerKept
  <1> QED BY <1>1 DEF SnapshotsCurrent

\* Steps that leave the queries alone.
LEMMA QueriesUntouched ==
    ASSUME ContextInv, TrackerKept, UNCHANGED <<queryVars, client, held>>,
           lastRun' \in [seen : Snapshot, doc : Docs, at : 0 .. MaxChanges] \union {NoSnapshot},
           RunsOnWhatWasSeen'
    PROVE  ContextInv'
  <1> USE DEF queryVars
  <1>1. ContextTypeOK' /\ ActiveIsOpen' /\ KeysDistinct'
    BY DEF TrackerKept, ContextInv, ContextTypeOK
  <1>2. SnapshotsCurrent'
    BY KnownKept DEF Known
  <1>3. QueriesPending'
    <2>1. ASSUME NEW c \in Clients, NEW d \in Docs PROVE client'[c].since[d] <= changes'[d]
      <3>1. client[c].since[d] <= changes[d] /\ changes[d] <= changes'[d]
        BY DEF ContextInv, QueriesPending, TrackerKept
      <3>2. client[c].since[d] \in 0 .. MaxChanges
        BY DEF ContextInv, ContextTypeOK, Counts
      <3>3. changes[d] \in 0 .. MaxChanges /\ changes'[d] \in 0 .. MaxChanges
        BY DEF ContextInv, ContextTypeOK, TrackerKept, TrackerTypeOK
      <3> QED BY <3>1, <3>2, <3>3, ChangesAssumption
    <2> QED BY <2>1 DEF ContextInv, QueriesPending
  <1>4. AnswersAreFresh' /\ PendingHasWakeup'
    BY DEF ContextInv, AnswersAreFresh, PendingHasWakeup
  <1> QED BY <1>1, <1>2, <1>3, <1>4 DEF ContextInv

LEMMA RevitEventInv ==
    ASSUME ContextInv, RevitEvent, UNCHANGED <<queryVars, client, held, lastRun>>
    PROVE  ContextInv'
  <1>1. TrackerKept
    BY ActivateKept, ChangedKept, ClosedKept DEF RevitEvent
  <1>2. RunsOnWhatWasSeen' /\ lastRun' = lastRun
    BY DEF ContextInv, RunsOnWhatWasSeen
  <1> QED BY <1>1, <1>2, QueriesUntouched DEF ContextInv, ContextTypeOK

LEMMA DisposeRevisionsInv == ASSUME ContextInv, DisposeRevisions PROVE ContextInv'
  <1>1. TrackerKept /\ UNCHANGED <<queryVars, client, held, lastRun>>
    BY DisposeKept DEF DisposeRevisions
  <1>2. RunsOnWhatWasSeen' /\ lastRun' = lastRun
    BY <1>1 DEF ContextInv, RunsOnWhatWasSeen
  <1> QED BY <1>1, <1>2, QueriesUntouched DEF ContextInv, ContextTypeOK

\* A capture that matches a current snapshot is of its document, unchanged.
LEMMA MatchIsSame ==
    ASSUME ContextInv, Captures, UNCHANGED documentVars,
           NEW s \in Snapshot, s \in Known, Matches(Seen, s)
    PROVE  Seen \in Snapshot /\ active = s.doc /\ changes[active] = s.at
  <1>1. /\ TrackerKept /\ Seen \in Snapshot
        /\ active \in Docs /\ document[active] = "open" /\ Usable'
        /\ Seen.doc = active /\ Seen.at = changes[active]
        /\ entries'[active] \in Entry
        /\ entries'[active].key = Seen.key /\ entries'[active].revision = Seen.revision
    BY CaptureCurrent DEF Matches
  <1>2. Current(s)'
    BY <1>1 DEF ContextInv, SnapshotsCurrent, TrackerKept
  <1>3. Seen.key = s.key /\ Seen.revision = s.revision
    BY DEF Matches
  <1>4. changes' = changes /\ document' = document
    BY DEF documentVars
  <1>5. entries'[active] # NoEntry
    BY <1>1, EntryAssumption DEF Entry
  <1>6. active = s.doc
    BY <1>1, <1>2, <1>3, <1>5 DEF Current
  <1>7. entries'[active].revision - s.revision = changes[active] - s.at
    BY <1>1, <1>2, <1>4, <1>6 DEF Current
  <1>8. s.revision \in Nat /\ s.at \in Nat /\ changes[active] \in Nat
    BY <1>1, ChangesAssumption DEF Snapshot, ContextInv, ContextTypeOK, TrackerTypeOK
  <1> QED BY <1>1, <1>3, <1>6, <1>7, <1>8

LEMMA EngineContextInv == ASSUME ContextInv, NEW c \in Clients, EngineContext(c) PROVE ContextInv'
  <1>1. held[c] \in Snapshot /\ held[c] \in Known
    BY ResultFacts DEF EngineContext, Known
  <1>2. UNCHANGED <<documentVars, queryVars, client, held>>
    BY DEF EngineContext
  <1>3. TrackerKept
    BY <1>2, CaptureCurrent, ThrowKept DEF EngineContext
  <1>4. CASE lastRun' = lastRun
    <2>1. RunsOnWhatWasSeen'
      BY <1>4 DEF ContextInv, RunsOnWhatWasSeen
    <2> QED BY <1>2, <1>3, <1>4, <2>1, QueriesUntouched DEF ContextInv, ContextTypeOK
  <1>5. CASE /\ Captures /\ Matches(Seen, held[c])
             /\ lastRun' = [seen |-> held[c], doc |-> active, at |-> changes[active]]
    <2>1. active = held[c].doc /\ changes[active] = held[c].at
      BY <1>1, <1>2, <1>5, MatchIsSame
    <2>2. held[c].doc \in Docs /\ held[c].at \in 0 .. MaxChanges
      BY <1>1 DEF Snapshot
    <2>3. RunsOnWhatWasSeen'
      BY <1>5, <2>1 DEF RunsOnWhatWasSeen
    <2> QED BY <1>1, <1>2, <1>3, <1>5, <2>1, <2>2, <2>3, QueriesUntouched
  <1> QED BY <1>4, <1>5 DEF EngineContext

LEMMA ExecuteInv == ASSUME ContextInv, Execute PROVE ContextInv'
  <1> USE DEF documentVars
  <1>1. /\ raised /\ ~disposed /\ raised' = FALSE /\ pending' = NoQuery
        /\ UNCHANGED <<documentVars, disposed, threw, client, held, lastRun>>
    BY DEF Execute
  <1>2. pending \in Queries
    BY <1>1, ResultFacts DEF ContextInv, QueriesPending
  <1>3. PICK r : /\ result' = [result EXCEPT ![pending] = r]
                 /\ TrackerKept
                 /\ r \in Snapshot \union {NoSnapshot, Failed}
                 /\ r \in Snapshot => r.doc \in Docs /\ r.at = changes[r.doc] /\ Current(r)'
    <2>1. CASE Captures /\ result' = [result EXCEPT ![pending] = Seen]
      <3>1. PICK s : s = Seen
        OBVIOUS
      <3> QED BY <1>1, <2>1, <3>1, CaptureCurrent
    <2>2. CASE CaptureThrows /\ result' = [result EXCEPT ![pending] = Failed]
      BY <1>1, <2>2, ThrowKept, ResultFacts
    <2> QED BY <2>1, <2>2 DEF Execute
  <1>4. result'[pending] = r /\ \A q \in Queries : q # pending => result'[q] = result[q]
    BY <1>2, <1>3, ResultFacts
  <1>5. ContextTypeOK' /\ ActiveIsOpen' /\ KeysDistinct'
    BY <1>1, <1>2, <1>3 DEF TrackerKept, ContextInv, ContextTypeOK
  <1>6. SnapshotsCurrent'
    <2>1. \A s \in Snapshot \intersect Known' : s \in Known \/ s = r
      BY <1>1, <1>4 DEF Known
    <2>2. \A s \in Snapshot \intersect Known' : s \in Known \/ Current(s)'
      BY <1>3, <2>1
    <2> QED BY <1>3, <2>2, KnownKept
  <1>7. changes' = changes
    BY <1>1
  <1>8. QueriesPending'
    <2>1. \A q \in Queries : result'[q] # Unsettled
      BY <1>3, <1>4, ResultFacts DEF ContextInv, QueriesPending
    <2> QED BY <1>1, <1>7, <2>1 DEF ContextInv, QueriesPending
  <1>9. AnswersAreFresh'
    <2> SUFFICES ASSUME NEW c \in Clients, client[c].query # NoQuery,
                        result'[client[c].query] \notin {Unsettled, Failed, NoSnapshot}
                 PROVE  result'[client[c].query].at >= client[c].since[result'[client[c].query].doc]
      BY <1>1 DEF AnswersAreFresh
    <2>1. client[c].query \in Queries
      BY ResultFacts
    <2>2. CASE client[c].query # pending
      BY <1>4, <2>1, <2>2 DEF ContextInv, AnswersAreFresh
    <2>3. CASE client[c].query = pending
      <3>1. r \in Snapshot /\ result'[client[c].query] = r
        BY <1>3, <1>4, <2>3
      <3>2. r.doc \in Docs /\ r.at = changes[r.doc]
        BY <1>3, <3>1
      <3>3. client[c].since[r.doc] <= changes[r.doc]
        BY <3>2 DEF ContextInv, QueriesPending
      <3>4. client[c].since[r.doc] \in Nat /\ changes[r.doc] \in Nat
        BY <3>2, ChangesAssumption, ResultFacts DEF Counts, ContextInv, ContextTypeOK, TrackerTypeOK
      <3> QED BY <3>1, <3>2, <3>3, <3>4
    <2> QED BY <2>2, <2>3
  <1>10. RunsOnWhatWasSeen' /\ PendingHasWakeup'
    BY <1>1 DEF ContextInv, RunsOnWhatWasSeen, PendingHasWakeup
  <1> QED BY <1>5, <1>6, <1>8, <1>9, <1>10 DEF ContextInv

\* Steps of clients and of shutdown leave documents and tracker alone.
LEMMA TrackerUntouched ==
    ASSUME ContextInv, UNCHANGED <<documentVars, trackerVars, lastRun>>
    PROVE  /\ TrackerKept
           /\ changes' = changes
           /\ TrackerTypeOK' /\ ActiveIsOpen' /\ KeysDistinct'
           /\ RunsOnWhatWasSeen'
           /\ lastRun' \in [seen : Snapshot, doc : Docs, at : 0 .. MaxChanges] \union {NoSnapshot}
  <1>1. TrackerKept
    BY StillKept
  <1> QED BY <1>1 DEF TrackerKept, documentVars, ContextInv, ContextTypeOK, RunsOnWhatWasSeen

\* A client begins to wait for a query that has no result yet.
LEMMA WaitFacts ==
    ASSUME ContextInv, NEW c \in Clients, NEW q \in Queries, Wait(c, q)
    PROVE  /\ client' \in [Clients -> [query : Queries \union {NoQuery}, since : Counts]]
           /\ client'[c].query = q
           /\ \A x \in Clients : x # c => client'[x] = client[x]
           /\ \A x \in Clients, d \in Docs : client'[x].since[d] <= changes[d]
  <1>1. changes \in Counts
    BY DEF ContextInv, ContextTypeOK, TrackerTypeOK, Counts
  <1>2. client'[c] = [query |-> q, since |-> changes] /\ \A x \in Clients : x # c => client'[x] = client[x]
    BY ResultFacts DEF Wait
  <1>3. client' \in [Clients -> [query : Queries \union {NoQuery}, since : Counts]]
    BY <1>1, ResultFacts DEF Wait
  <1>4. \A d \in Docs : changes[d] <= changes[d]
    BY <1>1, ChangesAssumption DEF Counts
  <1>5. \A x \in Clients, d \in Docs : client'[x].since[d] <= changes[d]
    BY <1>2, <1>4 DEF ContextInv, QueriesPending
  <1>6. client'[c].query = q
    BY <1>2
  <1> QED BY <1>2, <1>3, <1>5, <1>6

LEMMA CaptureInv == ASSUME ContextInv, NEW c \in Clients, Capture(c) PROVE ContextInv'
  <1>1. /\ ~disposed /\ disposed' = disposed /\ held' = held
        /\ UNCHANGED <<documentVars, trackerVars, lastRun>>
    BY DEF Capture
  <1>2. /\ TrackerKept /\ changes' = changes
        /\ TrackerTypeOK' /\ ActiveIsOpen' /\ KeysDistinct' /\ RunsOnWhatWasSeen'
        /\ lastRun' \in [seen : Snapshot, doc : Docs, at : 0 .. MaxChanges] \union {NoSnapshot}
    BY <1>1, TrackerUntouched
  <1>3. CASE pending # NoQuery /\ Wait(c, pending) /\ UNCHANGED <<pending, raised, threw, result>>
    <2>1. pending \in Queries /\ result[pending] = Unsettled
      BY <1>3, ResultFacts DEF ContextInv, QueriesPending
    <2>2. ContextTypeOK'
      BY <1>1, <1>2, <1>3, <2>1, WaitFacts DEF ContextInv, ContextTypeOK
    <2>3. SnapshotsCurrent'
      BY <1>1, <1>2, <1>3, KnownKept DEF Known
    <2>4. QueriesPending'
      BY <1>1, <1>2, <1>3, <2>1, WaitFacts DEF ContextInv, QueriesPending
    <2>5. AnswersAreFresh'
      <3> SUFFICES ASSUME NEW x \in Clients, client'[x].query # NoQuery,
                          result[client'[x].query] \notin {Unsettled, Failed, NoSnapshot}
                   PROVE  LET answer == result[client'[x].query]
                          IN answer.at >= client'[x].since[answer.doc]
        BY <1>3 DEF AnswersAreFresh
      <3>1. client'[c].query = pending /\ \A y \in Clients : y # c => client'[y] = client[y]
        BY <1>3, <2>1, WaitFacts
      <3>2. client'[x] = client[x]
        BY <2>1, <3>1
      <3> QED BY <3>2 DEF ContextInv, AnswersAreFresh
    <2>6. PendingHasWakeup'
      BY <1>3 DEF ContextInv, PendingHasWakeup
    <2> QED BY <1>2, <2>2, <2>3, <2>4, <2>5, <2>6 DEF ContextInv
  <1>4. ASSUME pending = NoQuery, NEW q \in Free, Raise(c, q) PROVE ContextInv'
    <2>1. q \in Queries /\ \A x \in Clients : client[x].query # q
      BY DEF Free
    <2>2. PICK r \in {Unsettled, Failed} :
            /\ result' = [result EXCEPT ![q] = r]
            /\ \/ r = Unsettled /\ pending' = q /\ raised' = TRUE /\ Wait(c, q)
               \/ r = Unsettled /\ pending' = q /\ raised' = raised /\ client' = client
               \/ r = Failed /\ pending' = NoQuery /\ raised' = raised /\ client' = client
      BY <1>4 DEF Raise
    <2>3. result'[q] = r /\ \A x \in Queries : x # q => result'[x] = result[x]
      BY <2>1, <2>2, ResultFacts
    <2>4. Wait(c, q) \/ client' = client
      BY <2>2
    <2>5. client' \in [Clients -> [query : Queries \union {NoQuery}, since : Counts]]
          /\ \A x \in Clients, d \in Docs : client'[x].since[d] <= changes[d]
      BY <2>1, <2>4, WaitFacts, ResultFacts DEF ContextInv, QueriesPending
    <2>6. ContextTypeOK'
      <3>1. result' \in [Queries -> Snapshot \union {NoSnapshot, Unsettled, Failed}]
        BY <2>1, <2>2, ResultFacts
      <3>2. pending' \in Queries \union {NoQuery}
        BY <2>1, <2>2
      <3>3. raised' \in BOOLEAN /\ threw' \in BOOLEAN
        BY <1>4 DEF Raise, ContextInv, ContextTypeOK
      <3> QED BY <1>1, <1>2, <2>5, <3>1, <3>2, <3>3 DEF ContextInv, ContextTypeOK
    <2>7. SnapshotsCurrent'
      <3>1. \A s \in Snapshot \intersect Known' : s \in Known
        BY <1>1, <2>3, ResultFacts DEF Known
      <3> QED BY <1>2, <3>1, KnownKept
    <2>8. QueriesPending'
      <3>1. \A x \in Queries : result[x] # Unsettled
        BY <1>4, ResultFacts DEF ContextInv, QueriesPending
      <3>2. \A x \in Queries : result'[x] = Unsettled => pending' = x
        BY <2>2, <2>3, <3>1, ResultFacts
      <3>3. pending' # NoQuery => result'[pending'] = Unsettled
        BY <2>2, <2>3
      <3>4. raised' => pending' # NoQuery
        <4>1. ~raised /\ q # NoQuery
          BY <1>1, <1>4, <2>1, ResultFacts DEF ContextInv, QueriesPending
        <4> QED BY <2>2, <4>1
      <3> QED BY <1>1, <1>2, <2>5, <3>2, <3>3, <3>4 DEF QueriesPending
    <2>9. AnswersAreFresh'
      <3> SUFFICES ASSUME NEW x \in Clients, client'[x].query # NoQuery,
                          result'[client'[x].query] \notin {Unsettled, Failed, NoSnapshot}
                   PROVE  LET answer == result'[client'[x].query]
                          IN answer.at >= client'[x].since[answer.doc]
        BY DEF AnswersAreFresh
      <3>1. client'[x].query # q
        BY <2>2, <2>3
      <3>2. client'[x] = client[x] /\ client[x].query \in Queries
        <4>1. client'[x] = client[x]
          <5>1. CASE Wait(c, q)
            <6>1. client'[c].query = q /\ \A y \in Clients : y # c => client'[y] = client[y]
              BY <2>1, <5>1, WaitFacts
            <6> QED BY <3>1, <6>1
          <5> QED BY <2>4, <5>1
        <4> QED BY <4>1, ResultFacts
      <3>3. result'[client'[x].query] = result[client[x].query]
        BY <2>3, <3>1, <3>2
      <3> QED BY <3>2, <3>3 DEF ContextInv, AnswersAreFresh
    <2>10. PendingHasWakeup'
      BY <1>4 DEF Raise, PendingHasWakeup
    <2> QED BY <1>2, <2>6, <2>7, <2>8, <2>9, <2>10 DEF ContextInv
  <1> QED BY <1>3, <1>4 DEF Capture

LEMMA AnswerInv == ASSUME ContextInv, NEW c \in Clients, Answer(c) PROVE ContextInv'
  <1>1. /\ client[c].query \in Queries
        /\ client' = [client EXCEPT ![c] = Idle]
        /\ UNCHANGED <<documentVars, trackerVars, lastRun>>
        /\ UNCHANGED <<pending, raised, disposed, threw, result>>
    BY ResultFacts DEF Answer, queryVars
  <1>2. /\ TrackerKept /\ changes' = changes
        /\ TrackerTypeOK' /\ ActiveIsOpen' /\ KeysDistinct' /\ RunsOnWhatWasSeen'
        /\ lastRun' \in [seen : Snapshot, doc : Docs, at : 0 .. MaxChanges] \union {NoSnapshot}
    BY <1>1, TrackerUntouched
  <1>3. Idle \in [query : Queries \union {NoQuery}, since : Counts]
    BY ChangesAssumption DEF Idle, Counts
  <1>4. /\ client' \in [Clients -> [query : Queries \union {NoQuery}, since : Counts]]
        /\ client'[c] = Idle
        /\ \A x \in Clients : x # c => client'[x] = client[x]
    BY <1>1, <1>3, ResultFacts
  <1>5. \/ held' = held
        \/ /\ result[client[c].query] \in Snapshot
           /\ held' = [held EXCEPT ![c] = result[client[c].query]]
    BY <1>1, ResultFacts DEF Answer
  <1>6. ContextTypeOK'
    <2>1. held' \in [Clients -> Snapshot \union {NoSnapshot}]
      BY <1>5, ResultFacts
    <2> QED BY <1>1, <1>2, <1>4, <2>1 DEF ContextInv, ContextTypeOK
  <1>7. SnapshotsCurrent'
    <2>1. \A x \in Clients : held'[x] = held[x] \/ held'[x] = result[client[c].query]
      BY <1>5, ResultFacts
    <2>2. Known' \subseteq Known
      BY <1>1, <2>1 DEF Known
    <2> QED BY <1>2, <2>2, KnownKept
  <1>8. QueriesPending'
    <2>1. \A x \in Clients, d \in Docs : client'[x].since[d] <= changes[d]
      <3>1. \A d \in Docs : 0 <= changes[d]
        BY ChangesAssumption DEF ContextInv, ContextTypeOK, TrackerTypeOK
      <3>2. \A d \in Docs : client'[c].since[d] = 0
        BY <1>4 DEF Idle
      <3> QED BY <1>4, <3>1, <3>2 DEF ContextInv, QueriesPending
    <2> QED BY <1>1, <1>2, <2>1 DEF ContextInv, QueriesPending
  <1>9. AnswersAreFresh'
    BY <1>1, <1>4 DEF ContextInv, AnswersAreFresh, Idle
  <1>10. PendingHasWakeup'
    BY <1>1 DEF ContextInv, PendingHasWakeup
  <1> QED BY <1>2, <1>6, <1>7, <1>8, <1>9, <1>10 DEF ContextInv

LEMMA DisposeInv == ASSUME ContextInv, Dispose PROVE ContextInv'
  <1>1. /\ disposed' = TRUE /\ pending' = NoQuery
        /\ UNCHANGED <<raised, threw, client, held>>
        /\ UNCHANGED <<documentVars, trackerVars, lastRun>>
    BY DEF Dispose
  <1>2. /\ TrackerKept /\ changes' = changes
        /\ TrackerTypeOK' /\ ActiveIsOpen' /\ KeysDistinct' /\ RunsOnWhatWasSeen'
        /\ lastRun' \in [seen : Snapshot, doc : Docs, at : 0 .. MaxChanges] \union {NoSnapshot}
    BY <1>1, TrackerUntouched
  <1>3. result' \in [Queries -> Snapshot \union {NoSnapshot, Unsettled, Failed}]
    BY ResultFacts DEF Dispose
  <1>4. \A q \in Queries : result'[q] = IF q = pending THEN Failed ELSE result[q]
    BY ResultFacts DEF Dispose
  <1>5. ContextTypeOK'
    BY <1>1, <1>2, <1>3 DEF ContextInv, ContextTypeOK
  <1>6. SnapshotsCurrent'
    <2>1. \A s \in Snapshot \intersect Known' : s \in Known
      BY <1>1, <1>4, ResultFacts DEF Known
    <2> QED BY <1>2, <2>1, KnownKept
  <1>7. QueriesPending'
    <2>1. \A q \in Queries : result'[q] # Unsettled
      BY <1>4, ResultFacts DEF ContextInv, QueriesPending
    <2> QED BY <1>1, <1>2, <2>1 DEF ContextInv, QueriesPending
  <1>8. AnswersAreFresh'
    BY <1>1, <1>4, ResultFacts DEF ContextInv, AnswersAreFresh
  <1>9. PendingHasWakeup'
    BY <1>1 DEF PendingHasWakeup
  <1> QED BY <1>2, <1>5, <1>6, <1>7, <1>8, <1>9 DEF ContextInv

LEMMA ContextNextInv == ASSUME ContextInv, [ContextNext]_contextVars PROVE ContextInv'
  <1>1. CASE ContextNext
    BY <1>1, RevitEventInv, ExecuteInv, DisposeInv, DisposeRevisionsInv,
       CaptureInv, AnswerInv, EngineContextInv DEF ContextNext
  <1>2. CASE UNCHANGED contextVars
    <2>1. UNCHANGED <<documentVars, trackerVars, lastRun>> /\ UNCHANGED <<queryVars, client, held>>
      BY <1>2 DEF contextVars, documentVars, trackerVars, queryVars
    <2> QED BY <2>1, TrackerUntouched, QueriesUntouched
  <1> QED BY <1>1, <1>2

LEMMA ContextInvariantHolds == ContextSpec => []ContextInv
  <1> QED BY ContextInitInv, ContextNextInv, PTL DEF ContextSpec

-----------------------------------------------------------------------------
(* Theorems *)

\* The type invariant, for any documents, changes, clients and queries: the
\* tracker's list and the pending query never take another shape.
THEOREM ContextTypeCorrect == ContextSpec => []ContextTypeOK
  <1>1. ContextInv => ContextTypeOK
    BY DEF ContextInv
  <1> QED BY <1>1, ContextInvariantHolds, PTL

\* No execution is let through on a document that is not the one its client was
\* shown or that has changed since (ExecutionEngine.cs 44-47).
THEOREM RunsOnSeen == ContextSpec => []RunsOnWhatWasSeen
  <1>1. ContextInv => RunsOnWhatWasSeen
    BY DEF ContextInv
  <1> QED BY <1>1, ContextInvariantHolds, PTL

\* No request is answered from before it was made, however many share a query
\* (ContextQueryScheduler.cs 22-49).
THEOREM FreshAnswers == ContextSpec => []AnswersAreFresh
  <1>1. ContextInv => AnswersAreFresh
    BY DEF ContextInv
  <1> QED BY <1>1, ContextInvariantHolds, PTL

\* As long as Raise has not thrown, a pending query has an event coming
\* (ContextQueryScheduler.cs 27-34).
THEOREM WakeupPending == ContextSpec => []PendingHasWakeup
  <1>1. ContextInv => PendingHasWakeup
    BY DEF ContextInv
  <1> QED BY <1>1, ContextInvariantHolds, PTL

\* After shutdown no query is left without a result (ContextQueryScheduler.cs
\* 52-62).
THEOREM SettledByShutdown == ContextSpec => []ShutdownSettles
  <1>1. ContextInv => ShutdownSettles
    <2> SUFFICES ASSUME ContextInv, disposed, NEW q \in Queries PROVE result[q] # Unsettled
      BY DEF ShutdownSettles
    <2> QED BY ResultFacts DEF ContextInv, QueriesPending
  <1> QED BY <1>1, ContextInvariantHolds, PTL
=============================================================================
