-------------------------- MODULE JournalLogProofs --------------------------
(***************************************************************************)
(* Lemmas about OperationJournal's logs: what Latest returns, what one more  *)
(* record changes, and when the strict loader still accepts the result.     *)
(***************************************************************************)
EXTENDS OperationJournal, SequenceTheorems, WellFoundedInduction, TLAPS

\* A bounded, nonempty set of naturals has a greatest element.
LEMMA BoundedMax ==
    ASSUME NEW n \in Nat, NEW T \in SUBSET (0 .. n), T # {}
    PROVE  /\ Max(T) \in T
           /\ \A i \in T : i <= Max(T)
  <1> DEFINE C == {n - i : i \in T}
  <1>1. C \subseteq Nat /\ C # {}
    <2>1. \A i \in T : n - i \in Nat
      OBVIOUS
    <2>2. PICK i \in T : TRUE
      OBVIOUS
    <2>3. n - i \in C
      OBVIOUS
    <2> QED BY <2>1, <2>3
  <1> HIDE DEF C
  <1> DEFINE R == OpToRel(<, Nat)
  <1>r. \A a, b \in Nat : a < b => <<a, b>> \in R
    BY DEF OpToRel
  <1>w. IsWellFoundedOn(R, Nat)
    BY NatLessThanWellFounded
  <1> HIDE DEF R
  <1>2. PICK x \in C : \A y \in C : ~ (<<y, x>> \in R)
    BY <1>1, <1>w, WFMin
  <1>3. ASSUME NEW y \in C PROVE x <= y
    <2>1. x \in Nat /\ y \in Nat
      BY <1>1
    <2>2. ~ (y < x)
      BY <2>1, <1>2, <1>r
    <2> QED BY <2>1, <2>2
  <1>4. PICK m \in T : x = n - m
    BY <1>2 DEF C
  <1>5. \A i \in T : i <= m
    BY <1>3, <1>4 DEF C
  <1>6. \E k \in T : \A i \in T : k >= i
    BY <1>5
  <1> QED
    BY <1>6 DEF Max

\* Latest finds the last position of an operation id, or null.
LEMMA LatestPosition ==
    ASSUME NEW log \in Seq(Record), NEW op, Latest(log, op) # NoRecord
    PROVE  \E i \in 1 .. Len(log) :
             /\ Latest(log, op) = log[i]
             /\ log[i].op = op
             /\ \A j \in 1 .. Len(log) : log[j].op = op => j <= i
  <1> DEFINE P == Positions(log, op)
  <1>1. P # {} /\ Latest(log, op) = log[Max(P)]
    BY DEF Latest
  <1>2. P \in SUBSET (0 .. Len(log)) /\ Len(log) \in Nat
    BY DEF Positions
  <1>3. Max(P) \in P /\ \A j \in P : j <= Max(P)
    <2> HIDE DEF P
    <2> QED BY <1>1, <1>2, BoundedMax
  <1>4. Max(P) \in 1 .. Len(log) /\ log[Max(P)].op = op
    BY <1>3 DEF Positions
  <1>5. \A j \in 1 .. Len(log) : log[j].op = op => j <= Max(P)
    BY <1>3 DEF Positions
  <1> QED BY <1>1, <1>4, <1>5

\* Whatever Latest returns is null or a record of that operation id.
LEMMA LatestType ==
    ASSUME NEW log \in Seq(Record), NEW op
    PROVE  /\ Latest(log, op) \in Record \union {NoRecord}
           /\ Latest(log, op) # NoRecord => Latest(log, op).op = op
  <1>1. CASE Latest(log, op) = NoRecord
    BY <1>1
  <1>2. CASE Latest(log, op) # NoRecord
    BY <1>2, LatestPosition, ElementOfSeq
  <1> QED BY <1>1, <1>2

\* The position Latest reads is the only one with these properties.
LEMMA LatestIs ==
    ASSUME NEW log \in Seq(Record), NEW op, NEW i \in 1 .. Len(log),
           log[i].op = op, \A j \in 1 .. Len(log) : log[j].op = op => j <= i
    PROVE  Latest(log, op) = log[i]
  <1> DEFINE P == Positions(log, op)
  <1>1. i \in P /\ \A j \in P : j <= i /\ j \in Nat
    BY DEF Positions
  <1>2. P \in SUBSET (0 .. Len(log)) /\ Len(log) \in Nat
    BY DEF Positions
  <1>3. Max(P) \in P /\ \A j \in P : j <= Max(P)
    <2> HIDE DEF P
    <2> QED BY <1>1, <1>2, BoundedMax
  <1>4. Max(P) = i
    <2>1. Max(P) <= i /\ i <= Max(P) /\ Max(P) \in Nat
      BY <1>1, <1>3
    <2>2. i \in Nat
      OBVIOUS
    <2> QED BY <2>1, <2>2
  <1> QED
    BY <1>1, <1>4 DEF Latest

\* Nothing is recorded of an operation id that no record of the log has.
LEMMA LatestNone ==
    ASSUME NEW log \in Seq(Record), NEW op,
           \A j \in 1 .. Len(log) : log[j].op # op
    PROVE  Latest(log, op) = NoRecord
  BY DEF Latest, Positions

\* One more record is what Latest finds for its own operation id, and changes
\* nothing for the others.
LEMMA LatestAppend ==
    ASSUME NEW log \in Seq(Record), NEW r \in Record, NEW op
    PROVE  Latest(Append(log, r), op) = IF op = r.op THEN r ELSE Latest(log, op)
  <1> DEFINE new == Append(log, r)
  <1>1. /\ new \in Seq(Record)
        /\ Len(new) = Len(log) + 1
        /\ new[Len(log) + 1] = r
        /\ \A i \in 1 .. Len(log) : new[i] = log[i]
        /\ Len(log) \in Nat
    BY AppendProperties, LenProperties
  <1> HIDE DEF new
  <1>2. CASE op = r.op
    <2>1. Len(log) + 1 \in 1 .. Len(new)
      BY <1>1
    <2>2. \A j \in 1 .. Len(new) : new[j].op = op => j <= Len(log) + 1
      BY <1>1
    <2>3. Latest(new, op) = new[Len(log) + 1]
      BY <1>1, <1>2, <2>1, <2>2, LatestIs
    <2> QED BY <1>1, <1>2, <2>3 DEF new
  <1>3. CASE op # r.op /\ Latest(log, op) # NoRecord
    <2>1. PICK i \in 1 .. Len(log) :
             /\ Latest(log, op) = log[i]
             /\ log[i].op = op
             /\ \A j \in 1 .. Len(log) : log[j].op = op => j <= i
      BY <1>3, LatestPosition
    <2>2. i \in 1 .. Len(new) /\ new[i].op = op
      BY <1>1, <2>1
    <2>3. ASSUME NEW j \in 1 .. Len(new), new[j].op = op PROVE j <= i
      <3>1. j # Len(log) + 1
        BY <1>1, <1>3, <2>3
      <3>2. j \in 1 .. Len(log)
        BY <1>1, <3>1
      <3> QED BY <1>1, <2>1, <2>3, <3>2
    <2>4. Latest(new, op) = new[i]
      BY <1>1, <2>2, <2>3, LatestIs
    <2> QED BY <1>1, <1>3, <2>1, <2>4 DEF new
  <1>4. CASE op # r.op /\ Latest(log, op) = NoRecord
    <2>1. ASSUME NEW j \in 1 .. Len(log) PROVE log[j].op # op
      <3>1. SUFFICES ASSUME Positions(log, op) # {} PROVE FALSE
        BY DEF Positions
      <3>2. Latest(log, op) = log[Max(Positions(log, op))]
        BY <3>1 DEF Latest
      <3>3. Positions(log, op) \in SUBSET (0 .. Len(log)) /\ Len(log) \in Nat
        BY DEF Positions
      <3>4. Max(Positions(log, op)) \in 1 .. Len(log)
        <4>1. Max(Positions(log, op)) \in Positions(log, op)
          BY <3>1, <3>3, BoundedMax
        <4> QED BY <4>1 DEF Positions
      <3>5. Latest(log, op) \in Record
        BY <3>2, <3>4, ElementOfSeq
      <3> QED BY <1>4, <3>5, NoRecordAssumption
    <2>2. ASSUME NEW j \in 1 .. Len(new) PROVE new[j].op # op
      BY <1>1, <1>4, <2>1
    <2>3. Latest(new, op) = NoRecord
      BY <1>1, <2>2, LatestNone
    <2> QED BY <1>4, <2>3 DEF new
  <1> QED BY <1>2, <1>3, <1>4

\* The loader accepts one more record exactly as far as it follows from what
\* the log already says of its operation id.
LEMMA WellFormedAppend ==
    ASSUME NEW log \in Seq(Record), NEW r \in Record,
           WellFormed(log), ValidTransition(Latest(log, r.op), r)
    PROVE  WellFormed(Append(log, r))
  <1> DEFINE new == Append(log, r)
  <1>1. /\ new \in Seq(Record)
        /\ Len(new) = Len(log) + 1
        /\ new[Len(log) + 1] = r
        /\ \A i \in 1 .. Len(log) : new[i] = log[i]
        /\ Len(log) \in Nat
        /\ DOMAIN new = 1 .. Len(log) + 1
        /\ DOMAIN log = 1 .. Len(log)
    BY AppendProperties, LenProperties
  <1> HIDE DEF new
  <1>2. ASSUME NEW i \in 1 .. Len(log) + 1
        PROVE  SubSeq(new, 1, i - 1) = SubSeq(log, 1, i - 1)
    <2>1. /\ SubSeq(new, 1, i - 1) \in Seq(Record)
          /\ Len(SubSeq(new, 1, i - 1)) = i - 1
          /\ \A k \in 1 .. i - 1 : SubSeq(new, 1, i - 1)[k] = new[k]
      <3>1. \A k \in 1 .. i - 1 : new[k] \in Record
        BY <1>1
      <3> QED BY <1>1, <3>1, SubSeqProperties
    <2>2. /\ SubSeq(log, 1, i - 1) \in Seq(Record)
          /\ Len(SubSeq(log, 1, i - 1)) = i - 1
          /\ \A k \in 1 .. i - 1 : SubSeq(log, 1, i - 1)[k] = log[k]
      <3>1. \A k \in 1 .. i - 1 : log[k] \in Record
        BY <1>1
      <3> QED BY <1>1, <3>1, SubSeqProperties
    <2>3. \A k \in 1 .. i - 1 : new[k] = log[k]
      BY <1>1
    <2> QED BY <2>1, <2>2, <2>3, SeqEqual
  <1>3. ASSUME NEW i \in 1 .. Len(log)
        PROVE  ValidTransition(Latest(SubSeq(new, 1, i - 1), new[i].op), new[i])
    <2>1. ValidTransition(Latest(SubSeq(log, 1, i - 1), log[i].op), log[i])
      BY <1>1 DEF WellFormed
    <2>2. i \in 1 .. Len(log) + 1 /\ new[i] = log[i]
      BY <1>1
    <2>3. SubSeq(new, 1, i - 1) = SubSeq(log, 1, i - 1)
      BY <1>2, <2>2
    <2> QED BY <2>1, <2>2, <2>3
  <1>4. SubSeq(new, 1, Len(log)) = log
    BY <1>1, <1>2, SubSeqFull
  <1>5. ValidTransition(Latest(SubSeq(new, 1, (Len(log) + 1) - 1), new[Len(log) + 1].op),
                        new[Len(log) + 1])
    <2>1. (Len(log) + 1) - 1 = Len(log)
      BY <1>1
    <2> QED BY <1>1, <1>4, <2>1
  <1>6. \A i \in 1 .. Len(log) + 1 :
           ValidTransition(Latest(SubSeq(new, 1, i - 1), new[i].op), new[i])
    <2> SUFFICES ASSUME NEW i \in 1 .. Len(log) + 1
                 PROVE  ValidTransition(Latest(SubSeq(new, 1, i - 1), new[i].op), new[i])
      OBVIOUS
    <2>1. CASE i = Len(log) + 1
      BY <1>5, <2>1
    <2>2. CASE i # Len(log) + 1
      BY <1>1, <1>3, <2>2
    <2> QED BY <2>1, <2>2
  <1> QED BY <1>1, <1>6 DEF WellFormed, new

\* The empty file is accepted and says nothing.
LEMMA EmptyLog ==
    /\ WellFormed(<< >>)
    /\ LatestOf(<< >>) = EmptyIndex
  BY DEF WellFormed, LatestOf, EmptyIndex, Latest, Positions

-----------------------------------------------------------------------------
(* The journal's own invariant, whoever uses it *)

JournalType ==
    /\ disk \in Seq(Record)
    /\ torn \in BOOLEAN
    /\ index \in [Ops -> Record \union {NoRecord}]
    /\ healthy \in BOOLEAN

\* The file replays, and a healthy index says what the file says.
JournalInv ==
    /\ JournalType
    /\ WellFormed(disk)
    /\ healthy => ~torn /\ index = LatestOf(disk)

LEMMA JournalInitInv == JournalInit => JournalInv
  <1> SUFFICES ASSUME JournalInit PROVE JournalInv
    OBVIOUS
  <1>1. << >> \in Seq(Record)
    OBVIOUS
  <1>2. EmptyIndex \in [Ops -> Record \union {NoRecord}]
    BY DEF EmptyIndex
  <1> QED BY <1>1, <1>2, EmptyLog DEF JournalInit, JournalInv, JournalType

\* An append, confirmed or not, of a record that may follow what the file says
\* keeps the invariant.
LEMMA PersistInv ==
    ASSUME JournalInv, NEW r \in Record, NEW how \in AppendOutcomes,
           r.op \in Ops, ValidTransition(Latest(disk, r.op), r), Persist(r, how)
    PROVE  JournalInv'
  <1>1. /\ Append(disk, r) \in Seq(Record)
        /\ WellFormed(Append(disk, r))
    BY WellFormedAppend, AppendProperties DEF JournalInv, JournalType
  <1>2. disk' \in Seq(Record) /\ WellFormed(disk')
    BY <1>1 DEF Persist, JournalInv, JournalType
  <1>3. torn' \in BOOLEAN /\ healthy' \in BOOLEAN
    BY DEF Persist
  <1>4. index' \in [Ops -> Record \union {NoRecord}]
    BY DEF Persist, JournalInv, JournalType
  <1>5. ASSUME healthy' PROVE ~torn' /\ index' = LatestOf(disk')
    <2>1. healthy /\ how = "ok"
      BY <1>5 DEF Persist
    <2>2. ~torn'
      BY <2>1 DEF Persist, JournalInv
    <2>3. disk' = Append(disk, r) /\ index' = [index EXCEPT ![r.op] = r]
      BY <2>1 DEF Persist
    <2>4. index = [op \in Ops |-> Latest(disk, op)]
      BY <2>1 DEF JournalInv, LatestOf
    <2>5. \A op \in Ops :
             Latest(disk', op) = IF op = r.op THEN r ELSE Latest(disk, op)
      BY <2>3, LatestAppend DEF JournalInv, JournalType
    <2>6. index' = [op \in Ops |-> Latest(disk', op)]
      BY <2>3, <2>4, <2>5
    <2> QED BY <2>2, <2>6 DEF LatestOf
  <1> QED BY <1>2, <1>3, <1>4, <1>5 DEF JournalInv, JournalType

\* What TryStart and AppendTerminal append may follow what the file says.
LEMMA TryStartValid ==
    ASSUME JournalInv, NEW op \in Ops, NEW in \in Inputs, NEW how \in AppendOutcomes,
           TryStart(op, in, how)
    PROVE  /\ Rec(op, in, "started") \in Record
           /\ Latest(disk, op) = NoRecord
           /\ ValidTransition(Latest(disk, op), Rec(op, in, "started"))
  <1>1. Rec(op, in, "started") \in Record
    BY DEF Rec, Record
  <1>2. Latest(disk, op) = NoRecord
    BY DEF JournalInv, LatestOf, TryStart
  <1> QED BY <1>1, <1>2 DEF ValidTransition, Rec, StartedStates

LEMMA AppendTerminalValid ==
    ASSUME JournalInv, NEW op \in Ops, NEW in \in Inputs, NEW st \in TerminalStates,
           NEW how \in AppendOutcomes, AppendTerminal(op, in, st, how)
    PROVE  /\ Rec(op, in, st) \in Record
           /\ healthy /\ index[op] = Latest(disk, op)
           /\ ValidTransition(Latest(disk, op), Rec(op, in, st))
  <1>1. Rec(op, in, st) \in Record
    BY DEF Rec, Record
  <1>2. TerminalVerdict(op, in, st) = "append"
    BY DEF AppendTerminal
  <1>3. healthy
    BY <1>2 DEF TerminalVerdict
  <1>4. index[op] = Latest(disk, op)
    BY <1>3 DEF JournalInv, LatestOf
  <1>5. CASE index[op] = NoRecord
    BY <1>1, <1>2, <1>3, <1>4, <1>5 DEF TerminalVerdict
  <1>6. CASE index[op] # NoRecord
    <2>1. index[op] \in Record
      BY <1>6 DEF JournalInv, JournalType
    <2>2. index[op].input = in
      BY <1>2, <1>3, <1>6 DEF TerminalVerdict
    <2>3. index[op].state = "started"
      <3>1. index[op].state \in {"started"} \union TerminalStates
        BY <2>1 DEF Record
      <3>2. ~ IsTerminal(index[op])
        BY <1>2, <1>3, <1>6, <2>2 DEF TerminalVerdict
      <3> QED BY <1>6, <3>1, <3>2 DEF IsTerminal
    <2>4. st \in StartedStates
      BY <1>2, <1>3, <1>6, <2>2 DEF TerminalVerdict
    <2> QED BY <1>1, <1>3, <1>4, <1>6, <2>2, <2>3, <2>4 DEF ValidTransition, Rec
  <1> QED BY <1>5, <1>6

\* What the file says of each operation id after an append.
LEMMA LatestAfterPersist ==
    ASSUME disk \in Seq(Record), NEW r \in Record, NEW how \in AppendOutcomes,
           Persist(r, how), NEW op
    PROVE  \/ Latest(disk', op) = Latest(disk, op) /\ how \in {"nothing", "prefix"}
           \/ Latest(disk', op) = (IF op = r.op THEN r ELSE Latest(disk, op))
  <1>1. CASE how \in {"ok", "whole"}
    BY <1>1, LatestAppend DEF Persist
  <1>2. CASE how \in {"nothing", "prefix"}
    BY <1>2 DEF Persist
  <1> QED BY <1>1, <1>2 DEF AppendOutcomes

LEMMA TryStartInv ==
    ASSUME JournalInv, NEW op \in Ops, NEW in \in Inputs, NEW how \in AppendOutcomes,
           TryStart(op, in, how)
    PROVE  JournalInv'
  <1>1. Rec(op, in, "started").op = op
    BY DEF Rec
  <1>2. Persist(Rec(op, in, "started"), how)
    BY DEF TryStart
  <1> QED BY <1>1, <1>2, TryStartValid, PersistInv

LEMMA AppendTerminalInv ==
    ASSUME JournalInv, NEW op \in Ops, NEW in \in Inputs, NEW st \in TerminalStates,
           NEW how \in AppendOutcomes, AppendTerminal(op, in, st, how)
    PROVE  JournalInv'
  <1>1. Rec(op, in, st).op = op
    BY DEF Rec
  <1>2. Persist(Rec(op, in, st), how)
    BY DEF AppendTerminal
  <1> QED BY <1>1, <1>2, AppendTerminalValid, PersistInv

-----------------------------------------------------------------------------
(* The file only grows, by records that may follow what it says *)

Grows ==
    \/ disk' = disk
    \/ \E r \in Record : ValidTransition(Latest(disk, r.op), r) /\ disk' = Append(disk, r)

LEMMA PersistGrows ==
    ASSUME NEW r \in Record, NEW how \in AppendOutcomes, Persist(r, how),
           ValidTransition(Latest(disk, r.op), r)
    PROVE  Grows
  BY DEF Persist, Grows

\* A terminal record is the last word on its operation id.
LEMMA GrowsKeepsTerminal ==
    ASSUME disk \in Seq(Record), Grows, NEW op, IsTerminal(Latest(disk, op))
    PROVE  Latest(disk', op) = Latest(disk, op)
  <1>1. CASE disk' = disk
    BY <1>1
  <1>2. ASSUME NEW r \in Record, ValidTransition(Latest(disk, r.op), r),
               disk' = Append(disk, r)
        PROVE  Latest(disk', op) = Latest(disk, op)
    <2>1. r.op # op
      BY <1>2 DEF ValidTransition, IsTerminal, TerminalStates, StartedStates,
                  NotStartedStates
    <2> QED BY <1>2, <2>1, LatestAppend
  <1> QED BY <1>1, <1>2 DEF Grows

\* A claim keeps its input and never turns into a before-start record.
LEMMA GrowsKeepsClaim ==
    ASSUME disk \in Seq(Record), Grows, NEW op, Latest(disk, op) # NoRecord,
           Latest(disk, op).state \notin NotStartedStates
    PROVE  /\ Latest(disk', op) # NoRecord
           /\ Latest(disk', op).input = Latest(disk, op).input
           /\ Latest(disk', op).state \notin NotStartedStates
  <1>1. CASE disk' = disk
    BY <1>1
  <1>2. ASSUME NEW r \in Record, ValidTransition(Latest(disk, r.op), r),
               disk' = Append(disk, r)
        PROVE  /\ Latest(disk', op) # NoRecord
               /\ Latest(disk', op).input = Latest(disk, op).input
               /\ Latest(disk', op).state \notin NotStartedStates
    <2>1. CASE r.op # op
      BY <1>2, <2>1, LatestAppend
    <2>2. CASE r.op = op
      <3>1. Latest(disk', op) = r
        BY <1>2, <2>2, LatestAppend
      <3>2. r.input = Latest(disk, op).input /\ r.state \in StartedStates
        BY <1>2, <2>2 DEF ValidTransition
      <3> QED BY <3>1, <3>2, NoRecordAssumption DEF StartedStates, NotStartedStates
    <2> QED BY <2>1, <2>2
  <1> QED BY <1>1, <1>2 DEF Grows

\* What was once in the file stays there.
LEMMA GrowsKeepsRecords ==
    ASSUME disk \in Seq(Record), Grows, NEW x, \E k \in DOMAIN disk : disk[k] = x
    PROVE  \E k \in DOMAIN disk' : disk'[k] = x
  <1>1. CASE disk' = disk
    BY <1>1
  <1>2. ASSUME NEW r \in Record, disk' = Append(disk, r)
        PROVE  \E k \in DOMAIN disk' : disk'[k] = x
    <2>1. /\ DOMAIN disk = 1 .. Len(disk)
          /\ DOMAIN disk' = 1 .. Len(disk) + 1
          /\ Len(disk) \in Nat
          /\ \A k \in 1 .. Len(disk) : disk'[k] = disk[k]
      BY <1>2, AppendProperties, LenProperties
    <2> QED BY <2>1
  <1> QED BY <1>1, <1>2 DEF Grows

-----------------------------------------------------------------------------
(* The file implements the abstract ledger, append by append *)

\* What the file says of every operation id, after an append.
LEMMA LedgerAfterPersist ==
    ASSUME disk \in Seq(Record), NEW r \in Record, r.op \in Ops,
           NEW how \in AppendOutcomes, Persist(r, how)
    PROVE  \/ LatestOf(disk') = LatestOf(disk)
           \/ LatestOf(disk') = [LatestOf(disk) EXCEPT ![r.op] = r]
  <1>1. CASE how \in {"ok", "whole"}
    <2>1. \A op \in Ops :
             Latest(disk', op) = IF op = r.op THEN r ELSE Latest(disk, op)
      BY <1>1, LatestAppend DEF Persist
    <2> QED BY <2>1 DEF LatestOf
  <1>2. CASE how \in {"nothing", "prefix"}
    BY <1>2 DEF Persist
  <1> QED BY <1>1, <1>2 DEF AppendOutcomes

LEMMA TryStartClaims ==
    ASSUME JournalInv, NEW op \in Ops, NEW in \in Inputs, NEW how \in AppendOutcomes,
           TryStart(op, in, how)
    PROVE  LatestOf(disk') = LatestOf(disk) \/ Ledger!Claim(op, in)
  <1> DEFINE r == Rec(op, in, "started")
  <1>1. r \in Record /\ r.op = op /\ Latest(disk, op) = NoRecord
    BY TryStartValid DEF Rec
  <1>2. Persist(r, how)
    BY DEF TryStart
  <1>3. \/ LatestOf(disk') = LatestOf(disk)
        \/ LatestOf(disk') = [LatestOf(disk) EXCEPT ![op] = r]
    <2> HIDE DEF r
    <2> QED BY <1>1, <1>2, LedgerAfterPersist DEF JournalInv, JournalType
  <1>4. LatestOf(disk)[op] = NoRecord
    BY <1>1 DEF LatestOf
  <1> QED BY <1>3, <1>4 DEF Ledger!Claim, Rec

LEMMA AppendTerminalResolves ==
    ASSUME JournalInv, NEW op \in Ops, NEW in \in Inputs, NEW st \in TerminalStates,
           NEW how \in AppendOutcomes, AppendTerminal(op, in, st, how)
    PROVE  \/ LatestOf(disk') = LatestOf(disk)
           \/ st \in StartedStates /\ Ledger!Resolve(op, st)
           \/ st \in NotStartedStates /\ Ledger!Tombstone(op, in, st)
  <1> DEFINE r == Rec(op, in, st)
  <1>1. /\ r \in Record /\ r.op = op
        /\ ValidTransition(Latest(disk, op), Rec(op, in, st))
    BY AppendTerminalValid DEF Rec
  <1>2. Persist(r, how)
    BY DEF AppendTerminal
  <1>3. \/ LatestOf(disk') = LatestOf(disk)
        \/ LatestOf(disk') = [LatestOf(disk) EXCEPT ![op] = r]
    <2> HIDE DEF r
    <2> QED BY <1>1, <1>2, LedgerAfterPersist DEF JournalInv, JournalType
  <1>4. LatestOf(disk)[op] = Latest(disk, op)
    BY DEF LatestOf
  <1>5. CASE Latest(disk, op) = NoRecord
    <2>1. st \in NotStartedStates
      BY <1>1, <1>5 DEF ValidTransition, Rec, TerminalStates
    <2> QED BY <1>3, <1>4, <1>5, <2>1 DEF Ledger!Tombstone, Rec
  <1>6. CASE Latest(disk, op) # NoRecord
    <2>1. /\ st \in StartedStates
          /\ Latest(disk, op).state = "started"
          /\ Latest(disk, op).input = in
      BY <1>1, <1>6 DEF ValidTransition, Rec
    <2> QED BY <1>3, <1>4, <1>6, <2>1 DEF Ledger!Resolve, Rec
  <1> QED BY <1>5, <1>6
=============================================================================
