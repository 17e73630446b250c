-------------------------- MODULE A5RecoveryProofs --------------------------
(***************************************************************************)
(* Theorems about A5Recovery, for every plan and any number of requests and *)
(* edits.                                                                   *)
(*                                                                          *)
(* The properties speak of the file and the document.  What makes them        *)
(* inductive is what each stage of a request may rely on: which phases the      *)
(* file can be in, and which effects can be pending.  While programs are built  *)
(* those are the one in hand and those of isolated programs without an answer,  *)
(* which the run has passed over and does not come back to.                     *)
(***************************************************************************)
EXTENDS A5Recovery, FiniteSetTheorems, TLAPS

Recovering == {"recover", "close", "resume", "conclude", "reset", "renew", "replan", "restart"}
Sending == {"rebuild", "rebuilt", "refused"}
Building == {"check", "build", "rebuild", "rebuilt", "refused"}
Proved == {"prove", "reconcile", "compare", "preview"}
Deleting == {"delete?", "delete", "deleted"}
Sweeping == {"sweep?", "sweep", "swept"}
Stages == {"idle", "create", "verify", "settle"} \union Recovering \union Building
          \union Proved \union Deleting \union Sweeping
Returns == {"idle", "settle", "close", "conclude", "renew", "restart"}

Revisions == (SUBSET Effects) \X Nat
Receipts == [effect : Effects, committed : BOOLEAN, revision : Revisions]
Run == [pc : Stages, made : SUBSET Effects, skipped : SUBSET Plan, effect : Effects \union {None},
        left : SUBSET Effects, clean : BOOLEAN, next : Returns]
Journal == [phase : 1 .. 8, pending : SUBSET Effects, receipts : SUBSET Receipts,
            rebuilt : Revisions, preview : SUBSET Effects, abandoned : BOOLEAN]

Types ==
    /\ journal \in Journal /\ run \in Run
    /\ model \in SUBSET Effects /\ edits \in Nat /\ requests \in Nat
    /\ torn \in BOOLEAN /\ keep \in BOOLEAN
    /\ IsFiniteSet(journal.pending) /\ IsFiniteSet(journal.receipts) /\ IsFiniteSet(model)

\* The file: programs are decided once each, in the rebuild; what a closed file says
\* was settled before.
FileInv ==
    /\ \A r \in journal.receipts : r.effect.kind = "rebuild" /\ r.effect.program \in Plan
    /\ \A q, r \in journal.receipts : q.effect.program = r.effect.program => q = r
    /\ journal.phase = 1 => journal = Empty
    /\ journal.phase >= 4 => Decided = Plan
    /\ journal.phase >= 7 => model \subseteq journal.preview
    /\ journal.phase >= 7 /\ keep => journal.pending = {}
    /\ journal.abandoned => journal.pending = {} /\ model = {}
    /\ journal.phase = 8 => journal.pending = {} /\ (keep \/ model = {})

\* The document: all of it is accounted for, and made by rebuilding.
DocumentInv ==
    /\ model \subseteq Witnessed \union journal.pending
    /\ \A e \in model : e.kind = "rebuild"
    /\ \A e, f \in model : e.program = f.program => e = f

\* The phases of the file at each stage of a request.
PhaseInv ==
    /\ At("create") => journal.phase = 1
    /\ run.pc \notin {"idle", "create"} => journal.phase >= 2
    /\ run.pc \notin {"idle", "create", "verify"} => journal.phase >= 3
    /\ run.pc \in Building \union Proved => journal.phase < 7
    /\ run.pc \in {"reset", "renew", "replan", "restart"} => journal.phase = 3
    /\ At("conclude") => journal.phase = 7
    /\ At("reconcile") => journal.phase >= 4
    /\ At("compare") => journal.phase >= 5
    /\ At("preview") => journal.phase = 6
    /\ run.pc \in Proved => Decided = Plan
    /\ run.pc \in Sweeping /\ run.next \in {"renew", "restart"} => journal.phase = 3
    /\ run.pc \in Sweeping /\ run.next = "conclude" => journal.phase = 7
    /\ journal.phase >= 7 /\ keep =>
          run.pc \in {"idle", "verify", "recover", "resume", "settle"}
    /\ Closed => At("idle")

\* The pending effects at each stage.
Pends ==
    /\ run.pc \in {"resume", "conclude", "reset", "renew", "replan", "restart", "check"}
                  \union Proved
          => journal.pending = {}
    /\ run.pc \in Sending \union {"build"} =>
          /\ run.skipped \subseteq Plan \ Decided
          /\ \A e \in journal.pending : e.program \in run.skipped \/ (~At("build") /\ e = run.effect)
    /\ At("close") => journal.pending \subseteq run.left
    /\ At("sweep?") =>
          /\ run.next = "close" => journal.pending \subseteq run.left
          /\ run.next \in {"conclude", "renew", "restart"} => journal.pending = {}
    /\ run.pc \in {"sweep", "swept"} =>
          /\ run.next = "close" => journal.pending \subseteq run.left \union {run.effect}
          /\ run.next \in {"conclude", "renew", "restart"} => journal.pending \subseteq {run.effect}

\* The effect in hand, and what a stage knows of the document.
EffectInv ==
    /\ run.pc \in Sending =>
          /\ run.effect \in journal.pending /\ run.effect.kind = "rebuild"
          /\ run.effect.program \in Plan \ (Decided \union run.skipped)
    /\ run.pc \in {"rebuild", "refused"} => run.effect \notin model
    /\ run.pc \in {"delete", "deleted"} => run.effect \in Effects /\ run.effect.kind = "delete"
    /\ run.pc \in {"sweep", "swept"} => run.effect \in Effects /\ run.effect.kind = "sweep"
    /\ run.pc \in Deleting => run.next = "settle"
    /\ run.pc \in Sweeping => run.next \in Returns \ {"idle"}
    /\ run.pc \in Recovering \union {"create", "verify", "check"} => run.skipped = {}
    /\ run.pc \in Sweeping /\ run.next # "settle" => run.skipped = {}
    /\ At("close") => model = {}
    /\ At("swept") /\ run.clean => model = {}

StageInv == PhaseInv /\ Pends /\ EffectInv
IInv == Types /\ FileInv /\ DocumentInv /\ StageInv

-----------------------------------------------------------------------------
(* Phases, fields and effects *)

\* The names of the phases are their numbers.
LEMMA PhaseNames ==
    ASSUME journal.phase \in 1 .. 8
    PROVE  /\ InPhase("SnapshotVerified") <=> journal.phase = 3
           /\ InPhase("CleanupPreviewed") <=> journal.phase = 7
           /\ InPhase("Completed") <=> journal.phase = 8
           /\ Reached("SnapshotVerified") <=> journal.phase >= 3
           /\ Reached("Rebuilt") <=> journal.phase >= 4
           /\ Reached("Reconciled") <=> journal.phase >= 5
           /\ Reached("Compared") <=> journal.phase >= 6
           /\ Closed <=> journal.abandoned \/ journal.phase = 8
  <1>1. \A n \in 1 .. 8 : /\ Phases[n] = "SnapshotVerified" <=> n = 3
                          /\ Phases[n] = "Rebuilt" <=> n = 4
                          /\ Phases[n] = "Reconciled" <=> n = 5
                          /\ Phases[n] = "Compared" <=> n = 6
                          /\ Phases[n] = "CleanupPreviewed" <=> n = 7
                          /\ Phases[n] = "Completed" <=> n = 8
    <2> SUFFICES ASSUME NEW n \in 1 .. 8
                 PROVE  /\ Phases[n] = "SnapshotVerified" <=> n = 3
                        /\ Phases[n] = "Rebuilt" <=> n = 4
                        /\ Phases[n] = "Reconciled" <=> n = 5
                        /\ Phases[n] = "Compared" <=> n = 6
                        /\ Phases[n] = "CleanupPreviewed" <=> n = 7
                        /\ Phases[n] = "Completed" <=> n = 8
      OBVIOUS
    <2>1. n = 1 \/ n = 2 \/ n = 3 \/ n = 4 \/ n = 5 \/ n = 6 \/ n = 7 \/ n = 8
      OBVIOUS
    <2> QED BY <2>1 DEF Phases
  <1>2. /\ InPhase("SnapshotVerified") <=> journal.phase = 3
        /\ InPhase("CleanupPreviewed") <=> journal.phase = 7
        /\ InPhase("Completed") <=> journal.phase = 8
    BY <1>1 DEF InPhase
  <1>3. \A n \in 1 .. 8 : n \in 1 .. journal.phase <=> n <= journal.phase
    OBVIOUS
  <1>4. 1 .. journal.phase \subseteq 1 .. 8
    OBVIOUS
  <1>5. /\ Reached("SnapshotVerified") <=> 3 \in 1 .. journal.phase
        /\ Reached("Rebuilt") <=> 4 \in 1 .. journal.phase
        /\ Reached("Reconciled") <=> 5 \in 1 .. journal.phase
        /\ Reached("Compared") <=> 6 \in 1 .. journal.phase
    BY <1>1, <1>4 DEF Reached
  <1> QED BY <1>2, <1>3, <1>5 DEF Closed

LEMMA FieldTypes ==
    ASSUME Types
    PROVE  /\ journal.phase \in 1 .. 8 /\ journal.pending \in SUBSET Effects
           /\ journal.receipts \in SUBSET Receipts /\ journal.rebuilt \in Revisions
           /\ journal.preview \in SUBSET Effects /\ journal.abandoned \in BOOLEAN
           /\ run.pc \in Stages /\ run.made \in SUBSET Effects /\ run.skipped \in SUBSET Plan
           /\ run.left \in SUBSET Effects /\ run.clean \in BOOLEAN /\ run.next \in Returns
           /\ Committed \in SUBSET Receipts /\ Witnessed \in SUBSET Effects
           /\ Revision \in Revisions /\ Snapshot \in Revisions
  BY DEF Types, Journal, Run, Receipts, Committed, Witnessed, Revision, Snapshot, Revisions

\* What Goto and Stop leave.
LEMMA GotoRun ==
    ASSUME Types, NEW pc \in Stages, Goto(pc)
    PROVE  /\ run' \in Run /\ run'.pc = pc /\ run'.made = run.made /\ run'.skipped = run.skipped
           /\ run'.effect = run.effect /\ run'.left = run.left
           /\ run'.clean = run.clean /\ run'.next = run.next
  BY DEF Types, Goto, Run

LEMMA StopRun == Stop => run' \in Run /\ run'.pc = "idle"
  BY DEF Stop, Idle, Run, Stages, Returns

LEMMA FailRun ==
    ASSUME Types, Fail
    PROVE  /\ run' \in Run /\ run'.pc \in {"sweep?", "delete?"} /\ run'.next = "settle"
  BY DEF Types, Fail, Run, Stages, Returns, Sweeping, Deleting

LEMMA ClearRun ==
    ASSUME Types, NEW next \in {"conclude", "renew", "restart"}, Clear(next)
    PROVE  /\ run' \in Run /\ run'.pc = (IF model = {} THEN next ELSE "sweep?")
           /\ run'.next = next /\ run'.skipped = run.skipped
  BY DEF Types, Clear, Run, Stages, Returns, Recovering, Sweeping

\* A run fails for want of an answer, or passes the program over.
LEMMA UnansweredRun ==
    ASSUME Types, NEW program \in Plan, Unanswered(program)
    PROVE  /\ run' \in Run
           /\ \/ run'.pc \in {"sweep?", "delete?"} /\ run'.next = "settle"
              \/ run'.pc = "build" /\ run'.skipped = run.skipped \union {program}
  <1>1. CASE Fail
    BY <1>1, FailRun
  <1>2. CASE run' = [run EXCEPT !.pc = "build", !.skipped = @ \union {program}]
    BY <1>2 DEF Types, Run, Stages, Building
  <1> QED BY <1>1, <1>2 DEF Unanswered

\* Some number up to the size of a finite set is not in it.
LEMMA FreshNumber ==
    ASSUME NEW S, IsFiniteSet(S)
    PROVE  \E n \in 0 .. Cardinality(S) : n \notin S
  <1>1. Cardinality(S) \in Nat
    BY FS_CardinalityType
  <1> SUFFICES ASSUME 0 .. Cardinality(S) \subseteq S PROVE FALSE
    BY <1>1
  <1>2. Cardinality(0 .. Cardinality(S)) = Cardinality(S) + 1
    BY <1>1, FS_Interval
  <1>3. Cardinality(0 .. Cardinality(S)) <= Cardinality(S)
    BY FS_Subset
  <1> QED BY <1>1, <1>2, <1>3

LEMMA FiniteImage ==
    ASSUME NEW S, IsFiniteSet(S), NEW f, DOMAIN f = S
    PROVE  IsFiniteSet({f[x] : x \in S})
  <1> DEFINE T == {f[x] : x \in S}
             g == [x \in S |-> f[x]]
  <1>1. g \in Surjection(S, T)
    BY DEF Surjection
  <1> QED BY <1>1, FS_Surjection

\* The new effect is well formed, whatever ids are still spoken of.
LEMMA StartEffect ==
    ASSUME Types, NEW kind \in {"rebuild", "delete", "sweep"}, NEW program \in Plan \union {0},
           Start(kind, program)
    PROVE  \E effect \in Effects :
              /\ effect.kind = kind /\ effect.program = program
              /\ journal' = [journal EXCEPT !.pending = @ \union {effect}]
              /\ run' = [run EXCEPT !.pc = kind, !.effect = effect]
  <1> DEFINE Ids(S) == {e.id : e \in S}
             made == {r.effect : r \in journal.receipts}
             spoken == model \union journal.pending \union made
             n == CHOOSE i \in 0 .. Cardinality(Ids(spoken)) : i \notin Ids(spoken)
  <1>1. IsFiniteSet(made)
    <2> DEFINE f == [r \in journal.receipts |-> r.effect]
    <2>1. IsFiniteSet({f[r] : r \in journal.receipts})
      BY FiniteImage DEF Types
    <2>2. made = {f[r] : r \in journal.receipts}
      OBVIOUS
    <2> QED BY <2>1, <2>2
  <1>2. IsFiniteSet(spoken)
    BY <1>1, FS_Union DEF Types
  <1>3. IsFiniteSet(Ids(spoken))
    <2> HIDE DEF spoken
    <2> DEFINE f == [e \in spoken |-> e.id]
    <2>1. IsFiniteSet({f[e] : e \in spoken})
      BY <1>2, FiniteImage
    <2>2. Ids(spoken) = {f[e] : e \in spoken}
      OBVIOUS
    <2> QED BY <2>1, <2>2
  <1>4. n \in Nat
    <2>1. \E i \in 0 .. Cardinality(Ids(spoken)) : i \notin Ids(spoken)
      BY <1>3, FreshNumber
    <2>2. n \in 0 .. Cardinality(Ids(spoken))
      BY <2>1
    <2> QED BY <1>3, <2>2, FS_CardinalityType
  <1> DEFINE effect == [id |-> n, kind |-> kind, program |-> program]
  <1>5. /\ journal' = [journal EXCEPT !.pending = @ \union {effect}]
        /\ run' = [run EXCEPT !.pc = kind, !.effect = effect]
    BY DEF Start
  <1> HIDE DEF n
  <1>6. effect \in Effects
    BY <1>4 DEF Effects
  <1> QED BY <1>5, <1>6

-----------------------------------------------------------------------------
(* Steps that leave the file and the document alone *)

LEMMA OnlyKeeps ==
    ASSUME IInv, UNCHANGED <<journal, keep, model, edits>>, torn' \in BOOLEAN,
           requests' \in Nat, run' \in Run
    PROVE  Types' /\ FileInv' /\ DocumentInv'
  BY DEF IInv, Types, FileInv, DocumentInv, Decided, Witnessed, Committed

\* Nothing is asked of a server that is idle.
LEMMA IdleStage == run'.pc = "idle" => StageInv'
  BY DEF StageInv, PhaseInv, Pends, EffectInv, At, Recovering, Building, Sending, Proved, Deleting,
         Sweeping

LEMMA StopsOnly == IInv /\ Stop /\ Only => IInv'
  BY OnlyKeeps, IdleStage, StopRun DEF IInv, Only, Here, Types

LEMMA OnlyTypes == ASSUME IInv, Only, run' \in Run PROVE Types' /\ FileInv' /\ DocumentInv'
  BY OnlyKeeps DEF Only, Here, IInv, Types

LEMMA DieInv == IInv /\ Die => IInv'
  BY OnlyKeeps, IdleStage, StopRun DEF IInv, Die, Types

LEMMA RequestInv ==
    ASSUME IInv, Request
    PROVE  IInv'
  <1>1. /\ run' \in Run /\ run'.pc \in {"create", "verify"} /\ run'.skipped = {}
        /\ run'.pc = "create" <=> journal = Empty
    BY DEF Request, Run, Idle, Stages, Returns, Recovering, Building, Sending, Proved, Deleting, Sweeping
  <1>5. UNCHANGED <<journal, keep, model, edits>> /\ torn' \in BOOLEAN
    BY Zenon DEF Request
  <1>8. requests' \in Nat
    <2>1. requests \in Nat
      BY Zenon DEF IInv, Types
    <2>2. requests' = requests + 1
      BY Zenon DEF Request
    <2> QED BY <2>1, <2>2
  <1>2. Types' /\ FileInv' /\ DocumentInv'
    BY <1>1, <1>5, <1>8, OnlyKeeps
  <1>3. ~Closed /\ journal.phase \in 1 .. 8 /\ journal.phase # 8
    BY PhaseNames, FieldTypes DEF Request, IInv
  <1>4. run'.pc = "create" <=> journal.phase = 1
    BY <1>1 DEF Empty, IInv, FileInv
  <1>6. PhaseInv'
    BY <1>1, <1>3, <1>4, <1>5
    DEF PhaseInv, At, Closed, InPhase, Recovering, Building, Sending, Proved, Deleting, Sweeping
  <1>7. Pends' /\ EffectInv'
    BY <1>1 DEF Pends, EffectInv, At, Recovering, Building, Sending, Proved, Deleting, Sweeping
  <1> QED BY <1>2, <1>6, <1>7 DEF IInv, StageInv

-----------------------------------------------------------------------------
(* What a record does to the file *)

LEMMA AdvanceJournal ==
    ASSUME Types, journal.phase # 8, Advance
    PROVE  /\ journal' \in Journal /\ journal'.phase = journal.phase + 1
           /\ journal'.pending = journal.pending /\ journal'.receipts = journal.receipts
           /\ journal'.preview = journal.preview /\ journal'.abandoned = journal.abandoned
           /\ journal.pending = {}
  BY DEF Types, Journal, Advance, Transition

\* A new phase keeps what the file says if what it stands for is there.
LEMMA PhaseMoves ==
    ASSUME IInv, journal' \in Journal, journal'.phase = journal.phase + 1,
           journal'.pending = journal.pending, journal'.receipts = journal.receipts,
           journal'.abandoned = journal.abandoned, Here, run' \in Run,
           journal'.phase = 4 => Decided = Plan,
           IF journal'.phase = 7 THEN model \subseteq journal'.preview /\ journal.pending = {}
                                 ELSE journal'.preview = journal.preview,
           journal'.phase = 8 => journal.pending = {} /\ (keep \/ model = {})
    PROVE  Types' /\ FileInv' /\ DocumentInv'
  <1>1. /\ model' = model /\ edits' = edits /\ keep' = keep /\ requests' = requests
        /\ torn' = torn
    BY DEF Here
  <1>2. Decided' = Decided /\ Witnessed' = Witnessed
    BY DEF Decided, Witnessed, Committed
  <1>3. Types'
    BY <1>1 DEF IInv, Types
  <1>4. DocumentInv'
    BY <1>1, <1>2 DEF IInv, DocumentInv
  <1>5. journal.phase \in 1 .. 8 /\ journal'.phase \in 1 .. 8
    BY DEF IInv, Types, Journal
  <1>6. FileInv'
    BY <1>1, <1>2, <1>5 DEF IInv, FileInv
  <1> QED BY <1>3, <1>4, <1>6

\* Effects may be added to, or taken from, those that pend, as long as nothing in
\* the document loses its last trace.
LEMMA PendingMoves ==
    ASSUME IInv, NEW P \in SUBSET Effects, IsFiniteSet(P),
           journal' = [journal EXCEPT !.pending = P], Here, run' \in Run,
           journal.phase >= 2,
           model \subseteq Witnessed \union P,
           (journal.phase >= 7 /\ keep) \/ Closed => P = {}
    PROVE  /\ Types' /\ FileInv' /\ DocumentInv'
           /\ journal'.phase = journal.phase /\ journal'.pending = P
           /\ Decided' = Decided /\ (Closed' <=> Closed)
  <1>1. /\ model' = model /\ edits' = edits /\ keep' = keep /\ requests' = requests
        /\ torn' = torn
    BY DEF Here
  <1>2. /\ journal' \in Journal /\ journal'.phase = journal.phase /\ journal'.pending = P
        /\ journal'.receipts = journal.receipts /\ journal'.preview = journal.preview
        /\ journal'.abandoned = journal.abandoned
    BY DEF IInv, Types, Journal
  <1>3. Decided' = Decided /\ Witnessed' = Witnessed
    BY <1>2 DEF Decided, Witnessed, Committed
  <1>4. Closed' <=> Closed
    BY <1>2 DEF Closed, InPhase
  <1>5. Closed <=> journal.abandoned \/ journal.phase = 8
    BY PhaseNames, FieldTypes DEF IInv
  <1>6. Types'
    BY <1>1, <1>2 DEF IInv, Types
  <1>7. DocumentInv'
    BY <1>1, <1>2, <1>3 DEF IInv, DocumentInv
  <1>8. FileInv'
    BY <1>1, <1>2, <1>3, <1>5 DEF IInv, FileInv
  <1> QED BY <1>2, <1>3, <1>4, <1>6, <1>7, <1>8

\* A receipt closes its effect: a committed one goes on to name it, another one may
\* not while it is in the document.
LEMMA ReceiptMoves ==
    ASSUME IInv, NEW committed \in BOOLEAN, Receipt(committed), Here, run' \in Run,
           run.effect \in Effects, run.effect.kind = "rebuild",
           run.effect.program \in Plan \ Decided,
           ~Closed, journal.phase \in 3 .. 6,
           committed \/ run.effect \notin model
    PROVE  /\ Types' /\ FileInv' /\ DocumentInv'
           /\ journal'.phase = journal.phase /\ journal'.pending = journal.pending \ {run.effect}
           /\ Decided' = Decided \union {run.effect.program} /\ ~Closed'
  <1> DEFINE r == [effect |-> run.effect, committed |-> committed,
                   revision |-> IF committed THEN Revision ELSE Snapshot]
  <1>1. r \in Receipts /\ r.effect = run.effect /\ r.committed = committed
    BY FieldTypes DEF IInv, Receipts
  <1>2. journal' = [journal EXCEPT !.pending = @ \ {run.effect}, !.receipts = @ \union {r}]
    BY DEF Receipt
  <1> HIDE DEF r
  <1>3. /\ journal' \in Journal /\ journal'.phase = journal.phase
        /\ journal'.pending = journal.pending \ {run.effect}
        /\ journal'.receipts = journal.receipts \union {r}
        /\ journal'.preview = journal.preview /\ journal'.abandoned = journal.abandoned
    BY <1>1, <1>2 DEF IInv, Types, Journal
  <1>4. /\ model' = model /\ edits' = edits /\ keep' = keep /\ requests' = requests
        /\ torn' = torn
    BY DEF Here
  <1>5. Decided' = Decided \union {run.effect.program}
    BY <1>1, <1>3 DEF Decided
  <1>6. Witnessed' = IF committed THEN Witnessed \union {run.effect} ELSE Witnessed
    <2>1. Committed' = IF committed THEN Committed \union {r} ELSE Committed
      BY <1>1, <1>3 DEF Committed
    <2> QED BY <1>1, <2>1 DEF Witnessed
  <1>7. ~Closed'
    BY <1>3 DEF Closed, InPhase
  <1>8. Types'
    <2>1. IsFiniteSet(journal'.receipts)
      <3>1. IsFiniteSet(journal.receipts)
        BY DEF IInv, Types
      <3>2. IsFiniteSet(journal.receipts \union {r})
        BY <3>1, FS_AddElement
      <3> QED BY <1>3, <3>2
    <2>2. IsFiniteSet(journal'.pending)
      BY <1>3, FS_RemoveElement DEF IInv, Types
    <2> QED BY <1>3, <1>4, <2>1, <2>2 DEF IInv, Types
  <1>9. DocumentInv'
    BY <1>3, <1>4, <1>6 DEF IInv, DocumentInv
  <1>10. FileInv'
    <2>1. \A q \in journal.receipts : q.effect.program # run.effect.program
      BY DEF Decided
    <2>2. /\ \A q \in journal'.receipts : q.effect.kind = "rebuild" /\ q.effect.program \in Plan
          /\ \A q, s \in journal'.receipts : q.effect.program = s.effect.program => q = s
      BY <1>1, <1>3, <2>1 DEF IInv, FileInv
    <2>3. journal.phase >= 4 => Decided' = Plan
      BY <1>5 DEF IInv, FileInv
    <2>4. ~journal.abandoned
      BY DEF Closed
    <2> QED BY <1>3, <1>4, <2>2, <2>3, <2>4 DEF FileInv
  <1> QED BY <1>3, <1>5, <1>7, <1>8, <1>9, <1>10

\* The receipts of an epoch may go while the document is empty.
LEMMA EpochMoves ==
    ASSUME IInv, NewEpoch, Here, run' \in Run, model = {}, journal.phase = 3
    PROVE  /\ Types' /\ FileInv' /\ DocumentInv'
           /\ journal'.phase = 3 /\ journal'.pending = {} /\ journal.pending = {}
           /\ Decided' = {} /\ (Closed' <=> Closed)
  <1>1. /\ model' = model /\ edits' = edits /\ keep' = keep /\ requests' = requests
        /\ torn' = torn
    BY DEF Here
  <1>2. /\ journal' \in Journal /\ journal'.phase = 3 /\ journal'.pending = {}
        /\ journal'.receipts = {} /\ journal'.abandoned = journal.abandoned
        /\ journal.pending = {}
    BY DEF IInv, Types, Journal, NewEpoch
  <1>3. Closed' <=> Closed
    BY <1>2 DEF Closed, InPhase
  <1>4. Types'
    BY <1>1, <1>2, FS_EmptySet DEF IInv, Types
  <1>5. FileInv' /\ DocumentInv'
    BY <1>1, <1>2 DEF IInv, FileInv, DocumentInv
  <1>6. Decided' = {}
    BY <1>2 DEF Decided
  <1> QED BY <1>2, <1>3, <1>4, <1>5, <1>6

-----------------------------------------------------------------------------
(* The journal is created and verified, or recovered *)

\* A server at work has an open file.
LEMMA BusyIsOpen ==
    ASSUME IInv, ~At("idle")
    PROVE  ~Closed /\ ~journal.abandoned /\ journal.phase \in 1 .. 7
  BY PhaseNames, FieldTypes DEF IInv, StageInv, PhaseInv

\* With no rule for the stage but the phase it needs.
LEMMA ClosedMoves ==
    ASSUME IInv, ~At("idle"), journal'.abandoned = journal.abandoned,
           journal'.phase \in 1 .. 7
    PROVE  ~Closed'
  <1>1. ~journal'.abandoned
    BY BusyIsOpen
  <1>2. ~InPhase("Completed")'
    BY DEF InPhase, Phases
  <1> QED BY <1>1, <1>2 DEF Closed

LEMMA CreateInv ==
    ASSUME IInv, Create
    PROVE  IInv'
  <1>1. CASE Stop /\ Only
    BY <1>1, StopsOnly
  <1>2. CASE Advance /\ Goto("verify") /\ Here
    <2>1. journal.phase = 1 /\ ~At("idle") /\ run.skipped = {}
      BY DEF Create, IInv, StageInv, PhaseInv, EffectInv, At
    <2>2. run' \in Run /\ run'.pc = "verify" /\ run'.skipped = {}
      BY <1>2, <2>1, GotoRun DEF IInv, Stages
    <2>3. /\ journal' \in Journal /\ journal'.phase = 2
          /\ journal'.pending = journal.pending /\ journal'.receipts = journal.receipts
          /\ journal'.preview = journal.preview /\ journal'.abandoned = journal.abandoned
      BY <1>2, <2>1, AdvanceJournal DEF IInv
    <2>4. Types' /\ FileInv' /\ DocumentInv'
      BY <1>2, <2>1, <2>2, <2>3, PhaseMoves
    <2>5. ~Closed'
      BY <2>1, <2>3, ClosedMoves
    <2> QED
      BY <2>2, <2>3, <2>4, <2>5
      DEF IInv, StageInv, PhaseInv, Pends, EffectInv, At, Recovering, Building, Sending, Proved,
          Deleting, Sweeping
  <1> QED BY <1>1, <1>2 DEF Create

LEMMA VerifyInv ==
    ASSUME IInv, Verify
    PROVE  IInv'
  <1>1. /\ journal.phase >= 2 /\ journal.phase \in 1 .. 7 /\ ~At("idle")
        /\ Reached("SnapshotVerified") <=> journal.phase >= 3
        /\ run.skipped = {}
    BY BusyIsOpen, PhaseNames DEF Verify, IInv, StageInv, PhaseInv, EffectInv, At
  <1>2. run' \in Run /\ run'.pc = "recover" /\ run'.skipped = {}
    BY <1>1, GotoRun DEF Verify, IInv, Stages, Recovering
  <1>3. CASE Reached("SnapshotVerified") /\ Only
    <2>1. Types' /\ FileInv' /\ DocumentInv'
      BY <1>2, <1>3, OnlyTypes
    <2>2. UNCHANGED <<journal, keep>> /\ ~Closed'
      BY <1>1, <1>3, BusyIsOpen DEF Only, Here, Closed, InPhase
    <2> QED
      BY <1>1, <1>2, <1>3, <2>1, <2>2
      DEF IInv, StageInv, PhaseInv, Pends, EffectInv, At, Recovering, Building, Sending, Proved,
          Deleting, Sweeping
  <1>4. CASE ~Reached("SnapshotVerified") /\ Advance /\ Here
    <2>1. journal.phase = 2
      BY <1>1, <1>4
    <2>2. /\ journal' \in Journal /\ journal'.phase = 3
          /\ journal'.pending = journal.pending /\ journal'.receipts = journal.receipts
          /\ journal'.preview = journal.preview /\ journal'.abandoned = journal.abandoned
      BY <1>4, <2>1, AdvanceJournal DEF IInv
    <2>3. Types' /\ FileInv' /\ DocumentInv'
      BY <1>2, <1>4, <2>1, <2>2, PhaseMoves
    <2>4. ~Closed'
      BY <1>1, <2>2, ClosedMoves
    <2> QED
      BY <1>2, <2>2, <2>3, <2>4
      DEF IInv, StageInv, PhaseInv, Pends, EffectInv, At, Recovering, Building, Sending, Proved,
          Deleting, Sweeping
  <1> QED BY <1>3, <1>4 DEF Verify

LEMMA RecoverInv ==
    ASSUME IInv, Recover
    PROVE  IInv'
  <1>1. Only /\ At("recover") /\ ~At("idle") /\ journal.phase >= 3 /\ journal.phase \in 1 .. 7
        /\ run.skipped = {}
    BY BusyIsOpen DEF Recover, IInv, StageInv, PhaseInv, EffectInv, At, Recovering
  <1>2. UNCHANGED <<journal, model, keep>> /\ ~Closed'
    BY <1>1, BusyIsOpen DEF Only, Here, Closed, InPhase
  <1>3. CASE Stop
    BY <1>1, <1>3, StopsOnly
  <1>4. CASE journal.pending = {} /\ Goto("resume")
    <2>1. run' \in Run /\ run'.pc = "resume" /\ run'.skipped = {}
      BY <1>1, <1>4, GotoRun DEF IInv, Stages, Recovering
    <2> QED
      BY <1>1, <1>2, <1>4, <2>1, OnlyTypes
      DEF IInv, StageInv, PhaseInv, Pends, EffectInv, At, Recovering, Building, Sending, Proved,
          Deleting, Sweeping
  <1>5. CASE /\ journal.pending # {}
             /\ run' = [run EXCEPT !.pc = IF model = {} THEN "close" ELSE "sweep?",
                                   !.left = journal.pending, !.next = "close"]
    <2>1. /\ run' \in Run /\ run'.pc = IF model = {} THEN "close" ELSE "sweep?"
          /\ run'.left = journal.pending /\ run'.next = "close" /\ run'.skipped = {}
      BY <1>1, <1>5, FieldTypes DEF IInv, Types, Run, Stages, Recovering, Sweeping, Returns
    <2>2. ~(journal.phase >= 7 /\ keep)
      BY <1>5 DEF IInv, FileInv
    <2>3. Types' /\ FileInv' /\ DocumentInv'
      BY <1>1, <2>1, OnlyTypes
    <2> QED
      BY <1>1, <1>2, <2>1, <2>2, <2>3
      DEF IInv, StageInv, PhaseInv, Pends, EffectInv, At, Recovering, Building, Sending, Proved,
          Deleting, Sweeping, Returns
  <1> QED BY <1>3, <1>4, <1>5 DEF Recover

LEMMA CloseInv ==
    ASSUME IInv, Close
    PROVE  IInv'
  <1> DEFINE open == run.left \intersect journal.pending
  <1>1. /\ Here /\ At("close") /\ ~At("idle") /\ model = {}
        /\ journal.phase >= 3 /\ journal.phase \in 1 .. 7
        /\ journal.pending \subseteq run.left /\ ~(journal.phase >= 7 /\ keep)
        /\ run.skipped = {}
    BY BusyIsOpen DEF Close, IInv, StageInv, PhaseInv, Pends, EffectInv, At, Recovering
  <1>2. model' = model /\ keep' = keep
    BY <1>1 DEF Here
  <1>3. CASE (\E effect \in open : Finish(effect)) /\ UNCHANGED run
    <2>1. PICK effect \in open : Finish(effect)
      BY <1>3
    <2> DEFINE P == journal.pending \ {effect}
    <2>2. P \in SUBSET Effects /\ IsFiniteSet(P) /\ P \subseteq run.left
      BY <1>1, FieldTypes, FS_RemoveElement DEF IInv, Types
    <2>3. journal' = [journal EXCEPT !.pending = P]
      BY <2>1 DEF Finish
    <2>4. run' = run /\ run' \in Run
      BY <1>3 DEF IInv, Types
    <2> HIDE DEF P
    <2>5. /\ Types' /\ FileInv' /\ DocumentInv'
          /\ journal'.phase = journal.phase /\ journal'.pending = P /\ ~Closed'
      BY <1>1, <2>2, <2>3, <2>4, PendingMoves, BusyIsOpen
    <2> QED
      BY <1>1, <1>2, <2>2, <2>4, <2>5
      DEF IInv, StageInv, PhaseInv, Pends, EffectInv, At, Recovering, Building, Sending, Proved,
          Deleting, Sweeping
  <1>4. CASE open = {} /\ Goto("resume")
    <2>1. journal.pending = {} /\ run' \in Run /\ run'.pc = "resume" /\ run'.skipped = {}
      BY <1>1, <1>4, GotoRun DEF IInv, Stages, Recovering
    <2>2. CASE InPhase("SnapshotVerified") /\ NewEpoch
      <3>1. journal.phase = 3
        BY <1>1, <2>2, PhaseNames
      <3>2. /\ Types' /\ FileInv' /\ DocumentInv'
            /\ journal'.phase = 3 /\ journal'.pending = {} /\ ~Closed'
        BY <1>1, <2>1, <2>2, <3>1, EpochMoves, BusyIsOpen
      <3> QED
        BY <2>1, <3>2
        DEF IInv, StageInv, PhaseInv, Pends, EffectInv, At, Recovering, Building, Sending, Proved,
            Deleting, Sweeping
    <2>3. CASE UNCHANGED journal
      <3>1. Types' /\ FileInv' /\ DocumentInv'
        BY <1>1, <2>1, <2>3, OnlyTypes DEF Only
      <3>2. ~Closed'
        BY <1>1, <2>3, ClosedMoves
      <3> QED
        BY <1>1, <1>2, <2>1, <2>3, <3>1, <3>2
        DEF IInv, StageInv, PhaseInv, Pends, EffectInv, At, Recovering, Building, Sending, Proved,
            Deleting, Sweeping
    <2> QED BY <1>4, <2>2, <2>3 DEF Close
  <1> QED BY <1>3, <1>4 DEF Close

\* The last record of a file whose copy was kept, or is gone.
LEMMA CompletesInv ==
    ASSUME IInv, ~At("idle"), journal.phase = 7, journal.pending = {}, keep \/ model = {},
           Advance, Here, Stop
    PROVE  IInv'
  <1>1. /\ journal' \in Journal /\ journal'.phase = 8
        /\ journal'.pending = journal.pending /\ journal'.receipts = journal.receipts
        /\ journal'.preview = journal.preview /\ journal'.abandoned = journal.abandoned
    BY AdvanceJournal DEF IInv
  <1> QED BY <1>1, StopRun, PhaseMoves, IdleStage DEF IInv

LEMMA ResumeInv ==
    ASSUME IInv, Resume
    PROVE  IInv'
  <1>1. /\ At("resume") /\ ~At("idle") /\ journal.phase >= 3 /\ journal.phase \in 1 .. 7
        /\ journal.pending = {} /\ run.skipped = {}
        /\ InPhase("SnapshotVerified") <=> journal.phase = 3
        /\ InPhase("CleanupPreviewed") <=> journal.phase = 7
    BY BusyIsOpen, PhaseNames DEF Resume, IInv, StageInv, PhaseInv, Pends, EffectInv, At, Recovering
  <1>2. CASE Stop /\ Only
    BY <1>2, StopsOnly
  <1>3. CASE journal.phase = 7 /\ keep /\ Advance /\ Here /\ Stop
    BY <1>1, <1>3, CompletesInv
  <1>4. ASSUME Only, NEW pc \in {"check", "reset"}, Goto(pc),
               pc = "check" => journal.phase # 7, pc = "reset" => journal.phase = 3
        PROVE  IInv'
    <2>1. run' \in Run /\ run'.pc = pc /\ run'.skipped = {}
      BY <1>1, <1>4, GotoRun DEF IInv, Stages, Recovering, Building
    <2>2. UNCHANGED <<journal, keep>> /\ ~Closed'
      BY <1>1, <1>4, ClosedMoves DEF Only, Here
    <2> QED
      BY <1>1, <1>4, <2>1, <2>2, OnlyTypes
      DEF IInv, StageInv, PhaseInv, Pends, EffectInv, At, Recovering, Building, Sending, Proved,
          Deleting, Sweeping
  <1>5. CASE journal.phase = 7 /\ ~keep /\ Only /\ Clear("conclude")
    <2>1. /\ run' \in Run /\ run'.pc = IF model = {} THEN "conclude" ELSE "sweep?"
          /\ run'.next = "conclude" /\ run'.skipped = {}
      BY <1>1, <1>5, ClearRun DEF IInv
    <2>2. UNCHANGED <<journal, keep>> /\ ~Closed'
      BY <1>1, <1>5, ClosedMoves DEF Only, Here
    <2> QED
      BY <1>1, <1>5, <2>1, <2>2, OnlyTypes
      DEF IInv, StageInv, PhaseInv, Pends, EffectInv, At, Recovering, Building, Sending, Proved,
          Deleting, Sweeping, Returns
  <1> QED
    <2>1. CASE /\ InPhase("SnapshotVerified") /\ Only
               /\ Goto("check") \/ Goto("reset") \/ Stop
      BY <1>1, <1>2, <1>4, <2>1
    <2>2. CASE InPhase("CleanupPreviewed") /\ keep /\ Stop /\ ((Advance /\ Here) \/ Only)
      BY <1>1, <1>2, <1>3, <2>2
    <2>3. CASE ~InPhase("CleanupPreviewed") /\ Goto("check") /\ Only
      BY <1>1, <1>4, <2>3
    <2> QED BY <1>1, <1>2, <1>5, <2>1, <2>2, <2>3 DEF Resume

LEMMA EmptyDocument == Revision = Snapshot => model = {}
  BY DEF Revision, Snapshot

LEMMA ConcludeInv ==
    ASSUME IInv, Conclude
    PROVE  IInv'
  <1>1. ~At("idle") /\ journal.phase = 7 /\ journal.pending = {}
    BY DEF Conclude, IInv, StageInv, PhaseInv, Pends, At
  <1> QED BY <1>1, EmptyDocument, CompletesInv, StopsOnly DEF Conclude

\* What a stage of the run itself may fail into: a cleanup.
LEMMA FailsStage ==
    ASSUME IInv, run.pc \in Building \union Proved \union {"replan", "restart"}, run'.pc \in {"sweep?", "delete?"},
           run'.next = "settle", journal'.phase = journal.phase, ~Closed'
    PROVE  StageInv'
  <1>1. journal.phase \in 3 .. 6
    BY FieldTypes DEF IInv, StageInv, PhaseInv, Building, Sending, Proved
  <1> QED
    BY <1>1
    DEF StageInv, PhaseInv, Pends, EffectInv, At, Recovering, Building, Sending, Proved, Deleting,
        Sweeping, Returns

LEMMA FailsOnly ==
    ASSUME IInv, run.pc \in Building \union Proved \union {"replan", "restart"}, Fail, Only
    PROVE  IInv'
  <1>1. journal' = journal /\ ~At("idle") /\ journal.phase \in 1 .. 7
    BY FieldTypes DEF Only, Building, Sending, Proved, At, IInv, StageInv, PhaseInv
  <1>2. ~Closed'
    BY <1>1, ClosedMoves
  <1> QED BY <1>1, <1>2, FailRun, FailsStage, OnlyTypes DEF IInv

LEMMA ResetInv ==
    ASSUME IInv, Reset
    PROVE  IInv'
  <1>1. /\ Only /\ run.pc \in {"reset", "replan"} /\ ~At("idle") /\ journal.phase = 3
        /\ journal.pending = {} /\ run.skipped = {}
    BY DEF Reset, IInv, StageInv, PhaseInv, Pends, EffectInv, At, Recovering
  <1>2. ASSUME NEW next \in {"renew", "restart"}, Clear(next)
        PROVE  IInv'
    <2>1. /\ run' \in Run /\ run'.pc = (IF model = {} THEN next ELSE "sweep?")
          /\ run'.next = next /\ run'.skipped = {}
      BY <1>1, <1>2, ClearRun DEF IInv
    <2>2. UNCHANGED <<journal, keep>> /\ ~Closed'
      BY <1>1, ClosedMoves DEF Only, Here
    <2> QED
      BY <1>1, <2>1, <2>2, OnlyTypes
      DEF IInv, StageInv, PhaseInv, Pends, EffectInv, At, Recovering, Building, Sending,
           Proved, Deleting, Sweeping, Returns
  <1>3. CASE At("replan") /\ Fail
    BY <1>1, <1>3, FailsOnly DEF At
  <1> QED BY <1>1, <1>2, <1>3, StopsOnly DEF Reset

LEMMA RenewInv ==
    ASSUME IInv, Renew
    PROVE  IInv'
  <1>1. /\ run.pc \in {"renew", "restart"} /\ ~At("idle") /\ journal.phase = 3
        /\ journal.pending = {} /\ run.skipped = {}
    BY DEF Renew, IInv, StageInv, PhaseInv, Pends, EffectInv, At, Recovering
  <1>2. ASSUME Revision = Snapshot, NewEpoch, Here, NEW pc \in {"check", "build"}, Goto(pc)
        PROVE  IInv'
    <2>1. run' \in Run /\ run'.pc = pc /\ run'.skipped = {}
      BY <1>1, <1>2, GotoRun DEF IInv, Stages, Building
    <2>2. /\ Types' /\ FileInv' /\ DocumentInv'
          /\ journal'.phase = 3 /\ journal'.pending = {} /\ ~Closed'
      BY <1>1, <1>2, <2>1, EpochMoves, EmptyDocument, BusyIsOpen
    <2> QED
      BY <2>1, <2>2
      DEF IInv, StageInv, PhaseInv, Pends, EffectInv, At, Recovering, Building, Sending,
           Proved, Deleting, Sweeping
  <1>3. CASE At("restart") /\ Fail /\ Only
    BY <1>1, <1>3, FailsOnly DEF At
  <1> QED BY <1>2, <1>3, StopsOnly DEF Renew

LEMMA CheckInv ==
    ASSUME IInv, Check
    PROVE  IInv'
  <1>1. /\ Only /\ At("check") /\ ~At("idle") /\ journal.phase \in 3 .. 6
        /\ journal.pending = {} /\ run.skipped = {}
        /\ InPhase("SnapshotVerified") <=> journal.phase = 3
    BY FieldTypes, PhaseNames DEF Check, IInv, StageInv, PhaseInv, Pends, EffectInv, At, Building
  <1>2. UNCHANGED <<journal, keep>> /\ ~Closed'
    BY <1>1, ClosedMoves DEF Only, Here
  <1>3. CASE run' = [run EXCEPT !.pc = "build", !.made = Witnessed]
    <2>1. run' \in Run /\ run'.pc = "build" /\ run'.skipped = {}
      BY <1>1, <1>3, FieldTypes DEF IInv, Types, Run, Stages, Building
    <2> QED
      BY <1>1, <1>2, <2>1, OnlyTypes
      DEF IInv, StageInv, PhaseInv, Pends, EffectInv, At, Recovering, Building, Sending,
           Proved, Deleting, Sweeping
  <1>4. CASE InPhase("SnapshotVerified") /\ Goto("replan")
    <2>1. run' \in Run /\ run'.pc = "replan" /\ run'.skipped = {}
      BY <1>1, <1>4, GotoRun DEF IInv, Stages, Recovering
    <2> QED
      BY <1>1, <1>2, <1>4, <2>1, OnlyTypes
      DEF IInv, StageInv, PhaseInv, Pends, EffectInv, At, Recovering, Building, Sending,
           Proved, Deleting, Sweeping
  <1>5. CASE Fail
    BY <1>1, <1>5, FailsOnly DEF Building, At
  <1> QED BY <1>1, <1>3, <1>4, <1>5, StopsOnly DEF Check

-----------------------------------------------------------------------------
(* Rebuilding *)

\* Without an answer nothing is recorded: the program in hand joins those passed over.
LEMMA UnansweredStage ==
    ASSUME IInv, run.pc \in Sending \union {"build"}, NEW program \in Left,
           Unanswered(program), UNCHANGED <<journal, keep>>,
           ~At("build") => program = run.effect.program
    PROVE  StageInv'
  <1>1. journal.phase \in 3 .. 6 /\ ~At("idle")
    BY FieldTypes DEF IInv, StageInv, PhaseInv, Building, Sending, At
  <1>2. ~Closed'
    BY <1>1, ClosedMoves
  <1>3. /\ run.skipped \subseteq Plan \ Decided
        /\ \A e \in journal.pending : e.program \in run.skipped \/ e.program = program
        /\ program \in Plan \ Decided
    BY DEF IInv, StageInv, Pends, Left
  <1>4. Decided' = Decided
    BY DEF Decided
  <1>5. CASE run'.pc \in {"sweep?", "delete?"} /\ run'.next = "settle"
    BY <1>2, <1>5, FailsStage DEF Building, Sending
  <1>6. CASE run'.pc = "build" /\ run'.skipped = run.skipped \union {program}
    BY <1>1, <1>2, <1>3, <1>4, <1>6
    DEF StageInv, PhaseInv, Pends, EffectInv, At, Recovering, Building, Sending,
        Proved, Deleting, Sweeping
  <1> QED BY <1>3, <1>5, <1>6, UnansweredRun DEF IInv

LEMMA StartRebuildInv ==
    ASSUME IInv, StartRebuild
    PROVE  IInv'
  <1>1. /\ Here /\ At("build") /\ ~At("idle") /\ journal.phase \in 3 .. 6
        /\ run.skipped \subseteq Plan \ Decided
        /\ \A e \in journal.pending : e.program \in run.skipped
    BY FieldTypes DEF StartRebuild, IInv, StageInv, PhaseInv, Pends, At, Building
  <1>2. PICK p \in Left : Start("rebuild", p) \/ (Unanswered(p) /\ UNCHANGED journal)
    BY DEF StartRebuild
  <1>3. p \in Plan \ (Decided \union run.skipped)
    BY DEF Left
  <1>4. CASE Unanswered(p) /\ UNCHANGED journal
    <2>1. StageInv'
      BY <1>1, <1>4, UnansweredStage DEF At, Here
    <2>2. Types' /\ FileInv' /\ DocumentInv'
      BY <1>1, <1>3, <1>4, UnansweredRun, OnlyTypes DEF IInv, Only
    <2> QED BY <2>1, <2>2 DEF IInv
  <1>5. CASE Start("rebuild", p)
    <2>1. PICK effect \in Effects :
                /\ effect.kind = "rebuild" /\ effect.program = p
                /\ journal' = [journal EXCEPT !.pending = @ \union {effect}]
                /\ run' = [run EXCEPT !.pc = "rebuild", !.effect = effect]
      BY <1>3, <1>5, StartEffect DEF IInv
    <2>2. /\ run' \in Run /\ run'.pc = "rebuild" /\ run'.effect = effect
          /\ run'.skipped = run.skipped
      BY <2>1 DEF IInv, Types, Run, Stages, Building
    <2> DEFINE P == journal.pending \union {effect}
    <2>3. P \in SUBSET Effects /\ IsFiniteSet(P)
      BY FS_AddElement, FieldTypes DEF IInv, Types
    <2>4. journal' = [journal EXCEPT !.pending = P]
      BY <2>1
    <2>5. model \subseteq Witnessed \union P
      BY DEF IInv, DocumentInv
    <2>6. /\ Types' /\ FileInv' /\ DocumentInv'
          /\ journal'.phase = journal.phase /\ journal'.pending = P
          /\ Decided' = Decided /\ ~Closed'
      <3> HIDE DEF P
      <3> QED BY <1>1, <2>2, <2>3, <2>4, <2>5, PendingMoves, BusyIsOpen
    <2>7. effect \notin model' /\ keep' = keep
      <3>1. \A e \in Witnessed : e.program \in Decided
        BY DEF Witnessed, Committed, Decided
      <3>2. effect \notin Witnessed /\ effect \notin journal.pending
        BY <1>1, <1>3, <2>1, <3>1
      <3> QED BY <1>1, <3>2 DEF Here, IInv, DocumentInv
    <2>8. PhaseInv'
      BY <1>1, <2>2, <2>6
      DEF PhaseInv, At, Recovering, Building, Sending, Proved, Deleting, Sweeping
    <2>9. Pends'
      BY <1>1, <1>3, <2>2, <2>6
      DEF Pends, At, Recovering, Building, Sending, Proved, Deleting, Sweeping
    <2>10. EffectInv'
      BY <1>3, <2>1, <2>2, <2>6, <2>7
      DEF EffectInv, At, Recovering, Sending, Deleting, Sweeping
    <2> QED BY <2>6, <2>8, <2>9, <2>10 DEF IInv, StageInv
  <1> QED BY <1>2, <1>4, <1>5

\* Revit may have done it, whether or not it says so.
LEMMA RunRebuildInv ==
    ASSUME IInv, RunRebuild
    PROVE  IInv'
  <1>1. /\ run.pc = "rebuild" /\ ~At("idle") /\ journal.phase \in 3 .. 6
        /\ run.effect \in journal.pending /\ run.effect \in Effects
        /\ run.effect.kind = "rebuild" /\ run.effect \notin model
        /\ run.effect.program \in Left /\ run.effect.program \in Plan \ Decided
        /\ run.effect.program \notin run.skipped
        /\ \A e \in journal.pending : e.program \in run.skipped \/ e = run.effect
    BY FieldTypes
    DEF RunRebuild, IInv, StageInv, PhaseInv, Pends, EffectInv, At, Building, Sending, Left
  <1>2. UNCHANGED <<journal, torn, keep, edits, requests>> /\ ~Closed'
    BY <1>1, ClosedMoves DEF RunRebuild
  <1>3. model' \in {model, model \union {run.effect}}
    BY DEF RunRebuild
  <1>4. /\ run' \in Run
        /\ \/ /\ run'.pc \in {"rebuilt", "refused"} /\ (run'.pc = "refused" => model' = model)
              /\ run'.effect = run.effect /\ run'.skipped = run.skipped
           \/ Unanswered(run.effect.program)
    <2>1. CASE Goto("rebuilt") \/ (Goto("refused") /\ UNCHANGED model)
      BY <2>1, GotoRun DEF IInv, Stages, Building
    <2>2. CASE Unanswered(run.effect.program)
      BY <1>1, <2>2, UnansweredRun DEF IInv
    <2> QED BY <2>1, <2>2 DEF RunRebuild
  <1>5. Decided' = Decided /\ Witnessed' = Witnessed
    BY <1>2 DEF Decided, Witnessed, Committed
  <1>6. IsFiniteSet(model') /\ model' \in SUBSET Effects
    BY <1>1, <1>3, FS_AddElement DEF IInv, Types
  <1>7. Types'
    BY <1>2, <1>4, <1>6 DEF IInv, Types
  <1>8. FileInv'
    <2>1. journal' = Empty <=> journal = Empty
      BY <1>2
    <2> QED BY <1>1, <1>2, <1>5, <2>1, BusyIsOpen DEF IInv, FileInv
  <1>9. DocumentInv'
    <2>1. \A e \in model : e.program # run.effect.program
      <3>1. \A e \in Witnessed : e.program \in Decided
        BY DEF Witnessed, Committed, Decided
      <3> QED BY <1>1, <3>1 DEF IInv, DocumentInv
    <2> QED BY <1>1, <1>2, <1>3, <1>5, <2>1 DEF IInv, DocumentInv
  <1>10. StageInv'
    <2>1. CASE /\ run'.pc \in {"rebuilt", "refused"} /\ (run'.pc = "refused" => model' = model)
               /\ run'.effect = run.effect /\ run'.skipped = run.skipped
      <3>1. PhaseInv'
        BY <1>1, <1>2, <2>1
        DEF PhaseInv, At, Recovering, Building, Sending, Proved, Deleting, Sweeping
      <3>2. Pends'
        <4>1. run.skipped \subseteq Plan \ Decided
          BY <1>1 DEF IInv, StageInv, Pends, Sending
        <4> QED BY <1>1, <1>2, <1>5, <2>1, <4>1 DEF Pends, At, Sending, Proved, Sweeping
      <3>3. EffectInv'
        BY <1>1, <1>2, <1>5, <2>1
        DEF EffectInv, At, Recovering, Sending, Deleting, Sweeping
      <3> QED BY <3>1, <3>2, <3>3 DEF StageInv
    <2>2. CASE Unanswered(run.effect.program)
      BY <1>1, <1>2, <2>2, UnansweredStage DEF Sending
    <2> QED BY <1>4, <2>1, <2>2
  <1> QED BY <1>7, <1>8, <1>9, <1>10 DEF IInv

LEMMA FinishRebuildInv ==
    ASSUME IInv, FinishRebuild \/ FinishRefused
    PROVE  IInv'
  <1>6. run.pc \in {"rebuilt", "refused"} /\ ~At("idle") /\ Here
    BY DEF FinishRebuild, FinishRefused, At
  <1>7. journal.phase \in 3 .. 6
    BY <1>6, FieldTypes DEF IInv, StageInv, PhaseInv, At, Building
  <1>1. /\ run.pc \in {"rebuilt", "refused"} /\ ~At("idle") /\ Here
        /\ journal.phase \in 3 .. 6 /\ run.effect.kind = "rebuild"
        /\ run.effect \in journal.pending /\ run.effect \in Effects
        /\ run.effect.program \in Left /\ run.effect.program \in Plan \ Decided
        /\ run.effect.program \notin run.skipped /\ run.skipped \subseteq Plan \ Decided
        /\ \A e \in journal.pending : e.program \in run.skipped \/ e = run.effect
        /\ run.pc = "refused" => run.effect \notin model
    BY <1>6, <1>7, FieldTypes DEF IInv, StageInv, Pends, EffectInv, Sending, At, Left
  <1>2. ASSUME NEW committed \in BOOLEAN, Receipt(committed), committed \/ run.pc = "refused",
               run' \in Run, run'.pc = "build", run'.skipped = run.skipped
        PROVE  IInv'
    <2>1. /\ Types' /\ FileInv' /\ DocumentInv'
          /\ journal'.phase = journal.phase
          /\ journal'.pending = journal.pending \ {run.effect}
          /\ Decided' = Decided \union {run.effect.program} /\ ~Closed'
      BY <1>1, <1>2, ReceiptMoves, BusyIsOpen
    <2> QED
      BY <1>1, <1>2, <2>1
      DEF IInv, StageInv, PhaseInv, Pends, EffectInv, At, Recovering, Building, Sending, Proved,
          Deleting, Sweeping
  <1>3. CASE FinishRefused
    <2>1. /\ Receipt(FALSE) /\ run' \in Run /\ run'.pc = "build" /\ run.pc = "refused"
          /\ run'.skipped = run.skipped
      BY <1>3, GotoRun DEF FinishRefused, IInv, Stages, Building, At
    <2> QED BY <1>2, <2>1
  <1>4. CASE /\ At("rebuilt") /\ Receipt(TRUE)
             /\ run' = [run EXCEPT !.pc = "build", !.made = @ \union {run.effect}]
    <2>1. run' \in Run /\ run'.pc = "build" /\ run'.skipped = run.skipped
      BY <1>1, <1>4 DEF IInv, Types, Run, Stages, Building
    <2> QED BY <1>2, <1>4, <2>1
  <1>5. CASE Unanswered(run.effect.program) /\ UNCHANGED journal
    <2>1. StageInv'
      BY <1>1, <1>5, UnansweredStage DEF Here, Sending
    <2>2. Types' /\ FileInv' /\ DocumentInv'
      BY <1>1, <1>5, UnansweredRun, OnlyTypes DEF IInv, Only
    <2> QED BY <2>1, <2>2 DEF IInv
  <1> QED BY <1>3, <1>4, <1>5 DEF FinishRebuild

LEMMA EndBuildInv ==
    ASSUME IInv, EndBuild
    PROVE  IInv'
  <1>1. /\ Only /\ At("build") /\ ~At("idle") /\ journal.phase \in 3 .. 6
        /\ run.skipped \subseteq Plan \ Decided
        /\ \A e \in journal.pending : e.program \in run.skipped
    BY FieldTypes DEF EndBuild, IInv, StageInv, PhaseInv, Pends, At, Building
  <1>2. CASE Fail
    BY <1>1, <1>2, FailsOnly DEF Building, At
  <1>3. CASE Decided = Plan /\ Goto("prove")
    <2>1. run' \in Run /\ run'.pc = "prove" /\ journal.pending = {}
      BY <1>1, <1>3, GotoRun DEF IInv, Stages, Proved
    <2>2. UNCHANGED <<journal, keep>> /\ ~Closed' /\ Decided' = Decided
      BY <1>1, ClosedMoves DEF Only, Here, Decided
    <2> QED
      BY <1>1, <1>3, <2>1, <2>2, OnlyTypes
      DEF IInv, StageInv, PhaseInv, Pends, EffectInv, At, Recovering, Building, Sending, Proved,
          Deleting, Sweeping
  <1> QED BY <1>2, <1>3 DEF EndBuild

\* Proving goes from one stage to the next, with a record where there is none yet.
LEMMA ProvingInv ==
    ASSUME IInv, Proving
    PROVE  IInv'
  <1>1. /\ run.pc \in Proved /\ ~At("idle") /\ journal.phase \in 3 .. 6
        /\ journal.pending = {} /\ Decided = Plan
        /\ Reached("Rebuilt") <=> journal.phase >= 4
        /\ Reached("Reconciled") <=> journal.phase >= 5
        /\ Reached("Compared") <=> journal.phase >= 6
        /\ At("reconcile") => journal.phase >= 4
        /\ At("compare") => journal.phase >= 5
        /\ At("preview") => journal.phase = 6
    BY FieldTypes, PhaseNames
    DEF Proving, ProveRebuilt, Reconcile, Compare, PreviewCleanup, Proved, IInv, StageInv,
        PhaseInv, Pends, At
  <1>2. CASE Fail /\ Only
    BY <1>1, <1>2, FailsOnly
  <1>3. ASSUME NEW pc \in {"reconcile", "compare", "preview"}, Goto(pc), Only,
               pc = "reconcile" => journal.phase >= 4, pc = "compare" => journal.phase >= 5,
               pc = "preview" => journal.phase = 6
        PROVE  IInv'
    <2>1. run' \in Run /\ run'.pc = pc
      BY <1>3, GotoRun DEF IInv, Stages, Proved
    <2>2. UNCHANGED <<journal, keep>> /\ ~Closed' /\ Decided' = Decided
      BY <1>1, <1>3, ClosedMoves DEF Only, Here, Decided
    <2> QED
      BY <1>1, <1>3, <2>1, <2>2, OnlyTypes
      DEF IInv, StageInv, PhaseInv, Pends, EffectInv, At, Recovering, Building, Sending, Proved,
          Deleting, Sweeping
  <1>4. ASSUME NEW pc \in {"reconcile", "compare", "preview"}, Goto(pc), Here,
               journal' \in Journal, journal'.phase = journal.phase + 1,
               journal'.pending = journal.pending, journal'.receipts = journal.receipts,
               journal'.preview = journal.preview, journal'.abandoned = journal.abandoned,
               journal.phase = IF pc = "reconcile" THEN 3 ELSE IF pc = "compare" THEN 4 ELSE 5
        PROVE  IInv'
    <2>1. run' \in Run /\ run'.pc = pc
      BY <1>4, GotoRun DEF IInv, Stages, Proved
    <2>2. Types' /\ FileInv' /\ DocumentInv'
      BY <1>1, <1>4, <2>1, PhaseMoves
    <2>3. ~Closed' /\ Decided' = Decided
      BY <1>1, <1>4, ClosedMoves DEF Decided
    <2> QED
      BY <1>1, <1>4, <2>1, <2>2, <2>3
      DEF IInv, StageInv, PhaseInv, Pends, EffectInv, At, Recovering, Building, Sending, Proved,
          Deleting, Sweeping
  <1>5. CASE ProveRebuilt
    <2>1. CASE Reached("Rebuilt") /\ Goto("reconcile") /\ Only
      BY <1>1, <1>3, <2>1
    <2>2. CASE /\ ~Reached("Rebuilt") /\ Goto("reconcile") /\ Here
               /\ Transition([journal EXCEPT !.rebuilt = Revision])
      <3>1. /\ journal' \in Journal /\ journal'.phase = journal.phase + 1
            /\ journal'.pending = journal.pending /\ journal'.receipts = journal.receipts
            /\ journal'.preview = journal.preview /\ journal'.abandoned = journal.abandoned
        <4>1. journal \in Journal /\ Revision \in Revisions /\ journal.phase + 1 \in 1 .. 8
          BY <1>1, FieldTypes DEF IInv, Types
        <4> QED BY <2>2, <4>1 DEF Journal, Transition
      <3> QED BY <1>1, <1>4, <2>2, <3>1
    <2> QED BY <1>2, <1>5, <2>1, <2>2 DEF ProveRebuilt
  <1>6. CASE Reconcile
    <2>1. CASE Reached("Reconciled") /\ Goto("compare") /\ Only
      BY <1>1, <1>3, <2>1
    <2>2. CASE ~Reached("Reconciled") /\ Advance /\ Goto("compare") /\ Here
      BY <1>1, <1>4, <1>6, <2>2, AdvanceJournal DEF Reconcile, IInv
    <2> QED BY <1>2, <1>6, <2>1, <2>2 DEF Reconcile
  <1>7. CASE Compare
    <2>1. CASE Reached("Compared") /\ Goto("preview") /\ Only
      BY <1>1, <1>3, <2>1
    <2>2. CASE ~Reached("Compared") /\ Advance /\ Goto("preview") /\ Here
      BY <1>1, <1>4, <1>7, <2>2, AdvanceJournal DEF Compare, IInv
    <2> QED BY <1>2, <1>7, <2>1, <2>2 DEF Compare
  <1>8. CASE PreviewCleanup
    <2>1. CASE /\ model = run.made /\ Here
               /\ Transition([journal EXCEPT !.preview = run.made])
               /\ run' = [run EXCEPT !.pc = IF keep THEN "settle" ELSE "delete?",
                                     !.next = "settle"]
      <3>1. /\ journal' \in Journal /\ journal'.phase = 7
            /\ journal'.pending = {} /\ journal'.receipts = journal.receipts
            /\ journal'.preview = run.made /\ journal'.abandoned = journal.abandoned
        <4>1. journal \in Journal /\ run.made \in SUBSET Effects
          BY FieldTypes DEF IInv, Types
        <4>2. journal.phase = 6 /\ journal.pending = {}
          BY <1>1, <1>8 DEF PreviewCleanup
        <4>3. journal' = [journal EXCEPT !.phase = @ + 1, !.preview = run.made]
          BY <2>1, <4>1 DEF Transition, Journal
        <4>4. journal.phase + 1 \in 1 .. 8
          BY <4>2
        <4>5. journal' \in Journal
          BY <4>1, <4>3, <4>4 DEF Journal
        <4>6. journal'.phase = journal.phase + 1
          BY <4>1, <4>3 DEF Journal
        <4>7. /\ journal'.pending = journal.pending /\ journal'.receipts = journal.receipts
              /\ journal'.preview = run.made /\ journal'.abandoned = journal.abandoned
          BY <4>1, <4>3 DEF Journal
        <4> QED BY <4>2, <4>5, <4>6, <4>7
      <3>2. /\ run' \in Run /\ run'.pc = IF keep THEN "settle" ELSE "delete?"
            /\ run'.next = "settle"
        BY <2>1 DEF IInv, Types, Run, Stages, Deleting, Returns
      <3>3. journal.phase = 6
        BY <1>1, <1>8 DEF PreviewCleanup
      <3>4. Types' /\ FileInv' /\ DocumentInv'
        BY <1>1, <2>1, <3>1, <3>2, <3>3, PhaseMoves
      <3>5. ~Closed' /\ keep' = keep
        BY <1>1, <2>1, <3>1, ClosedMoves DEF Here
      <3> QED
        BY <3>1, <3>2, <3>4, <3>5
        DEF IInv, StageInv, PhaseInv, Pends, EffectInv, At, Recovering, Building, Sending, Proved,
            Deleting, Sweeping, Returns
    <2> QED BY <1>2, <1>8, <2>1 DEF PreviewCleanup
  <1> QED BY <1>5, <1>6, <1>7, <1>8 DEF Proving

-----------------------------------------------------------------------------
(* Cleaning up *)

\* A deletion or a sweep begins: a stage that has no part in the rebuild.
LEMMA StartCleanupInv ==
    ASSUME IInv, StartDelete \/ StartSweep
    PROVE  IInv'
  <1>1. /\ Here /\ run.pc \in {"delete?", "sweep?"} /\ ~At("idle")
        /\ journal.phase >= 3 /\ journal.phase \in 1 .. 7 /\ ~(journal.phase >= 7 /\ keep)
        /\ run.pc = "delete?" => run.next = "settle"
        /\ run.next \in Returns \ {"idle"}
    BY BusyIsOpen
    DEF StartDelete, StartSweep, IInv, StageInv, PhaseInv, EffectInv, At, Deleting, Sweeping,
        Returns
  <1> DEFINE kind == IF run.pc = "delete?" THEN "delete" ELSE "sweep"
  <1>2. Start(kind, 0)
    BY DEF StartDelete, StartSweep, At
  <1>3. PICK effect \in Effects :
              /\ effect.kind = kind
              /\ journal' = [journal EXCEPT !.pending = @ \union {effect}]
              /\ run' = [run EXCEPT !.pc = kind, !.effect = effect]
    BY <1>2, StartEffect DEF IInv
  <1>4. /\ run' \in Run /\ run'.pc = kind /\ run'.effect = effect
        /\ run'.left = run.left /\ run'.next = run.next
    BY <1>3 DEF IInv, Types, Run, Stages, Deleting, Sweeping
  <1> DEFINE P == journal.pending \union {effect}
  <1>5. P \in SUBSET Effects /\ IsFiniteSet(P)
    BY FS_AddElement, FieldTypes DEF IInv, Types
  <1>6. journal' = [journal EXCEPT !.pending = P]
    BY <1>3
  <1>7. model \subseteq Witnessed \union P
    BY DEF IInv, DocumentInv
  <1>8. /\ Types' /\ FileInv' /\ DocumentInv'
        /\ journal'.phase = journal.phase /\ journal'.pending = P
        /\ ~Closed' /\ keep' = keep
    <2> HIDE DEF P
    <2> QED BY <1>1, <1>4, <1>5, <1>6, <1>7, PendingMoves, BusyIsOpen DEF Here
  <1> QED
    BY <1>1, <1>3, <1>4, <1>8
    DEF IInv, StageInv, PhaseInv, Pends, EffectInv, At, Recovering, Building, Sending, Proved,
        Deleting, Sweeping

\* The answered deletion or sweep is closed: it never named an element.
LEMMA FinishedEffect ==
    ASSUME IInv, run.pc \in {"deleted", "swept"}, Finish(run.effect), Here, run' \in Run
    PROVE  /\ Types' /\ FileInv' /\ DocumentInv'
           /\ journal'.phase = journal.phase /\ journal'.pending = journal.pending \ {run.effect}
           /\ ~Closed' /\ keep' = keep /\ model' = model
  <1> DEFINE P == journal.pending \ {run.effect}
  <1>1. /\ ~At("idle") /\ journal.phase >= 3 /\ ~(journal.phase >= 7 /\ keep)
        /\ run.effect.kind \in {"delete", "sweep"}
    BY DEF IInv, StageInv, PhaseInv, EffectInv, At, Deleting, Sweeping
  <1>2. P \in SUBSET Effects /\ IsFiniteSet(P)
    BY FS_RemoveElement, FieldTypes DEF IInv, Types
  <1>3. journal' = [journal EXCEPT !.pending = P]
    BY DEF Finish
  <1>4. model \subseteq Witnessed \union P
    BY <1>1 DEF IInv, DocumentInv
  <1>5. journal.phase \in 1 .. 7
    BY <1>1, BusyIsOpen
  <1> HIDE DEF P
  <1>6. /\ Types' /\ FileInv' /\ DocumentInv'
        /\ journal'.phase = journal.phase /\ journal'.pending = P /\ ~Closed'
    BY <1>1, <1>2, <1>3, <1>4, <1>5, PendingMoves, BusyIsOpen
  <1> QED BY <1>6 DEF P, Here

LEMMA FinishDeleteInv ==
    ASSUME IInv, FinishDelete
    PROVE  IInv'
  <1>1. /\ run.pc = "deleted" /\ ~At("idle") /\ run.next = "settle"
        /\ journal.phase >= 3 /\ ~(journal.phase >= 7 /\ keep)
    BY DEF FinishDelete, IInv, StageInv, PhaseInv, EffectInv, At, Deleting
  <1>2. run' \in Run /\ run'.pc = "sweep?" /\ run'.next = "settle"
    BY <1>1, GotoRun DEF FinishDelete, IInv, Stages, Sweeping
  <1>3. /\ Types' /\ FileInv' /\ DocumentInv'
        /\ journal'.phase = journal.phase /\ ~Closed' /\ keep' = keep
    BY <1>1, <1>2, FinishedEffect DEF FinishDelete
  <1> QED
    BY <1>1, <1>2, <1>3
    DEF IInv, StageInv, PhaseInv, Pends, EffectInv, At, Recovering, Building, Sending, Proved,
        Deleting, Sweeping, Returns

\* Where a sweep goes on, confirmed or not.
LEMMA SweptRun ==
    ASSUME Types, run.next \in Returns \ {"idle"}, NEW ok \in BOOLEAN, Swept(ok)
    PROVE  /\ run' \in Run
           /\ \/ run'.pc = "settle" /\ run.next = "settle"
              \/ run'.pc = "idle"
              \/ /\ run.next = "restart"
                 /\ run'.pc \in {"sweep?", "delete?"} /\ run'.next = "settle"
              \/ /\ ok /\ run.next # "settle" /\ run'.pc = run.next
                 /\ run'.left = run.left /\ run'.skipped = run.skipped
  <1>1. CASE run.next = "settle"
    BY <1>1 DEF Swept, Types, Run, Stages
  <1>2. CASE run.next # "settle" /\ ok
    <2>1. Goto(run.next) /\ run.next \in Stages
      BY <1>2 DEF Swept, Returns, Stages, Recovering
    <2> QED BY <1>2, <2>1, GotoRun
  <1>3. CASE run.next = "restart" /\ ~ok
    BY <1>3, FailRun DEF Swept
  <1>4. CASE run.next \notin {"settle", "restart"} /\ ~ok
    BY <1>4, StopRun DEF Swept
  <1> QED BY <1>1, <1>2, <1>3, <1>4

\* Settling asks little of the file.
LEMMA SettleStage ==
    ASSUME run'.pc = "settle", journal'.phase \in 3 .. 8, ~Closed'
    PROVE  StageInv'
  <1>1. PhaseInv'
    BY DEF PhaseInv, At, Recovering, Building, Sending, Proved, Deleting, Sweeping
  <1>2. Pends' /\ EffectInv'
    BY DEF Pends, EffectInv, At, Recovering, Building, Sending, Proved, Deleting, Sweeping
  <1> QED BY <1>1, <1>2 DEF StageInv

\* A cleanup that begins asks no more.
LEMMA CleanupStage ==
    ASSUME run'.pc \in {"sweep?", "delete?"}, run'.next = "settle", journal'.phase \in 3 .. 6,
           ~Closed'
    PROVE  StageInv'
  <1>1. PhaseInv'
    BY DEF PhaseInv, At, Recovering, Building, Sending, Proved, Deleting, Sweeping
  <1>2. Pends' /\ EffectInv'
    BY DEF Pends, EffectInv, At, Recovering, Building, Sending, Proved, Deleting, Sweeping,
           Returns
  <1> QED BY <1>1, <1>2 DEF StageInv

LEMMA FinishSweepInv ==
    ASSUME IInv, FinishSweep
    PROVE  IInv'
  <1>1. /\ run.pc = "swept" /\ ~At("idle") /\ run.next \in Returns \ {"idle"}
        /\ journal.phase \in 3 .. 7 /\ ~(journal.phase >= 7 /\ keep)
        /\ run.next \in {"renew", "restart"} => journal.phase = 3
        /\ run.next # "settle" => run.skipped = {}
        /\ run.next = "conclude" => journal.phase = 7
        /\ run.clean => model = {}
        /\ run.next = "close" => journal.pending \subseteq run.left \union {run.effect}
        /\ run.next \in {"conclude", "renew", "restart"} => journal.pending \subseteq {run.effect}
    BY BusyIsOpen DEF FinishSweep, IInv, StageInv, PhaseInv, Pends, EffectInv, At, Sweeping
  <1>2. /\ run' \in Run
        /\ \/ run'.pc = "settle" /\ run.next = "settle"
           \/ run'.pc = "idle"
           \/ /\ run.next = "restart"
              /\ run'.pc \in {"sweep?", "delete?"} /\ run'.next = "settle"
           \/ /\ run.clean /\ run.next # "settle" /\ run'.pc = run.next
              /\ run'.left = run.left /\ run'.skipped = run.skipped
    BY <1>1, SweptRun, FieldTypes DEF FinishSweep, IInv
  <1>3. /\ Types' /\ FileInv' /\ DocumentInv'
        /\ journal'.phase = journal.phase /\ journal'.pending = journal.pending \ {run.effect}
        /\ ~Closed' /\ keep' = keep /\ model' = model
    BY <1>1, <1>2, FinishedEffect DEF FinishSweep
  <1>4. StageInv'
    <2>1. CASE run'.pc = "idle"
      BY <2>1, IdleStage
    <2>2. CASE run'.pc = "settle"
      BY <1>1, <1>3, <2>2, SettleStage
    <2>4. CASE run.next = "restart" /\ run'.pc \in {"sweep?", "delete?"} /\ run'.next = "settle"
      BY <1>1, <1>3, <2>4, CleanupStage
    <2>3. CASE /\ run.clean /\ run'.pc \in {"close", "conclude", "renew", "restart"}
               /\ run'.pc = run.next /\ run'.left = run.left /\ run'.skipped = {}
      <3>1. PhaseInv'
        BY <1>1, <1>3, <2>3
        DEF PhaseInv, At, Recovering, Building, Sending, Proved, Deleting, Sweeping
      <3>2. Pends'
        BY <1>1, <1>3, <2>3 DEF Pends, At, Building, Sending, Proved
      <3>3. EffectInv'
        BY <1>1, <1>3, <2>3 DEF EffectInv, At, Recovering, Sending, Deleting, Sweeping
      <3> QED BY <3>1, <3>2, <3>3 DEF StageInv
    <2> QED BY <1>1, <1>2, <2>1, <2>2, <2>3, <2>4 DEF Returns
  <1> QED BY <1>3, <1>4 DEF IInv

\* A document that only loses elements keeps what the file says of it.
LEMMA ModelShrinks ==
    ASSUME IInv, model' \subseteq model, UNCHANGED <<journal, keep>>, run' \in Run,
           torn' \in BOOLEAN, edits' \in Nat, requests' \in Nat
    PROVE  /\ Types' /\ FileInv' /\ DocumentInv'
           /\ Decided' = Decided /\ (Closed' <=> Closed)
  <1>1. Decided' = Decided /\ Witnessed' = Witnessed /\ (Closed' <=> Closed)
    BY DEF Decided, Witnessed, Committed, Closed, InPhase
  <1>2. model' \in SUBSET Effects /\ IsFiniteSet(model')
    BY FS_Subset DEF IInv, Types
  <1>3. Types'
    BY <1>2 DEF IInv, Types
  <1>4. FileInv'
    BY <1>1 DEF IInv, FileInv
  <1>5. DocumentInv'
    BY <1>1 DEF IInv, DocumentInv
  <1> QED BY <1>1, <1>3, <1>4, <1>5

LEMMA RunCleanupInv ==
    ASSUME IInv, RunDelete \/ RunSweep
    PROVE  IInv'
  <1>1. /\ run.pc \in {"delete", "sweep"} /\ ~At("idle") /\ run.next \in Returns \ {"idle"}
        /\ run.pc = "delete" => run.next = "settle"
        /\ journal.phase \in 3 .. 7 /\ ~(journal.phase >= 7 /\ keep)
        /\ run.effect \in Effects
        /\ run.effect.kind = run.pc
    <2>1. /\ run.pc \in {"delete", "sweep"} /\ ~At("idle")
      BY DEF RunDelete, RunSweep, At
    <2>2. journal.phase \in 1 .. 7
      BY <2>1, BusyIsOpen
    <2>3. journal.phase >= 3 /\ ~(journal.phase >= 7 /\ keep)
      BY <2>1 DEF IInv, StageInv, PhaseInv, At
    <2>4. /\ run.next \in Returns \ {"idle"} /\ (run.pc = "delete" => run.next = "settle")
          /\ run.effect \in Effects /\ run.effect.kind = run.pc
      BY <2>1 DEF IInv, StageInv, EffectInv, Deleting, Sweeping, Returns
    <2> QED BY <2>1, <2>2, <2>3, <2>4
  <1>2. /\ UNCHANGED <<journal, torn, keep, edits, requests>>
        /\ model' \subseteq model
    BY DEF RunDelete, RunSweep
  <1>3. /\ run' \in Run
        /\ \/ /\ run.pc = "delete" /\ run'.pc \in {"deleted", "sweep?"}
              /\ run'.next = run.next /\ run'.effect = run.effect
           \/ /\ run.pc = "sweep"
              /\ \/ run'.pc = "settle" \/ run'.pc = "idle"
                 \/ /\ run.next = "restart"
                    /\ run'.pc \in {"sweep?", "delete?"} /\ run'.next = "settle"
                 \/ /\ run'.pc = "swept" /\ run'.next = run.next /\ run'.effect = run.effect
                    /\ run'.left = run.left /\ run'.skipped = run.skipped
                    /\ (run'.clean => model' = {})
    <2>1. CASE RunDelete
      BY <2>1, GotoRun DEF RunDelete, IInv, Stages, Deleting, Sweeping, At
    <2>2. CASE RunSweep
      <3>1. PICK rest \in SUBSET model :
                  /\ model' = rest
                  /\ Swept(FALSE) \/ run' = [run EXCEPT !.pc = "swept", !.clean = (rest = {})]
        BY <2>2 DEF RunSweep
      <3>2. CASE Swept(FALSE)
        BY <1>1, <2>2, <3>2, SweptRun DEF IInv, RunSweep, At
      <3>3. CASE run' = [run EXCEPT !.pc = "swept", !.clean = (rest = {})]
        <4>1. (rest = {}) \in BOOLEAN
          OBVIOUS
        <4> QED BY <2>2, <3>1, <3>3, <4>1 DEF IInv, Types, Run, Stages, Sweeping, RunSweep, At
      <3> QED BY <3>1, <3>2, <3>3
    <2> QED BY <2>1, <2>2
  <1>4. /\ Types' /\ FileInv' /\ DocumentInv'
        /\ Decided' = Decided /\ ~Closed'
    <2>1. torn' \in BOOLEAN /\ edits' \in Nat /\ requests' \in Nat
      BY <1>2 DEF IInv, Types
    <2> QED BY <1>1, <1>2, <1>3, <2>1, ModelShrinks, BusyIsOpen
  <1>5. StageInv'
    <2>1. CASE run'.pc = "idle"
      BY <2>1, IdleStage
    <2>2. CASE run'.pc = "settle"
      BY <1>1, <1>2, <1>4, <2>2, SettleStage
    <2>3. CASE run.pc = "delete" /\ run'.pc \in {"deleted", "sweep?"}
      <3>1. run'.next = "settle" /\ run'.effect = run.effect /\ run.effect.kind = "delete"
        BY <1>1, <1>3, <2>3
      <3>2. PhaseInv'
        BY <1>1, <1>2, <1>4, <2>3, <3>1
        DEF PhaseInv, At, Recovering, Building, Sending, Proved, Deleting, Sweeping
      <3>3. Pends'
        BY <2>3, <3>1 DEF Pends, At, Building, Sending, Proved
      <3>4. EffectInv'
        BY <1>1, <2>3, <3>1 DEF EffectInv, At, Recovering, Sending, Deleting, Sweeping, Returns
      <3> QED BY <3>2, <3>3, <3>4 DEF StageInv
    <2>4. CASE run.pc = "sweep" /\ run'.pc = "swept"
      BY <1>1, <1>2, <1>3, <1>4, <2>4
      DEF IInv, StageInv, PhaseInv, Pends, EffectInv, At, Recovering, Building, Sending, Proved,
          Deleting, Sweeping
    <2>5. CASE /\ run.pc = "sweep" /\ run.next = "restart"
               /\ run'.pc \in {"sweep?", "delete?"} /\ run'.next = "settle"
      <3>1. journal'.phase = 3
        BY <1>2, <2>5 DEF IInv, StageInv, PhaseInv, Sweeping
      <3> QED BY <1>4, <2>5, <3>1, CleanupStage
    <2> QED BY <1>3, <2>1, <2>2, <2>3, <2>4, <2>5
  <1> QED BY <1>4, <1>5 DEF IInv

LEMMA UserEditsInv ==
    ASSUME IInv, UserEdits
    PROVE  IInv'
  <1>1. /\ UNCHANGED <<journal, torn, keep, run, requests>> /\ model' \subseteq model
        /\ edits' \in Nat
    BY DEF UserEdits, IInv, Types
  <1>2. Types' /\ FileInv' /\ DocumentInv' /\ Decided' = Decided /\ (Closed' <=> Closed)
    BY <1>1, ModelShrinks DEF IInv, Types
  <1>3. PhaseInv'
    BY <1>1, <1>2 DEF IInv, StageInv, PhaseInv, At
  <1>4. Pends' /\ EffectInv'
    BY <1>1, <1>2 DEF IInv, StageInv, Pends, EffectInv, At
  <1> QED BY <1>2, <1>3, <1>4 DEF IInv, StageInv

\* What closes a file: the copy kept, or nothing left, or nothing left after a failure.
LEMMA SettleInv ==
    ASSUME IInv, Settle
    PROVE  IInv'
  <1>1. /\ Stop /\ At("settle") /\ ~At("idle") /\ journal.phase >= 3
        /\ journal.phase \in 1 .. 7
        /\ InPhase("CleanupPreviewed") <=> journal.phase = 7
    BY BusyIsOpen, PhaseNames DEF Settle, IInv, StageInv, PhaseInv, At
  <1> DEFINE gone == run.clean /\ journal.pending = {} /\ Revision = Snapshot
  <1>2. CASE Only
    BY <1>1, <1>2, StopsOnly
  <1>3. CASE journal.phase = 7 /\ (IF keep THEN Unmoved ELSE gone) /\ Advance /\ Here
    <2>1. journal.pending = {} /\ (keep \/ model = {})
      BY <1>3, EmptyDocument DEF IInv, FileInv
    <2> QED BY <1>1, <1>3, <2>1, CompletesInv
  <1>4. CASE /\ journal.phase # 7 /\ gone /\ Here
             /\ journal' = [journal EXCEPT !.abandoned = TRUE]
    <2>1. journal.pending = {} /\ model = {}
      BY <1>4, EmptyDocument
    <2>2. /\ journal' \in Journal /\ journal'.phase = journal.phase
          /\ journal'.pending = journal.pending /\ journal'.receipts = journal.receipts
          /\ journal'.preview = journal.preview
      BY <1>4 DEF IInv, Types, Journal
    <2>3. /\ model' = model /\ edits' = edits /\ keep' = keep /\ requests' = requests
          /\ torn' = torn
      BY <1>4 DEF Here
    <2>4. Decided' = Decided /\ Witnessed' = Witnessed
      BY <2>2 DEF Decided, Witnessed, Committed
    <2>5. run' \in Run /\ run'.pc = "idle"
      BY <1>1, StopRun
    <2>6. Types'
      BY <2>2, <2>3, <2>5 DEF IInv, Types
    <2>7. FileInv'
      BY <1>1, <2>1, <2>2, <2>3, <2>4 DEF IInv, FileInv
    <2>8. DocumentInv'
      BY <2>2, <2>3, <2>4 DEF IInv, DocumentInv
    <2> QED BY <2>5, <2>6, <2>7, <2>8, IdleStage DEF IInv
  <1> QED BY <1>1, <1>2, <1>3, <1>4 DEF Settle

-----------------------------------------------------------------------------
(* The invariant, and what follows from it *)

LEMMA InitInv ==
    ASSUME Init
    PROVE  IInv
  <1>1. journal \in Journal /\ run \in Run /\ run.pc = "idle"
    BY DEF Init, Empty, Idle, Journal, Run, Snapshot, Revisions, Stages, Returns
  <1>2. /\ journal.phase = 1 /\ journal.pending = {} /\ journal.receipts = {}
        /\ journal.abandoned = FALSE /\ journal = Empty
        /\ model = {} /\ edits = 0 /\ requests = 0
    BY DEF Init, Empty
  <1>3. torn \in BOOLEAN /\ keep \in BOOLEAN
    BY Zenon DEF Init
  <1>4. Types
    BY <1>1, <1>2, <1>3, FS_EmptySet DEF Types
  <1>5. FileInv
    BY <1>2 DEF FileInv
  <1>6. DocumentInv
    BY <1>2 DEF DocumentInv
  <1>7. StageInv
    BY <1>1, <1>2
    DEF StageInv, PhaseInv, Pends, EffectInv, At, Recovering, Building, Sending, Proved, Deleting,
        Sweeping
  <1> QED BY <1>4, <1>5, <1>6, <1>7 DEF IInv

LEMMA StutterInv == ASSUME IInv, UNCHANGED vars PROVE IInv'
  <1>1. UNCHANGED <<journal, torn, keep, model, edits, run, requests>>
    BY DEF vars
  <1>2. Types' /\ FileInv' /\ DocumentInv' /\ Decided' = Decided /\ (Closed' <=> Closed)
    BY <1>1, ModelShrinks DEF IInv, Types
  <1>3. PhaseInv'
    BY <1>1, <1>2 DEF IInv, StageInv, PhaseInv, At
  <1>4. Pends' /\ EffectInv'
    BY <1>1, <1>2 DEF IInv, StageInv, Pends, EffectInv, At
  <1> QED BY <1>2, <1>3, <1>4 DEF IInv, StageInv

LEMMA NextInv == IInv /\ [Next]_vars => IInv'
  <1> SUFFICES ASSUME IInv, [Next]_vars PROVE IInv'
    OBVIOUS
  <1>1. CASE Recovery
    BY <1>1, RecoverInv, CloseInv, ResumeInv, ConcludeInv, ResetInv, RenewInv, CheckInv
    DEF Recovery
  <1>2. CASE Rebuild
    BY <1>2, StartRebuildInv, RunRebuildInv, FinishRebuildInv, EndBuildInv DEF Rebuild
  <1>3. CASE Cleanup
    BY <1>3, StartCleanupInv, RunCleanupInv, FinishDeleteInv, FinishSweepInv, SettleInv
    DEF Cleanup
  <1> QED
    BY <1>1, <1>2, <1>3, RequestInv, CreateInv, VerifyInv, ProvingInv, DieInv, UserEditsInv,
       StutterInv
    DEF Next

LEMMA InvariantHolds == Spec => []IInv
  BY InitInv, NextInv, PTL DEF Spec

\* Whatever the run left in the document is named by its file, through every lost answer
\* and every restart (a5_live.py 810-894, serving.py 10336-10481).
THEOREM ElementsAccounted == Spec => []EveryElementAccounted
  <1>1. IInv => EveryElementAccounted
    <2> SUFFICES ASSUME IInv PROVE EveryElementAccounted
      OBVIOUS
    <2>1. TypeOK
      BY FieldTypes DEF IInv, Types, FileInv, TypeOK, Receipts, Phases
    <2> QED BY <2>1 DEF EveryElementAccounted, IInv, DocumentInv
  <1> QED BY InvariantHolds, <1>1, PTL

\* No program of the plan is in the document twice (a5_live.py 711-895).
THEOREM BuiltOnce == Spec => []NothingBuiltTwice
  <1>1. IInv => NothingBuiltTwice
    BY DEF IInv, DocumentInv, NothingBuiltTwice
  <1> QED BY InvariantHolds, <1>1, PTL

\* A run that is over settled everything (a5_recovery.py 597-700, a5_live.py 995-1041).
THEOREM ClosedSettled == Spec => []ClosedIsSettled
  <1>1. IInv => ClosedIsSettled
    <2> SUFFICES ASSUME IInv, Closed
                 PROVE  /\ journal.pending = {}
                        /\ journal.abandoned \/ ~keep => model = {}
                        /\ ~journal.abandoned => Decided = Plan /\ model \subseteq journal.preview
      BY DEF ClosedIsSettled
    <2>1. journal.abandoned \/ journal.phase = 8
      BY PhaseNames, FieldTypes DEF IInv
    <2> QED BY <2>1 DEF IInv, FileInv
  <1> QED BY InvariantHolds, <1>1, PTL
=============================================================================
