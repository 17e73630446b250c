---------------------------- MODULE StoreProofs ----------------------------
(***************************************************************************)
(* Theorems about the three places a client keeps its work: OperationStore,  *)
(* for every set of operations, bodies, workers, receipts and outcomes,       *)
(* ExecutionArchive, for every set of publishers and inputs, and LiveJournal, *)
(* for every set of sessions and turns and every limit.                       *)
(*                                                                          *)
(* That one worker at most sends an operation rests on the transition table: *)
(* no phase leads back to the two that can be claimed, so the first claim     *)
(* stays the only one whatever is reported after it.  That a past tells one   *)
(* story rests on PHASE_RANK: every change of phase goes up.                  *)
(*                                                                          *)
(* Neither property of the archive is inductive.  What is missing is that the *)
(* creation of the file is a race one publisher wins for good: whoever is past *)
(* it is alone, and the file holds at each stage exactly what that stage put  *)
(* there.                                                                    *)
(*                                                                          *)
(* What holds of any live journal, whatever is lost and pushed out, comes last: *)
(* what a record in memory and a line of the store may say of a program, and   *)
(* that a stage never moves but forward.  LiveJournalProofs goes on from there. *)
(***************************************************************************)
EXTENDS OperationStore, ExecutionArchive, LiveJournal,
        FiniteSetTheorems, SequenceTheorems, WellFoundedInduction, TLAPS

-----------------------------------------------------------------------------
(* The operation store *)

Claimable == {"CREATED", "PERSISTED_SERVER"}

OneClaim ==
    \A o \in Ops :
        /\ \A w \in Workers : attempt[w][o] # "idle" =>
              Known(o) /\ records[o].phase \notin Claimable
        /\ \A v, w \in Workers : attempt[v][o] # "idle" /\ attempt[w][o] # "idle" => v = w
        /\ \A w \in sent[o] : attempt[w][o] = "gone"

IInv == TypeOK /\ OneClaim

\* Phases reached by being dispatched; a record in one of them was claimed.
Dispatched == {"DISPATCH_CLAIMED", "SENT", "ACCEPTED_CLIENT", "QUEUED_REVIT", "STARTED",
               "RUNNING_UNKNOWN"} \union Ended \union Verdicts

Endings == Ended \union {"CANCELLED_BEFORE_START"}

Alike(S) == \A a, b \in S : a = b

\* OneStory of one operation's past.
Story(S) ==
    /\ Alike(S \intersect Endings)
    /\ Alike(S \intersect Verdicts)
    /\ "STARTED" \in S => "CANCELLED_BEFORE_START" \notin S
    /\ S \intersect (Ended \union Verdicts) # {} => "DISPATCH_CLAIMED" \in S

\* The phases of a record were met in the order of their ranks.
Ranked(S, phase) ==
    /\ phase \in S
    /\ phase \in Dispatched => "DISPATCH_CLAIMED" \in S
    /\ \A p \in S : PhaseRank[p] <= PhaseRank[phase]
    /\ Story(S)

OneOrder ==
    \A o \in Ops : IF Known(o) THEN Ranked(past[o], records[o].phase) ELSE past[o] = {}

-----------------------------------------------------------------------------
(* The transition table *)

\* A phase that cannot be claimed stays so.
LEMMA NeverClaimableAgain ==
    ASSUME NEW old \in Phases \ Claimable, NEW new \in Phases, TransitionAllowed(old, new)
    PROVE  new \notin Claimable
  BY DEF TransitionAllowed, AllowedTransitions, Phases, Claimable, ReceiptPhases, Ended,
         Verdicts

\* The table never leads to a lower or an equal rank, to a dispatched phase but by
\* the claim, or to a cancellation once the operation may have started.
LEMMA TableRises ==
    ASSUME NEW old \in Phases, NEW new \in AllowedTransitions[old]
    PROVE  /\ new \in Phases
           /\ PhaseRank[old] < PhaseRank[new]
           /\ new \in Dispatched => old \in Dispatched \/ new = "DISPATCH_CLAIMED"
           /\ new = "CANCELLED_BEFORE_START" => PhaseRank[old] < PhaseRank["STARTED"]
  <1> USE DEF AllowedTransitions, PhaseRank, Phases, Dispatched, ReceiptPhases, Ended, Verdicts
  <1>1. CASE old \in {"CREATED", "PERSISTED_SERVER", "DISPATCH_CLAIMED"}
    BY <1>1
  <1>2. CASE old \in {"SENT", "ACCEPTED_CLIENT", "QUEUED_REVIT"}
    BY <1>2
  <1>3. CASE old \in {"STARTED", "RUNNING_UNKNOWN"}
    BY <1>3
  <1>4. CASE old \in {"COMMITTED", "COMMITTED_PARTIAL", "ROLLED_BACK", "FAILED_BEFORE_COMMIT"}
    BY <1>4
  <1>5. CASE old \in {"VERIFIED", "UNVERIFIED", "CANCELLED_BEFORE_START"}
    BY <1>5
  <1>6. CASE old \in {"RECEIPT_PERSISTED_CLIENT", "RECEIPT_DELIVERED_SERVER", "ACKNOWLEDGED"}
    BY <1>6
  <1> QED BY <1>1, <1>2, <1>3, <1>4, <1>5, <1>6

LEMMA RankValues ==
    /\ PhaseRank \in [Phases -> Nat]
    /\ \A p \in Endings : p \in Phases /\ PhaseRank[p] = 70
    /\ \A p \in Verdicts : p \in Phases /\ PhaseRank[p] = 80
    /\ PhaseRank["STARTED"] = 60
  BY DEF PhaseRank, Phases, Endings, Ended, Verdicts, ReceiptPhases

LEMMA ClaimIsAllowed == \A p \in Claimable : "DISPATCH_CLAIMED" \in AllowedTransitions[p]
  <1> USE DEF AllowedTransitions, Claimable, Phases, ReceiptPhases, Ended, Verdicts
  <1>1. "DISPATCH_CLAIMED" \in AllowedTransitions["CREATED"]
    OBVIOUS
  <1>2. "DISPATCH_CLAIMED" \in AllowedTransitions["PERSISTED_SERVER"]
    OBVIOUS
  <1> QED BY <1>1, <1>2

\* A step of the table adds a phase that outranks the whole past.
LEMMA RankedStep ==
    ASSUME NEW S \in SUBSET Phases, NEW old \in Phases, Ranked(S, old),
           NEW new \in AllowedTransitions[old]
    PROVE  Ranked(S \union {new}, new)
  <1>1. /\ new \in Phases
        /\ PhaseRank[old] < PhaseRank[new]
        /\ new \in Dispatched => old \in Dispatched \/ new = "DISPATCH_CLAIMED"
        /\ new = "CANCELLED_BEFORE_START" => PhaseRank[old] < 60
    BY TableRises, RankValues
  <1>2. \A p \in S : PhaseRank[p] \in Nat /\ PhaseRank[p] <= PhaseRank[old]
    BY RankValues DEF Ranked
  <1>3. PhaseRank[old] \in Nat /\ PhaseRank[new] \in Nat
    BY <1>1, RankValues
  <1>4. \A p \in S : PhaseRank[p] < PhaseRank[new]
    BY <1>1, <1>2, <1>3
  <1>5. new \in Dispatched => "DISPATCH_CLAIMED" \in S \union {new}
    BY <1>1 DEF Ranked
  <1>6. \A p \in S \union {new} : PhaseRank[p] <= PhaseRank[new]
    BY <1>3, <1>4, <1>2
  <1>7. Alike((S \union {new}) \intersect Endings)
    <2>1. CASE new \in Endings
      <3>1. \A p \in S : p \notin Endings
        BY <1>4, <2>1, RankValues
      <3> QED BY <3>1 DEF Alike
    <2>2. CASE new \notin Endings
      BY <2>2 DEF Alike, Ranked, Story
    <2> QED BY <2>1, <2>2
  <1>8. Alike((S \union {new}) \intersect Verdicts)
    <2>1. CASE new \in Verdicts
      <3>1. \A p \in S : p \notin Verdicts
        BY <1>4, <2>1, RankValues
      <3> QED BY <3>1 DEF Alike
    <2>2. CASE new \notin Verdicts
      BY <2>2 DEF Alike, Ranked, Story
    <2> QED BY <2>1, <2>2
  <1>9. "STARTED" \in S \union {new} => "CANCELLED_BEFORE_START" \notin S \union {new}
    <2>1. CASE new = "STARTED"
      <3>1. "CANCELLED_BEFORE_START" \notin S
        <4>1. "CANCELLED_BEFORE_START" \in Endings
          BY DEF Endings
        <4> QED BY <1>4, <2>1, <4>1, RankValues
      <3> QED BY <2>1, <3>1
    <2>2. CASE new = "CANCELLED_BEFORE_START"
      <3>1. "STARTED" \notin S
        BY <1>1, <1>2, <1>3, <2>2, RankValues
      <3> QED BY <2>2, <3>1
    <2>3. CASE new \notin {"STARTED", "CANCELLED_BEFORE_START"}
      BY <2>3 DEF Ranked, Story
    <2> QED BY <2>1, <2>2, <2>3
  <1>10. (S \union {new}) \intersect (Ended \union Verdicts) # {}
            => "DISPATCH_CLAIMED" \in S \union {new}
    <2>1. CASE new \in Ended \union Verdicts
      BY <1>5, <2>1 DEF Dispatched
    <2>2. CASE new \notin Ended \union Verdicts
      BY <2>2 DEF Ranked, Story
    <2> QED BY <2>1, <2>2
  <1> QED BY <1>5, <1>6, <1>7, <1>8, <1>9, <1>10 DEF Ranked, Story

LEMMA AppliedType ==
    ASSUME NEW r \in Record, NEW p \in Phases, NEW out \in Outcomes \union {Blank},
           NEW rcpt \in Receipts \union {Blank}
    PROVE  /\ Applied(r, p, out, rcpt) \in Record
           /\ Applied(r, p, out, rcpt).phase = p
           /\ Applied(r, p, out, rcpt).body = r.body
           /\ r.receipt # Blank => Applied(r, p, out, rcpt).receipt = r.receipt
  BY DEF Applied, Given, Record

LEMMA KnownType == ASSUME TypeOK, NEW o \in Ops, Known(o) PROVE records[o] \in Record
  BY DEF TypeOK, Known

\* What storing a record changes.
LEMMA StoreType ==
    ASSUME TypeOK, NEW o \in Ops, NEW r \in Record, Store(o, r)
    PROVE  /\ records' \in [Ops -> Record \union {NoRecord}]
           /\ past' \in [Ops -> SUBSET Phases]
           /\ records'[o] = r
           /\ r # NoRecord
           /\ \A x \in Ops \ {o} : records'[x] = records[x]
  <1>1. r # NoRecord
    BY RecordAssumption
  <1>2. r.phase \in Phases
    BY DEF Record
  <1>3. past' \in [Ops -> SUBSET Phases]
    BY <1>2 DEF Store, TypeOK
  <1> QED BY <1>1, <1>3 DEF Store, TypeOK

\* One operation's record moves as the table says; nothing else moves.
LEMMA OrderStep ==
    ASSUME TypeOK, OneOrder, NEW o \in Ops, NEW r \in Record, Store(o, r),
           IF Known(o) THEN TransitionAllowed(records[o].phase, r.phase)
                       ELSE r.phase = "CREATED"
    PROVE  OneOrder'
  <1>1. /\ past' = [past EXCEPT ![o] = @ \union {r.phase}]
        /\ past'[o] = past[o] \union {r.phase}
        /\ Known(o)'
        /\ records'[o] = r
    BY StoreType DEF Store, TypeOK, Known
  <1>2. Ranked(past'[o], r.phase)
    <2>1. CASE ~Known(o)
      <3>1. past'[o] = {"CREATED"} /\ r.phase = "CREATED"
        BY <1>1, <2>1 DEF OneOrder
      <3>2. Ranked({"CREATED"}, "CREATED")
        BY RankValues
        DEF Ranked, Story, Alike, Endings, Ended, Verdicts, Dispatched, Phases
      <3> QED BY <3>1, <3>2
    <2>2. CASE Known(o) /\ r.phase = records[o].phase
      <3>1. Ranked(past[o], records[o].phase)
        BY <2>2 DEF OneOrder
      <3>2. past[o] \union {r.phase} = past[o]
        BY <2>2, <3>1 DEF Ranked
      <3> QED BY <1>1, <2>2, <3>1, <3>2
    <2>3. CASE Known(o) /\ r.phase # records[o].phase
      <3>1. Ranked(past[o], records[o].phase) /\ past[o] \in SUBSET Phases
        BY <2>3 DEF OneOrder, TypeOK
      <3>2. records[o].phase \in Phases /\ r.phase \in AllowedTransitions[records[o].phase]
        BY <2>3, KnownType DEF Record, TransitionAllowed
      <3> QED BY <1>1, <3>1, <3>2, RankedStep
    <2> QED BY <2>1, <2>2, <2>3
  <1>3. \A x \in Ops \ {o} : /\ past'[x] = past[x] /\ records'[x] = records[x]
                             /\ Known(x)' <=> Known(x)
    BY <1>1, StoreType DEF TypeOK, Known
  <1> QED BY <1>1, <1>2, <1>3 DEF OneOrder

\* A step of the store that touches no attempt: what is unclaimable stays so.
LEMMA StoreKeepsClaims ==
    ASSUME IInv, NEW o \in Ops, NEW r \in Record, Store(o, r),
           Known(o) /\ records[o].phase \notin Claimable => r.phase \notin Claimable,
           UNCHANGED <<attempt, sent>>
    PROVE  IInv'
  <1>1. TypeOK'
    BY StoreType DEF IInv, TypeOK
  <1>2. OneClaim'
    BY StoreType DEF IInv, OneClaim, Known
  <1> QED BY <1>1, <1>2 DEF IInv

-----------------------------------------------------------------------------
(* Every step *)

\* A transition stores a record of the same body that keeps its receipt.
LEMMA TransitionStores ==
    ASSUME IInv, NEW o \in Ops, NEW p \in Phases, NEW out \in Outcomes \union {Blank},
           NEW rcpt \in Receipts \union {Blank}, Transition(o, p, out, rcpt)
    PROVE  \E r \in Record :
              /\ Store(o, r)
              /\ r.body = records[o].body
              /\ records[o].receipt # Blank => r.receipt = records[o].receipt
              /\ records[o].phase \notin Claimable => r.phase \notin Claimable
  <1>1. Known(o) /\ records[o] \in Record /\ records[o].phase \in Phases
    BY KnownType DEF IInv, Transition, Record
  <1>2. Applied(records[o], p, out, rcpt) \in Record
    BY <1>1, AppliedType
  <1>3. records[o].phase \notin Claimable => p \notin Claimable
    BY <1>1, NeverClaimableAgain DEF Transition
  <1> QED BY <1>1, <1>2, <1>3, AppliedType DEF Transition

LEMMA CreateInv ==
    ASSUME IInv, NEW o \in Ops, NEW b \in Bodies, Create(o, b)
    PROVE  IInv'
  <1>1. New(b) \in Record
    BY DEF New, Record, Phases
  <1> QED BY <1>1, StoreKeepsClaims DEF Create

LEMMA ReportInv ==
    ASSUME IInv, NEW o \in Ops, NEW p \in Phases, NEW out \in Outcomes \union {Blank},
           NEW rcpt \in Receipts \union {Blank}, Report(o, p, out, rcpt)
    PROVE  IInv'
  BY TransitionStores, StoreKeepsClaims DEF Report

\* Nobody had claimed a claimable operation.
LEMMA ClaimInv ==
    ASSUME IInv, NEW w \in Workers, NEW o \in Ops, ClaimDispatch(w, o)
    PROVE  IInv'
  <1> DEFINE r == [records[o] EXCEPT !.phase = "DISPATCH_CLAIMED"]
  <1>1. records[o] \in Record /\ records[o].phase \in Claimable
    BY KnownType DEF IInv, ClaimDispatch, Claimable
  <1>2. r \in Record /\ r.phase \notin Claimable
    BY <1>1 DEF Record, Phases, Claimable
  <1>3. Store(o, r)
    BY DEF ClaimDispatch
  <1> HIDE DEF r
  <1>4. /\ attempt' \in [Workers -> [Ops -> {"idle", "claimed", "gone"}]]
        /\ attempt'[w][o] = "claimed"
        /\ \A v \in Workers, x \in Ops : v # w \/ x # o => attempt'[v][x] = attempt[v][x]
        /\ sent' = sent
    BY DEF ClaimDispatch, IInv, TypeOK
  <1>5. /\ \A v \in Workers : attempt[v][o] = "idle"
        /\ \A v \in sent[o] : FALSE
    BY <1>1 DEF IInv, OneClaim, TypeOK
  <1>6. TypeOK'
    BY <1>2, <1>3, <1>4, StoreType DEF IInv, TypeOK
  <1>7. OneClaim'
    <2> SUFFICES ASSUME NEW x \in Ops
                 PROVE  /\ \A v \in Workers : attempt'[v][x] # "idle" =>
                              Known(x)' /\ records'[x].phase \notin Claimable
                        /\ \A u, v \in Workers :
                              attempt'[u][x] # "idle" /\ attempt'[v][x] # "idle" => u = v
                        /\ \A v \in sent'[x] : attempt'[v][x] = "gone"
      BY DEF OneClaim
    <2>1. CASE x = o
      BY <1>2, <1>3, <1>4, <1>5, <2>1, StoreType DEF IInv, Known
    <2>2. CASE x # o
      BY <1>2, <1>3, <1>4, <2>2, StoreType DEF IInv, OneClaim, Known, TypeOK
    <2> QED BY <2>1, <2>2
  <1> QED BY <1>6, <1>7 DEF IInv

\* The claimant sends or dies; only it is marked gone, and only it may be added.
LEMMA GoneInv ==
    ASSUME IInv, NEW w \in Workers, NEW o \in Ops, Send(w, o) \/ WorkerDies(w, o)
    PROVE  IInv'
  <1>1. /\ attempt' \in [Workers -> [Ops -> {"idle", "claimed", "gone"}]]
        /\ attempt[w][o] # "idle" /\ attempt'[w][o] = "gone"
        /\ \A v \in Workers, x \in Ops : v # w \/ x # o => attempt'[v][x] = attempt[v][x]
    BY DEF Send, WorkerDies, IInv, TypeOK
  <1>2. /\ sent' \in [Ops -> SUBSET Workers]
        /\ \A x \in Ops : sent'[x] \subseteq IF x = o THEN sent[x] \union {w} ELSE sent[x]
    BY DEF Send, WorkerDies, IInv, TypeOK
  <1>3. /\ records' \in [Ops -> Record \union {NoRecord}]
        /\ past' \in [Ops -> SUBSET Phases]
        /\ \A x \in Ops : Known(x) /\ records[x].phase \notin Claimable =>
              Known(x)' /\ records'[x].phase \notin Claimable
    <2>1. CASE UNCHANGED <<records, past>>
      BY <2>1 DEF IInv, TypeOK, Known
    <2>2. CASE Transition(o, "SENT", Blank, Blank)
      <3>1. PICK r \in Record :
                /\ Store(o, r)
                /\ records[o].phase \notin Claimable => r.phase \notin Claimable
        BY <2>2, TransitionStores DEF Phases
      <3> QED BY <3>1, StoreType DEF IInv, Known
    <2> QED BY <2>1, <2>2 DEF Send, WorkerDies
  <1>4. TypeOK'
    BY <1>1, <1>2, <1>3 DEF TypeOK
  <1>5. OneClaim'
    <2> SUFFICES ASSUME NEW x \in Ops
                 PROVE  /\ \A v \in Workers : attempt'[v][x] # "idle" =>
                              Known(x)' /\ records'[x].phase \notin Claimable
                        /\ \A u, v \in Workers :
                              attempt'[u][x] # "idle" /\ attempt'[v][x] # "idle" => u = v
                        /\ \A v \in sent'[x] : attempt'[v][x] = "gone"
      BY DEF OneClaim
    <2>1. \A v \in Workers : attempt'[v][x] # "idle" => attempt[v][x] # "idle"
      BY <1>1
    <2>2. \A v \in sent'[x] : attempt'[v][x] = "gone"
      BY <1>1, <1>2 DEF IInv, OneClaim, TypeOK
    <2> QED BY <1>3, <2>1, <2>2 DEF IInv, OneClaim
  <1> QED BY <1>4, <1>5 DEF IInv

LEMMA InitInv == Init => IInv
  BY DEF Init, IInv, TypeOK, OneClaim

LEMMA StutterInv == ASSUME IInv, UNCHANGED vars PROVE IInv'
  BY DEF vars, IInv, TypeOK, OneClaim, Known

LEMMA NextInv == IInv /\ [Next]_vars => IInv'
  BY CreateInv, ReportInv, ClaimInv, GoneInv, StutterInv DEF Next

LEMMA OrderNext == TypeOK /\ OneOrder /\ [Next]_vars => OneOrder'
  <1> SUFFICES ASSUME TypeOK, OneOrder, [Next]_vars PROVE OneOrder'
    OBVIOUS
  <1>1. ASSUME NEW o \in Ops, NEW p \in Phases, NEW out \in Outcomes \union {Blank},
               NEW rcpt \in Receipts \union {Blank}, Transition(o, p, out, rcpt)
        PROVE  OneOrder'
    <2> DEFINE r == Applied(records[o], p, out, rcpt)
    <2>1. r \in Record /\ r.phase = p
      BY <1>1, KnownType, AppliedType DEF Transition
    <2>2. Known(o) /\ Store(o, r) /\ TransitionAllowed(records[o].phase, p)
      BY <1>1 DEF Transition
    <2> HIDE DEF r
    <2> QED BY <2>1, <2>2, OrderStep
  <1>2. ASSUME NEW o \in Ops, NEW b \in Bodies, Create(o, b) PROVE OneOrder'
    <2>1. New(b) \in Record /\ New(b).phase = "CREATED" /\ ~Known(o) /\ Store(o, New(b))
      BY <1>2 DEF Create, New, Record, Phases
    <2> QED BY <2>1, OrderStep
  <1>3. ASSUME NEW w \in Workers, NEW o \in Ops, ClaimDispatch(w, o) PROVE OneOrder'
    <2> DEFINE r == [records[o] EXCEPT !.phase = "DISPATCH_CLAIMED"]
    <2>1. Known(o) /\ records[o] \in Record /\ records[o].phase \in Claimable
      BY <1>3, KnownType DEF ClaimDispatch, Claimable
    <2>2. r \in Record /\ r.phase = "DISPATCH_CLAIMED" /\ Store(o, r)
      BY <1>3, <2>1 DEF ClaimDispatch, Record, Phases
    <2>3. TransitionAllowed(records[o].phase, "DISPATCH_CLAIMED")
      BY <2>1, ClaimIsAllowed DEF TransitionAllowed
    <2> HIDE DEF r
    <2> QED BY <2>1, <2>2, <2>3, OrderStep
  <1>4. CASE UNCHANGED <<records, past>>
    BY <1>4 DEF OneOrder, Known
  <1>5. "SENT" \in Phases
    BY DEF Phases
  <1> QED BY <1>1, <1>2, <1>3, <1>4, <1>5 DEF Next, Report, Send, WorkerDies, vars

LEMMA AlikeIsOne ==
    ASSUME NEW S, Alike(S)
    PROVE  Cardinality(S) <= 1
  <1>1. CASE S = {}
    BY <1>1, FS_EmptySet
  <1>2. CASE S # {}
    <2>1. PICK x : S = {x}
      BY <1>2 DEF Alike
    <2>2. Cardinality({x}) = 1
      BY FS_Singleton
    <2> QED BY <2>1, <2>2
  <1> QED BY <1>1, <1>2

-----------------------------------------------------------------------------
LEMMA InvariantHolds == Spec => []IInv
  BY InitInv, NextInv, PTL DEF Spec

\* Records, attempts and histories have their types in every reachable state
\* (store.py 41-63).
THEOREM TypeCorrect == Spec => []TypeOK
  BY InvariantHolds, PTL DEF IInv

\* Two workers never send one operation (store.py 137-158).
THEOREM OneWorkerSends == Spec => []SentByOneWorker
  <1>1. IInv => SentByOneWorker
    <2> SUFFICES ASSUME IInv, NEW o \in Ops PROVE Cardinality(sent[o]) <= 1
      BY DEF SentByOneWorker
    <2>1. Alike(sent[o])
      BY DEF IInv, OneClaim, TypeOK, Alike
    <2> QED BY <2>1, AlikeIsOne
  <1> QED BY InvariantHolds, <1>1, PTL

\* Reports in any order tell one story of an operation (protocol.py 118-130, 213-240).
THEOREM PastTellsOneStory == Spec => []OneStory
  <1>1. Init => OneOrder
    BY DEF Init, OneOrder, Known
  <1>2. TypeOK /\ OneOrder => OneStory
    <2> SUFFICES ASSUME TypeOK, OneOrder, NEW o \in Ops PROVE Story(past[o])
      BY AlikeIsOne DEF OneStory, Story, Endings
    <2>1. Story({})
      BY DEF Story, Alike
    <2> QED BY <2>1 DEF OneOrder, Ranked
  <1> QED BY InvariantHolds, <1>1, <1>2, OrderNext, PTL DEF Spec, IInv

\* A stored receipt and the body behind an id are never replaced
\* (store.py 92-103, 128-131).
THEOREM ReceiptsStand == Spec => ReceiptStands
  <1> DEFINE Stands == \A o \in Ops : Known(o) =>
                 /\ records'[o].body = records[o].body
                 /\ records[o].receipt # Blank => records'[o].receipt = records[o].receipt
  <1>1. ASSUME IInv, NEW x \in Ops, NEW r \in Record, Store(x, r),
               Known(x) => /\ r.body = records[x].body
                           /\ records[x].receipt # Blank => r.receipt = records[x].receipt
        PROVE  Stands
    BY <1>1, StoreType DEF IInv
  <1>2. IInv /\ [Next]_vars => [Stands]_vars
    <2> SUFFICES ASSUME IInv, Next PROVE Stands
      OBVIOUS
    <2>1. CASE \E o \in Ops, b \in Bodies : Create(o, b)
      <3> PICK o \in Ops, b \in Bodies : Create(o, b)
        BY <2>1
      <3>1. New(b) \in Record /\ ~Known(o) /\ Store(o, New(b))
        BY DEF Create, New, Record, Phases
      <3> QED BY <1>1, <3>1
    <2>2. CASE \E o \in Ops, p \in Phases, out \in Outcomes \union {Blank},
                   rcpt \in Receipts \union {Blank} : Transition(o, p, out, rcpt)
      BY <1>1, <2>2, TransitionStores
    <2>3. CASE \E w \in Workers, o \in Ops : ClaimDispatch(w, o)
      <3> PICK w \in Workers, o \in Ops : ClaimDispatch(w, o)
        BY <2>3
      <3> DEFINE r == [records[o] EXCEPT !.phase = "DISPATCH_CLAIMED"]
      <3>1. records[o] \in Record
        BY KnownType DEF ClaimDispatch, IInv
      <3>2. /\ r \in Record /\ Store(o, r)
            /\ r.body = records[o].body /\ r.receipt = records[o].receipt
        BY <3>1 DEF ClaimDispatch, Record, Phases
      <3> HIDE DEF r
      <3> QED BY <1>1, <3>2
    <2>4. CASE UNCHANGED records
      BY <2>4
    <2>5. "SENT" \in Phases
      BY DEF Phases
    <2> QED BY <2>1, <2>2, <2>3, <2>4, <2>5 DEF Next, Report, Send, WorkerDies
  <1> QED BY InvariantHolds, <1>2, PTL DEF Spec, ReceiptStands

-----------------------------------------------------------------------------
(* The archive of one execution *)

\* Past the creation of the file.
Active(p) == pubs[p].step \in Steps \ {"checked"}
Written(p) == pubs[p].step \in {"committed", "synced", "flushed", "archived"}

OneCreator ==
    /\ \A p \in Publishers : Active(p) => file # Missing
    /\ \A p, q \in Publishers : Active(p) /\ Active(q) => p = q

StageHolds ==
    \A p \in Publishers :
        /\ Written(p) => file.record = pubs[p].input
        /\ posix /\ (At(p, "flushed") \/ At(p, "archived")) => file.entered
        /\ At(p, "archived") => journal # "beside"

SentInv ==
    Promised => \A input \in Inputs : sends[input] > 0 =>
        /\ sends[input] = 1
        /\ Loadable(input) /\ (posix => file.entered)
        /\ \A p \in Publishers : ~Active(p)

PathInv == PathTypeOK /\ OneCreator /\ StageHolds /\ SentInv

-----------------------------------------------------------------------------
\* What PathTypeOK says of one publisher and of the file.
LEMMA PublisherType ==
    ASSUME PathTypeOK, NEW p \in Publishers
    PROVE  /\ pubs[p] = Idle \/ pubs[p] \in [step : Steps, input : Inputs]
           /\ ~At(p, "idle") => pubs[p] \in [step : Steps, input : Inputs]
           /\ ~At(p, "idle") <=> pubs[p].step \in Steps
           /\ file # Missing => file \in File
  BY DEF PathTypeOK, Idle, At, Steps

\* A publisher that takes a step is past creation from then on only if it was.
LEMMA StepType ==
    ASSUME PathTypeOK, NEW p \in Publishers, ~At(p, "idle"), NEW step \in Steps, Step(p, step)
    PROVE  /\ pubs' \in [Publishers -> [step : Steps, input : Inputs] \union {Idle}]
           /\ pubs'[p].step = step /\ pubs'[p].input = pubs[p].input
           /\ \A q \in Publishers \ {p} : pubs'[q] = pubs[q]
  <1>1. pubs[p] \in [step : Steps, input : Inputs]
    BY PublisherType
  <1>2. [pubs[p] EXCEPT !.step = step] \in [step : Steps, input : Inputs]
    BY <1>1
  <1> QED BY <1>1, <1>2 DEF PathTypeOK, Step

LEMMA StopType ==
    ASSUME PathTypeOK, NEW p \in Publishers, Stop(p)
    PROVE  /\ pubs' \in [Publishers -> [step : Steps, input : Inputs] \union {Idle}]
           /\ pubs'[p].step = "idle"
           /\ \A q \in Publishers \ {p} : pubs'[q] = pubs[q]
  BY DEF PathTypeOK, Stop, Idle

LEMMA PathInitInv == PathInit => PathInv
  <1> SUFFICES ASSUME PathInit PROVE PathInv
    OBVIOUS
  <1>5. sends \in [Inputs -> 0 .. 2]
    BY DEF PathInit
  <1>6. pubs \in [Publishers -> [step : Steps, input : Inputs] \union {Idle}]
    BY DEF PathInit
  <1>1. PathTypeOK
    BY <1>5, <1>6 DEF PathInit, PathTypeOK, Journals
  <1>4. SentInv
    BY DEF PathInit, SentInv
  <1>2. \A p \in Publishers : pubs[p].step = "idle"
    BY DEF PathInit, Idle
  <1>3. OneCreator /\ StageHolds
    BY <1>2 DEF OneCreator, StageHolds, Active, Written, At, Steps
  <1> QED BY <1>1, <1>3, <1>4 DEF PathInv

-----------------------------------------------------------------------------
(* The steps of a publisher *)

LEMMA CheckInv ==
    ASSUME PathInv, NEW p \in Publishers, NEW input \in Inputs, CheckSidecars(p, input)
    PROVE  PathInv'
  <1>1. pubs' \in [Publishers -> [step : Steps, input : Inputs] \union {Idle}]
    BY DEF PathInv, PathTypeOK, CheckSidecars, Steps
  <1>2. /\ pubs'[p].step = "checked"
        /\ \A q \in Publishers \ {p} : pubs'[q] = pubs[q]
    BY DEF PathInv, PathTypeOK, CheckSidecars
  <1> QED
    BY <1>1, <1>2 DEF PathInv, PathTypeOK, OneCreator, StageHolds, SentInv, Active, Written, At,
                      CheckSidecars, Loadable, Promised

LEMMA CreateFileInv ==
    ASSUME PathInv, NEW p \in Publishers, CreateFile(p)
    PROVE  PathInv'
  <1> USE DEF PathInv, At
  <1>1. CASE file # Missing
    BY <1>1, StopType DEF CreateFile, PathTypeOK, OneCreator, StageHolds, SentInv, Active, Written,
                          Loadable, Promised, Steps
  <1>2. CASE file = Missing
    <2>1. /\ file' = NewFile /\ Step(p, "created")
          /\ UNCHANGED <<posix, journal, sends, asked, powerLost>>
      BY <1>2 DEF CreateFile
    <2>2. /\ pubs' \in [Publishers -> [step : Steps, input : Inputs] \union {Idle}]
          /\ pubs'[p].step = "created"
          /\ \A q \in Publishers \ {p} : pubs'[q] = pubs[q]
      BY <2>1, StepType DEF CreateFile, Steps
    <2>3. file' \in File
      BY <2>1 DEF File, NewFile
    <2>6. file' # Missing
      BY <2>3, FileAssumption
    <2>4. \A q \in Publishers : ~Active(q)
      BY <1>2 DEF OneCreator
    <2>5. Promised => \A input \in Inputs : ~(sends[input] > 0)
      BY <1>2 DEF SentInv, Loadable
    <2> QED
      BY <2>1, <2>2, <2>3, <2>4, <2>5, <2>6
      DEF PathTypeOK, OneCreator, StageHolds, SentInv, Promised, Active, Written, Steps
  <1> QED BY <1>1, <1>2

\* Begin, Commit, the two flushes and Load: the one active publisher goes on, or stops.
LEMMA ActiveInv ==
    ASSUME PathInv, NEW p \in Publishers,
           Begin(p) \/ Commit(p) \/ FlushFile(p) \/ FlushDirectory(p) \/ Load(p)
    PROVE  PathInv'
  <1> USE DEF PathInv, At
  <1>1. Active(p) /\ file # Missing /\ file \in File
    BY PublisherType DEF Begin, Commit, FlushFile, FlushDirectory, Load, Active, Steps, OneCreator
  <1>2. \A q \in Publishers \ {p} : ~Active(q)
    BY <1>1 DEF OneCreator
  <1>3. Promised => \A input \in Inputs : ~(sends[input] > 0)
    BY <1>1 DEF SentInv
  <1>4. pubs[p] \in [step : Steps, input : Inputs]
    BY <1>1, PublisherType DEF Active, Steps
  <1>5. UNCHANGED <<posix, sends, asked, powerLost>>
    BY DEF Begin, Commit, FlushFile, FlushDirectory, Load
  <1>6. SentInv'
    BY <1>3, <1>5 DEF SentInv, Promised
  <1>7. CASE Begin(p)
    <2>1. /\ pubs' \in [Publishers -> [step : Steps, input : Inputs] \union {Idle}]
          /\ pubs'[p].step = "writing"
          /\ \A q \in Publishers \ {p} : pubs'[q] = pubs[q]
      BY <1>7, StepType DEF Begin, Steps
    <2> QED
      BY <1>1, <1>2, <1>5, <1>6, <1>7, <2>1
      DEF Begin, Journals, PathTypeOK, OneCreator, StageHolds, Active, Written, Steps
  <1>8. CASE Commit(p)
    <2>1. /\ pubs' \in [Publishers -> [step : Steps, input : Inputs] \union {Idle}]
          /\ pubs'[p].step = "committed" /\ pubs'[p].input = pubs[p].input
          /\ \A q \in Publishers \ {p} : pubs'[q] = pubs[q]
      BY <1>8, StepType DEF Commit, Steps
    <2>2. file' \in File /\ file' # Missing /\ file'.record = pubs[p].input
      BY <1>1, <1>4, <1>8, FileAssumption DEF Commit, File
    <2> QED
      BY <1>1, <1>2, <1>5, <1>6, <1>8, <2>1, <2>2
      DEF Commit, Journals, PathTypeOK, OneCreator, StageHolds, Active, Written, Steps
  <1>9. CASE FlushFile(p)
    <2>1. /\ pubs' \in [Publishers -> [step : Steps, input : Inputs] \union {Idle}]
          /\ pubs'[p].step = "synced" /\ pubs'[p].input = pubs[p].input
          /\ \A q \in Publishers \ {p} : pubs'[q] = pubs[q]
      BY <1>9, StepType DEF FlushFile, Steps
    <2>2. file' \in File /\ file' # Missing /\ file'.record = pubs[p].input
      BY <1>1, <1>4, <1>9, FileAssumption DEF FlushFile, File, StageHolds, Written
    <2> QED
      BY <1>1, <1>2, <1>5, <1>6, <1>9, <2>1, <2>2
      DEF FlushFile, PathTypeOK, OneCreator, StageHolds, Active, Written, Steps
  <1>11. CASE FlushDirectory(p)
    <2>1. /\ pubs' \in [Publishers -> [step : Steps, input : Inputs] \union {Idle}]
          /\ pubs'[p].step = "flushed" /\ pubs'[p].input = pubs[p].input
          /\ \A q \in Publishers \ {p} : pubs'[q] = pubs[q]
      BY <1>11, StepType DEF FlushDirectory, Steps
    <2>2. /\ file' \in File /\ file' # Missing /\ file'.record = pubs[p].input
          /\ posix => file'.entered
      <3>1. file.record = pubs[p].input
        BY <1>11 DEF FlushDirectory, StageHolds, Written
      <3>2. CASE posix
        <4>1. file' = [file EXCEPT !.entered = TRUE]
          BY <1>11, <3>2 DEF FlushDirectory
        <4> QED BY <1>1, <3>1, <4>1, FileAssumption DEF File
      <3>3. CASE ~posix
        <4>1. file' = file
          BY <1>11, <3>3 DEF FlushDirectory
        <4> QED BY <1>1, <3>1, <3>3, <4>1
      <3> QED BY <3>2, <3>3
    <2>3. journal' \in Journals
      BY <1>11 DEF FlushDirectory, PathTypeOK, Journals
    <2> QED
      BY <1>1, <1>2, <1>5, <1>6, <2>1, <2>2, <2>3
      DEF PathTypeOK, OneCreator, StageHolds, Active, Written, Steps
  <1>10. CASE Load(p)
    <2>1. CASE Loadable(pubs[p].input)
      <3>1. /\ pubs' \in [Publishers -> [step : Steps, input : Inputs] \union {Idle}]
            /\ pubs'[p].step = "archived" /\ pubs'[p].input = pubs[p].input
            /\ \A q \in Publishers \ {p} : pubs'[q] = pubs[q]
        BY <1>10, <2>1, StepType DEF Load, Steps
      <3> QED
        BY <1>1, <1>2, <1>5, <1>6, <1>10, <2>1, <3>1
        DEF Load, Loadable, PathTypeOK, OneCreator, StageHolds, Active, Written, Steps
    <2>2. CASE ~Loadable(pubs[p].input)
      BY <1>1, <1>2, <1>5, <1>6, <1>10, <2>2, StopType
      DEF Load, PathTypeOK, OneCreator, StageHolds, Active, Written, Steps
    <2> QED BY <2>1, <2>2
  <1> QED BY <1>7, <1>8, <1>9, <1>10, <1>11

\* Before a send nothing was sent; after it nobody is past creation.
LEMMA SendArchivedInv ==
    ASSUME PathInv, NEW p \in Publishers, SendArchived(p)
    PROVE  PathInv'
  <1> USE DEF PathInv, At
  <1>1. /\ Active(p) /\ file # Missing /\ journal # "beside" /\ (posix => file.entered)
        /\ file.record = pubs[p].input
    BY DEF SendArchived, Active, Steps, OneCreator, StageHolds, Written
  <1>2. pubs[p].input \in Inputs
    BY <1>1, PublisherType DEF Active, Steps
  <1>3. Promised => \A input \in Inputs : sends[input] = 0
    BY <1>1 DEF SentInv, PathTypeOK
  <1>4. /\ sends' \in [Inputs -> 0 .. 2]
        /\ Promised => \A input \in Inputs : sends'[input] = IF input = pubs[p].input THEN 1 ELSE 0
    BY <1>2, <1>3 DEF SendArchived, PathTypeOK
  <1>5. /\ pubs' \in [Publishers -> [step : Steps, input : Inputs] \union {Idle}]
        /\ \A q \in Publishers : ~Active(q)'
    BY <1>1, StopType DEF SendArchived, OneCreator, Active, Steps
  <1>6. UNCHANGED <<posix, file, journal, asked, powerLost>>
    BY DEF SendArchived
  <1> QED
    BY <1>1, <1>4, <1>5, <1>6
    DEF Loadable, Promised, PathTypeOK, OneCreator, StageHolds, SentInv, Active, Written, Steps

-----------------------------------------------------------------------------
(* Faults and recovery *)

LEMMA FailInv ==
    ASSUME PathInv, NEW p \in Publishers, Fail(p)
    PROVE  PathInv'
  <1> USE DEF PathInv, At
  <1>1. /\ pubs' \in [Publishers -> [step : Steps, input : Inputs] \union {Idle}]
        /\ pubs'[p].step = "idle"
        /\ \A q \in Publishers \ {p} : pubs'[q] = pubs[q]
    BY StopType DEF Fail
  <1>2. CASE ~At(p, "writing")
    BY <1>1, <1>2 DEF Fail, Loadable, Promised, PathTypeOK, OneCreator, StageHolds, SentInv, Active,
                      Written, Steps
  <1>3. CASE At(p, "writing")
    <2>1. Active(p) /\ file # Missing /\ file \in File
      BY <1>3, PublisherType DEF Active, Steps, OneCreator
    <2>2. \A q \in Publishers : ~Active(q)'
      BY <1>1, <2>1 DEF OneCreator, Active, Steps
    <2>3. Promised => \A input \in Inputs : ~(sends[input] > 0)
      BY <2>1 DEF SentInv
    <2>4. pubs[p] \in [step : Steps, input : Inputs]
      BY <1>3, PublisherType
    <2>5. file' \in {file, [file EXCEPT !.record = pubs[p].input]} /\ journal' \in Journals
      BY <1>3 DEF Fail, PathTypeOK, Journals
    <2>6. file' \in File
      BY <2>1, <2>4, <2>5 DEF File
    <2>7. file' # Missing
      BY <2>6, FileAssumption
    <2>8. UNCHANGED <<posix, sends, asked, powerLost>>
      BY DEF Fail
    <2> QED
      BY <1>1, <2>2, <2>3, <2>5, <2>6, <2>7, <2>8
      DEF Promised, PathTypeOK, OneCreator, StageHolds, SentInv, Active, Written, Steps
  <1> QED BY <1>2, <1>3

LEMMA PowerLossInv ==
    ASSUME PathInv, PowerLoss
    PROVE  PathInv'
  <1> USE DEF PathInv, At
  <1>1. /\ pubs' \in [Publishers -> [step : Steps, input : Inputs] \union {Idle}]
        /\ \A p \in Publishers : pubs'[p].step = "idle"
    BY DEF PowerLoss, Idle
  <1>2. powerLost' = TRUE /\ UNCHANGED <<posix, sends, asked>>
    BY DEF PowerLoss
  <1>3. \/ UNCHANGED <<file, journal>>
        \/ file # Missing /\ ~file.entered /\ file' \in Surviving \union {Missing} /\ journal' \in Journals
    BY DEF PowerLoss, Journals
  <1>4. file # Missing => Surviving \subseteq File
    <2>1. file # Missing => file.record \in Inputs \union {Missing}
      BY DEF PathTypeOK, File
    <2> QED BY <2>1 DEF Surviving, File
  <1>5. file' \in File \union {Missing} /\ journal' \in Journals
    BY <1>3, <1>4 DEF PathTypeOK
  <1>6. SentInv'
    \* Elsewhere than on posix nothing is promised any more.
    <2>1. ~posix => ~Promised'
      BY <1>2 DEF Promised
    <2>2. posix /\ (\E input \in Inputs : sends[input] > 0) => UNCHANGED <<file, journal>>
      BY <1>3 DEF SentInv, Promised
    <2> QED BY <1>1, <1>2, <2>1, <2>2 DEF SentInv, Promised, Loadable, Active, Steps
  <1> QED
    BY <1>1, <1>2, <1>5, <1>6 DEF PathTypeOK, OneCreator, StageHolds, Active, Written, Steps

LEMMA RecoverInv ==
    ASSUME PathInv, NEW input \in Inputs, Recover(input)
    PROVE  PathInv'
  BY DEF Recover, PathInv, PathTypeOK, OneCreator, StageHolds, SentInv, Active, Written, At,
         Loadable, Promised

LEMMA PathStutterInv == ASSUME PathInv, UNCHANGED pathVars PROVE PathInv'
  BY DEF pathVars, PathInv, PathTypeOK, OneCreator, StageHolds, SentInv, Active, Written,
         At, Loadable, Promised

LEMMA PathNextInv == PathInv /\ [PathNext]_pathVars => PathInv'
  BY CheckInv, CreateFileInv, ActiveInv, SendArchivedInv, FailInv, PowerLossInv, RecoverInv,
     PathStutterInv
  DEF PathNext

-----------------------------------------------------------------------------
LEMMA PathInvariantHolds == PathSpec => []PathInv
  BY PathInitInv, PathNextInv, PTL DEF PathSpec

\* Every variable of the archive and its publishers has its type in every reachable
\* state (saved_execution.py create_new, standalone_publish.py).
THEOREM PathTypeCorrect == PathSpec => []PathTypeOK
  BY PathInvariantHolds, PTL DEF PathInv

\* What was sent is found again after any crash, and after any power loss where the
\* directory is flushed (saved_execution.py:3, 308, 363, standalone_publish.py:244).
THEOREM SentStaysRecoverable == PathSpec => []SentIsRecoverable
  <1>1. PathInv => SentIsRecoverable
    BY DEF PathInv, SentInv, SentIsRecoverable
  <1> QED BY PathInvariantHolds, <1>1, PTL

\* In the same case one path sends one input once (saved_execution.py:368).
THEOREM PathSendsOnce == PathSpec => []OneSendPerPath
  <1>1. PathInv => OneSendPerPath
    BY DEF PathInv, SentInv, OneSendPerPath, Loadable
  <1> QED BY PathInvariantHolds, <1>1, PTL

-----------------------------------------------------------------------------
(* The live journal *)

(* ------------------------- lemmas on the operators ------------------------- *)

\* A set of naturals that is not empty has a least element.
LEMMA LeastNumber ==
    ASSUME NEW S \in SUBSET Nat, S # {}
    PROVE  \E x \in S : \A y \in S : x <= y
  <1> DEFINE R == OpToRel(<, Nat)
  <1>1. \A a, b \in Nat : a < b => <<a, b>> \in R
    BY DEF OpToRel
  <1>2. IsWellFoundedOn(R, Nat)
    BY NatLessThanWellFounded
  <1> HIDE DEF R
  <1>3. PICK x \in S : \A y \in S : ~ (<<y, x>> \in R)
    BY <1>2, WFMin
  <1>4. ASSUME NEW y \in S PROVE x <= y
    <2>1. ~ (y < x)
      BY <1>1, <1>3
    <2> QED BY <2>1
  <1> QED BY <1>4

\* A bounded set of naturals that is not empty has a greatest element.
LEMMA GreatestNumber ==
    ASSUME NEW S \in SUBSET Nat, S # {}, NEW n \in Nat, \A s \in S : s < n
    PROVE  Max(S) \in S /\ \A s \in S : s <= Max(S)
  <1> DEFINE C == {n - s : s \in S}
  <1>1. C \in SUBSET Nat /\ C # {}
    <2>1. \A s \in S : n - s \in Nat
      OBVIOUS
    <2> QED BY <2>1
  <1> HIDE DEF C
  <1>2. PICK x \in C : \A y \in C : x <= y
    BY <1>1, LeastNumber
  <1>3. PICK m \in S : x = n - m
    BY <1>2 DEF C
  <1>4. ASSUME NEW s \in S PROVE m >= s
    <2>1. n - s \in C
      BY DEF C
    <2>2. n - m <= n - s /\ m \in Nat /\ s \in Nat
      BY <1>2, <1>3, <2>1
    <2> QED BY <2>2
  <1>5. \E y \in S : \A s \in S : y >= s
    BY <1>4
  <1>6. Max(S) \in S /\ \A s \in S : Max(S) >= s
    BY <1>5 DEF Max
  <1> QED BY <1>6

\* A function that is the replay of the first n lines, number by number.
IsReplay(g, lines, n, k) ==
    g = [i \in 0 .. n |-> IF i = 0 THEN NothingRead ELSE Read(g[i - 1], lines[i], k)]

\* Any number of lines can be replayed.
LEMMA ReplayExists ==
    ASSUME NEW lines, NEW k, NEW n \in Nat
    PROVE  \E g : IsReplay(g, lines, n, k)
  <1> DEFINE S == {m \in Nat : ~ \E g : IsReplay(g, lines, m, k)}
  <1>1. S \in SUBSET Nat
    OBVIOUS
  <1>2. S = {}
    <2> SUFFICES ASSUME S # {} PROVE FALSE
      OBVIOUS
    <2>1. PICK m \in S : \A y \in S : m <= y
      <3> HIDE DEF S
      <3> QED BY <1>1, LeastNumber
    <2>2. m # 0
      <3> SUFFICES ASSUME m = 0 PROVE FALSE
        OBVIOUS
      <3>1. IsReplay([i \in 0 .. 0 |-> NothingRead], lines, 0, k)
        BY DEF IsReplay
      <3> QED BY <2>1, <3>1
    <2>3. m - 1 \in Nat /\ m - 1 \notin S
      BY <2>1, <2>2
    <2>4. PICK g : IsReplay(g, lines, m - 1, k)
      BY <2>3
    <2> DEFINE h == [i \in 0 .. m |-> IF i = m THEN Read(g[m - 1], lines[m], k) ELSE g[i]]
    <2>5. \A i \in 0 .. (m - 1) : g[i] = IF i = 0 THEN NothingRead ELSE Read(g[i - 1], lines[i], k)
      BY <2>4 DEF IsReplay
    <2>6. ASSUME NEW i \in 0 .. m
          PROVE  h[i] = IF i = 0 THEN NothingRead ELSE Read(h[i - 1], lines[i], k)
      <3>1. CASE i = m
        <4>1. h[m] = Read(g[m - 1], lines[m], k) /\ h[m - 1] = g[m - 1]
          BY <2>1, <2>2, <2>3
        <4> QED BY <3>1, <4>1, <2>2
      <3>2. CASE i # m
        <4>1. i \in 0 .. (m - 1) /\ h[i] = g[i]
          BY <3>2, <2>1
        <4>2. i # 0 => h[i - 1] = g[i - 1]
          BY <3>2, <2>1
        <4> QED BY <2>5, <4>1, <4>2
      <3> QED BY <3>1, <3>2
    <2>7. h = [i \in 0 .. m |-> IF i = 0 THEN NothingRead ELSE Read(h[i - 1], lines[i], k)]
      <3>1. h = [i \in 0 .. m |-> h[i]]
        OBVIOUS
      <3> HIDE DEF h
      <3> QED BY <2>6, <3>1
    <2>8. IsReplay(h, lines, m, k)
      <3> HIDE DEF h
      <3> QED BY <2>7 DEF IsReplay
    <2> QED BY <2>1, <2>8
  <1> QED BY <1>2

\* Two replays of lines that agree give the same, as far as both go.
LEMMA ReplayAgrees ==
    ASSUME NEW lines, NEW others, NEW k, NEW n \in Nat, NEW m \in Nat, n <= m,
           \A i \in 1 .. n : lines[i] = others[i],
           NEW g, IsReplay(g, lines, n, k), NEW h, IsReplay(h, others, m, k)
    PROVE  \A i \in 0 .. n : g[i] = h[i]
  <1> DEFINE S == {i \in 0 .. n : g[i] # h[i]}
  <1>1. S \in SUBSET Nat
    OBVIOUS
  <1>2. S = {}
    <2> SUFFICES ASSUME S # {} PROVE FALSE
      OBVIOUS
    <2>1. PICK i \in S : \A y \in S : i <= y
      <3> HIDE DEF S
      <3> QED BY <1>1, LeastNumber
    <2>2. /\ \A j \in 0 .. n : g[j] = IF j = 0 THEN NothingRead ELSE Read(g[j - 1], lines[j], k)
          /\ \A j \in 0 .. m : h[j] = IF j = 0 THEN NothingRead ELSE Read(h[j - 1], others[j], k)
      BY DEF IsReplay
    <2>3. i \in 0 .. n /\ i \in 0 .. m /\ g[i] # h[i]
      BY <2>1
    <2>4. i # 0
      BY <2>2, <2>3
    <2>5. i - 1 \in 0 .. n /\ i - 1 \notin S /\ i \in 1 .. n
      BY <2>1, <2>3, <2>4
    <2>6. g[i - 1] = h[i - 1] /\ lines[i] = others[i]
      BY <2>5
    <2> QED BY <2>2, <2>3, <2>4, <2>6
  <1> QED BY <1>2

\* The replay is the last value of any function that is one.
LEMMA ReplayIs ==
    ASSUME NEW lines, Len(lines) \in Nat, NEW k, NEW g, IsReplay(g, lines, Len(lines), k)
    PROVE  ReplayOf(lines, k) = g[Len(lines)]
  <1>1. ASSUME NEW h, IsReplay(h, lines, Len(lines), k)
        PROVE  h[Len(lines)] = g[Len(lines)]
    BY <1>1, ReplayAgrees
  <1> QED BY <1>1 DEF ReplayOf, IsReplay

LEMMA ReplayEmpty ==
    ASSUME NEW k
    PROVE  ReplayOf(<< >>, k) = NothingRead
  <1>1. PICK g : IsReplay(g, << >>, 0, k)
    BY ReplayExists
  <1>2. g[0] = NothingRead
    BY <1>1 DEF IsReplay
  <1>3. Len(<< >>) = 0
    OBVIOUS
  <1> QED BY <1>1, <1>2, <1>3, ReplayIs

\* One more line is one more step of the replay.
LEMMA ReplayAppend ==
    ASSUME NEW lines \in Seq(Lines), NEW line, NEW k
    PROVE  ReplayOf(Append(lines, line), k) = Read(ReplayOf(lines, k), line, k)
  <1> DEFINE n == Len(lines)
             more == Append(lines, line)
  <1>1. /\ n \in Nat /\ Len(more) = n + 1
        /\ \A i \in 1 .. n : lines[i] = more[i]
        /\ more[n + 1] = line
    OBVIOUS
  <1> HIDE DEF n, more
  <1>2. PICK g : IsReplay(g, lines, n, k)
    BY <1>1, ReplayExists
  <1>n. PICK m \in Nat : m = n + 1 /\ n <= m
    BY <1>1
  <1>3. PICK h : IsReplay(h, more, m, k)
    BY ReplayExists
  <1>4. ReplayOf(lines, k) = g[n] /\ ReplayOf(more, k) = h[m]
    BY <1>1, <1>n, <1>2, <1>3, ReplayIs DEF n
  <1>5. \A i \in 0 .. n : g[i] = h[i]
    <2>1. n \in Nat /\ m \in Nat /\ n <= m
      BY <1>1, <1>n
    <2>2. \A i \in 1 .. n : lines[i] = more[i]
      BY <1>1
    <2> QED BY <2>1, <2>2, <1>2, <1>3, ReplayAgrees, SMTT(60)
  <1>6. \A i \in 0 .. m : h[i] = IF i = 0 THEN NothingRead ELSE Read(h[i - 1], more[i], k)
    BY <1>3 DEF IsReplay
  <1>7. h[m] = Read(h[n], line, k)
    BY <1>1, <1>n, <1>6
  <1>8. h[n] = g[n]
    BY <1>1, <1>5
  <1> QED BY <1>4, <1>7, <1>8 DEF more

LEMMA MapElements ==
    ASSUME NEW f \in RecordMaps
    PROVE  /\ DOMAIN f \in SUBSET Nat
           /\ \A s \in DOMAIN f : f[s] \in Records
           /\ f = [s \in DOMAIN f |-> f[s]]
  <1>1. PICK D \in SUBSET Nat : f \in [D -> Records]
    BY DEF RecordMaps
  <1>2. DOMAIN f = D /\ f = [s \in D |-> f[s]] /\ \A s \in D : f[s] \in Records
    BY <1>1
  <1> QED BY <1>2

LEMMA MapIntro ==
    ASSUME NEW D \in SUBSET Nat, NEW f \in [D -> Records]
    PROVE  f \in RecordMaps
  BY DEF RecordMaps

LEMMA EmptyMap ==
    /\ << >> \in RecordMaps /\ DOMAIN << >> = {}
    /\ \A f \in RecordMaps : DOMAIN f = {} => f = << >>
  <1>1. DOMAIN << >> = {}
    OBVIOUS
  <1>2. << >> \in [{} -> Records]
    <2>1. << >> \in Seq(Records) /\ Len(<< >>) = 0
      OBVIOUS
    <2>2. << >> \in [1 .. 0 -> Records]
      BY <2>1, LenProperties
    <2>3. 1 .. 0 = {}
      OBVIOUS
    <2> QED BY <2>2, <2>3
  <1>3. << >> \in RecordMaps
    <2>1. {} \in SUBSET Nat
      OBVIOUS
    <2> QED BY <1>2, <2>1, MapIntro
  <1>4. ASSUME NEW f \in RecordMaps, DOMAIN f = {} PROVE f = << >>
    <2>1. f \in [1 .. 0 -> Records]
      <3>1. 1 .. 0 = {}
        OBVIOUS
      <3>2. f \in [DOMAIN f -> Records]
        BY MapElements
      <3> QED BY <1>4, <3>1, <3>2
    <2>2. f \in Seq(Records) /\ Len(f) = 0
      <3>1. f \in UNION {[1 .. n -> Records] : n \in Nat}
        BY <2>1
      <3>2. f \in Seq(Records)
        BY <3>1, SeqDef
      <3>3. DOMAIN f = 1 .. Len(f) /\ Len(f) \in Nat
        BY <3>2, LenProperties
      <3> QED BY <3>2, <3>3, <1>4
    <2> QED BY <2>2, EmptySeq
  <1> QED BY <1>1, <1>3, <1>4

LEMMA WithIs ==
    ASSUME NEW recs \in RecordMaps, NEW seq \in Nat, NEW r \in Records
    PROVE  /\ With(recs, seq, r) \in RecordMaps
           /\ DOMAIN With(recs, seq, r) = DOMAIN recs \cup {seq}
           /\ With(recs, seq, r)[seq] = r
           /\ \A s \in DOMAIN recs : s # seq => With(recs, seq, r)[s] = recs[s]
  <1>1. DOMAIN With(recs, seq, r) = DOMAIN recs \cup {seq}
    BY DEF With
  <1>2. DOMAIN recs \cup {seq} \in SUBSET Nat
    BY MapElements
  <1>3. With(recs, seq, r) \in [DOMAIN recs \cup {seq} -> Records]
    BY MapElements DEF With
  <1>4. With(recs, seq, r) \in RecordMaps
    BY <1>2, <1>3, MapIntro
  <1>5. /\ With(recs, seq, r)[seq] = r
        /\ \A s \in DOMAIN recs : s # seq => With(recs, seq, r)[s] = recs[s]
    BY DEF With
  <1> QED BY <1>1, <1>4, <1>5

\* A session keeps some of its records, at most MaxPrograms, as they are.
LEMMA KeptIs ==
    ASSUME NEW recs \in RecordMaps, NEW n \in Nat, \A s \in DOMAIN recs : s < n
    PROVE  /\ Kept(recs) \in RecordMaps
           /\ DOMAIN Kept(recs) \in SUBSET (DOMAIN recs)
           /\ \A s \in DOMAIN Kept(recs) : Kept(recs)[s] = recs[s]
           /\ Cardinality(DOMAIN Kept(recs)) <= MaxPrograms
  <1> DEFINE D == DOMAIN recs
             above(s) == {t \in D : t > s}
             K == {s \in D : Cardinality(above(s)) < MaxPrograms}
  <1>1. Kept(recs) = [s \in K |-> recs[s]]
    BY DEF Kept
  <1>2. D \in SUBSET Nat /\ \A s \in D : recs[s] \in Records
    BY MapElements
  <1>3. K \in SUBSET Nat /\ K \in SUBSET D
    BY <1>2
  <1>4. Kept(recs) \in [K -> Records]
    BY <1>1, <1>2
  <1>5. Kept(recs) \in RecordMaps
    BY <1>3, <1>4, MapIntro
  <1>6. Cardinality(K) <= MaxPrograms
    <2>1. MaxPrograms \in Nat
      BY LimitsAssumption
    <2>2. IsFiniteSet(D)
      <3>1. D \in SUBSET (0 .. n) /\ IsFiniteSet(0 .. n)
        BY <1>2, FS_Interval
      <3> QED BY <3>1, FS_Subset
    <2>3. IsFiniteSet(K) /\ Cardinality(K) \in Nat
      BY <2>2, <1>3, FS_Subset, FS_CardinalityType
    <2>4. CASE K = {}
      <3> HIDE DEF K
      <3> QED BY <2>4, <2>1, FS_EmptySet
    <2>5. CASE K # {}
      <3> HIDE DEF K
      <3>1. PICK m \in K : \A y \in K : m <= y
        BY <2>5, <1>3, LeastNumber
      <3>2. K \ {m} \in SUBSET above(m)
        <4>1. ASSUME NEW y \in K, y # m PROVE y \in above(m)
          <5>1. y \in Nat /\ m \in Nat /\ m <= y /\ y \in D
            BY <3>1, <1>3
          <5> QED BY <4>1, <5>1
        <4> HIDE DEF above
        <4> QED BY <4>1
      <3>3. above(m) \in SUBSET D
        OBVIOUS
      <3>4. IsFiniteSet(above(m)) /\ Cardinality(above(m)) \in Nat
        BY <3>3, <2>2, FS_Subset, FS_CardinalityType
      <3>5. Cardinality(above(m)) < MaxPrograms
        BY <3>1 DEF K
      <3>6. Cardinality(K \ {m}) <= Cardinality(above(m))
        BY <3>2, <3>4, FS_Subset
      <3>7. Cardinality(K \ {m}) = Cardinality(K) - 1
        BY <3>1, <2>3, FS_RemoveElement
      <3> HIDE DEF above
      <3> QED BY <3>4, <3>5, <3>6, <3>7, <2>1, <2>3
    <2> QED BY <2>4, <2>5
  <1>7. DOMAIN Kept(recs) = K
    BY <1>1
  <1>8. \A s \in K : Kept(recs)[s] = recs[s]
    BY <1>1
  <1> HIDE DEF K, D
  <1> QED BY <1>3, <1>5, <1>6, <1>7, <1>8 DEF D

\* What comes back from the store: the newest records, none of them dispatched,
\* and a next number above all that were read.
LEMMA RestoredIs ==
    ASSUME NEW recs \in RecordMaps, recs # << >>, NEW n \in Nat, \A s \in DOMAIN recs : s < n
    PROVE  /\ Restored(recs) \in Sessions
           /\ Restored(recs).next \in Nat /\ Restored(recs).recs \in RecordMaps
           /\ \A s \in DOMAIN recs : s < Restored(recs).next
           /\ DOMAIN Restored(recs).recs = DOMAIN Kept(recs)
           /\ DOMAIN Restored(recs).recs \in SUBSET (DOMAIN recs)
           /\ \A s \in DOMAIN Restored(recs).recs :
                 Restored(recs).recs[s] = [recs[s] EXCEPT !.stage = RestoredStage(@)]
           /\ Cardinality(DOMAIN Restored(recs).recs) <= MaxPrograms
  <1> DEFINE back == [s \in DOMAIN recs |-> [recs[s] EXCEPT !.stage = RestoredStage(@)]]
  <1>1. DOMAIN recs \in SUBSET Nat /\ DOMAIN recs # {} /\ \A s \in DOMAIN recs : recs[s] \in Records
    BY MapElements, EmptyMap
  <1>2. back \in RecordMaps /\ DOMAIN back = DOMAIN recs
    <2>1. \A s \in DOMAIN recs : [recs[s] EXCEPT !.stage = RestoredStage(@)] \in Records
      <3>1. ASSUME NEW r \in Records PROVE [r EXCEPT !.stage = RestoredStage(@)] \in Records
        BY DEF Records, RestoredStage, Main, Side
      <3> QED BY <1>1, <3>1
    <2>2. back \in [DOMAIN recs -> Records]
      BY <2>1
    <2> QED BY <1>1, <2>2, MapIntro
  <1>3. /\ Kept(back) \in RecordMaps
        /\ DOMAIN Kept(back) \in SUBSET (DOMAIN back)
        /\ \A s \in DOMAIN Kept(back) : Kept(back)[s] = back[s]
        /\ Cardinality(DOMAIN Kept(back)) <= MaxPrograms
    <2> HIDE DEF back
    <2> QED BY <1>2, KeptIs
  <1>4. DOMAIN Kept(back) = DOMAIN Kept(recs)
    <2> HIDE DEF back
    <2> QED BY <1>2 DEF Kept
  <1>5. Max(DOMAIN recs) \in DOMAIN recs /\ \A s \in DOMAIN recs : s <= Max(DOMAIN recs)
    BY <1>1, GreatestNumber
  <1>6. Max(DOMAIN recs) + 1 \in Nat /\ \A s \in DOMAIN recs : s < Max(DOMAIN recs) + 1
    BY <1>1, <1>5
  <1>7. Restored(recs) = [recs |-> Kept(back), next |-> Max(DOMAIN recs) + 1]
    BY DEF Restored
  <1>8. \A s \in DOMAIN Kept(back) : Kept(back)[s] = [recs[s] EXCEPT !.stage = RestoredStage(@)]
    BY <1>2, <1>3
  <1> HIDE DEF back
  <1>9. Restored(recs).recs = Kept(back) /\ Restored(recs).next = Max(DOMAIN recs) + 1
    BY <1>7
  <1>10. Restored(recs) \in Sessions
    BY <1>3, <1>6, <1>7 DEF Sessions
  <1> QED BY <1>2, <1>3, <1>4, <1>6, <1>8, <1>9, <1>10

Distinct(q) == \A i, j \in 1 .. Len(q) : q[i] = q[j] => i = j

\* Without one of its places a sequence is one shorter.
LEMMA RemoveAtIs ==
    ASSUME NEW S, NEW q \in Seq(S), NEW j \in 1 .. Len(q)
    PROVE  /\ RemoveAt(q, j) \in Seq(S) /\ Len(RemoveAt(q, j)) = Len(q) - 1
           /\ \A i \in 1 .. (Len(q) - 1) : RemoveAt(q, j)[i] = IF i < j THEN q[i] ELSE q[i + 1]
  <1> DEFINE n == Len(q)
             left == SubSeq(q, 1, j - 1)
             right == SubSeq(q, j + 1, n)
  <1>1. n \in Nat /\ \A i \in 1 .. n : q[i] \in S
    BY LenProperties, ElementOfSeq
  <1>2. left \in Seq(S) /\ Len(left) = j - 1 /\ \A i \in 1 .. (j - 1) : left[i] = q[i]
    BY <1>1, SubSeqProperties
  <1>3. right \in Seq(S) /\ Len(right) = n - j /\ \A i \in 1 .. (n - j) : right[i] = q[j + i]
    BY <1>1, SubSeqProperties
  <1> HIDE DEF left, right
  <1>4. /\ left \o right \in Seq(S) /\ Len(left \o right) = n - 1
        /\ \A i \in 1 .. (n - 1) : (left \o right)[i] = IF i <= j - 1 THEN left[i] ELSE right[i - (j - 1)]
    <2>1. left \in Seq(S) /\ right \in Seq(S)
      BY <1>2, <1>3
    <2>2. /\ left \o right \in Seq(S)
          /\ Len(left \o right) = Len(left) + Len(right)
          /\ \A i \in 1 .. Len(left) + Len(right) : (left \o right)[i] =
                IF i <= Len(left) THEN left[i] ELSE right[i - Len(left)]
      BY <2>1, ConcatProperties
    <2>3. Len(left) = j - 1 /\ Len(left) + Len(right) = n - 1 /\ j \in Nat
      BY <1>1, <1>2, <1>3
    <2> QED BY <2>2, <2>3
  <1>5. ASSUME NEW i \in 1 .. (n - 1)
        PROVE  (left \o right)[i] = IF i < j THEN q[i] ELSE q[i + 1]
    <2>1. CASE i < j
      BY <2>1, <1>1, <1>2, <1>4
    <2>2. CASE ~ (i < j)
      <3>1. i - (j - 1) \in 1 .. (n - j) /\ j + (i - (j - 1)) = i + 1
        BY <2>2, <1>1
      <3>2. right[i - (j - 1)] = q[i + 1]
        BY <3>1, <1>3
      <3>3. ~ (i <= j - 1)
        BY <2>2, <1>1
      <3>4. (left \o right)[i] = right[i - (j - 1)]
        BY <3>3, <1>4
      <3> QED BY <2>2, <3>2, <3>4
    <2> QED BY <2>1, <2>2
  <1>6. RemoveAt(q, j) = left \o right
    BY DEF RemoveAt, left, right
  <1> QED BY <1>4, <1>5, <1>6 DEF n

\* A key moved to the end of an order of use, or added there.
LEMMA UsedLastIs ==
    ASSUME NEW q \in Seq(Keys), Distinct(q), NEW k \in Keys
    PROVE  LET order == Append(RemoveFirst(q, k), k)
           IN /\ order \in Seq(Keys) /\ Distinct(order)
              /\ Len(order) >= 1 /\ order[Len(order)] = k
              /\ \A x : x \in ToSet(order) <=> x = k \/ x \in ToSet(q)
  <1> DEFINE rest == RemoveFirst(q, k)
             order == Append(rest, k)
  <1>1. Len(q) \in Nat /\ DOMAIN q = 1 .. Len(q)
    BY LenProperties
  <1>2. /\ rest \in Seq(Keys) /\ Distinct(rest)
        /\ \A x : x \in ToSet(rest) <=> x # k /\ x \in ToSet(q)
    <2>1. CASE \E i \in 1 .. Len(q) : q[i] = k
      <3> DEFINE I == {i \in 1 .. Len(q) : q[i] = k}
      <3>1. SelectInSeq(q, LAMBDA v : v = k) = Min(I)
        BY <2>1 DEF SelectInSeq
      <3>2. \E j \in I : \A i \in I : j <= i
        <4>1. I \in SUBSET Nat /\ I # {}
          BY <2>1
        <4> HIDE DEF I
        <4> QED BY <4>1, LeastNumber
      <3>3. Min(I) \in I
        BY <3>2 DEF Min
      <3>4. PICK j \in 1 .. Len(q) : q[j] = k /\ rest = RemoveAt(q, j)
        BY <2>1, <3>1, <3>3 DEF RemoveFirst
      <3>5. /\ rest \in Seq(Keys) /\ Len(rest) = Len(q) - 1
            /\ \A i \in 1 .. (Len(q) - 1) : rest[i] = IF i < j THEN q[i] ELSE q[i + 1]
        BY <3>4, RemoveAtIs
      <3> HIDE DEF rest
      <3>6. Distinct(rest)
        BY <3>5, <1>1 DEF Distinct
      <3>7. DOMAIN rest = 1 .. (Len(q) - 1)
        BY <3>5, LenProperties
      <3>8. ASSUME NEW x, x \in ToSet(rest) PROVE x # k /\ x \in ToSet(q)
        <4>1. PICK i \in 1 .. (Len(q) - 1) : rest[i] = x
          BY <3>7, <3>8 DEF ToSet
        <4>2. PICK l \in 1 .. Len(q) : q[l] = x /\ l # j
          <5>1. CASE i < j
            <6>1. i \in 1 .. Len(q) /\ q[i] = x /\ i # j
              BY <5>1, <4>1, <3>5, <1>1
            <6> QED BY <6>1
          <5>2. CASE ~ (i < j)
            <6>1. i + 1 \in 1 .. Len(q) /\ q[i + 1] = x /\ i + 1 # j
              BY <5>2, <4>1, <3>5, <1>1
            <6> QED BY <6>1
          <5> QED BY <5>1, <5>2
        <4> QED BY <4>2, <3>4, <1>1 DEF Distinct, ToSet
      <3>9. ASSUME NEW x, x # k, x \in ToSet(q) PROVE x \in ToSet(rest)
        <4>1. PICK l \in 1 .. Len(q) : q[l] = x /\ l # j
          BY <3>9, <3>4, <1>1 DEF ToSet
        <4>2. \E i \in 1 .. (Len(q) - 1) : rest[i] = x
          <5>1. CASE l < j
            BY <5>1, <4>1, <3>5, <1>1
          <5>2. CASE l > j
            <6>1. l - 1 \in 1 .. (Len(q) - 1) /\ ~ (l - 1 < j) /\ (l - 1) + 1 = l
              BY <5>2, <1>1
            <6> QED BY <6>1, <4>1, <3>5
          <5> QED BY <5>1, <5>2, <4>1
        <4> QED BY <4>2, <3>7 DEF ToSet
      <3> QED BY <3>5, <3>6, <3>8, <3>9
    <2>2. CASE ~ \E i \in 1 .. Len(q) : q[i] = k
      <3>1. rest = q
        BY <2>2 DEF RemoveFirst
      <3>2. k \notin ToSet(q)
        BY <2>2, <1>1 DEF ToSet
      <3> QED BY <3>1, <3>2
    <2> QED BY <2>1, <2>2
  <1> HIDE DEF rest
  <1>3. /\ Len(rest) \in Nat /\ DOMAIN rest = 1 .. Len(rest)
        /\ \A i \in 1 .. Len(rest) : rest[i] # k
    <2>1. Len(rest) \in Nat /\ DOMAIN rest = 1 .. Len(rest)
      BY <1>2, LenProperties
    <2>2. \A i \in 1 .. Len(rest) : rest[i] \in ToSet(rest)
      BY <2>1 DEF ToSet
    <2> QED BY <1>2, <2>1, <2>2
  <1>4. /\ order \in Seq(Keys) /\ Len(order) = Len(rest) + 1
        /\ \A i \in 1 .. Len(rest) : order[i] = rest[i]
        /\ order[Len(rest) + 1] = k
    BY <1>2, AppendProperties
  <1> HIDE DEF order
  <1>5. Distinct(order)
    BY <1>2, <1>3, <1>4 DEF Distinct
  <1>6. DOMAIN order = 1 .. (Len(rest) + 1)
    BY <1>4, LenProperties
  <1>7. ASSUME NEW x PROVE x \in ToSet(order) <=> x = k \/ x \in ToSet(q)
    <2>1. x \in ToSet(order) <=> \E i \in 1 .. (Len(rest) + 1) : order[i] = x
      BY <1>6 DEF ToSet
    <2>2. x \in ToSet(rest) <=> \E i \in 1 .. Len(rest) : rest[i] = x
      BY <1>3 DEF ToSet
    <2>3. \A i \in 1 .. (Len(rest) + 1) : i \in 1 .. Len(rest) \/ i = Len(rest) + 1
      BY <1>3
    <2>4. \A i \in 1 .. Len(rest) : i \in 1 .. (Len(rest) + 1)
      BY <1>3
    <2>5. Len(rest) + 1 \in 1 .. (Len(rest) + 1)
      BY <1>3
    <2> QED BY <2>1, <2>2, <2>3, <2>4, <2>5, <1>2, <1>4
  <1>8. Len(order) >= 1 /\ order[Len(order)] = k
    BY <1>3, <1>4
  <1> QED BY <1>4, <1>5, <1>7, <1>8 DEF order, rest

(* ------------------------- the sessions in memory ------------------------- *)

MemType == mem \in [Keys -> Sessions \cup {NoSession}]

Order ==
    /\ lru \in Seq(Keys) /\ Distinct(lru)
    /\ ToSet(lru) = {k \in Keys : mem[k] # NoSession}
    /\ Len(lru) <= MaxSessions

LEMMA SessionIsOne == NoSession \notin Sessions /\ EmptySession \in Sessions
  <1>1. \A x \in Sessions : x.next \in Nat
    BY DEF Sessions
  <1>2. NoSession.next \notin Nat
    BY NoneAssumption DEF NoSession
  <1>3. EmptySession \in Sessions
    BY EmptyMap DEF EmptySession, Sessions
  <1> QED BY <1>1, <1>2, <1>3

LEMMA CountOf ==
    ASSUME NEW S, NEW q \in Seq(S), Distinct(q)
    PROVE  IsFiniteSet(ToSet(q)) /\ Cardinality(ToSet(q)) = Len(q)
  <1>1. Len(q) \in Nat /\ DOMAIN q = 1 .. Len(q) /\ q = [i \in 1 .. Len(q) |-> q[i]]
    BY LenProperties
  <1>2. q \in Bijection(1 .. Len(q), ToSet(q))
    <2>1. q \in [1 .. Len(q) -> ToSet(q)]
      BY <1>1 DEF ToSet
    <2>2. \A a, b \in 1 .. Len(q) : q[a] = q[b] => a = b
      BY DEF Distinct
    <2>3. \A t \in ToSet(q) : \E s \in 1 .. Len(q) : q[s] = t
      BY <1>1 DEF ToSet
    <2> QED BY <2>1, <2>2, <2>3 DEF Bijection, Injection, Surjection, IsInjective
  <1>3. ExistsBijection(1 .. Len(q), ToSet(q))
    BY <1>2 DEF ExistsBijection
  <1>4. IsFiniteSet(1 .. Len(q)) /\ Cardinality(1 .. Len(q)) = Len(q)
    <2>1. PICK n \in Nat : n = Len(q)
      BY <1>1
    <2>2. IsFiniteSet(1 .. n) /\ Cardinality(1 .. n) = IF 1 > n THEN 0 ELSE n - 1 + 1
      BY FS_Interval
    <2> QED BY <2>1, <2>2
  <1> QED BY <1>3, <1>4, FS_Bijection

LEMMA PutIs ==
    ASSUME MemType, Order, NEW k \in Keys, NEW session \in Sessions, Put(k, session)
    PROVE  /\ MemType' /\ Order'
           /\ mem'[k] = session
           /\ \A x \in Keys \ {k} : mem'[x] = mem[x] \/ mem'[x] = NoSession
           /\ \A x \in Keys \ {k} : x \notin evicted' => mem'[x] = mem[x]
           /\ evicted \in SUBSET evicted' /\ evicted' \in SUBSET (evicted \cup Keys)
           /\ \A x \in Keys : x \in evicted' => x \in evicted \/ mem'[x] = NoSession
  <1> DEFINE order == Append(RemoveFirst(lru, k), k)
             over == Len(order) > MaxSessions
  <1>1. /\ order \in Seq(Keys) /\ Distinct(order)
        /\ Len(order) >= 1 /\ order[Len(order)] = k
        /\ \A x : x \in ToSet(order) <=> x = k \/ x \in ToSet(lru)
    BY UsedLastIs DEF Order
  <1>2. /\ lru' = IF over THEN Tail(order) ELSE order
        /\ mem' = [x \in Keys |-> IF over /\ x = Head(order) THEN NoSession
                                  ELSE IF x = k THEN session ELSE mem[x]]
        /\ evicted' = IF over THEN evicted \cup {Head(order)} ELSE evicted
    BY DEF Put
  <1>3. Len(order) \in Nat /\ DOMAIN order = 1 .. Len(order) /\ MaxSessions \in Nat \ {0}
    <2>1. MaxSessions \in Nat \ {0}
      BY LimitsAssumption
    <2> HIDE DEF order
    <2> QED BY <1>1, <2>1, LenProperties
  <1>4. session # NoSession
    BY SessionIsOne
  <1>5. Len(lru) \in Nat /\ Cardinality(ToSet(lru)) = Len(lru) /\ IsFiniteSet(ToSet(lru))
    BY LenProperties, CountOf DEF Order
  <1>6. Len(order) <= MaxSessions + 1
    <2>1. ToSet(order) = ToSet(lru) \cup {k}
      BY <1>1
    <2>2. Cardinality(ToSet(order)) = Len(order)
      BY <1>1, CountOf
    <2>3. Cardinality(ToSet(lru) \cup {k}) <= Cardinality(ToSet(lru)) + 1
      <3>1. Cardinality(ToSet(lru) \cup {k})
               = IF k \in ToSet(lru) THEN Cardinality(ToSet(lru)) ELSE Cardinality(ToSet(lru)) + 1
        BY <1>5, FS_AddElement
      <3>2. Cardinality(ToSet(lru)) \in Nat
        BY <1>5
      <3> QED BY <3>1, <3>2
    <2> HIDE DEF order
    <2> QED BY <2>1, <2>2, <2>3, <1>3, <1>5 DEF Order
  <1> HIDE DEF order
  <1>7. Head(order) = order[1] /\ Head(order) \in Keys
    <2>1. order # << >>
      BY <1>1, EmptySeq
    <2> QED BY <2>1, <1>1, HeadTailProperties
  <1>8. over => Head(order) # k
    <2> SUFFICES ASSUME over, order[1] = k PROVE FALSE
      BY <1>7
    <2>1. 1 \in 1 .. Len(order) /\ Len(order) \in 1 .. Len(order) /\ Len(order) # 1
      BY <1>1, <1>3
    <2> QED BY <2>1, <1>1 DEF Distinct
  <1>9. mem'[k] = session
    BY <1>2, <1>8
  <1>10. \A x \in Keys \ {k} : mem'[x] = IF over /\ x = Head(order) THEN NoSession ELSE mem[x]
    BY <1>2
  <1>11. MemType'
    BY <1>2 DEF MemType
  <1>12. {x \in Keys : mem'[x] # NoSession}
            = {x \in Keys : x \in ToSet(order) /\ ~ (over /\ x = Head(order))}
    BY <1>1, <1>4, <1>8, <1>9, <1>10 DEF Order
  <1>13. Order'
    <2>1. ToSet(order) \in SUBSET Keys
      <3>1. \A i \in 1 .. Len(order) : order[i] \in Keys
        BY <1>1, ElementOfSeq
      <3> QED BY <1>3, <3>1 DEF ToSet
    <2>2. CASE ~ over
      <3>1. lru' = order
        BY <2>2, <1>2
      <3>2. Len(order) <= MaxSessions
        BY <2>2, <1>3
      <3>3. ToSet(order) = {x \in Keys : mem'[x] # NoSession}
        BY <2>1, <2>2, <1>12
      <3> QED BY <3>1, <3>2, <3>3, <1>1 DEF Order
    <2>3. CASE over
      <3>1. order # << >>
        BY <1>1, EmptySeq
      <3>2. /\ lru' = Tail(order) /\ Tail(order) \in Seq(Keys) /\ Len(Tail(order)) = Len(order) - 1
            /\ \A i \in 1 .. (Len(order) - 1) : Tail(order)[i] = order[i + 1]
        BY <2>3, <3>1, <1>1, <1>2, HeadTailProperties
      <3>3. Distinct(lru') /\ Len(lru') <= MaxSessions
        BY <3>2, <1>1, <1>3, <1>6 DEF Distinct
      <3>4. DOMAIN lru' = 1 .. (Len(order) - 1)
        BY <3>2, LenProperties
      <3>5. ASSUME NEW x PROVE x \in ToSet(lru') <=> x \in ToSet(order) /\ x # order[1]
        <4>1. ASSUME x \in ToSet(lru') PROVE x \in ToSet(order) /\ x # order[1]
          <5>1. PICK i \in 1 .. (Len(order) - 1) : lru'[i] = x
            BY <4>1, <3>4 DEF ToSet
          <5>2. i + 1 \in 1 .. Len(order) /\ i + 1 # 1 /\ order[i + 1] = x /\ 1 \in 1 .. Len(order)
            BY <5>1, <3>2, <1>3
          <5> QED BY <5>2, <1>1, <1>3 DEF Distinct, ToSet
        <4>2. ASSUME x \in ToSet(order), x # order[1] PROVE x \in ToSet(lru')
          <5>1. PICK i \in 1 .. Len(order) : order[i] = x /\ i # 1
            BY <4>2, <1>3 DEF ToSet
          <5>2. i - 1 \in 1 .. (Len(order) - 1) /\ (i - 1) + 1 = i
            BY <5>1, <1>3
          <5>3. lru'[i - 1] = x
            BY <5>1, <5>2, <3>2
          <5> QED BY <5>2, <5>3, <3>4 DEF ToSet
        <4> QED BY <4>1, <4>2
      <3>6. ToSet(lru') = {x \in Keys : mem'[x] # NoSession}
        BY <3>5, <2>1, <2>3, <1>7, <1>12
      <3>7. ToSet(lru)' = ToSet(lru') /\ Distinct(lru)' <=> Distinct(lru')
        BY DEF ToSet, Distinct
      <3> QED BY <3>2, <3>3, <3>6, <3>7 DEF Order
    <2> QED BY <2>2, <2>3
  <1>14. \A x \in Keys \ {k} : x \notin evicted' => mem'[x] = mem[x]
    BY <1>2, <1>10
  <1>15. evicted \in SUBSET evicted' /\ evicted' \in SUBSET (evicted \cup Keys)
    BY <1>2, <1>7
  <1>16. \A x \in Keys \ {k} : mem'[x] = mem[x] \/ mem'[x] = NoSession
    BY <1>10
  <1>17. \A x \in Keys : x \in evicted' => x \in evicted \/ mem'[x] = NoSession
    BY <1>2
  <1> QED BY <1>9, <1>11, <1>13, <1>14, <1>15, <1>16, <1>17

(* ------------------------------ the invariant ------------------------------ *)

Before  == {"new", "reading", "raising", "appending"}
Working == {"storing", "binding", "bound", "marking", "marked", "sending", "waiting", "ending", "staged"}
Failed  == {"refused_pre_effect", "rolled_back", "running_unknown"}

Turns == [pc : Before \cup Working \cup {"over"}, key : Keys \cup {None}, seq : Nat \cup {None},
          n : 1 .. MaxChunks, i : Nat, seen : RecordMaps, line : Lines \cup {None},
          verdict : Failed \cup {"rejected", None}]

Busy(p)      == turn[p].pc \notin {"new", "over"}
Live(p)      == turn[p].pc \in Working
Restoring(p) == turn[p].pc \in {"reading", "raising"}

Sizes ==
    \A k \in Keys :
        /\ \A s \in DOMAIN mem[k].recs : s < mem[k].next
        /\ Cardinality(DOMAIN mem[k].recs) <= MaxPrograms

TurnType   == turn \in [Programs -> Turns]
LinesType  == store \in Seq(Lines)
LateType   == /\ late \in [Operations -> Lines \cup {None}]
              /\ \A o \in Operations : late[o] # None => late[o] = Line("late", late[o].key, late[o].seq, o)
NativeType == native \in [Operations -> {"unsent", "running", "committed", "rolled_back"}]
FlagTypes  == tried \in SUBSET Keys /\ torn \in BOOLEAN /\ lost \in BOOLEAN

Types ==
    /\ MemType /\ Order /\ Sizes
    /\ TurnType /\ LinesType /\ LateType /\ NativeType /\ FlagTypes

\* What a turn holds at each of its places.
TurnHolds(p) ==
    LET t == turn[p]
    IN /\ Busy(p) => t.key \in tried
       /\ Live(p) => t.seq \in Nat
       /\ t.pc = "storing" => t.line = Line("program", t.key, t.seq, p)
       /\ t.pc = "bound"   => t.line = Line("operation", t.key, t.seq, Current(p))
       /\ t.pc = "marked"  => t.line = Line("stage", t.key, t.seq, "dispatched")
       /\ t.pc = "staged"  => t.line = Line("stage", t.key, t.seq, FinalStage(p))
       /\ t.pc \in Before \cup {"storing"} => t.i = 0
       /\ t.pc \in (Before \cup Working) \ {"ending", "staged"} => t.i < t.n /\ t.verdict = None
       /\ t.pc \in {"ending", "staged"} =>
             /\ t.i <= t.n
             /\ t.i = 0 => t.verdict \in Failed
             /\ t.verdict = None => t.i = t.n

TurnFacts == \A p \in Programs : TurnHolds(p)

\* While a session is restored nobody else works on its key, and a session is in
\* memory only when its store was looked at.
Locks ==
    /\ \A p \in Programs : Restoring(p) =>
          /\ mem[turn[p].key] = NoSession
          /\ \A q \in Programs : q # p /\ Busy(q) => turn[q].key # turn[p].key
    /\ \A k \in Keys : mem[k] # NoSession => k \in tried

Bounded(recs) == \E n \in Nat : \A s \in DOMAIN recs : s < n

\* What the lines of a key amount to: records of turns that got as far as that,
\* and of this process only when they have the same key.
StoreHolds(k, r) ==
    /\ r \in [ok : BOOLEAN, recs : RecordMaps]
    /\ Bounded(r.recs)
    /\ \A s \in DOMAIN r.recs :
          LET q == r.recs[s].prog
          IN turn[q].pc \in Working \cup {"over"} /\ (Live(q) => turn[q].key = k)

StoreFacts == \A k \in Keys : StoreHolds(k, Replay(k))

SeenHolds(p) ==
    turn[p].pc = "raising" =>
        /\ Bounded(turn[p].seen)
        /\ \A s \in DOMAIN turn[p].seen : turn[turn[p].seen[s].prog].pc = "over"

SeenFacts == \A p \in Programs : SeenHolds(p)

\* A record in memory belongs to the turn that has its number or to one that is
\* over, and then nobody can mark it any more.
MemHolds(k, s, r) ==
    LET q == r.prog
    IN /\ turn[q].pc \in Working \cup {"over"}
       /\ Live(q) => turn[q].key = k /\ turn[q].seq = s
       /\ turn[q].pc \in {"staged", "over"} =>
             \/ r.stage \in EndStages
             \/ /\ turn[q].pc = "over"
                /\ r.stage # "dispatched"
                /\ \A p \in Programs : Live(p) => turn[p].key # k \/ turn[p].seq # s

MemFacts == \A k \in Keys : \A s \in DOMAIN mem[k].recs : MemHolds(k, s, mem[k].recs[s])

Base == Types /\ TurnFacts /\ Locks /\ StoreFacts /\ SeenFacts /\ MemFacts

(* ------------------------------- first facts -------------------------------- *)

LEMMA TurnFields ==
    ASSUME NEW t \in Turns
    PROVE  /\ t.pc \in Before \cup Working \cup {"over"} /\ t.key \in Keys \cup {None}
           /\ t.seq \in Nat \cup {None} /\ t.n \in 1 .. MaxChunks /\ t.n \in Nat /\ t.i \in Nat
           /\ t.seen \in RecordMaps /\ t.line \in Lines \cup {None}
           /\ t.verdict \in Failed \cup {"rejected", None}
  <1>1. MaxChunks \in Nat
    BY LimitsAssumption
  <1> QED BY <1>1 DEF Turns

LEMMA BusyKey ==
    ASSUME TurnType, FlagTypes, TurnFacts, NEW p \in Programs, Busy(p)
    PROVE  turn[p].key \in Keys /\ (Live(p) => turn[p].seq \in Nat)
  BY DEF TurnType, FlagTypes, TurnFacts, TurnHolds

LEMMA MemFields ==
    ASSUME MemType, NEW k \in Keys
    PROVE  /\ mem[k].recs \in RecordMaps
           /\ mem[k] # NoSession => mem[k] \in Sessions /\ mem[k].next \in Nat
           /\ DOMAIN mem[k].recs \in SUBSET Nat
           /\ \A s \in DOMAIN mem[k].recs : mem[k].recs[s] \in Records /\ mem[k] \in Sessions
  <1>1. CASE mem[k] = NoSession
    <2>1. mem[k].recs = << >>
      BY <1>1 DEF NoSession
    <2> QED BY <2>1, <1>1, EmptyMap
  <1>2. CASE mem[k] # NoSession
    <2>1. mem[k] \in Sessions /\ mem[k].recs \in RecordMaps /\ mem[k].next \in Nat
      BY <1>2 DEF MemType, Sessions
    <2> QED BY <2>1, MapElements
  <1> QED BY <1>1, <1>2

\* Where a turn is said to be next.
LEMMA SayIs ==
    ASSUME TurnType, NEW p \in Programs, NEW pc \in Before \cup Working, NEW line \in Lines \cup {None},
           Say(p, pc, line)
    PROVE  /\ TurnType'
           /\ \A q \in Programs : q # p => turn'[q] = turn[q]
           /\ turn'[p].pc = pc /\ turn'[p].line = line
           /\ turn'[p].key = turn[p].key /\ turn'[p].seq = turn[p].seq
           /\ turn'[p].n = turn[p].n /\ turn'[p].i = turn[p].i
           /\ turn'[p].seen = turn[p].seen /\ turn'[p].verdict = turn[p].verdict
  <1>1. pc # "over"
    BY DEF Before, Working
  <1>2. turn[p] \in Turns
    BY DEF TurnType
  <1>3. turn' = [turn EXCEPT ![p] = [turn[p] EXCEPT !.pc = pc, !.line = line]]
    BY <1>1 DEF Say
  <1>4. [turn[p] EXCEPT !.pc = pc, !.line = line] \in Turns
    BY <1>2 DEF Turns
  <1>5. turn'[p] = [turn[p] EXCEPT !.pc = pc, !.line = line] /\ \A q \in Programs : q # p => turn'[q] = turn[q]
    BY <1>3 DEF TurnType
  <1>6. TurnType'
    BY <1>3, <1>4 DEF TurnType
  <1> QED BY <1>2, <1>5, <1>6 DEF Turns

LEMMA NoTurnIs ==
    /\ NoTurn \in Turns
    /\ \A n \in 1 .. MaxChunks : LET t == [NoTurn EXCEPT !.pc = "over", !.n = n]
                               IN /\ t \in Turns /\ t.pc = "over" /\ t.n = n
                                  /\ t.seen = << >> /\ t.line = None /\ t.key = None
  <1>1. 1 \in 1 .. MaxChunks
    BY LimitsAssumption
  <1> QED BY <1>1, EmptyMap DEF NoTurn, Turns, Before

LEMMA SayOver ==
    ASSUME TurnType, NEW p \in Programs, NEW line, Say(p, "over", line)
    PROVE  /\ TurnType'
           /\ \A q \in Programs : q # p => turn'[q] = turn[q]
           /\ turn'[p].pc = "over" /\ turn'[p].n = turn[p].n /\ turn'[p].line = None
  <1>1. turn[p] \in Turns /\ turn[p].n \in 1 .. MaxChunks
    BY TurnFields DEF TurnType
  <1>2. turn' = [turn EXCEPT ![p] = [NoTurn EXCEPT !.pc = "over", !.n = turn[p].n]]
    BY DEF Say
  <1> QED BY <1>1, <1>2, NoTurnIs DEF TurnType

(* --------------------------- what a step may do ----------------------------- *)

\* Only the turn of p moves.
Acts(p) == \A q \in Programs : q # p => turn'[q] = turn[q]

\* A turn that has its record gets no other, and one that is over stays over.
Onward ==
    \A q \in Programs : turn[q].pc \in Working \cup {"over"} =>
        /\ turn'[q].pc \in Working \cup {"over"}
        /\ turn'[q].n = turn[q].n
        /\ Live(q)' => Live(q) /\ turn'[q].key = turn[q].key /\ turn'[q].seq = turn[q].seq

\* A turn at work does something; what it does is not its end.
Goes(p) ==
    /\ Live(p) /\ Acts(p)
    /\ turn'[p].pc \in Working \cup {"over"}
    /\ turn'[p].n = turn[p].n
    /\ Live(p)' => turn'[p].key = turn[p].key /\ turn'[p].seq = turn[p].seq
Works(p) == Goes(p) /\ (turn'[p].pc \in {"staged", "over"} => turn[p].pc = "staged")

LEMMA WorksOnward ==
    ASSUME NEW p \in Programs, Goes(p)
    PROVE  Onward
  BY DEF Works, Goes, Acts, Onward, Live

LEMMA StandsOnward ==
    ASSUME turn' = turn
    PROVE  Onward
  BY DEF Onward, Live

LEMMA StoreFactsStay ==
    ASSUME StoreFacts, TurnType, Onward, store' = store
    PROVE  StoreFacts'
  <1> SUFFICES ASSUME NEW k \in Keys PROVE StoreHolds(k, Replay(k))'
    BY DEF StoreFacts
  <1> PICK r : r = Replay(k)
    OBVIOUS
  <1>1. Replay(k)' = r
    BY DEF Replay
  <1>2. StoreHolds(k, r)
    BY DEF StoreFacts
  <1>3. r.recs \in RecordMaps
    BY <1>2 DEF StoreHolds
  <1>4. ASSUME NEW s \in DOMAIN r.recs
        PROVE  LET q == r.recs[s].prog
               IN turn'[q].pc \in Working \cup {"over"} /\ (Live(q)' => turn'[q].key = k)
    <2>1. PICK q \in Programs : q = r.recs[s].prog
      BY <1>3, MapElements DEF Records
    <2>2. turn[q].pc \in Working \cup {"over"} /\ (Live(q) => turn[q].key = k)
      BY <1>2, <2>1 DEF StoreHolds
    <2>3. turn'[q].pc \in Working \cup {"over"} /\ (Live(q)' => turn'[q].key = k)
      BY <2>2 DEF Onward
    <2> QED BY <2>1, <2>3
  <1>5. r \in [ok : BOOLEAN, recs : RecordMaps] /\ Bounded(r.recs)
    BY <1>2 DEF StoreHolds
  <1> QED BY <1>1, <1>4, <1>5 DEF StoreHolds, Bounded, Live

LEMMA SeenFactsStay ==
    ASSUME SeenFacts, TurnType, Onward,
           \A q \in Programs : turn'[q].pc = "raising" =>
               turn[q].pc = "raising" /\ turn'[q].seen = turn[q].seen
    PROVE  SeenFacts'
  <1> SUFFICES ASSUME NEW q \in Programs, turn'[q].pc = "raising"
               PROVE  /\ Bounded(turn'[q].seen)
                      /\ \A s \in DOMAIN turn'[q].seen : turn'[turn'[q].seen[s].prog].pc = "over"
    BY DEF SeenFacts, SeenHolds, Bounded
  <1>1. turn[q].pc = "raising" /\ turn'[q].seen = turn[q].seen
    OBVIOUS
  <1>2. Bounded(turn[q].seen) /\ \A s \in DOMAIN turn[q].seen : turn[turn[q].seen[s].prog].pc = "over"
    BY <1>1 DEF SeenFacts, SeenHolds
  <1>3. turn[q].seen \in RecordMaps
    BY TurnFields DEF TurnType
  <1>4. ASSUME NEW s \in DOMAIN turn[q].seen PROVE turn'[turn[q].seen[s].prog].pc = "over"
    <2>1. turn[q].seen[s].prog \in Programs
      BY <1>3, MapElements DEF Records
    <2> QED BY <2>1, <1>2 DEF Onward, Live, Working
  <1> QED BY <1>1, <1>2, <1>4

LEMMA LocksStay ==
    ASSUME Locks, tried \in SUBSET tried',
           \A q \in Programs : /\ Busy(q)' => Busy(q) /\ turn'[q].key = turn[q].key
                               /\ Restoring(q)' => Restoring(q),
           \A k \in Keys : mem'[k] # NoSession =>
               \/ mem[k] # NoSession
               \/ k \in tried /\ \E p \in Programs : Busy(p) /\ ~ Restoring(p)' /\ turn[p].key = k,
           \A q \in Programs : Restoring(q) => turn[q].key \in Keys
    PROVE  Locks'
  <1>1. ASSUME NEW q \in Programs, Restoring(q)'
        PROVE  /\ mem'[turn'[q].key] = NoSession
               /\ \A x \in Programs : x # q /\ Busy(x)' => turn'[x].key # turn'[q].key
    <2>1. Restoring(q) /\ turn[q].key \in Keys
      BY <1>1
    <2>2. Busy(q)'
      BY <1>1 DEF Busy, Restoring
    <2>3. turn'[q].key = turn[q].key
      BY <2>2
    <2>4. mem[turn[q].key] = NoSession /\ \A x \in Programs : x # q /\ Busy(x) => turn[x].key # turn[q].key
      BY <2>1 DEF Locks
    <2>5. mem'[turn[q].key] = NoSession
      BY <2>1, <2>4, <1>1
    <2> QED BY <2>3, <2>4, <2>5
  <1>2. \A k \in Keys : mem'[k] # NoSession => k \in tried'
    BY DEF Locks
  <1> QED BY <1>1, <1>2 DEF Locks

LEMMA MemHoldsStay ==
    ASSUME Onward, NEW k, NEW s, NEW r, r.prog \in Programs, MemHolds(k, s, r),
           turn'[r.prog].pc \in {"staged", "over"} =>
               turn[r.prog].pc \in {"staged", "over"} \/ r.stage \in EndStages,
           \A p \in Programs : Live(p)' => Live(p) \/ turn'[p].key # k \/ turn'[p].seq # s
    PROVE  MemHolds(k, s, r)'
  <1> DEFINE q == r.prog
  <1>1. /\ turn[q].pc \in Working \cup {"over"}
        /\ Live(q) => turn[q].key = k /\ turn[q].seq = s
        /\ turn[q].pc \in {"staged", "over"} =>
             \/ r.stage \in EndStages
             \/ /\ turn[q].pc = "over" /\ r.stage # "dispatched"
                /\ \A p \in Programs : Live(p) => turn[p].key # k \/ turn[p].seq # s
    BY DEF MemHolds
  <1>2. /\ turn'[q].pc \in Working \cup {"over"}
        /\ Live(q)' => Live(q) /\ turn'[q].key = turn[q].key /\ turn'[q].seq = turn[q].seq
    BY <1>1 DEF Onward
  <1>3. ASSUME turn'[q].pc \in {"staged", "over"}, r.stage \notin EndStages
        PROVE  /\ turn'[q].pc = "over" /\ r.stage # "dispatched"
               /\ \A p \in Programs : Live(p)' => turn'[p].key # k \/ turn'[p].seq # s
    <2>1. /\ turn[q].pc = "over" /\ r.stage # "dispatched"
          /\ \A p \in Programs : Live(p) => turn[p].key # k \/ turn[p].seq # s
      BY <1>1, <1>3
    <2>2. turn'[q].pc = "over"
      BY <2>1, <1>2 DEF Live, Working
    <2>3. ASSUME NEW p \in Programs, Live(p)' PROVE turn'[p].key # k \/ turn'[p].seq # s
      <3>1. CASE Live(p)
        <4>1. turn[p].pc \in Working \cup {"over"}
          BY <3>1 DEF Live
        <4>2. turn'[p].key = turn[p].key /\ turn'[p].seq = turn[p].seq
          BY <4>1, <2>3 DEF Onward
        <4> QED BY <3>1, <4>2, <2>1
      <3> QED BY <3>1, <2>3
    <2> QED BY <2>1, <2>2, <2>3
  <1> QED BY <1>1, <1>2, <1>3 DEF MemHolds

LEMMA MemoryStays ==
    ASSUME UNCHANGED <<mem, lru>>
    PROVE  (MemType => MemType') /\ (Order => Order') /\ (Sizes => Sizes')
  BY DEF MemType, Order, Sizes, Distinct, ToSet

LEMMA SetRecordIs ==
    ASSUME MemType, Order, Sizes, lru' = lru, NEW k \in Keys, NEW seq \in DOMAIN mem[k].recs,
           NEW record \in Records, SetRecord(k, seq, record)
    PROVE  /\ MemType' /\ Order' /\ Sizes'
           /\ mem[k] # NoSession /\ mem'[k] # NoSession
           /\ \A x \in Keys : x # k => mem'[x] = mem[x]
           /\ mem'[k].next = mem[k].next /\ DOMAIN mem'[k].recs = DOMAIN mem[k].recs
           /\ mem'[k].recs[seq] = record
           /\ \A s \in DOMAIN mem[k].recs : s # seq => mem'[k].recs[s] = mem[k].recs[s]
  <1>1. mem[k] \in Sessions /\ mem[k].recs \in RecordMaps /\ seq \in Nat
    BY MemFields
  <1>2. mem[k] # NoSession
    BY <1>1, SessionIsOne
  <1> DEFINE new == With(mem[k].recs, seq, record)
  <1>3. /\ new \in RecordMaps /\ DOMAIN new = DOMAIN mem[k].recs \cup {seq} /\ new[seq] = record
        /\ \A s \in DOMAIN mem[k].recs : s # seq => new[s] = mem[k].recs[s]
    BY <1>1, WithIs
  <1>4. mem' = [mem EXCEPT ![k] = [mem[k] EXCEPT !.recs = new]]
    BY DEF SetRecord
  <1> HIDE DEF new
  <1>5. /\ [mem[k] EXCEPT !.recs = new] \in Sessions
        /\ [mem[k] EXCEPT !.recs = new].recs = new
        /\ [mem[k] EXCEPT !.recs = new].next = mem[k].next
    BY <1>1, <1>3 DEF Sessions
  <1>6. mem'[k] = [mem[k] EXCEPT !.recs = new] /\ \A x \in Keys : x # k => mem'[x] = mem[x]
    BY <1>4 DEF MemType
  <1>7. MemType'
    BY <1>4, <1>5 DEF MemType
  <1>8. DOMAIN new = DOMAIN mem[k].recs
    BY <1>3
  <1>9. mem'[k] # NoSession
    BY <1>5, <1>6, SessionIsOne
  <1>10. Order'
    <2>1. \A x \in Keys : mem'[x] # NoSession <=> mem[x] # NoSession
      BY <1>2, <1>6, <1>9
    <2> QED BY <2>1 DEF Order, ToSet, Distinct
  <1>11. Sizes'
    BY <1>5, <1>6, <1>8 DEF Sizes
  <1> QED BY <1>2, <1>3, <1>5, <1>6, <1>7, <1>8, <1>9, <1>10, <1>11

LEMMA SizesPut ==
    ASSUME MemType, Order, Sizes, NEW k \in Keys, NEW session \in Sessions, Put(k, session),
           \A s \in DOMAIN session.recs : s < session.next,
           Cardinality(DOMAIN session.recs) <= MaxPrograms
    PROVE  Sizes'
  <1>1. mem'[k] = session /\ \A x \in Keys \ {k} : mem'[x] = mem[x] \/ mem'[x] = NoSession
    BY PutIs
  <1>2. DOMAIN NoSession.recs = {} /\ Cardinality(DOMAIN NoSession.recs) <= MaxPrograms
    <2>1. DOMAIN NoSession.recs = {}
      BY EmptyMap DEF NoSession
    <2> QED BY <2>1, FS_EmptySet, LimitsAssumption
  <1> QED BY <1>1, <1>2 DEF Sizes

(* --------------------------- reading a line more ---------------------------- *)

LEMMA LineIs ==
    /\ \A line \in Lines : /\ line.key \in Keys /\ line.seq \in Nat
                           /\ line.event \in {"program", "operation", "late", "stage"}
                           /\ line.event = "program" => line.value \in Programs
                           /\ line.event \in {"operation", "late"} => line.value \in Operations
                           /\ line.event = "stage" => line.value \in Main \cup Side
    /\ \A k \in Keys, s \in Nat :
           /\ \A p \in Programs : Line("program", k, s, p) \in Lines
           /\ \A o \in Operations : Line("operation", k, s, o) \in Lines /\ Line("late", k, s, o) \in Lines
           /\ \A g \in Main \cup Side : Line("stage", k, s, g) \in Lines
  BY DEF Lines, Line

LEMMA AbsorbIs ==
    ASSUME NEW recs \in RecordMaps, NEW line \in Lines
    PROVE  /\ Absorb(recs, line) \in RecordMaps
           /\ DOMAIN Absorb(recs, line) =
                 IF line.event = "program" THEN DOMAIN recs \cup {line.seq} ELSE DOMAIN recs
           /\ \A s \in DOMAIN recs : s # line.seq => Absorb(recs, line)[s] = recs[s]
           /\ line.event = "program" => Absorb(recs, line)[line.seq] = NewRecord(line.value)
           /\ line.event # "program" /\ line.seq \in DOMAIN recs =>
                 Absorb(recs, line)[line.seq] =
                    CASE line.event = "operation" -> [recs[line.seq] EXCEPT !.ops = @ \cup {line.value}]
                      [] line.event = "stage"     -> [recs[line.seq] EXCEPT !.stage = line.value]
                      [] line.event = "late"      -> [recs[line.seq] EXCEPT !.stage = "committed", !.late = TRUE]
  <1>1. line.seq \in Nat /\ DOMAIN recs \in SUBSET Nat /\ \A s \in DOMAIN recs : recs[s] \in Records
    BY LineIs, MapElements
  <1>2. CASE line.event = "program"
    <2>1. line.value \in Programs
      BY <1>2, LineIs
    <2>2. NewRecord(line.value) \in Records
      BY <2>1 DEF NewRecord, Records, Main
    <2>3. Absorb(recs, line) = With(recs, line.seq, NewRecord(line.value))
      BY <1>2 DEF Absorb
    <2>4. PICK seq \in Nat, rec \in Records : seq = line.seq /\ rec = NewRecord(line.value)
      BY <1>1, <2>2
    <2>5. /\ With(recs, seq, rec) \in RecordMaps
          /\ DOMAIN With(recs, seq, rec) = DOMAIN recs \cup {seq}
          /\ With(recs, seq, rec)[seq] = rec
          /\ \A s \in DOMAIN recs : s # seq => With(recs, seq, rec)[s] = recs[s]
      BY WithIs
    <2> QED BY <1>2, <2>3, <2>4, <2>5
  <1>3. CASE line.event # "program" /\ line.seq \notin DOMAIN recs
    <2>1. Absorb(recs, line) = recs
      BY <1>3 DEF Absorb
    <2> QED BY <1>3, <2>1
  <1>4. CASE line.event # "program" /\ line.seq \in DOMAIN recs
    <2> DEFINE new == CASE line.event = "operation" -> [recs[line.seq] EXCEPT !.ops = @ \cup {line.value}]
                        [] line.event = "stage"     -> [recs[line.seq] EXCEPT !.stage = line.value]
                        [] line.event = "late"      -> [recs[line.seq] EXCEPT !.stage = "committed", !.late = TRUE]
    <2>1. recs[line.seq] \in Records
      BY <1>1, <1>4
    <2>2. new \in Records
      <3>1. CASE line.event = "operation"
        <4>1. new = [recs[line.seq] EXCEPT !.ops = @ \cup {line.value}] /\ line.value \in Operations
          BY <3>1, LineIs
        <4> HIDE DEF new
        <4> QED BY <2>1, <4>1 DEF Records
      <3>2. CASE line.event = "stage"
        <4>1. new = [recs[line.seq] EXCEPT !.stage = line.value] /\ line.value \in Main \cup Side
          BY <3>2, LineIs
        <4> HIDE DEF new
        <4> QED BY <2>1, <4>1 DEF Records
      <3>3. CASE line.event = "late"
        <4>1. new = [recs[line.seq] EXCEPT !.stage = "committed", !.late = TRUE]
          BY <3>3
        <4> HIDE DEF new
        <4> QED BY <2>1, <4>1 DEF Records, Main
      <3>4. line.event \in {"operation", "late", "stage"}
        BY <1>4, LineIs
      <3> HIDE DEF new
      <3> QED BY <3>1, <3>2, <3>3, <3>4
    <2>3. Absorb(recs, line) = With(recs, line.seq, new)
      BY <1>4 DEF Absorb
    <2>4. DOMAIN recs \cup {line.seq} = DOMAIN recs
      BY <1>4
    <2> HIDE DEF new
    <2>5. /\ Absorb(recs, line) \in RecordMaps /\ DOMAIN Absorb(recs, line) = DOMAIN recs
          /\ Absorb(recs, line)[line.seq] = new
          /\ \A s \in DOMAIN recs : s # line.seq => Absorb(recs, line)[s] = recs[s]
      <3>1. PICK seq \in Nat, rec \in Records : seq = line.seq /\ rec = new
        BY <1>1, <2>2
      <3>2. /\ With(recs, seq, rec) \in RecordMaps
            /\ DOMAIN With(recs, seq, rec) = DOMAIN recs \cup {seq}
            /\ With(recs, seq, rec)[seq] = rec
            /\ \A s \in DOMAIN recs : s # seq => With(recs, seq, rec)[s] = recs[s]
        BY WithIs
      <3> QED BY <2>3, <2>4, <3>1, <3>2
    <2> QED BY <1>4, <2>5 DEF new
  <1> QED BY <1>2, <1>3, <1>4

Reading == [ok : BOOLEAN, recs : RecordMaps]

LEMMA ReadIs ==
    ASSUME NEW r \in Reading, Bounded(r.recs), NEW line \in Lines, NEW k
    PROVE  /\ Read(r, line, k) \in Reading /\ Bounded(Read(r, line, k).recs)
           /\ Read(r, line, k).ok => r.ok
           /\ line.key # k => Read(r, line, k) = r
           /\ line.key = k /\ Read(r, line, k).ok =>
                 Fits(r.recs, line) /\ Read(r, line, k).recs = Absorb(r.recs, line)
           /\ line.key = k /\ r.ok /\ Fits(r.recs, line) => Read(r, line, k).ok
           /\ \A s \in DOMAIN Read(r, line, k).recs :
                 \/ s \in DOMAIN r.recs /\ Read(r, line, k).recs[s].prog = r.recs[s].prog
                 \/ /\ line.event = "program" /\ line.key = k /\ s = line.seq
                    /\ Read(r, line, k).recs[s].prog = line.value
  <1>1. r.ok \in BOOLEAN /\ r.recs \in RecordMaps
    BY DEF Reading
  <1>2. CASE line.key # k
    <2>1. Read(r, line, k) = r
      BY <1>2 DEF Read
    <2> QED BY <1>1, <1>2, <2>1
  <1>3. CASE line.key = k /\ ~ (r.ok /\ Fits(r.recs, line))
    <2>1. Read(r, line, k) = [r EXCEPT !.ok = FALSE]
      BY <1>3 DEF Read
    <2>2. /\ Read(r, line, k) \in Reading
          /\ Read(r, line, k).ok = FALSE /\ Read(r, line, k).recs = r.recs
      BY <2>1 DEF Reading
    <2> QED BY <1>1, <1>3, <2>2
  <1>4. CASE line.key = k /\ r.ok /\ Fits(r.recs, line)
    <2> DEFINE new == Absorb(r.recs, line)
    <2>1. Read(r, line, k) = [r EXCEPT !.recs = new]
      BY <1>4 DEF Read
    <2>2. /\ new \in RecordMaps
          /\ DOMAIN new = IF line.event = "program" THEN DOMAIN r.recs \cup {line.seq} ELSE DOMAIN r.recs
          /\ \A s \in DOMAIN r.recs : s # line.seq => new[s] = r.recs[s]
          /\ line.event = "program" => new[line.seq] = NewRecord(line.value)
          /\ line.event # "program" /\ line.seq \in DOMAIN r.recs =>
                 new[line.seq] =
                    CASE line.event = "operation" -> [r.recs[line.seq] EXCEPT !.ops = @ \cup {line.value}]
                      [] line.event = "stage"     -> [r.recs[line.seq] EXCEPT !.stage = line.value]
                      [] line.event = "late"      -> [r.recs[line.seq] EXCEPT !.stage = "committed", !.late = TRUE]
      BY <1>1, AbsorbIs
    <2> HIDE DEF new
    <2>3. /\ Read(r, line, k) \in Reading /\ Read(r, line, k).ok = TRUE /\ Read(r, line, k).recs = new
      BY <1>4, <2>1, <2>2 DEF Reading
    <2>4. Bounded(new)
      <3>1. PICK n \in Nat : \A s \in DOMAIN r.recs : s < n
        BY DEF Bounded
      <3>2. line.seq \in Nat /\ DOMAIN r.recs \in SUBSET Nat
        BY <1>1, LineIs, MapElements
      <3>3. \A s \in DOMAIN new : s \in DOMAIN r.recs \/ s = line.seq
        BY <2>2
      <3>4. \A s \in DOMAIN new : s < n + line.seq + 1
        BY <3>1, <3>2, <3>3
      <3>5. n + line.seq + 1 \in Nat
        BY <3>2
      <3> QED BY <3>4, <3>5 DEF Bounded
    <2>5. ASSUME NEW s \in DOMAIN new
          PROVE  \/ s \in DOMAIN r.recs /\ new[s].prog = r.recs[s].prog
                 \/ line.event = "program" /\ s = line.seq /\ new[s].prog = line.value
      <3>1. CASE line.event = "program" /\ s = line.seq
        BY <3>1, <2>2 DEF NewRecord
      <3>2. CASE ~ (line.event = "program" /\ s = line.seq)
        <4>1. s \in DOMAIN r.recs
          BY <2>2, <3>2
        <4>2. CASE s # line.seq
          BY <4>1, <4>2, <2>2
        <4>3. CASE s = line.seq
          <5>1. line.event \in {"operation", "stage", "late"}
            BY <4>3, <3>2, LineIs
          <5>2. r.recs[s] \in Records
            BY <4>1, <1>1, MapElements
          <5>3. new[s] = CASE line.event = "operation" -> [r.recs[s] EXCEPT !.ops = @ \cup {line.value}]
                      [] line.event = "stage"     -> [r.recs[s] EXCEPT !.stage = line.value]
                      [] line.event = "late"      -> [r.recs[s] EXCEPT !.stage = "committed", !.late = TRUE]
            BY <4>1, <4>3, <5>1, <2>2
          <5>4. new[s].prog = r.recs[s].prog
            BY <5>1, <5>2, <5>3 DEF Records
          <5> QED BY <4>1, <5>4
        <4> QED BY <4>2, <4>3
      <3> QED BY <3>1, <3>2
    <2> QED BY <1>1, <1>4, <2>3, <2>4, <2>5 DEF new
  <1> QED BY <1>1, <1>2, <1>3, <1>4

LEMMA StoreHoldsStay ==
    ASSUME TurnType, Onward, NEW k, NEW r, StoreHolds(k, r)
    PROVE  StoreHolds(k, r)'
  <1>1. r.recs \in RecordMaps
    BY DEF StoreHolds
  <1>2. ASSUME NEW s \in DOMAIN r.recs
        PROVE  LET q == r.recs[s].prog
               IN turn'[q].pc \in Working \cup {"over"} /\ (Live(q)' => turn'[q].key = k)
    <2>1. PICK q \in Programs : q = r.recs[s].prog
      BY <1>1, MapElements DEF Records
    <2>2. turn[q].pc \in Working \cup {"over"} /\ (Live(q) => turn[q].key = k)
      BY <2>1 DEF StoreHolds
    <2>3. turn'[q].pc \in Working \cup {"over"} /\ (Live(q)' => turn'[q].key = k)
      BY <2>2 DEF Onward
    <2> QED BY <2>1, <2>3
  <1>3. r \in [ok : BOOLEAN, recs : RecordMaps] /\ Bounded(r.recs)
    BY DEF StoreHolds
  <1> QED BY <1>2, <1>3 DEF StoreHolds, Bounded, Live

\* What a write may leave in the store.
LEMMA WriteIs ==
    ASSUME LinesType, FlagTypes, NEW line \in Lines, Write(line)
    PROVE  /\ LinesType' /\ torn' \in BOOLEAN /\ lost' \in BOOLEAN
           /\ torn => torn'
           /\ lost => lost'
           /\ \/ store' = store /\ (lost' \/ torn)
              \/ ~ torn /\ store' = Append(store, line)
           /\ \A k \in Keys : \/ Replay(k)' = Replay(k)
                              \/ Replay(k)' = Read(Replay(k), line, k)
           /\ ~ lost' /\ ~ torn' => \A k \in Keys : Replay(k)' = Read(Replay(k), line, k)
  <1>1. PICK outcome \in WriteOutcomes :
           /\ store' = IF outcome = "written" /\ ~ torn THEN Append(store, line) ELSE store
           /\ torn' = (torn \/ outcome = "torn")
           /\ lost' = (lost \/ outcome # "written")
    BY DEF Write
  <1>2. torn \in BOOLEAN /\ lost \in BOOLEAN
    BY DEF FlagTypes
  <1>3. torn' \in BOOLEAN /\ lost' \in BOOLEAN /\ (torn => torn') /\ (lost => lost')
    BY <1>1, <1>2
  <1>4. CASE outcome = "written" /\ ~ torn
    <2>1. store' = Append(store, line)
      BY <1>1, <1>4
    <2>2. LinesType'
      BY <2>1, AppendProperties DEF LinesType
    <2>3. \A k \in Keys : ReplayOf(Append(store, line), k) = Read(ReplayOf(store, k), line, k)
      BY ReplayAppend DEF LinesType
    <2>4. \A k \in Keys : Replay(k)' = Read(Replay(k), line, k)
      BY <2>1, <2>3 DEF Replay
    <2> QED BY <1>3, <1>4, <2>1, <2>2, <2>4
  <1>5. CASE ~ (outcome = "written" /\ ~ torn)
    <2>1. store' = store
      BY <1>1, <1>5
    <2>2. LinesType' /\ \A k \in Keys : Replay(k)' = Replay(k)
      BY <2>1 DEF LinesType, Replay
    <2>3. lost' \/ torn
      BY <1>1, <1>5
    <2> QED BY <1>3, <2>1, <2>2, <2>3
  <1> QED BY <1>4, <1>5

LEMMA WriteKeeps ==
    ASSUME LinesType, FlagTypes, TurnType, StoreFacts, Onward, NEW line \in Lines, Write(line),
           line.event = "program" => /\ turn'[line.value].pc \in Working \cup {"over"}
                                     /\ Live(line.value)' => turn'[line.value].key = line.key
    PROVE  StoreFacts'
  <1> SUFFICES ASSUME NEW k \in Keys PROVE StoreHolds(k, Replay(k))'
    BY DEF StoreFacts
  <1>1. PICK r : r = Replay(k)
    OBVIOUS
  <1>2. StoreHolds(k, r)
    BY <1>1 DEF StoreFacts
  <1>3. StoreHolds(k, r)'
    BY <1>2, StoreHoldsStay
  <1>4. PICK t : t = Replay(k)'
    OBVIOUS
  <1>5. t = r \/ t = Read(r, line, k)
    BY <1>1, <1>4, WriteIs
  <1>6. r \in Reading /\ Bounded(r.recs)
    BY <1>2 DEF StoreHolds, Reading
  <1>7. StoreHolds(k, t)'
    <2>1. CASE t = r
      BY <2>1, <1>3
    <2>2. CASE t = Read(r, line, k)
      <3>1. /\ t \in Reading /\ Bounded(t.recs)
            /\ \A s \in DOMAIN t.recs :
                 \/ s \in DOMAIN r.recs /\ t.recs[s].prog = r.recs[s].prog
                 \/ line.event = "program" /\ line.key = k /\ s = line.seq /\ t.recs[s].prog = line.value
        BY <2>2, <1>6, ReadIs
      <3>2. ASSUME NEW s \in DOMAIN t.recs
            PROVE  LET q == t.recs[s].prog
                   IN turn'[q].pc \in Working \cup {"over"} /\ (Live(q)' => turn'[q].key = k)
        <4>1. CASE s \in DOMAIN r.recs /\ t.recs[s].prog = r.recs[s].prog
          BY <4>1, <1>3 DEF StoreHolds
        <4>2. CASE line.event = "program" /\ line.key = k /\ t.recs[s].prog = line.value
          BY <4>2
        <4> QED BY <3>1, <4>1, <4>2
      <3> QED BY <3>1, <3>2 DEF StoreHolds, Reading, Bounded, Live
    <2> QED BY <1>5, <2>1, <2>2
  <1> QED BY <1>4, <1>7 DEF StoreHolds, Bounded, Live

(* ------------------------- the steps of one turn ---------------------------- *)

LEMMA TurnFactsStay ==
    ASSUME TurnFacts, NEW p \in Programs, Acts(p), tried \in SUBSET tried', TurnHolds(p)'
    PROVE  TurnFacts'
  <1> SUFFICES ASSUME NEW q \in Programs PROVE TurnHolds(q)'
    BY DEF TurnFacts
  <1>1. CASE q = p
    BY <1>1
  <1>2. CASE q # p
    <2>1. turn'[q] = turn[q] /\ TurnHolds(q)
      BY <1>2 DEF Acts, TurnFacts
    <2> QED BY <2>1 DEF TurnHolds, Busy, Live, Current, FinalStage
  <1> QED BY <1>1, <1>2

LEMMA RestoringKey ==
    ASSUME TurnType, FlagTypes, TurnFacts
    PROVE  \A q \in Programs : Restoring(q) => turn[q].key \in Keys
  <1> SUFFICES ASSUME NEW q \in Programs, Restoring(q) PROVE turn[q].key \in Keys
    OBVIOUS
  <1>1. Busy(q)
    BY DEF Busy, Restoring
  <1> QED BY <1>1, BusyKey

LEMMA GoFrame ==
    ASSUME Base, NEW p \in Programs, Goes(p), tried' = tried,
           \A k \in Keys : mem'[k] # NoSession => mem[k] # NoSession \/ k = turn[p].key
    PROVE  /\ Onward /\ SeenFacts' /\ Locks'
           /\ store' = store => StoreFacts'
           /\ \A k, s : \A r \in Records :
                 MemHolds(k, s, r) /\ (r.prog # p \/ r.stage \in EndStages) => MemHolds(k, s, r)'
           /\ Works(p) => \A k, s : \A r \in Records : MemHolds(k, s, r) => MemHolds(k, s, r)'
  <1>1. Onward
    BY WorksOnward
  <1>2. TurnType /\ FlagTypes /\ TurnFacts /\ Locks /\ StoreFacts /\ SeenFacts
    BY DEF Base, Types
  <1>3. Live(p) /\ Busy(p) /\ ~ Restoring(p) /\ turn[p].key \in tried
    <2>1. Live(p) /\ Busy(p) /\ ~ Restoring(p)
      BY DEF Goes, Live, Busy, Working, Restoring
    <2> QED BY <2>1, <1>2 DEF TurnFacts, TurnHolds
  <1>4. turn'[p].pc \in Working \cup {"over"} /\ ~ Restoring(p)'
    BY DEF Goes, Working, Restoring
  <1>5. ASSUME NEW q \in Programs
        PROVE  /\ Busy(q)' => Busy(q) /\ turn'[q].key = turn[q].key
               /\ Restoring(q)' => Restoring(q)
               /\ turn'[q].pc = "raising" => turn[q].pc = "raising" /\ turn'[q].seen = turn[q].seen
               /\ q # p \/ Works(p) => (turn'[q].pc \in {"staged", "over"} => turn[q].pc \in {"staged", "over"})
               /\ Live(q)' => Live(q)
    <2>1. CASE q # p
      BY <2>1 DEF Goes, Acts, Busy, Restoring, Live
    <2>2. CASE q = p
      BY <2>2, <1>3, <1>4 DEF Works, Goes, Busy, Restoring, Live, Working
    <2> QED BY <2>1, <2>2
  <1>6. SeenFacts'
    BY <1>1, <1>2, <1>5, SeenFactsStay
  <1>7. Locks'
    BY <1>2, <1>3, <1>4, <1>5, RestoringKey, LocksStay
  <1>8. store' = store => StoreFacts'
    BY <1>1, <1>2, StoreFactsStay
  <1>9. ASSUME NEW k, NEW s, NEW r \in Records, MemHolds(k, s, r),
               r.prog # p \/ r.stage \in EndStages \/ Works(p)
        PROVE MemHolds(k, s, r)'
    <2>1. r.prog \in Programs
      BY DEF Records
    <2>2. turn'[r.prog].pc \in {"staged", "over"} =>
             turn[r.prog].pc \in {"staged", "over"} \/ r.stage \in EndStages
      BY <2>1, <1>5, <1>9
    <2> QED BY <2>1, <2>2, <1>1, <1>5, <1>9, MemHoldsStay
  <1> QED BY <1>1, <1>6, <1>7, <1>8, <1>9

LEMMA WorkFrame ==
    ASSUME Base, NEW p \in Programs, Works(p), tried' = tried,
           \A k \in Keys : mem'[k] # NoSession => mem[k] # NoSession \/ k = turn[p].key
    PROVE  /\ Onward /\ SeenFacts' /\ Locks'
           /\ store' = store => StoreFacts'
           /\ \A k, s : \A r \in Records : MemHolds(k, s, r) => MemHolds(k, s, r)'
  BY GoFrame DEF Works

LEMMA MemFactsFrom ==
    ASSUME MemFacts, MemType,
           \A k, s : \A r \in Records : MemHolds(k, s, r) => MemHolds(k, s, r)',
           mem' = mem
    PROVE  MemFacts'
  <1> SUFFICES ASSUME NEW k \in Keys, NEW s \in DOMAIN mem[k].recs
               PROVE  MemHolds(k, s, mem[k].recs[s])'
    BY DEF MemFacts
  <1>1. PICK r \in Records : r = mem[k].recs[s]
    BY MemFields
  <1>2. MemHolds(k, s, r)'
    BY <1>1 DEF MemFacts
  <1>3. mem'[k].recs[s] = r
    BY <1>1
  <1> QED BY <1>2, <1>3 DEF MemHolds, Live

\* A step of a turn at work that leaves memory and store alone.
LEMMA ThinkKeeps ==
    ASSUME Base, NEW p \in Programs, Works(p), TurnType', TurnHolds(p)', NativeType',
           UNCHANGED <<mem, lru, tried, store, torn, late, lost>>
    PROVE  Base'
  <1>1. /\ mem' = mem /\ lru' = lru /\ tried' = tried /\ store' = store /\ torn' = torn
        /\ late' = late /\ lost' = lost
    OBVIOUS
  <1>2. /\ Onward /\ SeenFacts' /\ Locks' /\ StoreFacts'
        /\ \A k, s : \A r \in Records : MemHolds(k, s, r) => MemHolds(k, s, r)'
    BY <1>1, WorkFrame
  <1>3. TurnFacts'
    <2>1. Acts(p) /\ TurnFacts
      BY DEF Works, Goes, Base
    <2> QED BY <1>1, <2>1, TurnFactsStay
  <1>4. MemFacts'
    BY <1>1, <1>2, MemFactsFrom DEF Base, Types
  <1>5. MemType' /\ Order' /\ Sizes'
    BY <1>1, MemoryStays DEF Base, Types
  <1>6. LinesType' /\ LateType' /\ FlagTypes'
    BY <1>1 DEF Base, Types, LinesType, LateType, FlagTypes
  <1> QED BY <1>2, <1>3, <1>4, <1>5, <1>6 DEF Base, Types

LEMMA NoneIsNoWord == None \notin Failed /\ None # "rejected"
  BY NoneAssumption DEF Failed, Side

LEMMA MoveIs ==
    ASSUME TurnType, NEW p \in Programs, NEW pc \in Before \cup Working, Move(p, pc)
    PROVE  /\ TurnType' /\ Acts(p)
           /\ turn'[p].pc = pc /\ turn'[p].line = None
           /\ turn'[p].key = turn[p].key /\ turn'[p].seq = turn[p].seq
           /\ turn'[p].n = turn[p].n /\ turn'[p].i = turn[p].i
           /\ turn'[p].seen = turn[p].seen /\ turn'[p].verdict = turn[p].verdict
  <1>1. PICK line \in Lines \cup {None} : line = None
    OBVIOUS
  <1>2. Say(p, pc, line)
    BY <1>1 DEF Move
  <1>3. /\ TurnType' /\ \A q \in Programs : q # p => turn'[q] = turn[q]
        /\ turn'[p].pc = pc /\ turn'[p].line = line
        /\ turn'[p].key = turn[p].key /\ turn'[p].seq = turn[p].seq
        /\ turn'[p].n = turn[p].n /\ turn'[p].i = turn[p].i
        /\ turn'[p].seen = turn[p].seen /\ turn'[p].verdict = turn[p].verdict
    BY <1>2, SayIs
  <1> QED BY <1>1, <1>3 DEF Acts

LEMMA TurnIs ==
    ASSUME TurnType, NEW p \in Programs, NEW t \in Turns, turn' = [turn EXCEPT ![p] = t]
    PROVE  TurnType' /\ turn'[p] = t /\ Acts(p)
  BY DEF TurnType, Acts

LEMMA EndIs ==
    ASSUME TurnType, NEW p \in Programs, NEW v \in Failed,
           turn' = [turn EXCEPT ![p].pc = "ending", ![p].verdict = v]
    PROVE  /\ TurnType' /\ Acts(p)
           /\ turn'[p].pc = "ending" /\ turn'[p].verdict = v
           /\ turn'[p].key = turn[p].key /\ turn'[p].seq = turn[p].seq
           /\ turn'[p].n = turn[p].n /\ turn'[p].i = turn[p].i
  <1>1. PICK x \in Turns : x = turn[p]
    BY DEF TurnType
  <1>2. PICK t : t = [x EXCEPT !.pc = "ending", !.verdict = v]
    OBVIOUS
  <1>3. turn' = [turn EXCEPT ![p] = t]
    BY <1>1, <1>2
  <1>4. t \in Turns
    BY <1>2 DEF Turns, Working
  <1>5. TurnType' /\ turn'[p] = t /\ Acts(p)
    BY <1>3, <1>4, TurnIs
  <1>6. /\ t.pc = "ending" /\ t.verdict = v
        /\ t.key = x.key /\ t.seq = x.seq /\ t.n = x.n /\ t.i = x.i
    BY <1>2 DEF Turns
  <1> QED BY <1>1, <1>5, <1>6

\* A turn that got no further in Revit comes to its end.
LEMMA EndKeeps ==
    ASSUME Base, NEW p \in Programs, turn[p].pc \in Working \ {"ending", "staged"}, NEW v \in Failed,
           turn' = [turn EXCEPT ![p].pc = "ending", ![p].verdict = v],
           UNCHANGED <<mem, lru, tried, store, torn, native, late, lost>>
    PROVE  Base'
  <1>1. TurnType /\ TurnHolds(p) /\ NativeType /\ turn[p] \in Turns
    BY DEF Base, Types, TurnFacts, TurnType
  <1>2. /\ TurnType' /\ Acts(p)
        /\ turn'[p].pc = "ending" /\ turn'[p].verdict = v
        /\ turn'[p].key = turn[p].key /\ turn'[p].seq = turn[p].seq
        /\ turn'[p].n = turn[p].n /\ turn'[p].i = turn[p].i
    BY <1>1, EndIs
  <1>3. Works(p)
    BY <1>2 DEF Works, Goes, Live, Working
  <1>4. TurnHolds(p)'
    <2>1. tried' = tried
      OBVIOUS
    <2>2. turn[p].i < turn[p].n /\ turn[p].i \in Nat /\ turn[p].n \in Nat
      BY <1>1, TurnFields DEF TurnHolds, Before, Working
    <2>3. v # None
      BY NoneIsNoWord
    <2>4. Busy(p) /\ Live(p)
      BY DEF Busy, Live, Working
    <2>5. turn[p].key \in tried /\ turn[p].seq \in Nat
      BY <1>1, <2>4 DEF TurnHolds
    <2> QED BY <1>2, <2>1, <2>2, <2>3, <2>5 DEF TurnHolds, Before, Working
  <1>5. NativeType'
    BY <1>1 DEF NativeType
  <1> QED BY <1>2, <1>3, <1>4, <1>5, ThinkKeeps

LEMMA SendChunkKeeps ==
    ASSUME Base, NEW p \in Programs, SendChunk(p)
    PROVE  Base'
  <1>1. /\ turn[p].pc = "sending"
        /\ UNCHANGED <<mem, lru, tried, store, torn, late, lost>>
    BY DEF SendChunk
  <1>2. TurnType /\ TurnHolds(p) /\ NativeType
    BY DEF Base, Types, TurnFacts
  <1>3. CASE native' = [native EXCEPT ![Current(p)] = "running"] /\ Move(p, "waiting")
    <2>1. /\ TurnType' /\ Acts(p)
          /\ turn'[p].pc = "waiting" /\ turn'[p].line = None
          /\ turn'[p].key = turn[p].key /\ turn'[p].seq = turn[p].seq
          /\ turn'[p].n = turn[p].n /\ turn'[p].i = turn[p].i
          /\ turn'[p].seen = turn[p].seen /\ turn'[p].verdict = turn[p].verdict
      <3>1. "waiting" \in Before \cup Working
        BY DEF Working
      <3> QED BY <1>2, <1>3, <3>1, MoveIs
    <2>2. Works(p)
      BY <1>1, <2>1 DEF Works, Goes, Live, Working
    <2>3. TurnHolds(p)'
      <3>1. tried' = tried
        BY <1>1
      <3> QED BY <1>1, <1>2, <2>1, <3>1 DEF TurnHolds, Busy, Live, Before, Working
    <2>4. NativeType'
      BY <1>2, <1>3 DEF NativeType
    <2> QED BY <1>1, <2>1, <2>2, <2>3, <2>4, ThinkKeeps
  <1>4. CASE /\ turn' = [turn EXCEPT ![p].pc = "ending", ![p].verdict = "refused_pre_effect"]
             /\ UNCHANGED native
    <2>1. PICK v \in Failed : v = "refused_pre_effect"
      BY DEF Failed
    <2>2. turn[p].pc \in Working \ {"ending", "staged"}
      BY <1>1 DEF Working
    <2> QED BY <1>1, <1>4, <2>1, <2>2, EndKeeps
  <1> QED BY <1>3, <1>4 DEF SendChunk

LEMMA StopEarlyKeeps ==
    ASSUME Base, NEW p \in Programs, StopEarly(p)
    PROVE  Base'
  <1>1. PICK v \in Failed : v = "refused_pre_effect"
    BY DEF Failed
  <1>2. turn[p].pc \in Working \ {"ending", "staged"}
    BY DEF StopEarly, Working
  <1> QED BY <1>1, <1>2, EndKeeps DEF StopEarly

LEMMA AnswerKeeps ==
    ASSUME Base, NEW p \in Programs, Answer(p)
    PROVE  Base'
  <1>1. /\ turn[p].pc = "waiting" /\ turn[p].pc \in Working \ {"ending", "staged"}
        /\ UNCHANGED <<mem, lru, tried, store, torn, native, late, lost>>
    BY DEF Answer, Working
  <1>2. TurnType /\ TurnHolds(p) /\ NativeType /\ turn[p] \in Turns
    BY DEF Base, Types, TurnFacts, TurnType
  <1>3. ASSUME NEW v \in Failed, turn' = [turn EXCEPT ![p].pc = "ending", ![p].verdict = v]
        PROVE  Base'
    BY <1>1, <1>3, EndKeeps
  <1>4. ASSUME NEW accepted \in BOOLEAN,
               turn' = [turn EXCEPT ![p].i = @ + 1,
                                    ![p].verdict = IF accepted THEN None ELSE "rejected",
                                    ![p].pc = IF accepted /\ turn[p].i + 1 < turn[p].n
                                              THEN "binding" ELSE "ending"]
        PROVE  Base'
    <2>1. PICK x \in Turns : x = turn[p]
      BY <1>2
    <2>2. PICK pc \in {"binding", "ending"}, v \in {None, "rejected"}, i \in Nat :
             /\ pc = (IF accepted /\ x.i + 1 < x.n THEN "binding" ELSE "ending")
             /\ v = (IF accepted THEN None ELSE "rejected") /\ i = x.i + 1
      BY TurnFields
    <2>3. PICK t : t = [x EXCEPT !.i = i, !.verdict = v, !.pc = pc]
      OBVIOUS
    <2>4. turn' = [turn EXCEPT ![p] = t]
      BY <1>4, <2>1, <2>2, <2>3
    <2>5. /\ t \in Turns /\ t.pc = pc /\ t.verdict = v /\ t.i = i
          /\ t.key = x.key /\ t.seq = x.seq /\ t.n = x.n
      <3>1. t.pc = pc /\ t.verdict = v /\ t.i = i /\ t.key = x.key /\ t.seq = x.seq /\ t.n = x.n
        BY <2>3 DEF Turns
      <3>2. pc \in Before \cup Working \cup {"over"} /\ v \in Failed \cup {"rejected", None}
        BY DEF Working
      <3>3. t \in Turns
        BY <2>3, <3>2 DEF Turns
      <3> QED BY <3>1, <3>3
    <2>6. TurnType' /\ turn'[p] = t /\ Acts(p)
      BY <1>2, <2>4, <2>5, TurnIs
    <2>7. Works(p)
      BY <1>1, <2>1, <2>2, <2>5, <2>6 DEF Works, Goes, Live, Working
    <2>8. TurnHolds(p)'
      <3>1. x.i < x.n /\ x.i \in Nat /\ x.n \in Nat
        BY <1>1, <1>2, <2>1, TurnFields DEF TurnHolds, Before, Working
      <3>2. Busy(p) /\ Live(p)
        BY <1>1 DEF Busy, Live, Working
      <3>3. x.key \in tried' /\ x.seq \in Nat
        BY <1>1, <1>2, <2>1, <3>2 DEF TurnHolds
      <3>4. i <= x.n /\ i # 0
        BY <2>2, <3>1
      <3>5. pc = "binding" => i < x.n /\ v = None
        BY <2>2
      <3>6. pc = "ending" /\ v = None => i = x.n
        BY <2>2, <3>1, NoneIsNoWord
      <3> QED BY <2>2, <2>5, <2>6, <3>3, <3>4, <3>5, <3>6 DEF TurnHolds, Before, Working
    <2>9. NativeType'
      BY <1>1, <1>2 DEF NativeType
    <2> QED BY <1>1, <2>6, <2>7, <2>8, <2>9, ThinkKeeps
  <1>5. "rolled_back" \in Failed /\ "running_unknown" \in Failed
    BY DEF Failed
  <1> QED BY <1>3, <1>4, <1>5 DEF Answer

LEMMA FinalStageIs ==
    ASSUME TurnType, NEW p \in Programs, TurnHolds(p), turn[p].pc \in {"ending", "staged"}
    PROVE  FinalStage(p) \in EndStages /\ FinalStage(p) \in Main \cup Side
  <1>1. turn[p].i \in Nat /\ (turn[p].i = 0 => turn[p].verdict \in Failed)
    BY TurnFields DEF TurnType, TurnHolds
  <1>2. CASE turn[p].i = 0
    <2>1. FinalStage(p) = turn[p].verdict
      BY <1>2 DEF FinalStage
    <2> QED BY <1>1, <1>2, <2>1 DEF Failed, EndStages, Side
  <1>3. CASE turn[p].i # 0
    <2>1. turn[p].i > 0
      BY <1>1, <1>3
    <2>2. FinalStage(p) = "committed_partial" \/ FinalStage(p) = "committed"
      BY <1>3, <2>1 DEF FinalStage
    <2> QED BY <2>2 DEF EndStages, Side, Built, Main
  <1> QED BY <1>2, <1>3

LEMMA CurrentIs ==
    ASSUME TurnType, NEW p \in Programs, turn[p].i < turn[p].n
    PROVE  Current(p) \in Operations
  <1>1. turn[p].i \in Nat /\ turn[p].n \in 1 .. MaxChunks /\ MaxChunks \in Nat
    BY TurnFields, LimitsAssumption DEF TurnType
  <1>2. turn[p].i + 1 \in 1 .. MaxChunks
    BY <1>1
  <1> QED BY <1>2 DEF Current, Operations

\* The line a turn has yet to write.
LEMMA LineOf ==
    ASSUME Base, NEW p \in Programs, turn[p].pc \in {"storing", "bound", "marked", "staged"}
    PROVE  /\ turn[p].line \in Lines
           /\ turn[p].key \in Keys /\ turn[p].seq \in Nat
           /\ turn[p].line.key = turn[p].key /\ turn[p].line.seq = turn[p].seq
           /\ turn[p].line.event = IF turn[p].pc = "storing" THEN "program"
                                   ELSE IF turn[p].pc = "bound" THEN "operation" ELSE "stage"
           /\ turn[p].pc = "storing" => turn[p].line.value = p
           /\ turn[p].pc = "bound" => turn[p].line.value = Current(p)
           /\ turn[p].pc = "marked" => turn[p].line.value = "dispatched"
           /\ turn[p].pc = "staged" => turn[p].line.value = FinalStage(p)
  <1>1. TurnType /\ TurnFacts /\ TurnHolds(p) /\ FlagTypes
    BY DEF Base, Types, TurnFacts
  <1>2. Busy(p) /\ Live(p)
    BY DEF Busy, Live, Working
  <1>3. PICK k \in Keys, s \in Nat : k = turn[p].key /\ s = turn[p].seq
    BY <1>1, <1>2, BusyKey
  <1>4. CASE turn[p].pc = "storing"
    <2>1. turn[p].line = Line("program", k, s, p)
      BY <1>1, <1>3, <1>4 DEF TurnHolds
    <2> QED BY <1>3, <1>4, <2>1, LineIs DEF Line
  <1>5. CASE turn[p].pc = "bound"
    <2>1. turn[p].line = Line("operation", k, s, Current(p))
      BY <1>1, <1>3, <1>5 DEF TurnHolds
    <2>2. Current(p) \in Operations
      BY <1>1, <1>5, CurrentIs DEF TurnHolds, Working, Before
    <2>3. Line("operation", k, s, Current(p)) \in Lines
      BY <2>2, LineIs
    <2> QED BY <1>3, <1>5, <2>1, <2>3 DEF Line
  <1>6. CASE turn[p].pc = "marked"
    <2>1. turn[p].line = Line("stage", k, s, "dispatched")
      BY <1>1, <1>3, <1>6 DEF TurnHolds
    <2>2. "dispatched" \in Main \cup Side
      BY DEF Main
    <2>3. Line("stage", k, s, "dispatched") \in Lines
      BY <2>2, LineIs
    <2> QED BY <1>3, <1>6, <2>1, <2>3 DEF Line
  <1>7. CASE turn[p].pc = "staged"
    <2>1. turn[p].line = Line("stage", k, s, FinalStage(p))
      BY <1>1, <1>3, <1>7 DEF TurnHolds
    <2>2. FinalStage(p) \in Main \cup Side
      BY <1>1, <1>7, FinalStageIs
    <2>3. Line("stage", k, s, FinalStage(p)) \in Lines
      BY <2>2, LineIs
    <2> QED BY <1>3, <1>7, <2>1, <2>3 DEF Line
  <1> QED BY <1>4, <1>5, <1>6, <1>7

\* Where a write leaves the turn.
LEMMA AfterWrite ==
    ASSUME Base, NEW p \in Programs, WriteLine(p)
    PROVE  /\ turn[p].pc \in {"storing", "bound", "marked", "staged"}
           /\ Write(turn[p].line)
           /\ TurnType' /\ Acts(p) /\ Works(p) /\ TurnHolds(p)'
           /\ turn[p].pc # "staged" =>
                 /\ turn'[p].pc = IF turn[p].pc = "storing" THEN "binding"
                                  ELSE IF turn[p].pc = "bound" THEN "marking" ELSE "sending"
                 /\ turn'[p].key = turn[p].key /\ turn'[p].seq = turn[p].seq
                 /\ turn'[p].i = turn[p].i /\ turn'[p].verdict = turn[p].verdict
           /\ turn[p].pc = "staged" => turn'[p].pc = "over"
           /\ turn'[p].line = None /\ turn'[p].n = turn[p].n
  <1>1. TurnType /\ TurnHolds(p)
    BY DEF Base, Types, TurnFacts
  <1>2. turn[p].pc \in {"storing", "bound", "marked", "staged"} /\ Write(turn[p].line) /\ tried' = tried
    BY DEF WriteLine, AfterWriting
  <1>3. Busy(p) /\ Live(p)
    BY <1>2 DEF Busy, Live, Working
  <1>4. CASE turn[p].pc # "staged"
    <2>1. PICK pc \in Before \cup Working :
             pc = IF turn[p].pc = "storing" THEN "binding"
                  ELSE IF turn[p].pc = "bound" THEN "marking" ELSE "sending"
      BY DEF Working
    <2>2. Move(p, pc)
      BY <1>2, <1>4, <2>1 DEF WriteLine, Move, AfterWriting
    <2>3. /\ TurnType' /\ Acts(p)
          /\ turn'[p].pc = pc /\ turn'[p].line = None
          /\ turn'[p].key = turn[p].key /\ turn'[p].seq = turn[p].seq
          /\ turn'[p].n = turn[p].n /\ turn'[p].i = turn[p].i
          /\ turn'[p].seen = turn[p].seen /\ turn'[p].verdict = turn[p].verdict
      BY <1>1, <2>2, MoveIs
    <2>4. pc \in {"binding", "marking", "sending"}
      BY <1>2, <1>4, <2>1
    <2>5. Works(p)
      BY <1>3, <2>3, <2>4 DEF Works, Goes, Working
    <2>6. turn[p].key \in tried /\ turn[p].seq \in Nat /\ turn[p].i < turn[p].n /\ turn[p].verdict = None
      BY <1>1, <1>2, <1>3, <1>4 DEF TurnHolds, Working, Before
    <2>7. TurnHolds(p)'
      BY <1>2, <2>3, <2>4, <2>6 DEF TurnHolds, Working, Before
    <2> QED BY <1>2, <1>4, <2>1, <2>3, <2>5, <2>7
  <1>5. CASE turn[p].pc = "staged"
    <2>1. Say(p, "over", None)
      BY <1>5 DEF WriteLine, AfterWriting
    <2>2. /\ TurnType' /\ Acts(p)
          /\ turn'[p].pc = "over" /\ turn'[p].n = turn[p].n /\ turn'[p].line = None
      BY <1>1, <2>1, SayOver DEF Acts
    <2>3. Works(p)
      BY <1>3, <1>5, <2>2 DEF Works, Goes, Live, Working
    <2>4. TurnHolds(p)'
      BY <2>2 DEF TurnHolds, Busy, Live, Working, Before
    <2> QED BY <1>2, <1>5, <2>2, <2>3, <2>4
  <1> QED BY <1>4, <1>5

LEMMA WriteLineKeeps ==
    ASSUME Base, NEW p \in Programs, WriteLine(p)
    PROVE  Base'
  <1>1. UNCHANGED <<mem, lru, tried, native, late>>
    BY DEF WriteLine
  <1>2. TurnType /\ TurnFacts /\ LinesType /\ FlagTypes /\ StoreFacts
    BY DEF Base, Types
  <1>3. /\ turn[p].pc \in {"storing", "bound", "marked", "staged"}
        /\ Write(turn[p].line) /\ TurnType' /\ Acts(p) /\ Works(p) /\ TurnHolds(p)'
        /\ turn[p].pc = "storing" => turn'[p].pc = "binding" /\ turn'[p].key = turn[p].key
    BY AfterWrite
  <1>4. PICK line \in Lines : line = turn[p].line
    BY <1>3, LineOf
  <1>5. line.event = "program" => line.value = p /\ turn[p].pc = "storing" /\ line.key = turn[p].key
    BY <1>3, <1>4, LineOf
  <1>6. /\ Onward /\ SeenFacts' /\ Locks'
        /\ \A k, s : \A r \in Records : MemHolds(k, s, r) => MemHolds(k, s, r)'
    BY <1>1, <1>3, WorkFrame
  <1>7. StoreFacts'
    <2>1. line.event = "program" => /\ turn'[line.value].pc \in Working \cup {"over"}
                                    /\ Live(line.value)' => turn'[line.value].key = line.key
      BY <1>3, <1>5 DEF Working
    <2> QED BY <1>2, <1>3, <1>4, <1>6, <2>1, WriteKeeps
  <1>8. LinesType' /\ torn' \in BOOLEAN /\ lost' \in BOOLEAN
    BY <1>2, <1>3, <1>4, WriteIs
  <1>9. TurnFacts'
    BY <1>1, <1>2, <1>3, TurnFactsStay
  <1>10. MemFacts'
    BY <1>1, <1>6, MemFactsFrom DEF Base, Types
  <1>11. MemType' /\ Order' /\ Sizes'
    BY <1>1, MemoryStays DEF Base, Types
  <1>12. LateType' /\ NativeType' /\ tried' \in SUBSET Keys
    BY <1>1 DEF Base, Types, LateType, NativeType, FlagTypes
  <1> QED BY <1>3, <1>6, <1>7, <1>8, <1>9, <1>10, <1>11, <1>12 DEF Base, Types, FlagTypes

LEMMA MemFactsSet ==
    ASSUME MemFacts, MemType, NEW k \in Keys, NEW seq \in DOMAIN mem[k].recs, NEW record \in Records,
           \A x \in Keys : x # k => mem'[x] = mem[x],
           DOMAIN mem'[k].recs = DOMAIN mem[k].recs,
           mem'[k].recs[seq] = record,
           \A s \in DOMAIN mem[k].recs : s # seq => mem'[k].recs[s] = mem[k].recs[s],
           \A x, s : \A r \in Records : MemHolds(x, s, r) /\ (x # k \/ s # seq) => MemHolds(x, s, r)',
           MemHolds(k, seq, record)'
    PROVE  MemFacts'
  <1> SUFFICES ASSUME NEW x \in Keys, NEW s \in DOMAIN mem'[x].recs
               PROVE  MemHolds(x, s, mem[x].recs[s])'
    BY DEF MemFacts
  <1>1. CASE x = k /\ s = seq
    BY <1>1 DEF MemHolds, Live
  <1>2. CASE ~ (x = k /\ s = seq)
    <2>1. s \in DOMAIN mem[x].recs /\ mem'[x].recs[s] = mem[x].recs[s]
      BY <1>2
    <2>2. PICK r \in Records : r = mem[x].recs[s]
      BY <2>1, MemFields
    <2>3. MemHolds(x, s, r)
      BY <2>1, <2>2 DEF MemFacts
    <2>4. MemHolds(x, s, r)'
      BY <1>2, <2>3
    <2> QED BY <2>1, <2>2, <2>4 DEF MemHolds, Live
  <1> QED BY <1>1, <1>2

\* A step of a turn at work that puts its record anew.
LEMMA PutRecordKeeps ==
    ASSUME Base, NEW p \in Programs, Goes(p), TurnType', TurnHolds(p)',
           NEW k \in Keys, k = turn[p].key, NEW seq \in DOMAIN mem[k].recs, seq = turn[p].seq,
           NEW record \in Records, SetRecord(k, seq, record), MemHolds(k, seq, record)',
           UNCHANGED <<lru, tried, store, torn, native, late, lost>>
    PROVE  Base'
  <1>1. /\ MemType /\ Order /\ Sizes /\ MemFacts /\ TurnFacts /\ LinesType /\ LateType
        /\ NativeType /\ FlagTypes
    BY DEF Base, Types
  <1>2. /\ MemType' /\ Order' /\ Sizes'
        /\ mem[k] # NoSession /\ mem'[k] # NoSession
        /\ \A x \in Keys : x # k => mem'[x] = mem[x]
        /\ DOMAIN mem'[k].recs = DOMAIN mem[k].recs
        /\ mem'[k].recs[seq] = record
        /\ \A s \in DOMAIN mem[k].recs : s # seq => mem'[k].recs[s] = mem[k].recs[s]
    BY <1>1, SetRecordIs
  <1>3. /\ Onward /\ SeenFacts' /\ Locks' /\ StoreFacts'
        /\ \A x, s : \A r \in Records :
              MemHolds(x, s, r) /\ (r.prog # p \/ r.stage \in EndStages) => MemHolds(x, s, r)'
    BY <1>2, GoFrame
  <1>4. MemFacts'
    <2>1. ASSUME NEW x, NEW s, NEW r \in Records, MemHolds(x, s, r), x # k \/ s # seq
          PROVE  MemHolds(x, s, r)'
      <3>1. Live(p)
        BY DEF Goes
      <3>2. r.prog # p
        BY <3>1, <2>1 DEF MemHolds
      <3> QED BY <1>3, <2>1, <3>2
    <2> QED BY <1>1, <1>2, <2>1, MemFactsSet
  <1>5. TurnFacts'
    BY <1>1, TurnFactsStay DEF Goes
  <1>6. LinesType' /\ LateType' /\ NativeType' /\ FlagTypes'
    BY <1>1 DEF LinesType, LateType, NativeType, FlagTypes
  <1> QED BY <1>2, <1>3, <1>4, <1>5, <1>6 DEF Base, Types

\* A record with an end may have any prog's turn behind it.
LEMMA EndedHolds ==
    ASSUME Onward, NEW k, NEW s, NEW r \in Records, MemHolds(k, s, r),
           NEW record \in Records, record.prog = r.prog, record.stage \in EndStages
    PROVE  MemHolds(k, s, record)'
  <1>1. PICK q \in Programs : q = r.prog
    BY DEF Records
  <1>2. turn[q].pc \in Working \cup {"over"} /\ (Live(q) => turn[q].key = k /\ turn[q].seq = s)
    BY <1>1 DEF MemHolds
  <1>3. turn'[q].pc \in Working \cup {"over"} /\ (Live(q)' => turn'[q].key = k /\ turn'[q].seq = s)
    BY <1>2 DEF Onward
  <1> QED BY <1>1, <1>3 DEF MemHolds, Live

\* What a turn does to its record, and where it is then.
LEMMA BindIs ==
    ASSUME Base, NEW p \in Programs, Bind(p)
    PROVE  /\ turn[p].pc = "binding" /\ Live(p) /\ turn[p].key \in Keys /\ turn[p].seq \in Nat
           /\ Current(p) \in Operations
           /\ TurnType' /\ Acts(p) /\ Works(p) /\ Goes(p) /\ TurnHolds(p)'
           /\ turn'[p].key = turn[p].key /\ turn'[p].seq = turn[p].seq
           /\ turn'[p].n = turn[p].n /\ turn'[p].i = turn[p].i /\ turn'[p].verdict = turn[p].verdict
           /\ \/ /\ CanBind(turn[p].key, turn[p].seq, Current(p))
                 /\ turn'[p].pc = "bound"
                 /\ turn'[p].line = Line("operation", turn[p].key, turn[p].seq, Current(p))
                 /\ SetRecord(turn[p].key, turn[p].seq,
                       [mem[turn[p].key].recs[turn[p].seq] EXCEPT !.ops = @ \cup {Current(p)}])
              \/ turn'[p].pc = "sending" /\ turn'[p].line = None /\ mem' = mem
  <1>1. /\ turn[p].pc = "binding" /\ Live(p) /\ Busy(p)
        /\ tried' = tried
    BY DEF Bind, Live, Busy, Working
  <1>2. TurnType /\ TurnHolds(p) /\ FlagTypes /\ TurnFacts
    BY DEF Base, Types, TurnFacts
  <1>3. PICK k \in Keys, seq \in Nat : k = turn[p].key /\ seq = turn[p].seq
    BY <1>1, <1>2, BusyKey
  <1>4. /\ turn[p].i < turn[p].n /\ turn[p].verdict = None /\ k \in tried
        /\ Current(p) \in Operations
    <2>1. turn[p].i < turn[p].n /\ turn[p].verdict = None /\ k \in tried
      BY <1>1, <1>2, <1>3 DEF TurnHolds, Working, Before
    <2> QED BY <1>2, <2>1, CurrentIs
  <1>5. CASE CanBind(k, seq, Current(p))
    <2>1. /\ SetRecord(k, seq, [mem[k].recs[seq] EXCEPT !.ops = @ \cup {Current(p)}])
          /\ Say(p, "bound", Line("operation", k, seq, Current(p)))
      BY <1>3, <1>5 DEF Bind
    <2>2. PICK pc \in Before \cup Working, line \in Lines \cup {None} :
             pc = "bound" /\ line = Line("operation", k, seq, Current(p))
      BY <1>4, LineIs DEF Working
    <2>3. /\ TurnType' /\ \A q \in Programs : q # p => turn'[q] = turn[q]
          /\ turn'[p].pc = pc /\ turn'[p].line = line
          /\ turn'[p].key = turn[p].key /\ turn'[p].seq = turn[p].seq
          /\ turn'[p].n = turn[p].n /\ turn'[p].i = turn[p].i
          /\ turn'[p].verdict = turn[p].verdict
      <3>1. Say(p, pc, line)
        BY <2>1, <2>2
      <3> QED BY <1>2, <3>1, SayIs
    <2>4. Works(p) /\ Goes(p) /\ Acts(p)
      BY <1>1, <2>2, <2>3 DEF Works, Goes, Acts, Working
    <2>5. TurnHolds(p)'
      <3>1. Current(p)' = Current(p)
        BY <2>3 DEF Current
      <3> QED BY <1>1, <1>3, <1>4, <2>2, <2>3, <3>1 DEF TurnHolds, Working, Before
    <2> QED BY <1>1, <1>3, <1>4, <1>5, <2>1, <2>2, <2>3, <2>4, <2>5
  <1>6. CASE ~ CanBind(k, seq, Current(p))
    <2>1. Move(p, "sending") /\ mem' = mem
      BY <1>3, <1>6 DEF Bind
    <2>2. /\ TurnType' /\ Acts(p)
          /\ turn'[p].pc = "sending" /\ turn'[p].line = None
          /\ turn'[p].key = turn[p].key /\ turn'[p].seq = turn[p].seq
          /\ turn'[p].n = turn[p].n /\ turn'[p].i = turn[p].i
          /\ turn'[p].seen = turn[p].seen /\ turn'[p].verdict = turn[p].verdict
      <3>1. "sending" \in Before \cup Working
        BY DEF Working
      <3> QED BY <1>2, <2>1, <3>1, MoveIs
    <2>3. Works(p) /\ Goes(p)
      BY <1>1, <2>2 DEF Works, Goes, Live, Working
    <2>4. TurnHolds(p)'
      BY <1>1, <1>3, <1>4, <2>2 DEF TurnHolds, Working, Before
    <2> QED BY <1>1, <1>3, <1>4, <2>1, <2>2, <2>3, <2>4
  <1> QED BY <1>5, <1>6

LEMMA BindKeeps ==
    ASSUME Base, NEW p \in Programs, Bind(p)
    PROVE  Base'
  <1>1. /\ turn[p].pc = "binding" /\ Live(p) /\ TurnType' /\ Works(p) /\ Goes(p) /\ TurnHolds(p)'
        /\ Current(p) \in Operations
        /\ UNCHANGED <<lru, tried, store, torn, native, late, lost>>
    BY BindIs DEF Bind
  <1>2. NativeType /\ MemType /\ MemFacts
    BY DEF Base, Types
  <1>3. PICK k \in Keys, seq \in Nat : k = turn[p].key /\ seq = turn[p].seq
    BY BindIs
  <1>4. CASE /\ CanBind(k, seq, Current(p))
             /\ SetRecord(k, seq, [mem[k].recs[seq] EXCEPT !.ops = @ \cup {Current(p)}])
    <2>1. seq \in DOMAIN mem[k].recs
      BY <1>4 DEF CanBind, InMemory
    <2>2. PICK r \in Records : r = mem[k].recs[seq]
      BY <2>1, <1>2, MemFields
    <2>3. PICK record : record = [r EXCEPT !.ops = @ \cup {Current(p)}]
      OBVIOUS
    <2>4. record \in Records /\ record.prog = r.prog /\ record.stage = r.stage
      BY <1>1, <2>3 DEF Records
    <2>5. SetRecord(k, seq, record)
      BY <1>4, <2>2, <2>3
    <2>6. MemHolds(k, seq, record)'
      <3>1. MemHolds(k, seq, r)
        BY <1>2, <2>1, <2>2 DEF MemFacts
      <3>2. MemHolds(k, seq, record)
        BY <2>4, <3>1 DEF MemHolds
      <3>3. turn'[record.prog].pc \in {"staged", "over"} => turn[record.prog].pc \in {"staged", "over"}
        BY <1>1, <2>4 DEF Works, Goes, Acts, Records
      <3>4. \A q \in Programs : Live(q)' => Live(q)
        BY <1>1 DEF Goes, Acts, Live
      <3> QED BY <1>1, <2>4, <3>2, <3>3, <3>4, MemHoldsStay, WorksOnward DEF Records
    <2> QED BY <1>1, <1>3, <2>1, <2>4, <2>5, <2>6, PutRecordKeeps
  <1>5. CASE mem' = mem
    <2>1. NativeType'
      BY <1>1, <1>2 DEF NativeType
    <2> QED BY <1>1, <1>5, <2>1, ThinkKeeps
  <1> QED BY <1>3, <1>4, <1>5, BindIs

\* What moves a record, when it can, and where the turn is then.
LEMMA AdvanceIs ==
    ASSUME TurnType, NEW p \in Programs, turn[p].pc \in {"marking", "ending"},
           NEW k \in Keys, k = turn[p].key, NEW seq \in Nat, seq = turn[p].seq,
           NEW stage \in Main \cup Side, NEW done \in {"marked", "staged"},
           NEW skipped \in {"sending", "over"}, Advance(p, stage, done, skipped)
    PROVE  /\ TurnType' /\ Acts(p) /\ Goes(p) /\ turn'[p].n = turn[p].n
           /\ turn'[p].pc # "over" =>
                 /\ turn'[p].key = k /\ turn'[p].seq = seq
                 /\ turn'[p].i = turn[p].i /\ turn'[p].verdict = turn[p].verdict
           /\ \/ /\ CanAdvance(k, seq, stage)
                 /\ turn'[p].pc = done /\ turn'[p].line = Line("stage", k, seq, stage)
                 /\ SetRecord(k, seq, [mem[k].recs[seq] EXCEPT !.stage = stage])
              \/ /\ ~ CanAdvance(k, seq, stage)
                 /\ turn'[p].pc = skipped /\ turn'[p].line = None /\ mem' = mem
  <1>1. Live(p)
    BY DEF Live, Working
  <1>2. CASE CanAdvance(k, seq, stage)
    <2>1. /\ SetRecord(k, seq, [mem[k].recs[seq] EXCEPT !.stage = stage])
          /\ Say(p, done, Line("stage", k, seq, stage))
      BY <1>2 DEF Advance
    <2>2. PICK pc \in Before \cup Working, line \in Lines \cup {None} :
             pc = done /\ line = Line("stage", k, seq, stage)
      BY LineIs DEF Working
    <2>3. /\ TurnType' /\ \A q \in Programs : q # p => turn'[q] = turn[q]
          /\ turn'[p].pc = pc /\ turn'[p].line = line
          /\ turn'[p].key = turn[p].key /\ turn'[p].seq = turn[p].seq
          /\ turn'[p].n = turn[p].n /\ turn'[p].i = turn[p].i
          /\ turn'[p].verdict = turn[p].verdict
      <3>1. Say(p, pc, line)
        BY <2>1, <2>2
      <3> QED BY <3>1, SayIs
    <2>4. Goes(p) /\ Acts(p)
      BY <1>1, <2>2, <2>3 DEF Goes, Acts, Working
    <2> QED BY <1>2, <2>1, <2>2, <2>3, <2>4
  <1>3. CASE ~ CanAdvance(k, seq, stage) /\ skipped = "sending"
    <2>1. Move(p, "sending") /\ mem' = mem
      BY <1>3 DEF Advance
    <2>2. /\ TurnType' /\ Acts(p)
          /\ turn'[p].pc = "sending" /\ turn'[p].line = None
          /\ turn'[p].key = turn[p].key /\ turn'[p].seq = turn[p].seq
          /\ turn'[p].n = turn[p].n /\ turn'[p].i = turn[p].i
          /\ turn'[p].seen = turn[p].seen /\ turn'[p].verdict = turn[p].verdict
      <3>1. "sending" \in Before \cup Working
        BY DEF Working
      <3> QED BY <2>1, <3>1, MoveIs
    <2>3. Goes(p)
      BY <1>1, <2>2 DEF Goes, Working
    <2> QED BY <1>3, <2>1, <2>2, <2>3
  <1>4. CASE ~ CanAdvance(k, seq, stage) /\ skipped = "over"
    <2>1. Say(p, "over", None) /\ mem' = mem
      BY <1>4 DEF Advance, Move
    <2>2. /\ TurnType' /\ Acts(p)
          /\ turn'[p].pc = "over" /\ turn'[p].n = turn[p].n /\ turn'[p].line = None
      BY <2>1, SayOver DEF Acts
    <2>3. Goes(p)
      BY <1>1, <2>2 DEF Goes, Live, Working
    <2> QED BY <1>4, <2>1, <2>2, <2>3
  <1> QED BY <1>2, <1>3, <1>4

LEMMA MarkIs ==
    ASSUME Base, NEW p \in Programs, MarkDispatched(p)
    PROVE  /\ turn[p].pc = "marking" /\ Live(p) /\ turn[p].key \in Keys /\ turn[p].seq \in Nat
           /\ TurnType' /\ Acts(p) /\ Works(p) /\ Goes(p) /\ TurnHolds(p)'
           /\ turn'[p].key = turn[p].key /\ turn'[p].seq = turn[p].seq
           /\ turn'[p].n = turn[p].n /\ turn'[p].i = turn[p].i /\ turn'[p].verdict = turn[p].verdict
           /\ \/ /\ CanAdvance(turn[p].key, turn[p].seq, "dispatched")
                 /\ turn'[p].pc = "marked"
                 /\ turn'[p].line = Line("stage", turn[p].key, turn[p].seq, "dispatched")
                 /\ SetRecord(turn[p].key, turn[p].seq,
                       [mem[turn[p].key].recs[turn[p].seq] EXCEPT !.stage = "dispatched"])
              \/ turn'[p].pc = "sending" /\ turn'[p].line = None /\ mem' = mem
  <1>1. /\ turn[p].pc = "marking" /\ Live(p) /\ Busy(p) /\ tried' = tried
        /\ Advance(p, "dispatched", "marked", "sending")
    BY DEF MarkDispatched, Live, Busy, Working
  <1>2. TurnType /\ TurnHolds(p) /\ FlagTypes /\ TurnFacts
    BY DEF Base, Types, TurnFacts
  <1>3. PICK k \in Keys, seq \in Nat : k = turn[p].key /\ seq = turn[p].seq
    BY <1>1, <1>2, BusyKey
  <1>4. turn[p].i < turn[p].n /\ turn[p].verdict = None /\ k \in tried
    BY <1>1, <1>2, <1>3 DEF TurnHolds, Working, Before
  <1>5. PICK stage \in Main \cup Side, done \in {"marked", "staged"}, skipped \in {"sending", "over"} :
           stage = "dispatched" /\ done = "marked" /\ skipped = "sending"
    BY DEF Main
  <1>6. Advance(p, stage, done, skipped)
    BY <1>1, <1>5
  <1>7. /\ TurnType' /\ Acts(p) /\ Goes(p) /\ turn'[p].n = turn[p].n
        /\ turn'[p].pc # "over" =>
              /\ turn'[p].key = k /\ turn'[p].seq = seq
              /\ turn'[p].i = turn[p].i /\ turn'[p].verdict = turn[p].verdict
        /\ \/ /\ CanAdvance(k, seq, stage)
              /\ turn'[p].pc = done /\ turn'[p].line = Line("stage", k, seq, stage)
              /\ SetRecord(k, seq, [mem[k].recs[seq] EXCEPT !.stage = stage])
           \/ /\ ~ CanAdvance(k, seq, stage)
              /\ turn'[p].pc = skipped /\ turn'[p].line = None /\ mem' = mem
    <2>1. turn[p].pc \in {"marking", "ending"} /\ TurnType
      BY <1>1, <1>2
    <2> QED BY SMTT(30), <1>3, <1>6, <2>1, AdvanceIs
  <1>8. turn'[p].pc \in {"marked", "sending"} /\ Works(p)
    BY <1>5, <1>7 DEF Works
  <1>9. TurnHolds(p)'
    BY <1>1, <1>3, <1>4, <1>5, <1>7, <1>8 DEF TurnHolds, Working, Before
  <1> QED BY <1>1, <1>3, <1>5, <1>7, <1>8, <1>9

LEMMA MarkDispatchedKeeps ==
    ASSUME Base, NEW p \in Programs, MarkDispatched(p)
    PROVE  Base'
  <1>1. /\ Live(p) /\ TurnType' /\ Works(p) /\ Goes(p) /\ TurnHolds(p)'
        /\ UNCHANGED <<lru, tried, store, torn, native, late, lost>>
    BY MarkIs DEF MarkDispatched
  <1>2. NativeType /\ MemType /\ MemFacts
    BY DEF Base, Types
  <1>3. PICK k \in Keys, seq \in Nat : k = turn[p].key /\ seq = turn[p].seq
    BY MarkIs
  <1>4. CASE /\ CanAdvance(k, seq, "dispatched")
             /\ SetRecord(k, seq, [mem[k].recs[seq] EXCEPT !.stage = "dispatched"])
    <2>1. seq \in DOMAIN mem[k].recs /\ Forward(mem[k].recs[seq].stage, "dispatched")
      BY <1>4 DEF CanAdvance, InMemory
    <2>2. PICK r \in Records : r = mem[k].recs[seq]
      BY <2>1, <1>2, MemFields
    <2>3. PICK record : record = [r EXCEPT !.stage = "dispatched"]
      OBVIOUS
    <2>4. record \in Records /\ record.prog = r.prog /\ record.stage = "dispatched"
      BY <2>3 DEF Records, Main
    <2>5. SetRecord(k, seq, record)
      BY <1>4, <2>2, <2>3
    <2>6. MemHolds(k, seq, record)'
      <3>1. MemHolds(k, seq, r)
        BY <1>2, <2>1, <2>2 DEF MemFacts
      <3>2. r.stage \notin EndStages
        BY <2>1, <2>2 DEF Forward, EndStages, Built, Main, Rank
      <3>3. PICK q \in Programs : q = r.prog
        BY DEF Records
      <3>4. turn[q].pc \notin {"staged", "over"}
        BY <1>1, <1>3, <3>1, <3>2, <3>3 DEF MemHolds
      <3>5. turn'[q].pc \notin {"staged", "over"}
        BY <1>1, <3>4 DEF Works, Goes, Acts
      <3>6. turn[q].pc \in Working \cup {"over"} /\ (Live(q) => turn[q].key = k /\ turn[q].seq = seq)
        BY <3>1, <3>3 DEF MemHolds
      <3>7. turn'[q].pc \in Working \cup {"over"} /\ (Live(q)' => turn'[q].key = k /\ turn'[q].seq = seq)
        BY <1>1, <3>6, WorksOnward DEF Onward
      <3> QED BY <2>4, <3>3, <3>5, <3>7 DEF MemHolds, Live
    <2> QED BY <1>1, <1>3, <2>1, <2>4, <2>5, <2>6, PutRecordKeeps
  <1>5. CASE mem' = mem
    <2>1. NativeType'
      BY <1>1, <1>2 DEF NativeType
    <2> QED BY <1>1, <1>5, <2>1, ThinkKeeps
  <1> QED BY <1>3, <1>4, <1>5, MarkIs

LEMMA StageIs ==
    ASSUME Base, NEW p \in Programs, Stage(p)
    PROVE  /\ turn[p].pc = "ending" /\ Live(p) /\ turn[p].key \in Keys /\ turn[p].seq \in Nat
           /\ FinalStage(p) \in EndStages /\ FinalStage(p) \in Main \cup Side
           /\ TurnType' /\ Acts(p) /\ Goes(p) /\ TurnHolds(p)'
           /\ turn'[p].n = turn[p].n
           /\ \/ /\ CanAdvance(turn[p].key, turn[p].seq, FinalStage(p))
                 /\ turn'[p].pc = "staged"
                 /\ turn'[p].line = Line("stage", turn[p].key, turn[p].seq, FinalStage(p))
                 /\ turn'[p].key = turn[p].key /\ turn'[p].seq = turn[p].seq
                 /\ turn'[p].i = turn[p].i /\ turn'[p].verdict = turn[p].verdict
                 /\ SetRecord(turn[p].key, turn[p].seq,
                       [mem[turn[p].key].recs[turn[p].seq] EXCEPT !.stage = FinalStage(p)])
              \/ /\ ~ CanAdvance(turn[p].key, turn[p].seq, FinalStage(p))
                 /\ turn'[p].pc = "over" /\ turn'[p].line = None /\ mem' = mem
  <1>1. /\ turn[p].pc = "ending" /\ Live(p) /\ Busy(p) /\ tried' = tried
        /\ Advance(p, FinalStage(p), "staged", "over")
    BY DEF Stage, Live, Busy, Working
  <1>2. TurnType /\ TurnHolds(p) /\ FlagTypes /\ TurnFacts
    BY DEF Base, Types, TurnFacts
  <1>3. PICK k \in Keys, seq \in Nat : k = turn[p].key /\ seq = turn[p].seq
    BY <1>1, <1>2, BusyKey
  <1>4. /\ turn[p].i <= turn[p].n
        /\ turn[p].i = 0 => turn[p].verdict \in Failed
        /\ turn[p].verdict = None => turn[p].i = turn[p].n
        /\ k \in tried
    BY <1>1, <1>2, <1>3 DEF TurnHolds
  <1>5. FinalStage(p) \in EndStages /\ FinalStage(p) \in Main \cup Side
    BY <1>1, <1>2, FinalStageIs
  <1>6. PICK stage \in Main \cup Side, done \in {"marked", "staged"}, skipped \in {"sending", "over"} :
           stage = FinalStage(p) /\ done = "staged" /\ skipped = "over"
    BY <1>5
  <1>7. Advance(p, stage, done, skipped)
    BY <1>1, <1>6
  <1>8. /\ TurnType' /\ Acts(p) /\ Goes(p) /\ turn'[p].n = turn[p].n
        /\ turn'[p].pc # "over" =>
              /\ turn'[p].key = k /\ turn'[p].seq = seq
              /\ turn'[p].i = turn[p].i /\ turn'[p].verdict = turn[p].verdict
        /\ \/ /\ CanAdvance(k, seq, stage)
              /\ turn'[p].pc = done /\ turn'[p].line = Line("stage", k, seq, stage)
              /\ SetRecord(k, seq, [mem[k].recs[seq] EXCEPT !.stage = stage])
           \/ /\ ~ CanAdvance(k, seq, stage)
              /\ turn'[p].pc = skipped /\ turn'[p].line = None /\ mem' = mem
    <2>1. turn[p].pc \in {"marking", "ending"} /\ TurnType
      BY <1>1, <1>2
    <2> QED BY SMTT(30), <1>3, <1>7, <2>1, AdvanceIs
  <1>9. TurnHolds(p)'
    <2>1. CASE turn'[p].pc = "over"
      BY <2>1 DEF TurnHolds, Busy, Live, Working, Before
    <2>2. CASE turn'[p].pc = "staged" /\ turn'[p].line = Line("stage", k, seq, stage)
      <3>1. FinalStage(p)' = FinalStage(p)
        BY <1>8, <2>2 DEF FinalStage
      <3> QED BY <1>1, <1>3, <1>4, <1>6, <1>8, <2>2, <3>1 DEF TurnHolds, Working, Before
    <2> QED BY <1>6, <1>8, <2>1, <2>2
  <1> QED BY <1>1, <1>3, <1>5, <1>6, <1>8, <1>9

LEMMA StageKeeps ==
    ASSUME Base, NEW p \in Programs, Stage(p)
    PROVE  Base'
  <1>1. /\ Live(p) /\ TurnType' /\ Acts(p) /\ Goes(p) /\ TurnHolds(p)'
        /\ FinalStage(p) \in EndStages /\ FinalStage(p) \in Main \cup Side
        /\ UNCHANGED <<lru, tried, store, torn, native, late, lost>>
    BY StageIs DEF Stage
  <1>2. /\ MemType /\ Order /\ Sizes /\ MemFacts /\ TurnFacts /\ LinesType /\ LateType
        /\ NativeType /\ FlagTypes
    BY DEF Base, Types
  <1>3. PICK k \in Keys, seq \in Nat : k = turn[p].key /\ seq = turn[p].seq
    BY StageIs
  <1>4. CASE /\ CanAdvance(k, seq, FinalStage(p))
             /\ SetRecord(k, seq, [mem[k].recs[seq] EXCEPT !.stage = FinalStage(p)])
    <2>1. seq \in DOMAIN mem[k].recs
      BY <1>4 DEF CanAdvance, InMemory
    <2>2. PICK r \in Records : r = mem[k].recs[seq]
      BY <2>1, <1>2, MemFields
    <2>3. PICK record : record = [r EXCEPT !.stage = FinalStage(p)]
      OBVIOUS
    <2>4. record \in Records /\ record.prog = r.prog /\ record.stage \in EndStages
      BY <1>1, <2>3 DEF Records
    <2>5. SetRecord(k, seq, record)
      BY <1>4, <2>2, <2>3
    <2>6. MemHolds(k, seq, r)
      BY <1>2, <2>1, <2>2 DEF MemFacts
    <2>7. MemHolds(k, seq, record)'
      BY <1>1, <2>4, <2>6, EndedHolds, WorksOnward
    <2> QED BY <1>1, <1>3, <2>1, <2>4, <2>5, <2>7, PutRecordKeeps
  <1>5. CASE ~ CanAdvance(k, seq, FinalStage(p)) /\ mem' = mem
    <2>1. mem' = mem /\ lru' = lru /\ tried' = tried /\ store' = store
      BY <1>1, <1>5
    <2>2. /\ Onward /\ SeenFacts' /\ Locks' /\ StoreFacts'
          /\ \A x, s : \A r \in Records :
                MemHolds(x, s, r) /\ (r.prog # p \/ r.stage \in EndStages) => MemHolds(x, s, r)'
      BY <1>1, <2>1, GoFrame
    <2>3. MemFacts'
      <3> SUFFICES ASSUME NEW x \in Keys, NEW s \in DOMAIN mem[x].recs
                   PROVE  MemHolds(x, s, mem[x].recs[s])'
        BY <2>1 DEF MemFacts
      <3>1. PICK r \in Records : r = mem[x].recs[s]
        BY <1>2, MemFields
      <3>2. MemHolds(x, s, r)
        BY <1>2, <3>1 DEF MemFacts
      <3>3. r.prog # p \/ r.stage \in EndStages
        <4> SUFFICES ASSUME r.prog = p PROVE r.stage \in EndStages
          OBVIOUS
        <4>1. x = k /\ s = seq
          BY <1>1, <1>3, <3>2 DEF MemHolds
        <4>2. ~ Forward(r.stage, FinalStage(p))
          BY <1>5, <3>1, <4>1 DEF CanAdvance, InMemory
        <4>3. r.stage \in Main \cup Side
          BY DEF Records
        <4> QED BY <1>1, <4>2, <4>3 DEF Forward, EndStages, Built, Main, Side, Rank
      <3>4. MemHolds(x, s, r)'
        BY <2>2, <3>2, <3>3
      <3>5. mem'[x].recs[s] = r
        BY <2>1, <3>1
      <3> QED BY <3>4, <3>5 DEF MemHolds, Live
    <2>4. MemType' /\ Order' /\ Sizes'
      BY <1>2, <2>1, MemoryStays
    <2>5. TurnFacts'
      BY <1>1, <1>2, TurnFactsStay
    <2>6. LinesType' /\ LateType' /\ NativeType' /\ FlagTypes'
      BY <1>1, <1>2 DEF LinesType, LateType, NativeType, FlagTypes
    <2> QED BY <1>1, <2>2, <2>3, <2>4, <2>5, <2>6 DEF Base, Types
  <1> QED BY <1>3, <1>4, <1>5, StageIs

(* ----------------------- the steps beside the turns -------------------------- *)

LEMMA StandFrame ==
    ASSUME Base, turn' = turn, tried' = tried,
           \A k \in Keys : mem'[k] # NoSession =>
               \/ mem[k] # NoSession
               \/ \E p \in Programs : Busy(p) /\ ~ Restoring(p) /\ turn[p].key = k
    PROVE  /\ Onward /\ TurnType' /\ TurnFacts' /\ SeenFacts' /\ Locks'
           /\ store' = store => StoreFacts'
           /\ \A k, s : \A r \in Records : MemHolds(k, s, r) => MemHolds(k, s, r)'
  <1>1. Onward
    BY StandsOnward
  <1>2. TurnType /\ FlagTypes /\ TurnFacts /\ Locks /\ StoreFacts /\ SeenFacts
    BY DEF Base, Types
  <1>3. TurnType'
    BY <1>2 DEF TurnType
  <1>4. TurnFacts'
    <2> SUFFICES ASSUME NEW q \in Programs PROVE TurnHolds(q)'
      BY DEF TurnFacts
    <2>1. TurnHolds(q)
      BY <1>2 DEF TurnFacts
    <2> QED BY <2>1 DEF TurnHolds, Busy, Live, Current, FinalStage
  <1>5. ASSUME NEW q \in Programs
        PROVE  /\ Busy(q)' => Busy(q) /\ turn'[q].key = turn[q].key
               /\ Restoring(q)' <=> Restoring(q)
               /\ turn'[q].pc = "raising" => turn[q].pc = "raising" /\ turn'[q].seen = turn[q].seen
               /\ Live(q)' => Live(q)
    BY DEF Busy, Restoring, Live
  <1>6. SeenFacts'
    BY <1>1, <1>2, <1>5, SeenFactsStay
  <1>7. Locks'
    <2>1. ASSUME NEW k \in Keys, mem'[k] # NoSession
          PROVE  \/ mem[k] # NoSession
                 \/ k \in tried /\ \E p \in Programs : Busy(p) /\ ~ Restoring(p)' /\ turn[p].key = k
      <3>1. CASE mem[k] = NoSession
        <4>1. PICK p \in Programs : Busy(p) /\ ~ Restoring(p) /\ turn[p].key = k
          BY <2>1, <3>1
        <4>2. k \in tried
          BY <4>1, <1>2 DEF TurnFacts, TurnHolds
        <4> QED BY <4>1, <4>2, <1>5
      <3> QED BY <3>1
    <2> QED BY <1>2, <1>5, <2>1, RestoringKey, LocksStay
  <1>8. store' = store => StoreFacts'
    BY <1>1, <1>2, StoreFactsStay
  <1>9. ASSUME NEW k, NEW s, NEW r \in Records, MemHolds(k, s, r) PROVE MemHolds(k, s, r)'
    <2>1. r.prog \in Programs
      BY DEF Records
    <2> QED BY <2>1, <1>1, <1>5, <1>9, MemHoldsStay
  <1> QED BY <1>1, <1>3, <1>4, <1>6, <1>7, <1>8, <1>9

LEMMA StutterKeeps ==
    ASSUME Base, UNCHANGED liveVars
    PROVE  Base'
  <1>1. /\ mem' = mem /\ lru' = lru /\ tried' = tried /\ store' = store /\ torn' = torn
        /\ turn' = turn /\ native' = native /\ late' = late /\ lost' = lost
    BY DEF liveVars
  <1>2. /\ TurnType' /\ TurnFacts' /\ SeenFacts' /\ Locks' /\ StoreFacts'
        /\ \A k, s : \A r \in Records : MemHolds(k, s, r) => MemHolds(k, s, r)'
    BY <1>1, StandFrame
  <1>3. MemFacts'
    BY <1>1, <1>2, MemFactsFrom DEF Base, Types
  <1>4. MemType' /\ Order' /\ Sizes'
    BY <1>1, MemoryStays DEF Base, Types
  <1>5. LinesType' /\ LateType' /\ FlagTypes' /\ NativeType'
    BY <1>1 DEF Base, Types, LinesType, LateType, FlagTypes, NativeType
  <1> QED BY <1>2, <1>3, <1>4, <1>5 DEF Base, Types

LEMMA FinishKeeps ==
    ASSUME Base, NEW o \in Operations, Finish(o)
    PROVE  Base'
  <1>1. /\ mem' = mem /\ lru' = lru /\ tried' = tried /\ store' = store /\ torn' = torn
        /\ turn' = turn /\ late' = late /\ lost' = lost
    BY DEF Finish
  <1>2. /\ TurnType' /\ TurnFacts' /\ SeenFacts' /\ Locks' /\ StoreFacts'
        /\ \A k, s : \A r \in Records : MemHolds(k, s, r) => MemHolds(k, s, r)'
    BY <1>1, StandFrame
  <1>3. MemFacts'
    BY <1>1, <1>2, MemFactsFrom DEF Base, Types
  <1>4. MemType' /\ Order' /\ Sizes'
    BY <1>1, MemoryStays DEF Base, Types
  <1>5. LinesType' /\ LateType' /\ FlagTypes'
    BY <1>1 DEF Base, Types, LinesType, LateType, FlagTypes
  <1>6. NativeType'
    BY DEF Base, Types, NativeType, Finish
  <1> QED BY <1>2, <1>3, <1>4, <1>5, <1>6 DEF Base, Types

LEMMA LateLine ==
    ASSUME LateType, NEW o \in Operations, late[o] # None
    PROVE  /\ late[o] \in Lines /\ late[o].event = "late" /\ late[o].value = o
           /\ late[o].key \in Keys /\ late[o].seq \in Nat
  <1>1. late[o] \in Lines /\ late[o] = Line("late", late[o].key, late[o].seq, o)
    BY DEF LateType
  <1> QED BY <1>1, LineIs DEF Line

LEMMA ReconcileIs ==
    ASSUME Base, NEW o \in Operations, Reconcile(o)
    PROVE  \E k \in Keys : \E s \in DOMAIN mem[k].recs :
              /\ Reconcilable(k, s, o) /\ native[o] = "committed"
              /\ [mem[k].recs[s] EXCEPT !.stage = "committed", !.late = TRUE] \in Records
              /\ SetRecord(k, s, [mem[k].recs[s] EXCEPT !.stage = "committed", !.late = TRUE])
              /\ late' = [late EXCEPT ![o] = Line("late", k, s, o)]
              /\ s \in Nat /\ reconciled' = reconciled \cup {k}
              /\ UNCHANGED <<lru, tried, store, torn, turn, native, lost, evicted>>
  <1>1. PICK k \in Keys : mem[k] # NoSession /\ \E s \in DOMAIN mem[k].recs :
           /\ Reconcilable(k, s, o)
           /\ SetRecord(k, s, [mem[k].recs[s] EXCEPT !.stage = "committed", !.late = TRUE])
           /\ late' = [late EXCEPT ![o] = Line("late", k, s, o)]
           /\ reconciled' = reconciled \cup {k}
    BY DEF Reconcile
  <1>2. PICK s \in DOMAIN mem[k].recs :
           /\ Reconcilable(k, s, o)
           /\ SetRecord(k, s, [mem[k].recs[s] EXCEPT !.stage = "committed", !.late = TRUE])
           /\ late' = [late EXCEPT ![o] = Line("late", k, s, o)]
           /\ reconciled' = reconciled \cup {k}
    BY <1>1
  <1>3. mem[k].recs[s] \in Records /\ s \in Nat
    BY MemFields DEF Base, Types
  <1>4. [mem[k].recs[s] EXCEPT !.stage = "committed", !.late = TRUE] \in Records
    BY <1>3 DEF Records, Main
  <1>5. native[o] = "committed" /\ UNCHANGED <<lru, tried, store, torn, turn, native, lost, evicted>>
    BY DEF Reconcile
  <1> QED BY <1>2, <1>3, <1>4, <1>5

LEMMA ReconcileKeeps ==
    ASSUME Base, NEW o \in Operations, Reconcile(o)
    PROVE  Base'
  <1>1. PICK k \in Keys : \E s \in DOMAIN mem[k].recs :
              /\ Reconcilable(k, s, o)
              /\ [mem[k].recs[s] EXCEPT !.stage = "committed", !.late = TRUE] \in Records
              /\ SetRecord(k, s, [mem[k].recs[s] EXCEPT !.stage = "committed", !.late = TRUE])
              /\ late' = [late EXCEPT ![o] = Line("late", k, s, o)] /\ s \in Nat
    BY ReconcileIs
  <1>2. PICK s \in DOMAIN mem[k].recs :
              /\ [mem[k].recs[s] EXCEPT !.stage = "committed", !.late = TRUE] \in Records
              /\ SetRecord(k, s, [mem[k].recs[s] EXCEPT !.stage = "committed", !.late = TRUE])
              /\ late' = [late EXCEPT ![o] = Line("late", k, s, o)] /\ s \in Nat
    BY <1>1
  <1>3. /\ lru' = lru /\ tried' = tried /\ store' = store /\ torn' = torn
        /\ turn' = turn /\ native' = native /\ lost' = lost
    BY DEF Reconcile
  <1>4. /\ MemType /\ Order /\ Sizes /\ MemFacts /\ LinesType /\ LateType
        /\ NativeType /\ FlagTypes
    BY DEF Base, Types
  <1>5. PICK r \in Records : r = mem[k].recs[s]
    BY <1>4, MemFields
  <1>6. PICK record \in Records : record = [r EXCEPT !.stage = "committed", !.late = TRUE]
    BY <1>2, <1>5
  <1>7. record.prog = r.prog /\ record.stage \in EndStages
    BY <1>6 DEF Records, EndStages, Built
  <1>8. SetRecord(k, s, record)
    BY <1>2, <1>5, <1>6
  <1>9. /\ MemType' /\ Order' /\ Sizes'
        /\ mem[k] # NoSession /\ mem'[k] # NoSession
        /\ \A x \in Keys : x # k => mem'[x] = mem[x]
        /\ DOMAIN mem'[k].recs = DOMAIN mem[k].recs
        /\ mem'[k].recs[s] = record
        /\ \A t \in DOMAIN mem[k].recs : t # s => mem'[k].recs[t] = mem[k].recs[t]
    BY <1>3, <1>4, <1>8, SetRecordIs
  <1>10. /\ Onward /\ TurnType' /\ TurnFacts' /\ SeenFacts' /\ Locks' /\ StoreFacts'
         /\ \A x, t : \A y \in Records : MemHolds(x, t, y) => MemHolds(x, t, y)'
    BY <1>3, <1>9, StandFrame
  <1>11. MemFacts'
    <2>1. MemHolds(k, s, r)
      BY <1>4, <1>5 DEF MemFacts
    <2>2. MemHolds(k, s, record)'
      BY <1>7, <1>10, <2>1, EndedHolds
    <2> QED BY <1>4, <1>9, <1>10, <2>2, MemFactsSet
  <1>12. LateType'
    <2>1. PICK line \in Lines : line = Line("late", k, s, o)
      BY <1>2, LineIs
    <2>2. line = Line("late", line.key, line.seq, o)
      BY <2>1 DEF Line
    <2>3. late' = [late EXCEPT ![o] = line]
      BY <1>2, <2>1
    <2> QED BY <1>4, <2>2, <2>3 DEF LateType
  <1>13. LinesType' /\ FlagTypes' /\ NativeType'
    BY <1>3, <1>4 DEF LinesType, FlagTypes, NativeType
  <1> QED BY <1>9, <1>10, <1>11, <1>12, <1>13 DEF Base, Types

LEMMA WriteLateKeeps ==
    ASSUME Base, NEW o \in Operations, WriteLate(o)
    PROVE  Base'
  <1>1. /\ mem' = mem /\ lru' = lru /\ tried' = tried /\ turn' = turn /\ native' = native
        /\ late[o] # None /\ Write(late[o]) /\ late' = [late EXCEPT ![o] = None]
    BY DEF WriteLate
  <1>2. /\ TurnType /\ LinesType /\ FlagTypes /\ StoreFacts /\ LateType
    BY DEF Base, Types
  <1>3. PICK line \in Lines : line = late[o] /\ line.event = "late"
    BY <1>1, <1>2, LateLine
  <1>4. /\ Onward /\ TurnType' /\ TurnFacts' /\ SeenFacts' /\ Locks'
        /\ \A k, s : \A r \in Records : MemHolds(k, s, r) => MemHolds(k, s, r)'
    BY <1>1, StandFrame
  <1>5. StoreFacts'
    BY <1>1, <1>2, <1>3, <1>4, WriteKeeps
  <1>6. LinesType' /\ torn' \in BOOLEAN /\ lost' \in BOOLEAN
    BY <1>1, <1>2, <1>3, WriteIs
  <1>7. MemFacts'
    BY <1>1, <1>4, MemFactsFrom DEF Base, Types
  <1>8. MemType' /\ Order' /\ Sizes'
    BY <1>1, MemoryStays DEF Base, Types
  <1>9. LateType'
    BY <1>1, <1>2 DEF LateType
  <1>10. NativeType' /\ tried' \in SUBSET Keys
    BY <1>1 DEF Base, Types, NativeType, FlagTypes
  <1> QED BY <1>4, <1>5, <1>6, <1>7, <1>8, <1>9, <1>10 DEF Base, Types, FlagTypes

LEMMA RememberIs ==
    ASSUME Base, NEW p \in Programs, RememberSections(p)
    PROVE  \E k \in Keys : \E session \in Sessions :
              /\ k = turn[p].key /\ turn[p].pc = "binding" /\ Live(p) /\ Busy(p) /\ ~ Restoring(p)
              /\ session = (IF mem[k] = NoSession THEN EmptySession ELSE mem[k])
              /\ Put(k, session) /\ session.recs = mem[k].recs
  <1>1. turn[p].pc = "binding" /\ Live(p) /\ Busy(p) /\ ~ Restoring(p)
    BY DEF RememberSections, Live, Busy, Restoring, Working
  <1>2. PICK k \in Keys : k = turn[p].key
    BY <1>1, BusyKey DEF Base, Types
  <1>3. PICK session \in Sessions : session = IF mem[k] = NoSession THEN EmptySession ELSE mem[k]
    BY SessionIsOne DEF Base, Types, MemType
  <1>4. Put(k, session)
    BY <1>2, <1>3 DEF RememberSections
  <1>5. session.recs = mem[k].recs
    BY <1>3 DEF EmptySession, NoSession
  <1> QED BY <1>1, <1>2, <1>3, <1>4, <1>5

LEMMA RememberSectionsKeeps ==
    ASSUME Base, NEW p \in Programs, RememberSections(p)
    PROVE  Base'
  <1>1. /\ tried' = tried /\ store' = store /\ torn' = torn
        /\ turn' = turn /\ native' = native /\ late' = late /\ lost' = lost
    BY DEF RememberSections
  <1>2. /\ MemType /\ Order /\ Sizes /\ MemFacts /\ LinesType /\ LateType
        /\ NativeType /\ FlagTypes
    BY DEF Base, Types
  <1>3. PICK k \in Keys, session \in Sessions :
              /\ k = turn[p].key /\ Busy(p) /\ ~ Restoring(p)
              /\ session = (IF mem[k] = NoSession THEN EmptySession ELSE mem[k])
              /\ Put(k, session) /\ session.recs = mem[k].recs
    BY RememberIs
  <1>4. /\ MemType' /\ Order' /\ mem'[k] = session
        /\ \A x \in Keys \ {k} : mem'[x] = mem[x] \/ mem'[x] = NoSession
    BY <1>2, <1>3, PutIs
  <1>5. Sizes'
    <2>1. (\A s \in DOMAIN session.recs : s < session.next) /\ Cardinality(DOMAIN session.recs) <= MaxPrograms
      <3>1. CASE mem[k] = NoSession
        <4>1. DOMAIN session.recs = {} /\ session.recs = mem[k].recs
          BY <1>3, <3>1, EmptyMap DEF EmptySession
        <4> QED BY <4>1, <1>2 DEF Sizes
      <3>2. CASE mem[k] # NoSession
        BY <1>2, <1>3, <3>2 DEF Sizes
      <3> QED BY <3>1, <3>2
    <2> QED BY <1>2, <1>3, <2>1, SizesPut
  <1>6. /\ Onward /\ TurnType' /\ TurnFacts' /\ SeenFacts' /\ Locks' /\ StoreFacts'
        /\ \A x, s : \A r \in Records : MemHolds(x, s, r) => MemHolds(x, s, r)'
    <2>1. \A x \in Keys : mem'[x] # NoSession =>
             \/ mem[x] # NoSession
             \/ \E q \in Programs : Busy(q) /\ ~ Restoring(q) /\ turn[q].key = x
      BY <1>3, <1>4
    <2> QED BY <1>1, <2>1, StandFrame
  <1>7. MemFacts'
    <2> SUFFICES ASSUME NEW x \in Keys, NEW s \in DOMAIN mem'[x].recs
                 PROVE  MemHolds(x, s, mem[x].recs[s])'
      BY DEF MemFacts
    <2>1. DOMAIN NoSession.recs = {}
      BY EmptyMap DEF NoSession
    <2>2. s \in DOMAIN mem[x].recs /\ mem'[x].recs[s] = mem[x].recs[s]
      BY <1>3, <1>4, <2>1
    <2>3. PICK r \in Records : r = mem[x].recs[s]
      BY <1>2, <2>2, MemFields
    <2>4. MemHolds(x, s, r)'
      BY <1>2, <1>6, <2>2, <2>3 DEF MemFacts
    <2> QED BY <2>2, <2>3, <2>4 DEF MemHolds, Live
  <1>8. LinesType' /\ LateType' /\ NativeType' /\ FlagTypes'
    BY <1>1, <1>2 DEF LinesType, LateType, NativeType, FlagTypes
  <1> QED BY <1>4, <1>5, <1>6, <1>7, <1>8 DEF Base, Types

(* --------------------------- the start of a turn ----------------------------- *)

\* A program gets the next number of its session.
LEMMA AppendProgramIs ==
    ASSUME Base, NEW p \in Programs, AppendProgram(p)
    PROVE  \E k \in Keys : \E session \in Sessions : \E seq \in Nat :
              /\ k = turn[p].key /\ turn[p].pc = "appending" /\ Busy(p) /\ k \in tried
              /\ seq = (IF mem[k] = NoSession THEN 0 ELSE mem[k].next)
              /\ \A s \in DOMAIN mem[k].recs : s < seq
              /\ Put(k, session) /\ session.next = seq + 1
              /\ Cardinality(DOMAIN session.recs) <= MaxPrograms
              /\ \A s \in DOMAIN session.recs :
                    \/ s = seq /\ session.recs[s] = NewRecord(p)
                    \/ s \in DOMAIN mem[k].recs /\ session.recs[s] = mem[k].recs[s]
              /\ TurnType' /\ Acts(p)
              /\ turn'[p].pc = "storing" /\ turn'[p].seq = seq
              /\ turn'[p].line = Line("program", k, seq, p)
              /\ turn'[p].key = k /\ turn'[p].n = turn[p].n
              /\ turn'[p].i = turn[p].i /\ turn'[p].verdict = turn[p].verdict
              /\ UNCHANGED <<tried, store, torn, native, late, lost>>
  <1>1. /\ turn[p].pc = "appending" /\ Busy(p)
        /\ UNCHANGED <<tried, store, torn, native, late, lost>>
    BY DEF AppendProgram, Busy
  <1>2. TurnType /\ FlagTypes /\ TurnFacts /\ MemType /\ Sizes /\ TurnHolds(p)
    BY DEF Base, Types, TurnFacts
  <1>3. PICK k \in Keys : k = turn[p].key /\ k \in tried
    BY <1>1, <1>2, BusyKey DEF TurnHolds
  <1>4. PICK old \in Sessions : old = IF mem[k] = NoSession THEN EmptySession ELSE mem[k]
    BY <1>2, SessionIsOne DEF MemType
  <1>5. PICK seq \in Nat : seq = old.next
    BY DEF Sessions
  <1>6. seq = IF mem[k] = NoSession THEN 0 ELSE mem[k].next
    BY <1>4, <1>5 DEF EmptySession
  <1>7. old.recs = mem[k].recs /\ old.recs \in RecordMaps
    BY <1>4 DEF EmptySession, NoSession, Sessions
  <1>8. \A s \in DOMAIN mem[k].recs : s < seq
    <2>1. CASE mem[k] = NoSession
      <3>1. DOMAIN mem[k].recs = {}
        BY <2>1, EmptyMap DEF NoSession
      <3> QED BY <3>1
    <2>2. CASE mem[k] # NoSession
      BY <2>2, <1>2, <1>6 DEF Sizes
    <2> QED BY <2>1, <2>2
  <1>9. PICK record \in Records : record = NewRecord(p)
    BY DEF NewRecord, Records, Main
  <1>10. PICK wide : wide = With(old.recs, seq, record)
    OBVIOUS
  <1>11. /\ wide \in RecordMaps /\ DOMAIN wide = DOMAIN old.recs \cup {seq} /\ wide[seq] = record
         /\ \A s \in DOMAIN old.recs : s # seq => wide[s] = old.recs[s]
    BY <1>7, <1>10, WithIs
  <1>12. PICK m \in Nat : m = seq + 1
    OBVIOUS
  <1>13. \A s \in DOMAIN wide : s < m
    <2>1. DOMAIN old.recs \in SUBSET Nat
      BY <1>7, MapElements
    <2> QED BY <2>1, <1>7, <1>8, <1>11, <1>12
  <1>14. /\ Kept(wide) \in RecordMaps
         /\ DOMAIN Kept(wide) \in SUBSET (DOMAIN wide)
         /\ \A s \in DOMAIN Kept(wide) : Kept(wide)[s] = wide[s]
         /\ Cardinality(DOMAIN Kept(wide)) <= MaxPrograms
    BY <1>11, <1>13, KeptIs
  <1>15. PICK session : session = [recs |-> Kept(wide), next |-> m]
    OBVIOUS
  <1>16. session \in Sessions /\ session.recs = Kept(wide) /\ session.next = m
    BY <1>14, <1>15 DEF Sessions
  <1>17. Put(k, session)
    BY <1>3, <1>4, <1>5, <1>9, <1>10, <1>12, <1>15 DEF AppendProgram
  <1>18. \A s \in DOMAIN session.recs :
            \/ s = seq /\ session.recs[s] = NewRecord(p)
            \/ s \in DOMAIN mem[k].recs /\ session.recs[s] = mem[k].recs[s]
    BY <1>7, <1>9, <1>11, <1>14, <1>16
  <1>19. /\ TurnType' /\ Acts(p)
         /\ turn'[p].pc = "storing" /\ turn'[p].seq = seq
         /\ turn'[p].line = Line("program", k, seq, p)
         /\ turn'[p].key = k /\ turn'[p].n = turn[p].n
         /\ turn'[p].i = turn[p].i /\ turn'[p].verdict = turn[p].verdict
    <2>1. PICK x \in Turns : x = turn[p]
      BY <1>2 DEF TurnType
    <2>2. PICK line \in Lines : line = Line("program", k, seq, p)
      BY LineIs
    <2>3. PICK t : t = [x EXCEPT !.pc = "storing", !.seq = seq, !.line = line]
      OBVIOUS
    <2>4. turn' = [turn EXCEPT ![p] = t]
      <3>1. turn' = [turn EXCEPT ![p].pc = "storing", ![p].seq = seq, ![p].line = line]
        BY <1>3, <1>4, <1>5, <2>2 DEF AppendProgram
      <3> QED BY <3>1, <2>1, <2>3
    <2>5. /\ t.pc = "storing" /\ t.seq = seq /\ t.line = line
          /\ t.key = x.key /\ t.n = x.n /\ t.i = x.i /\ t.verdict = x.verdict
      BY <2>3 DEF Turns
    <2>6. t \in Turns
      BY <2>3 DEF Turns, Working
    <2>7. TurnType' /\ turn'[p] = t /\ Acts(p)
      BY <1>2, <2>4, <2>6, TurnIs
    <2> QED BY <1>3, <2>1, <2>2, <2>5, <2>7
  <1> QED BY <1>1, <1>3, <1>6, <1>8, <1>12, <1>14, <1>16, <1>17, <1>18, <1>19

LEMMA AppendProgramKeeps ==
    ASSUME Base, NEW p \in Programs, AppendProgram(p)
    PROVE  Base'
  <1>1. PICK k \in Keys, session \in Sessions, seq \in Nat :
              /\ k = turn[p].key /\ turn[p].pc = "appending" /\ Busy(p) /\ k \in tried
              /\ \A s \in DOMAIN mem[k].recs : s < seq
              /\ Put(k, session) /\ session.next = seq + 1
              /\ Cardinality(DOMAIN session.recs) <= MaxPrograms
              /\ \A s \in DOMAIN session.recs :
                    \/ s = seq /\ session.recs[s] = NewRecord(p)
                    \/ s \in DOMAIN mem[k].recs /\ session.recs[s] = mem[k].recs[s]
              /\ TurnType' /\ Acts(p)
              /\ turn'[p].pc = "storing" /\ turn'[p].seq = seq
              /\ turn'[p].line = Line("program", k, seq, p)
              /\ turn'[p].key = k /\ turn'[p].n = turn[p].n
              /\ turn'[p].i = turn[p].i /\ turn'[p].verdict = turn[p].verdict
              /\ UNCHANGED <<tried, store, torn, native, late, lost>>
    BY AppendProgramIs
  <1>2. /\ MemType /\ Order /\ Sizes /\ MemFacts /\ TurnFacts /\ TurnHolds(p) /\ TurnType
        /\ LinesType /\ LateType /\ NativeType /\ FlagTypes /\ Locks /\ SeenFacts /\ StoreFacts
    BY DEF Base, Types, TurnFacts
  <1>3. /\ MemType' /\ Order' /\ mem'[k] = session
        /\ \A x \in Keys \ {k} : mem'[x] = mem[x] \/ mem'[x] = NoSession
    BY <1>1, <1>2, PutIs
  <1>4. DOMAIN mem[k].recs \in SUBSET Nat /\ DOMAIN NoSession.recs = {}
    BY <1>2, MemFields, EmptyMap DEF NoSession
  <1>5. Sizes'
    <2>1. \A s \in DOMAIN session.recs : s < session.next
      BY <1>1, <1>4
    <2> QED BY <1>1, <1>2, <2>1, SizesPut
  <1>6. Onward
    BY <1>1 DEF Onward, Acts, Live, Working
  <1>7. ASSUME NEW q \in Programs
        PROVE  /\ Busy(q)' => Busy(q) /\ turn'[q].key = turn[q].key
               /\ Restoring(q)' => Restoring(q)
               /\ turn'[q].pc = "raising" => turn[q].pc = "raising" /\ turn'[q].seen = turn[q].seen
               /\ turn'[q].pc \in {"staged", "over"} => turn[q].pc \in {"staged", "over"}
               /\ Live(q)' => Live(q) \/ q = p
    <2>1. CASE q # p
      BY <2>1, <1>1 DEF Acts, Busy, Restoring, Live
    <2>2. CASE q = p
      BY <2>2, <1>1 DEF Restoring
    <2> QED BY <2>1, <2>2
  <1>8. SeenFacts' /\ StoreFacts'
    BY <1>1, <1>2, <1>6, <1>7, SeenFactsStay, StoreFactsStay
  <1>9. Locks'
    <2>1. ~ Restoring(p)'
      BY <1>1 DEF Restoring
    <2>2. \A x \in Keys : mem'[x] # NoSession =>
             \/ mem[x] # NoSession
             \/ x \in tried /\ \E q \in Programs : Busy(q) /\ ~ Restoring(q)' /\ turn[q].key = x
      BY <1>1, <1>3, <2>1
    <2>3. tried \in SUBSET tried'
      BY <1>1
    <2> QED BY <1>2, <1>7, <2>2, <2>3, RestoringKey, LocksStay
  <1>10. MemFacts'
    <2> SUFFICES ASSUME NEW x \in Keys, NEW s \in DOMAIN mem'[x].recs
                 PROVE  MemHolds(x, s, mem[x].recs[s])'
      BY DEF MemFacts
    <2>1. CASE x = k /\ s = seq /\ mem'[x].recs[s] = NewRecord(p)
      BY <2>1, <1>1 DEF MemHolds, Live, NewRecord, Working
    <2>2. CASE /\ s \in DOMAIN mem[x].recs /\ mem'[x].recs[s] = mem[x].recs[s]
               /\ x # k \/ s # seq
      <3>1. PICK r \in Records : r = mem[x].recs[s]
        BY <1>2, <2>2, MemFields
      <3>2. MemHolds(x, s, r) /\ r.prog \in Programs
        BY <1>2, <2>2, <3>1 DEF MemFacts, Records
      <3>3. \A q \in Programs : Live(q)' => Live(q) \/ turn'[q].key # x \/ turn'[q].seq # s
        BY <1>1, <1>7, <2>2
      <3>4. MemHolds(x, s, r)'
        BY <1>6, <1>7, <3>2, <3>3, MemHoldsStay
      <3> QED BY <2>2, <3>1, <3>4 DEF MemHolds, Live
    <2>3. CASE x = k
      <3>1. CASE s = seq /\ session.recs[s] = NewRecord(p)
        BY <2>1, <2>3, <3>1, <1>3
      <3>2. CASE s \in DOMAIN mem[k].recs /\ session.recs[s] = mem[k].recs[s]
        <4>1. s < seq /\ s \in Nat
          BY <1>1, <1>4, <3>2
        <4>2. s # seq
          BY <4>1
        <4> QED BY <2>2, <2>3, <3>2, <4>2, <1>3
      <3> QED BY <1>1, <1>3, <2>3, <3>1, <3>2
    <2>4. CASE x # k
      BY <2>2, <2>4, <1>3, <1>4
    <2> QED BY <2>3, <2>4
  <1>11. TurnFacts'
    <2>1. turn[p].i = 0 /\ turn[p].i < turn[p].n /\ turn[p].verdict = None
      BY <1>1, <1>2 DEF TurnHolds, Before, Working
    <2>2. TurnHolds(p)'
      BY <1>1, <2>1 DEF TurnHolds, Before, Working, Busy, Live
    <2> QED BY <1>1, <1>2, <2>2, TurnFactsStay
  <1>12. LinesType' /\ LateType' /\ NativeType' /\ FlagTypes'
    BY <1>1, <1>2 DEF LinesType, LateType, NativeType, FlagTypes
  <1> QED BY <1>1, <1>3, <1>5, <1>8, <1>9, <1>10, <1>11, <1>12 DEF Base, Types

LEMMA RaiseIs ==
    ASSUME Base, NEW p \in Programs, Raise(p)
    PROVE  \E k \in Keys : \E seen \in RecordMaps :
              /\ k = turn[p].key /\ seen = turn[p].seen /\ Bounded(seen)
              /\ turn[p].pc = "raising" /\ Busy(p) /\ Restoring(p) /\ k \in tried
              /\ mem[k] = NoSession
              /\ \/ seen = << >> /\ mem' = mem /\ lru' = lru
                 \/ seen # << >> /\ Put(k, Restored(seen))
              /\ TurnType' /\ Acts(p)
              /\ turn'[p].pc = "appending" /\ turn'[p].key = k /\ turn'[p].n = turn[p].n
              /\ turn'[p].i = turn[p].i /\ turn'[p].verdict = turn[p].verdict
              /\ UNCHANGED <<tried, store, torn, native, late, lost>>
  <1>1. /\ turn[p].pc = "raising" /\ Busy(p) /\ Restoring(p)
        /\ UNCHANGED <<tried, store, torn, native, late, lost>>
    BY DEF Raise, Busy, Restoring
  <1>2. TurnType /\ FlagTypes /\ TurnFacts /\ TurnHolds(p) /\ Locks /\ SeenHolds(p)
    BY DEF Base, Types, TurnFacts, SeenFacts
  <1>3. PICK k \in Keys : k = turn[p].key /\ k \in tried
    BY <1>1, <1>2, BusyKey DEF TurnHolds
  <1>4. mem[k] = NoSession
    BY <1>1, <1>2, <1>3 DEF Locks
  <1>5. PICK x \in Turns : x = turn[p]
    BY <1>2 DEF TurnType
  <1>6. PICK seen \in RecordMaps : seen = turn[p].seen
    BY <1>5, TurnFields
  <1>7. Bounded(seen)
    BY <1>1, <1>2, <1>6 DEF SeenHolds
  <1>8. \/ seen = << >> /\ mem' = mem /\ lru' = lru
        \/ seen # << >> /\ Put(k, Restored(seen))
    <2>1. mem[k].recs = << >>
      BY <1>4 DEF NoSession
    <2>2. IF seen = << >> \/ mem[k].recs # << >> THEN UNCHANGED <<mem, lru>> ELSE Put(k, Restored(seen))
      BY <1>3, <1>6 DEF Raise
    <2> QED BY <2>1, <2>2
  <1>9. /\ TurnType' /\ Acts(p)
        /\ turn'[p].pc = "appending" /\ turn'[p].key = k /\ turn'[p].n = turn[p].n
        /\ turn'[p].i = turn[p].i /\ turn'[p].verdict = turn[p].verdict
    <2>1. PICK none \in RecordMaps : none = << >>
      BY EmptyMap
    <2>2. PICK t : t = [x EXCEPT !.pc = "appending", !.seen = none]
      OBVIOUS
    <2>3. turn' = [turn EXCEPT ![p] = t]
      <3>1. turn' = [turn EXCEPT ![p].pc = "appending", ![p].seen = none]
        BY <2>1 DEF Raise
      <3> QED BY <3>1, <1>5, <2>2
    <2>4. t.pc = "appending" /\ t.key = x.key /\ t.n = x.n /\ t.i = x.i /\ t.verdict = x.verdict
      BY <2>2 DEF Turns
    <2>5. t \in Turns
      BY <2>2 DEF Turns, Before
    <2>6. TurnType' /\ turn'[p] = t /\ Acts(p)
      BY <1>2, <2>3, <2>5, TurnIs
    <2> QED BY <1>3, <1>5, <2>4, <2>6
  <1> QED BY <1>1, <1>3, <1>4, <1>6, <1>7, <1>8, <1>9

LEMMA RaiseKeeps ==
    ASSUME Base, NEW p \in Programs, Raise(p)
    PROVE  Base'
  <1>1. PICK k \in Keys, seen \in RecordMaps :
              /\ k = turn[p].key /\ seen = turn[p].seen /\ Bounded(seen)
              /\ turn[p].pc = "raising" /\ Busy(p) /\ Restoring(p) /\ k \in tried
              /\ mem[k] = NoSession
              /\ \/ seen = << >> /\ mem' = mem /\ lru' = lru
                 \/ seen # << >> /\ Put(k, Restored(seen))
              /\ TurnType' /\ Acts(p)
              /\ turn'[p].pc = "appending" /\ turn'[p].key = k /\ turn'[p].n = turn[p].n
              /\ turn'[p].i = turn[p].i /\ turn'[p].verdict = turn[p].verdict
              /\ UNCHANGED <<tried, store, torn, native, late, lost>>
    BY RaiseIs
  <1>2. /\ MemType /\ Order /\ Sizes /\ MemFacts /\ TurnFacts /\ TurnHolds(p) /\ TurnType
        /\ LinesType /\ LateType /\ NativeType /\ FlagTypes /\ Locks /\ SeenFacts /\ StoreFacts
    BY DEF Base, Types, TurnFacts
  <1>3. Onward
    BY <1>1 DEF Onward, Acts, Live, Working
  <1>4. ASSUME NEW q \in Programs
        PROVE  /\ Busy(q)' => Busy(q) /\ turn'[q].key = turn[q].key
               /\ Restoring(q)' => Restoring(q)
               /\ turn'[q].pc = "raising" => turn[q].pc = "raising" /\ turn'[q].seen = turn[q].seen
               /\ turn'[q].pc \in {"staged", "over"} => turn[q].pc \in {"staged", "over"}
               /\ Live(q)' => Live(q) /\ q # p
    <2>1. CASE q # p
      BY <2>1, <1>1 DEF Acts, Busy, Restoring, Live
    <2>2. CASE q = p
      BY <2>2, <1>1 DEF Restoring, Live, Working
    <2> QED BY <2>1, <2>2
  <1>5. SeenFacts' /\ StoreFacts'
    BY <1>1, <1>2, <1>3, <1>4, SeenFactsStay, StoreFactsStay
  <1>6. \A x, s : \A r \in Records : MemHolds(x, s, r) => MemHolds(x, s, r)'
    BY <1>3, <1>4, MemHoldsStay DEF Records
  <1>7. TurnFacts'
    <2>1. turn[p].i = 0 /\ turn[p].i < turn[p].n /\ turn[p].verdict = None
      BY <1>1, <1>2 DEF TurnHolds, Before, Working
    <2>2. TurnHolds(p)'
      BY <1>1, <2>1 DEF TurnHolds, Before, Working, Busy, Live
    <2> QED BY <1>1, <1>2, <2>2, TurnFactsStay
  <1>8. LinesType' /\ LateType' /\ NativeType' /\ FlagTypes'
    BY <1>1, <1>2 DEF LinesType, LateType, NativeType, FlagTypes
  <1>9. ASSUME \A x \in Keys : mem'[x] # NoSession => mem[x] # NoSession \/ x = k
        PROVE  Locks'
    <2>1. ~ Restoring(p)'
      BY <1>1 DEF Restoring
    <2>2. \A x \in Keys : mem'[x] # NoSession =>
             \/ mem[x] # NoSession
             \/ x \in tried /\ \E q \in Programs : Busy(q) /\ ~ Restoring(q)' /\ turn[q].key = x
      BY <1>1, <1>9, <2>1
    <2>3. tried \in SUBSET tried'
      BY <1>1
    <2> QED BY <1>2, <1>4, <2>2, <2>3, RestoringKey, LocksStay
  <1>10. CASE mem' = mem /\ lru' = lru
    <2>1. MemType' /\ Order' /\ Sizes'
      BY <1>2, <1>10, MemoryStays
    <2>2. MemFacts'
      BY <1>2, <1>6, <1>10, MemFactsFrom
    <2>3. Locks'
      BY <1>9, <1>10
    <2> QED BY <1>1, <1>5, <1>7, <1>8, <2>1, <2>2, <2>3 DEF Base, Types
  <1>11. CASE seen # << >> /\ Put(k, Restored(seen))
    <2>1. PICK session \in Sessions : session = Restored(seen)
      BY <1>1, <1>11, RestoredIs DEF Bounded
    <2>2. /\ \A s \in DOMAIN seen : s < session.next
          /\ DOMAIN session.recs \in SUBSET (DOMAIN seen)
          /\ \A s \in DOMAIN session.recs :
                session.recs[s] = [seen[s] EXCEPT !.stage = RestoredStage(@)]
          /\ Cardinality(DOMAIN session.recs) <= MaxPrograms
      BY <1>1, <1>11, <2>1, RestoredIs DEF Bounded
    <2>3. Put(k, session)
      BY <1>11, <2>1
    <2>4. /\ MemType' /\ Order' /\ mem'[k] = session
          /\ \A x \in Keys \ {k} : mem'[x] = mem[x] \/ mem'[x] = NoSession
      BY <1>2, <2>3, PutIs
    <2>5. Sizes'
      BY <1>2, <2>2, <2>3, SizesPut
    <2>6. Locks'
      BY <1>9, <2>4
    <2>7. MemFacts'
      <3> SUFFICES ASSUME NEW x \in Keys, NEW s \in DOMAIN mem'[x].recs
                   PROVE  MemHolds(x, s, mem[x].recs[s])'
        BY DEF MemFacts
      <3>1. CASE x = k
        <4>1. s \in DOMAIN seen /\ mem'[x].recs[s] = [seen[s] EXCEPT !.stage = RestoredStage(@)]
          BY <2>2, <2>4, <3>1
        <4>2. PICK r \in Records : r = seen[s]
          BY <4>1, MapElements
        <4>3. PICK record : record = [r EXCEPT !.stage = RestoredStage(@)]
          OBVIOUS
        <4>4. record.prog = r.prog /\ record.stage = RestoredStage(r.stage) /\ r.prog \in Programs
          BY <4>3 DEF Records
        <4>5. turn[r.prog].pc = "over"
          BY <1>1, <1>2, <4>1, <4>2 DEF SeenFacts, SeenHolds
        <4>6. turn'[r.prog].pc = "over"
          BY <4>4, <4>5, <1>3 DEF Onward, Live, Working
        <4>7. record.stage # "dispatched"
          BY <4>4 DEF RestoredStage
        <4>8. ASSUME NEW q \in Programs, Live(q)' PROVE turn'[q].key # x
          <5>1. Live(q) /\ q # p /\ turn'[q].key = turn[q].key
            BY <1>1, <1>4, <4>8 DEF Acts
          <5>2. Busy(q)
            BY <5>1 DEF Busy, Live, Working
          <5> QED BY <1>1, <1>2, <3>1, <5>1, <5>2 DEF Locks
        <4>9. MemHolds(x, s, record)'
          BY <4>4, <4>6, <4>7, <4>8 DEF MemHolds, Live, Working
        <4>10. mem'[x].recs[s] = record
          BY <4>1, <4>2, <4>3
        <4> QED BY <4>9, <4>10 DEF MemHolds, Live
      <3>2. CASE x # k
        <4>1. DOMAIN NoSession.recs = {}
          BY EmptyMap DEF NoSession
        <4>2. mem'[x] = mem[x]
          BY <2>4, <3>2, <4>1
        <4>3. PICK r \in Records : r = mem[x].recs[s]
          BY <1>2, <4>2, MemFields
        <4>4. MemHolds(x, s, r)'
          BY <1>2, <1>6, <4>2, <4>3 DEF MemFacts
        <4> QED BY <4>2, <4>3, <4>4 DEF MemHolds, Live
      <3> QED BY <3>1, <3>2
    <2> QED BY <1>1, <1>5, <1>7, <1>8, <2>4, <2>5, <2>6, <2>7 DEF Base, Types
  <1> QED BY <1>1, <1>10, <1>11

LEMMA ReadStoreIs ==
    ASSUME Base, NEW p \in Programs, ReadStore(p)
    PROVE  \E k \in Keys : \E seen \in RecordMaps :
              /\ k = turn[p].key /\ turn[p].pc = "reading" /\ Busy(p) /\ Restoring(p) /\ k \in tried
              /\ StoreHolds(k, Replay(k))
              /\ seen = (IF torn \/ ~ Replay(k).ok THEN << >> ELSE Replay(k).recs)
              /\ TurnType' /\ Acts(p) /\ turn'[p].seen = seen
              /\ turn'[p].pc = "raising" /\ turn'[p].key = k /\ turn'[p].n = turn[p].n
              /\ turn'[p].i = turn[p].i /\ turn'[p].verdict = turn[p].verdict
              /\ UNCHANGED <<mem, lru, tried, store, torn, native, late, lost>>
  <1>1. /\ turn[p].pc = "reading" /\ Busy(p) /\ Restoring(p)
        /\ UNCHANGED <<mem, lru, tried, store, torn, native, late, lost>>
    BY DEF ReadStore, Busy, Restoring
  <1>2. TurnType /\ FlagTypes /\ TurnFacts /\ TurnHolds(p) /\ StoreFacts
    BY DEF Base, Types, TurnFacts
  <1>3. PICK k \in Keys : k = turn[p].key /\ k \in tried
    BY <1>1, <1>2, BusyKey DEF TurnHolds
  <1>4. StoreHolds(k, Replay(k))
    BY <1>2 DEF StoreFacts
  <1>5. PICK seen \in RecordMaps : seen = IF torn \/ ~ Replay(k).ok THEN << >> ELSE Replay(k).recs
    BY <1>4, EmptyMap DEF StoreHolds
  <1>6. PICK x \in Turns : x = turn[p]
    BY <1>2 DEF TurnType
  <1>7. PICK t : t = [x EXCEPT !.pc = "raising", !.seen = seen]
    OBVIOUS
  <1>8. turn' = [turn EXCEPT ![p] = t]
    <2>1. turn' = [turn EXCEPT ![p].pc = "raising", ![p].seen = seen]
      BY <1>3, <1>5 DEF ReadStore
    <2> QED BY <2>1, <1>6, <1>7
  <1>9. /\ t.pc = "raising" /\ t.seen = seen
        /\ t.key = x.key /\ t.n = x.n /\ t.i = x.i /\ t.verdict = x.verdict
    BY <1>7 DEF Turns
  <1>10. t \in Turns
    BY <1>7 DEF Turns, Before
  <1>11. TurnType' /\ turn'[p] = t /\ Acts(p)
    BY <1>2, <1>8, <1>10, TurnIs
  <1> QED BY <1>1, <1>3, <1>4, <1>5, <1>6, <1>9, <1>11

LEMMA ReadStoreKeeps ==
    ASSUME Base, NEW p \in Programs, ReadStore(p)
    PROVE  Base'
  <1>1. PICK k \in Keys, seen \in RecordMaps :
              /\ k = turn[p].key /\ turn[p].pc = "reading" /\ Busy(p) /\ Restoring(p) /\ k \in tried
              /\ StoreHolds(k, Replay(k))
              /\ seen = (IF torn \/ ~ Replay(k).ok THEN << >> ELSE Replay(k).recs)
              /\ TurnType' /\ Acts(p) /\ turn'[p].seen = seen
              /\ turn'[p].pc = "raising" /\ turn'[p].key = k /\ turn'[p].n = turn[p].n
              /\ turn'[p].i = turn[p].i /\ turn'[p].verdict = turn[p].verdict
              /\ UNCHANGED <<mem, lru, tried, store, torn, native, late, lost>>
    BY ReadStoreIs
  <1>2. /\ MemType /\ Order /\ Sizes /\ MemFacts /\ TurnFacts /\ TurnHolds(p) /\ TurnType
        /\ LinesType /\ LateType /\ NativeType /\ FlagTypes /\ Locks /\ SeenFacts /\ StoreFacts
    BY DEF Base, Types, TurnFacts
  <1>3. Onward
    BY <1>1 DEF Onward, Acts, Live, Working
  <1>4. ASSUME NEW q \in Programs
        PROVE  /\ Busy(q)' => Busy(q) /\ turn'[q].key = turn[q].key
               /\ Restoring(q)' => Restoring(q)
               /\ turn'[q].pc \in {"staged", "over"} => turn[q].pc \in {"staged", "over"}
               /\ Live(q)' => Live(q)
    <2>1. CASE q # p
      BY <2>1, <1>1 DEF Acts, Busy, Restoring, Live
    <2>2. CASE q = p
      BY <2>2, <1>1 DEF Live, Working
    <2> QED BY <2>1, <2>2
  <1>5. \A x, s : \A r \in Records : MemHolds(x, s, r) => MemHolds(x, s, r)'
    BY <1>3, <1>4, MemHoldsStay DEF Records
  <1>6. SeenFacts'
    <2> SUFFICES ASSUME NEW q \in Programs, turn'[q].pc = "raising"
                 PROVE  /\ Bounded(turn'[q].seen)
                        /\ \A s \in DOMAIN turn'[q].seen : turn'[turn'[q].seen[s].prog].pc = "over"
      BY DEF SeenFacts, SeenHolds, Bounded
    <2>1. ASSUME NEW y \in Programs, turn[y].pc = "over" PROVE turn'[y].pc = "over"
      BY <1>3, <2>1 DEF Onward, Live, Working
    <2>2. CASE q = p
      <3>1. CASE seen = << >>
        <4>1. DOMAIN seen = {}
          BY <3>1, EmptyMap
        <4> QED BY <1>1, <2>2, <4>1 DEF Bounded
      <3>2. CASE seen = Replay(k).recs
        <4>1. Bounded(seen)
          BY <1>1, <3>2 DEF StoreHolds
        <4>2. ASSUME NEW s \in DOMAIN seen PROVE turn'[seen[s].prog].pc = "over"
          <5>1. PICK y \in Programs : y = seen[s].prog
            BY MapElements DEF Records
          <5>2. turn[y].pc \in Working \cup {"over"} /\ (Live(y) => turn[y].key = k)
            BY <1>1, <3>2, <5>1 DEF StoreHolds
          <5>3. ~ Live(y)
            <6> SUFFICES ASSUME Live(y) PROVE FALSE
              OBVIOUS
            <6>1. Busy(y) /\ y # p
              BY <1>1 DEF Busy, Live, Working
            <6> QED BY <1>1, <1>2, <5>2, <6>1 DEF Locks
          <5>4. turn[y].pc = "over"
            BY <5>2, <5>3 DEF Live
          <5> QED BY <2>1, <5>1, <5>4
        <4> QED BY <1>1, <2>2, <4>1, <4>2
      <3> QED BY <1>1, <3>1, <3>2
    <2>3. CASE q # p
      <3>1. turn'[q] = turn[q]
        BY <1>1, <2>3 DEF Acts
      <3>2. Bounded(turn[q].seen) /\ \A s \in DOMAIN turn[q].seen : turn[turn[q].seen[s].prog].pc = "over"
        BY <1>2, <3>1 DEF SeenFacts, SeenHolds
      <3>3. turn[q].seen \in RecordMaps
        BY <1>2, TurnFields DEF TurnType
      <3>4. \A s \in DOMAIN turn[q].seen : turn[q].seen[s].prog \in Programs
        BY <3>3, MapElements DEF Records
      <3> QED BY <2>1, <3>1, <3>2, <3>4
    <2> QED BY <2>2, <2>3
  <1>7. TurnFacts'
    <2>1. turn[p].i = 0 /\ turn[p].i < turn[p].n /\ turn[p].verdict = None
      BY <1>1, <1>2 DEF TurnHolds, Before, Working
    <2>2. TurnHolds(p)'
      BY <1>1, <2>1 DEF TurnHolds, Before, Working, Busy, Live
    <2> QED BY <1>1, <1>2, <2>2, TurnFactsStay
  <1>8. LinesType' /\ LateType' /\ NativeType' /\ FlagTypes'
    BY <1>1, <1>2 DEF LinesType, LateType, NativeType, FlagTypes
  <1>9. Locks'
    <2>1. tried \in SUBSET tried'
      BY <1>1
    <2>2. \A x \in Keys : mem'[x] # NoSession => mem[x] # NoSession
      BY <1>1
    <2> QED BY <1>2, <1>4, <2>1, <2>2, RestoringKey, LocksStay
  <1>10. MemType' /\ Order' /\ Sizes' /\ MemFacts'
    BY <1>1, <1>2, <1>5, MemoryStays, MemFactsFrom
  <1>11. StoreFacts'
    BY <1>1, <1>2, <1>3, StoreFactsStay
  <1> QED BY <1>1, <1>6, <1>7, <1>8, <1>9, <1>10, <1>11 DEF Base, Types

LEMMA PublishIs ==
    ASSUME Base, NEW p \in Programs, Publish(p)
    PROVE  \E k \in Keys : \E n \in 1 .. MaxChunks :
              /\ turn[p].pc = "new"
              /\ mem[k] = NoSession => ~ HoldsRestoreLock(k)
              /\ tried' = (IF mem[k] = NoSession THEN tried \cup {k} ELSE tried)
              /\ TurnType' /\ Acts(p)
              /\ turn'[p].pc = (IF mem[k] = NoSession /\ k \notin tried THEN "reading" ELSE "appending")
              /\ turn'[p].key = k /\ turn'[p].n = n
              /\ turn'[p].i = turn[p].i /\ turn'[p].verdict = turn[p].verdict
              /\ UNCHANGED <<mem, lru, store, torn, native, late, lost>>
  <1>1. turn[p].pc = "new" /\ UNCHANGED <<mem, lru, store, torn, native, late, lost>>
    BY DEF Publish
  <1>2. PICK k \in Keys, n \in 1 .. MaxChunks :
              /\ mem[k] = NoSession => ~ HoldsRestoreLock(k)
              /\ tried' = (IF mem[k] = NoSession THEN tried \cup {k} ELSE tried)
              /\ turn' = [turn EXCEPT ![p].key = k, ![p].n = n,
                                  ![p].pc = IF mem[k] = NoSession /\ k \notin tried
                                            THEN "reading" ELSE "appending"]
    BY DEF Publish
  <1>3. PICK x \in Turns : x = turn[p]
    BY DEF Base, Types, TurnType
  <1>4. PICK pc \in Before : pc = IF mem[k] = NoSession /\ k \notin tried THEN "reading" ELSE "appending"
    BY DEF Before
  <1>5. PICK t : t = [x EXCEPT !.key = k, !.n = n, !.pc = pc]
    OBVIOUS
  <1>6. turn' = [turn EXCEPT ![p] = t]
    BY <1>2, <1>3, <1>4, <1>5
  <1>7. t.pc = pc /\ t.key = k /\ t.n = n /\ t.i = x.i /\ t.verdict = x.verdict
    BY <1>5 DEF Turns
  <1>8. t \in Turns
    BY <1>5 DEF Turns
  <1>9. TurnType' /\ turn'[p] = t /\ Acts(p)
    BY <1>6, <1>8, TurnIs DEF Base, Types
  <1> QED BY <1>1, <1>2, <1>3, <1>4, <1>7, <1>9

LEMMA PublishKeeps ==
    ASSUME Base, NEW p \in Programs, Publish(p)
    PROVE  Base'
  <1>1. PICK k \in Keys, n \in 1 .. MaxChunks :
              /\ turn[p].pc = "new"
              /\ mem[k] = NoSession => ~ HoldsRestoreLock(k)
              /\ tried' = (IF mem[k] = NoSession THEN tried \cup {k} ELSE tried)
              /\ TurnType' /\ Acts(p)
              /\ turn'[p].pc = (IF mem[k] = NoSession /\ k \notin tried THEN "reading" ELSE "appending")
              /\ turn'[p].key = k /\ turn'[p].n = n
              /\ turn'[p].i = turn[p].i /\ turn'[p].verdict = turn[p].verdict
              /\ UNCHANGED <<mem, lru, store, torn, native, late, lost>>
    BY PublishIs
  <1>2. /\ MemType /\ Order /\ Sizes /\ MemFacts /\ TurnFacts /\ TurnHolds(p) /\ TurnType
        /\ LinesType /\ LateType /\ NativeType /\ FlagTypes /\ Locks /\ SeenFacts /\ StoreFacts
    BY DEF Base, Types, TurnFacts
  <1>3. Onward
    BY <1>1 DEF Onward, Acts, Live, Working
  <1>4. ASSUME NEW q \in Programs
        PROVE  /\ q # p => turn'[q] = turn[q]
               /\ turn'[q].pc = "raising" => turn[q].pc = "raising" /\ turn'[q].seen = turn[q].seen
               /\ turn'[q].pc \in {"staged", "over"} => turn[q].pc \in {"staged", "over"}
               /\ Live(q)' => Live(q)
    <2>1. CASE q # p
      BY <2>1, <1>1 DEF Acts, Live
    <2>2. CASE q = p
      BY <2>2, <1>1 DEF Live, Working
    <2> QED BY <2>1, <2>2
  <1>5. SeenFacts' /\ StoreFacts'
    BY <1>1, <1>2, <1>3, <1>4, SeenFactsStay, StoreFactsStay
  <1>6. \A x, s : \A r \in Records : MemHolds(x, s, r) => MemHolds(x, s, r)'
    BY <1>3, <1>4, MemHoldsStay DEF Records
  <1>7. MemType' /\ Order' /\ Sizes' /\ MemFacts'
    BY <1>1, <1>2, <1>6, MemoryStays, MemFactsFrom
  <1>8. tried \in SUBSET tried' /\ tried' \in SUBSET Keys /\ k \in tried'
    BY <1>1, <1>2 DEF FlagTypes, Locks
  <1>9. LinesType' /\ LateType' /\ NativeType' /\ FlagTypes'
    BY <1>1, <1>2, <1>8 DEF LinesType, LateType, NativeType, FlagTypes
  <1>10. TurnFacts'
    <2>1. turn[p].i = 0 /\ turn[p].verdict = None /\ 0 < n
      BY <1>1, <1>2 DEF TurnHolds, Before, Working
    <2>2. TurnHolds(p)'
      BY <1>1, <1>8, <2>1 DEF TurnHolds, Before, Working, Busy, Live
    <2> QED BY <1>1, <1>2, <1>8, <2>2, TurnFactsStay
  <1>11. Locks'
    <2>1. ASSUME NEW q \in Programs, Restoring(q)',
                 NEW y \in Programs, y # q, Busy(y)'
          PROVE  turn'[y].key # turn'[q].key
      <3>1. CASE q = p
        <4>1. mem[k] = NoSession /\ k \notin tried /\ turn'[q].key = k
          BY <1>1, <2>1, <3>1 DEF Restoring
        <4>2. Busy(y) /\ turn'[y] = turn[y]
          BY <1>4, <2>1, <3>1 DEF Busy
        <4>3. turn[y].key \in tried
          BY <1>2, <4>2 DEF TurnFacts, TurnHolds
        <4> QED BY <4>1, <4>2, <4>3
      <3>2. CASE q # p
        <4>1. Restoring(q) /\ turn'[q] = turn[q]
          BY <1>4, <2>1, <3>2 DEF Restoring
        <4>2. mem[turn[q].key] = NoSession
          BY <1>2, <4>1 DEF Locks
        <4>3. CASE y = p
          <5> SUFFICES ASSUME turn[q].key = k PROVE FALSE
            BY <1>1, <4>1, <4>3
          <5>1. HoldsRestoreLock(k)
            BY <4>1 DEF HoldsRestoreLock, Restoring
          <5> QED BY <1>1, <4>2, <5>1
        <4>4. CASE y # p
          <5>1. Busy(y) /\ turn'[y] = turn[y]
            BY <1>4, <2>1, <4>4 DEF Busy
          <5> QED BY <1>2, <2>1, <4>1, <5>1 DEF Locks
        <4> QED BY <4>3, <4>4
      <3> QED BY <3>1, <3>2
    <2>2. ASSUME NEW q \in Programs, Restoring(q)' PROVE mem'[turn'[q].key] = NoSession
      <3>1. CASE q = p
        BY <1>1, <2>2, <3>1 DEF Restoring
      <3>2. CASE q # p
        <4>1. Restoring(q) /\ turn'[q] = turn[q]
          BY <1>4, <2>2, <3>2 DEF Restoring
        <4> QED BY <1>1, <1>2, <4>1 DEF Locks
      <3> QED BY <3>1, <3>2
    <2>3. \A x \in Keys : mem'[x] # NoSession => x \in tried'
      BY <1>1, <1>2, <1>8 DEF Locks
    <2> QED BY <2>1, <2>2, <2>3 DEF Locks
  <1> QED BY <1>1, <1>5, <1>7, <1>9, <1>10, <1>11 DEF Base, Types

\* Nobody is at work after a crash.
LEMMA CrashIs ==
    ASSUME Base, Crash
    PROVE  /\ TurnType' /\ Onward
           /\ \A q \in Programs : turn'[q] = turn[q] \/ turn'[q].pc = "over"
           /\ \A q \in Programs : turn'[q].pc \in {"new", "over"} /\ turn'[q].n = turn[q].n
           /\ \A k \in Keys : mem'[k] = NoSession
           /\ mem' = [k \in Keys |-> NoSession] /\ lru' = << >> /\ tried' = {}
           /\ late' = [o \in Operations |-> None]
           /\ (torn => torn') /\ torn' \in BOOLEAN
           /\ UNCHANGED <<store, native, lost>>
  <1>1. TurnType /\ FlagTypes
    BY DEF Base, Types
  <1>2. /\ mem' = [k \in Keys |-> NoSession] /\ lru' = << >> /\ tried' = {}
        /\ late' = [o \in Operations |-> None] /\ UNCHANGED <<store, native, lost>>
        /\ turn' = [p \in Programs |-> IF turn[p].pc = "new" THEN turn[p]
                                       ELSE [NoTurn EXCEPT !.pc = "over", !.n = turn[p].n]]
    BY DEF Crash
  <1>3. PICK cut \in BOOLEAN : torn' = (torn \/ cut)
    BY DEF Crash
  <1>4. (torn => torn') /\ torn' \in BOOLEAN
    BY <1>1, <1>3 DEF FlagTypes
  <1>5. ASSUME NEW q \in Programs
        PROVE  /\ turn'[q] \in Turns /\ turn'[q].pc \in {"new", "over"} /\ turn'[q].n = turn[q].n
               /\ turn'[q] = turn[q] \/ turn'[q].pc = "over"
               /\ turn[q].pc # "new" => turn'[q].pc = "over"
    <2>1. turn[q] \in Turns /\ turn[q].n \in 1 .. MaxChunks
      BY <1>1, TurnFields DEF TurnType
    <2>2. CASE turn[q].pc = "new"
      BY <1>2, <2>1, <2>2
    <2>3. CASE turn[q].pc # "new"
      BY <1>2, <2>1, <2>3, NoTurnIs
    <2> QED BY <2>2, <2>3
  <1>6. TurnType'
    BY <1>2, <1>5 DEF TurnType
  <1>7. Onward
    BY <1>5 DEF Onward, Live, Working
  <1> QED BY <1>2, <1>4, <1>5, <1>6, <1>7

LEMMA CrashKeeps ==
    ASSUME Base, Crash
    PROVE  Base'
  <1>1. /\ MemType /\ Order /\ Sizes /\ MemFacts /\ TurnFacts /\ TurnType
        /\ LinesType /\ LateType /\ NativeType /\ FlagTypes /\ Locks /\ SeenFacts /\ StoreFacts
    BY DEF Base, Types
  <1>2. /\ TurnType' /\ Onward
        /\ \A q \in Programs : turn'[q] = turn[q] \/ turn'[q].pc = "over"
        /\ \A q \in Programs : turn'[q].pc \in {"new", "over"} /\ turn'[q].n = turn[q].n
        /\ \A k \in Keys : mem'[k] = NoSession
        /\ mem' = [k \in Keys |-> NoSession] /\ lru' = << >> /\ tried' = {}
        /\ late' = [o \in Operations |-> None]
        /\ torn' \in BOOLEAN
        /\ store' = store /\ native' = native /\ lost' = lost
    BY CrashIs
  <1>3. DOMAIN NoSession.recs = {}
    BY EmptyMap DEF NoSession
  <1>4. MemType' /\ MemFacts'
    BY <1>2, <1>3 DEF MemType, MemFacts
  <1>5. Sizes'
    <2>1. Cardinality(DOMAIN NoSession.recs) <= MaxPrograms
      BY <1>3, FS_EmptySet, LimitsAssumption
    <2> QED BY <1>2, <1>3, <2>1 DEF Sizes
  <1>6. Order'
    <2>1. << >> \in Seq(Keys) /\ Len(<< >>) = 0 /\ ToSet(<< >>) = {}
      BY EmptyMap DEF ToSet
    <2>2. Distinct(<< >>)
      BY <2>1 DEF Distinct
    <2>3. {k \in Keys : mem'[k] # NoSession} = {}
      BY <1>2
    <2>4. 0 <= MaxSessions
      BY LimitsAssumption
    <2>5. /\ lru' \in Seq(Keys) /\ Distinct(lru') /\ ToSet(lru') = {k \in Keys : mem'[k] # NoSession}
          /\ Len(lru') <= MaxSessions
      BY <1>2, <2>1, <2>2, <2>3, <2>4
    <2> QED BY <2>5 DEF Order, Distinct, ToSet
  <1>7. SeenFacts' /\ Locks'
    BY <1>2 DEF SeenFacts, SeenHolds, Locks, Restoring
  <1>8. StoreFacts'
    BY <1>1, <1>2, StoreFactsStay
  <1>9. TurnFacts'
    <2> SUFFICES ASSUME NEW q \in Programs PROVE TurnHolds(q)'
      BY DEF TurnFacts
    <2>1. CASE turn'[q].pc = "over"
      BY <2>1 DEF TurnHolds, Busy, Live, Before, Working
    <2>2. CASE turn'[q].pc = "new" /\ turn'[q] = turn[q]
      <3>1. TurnHolds(q)
        BY <1>1 DEF TurnFacts
      <3> QED BY <2>2, <3>1 DEF TurnHolds, Busy, Live, Before, Working
    <2> QED BY <1>2, <2>1, <2>2
  <1>10. LinesType' /\ LateType' /\ NativeType' /\ FlagTypes'
    BY <1>1, <1>2 DEF LinesType, LateType, NativeType, FlagTypes
  <1> QED BY <1>2, <1>4, <1>5, <1>6, <1>7, <1>8, <1>9, <1>10 DEF Base, Types

LEMMA BaseStart ==
    ASSUME LiveInit
    PROVE  Base
  <1>1. /\ mem = [k \in Keys |-> NoSession] /\ lru = << >> /\ tried = {}
        /\ store = << >> /\ torn = FALSE /\ turn = [p \in Programs |-> NoTurn]
        /\ native = [o \in Operations |-> "unsent"] /\ late = [o \in Operations |-> None]
        /\ lost = FALSE
    BY DEF LiveInit
  <1>2. DOMAIN NoSession.recs = {}
    BY EmptyMap DEF NoSession
  <1>3. MemType /\ MemFacts
    BY <1>1, <1>2 DEF MemType, MemFacts
  <1>4. Sizes
    <2>1. Cardinality(DOMAIN NoSession.recs) <= MaxPrograms
      BY <1>2, FS_EmptySet, LimitsAssumption
    <2> QED BY <1>1, <1>2, <2>1 DEF Sizes
  <1>5. Order
    <2>1. << >> \in Seq(Keys) /\ Len(<< >>) = 0 /\ ToSet(<< >>) = {}
      BY EmptyMap DEF ToSet
    <2>2. {k \in Keys : mem[k] # NoSession} = {}
      BY <1>1
    <2>3. 0 <= MaxSessions
      BY LimitsAssumption
    <2>4. Distinct(<< >>)
      BY <2>1 DEF Distinct
    <2> QED BY <1>1, <2>1, <2>2, <2>3, <2>4 DEF Order
  <1>6. \A p \in Programs : turn[p] = NoTurn
    BY <1>1
  <1>7. TurnType /\ NoTurn.pc = "new" /\ NoTurn.i = 0 /\ NoTurn.n = 1 /\ NoTurn.verdict = None
    BY <1>1, NoTurnIs DEF TurnType, NoTurn
  <1>8. TurnFacts /\ SeenFacts /\ Locks
    BY <1>1, <1>6, <1>7 DEF TurnFacts, TurnHolds, SeenFacts, SeenHolds, Locks, Restoring, Busy, Live, Before, Working
  <1>9. StoreFacts
    <2> SUFFICES ASSUME NEW k \in Keys PROVE StoreHolds(k, Replay(k))
      BY DEF StoreFacts
    <2>1. Replay(k) = NothingRead
      BY <1>1, ReplayEmpty DEF Replay
    <2>2. NothingRead.recs = << >> /\ NothingRead \in [ok : BOOLEAN, recs : RecordMaps]
      BY EmptyMap DEF NothingRead
    <2>3. DOMAIN NothingRead.recs = {}
      BY <2>2, EmptyMap
    <2> QED BY <2>1, <2>2, <2>3 DEF StoreHolds, Bounded
  <1>10. LinesType /\ LateType /\ NativeType /\ FlagTypes
    <2>1. LinesType
      <3>1. << >> \in Seq(Lines)
        OBVIOUS
      <3> QED BY <1>1, <3>1 DEF LinesType
    <2>2. LateType /\ NativeType
      BY <1>1 DEF LateType, NativeType
    <2>3. FlagTypes
      BY <1>1 DEF FlagTypes
    <2> QED BY <2>1, <2>2, <2>3
  <1> QED BY <1>3, <1>4, <1>5, <1>7, <1>8, <1>9, <1>10 DEF Base, Types

LEMMA TurnKeepsBase ==
    ASSUME Base, NEW p \in Programs, Turn(p)
    PROVE  Base'
  BY PublishKeeps, ReadStoreKeeps, RaiseKeeps, AppendProgramKeeps, WriteLineKeeps, RememberSectionsKeeps,
     BindKeeps, MarkDispatchedKeeps, SendChunkKeeps, StopEarlyKeeps, AnswerKeeps, StageKeeps DEF Turn

LEMMA BaseStep ==
    ASSUME Base, [LiveNext]_liveVars
    PROVE  Base'
  <1>1. ASSUME NEW p \in Programs, Turn(p) PROVE Base'
    BY <1>1, TurnKeepsBase
  <1>2. ASSUME NEW o \in Operations, Finish(o) PROVE Base'
    BY <1>2, FinishKeeps
  <1>3. ASSUME NEW o \in Operations, Reconcile(o) PROVE Base'
    BY <1>3, ReconcileKeeps
  <1>4. ASSUME NEW o \in Operations, WriteLate(o) PROVE Base'
    BY <1>4, WriteLateKeeps
  <1>5. CASE Crash
    BY <1>5, CrashKeeps
  <1>6. CASE UNCHANGED liveVars
    BY <1>6, StutterKeeps
  <1> QED BY <1>1, <1>2, <1>3, <1>4, <1>5, <1>6 DEF LiveNext

LEMMA BaseHolds == LiveSpec => []Base
  <1>1. LiveInit => Base
    BY BaseStart
  <1>2. Base /\ [LiveNext]_liveVars => Base'
    BY BaseStep
  <1> QED BY <1>1, <1>2, PTL DEF LiveSpec

(* ------------------------ what happened to the sessions ------------------------- *)

Past == evicted \in SUBSET Keys /\ reconciled \in SUBSET Keys

Grows ==
    /\ evicted \in SUBSET evicted' /\ reconciled \in SUBSET reconciled'
    /\ \A x \in Keys : x \in evicted' => x \in evicted \/ mem'[x] = NoSession

\* What happened stays so, and what is pushed out is not in memory then.
LEMMA PastStep ==
    ASSUME Base, [LiveNext]_liveVars
    PROVE  Grows /\ (Past => Past')
  <1>1. ASSUME evicted' = evicted, reconciled' = reconciled PROVE Grows /\ (Past => Past')
    BY <1>1 DEF Grows, Past
  <1>2. ASSUME NEW k \in Keys, NEW session \in Sessions, Put(k, session), reconciled' = reconciled
        PROVE  Grows /\ (Past => Past')
    <2>1. /\ evicted \in SUBSET evicted' /\ evicted' \in SUBSET (evicted \cup Keys)
          /\ \A x \in Keys : x \in evicted' => x \in evicted \/ mem'[x] = NoSession
      BY <1>2, PutIs DEF Base, Types
    <2> QED BY <1>2, <2>1 DEF Grows, Past
  <1>3. ASSUME NEW p \in Programs, Turn(p) PROVE Grows /\ (Past => Past')
    <2>1. CASE \/ Publish(p) \/ ReadStore(p) \/ WriteLine(p) \/ Bind(p) \/ MarkDispatched(p)
               \/ SendChunk(p) \/ StopEarly(p) \/ Answer(p) \/ Stage(p)
      BY <1>1, <2>1 DEF Publish, ReadStore, WriteLine, Bind, MarkDispatched, SendChunk, StopEarly, Answer, Stage
    <2>2. CASE Raise(p)
      <3>1. PICK k \in Keys, seen \in RecordMaps :
               /\ k = turn[p].key /\ seen = turn[p].seen /\ Bounded(seen) /\ mem[k] = NoSession
        BY <2>2, RaiseIs
      <3>2. reconciled' = reconciled /\ (evicted' = evicted \/ (seen # << >> /\ Put(k, Restored(seen))))
        BY <2>2, <3>1 DEF Raise
      <3>3. seen # << >> => Restored(seen) \in Sessions
        BY <3>1, RestoredIs DEF Bounded
      <3> QED BY <1>1, <1>2, <3>2, <3>3
    <2>3. CASE AppendProgram(p)
      <3>1. PICK k \in Keys, session \in Sessions : Put(k, session)
        BY <2>3, AppendProgramIs
      <3>2. reconciled' = reconciled
        BY <2>3 DEF AppendProgram
      <3> QED BY <1>2, <3>1, <3>2
    <2>4. CASE RememberSections(p)
      <3>1. PICK k \in Keys, session \in Sessions : Put(k, session)
        BY <2>4, RememberIs
      <3>2. reconciled' = reconciled
        BY <2>4 DEF RememberSections
      <3> QED BY <1>2, <3>1, <3>2
    <2> QED BY <1>3, <2>1, <2>2, <2>3, <2>4 DEF Turn
  <1>4. ASSUME NEW o \in Operations, Finish(o) \/ WriteLate(o) PROVE Grows /\ (Past => Past')
    BY <1>1, <1>4 DEF Finish, WriteLate
  <1>5. ASSUME NEW o \in Operations, Reconcile(o) PROVE Grows /\ (Past => Past')
    <2>1. PICK k \in Keys : \E s \in DOMAIN mem[k].recs :
             reconciled' = reconciled \cup {k} /\ evicted' = evicted
      BY <1>5, ReconcileIs
    <2> QED BY <2>1 DEF Grows, Past
  <1>6. CASE Crash
    BY <1>1, <1>6 DEF Crash
  <1>7. CASE UNCHANGED liveVars
    BY <1>1, <1>7 DEF liveVars
  <1> QED BY <1>3, <1>4, <1>5, <1>6, <1>7 DEF LiveNext

LEMMA PastHolds == LiveSpec => []Past
  <1>1. LiveInit => Past
    BY DEF LiveInit, Past
  <1>2. Base /\ Past /\ [LiveNext]_liveVars => Past'
    BY PastStep
  <1> QED BY <1>1, <1>2, BaseHolds, PTL DEF LiveSpec

(* ------------------------- what holds of any journal -------------------------- *)

\* Every variable has its type at all times, the order of use names the sessions
\* in memory, and a session's next number is above all its records
\* (journal.py 795-819, 1095-1120).
THEOREM LiveTypes == LiveSpec => []LiveTypeOK
  <1>1. ASSUME Base, Past PROVE LiveTypeOK
    <2>1. MemType /\ Order /\ Sizes /\ FlagTypes /\ NativeType
      BY <1>1 DEF Base, Types
    <2>2. \A k \in Keys : mem[k] # NoSession =>
             /\ \A s \in DOMAIN mem[k].recs : mem[k].recs[s] \in Records /\ s < mem[k].next
             /\ Cardinality(DOMAIN mem[k].recs) <= MaxPrograms
      BY <2>1, MemFields DEF Sizes
    <2>3. Len(lru) = Cardinality(ToSet(lru))
      BY <2>1, CountOf DEF Order
    <2> QED BY <1>1, <2>1, <2>2, <2>3 DEF LiveTypeOK, Order, FlagTypes, NativeType, Past
  <1> QED BY <1>1, BaseHolds, PastHolds, PTL

LEMMA HeldIs ==
    /\ \A h \in Held : h[1] \in Keys /\ h[2] \in DOMAIN mem[h[1]].recs
    /\ \A k \in Keys : \A s \in DOMAIN mem[k].recs : <<k, s>> \in Held
  <1>1. ASSUME NEW h \in Held PROVE h[1] \in Keys /\ h[2] \in DOMAIN mem[h[1]].recs
    <2>1. PICK k \in Keys : h \in {k} \X DOMAIN mem[k].recs
      BY DEF Held, HeldUnder
    <2> QED BY <2>1
  <1>2. ASSUME NEW k \in Keys, NEW s \in DOMAIN mem[k].recs PROVE <<k, s>> \in Held
    BY DEF Held, HeldUnder
  <1> QED BY <1>1, <1>2

\* A record is marked as dispatched only while the turn that dispatches it lives,
\* whatever becomes of the lines, of the sessions pushed out and of the process
\* (journal.py 1305-1317, serving.py 849-922).
THEOREM DispatchedInFlight == LiveSpec => []DispatchedIsInFlight
  <1>1. ASSUME Base PROVE DispatchedIsInFlight
    <2> SUFFICES ASSUME NEW h \in Held, Rec(h).stage = "dispatched"
                 PROVE  turn[Rec(h).prog].pc \notin {"new", "over"}
      BY DEF DispatchedIsInFlight
    <2>1. h[1] \in Keys /\ h[2] \in DOMAIN mem[h[1]].recs /\ Rec(h) = mem[h[1]].recs[h[2]]
      BY HeldIs DEF Rec
    <2>2. MemHolds(h[1], h[2], Rec(h))
      BY <1>1, <2>1 DEF Base, MemFacts
    <2>3. Rec(h).stage \notin EndStages
      BY DEF EndStages, Side, Built
    <2> QED BY <2>2, <2>3 DEF MemHolds, Working
  <1> QED BY <1>1, BaseHolds, PTL

\* What a step may do to a record: nothing that takes back an end.
RecordStands(r, s) ==
    /\ s.prog = r.prog
    /\ r.ops \subseteq s.ops
    /\ r.stage \in Built => s.stage \in Built
    /\ r.stage \in Side => s.stage = r.stage \/ (r.stage = "running_unknown" /\ s.late)

RecordsStand ==
    \A k \in Keys : \A s \in DOMAIN mem[k].recs :
        s \in DOMAIN mem'[k].recs => RecordStands(mem[k].recs[s], mem'[k].recs[s])

LEMMA SameStands ==
    ASSUME mem' = mem
    PROVE  RecordsStand
  BY DEF RecordsStand, RecordStands

LEMMA SetStands ==
    ASSUME Base, lru' = lru, NEW k \in Keys, NEW seq \in DOMAIN mem[k].recs, NEW record \in Records,
           SetRecord(k, seq, record), RecordStands(mem[k].recs[seq], record)
    PROVE  RecordsStand
  <1>1. /\ \A x \in Keys : x # k => mem'[x] = mem[x]
        /\ mem'[k].recs[seq] = record
        /\ \A s \in DOMAIN mem[k].recs : s # seq => mem'[k].recs[s] = mem[k].recs[s]
    BY SetRecordIs DEF Base, Types
  <1>2. ASSUME NEW x \in Keys, NEW s \in DOMAIN mem[x].recs
        PROVE  RecordStands(mem[x].recs[s], mem'[x].recs[s])
    <2>1. CASE x = k /\ s = seq
      BY <1>1, <2>1
    <2>2. CASE ~ (x = k /\ s = seq)
      <3>1. mem'[x].recs[s] = mem[x].recs[s]
        BY <1>1, <2>2
      <3> QED BY <3>1 DEF RecordStands
    <2> QED BY <2>1, <2>2
  <1> QED BY <1>2 DEF RecordsStand

LEMMA ForwardStands ==
    ASSUME NEW r \in Records, NEW stage \in Main \cup Side, Forward(r.stage, stage)
    PROVE  [r EXCEPT !.stage = stage] \in Records /\ RecordStands(r, [r EXCEPT !.stage = stage])
  <1>1. PICK s : s = [r EXCEPT !.stage = stage]
    OBVIOUS
  <1>2. s \in Records /\ s.prog = r.prog /\ s.ops = r.ops /\ s.stage = stage
    BY <1>1 DEF Records
  <1>3. r.stage \notin Side /\ (r.stage \in Built => s.stage \in Built)
    BY <1>2 DEF Forward, Main, Side, Built, Rank
  <1> QED BY <1>1, <1>2, <1>3 DEF RecordStands

LEMMA PutStands ==
    ASSUME Base, NEW k \in Keys, NEW session \in Sessions, Put(k, session),
           \A s \in DOMAIN mem[k].recs : s \in DOMAIN session.recs => session.recs[s] = mem[k].recs[s]
    PROVE  RecordsStand
  <1>1. mem'[k] = session /\ \A x \in Keys \ {k} : mem'[x] = mem[x] \/ mem'[x] = NoSession
    BY PutIs DEF Base, Types
  <1>2. DOMAIN NoSession.recs = {}
    BY EmptyMap DEF NoSession
  <1>3. ASSUME NEW x \in Keys, NEW s \in DOMAIN mem[x].recs, s \in DOMAIN mem'[x].recs
        PROVE  mem'[x].recs[s] = mem[x].recs[s]
    <2>1. CASE x = k
      BY <1>1, <1>3, <2>1
    <2>2. CASE x # k
      BY <1>1, <1>2, <1>3, <2>2
    <2> QED BY <2>1, <2>2
  <1> QED BY <1>3 DEF RecordsStand, RecordStands

LEMMA StandStep ==
    ASSUME Base, [LiveNext]_liveVars
    PROVE  RecordsStand
  <1>1. ASSUME NEW p \in Programs, Turn(p) PROVE RecordsStand
    <2>1. CASE Publish(p) \/ ReadStore(p) \/ WriteLine(p) \/ SendChunk(p) \/ StopEarly(p) \/ Answer(p)
      <3>1. mem' = mem
        BY <2>1 DEF Publish, ReadStore, WriteLine, SendChunk, StopEarly, Answer
      <3> QED BY <3>1, SameStands
    <2>2. CASE Raise(p)
      <3>1. PICK k \in Keys, seen \in RecordMaps :
               /\ mem[k] = NoSession /\ Bounded(seen)
               /\ mem' = mem \/ (seen # << >> /\ Put(k, Restored(seen)))
        BY <2>2, RaiseIs
      <3>2. CASE mem' = mem
        BY <3>2, SameStands
      <3>3. CASE seen # << >> /\ Put(k, Restored(seen))
        <4>1. Restored(seen) \in Sessions
          BY <3>1, <3>3, RestoredIs DEF Bounded
        <4>2. DOMAIN mem[k].recs = {}
          BY <3>1, EmptyMap DEF NoSession
        <4> QED BY <3>3, <4>1, <4>2, PutStands
      <3> QED BY <3>1, <3>2, <3>3
    <2>3. CASE AppendProgram(p)
      <3>1. PICK k \in Keys, session \in Sessions, seq \in Nat :
              /\ \A s \in DOMAIN mem[k].recs : s < seq
              /\ Put(k, session)
              /\ \A s \in DOMAIN session.recs :
                    \/ s = seq /\ session.recs[s] = NewRecord(p)
                    \/ s \in DOMAIN mem[k].recs /\ session.recs[s] = mem[k].recs[s]
        BY <2>3, AppendProgramIs
      <3>2. DOMAIN mem[k].recs \in SUBSET Nat
        BY MemFields DEF Base, Types
      <3>3. ASSUME NEW s \in DOMAIN mem[k].recs, s \in DOMAIN session.recs
            PROVE  session.recs[s] = mem[k].recs[s]
        <4>1. s \in Nat /\ s < seq
          BY <3>1, <3>2
        <4>2. s # seq
          BY <4>1
        <4> QED BY <3>1, <3>3, <4>2
      <3> QED BY <3>1, <3>3, PutStands
    <2>4. CASE RememberSections(p)
      <3>1. PICK k \in Keys, session \in Sessions : Put(k, session) /\ session.recs = mem[k].recs
        BY <2>4, RememberIs
      <3> QED BY <3>1, PutStands
    <2>5. CASE Bind(p)
      <3>1. PICK k \in Keys, seq \in Nat :
               /\ k = turn[p].key /\ seq = turn[p].seq /\ Current(p) \in Operations
               /\ \/ /\ CanBind(k, seq, Current(p))
                     /\ SetRecord(k, seq, [mem[k].recs[seq] EXCEPT !.ops = @ \cup {Current(p)}])
                  \/ mem' = mem
        BY <2>5, BindIs
      <3>2. CASE mem' = mem
        BY <3>2, SameStands
      <3>3. CASE /\ CanBind(k, seq, Current(p))
                 /\ SetRecord(k, seq, [mem[k].recs[seq] EXCEPT !.ops = @ \cup {Current(p)}])
        <4>1. seq \in DOMAIN mem[k].recs
          BY <3>3 DEF CanBind, InMemory
        <4>2. PICK r \in Records : r = mem[k].recs[seq]
          BY <4>1, MemFields DEF Base, Types
        <4>3. PICK record : record = [r EXCEPT !.ops = @ \cup {Current(p)}]
          OBVIOUS
        <4>4. record \in Records /\ RecordStands(r, record)
          BY <3>1, <4>3 DEF Records, RecordStands
        <4>5. lru' = lru
          BY <2>5 DEF Bind
        <4> QED BY <3>3, <4>1, <4>2, <4>3, <4>4, <4>5, SetStands
      <3> QED BY <3>1, <3>2, <3>3
    <2>6. ASSUME NEW stage \in Main \cup Side, NEW k \in Keys, NEW seq \in Nat, lru' = lru,
                 CanAdvance(k, seq, stage), SetRecord(k, seq, [mem[k].recs[seq] EXCEPT !.stage = stage])
          PROVE  RecordsStand
      <3>1. seq \in DOMAIN mem[k].recs /\ Forward(mem[k].recs[seq].stage, stage)
        BY <2>6 DEF CanAdvance, InMemory
      <3>2. PICK r \in Records : r = mem[k].recs[seq]
        BY <3>1, MemFields DEF Base, Types
      <3>3. PICK record : record = [r EXCEPT !.stage = stage]
        OBVIOUS
      <3>4. record \in Records /\ RecordStands(r, record)
        BY <3>1, <3>2, <3>3, ForwardStands
      <3> QED BY <2>6, <3>1, <3>2, <3>3, <3>4, SetStands
    <2>7. CASE MarkDispatched(p)
      <3>1. PICK stage \in Main \cup Side : stage = "dispatched"
        BY DEF Main
      <3>2. lru' = lru
        BY <2>7 DEF MarkDispatched
      <3> QED BY <2>6, <2>7, <3>1, <3>2, MarkIs, SameStands
    <2>8. CASE Stage(p)
      <3>1. lru' = lru
        BY <2>8 DEF Stage
      <3> QED BY <2>6, <2>8, <3>1, StageIs, SameStands
    <2> QED BY <1>1, <2>1, <2>2, <2>3, <2>4, <2>5, <2>7, <2>8 DEF Turn
  <1>2. ASSUME NEW o \in Operations, Finish(o) \/ WriteLate(o) PROVE RecordsStand
    BY <1>2, SameStands DEF Finish, WriteLate
  <1>3. ASSUME NEW o \in Operations, Reconcile(o) PROVE RecordsStand
    <2>1. PICK k \in Keys : \E s \in DOMAIN mem[k].recs :
              /\ Reconcilable(k, s, o)
              /\ [mem[k].recs[s] EXCEPT !.stage = "committed", !.late = TRUE] \in Records
              /\ SetRecord(k, s, [mem[k].recs[s] EXCEPT !.stage = "committed", !.late = TRUE])
      BY <1>3, ReconcileIs
    <2>2. PICK s \in DOMAIN mem[k].recs :
              /\ Reconcilable(k, s, o)
              /\ [mem[k].recs[s] EXCEPT !.stage = "committed", !.late = TRUE] \in Records
              /\ SetRecord(k, s, [mem[k].recs[s] EXCEPT !.stage = "committed", !.late = TRUE])
      BY <2>1
    <2>3. PICK r \in Records : r = mem[k].recs[s]
      BY MemFields DEF Base, Types
    <2>4. PICK record : record = [r EXCEPT !.stage = "committed", !.late = TRUE]
      OBVIOUS
    <2>5. r.stage = "running_unknown"
      BY <2>2, <2>3 DEF Reconcilable
    <2>6. record \in Records /\ RecordStands(r, record)
      BY <2>4, <2>5 DEF Records, RecordStands, Built, Main
    <2>7. lru' = lru
      BY <1>3 DEF Reconcile
    <2> QED BY <2>2, <2>3, <2>4, <2>6, <2>7, SetStands
  <1>4. CASE Crash
    <2>1. \A k \in Keys : DOMAIN mem'[k].recs = {}
      BY <1>4, CrashIs, EmptyMap DEF NoSession
    <2> QED BY <2>1 DEF RecordsStand
  <1>5. CASE UNCHANGED liveVars
    BY <1>5, SameStands DEF liveVars
  <1> QED BY <1>1, <1>2, <1>3, <1>4, <1>5 DEF LiveNext

\* While its session stays in memory, a record keeps its place and its program,
\* what is built stays built, and only an unknown end may become a commit
\* (journal.py 562-633, 670-717).
THEOREM EndsStandAlways == LiveSpec => EndsStand
  <1>1. ASSUME Base, [LiveNext]_liveVars
        PROVE  [\A h \in Held : InMemory(h[1], h[2])' =>
                  LET r == Rec(h)
                      s == Rec(h)'
                  IN /\ s.prog = r.prog
                     /\ r.ops \subseteq s.ops
                     /\ r.stage \in Built => s.stage \in Built
                     /\ r.stage \in Side => s.stage = r.stage \/ (r.stage = "running_unknown" /\ s.late)]_liveVars
    <2>1. RecordsStand
      BY <1>1, StandStep
    <2>2. ASSUME NEW h \in Held, InMemory(h[1], h[2])' PROVE RecordStands(Rec(h), Rec(h)')
      <3>1. h[1] \in Keys /\ h[2] \in DOMAIN mem[h[1]].recs /\ h[2] \in DOMAIN mem'[h[1]].recs
        BY <2>2, HeldIs DEF InMemory
      <3> QED BY <2>1, <3>1 DEF RecordsStand, Rec
    <2> QED BY <2>2 DEF RecordStands
  <1> QED BY <1>1, BaseHolds, PTL DEF LiveSpec, EndsStand
=============================================================================
