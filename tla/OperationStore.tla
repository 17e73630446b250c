--------------------------- MODULE OperationStore ---------------------------
(***************************************************************************)
(* kir/operations: what the server remembers of each operation it sends to  *)
(* Revit (store.py) and the phases it may go through (protocol.py).         *)
(*                                                                          *)
(* Every method holds the store's lock, so each is one action.  Workers     *)
(* dispatch: they claim an operation and send it if the claim was theirs.   *)
(* Reports of what became of it come from outside, in any order, late and   *)
(* more than once; Report takes every phase a report may name.  The attempt  *)
(* id and the error of a record are read by nobody here and left out.        *)
(***************************************************************************)
EXTENDS Naturals, FiniteSets

CONSTANTS Ops,       \* operation ids
          Bodies,    \* what the id stands for: payload hash and action id
          Workers,   \* dispatchers; each has an attempt id of its own
          Receipts,  \* receipt documents
          Outcomes,  \* OperationOutcome
          NoRecord,  \* the store does not know the id
          Blank      \* no outcome or receipt

ASSUME BlankAssumption == Blank \notin Receipts \union Outcomes

VARIABLES records,  \* _records
          attempt,  \* what each worker is doing about each operation
          sent,     \* the workers that sent each operation (history)
          past      \* the phases each operation has been in (history)

vars == <<records, attempt, sent, past>>

-----------------------------------------------------------------------------
(* protocol.py *)

ReceiptPhases == {"RECEIPT_PERSISTED_CLIENT", "RECEIPT_DELIVERED_SERVER"}
Ended == {"COMMITTED", "COMMITTED_PARTIAL", "ROLLED_BACK", "FAILED_BEFORE_COMMIT"}
Verdicts == {"VERIFIED", "UNVERIFIED"}
Phases == ReceiptPhases \union Ended \union Verdicts \union
          {"CREATED", "PERSISTED_SERVER", "DISPATCH_CLAIMED", "SENT", "ACCEPTED_CLIENT",
           "QUEUED_REVIT", "STARTED", "RUNNING_UNKNOWN", "CANCELLED_BEFORE_START",
           "ACKNOWLEDGED"}

\* _ALLOWED_TRANSITIONS
AllowedTransitions == [p \in Phases |->
    CASE p = "CREATED" -> {"PERSISTED_SERVER", "DISPATCH_CLAIMED", "CANCELLED_BEFORE_START"}
      [] p = "PERSISTED_SERVER" -> {"DISPATCH_CLAIMED", "CANCELLED_BEFORE_START"}
      [] p = "DISPATCH_CLAIMED" -> {"SENT", "RUNNING_UNKNOWN", "FAILED_BEFORE_COMMIT",
                                    "CANCELLED_BEFORE_START"} \union ReceiptPhases
      [] p = "SENT" -> {"ACCEPTED_CLIENT", "QUEUED_REVIT", "STARTED", "RUNNING_UNKNOWN",
                        "CANCELLED_BEFORE_START"} \union Ended \union ReceiptPhases
      [] p = "ACCEPTED_CLIENT" -> {"QUEUED_REVIT", "STARTED", "RUNNING_UNKNOWN",
                                   "CANCELLED_BEFORE_START"} \union Ended \union ReceiptPhases
      [] p = "QUEUED_REVIT" -> {"STARTED", "RUNNING_UNKNOWN",
                                "CANCELLED_BEFORE_START"} \union Ended \union ReceiptPhases
      [] p = "STARTED" -> {"RUNNING_UNKNOWN"} \union Ended \union ReceiptPhases
      [] p = "RUNNING_UNKNOWN" -> Ended \union ReceiptPhases
      [] p \in {"COMMITTED", "COMMITTED_PARTIAL"} -> Verdicts \union ReceiptPhases \union {"ACKNOWLEDGED"}
      [] p \in Verdicts \union {"ROLLED_BACK", "FAILED_BEFORE_COMMIT", "CANCELLED_BEFORE_START"}
                -> ReceiptPhases \union {"ACKNOWLEDGED"}
      [] p = "RECEIPT_PERSISTED_CLIENT" -> {"RECEIPT_DELIVERED_SERVER", "ACKNOWLEDGED"}
      [] p = "RECEIPT_DELIVERED_SERVER" -> {"ACKNOWLEDGED"}
      [] p = "ACKNOWLEDGED" -> {}]

\* PHASE_RANK
PhaseRank == [p \in Phases |->
    CASE p = "CREATED" -> 10
      [] p = "PERSISTED_SERVER" -> 20
      [] p = "DISPATCH_CLAIMED" -> 25
      [] p = "SENT" -> 30
      [] p = "ACCEPTED_CLIENT" -> 40
      [] p = "QUEUED_REVIT" -> 50
      [] p = "STARTED" -> 60
      [] p = "RUNNING_UNKNOWN" -> 65
      [] p \in Ended \union {"CANCELLED_BEFORE_START"} -> 70
      [] p \in Verdicts -> 80
      [] p = "RECEIPT_PERSISTED_CLIENT" -> 90
      [] p = "RECEIPT_DELIVERED_SERVER" -> 100
      [] p = "ACKNOWLEDGED" -> 110]

\* Mutant: a change from verified to unverified counts as a correction.
TransitionAllowedSameRank(old, new) ==
    \/ old = new
    \/ new \in AllowedTransitions[old]
    \/ {old, new} = Verdicts

TransitionAllowed(old, new) == old = new \/ new \in AllowedTransitions[old]

-----------------------------------------------------------------------------
(* store.py *)

Record == [body : Bodies, phase : Phases,
           outcome : Outcomes \union {Blank}, receipt : Receipts \union {Blank}]

ASSUME RecordAssumption == NoRecord \notin Record

TypeOK ==
    /\ records \in [Ops -> Record \union {NoRecord}]
    /\ attempt \in [Workers -> [Ops -> {"idle", "claimed", "gone"}]]
    /\ sent \in [Ops -> SUBSET Workers]
    /\ past \in [Ops -> SUBSET Phases]

Init ==
    /\ records = [o \in Ops |-> NoRecord]
    /\ attempt = [w \in Workers |-> [o \in Ops |-> "idle"]]
    /\ sent = [o \in Ops |-> {}]
    /\ past = [o \in Ops |-> {}]

Known(o) == records[o] # NoRecord

Store(o, r) ==
    /\ records' = [records EXCEPT ![o] = r]
    /\ past' = [past EXCEPT ![o] = @ \union {r.phase}]

New(b) == [body |-> b, phase |-> "CREATED", outcome |-> Blank, receipt |-> Blank]

\* create of a known id returns what is there, or refuses another body.
Create(o, b) ==
    /\ ~Known(o)
    /\ Store(o, New(b))
    /\ UNCHANGED <<attempt, sent>>

Given(new, old) == IF new = Blank THEN old ELSE new

\* Mutant: the receipt of the last report wins.
AppliedLastWins(r, p, out, rcpt) ==
    [r EXCEPT !.phase = p, !.outcome = Given(out, @), !.receipt = Given(rcpt, @)]

\* What an allowed transition leaves of the record.  Another receipt is refused,
\* but phase and outcome have been set by then.
Applied(r, p, out, rcpt) ==
    [r EXCEPT !.phase = p, !.outcome = Given(out, @),
              !.receipt = IF @ = Blank THEN rcpt ELSE @]

Transition(o, p, out, rcpt) ==
    /\ Known(o)
    /\ TransitionAllowed(records[o].phase, p)
    /\ Store(o, Applied(records[o], p, out, rcpt))

\* A report, or the host's own bookkeeping: any phase, with or without a receipt.
Report(o, p, out, rcpt) ==
    /\ Transition(o, p, out, rcpt)
    /\ UNCHANGED <<attempt, sent>>

\* Mutant: an operation that is claimed can be claimed again.
ClaimDispatchAgain(w, o) ==
    /\ Known(o) /\ attempt[w][o] = "idle"
    /\ records[o].phase \in {"CREATED", "PERSISTED_SERVER", "DISPATCH_CLAIMED"}
    /\ Store(o, [records[o] EXCEPT !.phase = "DISPATCH_CLAIMED"])
    /\ attempt' = [attempt EXCEPT ![w][o] = "claimed"]
    /\ UNCHANGED sent

\* claim_dispatch; a worker that gets nothing back does not send.
ClaimDispatch(w, o) ==
    /\ Known(o) /\ attempt[w][o] = "idle"
    /\ records[o].phase \in {"CREATED", "PERSISTED_SERVER"}
    /\ Store(o, [records[o] EXCEPT !.phase = "DISPATCH_CLAIMED"])
    /\ attempt' = [attempt EXCEPT ![w][o] = "claimed"]
    /\ UNCHANGED sent

\* The worker sends what it claimed, whatever has been reported meanwhile ...
Send(w, o) ==
    /\ attempt[w][o] = "claimed"
    /\ attempt' = [attempt EXCEPT ![w][o] = "gone"]
    /\ sent' = [sent EXCEPT ![o] = @ \union {w}]
    /\ \/ Transition(o, "SENT", Blank, Blank)
       \/ UNCHANGED <<records, past>>

\* ... or dies before it could.
WorkerDies(w, o) ==
    /\ attempt[w][o] = "claimed"
    /\ attempt' = [attempt EXCEPT ![w][o] = "gone"]
    /\ UNCHANGED <<records, sent, past>>

Next ==
    \E o \in Ops :
        \/ \E b \in Bodies : Create(o, b)
        \/ \E p \in Phases, out \in Outcomes \union {Blank}, rcpt \in Receipts \union {Blank} :
              Report(o, p, out, rcpt)
        \/ \E w \in Workers : ClaimDispatch(w, o) \/ Send(w, o) \/ WorkerDies(w, o)

Spec == Init /\ [][Next]_vars

-----------------------------------------------------------------------------
(* Properties *)

\* Two workers never send one operation, whatever is created again or reported
\* between claim and send (store.py 137-158).
SentByOneWorker == \A o \in Ops : Cardinality(sent[o]) <= 1

\* Whatever order reports come in, an operation's past tells one story: it ended
\* in one way at most, not before it was claimed for dispatch, and was never both
\* verified and unverified (protocol.py 118-130, 213-240).
OneStory ==
    \A o \in Ops :
        /\ Cardinality(past[o] \intersect (Ended \union {"CANCELLED_BEFORE_START"})) <= 1
        /\ Cardinality(past[o] \intersect Verdicts) <= 1
        /\ "STARTED" \in past[o] => "CANCELLED_BEFORE_START" \notin past[o]
        /\ past[o] \intersect (Ended \union Verdicts) # {} => "DISPATCH_CLAIMED" \in past[o]

\* A receipt, once stored, is never replaced, nor does the id come to stand for
\* something else (store.py 92-103, 128-131).
ReceiptStands ==
    [][\A o \in Ops : Known(o) =>
          /\ records'[o].body = records[o].body
          /\ records[o].receipt # Blank => records'[o].receipt = records[o].receipt]_vars

=============================================================================
