---------------------------- MODULE A5Recovery ----------------------------
(***************************************************************************)
(* The live idempotence run A5 (kir/idempotence.py run_idempotence, driven by *)
(* kir/serving.py handle_revit_idempotence): rebuild a plan of programs beside *)
(* the original, compare, delete the copy again or keep it.  Its journal        *)
(* (kir/a5_recovery.py) and its recovery (kir/a5_live.py) let a request that     *)
(* died or lost an answer be made again.                                      *)
(*                                                                          *)
(* One server, one document, one request and its journal.  Revit runs one      *)
(* command at a time, in order: an effect whose answer was lost has happened or *)
(* not before the next command runs.  The user may edit the document at any     *)
(* time, the copy included, but does not bring deleted elements back.           *)
(***************************************************************************)
EXTENDS Naturals, Sequences, FiniteSets

CONSTANTS PlanLength,   \* programs of the plan
          Isolated,     \* those that are one host group, with nothing else to lose
          MaxRequests,  \* bound: how often the request is made
          MaxEdits,     \* bound: edits of the user beside the copy
          None

ASSUME BoundsAssumption == PlanLength \in Nat \ {0} /\ MaxRequests \in Nat /\ MaxEdits \in Nat
ASSUME IsolatedAssumption == Isolated \subseteq 1 .. PlanLength

VARIABLES journal,   \* A5Replay: what replaying the file gives
          torn,      \* bytes follow the last newline
          keep,      \* the request asks to keep the copy
          model,     \* the elements stamped by this run, each by one effect
          edits,     \* edits of the document beside the copy
          run,       \* the request being handled
          requests

vars == <<journal, torn, keep, model, edits, run, requests>>

Plan == 1 .. PlanLength
Phases == <<"None", "Prepared", "SnapshotVerified", "Rebuilt", "Reconciled", "Compared",
            "CleanupPreviewed", "Completed">>

\* The fingerprint of the document is a function of its content.
Revision == <<model, edits>>
Snapshot == <<{}, 0>>

\* An effect is told from all others that are still spoken of; the plan is built in
\* order, so that the last receipt is that of the greatest program.
Effects == [id : Nat, kind : {"rebuild", "delete", "sweep"}, program : Plan \union {0}]

Empty == [phase |-> 1, pending |-> {}, receipts |-> {}, rebuilt |-> Snapshot, preview |-> {}, abandoned |-> FALSE]

InPhase(phase) == Phases[journal.phase] = phase
Reached(phase) == \E n \in 1 .. journal.phase : Phases[n] = phase

Committed == {r \in journal.receipts : r.committed}
Decided == {r.effect.program : r \in journal.receipts}
Witnessed == {r.effect : r \in Committed}
LastRevision(receipts) == (CHOOSE r \in receipts : \A q \in receipts : q.effect.program <= r.effect.program).revision
Closed == journal.abandoned \/ InPhase("Completed")

\* expected_document_revision
Expected ==
    CASE Reached("Rebuilt") -> journal.rebuilt
      [] ~Reached("Rebuilt") /\ journal.receipts # {} -> LastRevision(journal.receipts)
      [] OTHER -> Snapshot

-----------------------------------------------------------------------------

Idle == [pc |-> "idle", made |-> {}, skipped |-> {}, effect |-> None, left |-> {}, clean |-> FALSE,
         next |-> "idle"]

Init ==
    /\ journal = Empty /\ torn = FALSE
    /\ keep \in BOOLEAN
    /\ model = {} /\ edits = 0
    /\ run = Idle /\ requests = 0

At(pc) == run.pc = pc
Goto(pc) == run' = [run EXCEPT !.pc = pc]
\* An exception of the recovery, or the end: the lease is released.
Stop == run' = Idle
\* Nothing of the copy may be in the document before next; else it is swept.
Clear(next) == run' = [run EXCEPT !.pc = IF model = {} THEN next ELSE "sweep?", !.next = next]
\* An exception inside the run: the copy is cleaned up first.
Fail == run' = [run EXCEPT !.pc = IF run.made = {} THEN "sweep?" ELSE "delete?", !.next = "settle"]

(* one record each: _append, with what _apply_record makes of it *)

\* No phase is entered and no epoch begun while an effect pends.
Transition(proved) == journal.pending = {} /\ journal' = [proved EXCEPT !.phase = @ + 1]
Advance == Transition(journal)

Start(kind, program) ==
    LET inUse == {e.id : e \in model \union journal.pending \union {r.effect : r \in journal.receipts}}
        effect == [id |-> CHOOSE n \in 0 .. Cardinality(inUse) : n \notin inUse, kind |-> kind, program |-> program]
    IN /\ journal' = [journal EXCEPT !.pending = @ \union {effect}]
       /\ run' = [run EXCEPT !.pc = kind, !.effect = effect]

Finish(effect) == journal' = [journal EXCEPT !.pending = @ \ {effect}]

Receipt(committed) ==
    journal' = [journal EXCEPT
        !.pending = @ \ {run.effect},
        !.receipts = @ \union {[effect |-> run.effect, committed |-> committed,
                                revision |-> IF committed THEN Revision ELSE Snapshot]}]

NewEpoch == journal.pending = {} /\ journal' = [journal EXCEPT !.receipts = {}]

Here == UNCHANGED <<torn, keep, model, edits, requests>>
Only == UNCHANGED journal /\ Here

\* find_resumable, then the torn tail is repaired under the lease.  A journal
\* without one complete record refuses every request.
Request ==
    /\ At("idle") /\ ~Closed /\ requests < MaxRequests
    /\ journal = Empty => ~torn
    /\ requests' = requests + 1
    /\ torn' = FALSE
    /\ run' = [Idle EXCEPT !.pc = IF journal = Empty THEN "create" ELSE "verify"]
    /\ UNCHANGED <<journal, keep, model, edits>>

Create ==
    /\ At("create")
    /\ \/ Revision = Snapshot /\ Advance /\ Goto("verify") /\ Here
       \/ Revision # Snapshot /\ Stop /\ Only

Verify ==
    /\ At("verify")
    /\ Goto("recover")
    /\ IF Reached("SnapshotVerified") THEN Only ELSE Advance /\ Here

-----------------------------------------------------------------------------
(* recover_pending_effects; every preview may fail and stop it *)

\* Mutant: the pending effects are closed without sweeping what they made.
RecoverUnswept ==
    /\ At("recover") /\ Only
    /\ IF journal.pending = {} THEN Goto("resume")
       ELSE \/ Stop
            \/ run' = [run EXCEPT !.pc = "close", !.left = journal.pending]

Recover ==
    /\ At("recover") /\ Only
    /\ IF journal.pending = {} THEN Goto("resume")
       ELSE \/ Stop
            \/ run' = [run EXCEPT !.pc = IF model = {} THEN "close" ELSE "sweep?",
                                  !.left = journal.pending, !.next = "close"]

\* One effect after the other is closed, then a new epoch forgets the receipts.
Close ==
    /\ At("close") /\ Here
    /\ LET open == run.left \intersect journal.pending
       IN \/ (\E effect \in open : Finish(effect)) /\ UNCHANGED run
          \/ open = {} /\ InPhase("SnapshotVerified") /\ NewEpoch /\ Goto("resume")
          \/ open = {} /\ ~InPhase("SnapshotVerified") /\ Goto("resume") /\ UNCHANGED journal

\* A rebuild is taken up again, or swept; a cleanup is finished.
Resume ==
    /\ At("resume")
    /\ \/ Stop /\ Only
       \/ /\ InPhase("SnapshotVerified") /\ journal.receipts # {} /\ Only
          /\ IF Committed = journal.receipts /\ model = Witnessed
             THEN IF Revision = Expected THEN Goto("check") ELSE Stop
             ELSE Goto("reset")
       \/ /\ InPhase("CleanupPreviewed") /\ keep
          /\ Stop
          /\ IF model = journal.preview /\ Revision = Expected
             THEN Advance /\ Here ELSE Only
       \/ /\ InPhase("CleanupPreviewed") /\ ~keep /\ Only
          /\ Clear("conclude")
       \/ /\ InPhase("SnapshotVerified") => journal.receipts = {}
          /\ ~InPhase("CleanupPreviewed")
          /\ Goto("check") /\ Only

Conclude ==
    /\ At("conclude") /\ Stop
    /\ IF Revision = Snapshot THEN Advance /\ Here ELSE Only

\* _reset_partial_rebuild_epoch, of the recovery or of the plan.
Reset ==
    /\ Only
    /\ \/ At("reset") /\ (Stop \/ Clear("renew"))
       \/ At("replan") /\ (Fail \/ Clear("restart"))

Renew ==
    \/ /\ At("renew")
       /\ IF Revision = Snapshot THEN NewEpoch /\ Goto("check") /\ Here ELSE Stop /\ Only
    \/ /\ At("restart")
       /\ IF Revision = Snapshot THEN NewEpoch /\ Goto("build") /\ Here ELSE Fail /\ Only

\* The last look at the document before the run goes on; prepare_rebuild_plan
\* takes up receipts of a prefix of the plan and forgets any others.
Check ==
    /\ At("check") /\ Only
    /\ \/ Revision # Expected /\ Stop
       \/ /\ Revision = Expected /\ Decided = 1 .. Cardinality(Decided)
          /\ run' = [run EXCEPT !.pc = "build", !.made = Witnessed]
       \/ /\ Revision = Expected /\ Decided # 1 .. Cardinality(Decided)
          /\ IF InPhase("SnapshotVerified") THEN Goto("replan") ELSE Fail

-----------------------------------------------------------------------------
(* rebuild, compare *)

\* Programs the run has not come to yet.
Left == Plan \ (Decided \union run.skipped)

\* Without a witness the run fails; past an isolated program it goes on.
Unanswered(program) ==
    \/ Fail
    \/ program \in Isolated /\ run' = [run EXCEPT !.pc = "build", !.skipped = @ \union {program}]

\* The journal hears of an effect before Revit does; a program may be refused
\* before there is one.
StartRebuild ==
    /\ At("build") /\ Here
    /\ \E p \in Left :
          /\ \A q \in Left : p <= q
          /\ Start("rebuild", p) \/ (Unanswered(p) /\ UNCHANGED journal)

\* Mutant: a program without an answer is tried again.
RunRebuildRetries ==
    /\ At("rebuild") /\ UNCHANGED <<journal, torn, keep, edits, requests>>
    /\ \/ model' = model \union {run.effect} /\ (Goto("rebuilt") \/ Goto("build"))
       \/ UNCHANGED model /\ (Goto("refused") \/ Goto("build"))

\* Revit commits or rolls back; only a typed answer is taken for either, and
\* without one the effect stays pending.
RunRebuild ==
    /\ At("rebuild") /\ UNCHANGED <<journal, torn, keep, edits, requests>>
    /\ \/ model' = model \union {run.effect} /\ (Goto("rebuilt") \/ Unanswered(run.effect.program))
       \/ UNCHANGED model /\ (Goto("refused") \/ Unanswered(run.effect.program))

\* The receipt carries the revision probed after the commit; without one the
\* effect stays pending, and with operations unaccounted for it does and the
\* run fails.
FinishRebuild ==
    /\ At("rebuilt") /\ Here
    /\ \/ Unanswered(run.effect.program) /\ UNCHANGED journal
       \/ Receipt(TRUE) /\ run' = [run EXCEPT !.pc = "build", !.made = @ \union {run.effect}]

FinishRefused == At("refused") /\ Receipt(FALSE) /\ Goto("build") /\ Here

\* Too many programs may have been refused, isolated ones not counted; one that
\* was passed over leaves the plan uncovered, and after_rebuilt refuses it.
EndBuild ==
    /\ At("build") /\ Left = {} /\ Only
    /\ \/ Decided = Plan /\ run.made # {} /\ Goto("prove")
       \/ Decided # Plan /\ Fail
       \/ /\ ~Reached("Rebuilt") /\ Fail
          /\ run.made = {} \/ \E r \in journal.receipts \ Committed : r.effect.program \notin Isolated

\* after_rebuilt: all receipts, and the revision of the last commit.
ProveRebuilt ==
    /\ At("prove")
    /\ IF Reached("Rebuilt") THEN Goto("reconcile") /\ Only
       ELSE \/ /\ Revision = LastRevision(Committed)
             /\ Transition([journal EXCEPT !.rebuilt = Revision])
             /\ Goto("reconcile") /\ Here
            \/ Fail /\ Only

Unmoved == Revision = journal.rebuilt

Reconcile ==
    /\ At("reconcile")
    /\ IF Reached("Reconciled") THEN Goto("compare") /\ Only
       ELSE \/ model = run.made /\ Unmoved /\ Advance /\ Goto("compare") /\ Here
            \/ Fail /\ Only

Compare ==
    /\ At("compare")
    /\ \/ Fail /\ Only
       \/ Reached("Compared") /\ Unmoved /\ Goto("preview") /\ Only
       \/ ~Reached("Compared") /\ Unmoved /\ Advance /\ Goto("preview") /\ Here

\* before_cleanup; a copy to be kept is not touched any more.
PreviewCleanup ==
    /\ At("preview")
    /\ \/ Fail /\ Only
       \/ /\ model = run.made /\ Unmoved /\ Here
          /\ Transition([journal EXCEPT !.preview = run.made])
          /\ run' = [run EXCEPT !.pc = IF keep THEN "settle" ELSE "delete?", !.next = "settle"]

-----------------------------------------------------------------------------
(* cleanup: delete what is known, sweep what carries the stamp *)

\* cleanup_created: each element by itself, some may stay.
StartDelete == At("delete?") /\ Start("delete", 0) /\ Here

RunDelete ==
    /\ At("delete") /\ UNCHANGED <<journal, torn, keep, edits, requests>>
    /\ \E rest \in SUBSET model : model \ run.made \subseteq rest /\ model' = rest
    /\ Goto("deleted") \/ Goto("sweep?")

FinishDelete == At("deleted") /\ Finish(run.effect) /\ Goto("sweep?") /\ Here

StartSweep == At("sweep?") /\ Start("sweep", 0) /\ Here

\* An unconfirmed sweep stops a recovery; a run goes on to its end.
Swept(ok) ==
    CASE run.next = "settle" -> run' = [run EXCEPT !.pc = "settle", !.clean = ok]
      [] run.next # "settle" /\ ok -> Goto(run.next)
      [] run.next = "restart" /\ ~ok -> Fail
      [] OTHER -> Stop

RunSweep ==
    /\ At("sweep") /\ UNCHANGED <<journal, torn, keep, edits, requests>>
    /\ \E rest \in SUBSET model :
          /\ model' = rest
          /\ Swept(FALSE) \/ run' = [run EXCEPT !.pc = "swept", !.clean = (rest = {})]

FinishSweep == At("swept") /\ Finish(run.effect) /\ Swept(run.clean) /\ Here

\* Mutant: a run whose deletions were all answered is abandoned unswept.
SettleUnswept ==
    /\ At("settle") /\ Stop
    /\ \/ InPhase("CleanupPreviewed") /\ Advance /\ Here
       \/ ~InPhase("CleanupPreviewed") /\ run.made # {} /\ journal' = [journal EXCEPT !.abandoned = TRUE] /\ Here

\* after_cleanup: completed, or abandoned after a failure, when nothing is left,
\* nothing pends and the document is the snapshot again.
Settle ==
    /\ At("settle") /\ Stop
    /\ LET gone == run.clean /\ journal.pending = {} /\ Revision = Snapshot
       IN \/ Only
          \/ /\ InPhase("CleanupPreviewed")
             /\ IF keep THEN Unmoved ELSE gone
             /\ Advance /\ Here
          \/ /\ ~InPhase("CleanupPreviewed")
             /\ gone /\ run.made # {}
             /\ journal' = [journal EXCEPT !.abandoned = TRUE] /\ Here

-----------------------------------------------------------------------------

Appending == {"create", "verify", "close", "renew", "restart", "resume", "conclude", "build", "rebuilt", "refused", "prove",
              "reconcile", "compare", "preview", "delete?", "deleted", "sweep?", "swept", "settle"}

\* The process dies, or its journal is sealed by an append that failed.
Die ==
    /\ ~At("idle") /\ Stop
    /\ torn' \in (IF run.pc \in Appending THEN BOOLEAN ELSE {FALSE})
    /\ UNCHANGED <<journal, keep, model, edits, requests>>

UserEdits ==
    /\ \/ edits < MaxEdits /\ edits' = edits + 1 /\ UNCHANGED model
       \/ \E e \in model : model' = model \ {e} /\ UNCHANGED edits
    /\ UNCHANGED <<journal, torn, keep, run, requests>>

Recovery == Recover \/ Close \/ Resume \/ Conclude \/ Reset \/ Renew \/ Check
Rebuild == StartRebuild \/ RunRebuild \/ FinishRebuild \/ FinishRefused \/ EndBuild
Proving == ProveRebuilt \/ Reconcile \/ Compare \/ PreviewCleanup
Cleanup == StartDelete \/ RunDelete \/ FinishDelete \/ StartSweep \/ RunSweep \/ FinishSweep \/ Settle

Next == Request \/ Create \/ Verify \/ Recovery \/ Rebuild \/ Proving \/ Cleanup \/ Die \/ UserEdits

Spec == Init /\ [][Next]_vars

-----------------------------------------------------------------------------
(* properties *)

\* Types.
TypeOK ==
    /\ journal.phase \in DOMAIN Phases
    /\ journal.pending \subseteq Effects
    /\ \A r \in journal.receipts : r.effect \in Effects /\ r.effect.kind = "rebuild"
    /\ model \subseteq Effects /\ journal.preview \subseteq Effects
    /\ torn \in BOOLEAN /\ keep \in BOOLEAN

\* Whatever the run has in the document is named by the file: by a receipt of the
\* current epoch, or by an effect nobody closed yet.  So a restart finds it
\* (a5_live.py 810-894, serving.py 10336-10481).
EveryElementAccounted == TypeOK /\ model \subseteq Witnessed \union journal.pending

\* However often answers are lost and processes die, no program of the plan is in
\* the document twice (a5_live.py 711-895).
NothingBuiltTwice == \A e, f \in model : e.program = f.program => e = f

\* A run that is over left nothing behind; one that keeps its copy has decided
\* every program and left only what its receipts name, with nothing pending
\* (a5_recovery.py 597-700, a5_live.py 995-1041).
ClosedIsSettled ==
    Closed =>
       /\ journal.pending = {}
       /\ journal.abandoned \/ ~keep => model = {}
       /\ ~journal.abandoned => Decided = Plan /\ model \subseteq journal.preview

=============================================================================
