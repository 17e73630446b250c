------------------------- MODULE CreatePublications -------------------------
(***************************************************************************)
(* Publishing authored elements to Revit from a project store: the CREATE   *)
(* ledger of kir/project_create_store.py, the publishers that reserve, send  *)
(* and look up through it (kir/standalone_publish.py, kir/staged_publish.py) *)
(* and what they accept as an answer (kir/connector_result.py,               *)
(* kir/create_publication.py).                                               *)
(*                                                                          *)
(* Each store call is one SQLite transaction and one action here.  Between   *)
(* two of them a publisher may die, lose the acknowledgement of a commit or  *)
(* be overtaken by another publisher.  The connector at the other end is its *)
(* journal, OperationLedger: what Connector is shown to implement.           *)
(*                                                                          *)
(* An archive stands for its exact input (operation, source, precondition),  *)
(* in one native namespace.  Digests, payload budgets and the re-reading of  *)
(* stored bytes are left out: CatalogSound is what those checks look for.    *)
(***************************************************************************)
EXTENDS Naturals, FiniteSets

CONSTANTS Archives,    \* Archive/2 records: prepared inputs
          Ops,         \* operation ids
          Outputs,     \* authored output ids
          OpOf,        \* the operation id of an archive
          OutputsOf,   \* the outputs it creates
          SourceOf,    \* the authored revision it was made from
          Publishers,  \* processes that publish or recover
          Progress,    \* distinct receipts that are not terminal
          MaxProgress, \* MAX_CREATE_PROGRESS_RECEIPTS
          MaxHead,     \* bound: authored revisions are 0 .. MaxHead
          Foreign,     \* the input of a client that has its own archive file
          None         \* no owner, no receipt, no resolution, nobody

StartedStates == {"invocation_completed", "failed_after_start_unknown"}
NotStartedStates == {"rejected_before_start", "cancelled_before_start"}
TerminalStates == StartedStates \union NotStartedStates

ASSUME ArchiveAssumption ==
    /\ OpOf \in [Archives -> Ops]
    /\ OutputsOf \in [Archives -> SUBSET Outputs]
    /\ SourceOf \in [Archives -> Nat]
ASSUME NoneAssumption ==
    /\ None \notin Archives \union Publishers \union TerminalStates \union Progress
    /\ Foreign \notin Archives
    /\ Progress \intersect TerminalStates = {}
ASSUME BoundAssumption == MaxProgress \in Nat /\ MaxHead \in Nat

VARIABLES head,       \* project_store.head_revision
          inputs,     \* create_inputs
          owners,     \* create_scope_owners: who owns each output
          receipts,   \* create_receipts of each archive
          resolved,   \* create_resolutions: the receipt that released it
          levelOps,   \* operation ids of level_update_archives
          pubs,       \* what each publisher is doing
          frames,     \* requests on their way to the connector or queued there
          ledger,     \* the connector's journal
          sent        \* how often each archive was sent to execute (history)

store == <<head, inputs, owners, receipts, resolved, levelOps>>
vars == <<store, pubs, frames, ledger, sent>>

Journal == INSTANCE OperationLedger
               WITH Inputs <- Archives \union {Foreign}, Absent <- None

Goals == {"publish", "cancel", "lookup"}
Idle == [step |-> "idle", goal |-> None, archive |-> None, reply |-> None]
Working == [step : {"prepared", "reserved", "waiting", "answered", "recorded"},
            goal : Goals, archive : Archives,
            reply : TerminalStates \union Progress \union {None}]
Frame == [kind : {"execute", "receipt", "cancel"}, archive : Archives,
          from : Publishers \union {None}]

TypeOK ==
    /\ head \in 0 .. MaxHead
    /\ inputs \subseteq Archives
    /\ owners \in [Outputs -> Archives \union {None}]
    /\ receipts \in [Archives -> SUBSET (TerminalStates \union Progress)]
    /\ resolved \in [Archives -> TerminalStates \union {None}]
    /\ levelOps \subseteq Ops
    /\ pubs \in [Publishers -> Working \union {Idle}]
    /\ frames \subseteq Frame
    /\ ledger \in [Ops -> Journal!Entry \union {None}]
    /\ sent \in [Archives -> 0 .. 2]

Init ==
    /\ head = 0
    /\ inputs = {}
    /\ owners = [o \in Outputs |-> None]
    /\ receipts = [a \in Archives |-> {}]
    /\ resolved = [a \in Archives |-> None]
    /\ levelOps = {}
    /\ pubs = [p \in Publishers |-> Idle]
    /\ frames = {}
    /\ Journal!Init
    /\ sent = [a \in Archives |-> 0]

-----------------------------------------------------------------------------
(* The authored history and the Level ledger of the same store *)

CommitRevision ==
    /\ head < MaxHead
    /\ head' = head + 1
    /\ UNCHANGED <<inputs, owners, receipts, resolved, levelOps, pubs, frames, ledger, sent>>

\* project_realization_store.reserve, of which only the operation id matters.
ReserveLevelOperation(op) ==
    /\ \A a \in inputs : OpOf[a] # op
    /\ levelOps' = levelOps \union {op}
    /\ UNCHANGED <<head, inputs, owners, receipts, resolved, pubs, frames, ledger, sent>>

-----------------------------------------------------------------------------
(* Publishers *)

At(p, step) == pubs[p].step = step
Archive(p) == pubs[p].archive
Step(p, step) == pubs' = [pubs EXCEPT ![p].step = step]
Stop(p) == pubs' = [pubs EXCEPT ![p] = Idle]

\* The stored head is the source; context, preparation, frame and ping follow.
Prepare(p, a) ==
    /\ At(p, "idle")
    /\ SourceOf[a] = head
    /\ pubs' = [pubs EXCEPT ![p] =
                  [step |-> "prepared", goal |-> "publish", archive |-> a, reply |-> None]]
    /\ UNCHANGED <<store, frames, ledger, sent>>

\* Mutant: the operation ids of the Level ledger are not looked at.
ReservableAlone(a) ==
    /\ a \notin inputs
    /\ SourceOf[a] = head
    /\ \A b \in inputs : OpOf[b] # OpOf[a]
    /\ \A o \in OutputsOf[a] : owners[o] = None

Reservable(a) ==
    /\ a \notin inputs
    /\ SourceOf[a] = head
    /\ OpOf[a] \notin levelOps
    /\ \A b \in inputs : OpOf[b] # OpOf[a]
    /\ \A o \in OutputsOf[a] : owners[o] = None

Insert(a) ==
    /\ inputs' = inputs \union {a}
    /\ owners' = [o \in Outputs |-> IF o \in OutputsOf[a] THEN a ELSE owners[o]]

\* Mutant: an input that is already reserved is as good as a new one.
ReserveAgain(p) ==
    /\ At(p, "prepared")
    /\ \/ /\ Reservable(Archive(p))
          /\ Insert(Archive(p))
          /\ Step(p, "reserved") \/ Stop(p)
       \/ /\ Archive(p) \in inputs
          /\ Step(p, "reserved")
          /\ UNCHANGED <<inputs, owners>>
    /\ UNCHANGED <<head, receipts, resolved, levelOps, frames, ledger, sent>>

\* A commit whose acknowledgement is lost leaves the reservation and stops the
\* publisher; so does a refusal, which leaves nothing.
Reserve(p) ==
    /\ At(p, "prepared")
    /\ \/ /\ Reservable(Archive(p))
          /\ Insert(Archive(p))
          /\ Step(p, "reserved") \/ Stop(p)
       \/ /\ ~Reservable(Archive(p))
          /\ Stop(p)
          /\ UNCHANGED <<inputs, owners>>
    /\ UNCHANGED <<head, receipts, resolved, levelOps, frames, ledger, sent>>

Exchange(p, kind, goal, a) ==
    /\ frames' = frames \union {[kind |-> kind, archive |-> a, from |-> p]}
    /\ pubs' = [pubs EXCEPT ![p] =
                  [step |-> "waiting", goal |-> goal, archive |-> a, reply |-> None]]

\* Mutant: send first, reserve afterwards.
SendUnreserved(p) ==
    /\ At(p, "prepared") \/ At(p, "reserved")
    /\ Exchange(p, "execute", "publish", Archive(p))
    /\ sent' = [sent EXCEPT ![Archive(p)] = IF @ < 2 THEN @ + 1 ELSE @]
    /\ UNCHANGED <<store, ledger>>

Send(p) ==
    /\ At(p, "reserved")
    /\ Exchange(p, "execute", "publish", Archive(p))
    /\ sent' = [sent EXCEPT ![Archive(p)] = IF @ < 2 THEN @ + 1 ELSE @]
    /\ UNCHANGED <<store, ledger>>

\* cancel_stored_create, and recover_stored_create, with which
\* resolve_stored_create_not_started begins as well.
Request(p, a, goal) ==
    /\ At(p, "idle")
    /\ a \in inputs
    /\ Exchange(p, IF goal = "cancel" THEN "cancel" ELSE "receipt", goal, a)
    /\ UNCHANGED <<store, ledger, sent>>

Terminal(a) == receipts[a] \intersect TerminalStates

\* record_receipt takes a new fact unless another terminal one stands, or the
\* room kept for progress is used up.
Recordable(a, fact) ==
    IF fact \in TerminalStates THEN Terminal(a) = {}
    ELSE Cardinality(receipts[a] \intersect Progress) < MaxProgress

Recorded(p) ==
    \/ pubs[p].goal = "lookup" /\ Step(p, "recorded")
    \/ Stop(p)

RecordReceipt(p) ==
    LET a == Archive(p)
        fact == pubs[p].reply
    IN  /\ At(p, "answered")
        /\ \/ fact = None /\ Stop(p) /\ UNCHANGED receipts
           \/ fact \in receipts[a] /\ Recorded(p) /\ UNCHANGED receipts
           \/ /\ fact # None /\ fact \notin receipts[a] /\ Recordable(a, fact)
              /\ receipts' = [receipts EXCEPT ![a] = @ \union {fact}]
              /\ Recorded(p)
           \/ /\ fact # None /\ fact \notin receipts[a] /\ ~Recordable(a, fact)
              /\ Stop(p) /\ UNCHANGED receipts
        /\ UNCHANGED <<head, inputs, owners, resolved, levelOps, frames, ledger, sent>>

\* Mutant: any terminal receipt ends the reservation.
ShowsTerminal(fact) == fact \in TerminalStates

\* require_create_not_started
ShowsNotStarted(fact) == fact \in NotStartedStates

\* Mutant: whatever owns the outputs of a released archive goes with it.
ReleaseRepeats(p) ==
    LET a == Archive(p)
    IN  /\ At(p, "recorded")
        /\ \/ /\ ShowsNotStarted(pubs[p].reply)
              /\ resolved' = [resolved EXCEPT ![a] = pubs[p].reply]
              /\ owners' = [o \in Outputs |-> IF o \in OutputsOf[a] THEN None ELSE owners[o]]
           \/ /\ ~ShowsNotStarted(pubs[p].reply)
              /\ UNCHANGED <<resolved, owners>>
        /\ Stop(p)
        /\ UNCHANGED <<head, inputs, receipts, levelOps, frames, ledger, sent>>

\* One transaction: the receipt (already recorded), the marker, the owners.
Release(p) ==
    LET a == Archive(p)
        releases == ShowsNotStarted(pubs[p].reply) /\ resolved[a] = None
    IN  /\ At(p, "recorded")
        /\ \/ /\ releases
              /\ resolved' = [resolved EXCEPT ![a] = pubs[p].reply]
              /\ owners' = [o \in Outputs |-> IF owners[o] = a THEN None ELSE owners[o]]
           \/ /\ ~releases
              /\ UNCHANGED <<resolved, owners>>
        /\ Stop(p)
        /\ UNCHANGED <<head, inputs, receipts, levelOps, frames, ledger, sent>>

\* A deadline, a broken transport, a refused probe or the death of the process.
\* What it sent is still on its way; a lookup nobody waits for changes nothing.
GiveUp(p) ==
    /\ ~At(p, "idle")
    /\ Stop(p)
    /\ frames' = {f \in frames : f.from # p} \union
                 {[f EXCEPT !.from = None] : f \in {g \in frames : g.from = p /\ g.kind # "receipt"}}
    /\ UNCHANGED <<store, ledger, sent>>

-----------------------------------------------------------------------------
(* The connector, as its journal promises *)

\* Mutant: the receipt is taken for the operation id alone.
BoundReceiptsOfOperation(a) ==
    LET entry == ledger[OpOf[a]]
    IN  CASE entry = None -> {}
          [] entry # None /\ entry.state = "started" -> Progress
          [] OTHER -> {entry.state}

\* The receipts an answer about this archive may carry and be bound to it.
BoundReceipts(a) ==
    LET entry == ledger[OpOf[a]]
    IN  CASE entry = None -> {}
          [] entry # None /\ entry.input # a -> {}
          [] entry # None /\ entry.input = a /\ entry.state = "started" -> Progress
          [] OTHER -> {entry.state}

\* Any request may also be answered without a receipt (not found, disabled, a
\* deadline, a conflict).  Work whose deadline passed may still be queued.
Answer(f) ==
    \E reply \in BoundReceipts(f.archive) \union {None} :
        /\ pubs' = IF f.from = None THEN pubs
                   ELSE [pubs EXCEPT ![f.from].step = "answered", ![f.from].reply = reply]
        /\ \/ frames' = frames \ {f}
           \/ /\ f.kind = "execute" /\ ledger[OpOf[f.archive]] = None /\ reply = None
              /\ frames' = (frames \ {f}) \union {[f EXCEPT !.from = None]}
        /\ UNCHANGED <<store, ledger, sent>>

Invoke(f) ==
    /\ f.kind = "execute"
    /\ Journal!Claim(OpOf[f.archive], f.archive)
    /\ UNCHANGED <<store, pubs, frames, sent>>

Refuse(f) ==
    /\ f.kind \in {"execute", "cancel"}
    /\ Journal!Tombstone(OpOf[f.archive], f.archive,
          IF f.kind = "cancel" THEN "cancelled_before_start" ELSE "rejected_before_start")
    /\ UNCHANGED <<store, pubs, frames, sent>>

Finish(op) ==
    /\ \E st \in StartedStates : Journal!Resolve(op, st)
    /\ UNCHANGED <<store, pubs, frames, sent>>

\* Somebody else's request has the operation id first.
ForeignClaim(op) ==
    /\ Journal!Claim(op, Foreign)
    /\ UNCHANGED <<store, pubs, frames, sent>>

-----------------------------------------------------------------------------
Next ==
    \/ CommitRevision
    \/ \E op \in Ops : ReserveLevelOperation(op) \/ Finish(op) \/ ForeignClaim(op)
    \/ \E p \in Publishers :
          \/ \E a \in Archives : Prepare(p, a)
          \/ \E a \in Archives, goal \in Goals \ {"publish"} : Request(p, a, goal)
          \/ Reserve(p) \/ Send(p) \/ RecordReceipt(p) \/ Release(p) \/ GiveUp(p)
    \/ \E f \in frames : Answer(f) \/ Invoke(f) \/ Refuse(f)

Spec == Init /\ [][Next]_vars

-----------------------------------------------------------------------------
(* Properties *)

MayHaveRun(a) ==
    LET entry == ledger[OpOf[a]]
    IN  entry # None /\ entry.input = a /\ entry.state \notin NotStartedStates

\* No output is created in Revit by two archives: an archive is replaced by
\* another for the same output only when it can no longer start, whatever is
\* still in flight.  (project_create_store.py:546 and :705)
NoOutputMadeTwice ==
    \A a, b \in Archives :
        (a # b /\ OutputsOf[a] \intersect OutputsOf[b] # {}) => ~(MayHaveRun(a) /\ MayHaveRun(b))

\* What the connector may run or has run for this project is in the store, so a
\* restart can ask about it, and was sent to execute by one publisher once,
\* crashes and lost acknowledgements included.  (standalone_publish.py:225, :234)
SentIsRetained ==
    /\ \A f \in frames : f.archive \in inputs
    /\ \A a \in Archives : sent[a] <= 1
    /\ \A op \in Ops : ledger[op] # None => ledger[op].input \in inputs \union {Foreign}

\* The catalogue never trips the audit every later call starts with: one owner
\* per output of an unreleased archive and none else, one archive per operation
\* id, no id shared with a Level update, one terminal receipt, and a release that
\* names it.  (project_create_store.py:258, :454, :583, :663)
CatalogSound ==
    /\ TypeOK
    /\ \A o \in Outputs, a \in Archives :
          owners[o] = a <=> a \in inputs /\ o \in OutputsOf[a] /\ resolved[a] = None
    /\ \A a, b \in inputs : OpOf[a] = OpOf[b] => a = b
    /\ \A a \in inputs : OpOf[a] \notin levelOps
    /\ \A a \in Archives :
          /\ Cardinality(Terminal(a)) <= 1
          /\ Cardinality(receipts[a] \intersect Progress) <= MaxProgress
          /\ resolved[a] # None => Terminal(a) = {resolved[a]}

\* A terminal receipt the store holds is what the connector's journal says of
\* this very input.  (connector_result.py:555)
RetainedReceiptsTrue ==
    \A a \in Archives, st \in TerminalStates :
        st \in receipts[a] => /\ ledger[OpOf[a]] # None
                              /\ ledger[OpOf[a]].input = a
                              /\ ledger[OpOf[a]].state = st

\* Owners are freed only for good reason: the archive that loses an output is
\* released by a receipt that shows it never started.  (project_create_store.py:720)
OwnersFreedByNoStart ==
    [][\A o \in Outputs, a \in Archives : owners[o] = a /\ owners'[o] # a =>
          /\ owners'[o] = None
          /\ resolved'[a] \in NotStartedStates
          /\ ~MayHaveRun(a)']_vars
=============================================================================
