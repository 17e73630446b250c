---------------------------- MODULE LevelStreams ----------------------------
(***************************************************************************)
(* Updating Levels that an earlier publication made: the Level ledger of a   *)
(* project store (kir/project_realization_store.py), the plan an update is   *)
(* made from (kir/revit_level_update.py), the publisher that reserves and    *)
(* sends it (kir/standalone_publish.py), and what ends it, a settlement       *)
(* (kir/level_settlement.py, kir/level_update_acceptance.py) or proof that it *)
(* never started (kir/level_resolution.py).                                  *)
(*                                                                          *)
(* A stream is the scope of one original publication: a Level and the         *)
(* elements promised untouched.  A store call is one transaction and one       *)
(* action; between two of them the document is edited, other publishers act    *)
(* and publishers die.  In the store an operation id names its archive, and    *)
(* the archive the settlement made of it.                                      *)
(***************************************************************************)
EXTENDS Naturals, FiniteSets

CONSTANTS Streams, Uids, Ops, Publishers,
          ScopeOf,    \* the elements of a stream
          TargetOf,   \* the Level it updates
          OriginOf,   \* the authored revision that was published first
          Revisions,  \* the authored history
          ParentOf,   \* parent_revision
          ElevOf,     \* the authored elevation of the target Levels
          Values,     \* what can be read from an element
          MaxRev,     \* bound: document revisions are 0 .. MaxRev
          None

ASSUME ScopeAssumption ==
    /\ ScopeOf \in [Streams -> SUBSET Uids]
    /\ TargetOf \in [Streams -> Uids]
    /\ \A s \in Streams : TargetOf[s] \in ScopeOf[s]
    /\ OriginOf \in [Streams -> Revisions]
ASSUME HistoryAssumption ==
    /\ ParentOf \in [Revisions -> Revisions \union {None}]
    /\ \E r \in Revisions : ParentOf[r] = None
    /\ ElevOf \in [Revisions -> Values]
ASSUME NoneAssumption ==
    None \notin Streams \union Ops \union Publishers \union Revisions
ASSUME BoundAssumption == MaxRev \in Nat

VARIABLES doc,          \* what is open in Revit: its revision and its elements
          streams,      \* level_streams: the checkpoint and the pending update
          owners,       \* level_scope_owners
          archives,     \* level_update_archives
          settlements,  \* level_settlements, by the operation they settle
          resolutions,  \* level_resolutions
          createOps,    \* operation ids of the CREATE ledger
          pubs,         \* what each process is doing
          frames,       \* requests on their way or queued: the updates, and the
                        \* operations to cancel
          native,       \* the connector's journal, with the result it holds
          sent          \* how often each operation was sent (history)

store == <<streams, owners, archives, settlements, resolutions, createOps>>
vars == <<doc, store, pubs, frames, native, sent>>

Document == [rev : 0 .. MaxRev, at : [Uids -> Values]]
Archive == [stream : Streams, op : Ops, expected : Ops \union {None},
            base : Revisions, proposed : Revisions, before : Document]
Row == [checkpoint : Ops \union {None}, pending : Ops \union {None}]
Settlement == [parent : Ops \union {None}, sequence : Nat, after : Document]
NativeStates == {"started", "satisfied", "unsatisfied", "unknown", "not_started"}
Entry == [archive : Archive, state : NativeStates]

ASSUME RecordAssumption == None \notin Row \union Settlement \union Entry

Idle == [step |-> "idle"]
Working == [step : {"planned", "reserved"}, archive : Archive]
Ending == [step : {"asked", "not_started"}, archive : Archive, expected : Ops \union {None}]
Settling == [step : {"settling"}, archive : Archive, expected : Ops \union {None}, after : Document]

TypeOK ==
    /\ doc \in Document
    /\ streams \in [Streams -> Row \union {None}]
    /\ owners \in [Uids -> Streams \union {None}]
    /\ archives \subseteq Archive
    /\ settlements \in [Ops -> Settlement \union {None}]
    /\ resolutions \subseteq Ops
    /\ createOps \subseteq Ops
    /\ pubs \in [Publishers -> {Idle} \union Working \union Ending \union Settling]
    /\ frames \in [updates : SUBSET Archive, cancels : SUBSET Archive]
    /\ native \in [Ops -> Entry \union {None}]
    /\ sent \in [Ops -> 0 .. 2]

Init ==
    /\ doc = [rev |-> 0, at |-> [u \in Uids |-> ElevOf[CHOOSE r \in Revisions : ParentOf[r] = None]]]
    /\ streams = [s \in Streams |-> None]
    /\ owners = [u \in Uids |-> None]
    /\ archives = {}
    /\ settlements = [op \in Ops |-> None]
    /\ resolutions = {}
    /\ createOps = {}
    /\ pubs = [p \in Publishers |-> Idle]
    /\ frames = [updates |-> {}, cancels |-> {}]
    /\ native = [op \in Ops |-> None]
    /\ sent = [op \in Ops |-> 0]

-----------------------------------------------------------------------------
(* Revit: one thread runs updates, reads elements and lets the user edit *)

Running == \E op \in Ops : native[op] # None /\ native[op].state = "started"

UserEdits(u) ==
    /\ ~Running /\ doc.rev < MaxRev
    /\ \E v \in Values \ {doc.at[u]} : doc' = [rev |-> doc.rev + 1, at |-> [doc.at EXCEPT ![u] = v]]
    /\ UNCHANGED <<store, pubs, frames, native, sent>>

\* The native boundary runs an update only at the revision it was planned on.
Invoke(a) ==
    /\ a \in frames.updates
    /\ ~Running /\ native[a.op] = None
    /\ doc.rev = a.before.rev
    /\ native' = [native EXCEPT ![a.op] = [archive |-> a, state |-> "started"]]
    /\ UNCHANGED <<doc, store, pubs, frames, sent>>

\* Rejected or cancelled before start; a queued update may expire as well.
Refuse(a) ==
    /\ a \in frames.updates \union frames.cancels
    /\ native[a.op] = None
    /\ native' = [native EXCEPT ![a.op] = [archive |-> a, state |-> "not_started"]]
    /\ UNCHANGED <<doc, store, pubs, frames, sent>>

Lose(a) ==
    /\ a \in frames.updates \union frames.cancels
    /\ frames' = [updates |-> frames.updates \ {a}, cancels |-> frames.cancels \ {a}]
    /\ UNCHANGED <<doc, store, pubs, native, sent>>

\* A satisfied witness means the elevation was set; any other result may have
\* left the document as it was, or set it.
Finish(op, state) ==
    /\ native[op] # None /\ native[op].state = "started"
    /\ native' = [native EXCEPT ![op].state = state]
    /\ LET a == native[op].archive
       IN  \/ /\ doc.rev < MaxRev
              /\ doc' = [rev |-> doc.rev + 1,
                         at |-> [doc.at EXCEPT ![TargetOf[a.stream]] = ElevOf[a.proposed]]]
           \/ state # "satisfied" /\ UNCHANGED doc
    /\ UNCHANGED <<store, pubs, frames, sent>>

-----------------------------------------------------------------------------
(* Reading the ledger *)

Stored(op) == CHOOSE a \in archives : a.op = op
ArchivesOf(s) == {a \in archives : a.stream = s}
Fields(s, d) == [u \in ScopeOf[s] |-> d.at[u]]
AcceptedRevision(s) ==
    IF streams[s].checkpoint = None THEN OriginOf[s] ELSE Stored(streams[s].checkpoint).proposed

\* _check_before_checkpoint
FollowsCheckpoint(a) ==
    a.expected # None =>
        LET after == settlements[a.expected].after
        IN  a.before.rev >= after.rev /\ Fields(a.stream, a.before) = Fields(a.stream, after)

-----------------------------------------------------------------------------
(* Planning and reserving an update *)

\* A plan is made from a fresh observation and from a baseline some earlier read
\* returned; the baseline's claims are the caller's, so Reserve checks them again.
Plan(p, s, op, proposed) ==
    LET base == ParentOf[proposed]
    IN  /\ pubs[p] = Idle /\ ~Running
        /\ base # None /\ ElevOf[base] # ElevOf[proposed]
        /\ doc.at[TargetOf[s]] = ElevOf[base]
        /\ \E expected \in {a.op : a \in {b \in ArchivesOf(s) : settlements[b.op] # None}} \union {None} :
              /\ expected = None => base = OriginOf[s]
              /\ pubs' = [pubs EXCEPT ![p] =
                    [step |-> "planned",
                     archive |-> [stream |-> s, op |-> op, expected |-> expected, base |-> base,
                                  proposed |-> proposed, before |-> doc]]]
        /\ UNCHANGED <<doc, store, frames, native, sent>>

\* Mutant: the fields of the observation are compared by the planner alone.
ReservableUnchecked(a) ==
    LET s == a.stream
    IN  /\ a.op \notin createOps
        /\ \A b \in archives : b.op # a.op
        /\ \/ /\ streams[s] = None
              /\ a.expected = None /\ a.base = OriginOf[s]
              /\ \A u \in ScopeOf[s] : owners[u] = None
           \/ /\ streams[s] # None
              /\ streams[s].pending = None
              /\ streams[s].checkpoint = a.expected
              /\ a.base = AcceptedRevision(s)

\* Mutant: the Levels of another stream are not looked at.
ReservableUnowned(a) ==
    LET s == a.stream
    IN  /\ a.op \notin createOps
        /\ \A b \in archives : b.op # a.op
        /\ \/ streams[s] = None /\ a.expected = None /\ a.base = OriginOf[s]
           \/ /\ streams[s] # None
              /\ streams[s].pending = None
              /\ streams[s].checkpoint = a.expected
              /\ a.base = AcceptedRevision(s)
              /\ FollowsCheckpoint(a)

Reservable(a) ==
    LET s == a.stream
    IN  /\ a.op \notin createOps
        /\ \A b \in archives : b.op # a.op
        /\ \/ /\ streams[s] = None
              /\ a.expected = None /\ a.base = OriginOf[s]
              /\ \A u \in ScopeOf[s] : owners[u] = None
           \/ /\ streams[s] # None
              /\ streams[s].pending = None
              /\ streams[s].checkpoint = a.expected
              /\ a.base = AcceptedRevision(s)
              /\ FollowsCheckpoint(a)

Insert(a) ==
    /\ archives' = archives \union {a}
    /\ streams' = [streams EXCEPT ![a.stream] =
                     [checkpoint |-> a.expected, pending |-> a.op]]
    /\ owners' = [u \in Uids |-> IF streams[a.stream] = None /\ u \in ScopeOf[a.stream]
                                 THEN a.stream ELSE owners[u]]

Stop(p) == pubs' = [pubs EXCEPT ![p] = Idle]

\* Mutant: an acknowledged replay is a reservation too.
ReserveAgain(p) ==
    /\ pubs[p].step = "planned"
    /\ LET a == pubs[p].archive
       IN  \/ /\ Reservable(a) /\ Insert(a)
              /\ pubs' = [pubs EXCEPT ![p].step = "reserved"] \/ Stop(p)
           \/ /\ a \in archives
              /\ pubs' = [pubs EXCEPT ![p].step = "reserved"]
              /\ UNCHANGED <<streams, owners, archives>>
    /\ UNCHANGED <<doc, settlements, resolutions, createOps, frames, native, sent>>

\* A refusal, the replay of a reservation and a lost acknowledgement of the
\* commit all end the publisher.
Reserve(p) ==
    /\ pubs[p].step = "planned"
    /\ LET a == pubs[p].archive
       IN  \/ /\ Reservable(a) /\ Insert(a)
              /\ pubs' = [pubs EXCEPT ![p].step = "reserved"] \/ Stop(p)
           \/ /\ ~Reservable(a) /\ Stop(p)
              /\ UNCHANGED <<streams, owners, archives>>
    /\ UNCHANGED <<doc, settlements, resolutions, createOps, frames, native, sent>>

Send(p) ==
    /\ pubs[p].step = "reserved"
    /\ LET a == pubs[p].archive
       IN  /\ frames' = [frames EXCEPT !.updates = @ \union {a}]
           /\ sent' = [sent EXCEPT ![a.op] = IF @ < 2 THEN @ + 1 ELSE @]
    /\ Stop(p)
    /\ UNCHANGED <<doc, store, native>>

\* The CREATE ledger takes no operation id of this one.
ReserveCreateOperation(op) ==
    /\ \A a \in archives : a.op # op
    /\ createOps' = createOps \union {op}
    /\ UNCHANGED <<doc, streams, owners, archives, settlements, resolutions, pubs, frames, native, sent>>

-----------------------------------------------------------------------------
(* Ending an update *)

\* The pending archive and the checkpoint a process read, before it asked.
Read(p, s) ==
    /\ streams[s] # None /\ streams[s].pending # None
    /\ pubs' = [pubs EXCEPT ![p] = [step |-> "asked", archive |-> Stored(streams[s].pending),
                                    expected |-> streams[s].checkpoint]]

\* Looking the operation up: its own response, a receipt or a recovery.
Ask(p, s) ==
    /\ pubs[p] = Idle /\ Read(p, s)
    /\ UNCHANGED <<doc, store, frames, native, sent>>

RequestCancel(p, s) ==
    /\ pubs[p] = Idle /\ Read(p, s)
    /\ frames' = [frames EXCEPT !.cancels = @ \union {Stored(streams[s].pending)}]
    /\ UNCHANGED <<doc, store, native, sent>>

\* A receipt counts for the exact input it names.
Bound(a, state) == native[a.op] = [archive |-> a, state |-> state]

\* assess_saved_level_update: the target shows the new elevation, something was
\* protected and reads as before, and the reading is newer than the plan's.
ScopeSatisfied(a, after) ==
    LET s == a.stream
        protected == ScopeOf[s] \ {TargetOf[s]}
    IN  /\ Bound(a, "satisfied")
        /\ after.rev > a.before.rev
        /\ after.at[TargetOf[s]] = ElevOf[a.proposed]
        /\ protected # {}
        /\ \A u \in protected : after.at[u] = a.before.at[u]

QualifySettlement(p) ==
    /\ pubs[p].step = "asked" /\ ~Running
    /\ ScopeSatisfied(pubs[p].archive, doc)
    /\ pubs' = [pubs EXCEPT ![p] = [step |-> "settling", archive |-> pubs[p].archive,
                                    expected |-> pubs[p].expected, after |-> doc]]
    /\ UNCHANGED <<doc, store, frames, native, sent>>

\* Mutant: that the journal does not know the operation is proof enough.
QualifyAbsent(p) ==
    /\ pubs[p].step = "asked"
    /\ Bound(pubs[p].archive, "not_started") \/ native[pubs[p].archive.op] = None
    /\ pubs' = [pubs EXCEPT ![p].step = "not_started"]
    /\ UNCHANGED <<doc, store, frames, native, sent>>

QualifyNotStarted(p) ==
    /\ pubs[p].step = "asked"
    /\ Bound(pubs[p].archive, "not_started")
    /\ pubs' = [pubs EXCEPT ![p].step = "not_started"]
    /\ UNCHANGED <<doc, store, frames, native, sent>>

\* Compare and swap: what was read is still there.
Current(p) ==
    LET a == pubs[p].archive
    IN  streams[a.stream] = [checkpoint |-> pubs[p].expected, pending |-> a.op]

Settle(p) ==
    LET a == pubs[p].archive
    IN  /\ pubs[p].step = "settling"
        /\ \/ /\ Current(p)
              /\ settlements' = [settlements EXCEPT ![a.op] =
                    [parent |-> a.expected, after |-> pubs[p].after,
                     sequence |-> IF a.expected = None THEN 0
                                  ELSE settlements[a.expected].sequence + 1]]
              /\ streams' = [streams EXCEPT ![a.stream] = [checkpoint |-> a.op, pending |-> None]]
           \/ ~Current(p) /\ UNCHANGED <<settlements, streams>>
        /\ Stop(p)
        /\ UNCHANGED <<doc, owners, archives, resolutions, createOps, frames, native, sent>>

\* Mutant: the pending update is cleared, whichever it is by now.
ResolveWhateverPends(p) ==
    LET a == pubs[p].archive
    IN  /\ pubs[p].step = "not_started"
        /\ resolutions' = resolutions \union {a.op}
        /\ streams' = [streams EXCEPT ![a.stream].pending = None]
        /\ Stop(p)
        /\ UNCHANGED <<doc, owners, archives, settlements, createOps, frames, native, sent>>

ResolveNotStarted(p) ==
    LET a == pubs[p].archive
    IN  /\ pubs[p].step = "not_started"
        /\ \/ /\ Current(p)
              /\ resolutions' = resolutions \union {a.op}
              /\ streams' = [streams EXCEPT ![a.stream].pending = None]
           \/ ~Current(p) /\ UNCHANGED <<resolutions, streams>>
        /\ Stop(p)
        /\ UNCHANGED <<doc, owners, archives, settlements, createOps, frames, native, sent>>

\* A deadline, a refused check or the death of the process.
GiveUp(p) ==
    /\ pubs[p] # Idle /\ Stop(p)
    /\ UNCHANGED <<doc, store, frames, native, sent>>

-----------------------------------------------------------------------------
Next ==
    \/ \E u \in Uids : UserEdits(u)
    \/ \E a \in frames.updates \union frames.cancels : Invoke(a) \/ Refuse(a) \/ Lose(a)
    \/ \E op \in Ops :
          \/ \E state \in {"satisfied", "unsatisfied", "unknown"} : Finish(op, state)
          \/ ReserveCreateOperation(op)
    \/ \E p \in Publishers :
          \/ \E s \in Streams, op \in Ops, r \in Revisions : Plan(p, s, op, r)
          \/ \E s \in Streams : Ask(p, s) \/ RequestCancel(p, s)
          \/ Reserve(p) \/ Send(p) \/ GiveUp(p)
          \/ QualifySettlement(p) \/ Settle(p) \/ QualifyNotStarted(p) \/ ResolveNotStarted(p)

Spec == Init /\ [][Next]_vars

-----------------------------------------------------------------------------
(* Properties *)

Settled(op) == settlements[op] # None
Overlap(s, t) == ScopeOf[s] \intersect ScopeOf[t] # {}

\* An operation id goes out to be executed at most once, whoever plans with it
\* and whatever acknowledgement is lost, and nothing Revit may run or has run is
\* unknown to the store.  (standalone_publish.py:376, :380)
SentOnce ==
    /\ \A op \in Ops : sent[op] <= 1
    /\ frames.updates \union frames.cancels \subseteq archives
    /\ \A op \in Ops : native[op] # None => native[op].archive \in archives

\* What audit_streams and every read_baseline require of the tables: the pending
\* pointer is the one archive without an end, no archive has two ends, the
\* settlements form one chain whose last is the checkpoint, every archive was
\* based on the checkpoint it names, and an element has one stream.
\* (project_realization_store.py:459, :727)
LedgerSound == TypeOK /\
    \A s \in Streams :
        IF streams[s] = None THEN ArchivesOf(s) = {}
        ELSE LET settled == {a \in ArchivesOf(s) : Settled(a.op)}
                 open == {a \in ArchivesOf(s) : ~Settled(a.op) /\ a.op \notin resolutions}
             IN  /\ {a.op : a \in open} = {streams[s].pending} \ {None}
                 /\ \A a \in settled : a.op \notin resolutions
                 /\ {settlements[a.op].sequence : a \in settled} = 0 .. Cardinality(settled) - 1
                 /\ \A a \in settled : settlements[a.op].parent = a.expected
                 /\ \A a \in ArchivesOf(s) :
                       IF a.expected = None THEN a.base = OriginOf[s]
                       ELSE Stored(a.expected) \in settled /\ a.base = Stored(a.expected).proposed
                 /\ \A a \in settled : a.expected # None =>
                       settlements[a.op].sequence = settlements[a.expected].sequence + 1
                 /\ \A a \in settled :
                       streams[s].checkpoint = a.op <=>
                           settlements[a.op].sequence = Cardinality(settled) - 1
                 /\ \A u \in ScopeOf[s] : owners[u] = s

\* A resolved update never starts, though its request may still be on its way.
\* (project_realization_store.py:607, level_resolution.py:103)
ResolvedNeverStarts ==
    \A op \in resolutions : native[op] # None /\ native[op].state = "not_started"

\* The accepted history is the history of the model: what a settlement accepted
\* was set by its own update, and the next update was planned on fields nobody
\* had changed.  (project_realization_store.py:551, level_update_acceptance.py:134)
AcceptedFollowsModel ==
    \A a \in archives :
        /\ Settled(a.op) =>
              /\ Bound(a, "satisfied")
              /\ settlements[a.op].after.rev > a.before.rev
              /\ Fields(a.stream, settlements[a.op].after)
                   = [Fields(a.stream, a.before) EXCEPT ![TargetOf[a.stream]] = ElevOf[a.proposed]]
        /\ a.expected # None =>
              Fields(a.stream, a.before) = Fields(a.stream, settlements[a.expected].after)

\* Nothing starts on elements an earlier update may have touched and nobody has
\* accepted yet.  (project_realization_store.py:550, :562)
StartsOnlySettled ==
    [][\A a \in frames.updates :
          native[a.op] = None /\ native'[a.op] # None /\ native'[a.op].state = "started" =>
              \A b \in archives \ {a} :
                  /\ Overlap(a.stream, b.stream)
                  /\ native[b.op] # None
                  /\ native[b.op].state # "not_started"
                  => Settled(b.op)]_vars
=============================================================================
