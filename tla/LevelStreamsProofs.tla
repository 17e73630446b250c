------------------------- MODULE LevelStreamsProofs -------------------------
(***************************************************************************)
(* Theorems about LevelStreams, for any streams, history, operations and     *)
(* publishers.                                                              *)
(*                                                                          *)
(* Every property leans on the tables: what a publisher may do with an update *)
(* follows from the row that names it as pending, and what is in Revit from    *)
(* the end the update has.  The invariant therefore says what a row means,      *)
(* what a chain of settlements means, and what each publisher brought with it.  *)
(***************************************************************************)
EXTENDS LevelStreams, FiniteSetTheorems, TLAPS

SettledOf(s) == {a \in ArchivesOf(s) : Settled(a.op)}
Open(a) == ~Settled(a.op) /\ a.op \notin resolutions
Ended(op) == Settled(op) \/ op \in resolutions

\* One archive per operation id; both kinds of end belong to an archive.
ArchivesInv ==
    /\ IsFiniteSet(archives)
    /\ \A a, b \in archives : a.op = b.op => a = b
    /\ \A op \in Ops : Ended(op) => \E a \in archives : a.op = op
    /\ \A op \in Ops : ~(Settled(op) /\ op \in resolutions)

\* A row names the one open archive of its stream, made on its checkpoint.
RowsInv ==
    /\ \A a \in archives : streams[a.stream] # None
    /\ \A a \in archives : Open(a) => streams[a.stream].pending = a.op
    /\ \A s \in Streams : streams[s] # None /\ streams[s].pending # None =>
          \E a \in archives : /\ a.stream = s /\ a.op = streams[s].pending /\ Open(a)
                              /\ a.expected = streams[s].checkpoint
    /\ \A s \in Streams : streams[s] # None => \A u \in ScopeOf[s] : owners[u] = s

\* The settlements of a stream are one chain, and the checkpoint is its last.
ChainInv ==
    /\ \A a \in archives :
          IF a.expected = None THEN a.base = OriginOf[a.stream]
          ELSE \E e \in SettledOf(a.stream) : e.op = a.expected /\ a.base = e.proposed
    /\ \A a \in archives : Settled(a.op) =>
          /\ settlements[a.op].parent = a.expected
          /\ a.expected # None =>
                settlements[a.op].sequence = settlements[a.expected].sequence + 1
    /\ \A s \in Streams : streams[s] # None =>
          /\ {settlements[a.op].sequence : a \in SettledOf(s)} = 0 .. Cardinality(SettledOf(s)) - 1
          /\ \A a \in SettledOf(s) : streams[s].checkpoint = a.op <=>
                settlements[a.op].sequence = Cardinality(SettledOf(s)) - 1
          /\ IF streams[s].checkpoint = None THEN SettledOf(s) = {}
             ELSE \E a \in SettledOf(s) : a.op = streams[s].checkpoint

\* What was accepted is what the update set; what follows it was planned on that.
AcceptedInv ==
    \A a \in archives :
        /\ Settled(a.op) => ScopeSatisfied(a, settlements[a.op].after)
        /\ a.expected # None =>
              Fields(a.stream, a.before) = Fields(a.stream, settlements[a.expected].after)

\* What Revit has heard of is stored, and a resolved update was refused.
NativeInv ==
    /\ frames.updates \union frames.cancels \subseteq archives
    /\ \A op \in Ops : native[op] # None => native[op].archive \in archives /\ native[op].archive.op = op
    /\ \A op \in resolutions : native[op] # None /\ native[op].state = "not_started"

\* The right to send is one publisher's, until it has sent.
SentInv ==
    /\ \A op \in Ops : sent[op] <= 1 /\ (sent[op] # 0 => \E a \in archives : a.op = op)
    /\ \A p \in Publishers : pubs[p].step = "reserved" => sent[pubs[p].archive.op] = 0
    /\ \A p, q \in Publishers :
          pubs[p].step = "reserved" /\ pubs[q].step = "reserved" /\ pubs[p].archive = pubs[q].archive
             => p = q

\* What a publisher ends is stored, and the proof it brings still holds.
PubsInv ==
    \A p \in Publishers :
        /\ pubs[p].step \in {"reserved", "asked", "not_started", "settling"}
              => pubs[p].archive \in archives
        /\ pubs[p].step = "not_started" => Bound(pubs[p].archive, "not_started")
        /\ pubs[p].step = "settling" => ScopeSatisfied(pubs[p].archive, pubs[p].after)

IInv == /\ TypeOK /\ ArchivesInv /\ RowsInv /\ ChainInv /\ AcceptedInv
        /\ NativeInv /\ SentInv /\ PubsInv
-----------------------------------------------------------------------------
(* Types, and what is kept by the steps that leave a part alone *)

LEMMA ArchiveType ==
    ASSUME NEW a \in Archive
    PROVE  /\ a.stream \in Streams /\ a.op \in Ops /\ a.expected \in Ops \union {None}
           /\ a.base \in Revisions /\ a.proposed \in Revisions /\ a.before \in Document
  BY DEF Archive

LEMMA DocumentType ==
    ASSUME NEW d \in Document
    PROVE  d.rev \in 0 .. MaxRev /\ d.at \in [Uids -> Values]
  BY DEF Document

LEMMA FieldTypes ==
    ASSUME TypeOK
    PROVE  /\ doc \in Document /\ archives \subseteq Archive
           /\ streams \in [Streams -> Row \union {None}]
           /\ settlements \in [Ops -> Settlement \union {None}]
           /\ native \in [Ops -> Entry \union {None}]
           /\ frames.updates \subseteq Archive /\ frames.cancels \subseteq Archive
           /\ pubs \in [Publishers -> {Idle} \union Working \union Ending \union Settling]
  BY DEF TypeOK

LEMMA PubType ==
    ASSUME TypeOK, NEW p \in Publishers, pubs[p] # Idle
    PROVE  /\ pubs[p].archive \in Archive
           /\ pubs[p].step \in {"planned", "reserved", "asked", "not_started", "settling"}
           /\ pubs[p].step \in {"planned", "reserved"} => pubs[p] \in Working
           /\ pubs[p].step \in {"asked", "not_started"} => pubs[p] \in Ending
           /\ pubs[p].step = "settling" => pubs[p] \in Settling
  <1>1. pubs[p] \in Working \union Ending \union Settling
    BY DEF TypeOK
  <1>2. pubs[p] \in Working =>
           pubs[p].step \in {"planned", "reserved"} /\ pubs[p].archive \in Archive
    BY DEF Working
  <1>3. pubs[p] \in Ending =>
           pubs[p].step \in {"asked", "not_started"} /\ pubs[p].archive \in Archive
    BY DEF Ending
  <1>4. pubs[p] \in Settling => pubs[p].step = "settling" /\ pubs[p].archive \in Archive
    BY DEF Settling
  <1> QED BY <1>1, <1>2, <1>3, <1>4

LEMMA IdleStep == Idle.step = "idle"
  BY DEF Idle

\* The archive of an operation is the one the store finds.
LEMMA StoredIs == ASSUME ArchivesInv, NEW a \in archives PROVE Stored(a.op) = a
  BY DEF ArchivesInv, Stored

\* An entry that is there is a record.
LEMMA BoundEntry ==
    ASSUME TypeOK, NEW a \in Archive, NEW state \in NativeStates, Bound(a, state)
    PROVE  native[a.op] # None /\ native[a.op].archive = a /\ native[a.op].state = state
  <1>1. [archive |-> a, state |-> state] \in Entry
    BY DEF Entry
  <1> QED BY <1>1, RecordAssumption DEF Bound

\* The tables depend on the store alone.
LEMMA TablesKept ==
    ASSUME IInv, UNCHANGED store
    PROVE  ArchivesInv' /\ RowsInv' /\ ChainInv'
  <1>1. UNCHANGED <<streams, owners, archives, settlements, resolutions>>
    BY Zenon DEF store
  <1>2. /\ \A op : Settled(op)' <=> Settled(op)
        /\ \A op : Ended(op)' <=> Ended(op)
        /\ \A a : Open(a)' <=> Open(a)
    BY <1>1 DEF Settled, Ended, Open
  <1>3. \A s : SettledOf(s)' = SettledOf(s)
    BY <1>1 DEF SettledOf, ArchivesOf, Settled
  <1>4. ArchivesInv'
    BY <1>1, <1>2 DEF IInv, ArchivesInv
  <1>5. RowsInv'
    BY <1>1, <1>2 DEF IInv, RowsInv
  <1>6. ChainInv'
    BY <1>1, <1>2, <1>3 DEF IInv, ChainInv
  <1> QED BY <1>4, <1>5, <1>6

\* And so do the accepted settlements, as long as the journal keeps what is satisfied.
LEMMA AcceptedKept ==
    ASSUME IInv, UNCHANGED store,
           \A a \in archives : Bound(a, "satisfied") => Bound(a, "satisfied")'
    PROVE  AcceptedInv'
  <1>1. archives' = archives /\ settlements' = settlements
    BY Zenon DEF store
  <1>2. ASSUME NEW a \in archives, NEW after, ScopeSatisfied(a, after)
        PROVE  ScopeSatisfied(a, after)'
    BY <1>2 DEF ScopeSatisfied
  <1>3. \A a \in archives : Settled(a.op) => ScopeSatisfied(a, settlements[a.op].after)'
    <2> SUFFICES ASSUME NEW a \in archives, Settled(a.op)
                 PROVE  ScopeSatisfied(a, settlements[a.op].after)'
      OBVIOUS
    <2>1. ScopeSatisfied(a, settlements[a.op].after)
      BY DEF IInv, AcceptedInv
    <2>2. \A after : after = settlements[a.op].after => ScopeSatisfied(a, after)'
      BY <1>2, <2>1
    <2> QED BY <1>1, <2>2
  <1> QED BY <1>1, <1>3 DEF IInv, AcceptedInv, Settled, Fields

-----------------------------------------------------------------------------
(* Steps of a publisher that leave the tables and the journal alone *)

\* The publisher takes up something else, with what it needs for it, and may ask
\* Revit about a stored update.
LEMMA PublisherMoves ==
    ASSUME IInv, NEW p \in Publishers, NEW next \in {Idle} \union Working \union Ending \union Settling,
           pubs' = [pubs EXCEPT ![p] = next],
           UNCHANGED <<doc, store, native, sent>>,
           frames' \in [updates : SUBSET archives, cancels : SUBSET archives],
           next.step \in {"idle", "planned", "asked", "not_started", "settling"},
           next.step \in {"asked", "not_started", "settling"} => next.archive \in archives,
           next.step = "not_started" => Bound(next.archive, "not_started"),
           next.step = "settling" => ScopeSatisfied(next.archive, next.after)
    PROVE  IInv'
  <1>1. UNCHANGED <<doc, streams, owners, archives, settlements, resolutions, createOps, native, sent>>
    BY Zenon DEF store
  <1>2. /\ pubs' \in [Publishers -> {Idle} \union Working \union Ending \union Settling]
        /\ pubs'[p] = next /\ \A q \in Publishers \ {p} : pubs'[q] = pubs[q]
    BY FieldTypes DEF IInv
  <1>3. TypeOK'
    <2>1. frames' \in [updates : SUBSET Archive, cancels : SUBSET Archive]
      BY FieldTypes DEF IInv
    <2> QED BY <1>1, <1>2, <2>1 DEF IInv, TypeOK
  <1>4. ArchivesInv' /\ RowsInv' /\ ChainInv'
    BY TablesKept
  <1>5. AcceptedInv'
    BY <1>1, AcceptedKept DEF Bound
  <1>6. NativeInv'
    BY <1>1 DEF IInv, NativeInv
  <1>7. SentInv'
    BY <1>1, <1>2 DEF IInv, SentInv
  <1>8. PubsInv'
    <2>1. \A a, state : Bound(a, state)' <=> Bound(a, state)
      BY <1>1 DEF Bound
    <2>2. \A a, after : ScopeSatisfied(a, after)' <=> ScopeSatisfied(a, after)
      BY <1>1 DEF ScopeSatisfied, Bound
    <2>3. ASSUME NEW q \in Publishers
          PROVE  /\ pubs'[q].step \in {"reserved", "asked", "not_started", "settling"}
                       => pubs'[q].archive \in archives
                 /\ pubs'[q].step = "not_started" => Bound(pubs'[q].archive, "not_started")
                 /\ pubs'[q].step = "settling" => ScopeSatisfied(pubs'[q].archive, pubs'[q].after)
      BY <1>2 DEF IInv, PubsInv
    <2> QED BY <1>1, <2>1, <2>2, <2>3 DEF PubsInv
  <1> QED BY <1>3, <1>4, <1>5, <1>6, <1>7, <1>8 DEF IInv

LEMMA StopInv ==
    ASSUME IInv, NEW p \in Publishers, Stop(p), UNCHANGED <<doc, store, frames, native, sent>>
    PROVE  IInv'
  <1>1. frames' \in [updates : SUBSET archives, cancels : SUBSET archives]
    BY DEF IInv, TypeOK, NativeInv
  <1> QED BY <1>1, IdleStep, PublisherMoves DEF Stop

LEMMA PlanInv ==
    ASSUME IInv, NEW p \in Publishers, NEW s \in Streams, NEW op \in Ops, NEW r \in Revisions,
           Plan(p, s, op, r)
    PROVE  IInv'
  <1> DEFINE base == ParentOf[r]
             plan(expected) == [step |-> "planned",
                                archive |-> [stream |-> s, op |-> op, expected |-> expected,
                                             base |-> base, proposed |-> r, before |-> doc]]
  <1>1. base \in Revisions /\ UNCHANGED <<doc, store, frames, native, sent>>
    BY HistoryAssumption DEF Plan
  <1>2. PICK expected \in {a.op : a \in {b \in ArchivesOf(s) : settlements[b.op] # None}} \union {None} :
           pubs' = [pubs EXCEPT ![p] = plan(expected)]
    BY DEF Plan
  <1>3. expected \in Ops \union {None}
    BY <1>2, ArchiveType, FieldTypes DEF IInv, ArchivesOf
  <1>4. plan(expected) \in Working /\ plan(expected).step = "planned"
    <2>1. doc \in Document
      BY FieldTypes DEF IInv
    <2> QED BY <1>1, <1>3, <2>1 DEF Working, Archive
  <1>5. frames' \in [updates : SUBSET archives, cancels : SUBSET archives]
    BY <1>1 DEF IInv, TypeOK, NativeInv
  <1> HIDE DEF plan
  <1> QED BY <1>1, <1>2, <1>4, <1>5, PublisherMoves

\* What a row names as pending is what a publisher reads.
LEMMA ReadInv ==
    ASSUME IInv, NEW p \in Publishers, NEW s \in Streams, Read(p, s),
           UNCHANGED <<doc, store, native, sent>>,
           frames' = frames \/ frames' = [frames EXCEPT !.cancels = @ \union {Stored(streams[s].pending)}]
    PROVE  IInv'
  <1> DEFINE a == Stored(streams[s].pending)
             next == [step |-> "asked", archive |-> a, expected |-> streams[s].checkpoint]
  <1>1. a \in archives
    <2>1. PICK b \in archives : b.op = streams[s].pending
      BY DEF Read, IInv, RowsInv
    <2> QED BY <2>1, StoredIs DEF IInv
  <1>2. streams[s].checkpoint \in Ops \union {None}
    BY FieldTypes DEF Read, IInv, Row
  <1>3. next \in Ending /\ next.step = "asked" /\ next.archive = a
    BY <1>1, <1>2, FieldTypes DEF IInv, Ending
  <1>4. frames' \in [updates : SUBSET archives, cancels : SUBSET archives]
    <2>1. frames \in [updates : SUBSET archives, cancels : SUBSET archives]
      BY DEF IInv, TypeOK, NativeInv
    <2> HIDE DEF a
    <2>2. frames' = frames \/ frames' = [frames EXCEPT !.cancels = @ \union {a}]
      BY DEF a
    <2> QED BY <1>1, <2>1, <2>2
  <1>5. pubs' = [pubs EXCEPT ![p] = next]
    BY DEF Read
  <1> HIDE DEF next
  <1> QED BY <1>1, <1>3, <1>4, <1>5, PublisherMoves

LEMMA AskInv ==
    ASSUME IInv, NEW p \in Publishers, NEW s \in Streams, Ask(p, s) \/ RequestCancel(p, s)
    PROVE  IInv'
  BY ReadInv DEF Ask, RequestCancel

LEMMA QualifySettlementInv ==
    ASSUME IInv, NEW p \in Publishers, QualifySettlement(p)
    PROVE  IInv'
  <1> DEFINE a == pubs[p].archive
             next == [step |-> "settling", archive |-> a, expected |-> pubs[p].expected, after |-> doc]
  <1>1. pubs[p].step = "asked" /\ pubs[p] # Idle
    BY DEF QualifySettlement, Idle
  <1>2. a \in archives /\ a \in Archive /\ pubs[p].expected \in Ops \union {None}
    BY <1>1, PubType DEF IInv, PubsInv, Ending
  <1>3. next \in Settling /\ next.step = "settling" /\ next.archive = a /\ next.after = doc
    BY <1>2, FieldTypes DEF IInv, Settling
  <1>4. frames' \in [updates : SUBSET archives, cancels : SUBSET archives]
    BY DEF QualifySettlement, IInv, TypeOK, NativeInv
  <1>5. /\ pubs' = [pubs EXCEPT ![p] = next] /\ ScopeSatisfied(a, doc)
        /\ UNCHANGED <<doc, store, native, sent>>
    BY DEF QualifySettlement
  <1> HIDE DEF next, a
  <1> QED BY <1>2, <1>3, <1>4, <1>5, PublisherMoves

LEMMA QualifyNotStartedInv ==
    ASSUME IInv, NEW p \in Publishers, QualifyNotStarted(p)
    PROVE  IInv'
  <1> DEFINE a == pubs[p].archive
             next == [pubs[p] EXCEPT !.step = "not_started"]
  <1>1. pubs[p].step = "asked" /\ pubs[p] # Idle
    BY DEF QualifyNotStarted, Idle
  <1>2. a \in archives /\ pubs[p] \in Ending
    BY <1>1, PubType DEF IInv, PubsInv
  <1>3. next \in Ending /\ next.step = "not_started" /\ next.archive = a
    BY <1>2 DEF Ending
  <1>4. frames' \in [updates : SUBSET archives, cancels : SUBSET archives]
    BY DEF QualifyNotStarted, IInv, TypeOK, NativeInv
  <1>5. /\ pubs' = [pubs EXCEPT ![p] = next] /\ Bound(a, "not_started")
        /\ UNCHANGED <<doc, store, native, sent>>
    BY DEF QualifyNotStarted
  <1> HIDE DEF next, a
  <1> QED BY <1>2, <1>3, <1>4, <1>5, PublisherMoves

LEMMA GiveUpInv == ASSUME IInv, NEW p \in Publishers, GiveUp(p) PROVE IInv'
  BY StopInv DEF GiveUp

-----------------------------------------------------------------------------
(* Revit *)

LEMMA UserEditsInv == ASSUME IInv, NEW u \in Uids, UserEdits(u) PROVE IInv'
  <1>1. /\ UNCHANGED <<streams, owners, archives, settlements, resolutions, createOps, pubs, frames,
                       native, sent>>
        /\ UNCHANGED store
    BY Zenon DEF UserEdits, store
  <1>2. doc' \in Document
    <2>1. PICK v \in Values : doc' = [rev |-> doc.rev + 1, at |-> [doc.at EXCEPT ![u] = v]]
      BY DEF UserEdits
    <2>2. doc.rev + 1 \in 0 .. MaxRev /\ doc.at \in [Uids -> Values]
      BY FieldTypes, DocumentType, BoundAssumption DEF UserEdits, IInv
    <2> QED BY <2>1, <2>2 DEF Document
  <1>3. TypeOK'
    BY <1>1, <1>2 DEF IInv, TypeOK
  <1>4. ArchivesInv' /\ RowsInv' /\ ChainInv' /\ AcceptedInv'
    BY <1>1, TablesKept, AcceptedKept DEF Bound
  <1>5. NativeInv' /\ SentInv'
    BY <1>1 DEF IInv, NativeInv, SentInv
  <1>6. PubsInv'
    BY <1>1 DEF IInv, PubsInv, ScopeSatisfied, Bound
  <1> QED BY <1>3, <1>4, <1>5, <1>6 DEF IInv

LEMMA LoseInv == ASSUME IInv, NEW a, Lose(a) PROVE IInv'
  <1>1. /\ UNCHANGED <<doc, streams, owners, archives, settlements, resolutions, createOps, pubs,
                       native, sent>>
        /\ UNCHANGED store
    BY Zenon DEF Lose, store
  <1>2. frames' = [updates |-> frames.updates \ {a}, cancels |-> frames.cancels \ {a}]
    BY DEF Lose
  <1>3. TypeOK'
    BY <1>1, <1>2 DEF IInv, TypeOK
  <1>4. ArchivesInv' /\ RowsInv' /\ ChainInv' /\ AcceptedInv'
    BY <1>1, TablesKept, AcceptedKept DEF Bound
  <1>5. NativeInv' /\ SentInv'
    BY <1>1, <1>2 DEF IInv, NativeInv, SentInv
  <1>6. PubsInv'
    BY <1>1 DEF IInv, PubsInv, ScopeSatisfied, Bound
  <1> QED BY <1>3, <1>4, <1>5, <1>6 DEF IInv

LEMMA ReserveCreateOperationInv ==
    ASSUME IInv, NEW op \in Ops, ReserveCreateOperation(op)
    PROVE  IInv'
  <1>1. /\ UNCHANGED <<doc, streams, owners, archives, settlements, resolutions, pubs, frames, native,
                       sent>>
        /\ createOps' = createOps \union {op}
    BY DEF ReserveCreateOperation
  <1>2. TypeOK'
    BY <1>1 DEF IInv, TypeOK
  <1>3. /\ \A o : Settled(o)' <=> Settled(o)
        /\ \A o : Ended(o)' <=> Ended(o)
        /\ \A a : Open(a)' <=> Open(a)
        /\ \A s : SettledOf(s)' = SettledOf(s)
    BY <1>1 DEF Settled, Ended, Open, SettledOf, ArchivesOf
  <1>4. ArchivesInv' /\ RowsInv'
    BY <1>1, <1>3 DEF IInv, ArchivesInv, RowsInv
  <1>5. ChainInv'
    BY <1>1, <1>3 DEF IInv, ChainInv
  <1>6. AcceptedInv'
    BY <1>1, <1>3 DEF IInv, AcceptedInv, ScopeSatisfied, Bound, Fields
  <1>7. NativeInv' /\ SentInv'
    BY <1>1 DEF IInv, NativeInv, SentInv
  <1>8. PubsInv'
    BY <1>1 DEF IInv, PubsInv, ScopeSatisfied, Bound
  <1> QED BY <1>2, <1>4, <1>5, <1>6, <1>7, <1>8 DEF IInv

\* An entry of the journal is made once and ends once, for one stored archive.
LEMMA EntryMoves ==
    ASSUME IInv, UNCHANGED <<store, pubs, frames, sent>>, doc' \in Document,
           NEW a \in archives, NEW state \in NativeStates,
           native[a.op] = None \/ native[a.op].state = "started",
           native' = [native EXCEPT ![a.op] = [archive |-> a, state |-> state]]
    PROVE  IInv'
  <1> DEFINE entry == [archive |-> a, state |-> state]
  <1>1. UNCHANGED <<streams, owners, archives, settlements, resolutions, createOps, pubs, frames, sent>>
    BY Zenon DEF store
  <1>2. a \in Archive /\ a.op \in Ops
    BY ArchiveType, FieldTypes DEF IInv
  <1>3. entry \in Entry /\ entry.archive = a /\ entry.state = state /\ entry # None
    BY <1>2, RecordAssumption DEF Entry
  <1> HIDE DEF entry
  <1>4. native' = [native EXCEPT ![a.op] = entry]
    BY DEF entry
  <1>5. /\ native' \in [Ops -> Entry \union {None}] /\ native'[a.op] = entry
        /\ \A op \in Ops \ {a.op} : native'[op] = native[op]
    BY <1>2, <1>3, <1>4, FieldTypes DEF IInv
  <1>6. TypeOK'
    BY <1>1, <1>5 DEF IInv, TypeOK
  <1>7. ASSUME NEW b \in Archive, NEW t \in NativeStates \ {"started"}, Bound(b, t)
        PROVE  Bound(b, t)'
    <2>1. b.op # a.op /\ b.op \in Ops
      BY <1>2, <1>7, BoundEntry, ArchiveType DEF IInv
    <2> QED BY <1>5, <1>7, <2>1 DEF Bound
  <1>8. ArchivesInv' /\ RowsInv' /\ ChainInv'
    BY TablesKept
  <1>9. AcceptedInv'
    BY <1>7, AcceptedKept, FieldTypes DEF IInv, NativeStates
  <1>10. NativeInv'
    <2>1. \A op \in Ops : native'[op] # None => native'[op].archive \in archives /\ native'[op].archive.op = op
      BY <1>3, <1>5 DEF IInv, NativeInv
    <2>2. \A op \in resolutions : native'[op] # None /\ native'[op].state = "not_started"
      BY <1>5 DEF IInv, NativeInv, TypeOK
    <2> QED BY <1>1, <2>1, <2>2 DEF IInv, NativeInv
  <1>11. SentInv'
    BY <1>1 DEF IInv, SentInv
  <1>12. PubsInv'
    <2>1. ASSUME NEW p \in Publishers, pubs[p].step \in {"not_started", "settling"}
          PROVE  /\ pubs[p].archive \in Archive
                 /\ pubs[p].step = "not_started" => Bound(pubs[p].archive, "not_started")
                 /\ pubs[p].step = "settling" => ScopeSatisfied(pubs[p].archive, pubs[p].after)
      BY <2>1, FieldTypes DEF IInv, PubsInv
    <2>2. ASSUME NEW b \in Archive, NEW after, ScopeSatisfied(b, after)
          PROVE  ScopeSatisfied(b, after)'
      BY <1>7, <2>2 DEF ScopeSatisfied, NativeStates
    <2>3. ASSUME NEW p \in Publishers
          PROVE  /\ pubs'[p].step = "not_started" => Bound(pubs[p].archive, "not_started")'
                 /\ pubs'[p].step = "settling" => ScopeSatisfied(pubs[p].archive, pubs[p].after)'
      <3>1. CASE pubs[p].step = "not_started"
        <4>1. \A b : b = pubs[p].archive => Bound(b, "not_started")'
          BY <1>7, <2>1, <3>1 DEF NativeStates
        <4> QED BY <1>1, <3>1, <4>1
      <3>2. CASE pubs[p].step = "settling"
        <4>1. \A b, after : b = pubs[p].archive /\ after = pubs[p].after => ScopeSatisfied(b, after)'
          BY <2>1, <2>2, <3>2
        <4> QED BY <1>1, <3>2, <4>1
      <3> QED BY <1>1, <3>1, <3>2
    <2> QED BY <1>1, <2>3 DEF IInv, PubsInv
  <1> QED BY <1>6, <1>8, <1>9, <1>10, <1>11, <1>12 DEF IInv

LEMMA InvokeInv ==
    ASSUME IInv, NEW a \in frames.updates \union frames.cancels, Invoke(a) \/ Refuse(a)
    PROVE  IInv'
  <1>1. a \in archives
    BY DEF IInv, NativeInv
  <1>2. doc' \in Document
    BY FieldTypes DEF IInv, Invoke, Refuse
  <1>3. /\ UNCHANGED <<store, pubs, frames, sent>> /\ native[a.op] = None
        /\ \E state \in {"started", "not_started"} :
              native' = [native EXCEPT ![a.op] = [archive |-> a, state |-> state]]
    BY DEF Invoke, Refuse
  <1> QED BY <1>1, <1>2, <1>3, EntryMoves DEF NativeStates

LEMMA FinishInv ==
    ASSUME IInv, NEW op \in Ops, NEW state \in {"satisfied", "unsatisfied", "unknown"}, Finish(op, state)
    PROVE  IInv'
  <1> DEFINE a == native[op].archive
  <1>1. /\ native[op] # None /\ native[op].state = "started" /\ UNCHANGED <<store, pubs, frames, sent>>
        /\ native' = [native EXCEPT ![op].state = state]
    BY DEF Finish
  <1>2. a \in archives /\ a.op = op /\ native[op] \in Entry
    BY <1>1, FieldTypes DEF IInv, NativeInv
  <1>3. a \in Archive
    BY <1>2, FieldTypes DEF IInv
  <1>4. doc' \in Document
    <2>1. CASE UNCHANGED doc
      BY <2>1, FieldTypes DEF IInv
    <2>2. CASE /\ doc.rev < MaxRev
               /\ doc' = [rev |-> doc.rev + 1,
                          at |-> [doc.at EXCEPT ![TargetOf[a.stream]] = ElevOf[a.proposed]]]
      <3>1. doc.rev + 1 \in 0 .. MaxRev /\ doc.at \in [Uids -> Values]
        BY <2>2, FieldTypes, DocumentType, BoundAssumption DEF IInv
      <3>2. ElevOf[a.proposed] \in Values
        BY <1>3, ArchiveType, HistoryAssumption
      <3> QED BY <2>2, <3>1, <3>2 DEF Document
    <2> QED BY <2>1, <2>2 DEF Finish
  <1>5. native' = [native EXCEPT ![a.op] = [archive |-> a, state |-> state]]
    <2>1. [native[op] EXCEPT !.state = state] = [archive |-> a, state |-> state]
      BY <1>2 DEF Entry
    <2>2. native' = [native EXCEPT ![op] = [native[op] EXCEPT !.state = state]]
      BY <1>1
    <2> QED BY <1>2, <2>1, <2>2
  <1> HIDE DEF a
  <1> QED BY <1>1, <1>2, <1>4, <1>5, EntryMoves DEF NativeStates

-----------------------------------------------------------------------------
(* Reserving and sending *)

\* What a reservable archive finds: nobody has used its operation, its stream has
\* no open archive, and the row, if there is one, names the checkpoint it was made on.
LEMMA ReservableFacts ==
    ASSUME IInv, NEW a \in Archive, Reservable(a)
    PROVE  /\ a \notin archives /\ ~Ended(a.op) /\ sent[a.op] = 0
           /\ \A b \in archives : b.op # a.op
           /\ \A b \in archives : b.stream = a.stream => ~Open(b)
           /\ streams[a.stream] = None =>
                 /\ a.expected = None /\ ArchivesOf(a.stream) = {}
                 /\ \A u \in ScopeOf[a.stream] : owners[u] = None
           /\ streams[a.stream] # None => streams[a.stream].checkpoint = a.expected
           /\ IF a.expected = None THEN a.base = OriginOf[a.stream]
              ELSE /\ \E e \in SettledOf(a.stream) : e.op = a.expected /\ a.base = e.proposed
                   /\ Fields(a.stream, a.before) = Fields(a.stream, settlements[a.expected].after)
  <1> DEFINE s == a.stream
  <1>1. s \in Streams /\ a.op \in Ops
    BY ArchiveType
  <1>2. \A b \in archives : b.op # a.op
    BY DEF Reservable
  <1>3. a \notin archives /\ ~Ended(a.op) /\ sent[a.op] = 0
    BY <1>1, <1>2 DEF IInv, ArchivesInv, SentInv
  <1>4. CASE /\ streams[s] = None /\ a.expected = None /\ a.base = OriginOf[s]
             /\ \A u \in ScopeOf[s] : owners[u] = None
    <2>1. ArchivesOf(s) = {}
      BY <1>4 DEF IInv, RowsInv, ArchivesOf
    <2> QED BY <1>2, <1>3, <1>4, <2>1 DEF ArchivesOf
  <1>5. CASE /\ streams[s] # None /\ streams[s].pending = None
             /\ streams[s].checkpoint = a.expected
             /\ a.base = AcceptedRevision(s) /\ FollowsCheckpoint(a)
    <2>1. \A b \in archives : b.stream = s => ~Open(b)
      BY <1>5, ArchiveType, FieldTypes, NoneAssumption DEF IInv, RowsInv
    <2>2. CASE a.expected = None
      BY <1>2, <1>3, <1>5, <2>1, <2>2 DEF AcceptedRevision
    <2>3. CASE a.expected # None
      <3>1. PICK e \in SettledOf(s) : e.op = a.expected
        BY <1>1, <1>5, <2>3 DEF IInv, ChainInv
      <3>2. Stored(e.op) = e
        BY StoredIs DEF IInv, SettledOf, ArchivesOf
      <3>3. a.base = e.proposed
        BY <1>5, <2>3, <3>1, <3>2 DEF AcceptedRevision
      <3>4. Fields(s, a.before) = Fields(s, settlements[a.expected].after)
        BY <1>5, <2>3 DEF FollowsCheckpoint
      <3> QED BY <1>2, <1>3, <1>5, <2>1, <2>3, <3>1, <3>3, <3>4
    <2> QED BY <2>2, <2>3
  <1> QED BY <1>4, <1>5 DEF Reservable

\* The tables after a reservation.
LEMMA InsertTables ==
    ASSUME IInv, NEW a \in Archive, Reservable(a), Insert(a),
           UNCHANGED <<settlements, resolutions, native>>
    PROVE  ArchivesInv' /\ RowsInv' /\ ChainInv' /\ AcceptedInv'
  <1> DEFINE s == a.stream
             row == [checkpoint |-> a.expected, pending |-> a.op]
  <1>1. s \in Streams /\ a.op \in Ops /\ a.expected \in Ops \union {None}
    BY ArchiveType
  <1>2. /\ a \notin archives /\ ~Ended(a.op)
        /\ \A b \in archives : b.op # a.op
        /\ \A b \in archives : b.stream = s => ~Open(b)
        /\ streams[s] = None =>
              /\ a.expected = None /\ ArchivesOf(s) = {}
              /\ \A u \in ScopeOf[s] : owners[u] = None
        /\ streams[s] # None => streams[s].checkpoint = a.expected
    BY ReservableFacts
  <1>3. row \in Row /\ row # None /\ row.checkpoint = a.expected /\ row.pending = a.op
    BY <1>1, RecordAssumption DEF Row
  <1>4. archives' = archives \union {a} /\ streams' = [streams EXCEPT ![s] = row]
        /\ owners' = [u \in Uids |-> IF streams[s] = None /\ u \in ScopeOf[s] THEN s ELSE owners[u]]
    BY DEF Insert
  <1> HIDE DEF row
  <1>5. streams'[s] = row /\ \A t \in Streams \ {s} : streams'[t] = streams[t]
    BY <1>1, <1>4, FieldTypes DEF IInv
  <1>6. /\ \A op : Settled(op)' <=> Settled(op)
        /\ \A op : Ended(op)' <=> Ended(op)
        /\ \A b : Open(b)' <=> Open(b)
    BY DEF Settled, Ended, Open
  <1>7. Open(a) /\ ~Settled(a.op)
    BY <1>2 DEF Open, Ended
  <1>8. \A t : SettledOf(t)' = SettledOf(t)
    BY <1>4, <1>6, <1>7 DEF SettledOf, ArchivesOf
  <1>9. ArchivesInv'
    <2>1. IsFiniteSet(archives')
      BY <1>4, FS_AddElement DEF IInv, ArchivesInv
    <2>2. \A b, c \in archives' : b.op = c.op => b = c
      BY <1>2, <1>4 DEF IInv, ArchivesInv
    <2>3. \A op \in Ops : Ended(op) => \E b \in archives' : b.op = op
      BY <1>4 DEF IInv, ArchivesInv
    <2>4. \A op \in Ops : ~(Settled(op)' /\ op \in resolutions')
      BY <1>6 DEF IInv, ArchivesInv
    <2> QED BY <1>6, <2>1, <2>2, <2>3, <2>4 DEF ArchivesInv
  <1>10. RowsInv'
    <2>1. \A b \in archives' : streams'[b.stream] # None
      BY <1>1, <1>3, <1>4, <1>5, ArchiveType, FieldTypes DEF IInv, RowsInv
    <2>2. ASSUME NEW b \in archives', Open(b)
          PROVE  streams'[b.stream].pending = b.op
      <3>1. CASE b = a
        BY <1>3, <1>5, <3>1
      <3>2. CASE b \in archives
        <4>1. b.stream # s /\ b.stream \in Streams
          BY <1>2, <2>2, <3>2, ArchiveType, FieldTypes DEF IInv
        <4> QED BY <1>5, <2>2, <3>2, <4>1 DEF IInv, RowsInv
      <3> QED BY <1>4, <3>1, <3>2
    <2>3. ASSUME NEW t \in Streams, streams'[t] # None, streams'[t].pending # None
          PROVE  \E b \in archives' : /\ b.stream = t /\ b.op = streams'[t].pending /\ Open(b)
                                      /\ b.expected = streams'[t].checkpoint
      <3>1. CASE t = s
        BY <1>3, <1>4, <1>5, <1>7, <3>1
      <3>2. CASE t # s
        BY <1>4, <1>5, <2>3, <3>2 DEF IInv, RowsInv
      <3> QED BY <3>1, <3>2
    <2>4. ASSUME NEW t \in Streams, streams'[t] # None, NEW u \in ScopeOf[t]
          PROVE  owners'[u] = t
      <3>1. u \in Uids
        BY ScopeAssumption
      <3>2. CASE streams[t] # None
        <4>1. owners[u] = t /\ t # None
          BY <3>2, NoneAssumption DEF IInv, RowsInv
        <4>2. ~(streams[s] = None /\ u \in ScopeOf[s])
          BY <1>2, <4>1
        <4> QED BY <1>4, <3>1, <4>1, <4>2
      <3>3. CASE streams[t] = None
        BY <1>4, <1>5, <2>4, <3>1, <3>3
      <3> QED BY <3>2, <3>3
    <2> QED BY <1>6, <2>1, <2>2, <2>3, <2>4 DEF RowsInv
  <1>11. ChainInv'
    <2>1. ASSUME NEW b \in archives'
          PROVE  IF b.expected = None THEN b.base = OriginOf[b.stream]
                 ELSE \E e \in SettledOf(b.stream) : e.op = b.expected /\ b.base = e.proposed
      <3>1. CASE b = a
        BY <3>1, ReservableFacts
      <3>2. CASE b \in archives
        BY <3>2 DEF IInv, ChainInv
      <3> QED BY <1>4, <3>1, <3>2
    <2>2. \A b \in archives' : Settled(b.op) =>
             /\ settlements[b.op].parent = b.expected
             /\ b.expected # None => settlements[b.op].sequence = settlements[b.expected].sequence + 1
      BY <1>4, <1>7 DEF IInv, ChainInv
    <2>3. ASSUME NEW t \in Streams, streams'[t] # None
          PROVE  /\ {settlements[b.op].sequence : b \in SettledOf(t)} = 0 .. Cardinality(SettledOf(t)) - 1
                 /\ \A b \in SettledOf(t) : streams'[t].checkpoint = b.op <=>
                       settlements[b.op].sequence = Cardinality(SettledOf(t)) - 1
                 /\ IF streams'[t].checkpoint = None THEN SettledOf(t) = {}
                    ELSE \E b \in SettledOf(t) : b.op = streams'[t].checkpoint
      <3>1. CASE streams[t] # None
        <4>1. streams'[t].checkpoint = streams[t].checkpoint
          BY <1>2, <1>3, <1>5, <3>1
        <4> QED BY <3>1, <4>1 DEF IInv, ChainInv
      <3>2. CASE streams[t] = None
        <4>1. t = s /\ streams'[t].checkpoint = None
          BY <1>2, <1>3, <1>5, <2>3, <3>2
        <4>2. SettledOf(t) = {}
          BY <1>2, <3>2, <4>1 DEF SettledOf
        <4>3. Cardinality(SettledOf(t)) = 0 /\ 0 .. 0 - 1 = {}
          BY <4>2, FS_EmptySet
        <4> QED BY <4>1, <4>2, <4>3
      <3> QED BY <3>1, <3>2
    <2> QED BY <1>6, <1>8, <2>1, <2>2, <2>3 DEF ChainInv
  <1>12. AcceptedInv'
    <2>1. \A b, after : ScopeSatisfied(b, after)' <=> ScopeSatisfied(b, after)
      BY DEF ScopeSatisfied, Bound
    <2>2. ASSUME NEW b \in archives'
          PROVE  /\ Settled(b.op) => ScopeSatisfied(b, settlements[b.op].after)
                 /\ b.expected # None =>
                       Fields(b.stream, b.before) = Fields(b.stream, settlements[b.expected].after)
      <3>1. CASE b = a
        BY <1>7, <3>1, ReservableFacts
      <3>2. CASE b \in archives
        BY <3>2 DEF IInv, AcceptedInv
      <3> QED BY <1>4, <3>1, <3>2
    <2>3. \A b : ScopeSatisfied(b, settlements[b.op].after)' <=> ScopeSatisfied(b, settlements[b.op].after)
      BY DEF ScopeSatisfied, Bound
    <2> QED BY <1>6, <2>2, <2>3 DEF AcceptedInv, Fields
  <1> QED BY <1>9, <1>10, <1>11, <1>12

\* A publisher that stops, or that holds the right to send what it has just reserved.
LEMMA PublisherTypes ==
    ASSUME TypeOK, NEW p \in Publishers,
           \/ Stop(p)
           \/ pubs[p].step = "planned" /\ pubs' = [pubs EXCEPT ![p].step = "reserved"]
    PROVE  /\ pubs' \in [Publishers -> {Idle} \union Working \union Ending \union Settling]
           /\ \A q \in Publishers \ {p} : pubs'[q] = pubs[q]
           /\ \/ pubs'[p].step = "idle"
              \/ pubs'[p].step = "reserved" /\ pubs'[p].archive = pubs[p].archive
  <1>1. CASE Stop(p)
    BY <1>1, FieldTypes, IdleStep DEF Stop
  <1>2. CASE pubs[p].step = "planned" /\ pubs' = [pubs EXCEPT ![p].step = "reserved"]
    <2> DEFINE next == [pubs[p] EXCEPT !.step = "reserved"]
    <2>1. pubs[p] \in Working
      BY <1>2, PubType, IdleStep
    <2>2. next \in Working /\ next.step = "reserved" /\ next.archive = pubs[p].archive
      BY <2>1 DEF Working
    <2>3. pubs' = [pubs EXCEPT ![p] = next]
      BY <1>2
    <2> HIDE DEF next
    <2> QED BY <2>2, <2>3, FieldTypes
  <1> QED BY <1>1, <1>2

\* What the others bring keeps its worth while the journal and the archives do.
LEMMA OthersKept ==
    ASSUME IInv, NEW p \in Publishers, native' = native, archives \subseteq archives',
           \A q \in Publishers \ {p} : pubs'[q] = pubs[q],
           \/ pubs'[p].step = "idle"
           \/ pubs'[p].step = "reserved" /\ pubs'[p].archive \in archives'
    PROVE  PubsInv'
  <1>1. /\ \A a, state : Bound(a, state)' <=> Bound(a, state)
        /\ \A a, after : ScopeSatisfied(a, after)' <=> ScopeSatisfied(a, after)
    BY DEF ScopeSatisfied, Bound
  <1>2. ASSUME NEW q \in Publishers
        PROVE  /\ pubs'[q].step \in {"reserved", "asked", "not_started", "settling"}
                     => pubs'[q].archive \in archives'
               /\ pubs'[q].step = "not_started" => Bound(pubs'[q].archive, "not_started")
               /\ pubs'[q].step = "settling" => ScopeSatisfied(pubs'[q].archive, pubs'[q].after)
    <2>1. CASE q = p
      BY <2>1
    <2>2. CASE q # p
      BY <2>2 DEF IInv, PubsInv
    <2> QED BY <2>1, <2>2
  <1> QED BY <1>1, <1>2 DEF PubsInv

LEMMA ReserveInv == ASSUME IInv, NEW p \in Publishers, Reserve(p) PROVE IInv'
  <1> DEFINE a == pubs[p].archive
             s == a.stream
  <1>1. /\ pubs[p].step = "planned"
        /\ UNCHANGED <<doc, settlements, resolutions, createOps, frames, native, sent>>
    BY DEF Reserve
  <1>2. a \in Archive
    BY <1>1, PubType, IdleStep DEF IInv
  <1>3. CASE ~Reservable(a) /\ Stop(p) /\ UNCHANGED <<streams, owners, archives>>
    <2>1. UNCHANGED <<doc, store, frames, native, sent>>
      BY Zenon, <1>1, <1>3 DEF store
    <2> QED BY <1>3, <2>1, StopInv
  <1>4. CASE /\ Reservable(a) /\ Insert(a)
             /\ pubs' = [pubs EXCEPT ![p].step = "reserved"] \/ Stop(p)
    <2>1. /\ pubs' \in [Publishers -> {Idle} \union Working \union Ending \union Settling]
          /\ \A q \in Publishers \ {p} : pubs'[q] = pubs[q]
          /\ \/ pubs'[p].step = "idle"
             \/ pubs'[p].step = "reserved" /\ pubs'[p].archive = a
      BY <1>1, <1>4, PublisherTypes DEF IInv
    <2>2. archives' = archives \union {a}
      BY <1>4 DEF Insert
    <2>3. a \notin archives /\ sent[a.op] = 0
      BY <1>2, <1>4, ReservableFacts
    <2>4. ArchivesInv' /\ RowsInv' /\ ChainInv' /\ AcceptedInv'
      BY <1>1, <1>2, <1>4, InsertTables
    <2>5. TypeOK'
      <3>1. s \in Streams /\ [checkpoint |-> a.expected, pending |-> a.op] \in Row
        BY <1>2, ArchiveType DEF Row
      <3>2. streams' \in [Streams -> Row \union {None}]
        <4> HIDE DEF a
        <4> QED BY <1>4, <3>1, FieldTypes DEF Insert, IInv
      <3>3. owners' \in [Uids -> Streams \union {None}]
        BY <1>4, <3>1 DEF Insert, IInv, TypeOK
      <3>4. archives' \subseteq Archive
        BY <1>2, <2>2, FieldTypes DEF IInv
      <3> QED BY <1>1, <2>1, <3>2, <3>3, <3>4 DEF IInv, TypeOK
    <2>6. NativeInv'
      BY <1>1, <2>2 DEF IInv, NativeInv
    <2>7. SentInv'
      <3>1. \A op \in Ops : sent[op] <= 1 /\ (sent[op] # 0 => \E b \in archives' : b.op = op)
        BY <2>2 DEF IInv, SentInv
      <3>2. \A q \in Publishers : pubs[q].step = "reserved" => pubs[q].archive # a
        BY <2>3 DEF IInv, PubsInv
      <3>3. \A q \in Publishers : pubs'[q].step = "reserved" =>
               \/ q = p /\ pubs'[q].archive = a
               \/ q # p /\ pubs'[q] = pubs[q] /\ pubs'[q].archive # a
        BY <2>1, <3>2
      <3>4. \A q \in Publishers : pubs'[q].step = "reserved" => sent[pubs'[q].archive.op] = 0
        BY <2>3, <3>3 DEF IInv, SentInv
      <3>5. \A q, r \in Publishers :
               pubs'[q].step = "reserved" /\ pubs'[r].step = "reserved"
                  /\ pubs'[q].archive = pubs'[r].archive => q = r
        <4> HIDE DEF a
        <4> QED BY <3>3 DEF IInv, SentInv
      <3> QED BY <1>1, <3>1, <3>4, <3>5 DEF SentInv
    <2>8. PubsInv'
      BY <1>1, <2>1, <2>2, OthersKept
    <2> QED BY <2>4, <2>5, <2>6, <2>7, <2>8 DEF IInv
  <1> QED BY <1>3, <1>4 DEF Reserve

LEMMA SendInv == ASSUME IInv, NEW p \in Publishers, Send(p) PROVE IInv'
  <1> DEFINE a == pubs[p].archive
  <1>1. /\ pubs[p].step = "reserved" /\ Stop(p) /\ UNCHANGED <<doc, store, native>>
        /\ frames' = [frames EXCEPT !.updates = @ \union {a}]
        /\ sent' = [sent EXCEPT ![a.op] = IF @ < 2 THEN @ + 1 ELSE @]
    BY DEF Send
  <1>2. a \in archives /\ a.op \in Ops /\ sent[a.op] = 0 /\ a \in Archive
    BY <1>1, ArchiveType, FieldTypes DEF IInv, PubsInv, SentInv
  <1>3. sent' = [sent EXCEPT ![a.op] = 1]
    BY <1>1, <1>2 DEF IInv, TypeOK
  <1>4. sent' \in [Ops -> 0 .. 2] /\ sent'[a.op] = 1 /\ \A op \in Ops \ {a.op} : sent'[op] = sent[op]
    BY <1>2, <1>3 DEF IInv, TypeOK
  <1>5. frames' \in [updates : SUBSET archives, cancels : SUBSET archives]
    <2>1. frames \in [updates : SUBSET archives, cancels : SUBSET archives]
      BY DEF IInv, TypeOK, NativeInv
    <2> HIDE DEF a
    <2> QED BY <1>1, <1>2, <2>1
  <1>6. UNCHANGED <<streams, owners, archives, settlements, resolutions, createOps>>
    BY <1>1 DEF store
  <1>7. /\ pubs' \in [Publishers -> {Idle} \union Working \union Ending \union Settling]
        /\ \A q \in Publishers \ {p} : pubs'[q] = pubs[q]
        /\ pubs'[p].step = "idle"
    BY <1>1, FieldTypes, IdleStep DEF Stop, IInv
  <1>8. TypeOK'
    <2>1. frames' \in [updates : SUBSET Archive, cancels : SUBSET Archive]
      BY <1>5, FieldTypes DEF IInv
    <2> HIDE DEF a
    <2> QED BY <1>1, <1>4, <1>6, <1>7, <2>1 DEF IInv, TypeOK
  <1>9. ArchivesInv' /\ RowsInv' /\ ChainInv' /\ AcceptedInv'
    BY <1>1, TablesKept, AcceptedKept DEF Bound
  <1>10. NativeInv'
    BY <1>1, <1>5, <1>6 DEF IInv, NativeInv
  <1>11. SentInv'
    <2>1. \A op \in Ops : sent'[op] <= 1 /\ (sent'[op] # 0 => \E b \in archives : b.op = op)
      BY <1>2, <1>4 DEF IInv, SentInv
    <2>2. \A q \in Publishers : pubs'[q].step = "reserved" =>
             q # p /\ pubs'[q] = pubs[q] /\ pubs[q].archive # a /\ pubs[q].archive \in archives
      BY <1>1, <1>7 DEF IInv, SentInv, PubsInv
    <2>3. \A b \in archives : b # a => sent'[b.op] = sent[b.op]
      BY <1>2, <1>4, ArchiveType, FieldTypes DEF IInv, ArchivesInv
    <2> HIDE DEF a
    <2> QED BY <1>6, <2>1, <2>2, <2>3 DEF IInv, SentInv
  <1>12. PubsInv'
    BY <1>1, <1>6, <1>7, OthersKept
  <1> QED BY <1>8, <1>9, <1>10, <1>11, <1>12 DEF IInv

-----------------------------------------------------------------------------
(* Ending an update *)

\* Compare and swap finds the one open archive of the stream: it is the
\* publisher's, and it was made on the checkpoint that is still there.
LEMMA CurrentFacts ==
    ASSUME IInv, NEW p \in Publishers, pubs[p].step \in {"settling", "not_started"}, Current(p)
    PROVE  /\ pubs[p].archive \in archives /\ pubs[p].archive \in Archive
           /\ Open(pubs[p].archive)
           /\ streams[pubs[p].archive.stream] \in Row /\ streams[pubs[p].archive.stream] # None
           /\ streams[pubs[p].archive.stream].checkpoint = pubs[p].archive.expected
           /\ streams[pubs[p].archive.stream].pending = pubs[p].archive.op
  <1> DEFINE a == pubs[p].archive
             s == a.stream
             row == [checkpoint |-> pubs[p].expected, pending |-> a.op]
  <1>1. a \in archives /\ a \in Archive /\ s \in Streams /\ a.op \in Ops
    BY ArchiveType, FieldTypes DEF IInv, PubsInv
  <1>2. pubs[p].expected \in Ops \union {None}
    BY PubType, IdleStep DEF IInv, Ending, Settling
  <1>3. row \in Row /\ row # None /\ row.pending = a.op
    BY <1>1, <1>2, RecordAssumption DEF Row
  <1>4. streams[s] = row
    BY DEF Current
  <1> HIDE DEF row
  <1>5. PICK b \in archives : /\ b.stream = s /\ b.op = streams[s].pending /\ Open(b)
                              /\ b.expected = streams[s].checkpoint
    BY <1>1, <1>3, <1>4, NoneAssumption DEF IInv, RowsInv
  <1>6. b = a
    BY <1>1, <1>3, <1>4, <1>5 DEF IInv, ArchivesInv
  <1> QED BY <1>1, <1>3, <1>4, <1>5, <1>6

\* The rows after the pending archive got its end.
LEMMA EndedRows ==
    ASSUME IInv, NEW a \in archives, streams[a.stream] # None, streams[a.stream].pending = a.op,
           NEW row \in Row, row.pending = None, streams' = [streams EXCEPT ![a.stream] = row],
           UNCHANGED <<archives, owners>>,
           \A b \in archives : Open(b)' <=> Open(b) /\ b # a
    PROVE  RowsInv'
  <1> DEFINE s == a.stream
  <1>1. s \in Streams /\ a.op \in Ops /\ row # None
    BY ArchiveType, FieldTypes, RecordAssumption DEF IInv
  <1>2. streams'[s] = row /\ \A t \in Streams \ {s} : streams'[t] = streams[t]
    BY <1>1, FieldTypes DEF IInv
  <1>3. \A b \in archives : b.stream \in Streams
    BY ArchiveType, FieldTypes DEF IInv
  <1>4. \A t \in Streams : streams'[t] # None <=> streams[t] # None
    BY <1>1, <1>2
  <1>5. \A b \in archives : Open(b)' => streams'[b.stream].pending = b.op
    <2> SUFFICES ASSUME NEW b \in archives, Open(b), b # a
                 PROVE  streams'[b.stream].pending = b.op
      OBVIOUS
    <2>1. streams[b.stream].pending = b.op /\ b.op # a.op
      BY DEF IInv, RowsInv, ArchivesInv
    <2>2. b.stream # s
      BY <2>1
    <2> QED BY <1>2, <1>3, <2>1, <2>2
  <1>6. ASSUME NEW t \in Streams, streams'[t] # None, streams'[t].pending # None
        PROVE  \E b \in archives : /\ b.stream = t /\ b.op = streams'[t].pending /\ Open(b)'
                                   /\ b.expected = streams'[t].checkpoint
    <2>1. t # s /\ streams'[t] = streams[t]
      BY <1>2, <1>6
    <2>2. PICK b \in archives : /\ b.stream = t /\ b.op = streams[t].pending /\ Open(b)
                                /\ b.expected = streams[t].checkpoint
      BY <1>6, <2>1 DEF IInv, RowsInv
    <2>3. Open(b)'
      BY <2>1, <2>2
    <2> QED BY <2>1, <2>2, <2>3
  <1>7. \A b \in archives : streams'[b.stream] # None
    BY <1>3, <1>4 DEF IInv, RowsInv
  <1>8. \A t \in Streams : streams'[t] # None => \A u \in ScopeOf[t] : owners[u] = t
    BY <1>4 DEF IInv, RowsInv
  <1> QED BY <1>5, <1>6, <1>7, <1>8 DEF RowsInv

LEMMA ResolveNotStartedInv == ASSUME IInv, NEW p \in Publishers, ResolveNotStarted(p) PROVE IInv'
  <1> DEFINE a == pubs[p].archive
             s == a.stream
             row == [streams[s] EXCEPT !.pending = None]
  <1>1. /\ pubs[p].step = "not_started" /\ Stop(p)
        /\ UNCHANGED <<doc, owners, archives, settlements, createOps, frames, native, sent>>
    BY DEF ResolveNotStarted
  <1>2. CASE ~Current(p) /\ UNCHANGED <<resolutions, streams>>
    <2>1. UNCHANGED <<doc, store, frames, native, sent>>
      BY Zenon, <1>1, <1>2 DEF store
    <2> QED BY <1>1, <2>1, StopInv
  <1>3. CASE /\ Current(p)
             /\ resolutions' = resolutions \union {a.op}
             /\ streams' = [streams EXCEPT ![s].pending = None]
    <2>1. /\ a \in archives /\ a \in Archive /\ Open(a)
          /\ streams[s] \in Row /\ streams[s] # None
          /\ streams[s].checkpoint = a.expected /\ streams[s].pending = a.op
      BY <1>1, <1>3, CurrentFacts
    <2>2. s \in Streams /\ a.op \in Ops
      BY <2>1, ArchiveType
    <2>3. row \in Row /\ row.pending = None /\ row.checkpoint = streams[s].checkpoint
      BY <2>1 DEF Row
    <2>4. streams' = [streams EXCEPT ![s] = row]
      BY <1>3
    <2> HIDE DEF row
    <2>5. streams'[s] = row /\ \A t \in Streams \ {s} : streams'[t] = streams[t]
      BY <2>2, <2>4, FieldTypes DEF IInv
    <2>6. /\ \A op : Settled(op)' <=> Settled(op)
          /\ \A t : SettledOf(t)' = SettledOf(t)
      BY <1>1 DEF Settled, SettledOf, ArchivesOf
    <2>7. \A b \in archives : Open(b)' <=> Open(b) /\ b # a
      <3>1. \A b \in archives : b.op = a.op <=> b = a
        BY <2>1 DEF IInv, ArchivesInv
      <3> HIDE DEF a
      <3> QED BY <1>3, <2>6, <3>1 DEF Open
    <2>8. TypeOK'
      <3>1. streams' \in [Streams -> Row \union {None}] /\ resolutions' \subseteq Ops
        BY <1>3, <2>2, <2>3, <2>4, FieldTypes DEF IInv, TypeOK
      <3>2. pubs' \in [Publishers -> {Idle} \union Working \union Ending \union Settling]
        BY <1>1, PublisherTypes DEF IInv
      <3> QED BY <1>1, <3>1, <3>2 DEF IInv, TypeOK
    <2>9. ArchivesInv'
      <3>1. ASSUME NEW op \in Ops, Settled(op) \/ op \in resolutions'
            PROVE  \E b \in archives : b.op = op
        BY <1>3, <2>1, <3>1 DEF IInv, ArchivesInv, Ended
      <3>2. \A op \in Ops : ~(Settled(op) /\ op \in resolutions')
        BY <1>3, <2>1 DEF IInv, ArchivesInv, Open
      <3> QED BY <1>1, <2>6, <3>1, <3>2 DEF IInv, ArchivesInv, Ended
    <2>10. RowsInv'
      BY <1>1, <2>1, <2>3, <2>4, <2>7, EndedRows
    <2>11. ChainInv'
      <3>1. \A t \in Streams : streams'[t] # None =>
               streams[t] # None /\ streams'[t].checkpoint = streams[t].checkpoint
        BY <2>1, <2>3, <2>5
      <3> QED BY <1>1, <2>6, <3>1 DEF IInv, ChainInv
    <2>12. AcceptedInv'
      BY <1>1, <2>6 DEF IInv, AcceptedInv, ScopeSatisfied, Bound, Fields
    <2>13. NativeInv'
      <3>1. native[a.op] # None /\ native[a.op].state = "not_started"
        BY <1>1, <2>1, BoundEntry DEF IInv, PubsInv, NativeStates
      <3> QED BY <1>1, <1>3, <3>1 DEF IInv, NativeInv
    <2>14. /\ \A q \in Publishers \ {p} : pubs'[q] = pubs[q]
           /\ pubs'[p].step = "idle"
      BY <1>1, FieldTypes, IdleStep DEF Stop, IInv
    <2>15. SentInv'
      BY <1>1, <2>14 DEF IInv, SentInv
    <2>16. PubsInv'
      BY <1>1, <2>14, OthersKept
    <2> QED BY <2>8, <2>9, <2>10, <2>11, <2>12, <2>13, <2>15, <2>16 DEF IInv
  <1> QED BY <1>2, <1>3 DEF ResolveNotStarted

\* The settlement of the pending archive continues the chain of its stream.
LEMMA SettledChain ==
    ASSUME IInv, NEW a \in archives, Open(a), NEW record \in Settlement,
           streams[a.stream] \in Row, streams[a.stream] # None,
           streams[a.stream].checkpoint = a.expected,
           record.parent = a.expected,
           record.sequence = IF a.expected = None THEN 0 ELSE settlements[a.expected].sequence + 1,
           settlements' = [settlements EXCEPT ![a.op] = record],
           streams' = [streams EXCEPT ![a.stream] = [checkpoint |-> a.op, pending |-> None]],
           archives' = archives
    PROVE  ChainInv'
  <1> DEFINE s == a.stream
             S == SettledOf(s)
             n == Cardinality(S)
             row == [checkpoint |-> a.op, pending |-> None]
  <1>1. s \in Streams /\ a.op \in Ops /\ archives \subseteq Archive
    BY ArchiveType, FieldTypes DEF IInv
  <1>2. row.checkpoint = a.op /\ row # None /\ a.op # None
    BY <1>1, RecordAssumption, NoneAssumption DEF Row
  <1>3. streams' = [streams EXCEPT ![s] = row]
    OBVIOUS
  <1> HIDE DEF row
  <1>4. streams'[s] = row /\ \A t \in Streams \ {s} : streams'[t] = streams[t]
    BY <1>1, <1>3, FieldTypes DEF IInv
  <1>5. record # None
    BY RecordAssumption
  <1>6. /\ settlements'[a.op] = record
        /\ \A op \in Ops \ {a.op} : settlements'[op] = settlements[op]
    BY <1>1, FieldTypes DEF IInv
  <1>7. \A b \in archives : (Settled(b.op)' <=> Settled(b.op) \/ b = a) /\ (b # a => b.op # a.op)
    BY <1>1, <1>5, <1>6, ArchiveType DEF Settled, IInv, ArchivesInv
  <1>8. SettledOf(s)' = S \union {a} /\ a \notin S
    BY <1>7 DEF SettledOf, ArchivesOf, Open
  <1>9. \A t \in Streams \ {s} : SettledOf(t)' = SettledOf(t)
    BY <1>7 DEF SettledOf, ArchivesOf
  <1>10. \A t \in Streams : \A b \in SettledOf(t) :
            b \in archives /\ b.op \in Ops \ {a.op} /\ settlements'[b.op] = settlements[b.op]
    BY <1>1, <1>6, <1>7, ArchiveType DEF SettledOf, ArchivesOf, Open
  <1>11. IsFiniteSet(S) /\ n \in Nat /\ Cardinality(S \union {a}) = n + 1
    <2>1. IsFiniteSet(S)
      BY FS_Subset DEF IInv, ArchivesInv, SettledOf, ArchivesOf
    <2> QED BY <1>8, <2>1, FS_CardinalityType, FS_AddElement
  <1>12. /\ {settlements[b.op].sequence : b \in S} = 0 .. n - 1
         /\ \A b \in S : streams[s].checkpoint = b.op <=> settlements[b.op].sequence = n - 1
         /\ IF streams[s].checkpoint = None THEN S = {}
            ELSE \E b \in S : b.op = streams[s].checkpoint
    BY <1>1 DEF IInv, ChainInv
  <1>13. record.sequence = n
    <2>1. CASE a.expected = None
      BY <1>12, <2>1, FS_EmptySet
    <2>2. CASE a.expected # None
      <3>1. PICK e \in S : e.op = a.expected
        BY <1>12, <2>2
      <3>2. settlements[a.expected].sequence = n - 1
        BY <1>12, <3>1
      <3> HIDE DEF n
      <3> QED BY <1>11, <2>2, <3>2
    <2> QED BY <2>1, <2>2
  <1>14. \A b \in archives :
            IF b.expected = None THEN b.base = OriginOf[b.stream]
            ELSE \E e \in SettledOf(b.stream)' : e.op = b.expected /\ b.base = e.proposed
    <2> SUFFICES ASSUME NEW b \in archives, b.expected # None
                 PROVE  \E e \in SettledOf(b.stream)' : e.op = b.expected /\ b.base = e.proposed
      BY DEF IInv, ChainInv
    <2>1. PICK e \in SettledOf(b.stream) : e.op = b.expected /\ b.base = e.proposed
      BY DEF IInv, ChainInv
    <2>2. b.stream \in Streams
      BY <1>1, ArchiveType
    <2>3. e \in SettledOf(b.stream)'
      BY <1>8, <1>9, <2>2
    <2> QED BY <2>1, <2>3
  <1>15. ASSUME NEW b \in archives, Settled(b.op) \/ b = a
         PROVE  /\ settlements'[b.op].parent = b.expected
                /\ b.expected # None =>
                      settlements'[b.op].sequence = settlements'[b.expected].sequence + 1
    <2>1. b.expected # None => settlements'[b.expected] = settlements[b.expected]
      <3>1. b.stream \in Streams
        BY <1>1, ArchiveType
      <3> QED BY <1>10, <3>1 DEF IInv, ChainInv
    <2>2. CASE b = a
      BY <1>6, <2>1, <2>2
    <2>3. CASE b # a
      <3>1. settlements'[b.op] = settlements[b.op] /\ Settled(b.op)
        BY <1>1, <1>6, <1>7, <1>15, <2>3, ArchiveType
      <3> QED BY <2>1, <3>1 DEF IInv, ChainInv
    <2> QED BY <2>2, <2>3
  <1>16. /\ {settlements'[b.op].sequence : b \in S \union {a}} = 0 .. n
         /\ \A b \in S \union {a} : row.checkpoint = b.op <=> settlements'[b.op].sequence = n
    <2>1. \A b \in S : settlements'[b.op].sequence = settlements[b.op].sequence /\ b.op # a.op
      BY <1>1, <1>10
    <2>2. settlements'[a.op].sequence = n
      BY <1>6, <1>13
    <2>3. \A b \in S : settlements[b.op].sequence \in 0 .. n - 1
      BY <1>12
    <2> DEFINE old == {settlements[b.op].sequence : b \in S}
    <2>4. {settlements'[b.op].sequence : b \in S \union {a}} = old \union {n}
      BY <2>1, <2>2
    <2>5. old = 0 .. n - 1
      BY <1>12
    <2> HIDE DEF n, S, old
    <2>6. 0 .. n = (0 .. n - 1) \union {n}
      BY <1>11
    <2> QED BY <1>2, <1>11, <2>1, <2>2, <2>3, <2>4, <2>5, <2>6
  <1>17. ASSUME NEW t \in Streams, streams'[t] # None
         PROVE  /\ {settlements'[b.op].sequence : b \in SettledOf(t)'}
                      = 0 .. Cardinality(SettledOf(t)') - 1
                /\ \A b \in SettledOf(t)' : streams'[t].checkpoint = b.op <=>
                      settlements'[b.op].sequence = Cardinality(SettledOf(t)') - 1
                /\ IF streams'[t].checkpoint = None THEN SettledOf(t)' = {}
                   ELSE \E b \in SettledOf(t)' : b.op = streams'[t].checkpoint
    <2>1. CASE t = s
      <3>1. Cardinality(SettledOf(s)') - 1 = n
        <4>1. Cardinality(SettledOf(s)') = n + 1
          BY <1>8, <1>11
        <4> HIDE DEF n
        <4> QED BY <1>11, <4>1
      <3>2. \E b \in S \union {a} : b.op = row.checkpoint
        BY <1>2
      <3> HIDE DEF n, S
      <3> QED BY <1>2, <1>4, <1>8, <1>16, <2>1, <3>1, <3>2
    <2>2. CASE t # s
      <3>1. /\ {settlements[b.op].sequence : b \in SettledOf(t)} = 0 .. Cardinality(SettledOf(t)) - 1
            /\ \A b \in SettledOf(t) : streams[t].checkpoint = b.op <=>
                  settlements[b.op].sequence = Cardinality(SettledOf(t)) - 1
            /\ IF streams[t].checkpoint = None THEN SettledOf(t) = {}
               ELSE \E b \in SettledOf(t) : b.op = streams[t].checkpoint
        BY <1>4, <1>17, <2>2 DEF IInv, ChainInv
      <3>2. {settlements'[b.op].sequence : b \in SettledOf(t)} = {settlements[b.op].sequence : b \in SettledOf(t)}
        BY <1>10
      <3>3. \A b \in SettledOf(t) : settlements'[b.op] = settlements[b.op]
        BY <1>10
      <3>4. SettledOf(t)' = SettledOf(t) /\ streams'[t] = streams[t]
        BY <1>4, <1>9, <2>2
      <3> QED BY <3>1, <3>2, <3>3, <3>4
    <2> QED BY <2>1, <2>2
  <1>18. \A b \in archives : Settled(b.op)' =>
            /\ settlements'[b.op].parent = b.expected
            /\ b.expected # None =>
                  settlements'[b.op].sequence = settlements'[b.expected].sequence + 1
    BY <1>7, <1>15
  <1> HIDE DEF S, n, row
  <1> QED BY <1>14, <1>17, <1>18 DEF ChainInv

LEMMA SettleInv == ASSUME IInv, NEW p \in Publishers, Settle(p) PROVE IInv'
  <1> DEFINE a == pubs[p].archive
             s == a.stream
             row == [checkpoint |-> a.op, pending |-> None]
             record == [parent |-> a.expected, after |-> pubs[p].after,
                        sequence |-> IF a.expected = None THEN 0
                                     ELSE settlements[a.expected].sequence + 1]
  <1>1. /\ pubs[p].step = "settling" /\ Stop(p)
        /\ UNCHANGED <<doc, owners, archives, resolutions, createOps, frames, native, sent>>
    BY DEF Settle
  <1>2. CASE ~Current(p) /\ UNCHANGED <<settlements, streams>>
    <2>1. UNCHANGED <<doc, store, frames, native, sent>>
      BY Zenon, <1>1, <1>2 DEF store
    <2> QED BY <1>1, <2>1, StopInv
  <1>3. CASE /\ Current(p)
             /\ settlements' = [settlements EXCEPT ![a.op] = record]
             /\ streams' = [streams EXCEPT ![s] = row]
    <2>1. /\ a \in archives /\ a \in Archive /\ Open(a)
          /\ streams[s] \in Row /\ streams[s] # None
          /\ streams[s].checkpoint = a.expected /\ streams[s].pending = a.op
      BY <1>1, <1>3, CurrentFacts
    <2>2. s \in Streams /\ a.op \in Ops /\ a.expected \in Ops \union {None}
      BY <2>1, ArchiveType
    <2>3. row \in Row /\ row # None /\ row.pending = None /\ row.checkpoint = a.op
      BY <2>2, RecordAssumption DEF Row
    <2>4. a.expected # None => settlements[a.expected] \in Settlement
      <3>1. a.expected # None => Settled(a.expected)
        BY <2>1, <2>2 DEF IInv, ChainInv, SettledOf
      <3> QED BY <2>2, <3>1, FieldTypes DEF IInv, Settled
    <2>5. record \in Settlement /\ record # None
      <3>1. pubs[p].after \in Document
        BY <1>1, PubType, IdleStep DEF IInv, Settling
      <3>2. a.expected # None => settlements[a.expected].sequence \in Nat
        BY <2>4 DEF Settlement
      <3>3. record \in Settlement
        BY <2>2, <3>1, <3>2 DEF Settlement
      <3> QED BY <3>3, RecordAssumption
    <2>6. ChainInv'
      BY <1>1, <1>3, <2>1, <2>5, SettledChain
    <2>7. record.after = pubs[p].after
      OBVIOUS
    <2> HIDE DEF row, record
    <2>8. /\ settlements'[a.op] = record
          /\ \A op \in Ops \ {a.op} : settlements'[op] = settlements[op]
      BY <1>3, <2>2, FieldTypes DEF IInv
    <2>9. \A op \in Ops : Settled(op)' <=> Settled(op) \/ op = a.op
      BY <2>5, <2>8 DEF Settled
    <2>10. \A b \in archives : b.op \in Ops /\ (b.op = a.op <=> b = a)
      BY <2>1, ArchiveType, FieldTypes DEF IInv, ArchivesInv
    <2>11. TypeOK'
      <3>1. /\ streams' \in [Streams -> Row \union {None}]
            /\ settlements' \in [Ops -> Settlement \union {None}]
        BY <1>3, <2>2, <2>3, <2>5, FieldTypes DEF IInv
      <3>2. pubs' \in [Publishers -> {Idle} \union Working \union Ending \union Settling]
        BY <1>1, PublisherTypes DEF IInv
      <3> QED BY <1>1, <3>1, <3>2 DEF IInv, TypeOK
    <2>12. ArchivesInv'
      <3>1. \A op \in Ops : Settled(op)' \/ op \in resolutions => \E b \in archives : b.op = op
        BY <2>1, <2>9 DEF IInv, ArchivesInv, Ended
      <3>2. \A op \in Ops : ~(Settled(op)' /\ op \in resolutions)
        BY <2>1, <2>9 DEF IInv, ArchivesInv, Open
      <3> QED BY <1>1, <3>1, <3>2 DEF IInv, ArchivesInv, Ended
    <2>13. RowsInv'
      <3>1. \A b \in archives : Open(b)' <=> Open(b) /\ b # a
        <4> HIDE DEF a
        <4> QED BY <1>1, <2>9, <2>10 DEF Open
      <3> QED BY <1>1, <1>3, <2>1, <2>3, <3>1, EndedRows
    <2>14. AcceptedInv'
      <3>1. \A b, after : ScopeSatisfied(b, after)' <=> ScopeSatisfied(b, after)
        BY <1>1 DEF ScopeSatisfied, Bound
      <3>2. ASSUME NEW b \in archives, Settled(b.op)'
            PROVE  ScopeSatisfied(b, settlements'[b.op].after)
        <4>1. CASE b = a
          BY <1>1, <2>7, <2>8, <4>1 DEF IInv, PubsInv
        <4>2. CASE b # a
          BY <2>8, <2>9, <2>10, <3>2, <4>2 DEF IInv, AcceptedInv
        <4> QED BY <4>1, <4>2
      <3>3. ASSUME NEW b \in archives, b.expected # None
            PROVE  Fields(b.stream, b.before) = Fields(b.stream, settlements'[b.expected].after)
        <4>1. PICK e \in SettledOf(b.stream) : e.op = b.expected
          BY <3>3 DEF IInv, ChainInv
        <4>2. settlements'[b.expected] = settlements[b.expected]
          BY <2>1, <2>8, <2>10, <4>1 DEF SettledOf, ArchivesOf, Open
        <4> QED BY <3>3, <4>2 DEF IInv, AcceptedInv
      <3>4. \A b \in archives : Settled(b.op)' => ScopeSatisfied(b, settlements[b.op].after)'
        <4> SUFFICES ASSUME NEW b \in archives, Settled(b.op)'
                     PROVE  ScopeSatisfied(b, settlements[b.op].after)'
          OBVIOUS
        <4>1. \A after : after = settlements'[b.op].after => ScopeSatisfied(b, after)'
          BY <3>1, <3>2
        <4> QED BY <4>1
      <3> QED BY <1>1, <3>3, <3>4 DEF AcceptedInv, Fields
    <2>15. NativeInv'
      BY <1>1 DEF IInv, NativeInv
    <2>16. /\ \A q \in Publishers \ {p} : pubs'[q] = pubs[q]
           /\ pubs'[p].step = "idle"
      BY <1>1, FieldTypes, IdleStep DEF Stop, IInv
    <2>17. SentInv'
      BY <1>1, <2>16 DEF IInv, SentInv
    <2>18. PubsInv'
      BY <1>1, <2>16, OthersKept
    <2> QED BY <2>6, <2>11, <2>12, <2>13, <2>14, <2>15, <2>17, <2>18 DEF IInv
  <1> QED BY <1>2, <1>3 DEF Settle

-----------------------------------------------------------------------------
(* The invariant *)

LEMMA InitInv == Init => IInv
  <1> SUFFICES ASSUME Init PROVE IInv
    OBVIOUS
  <1>1. doc \in Document
    <2> DEFINE first == CHOOSE r \in Revisions : ParentOf[r] = None
    <2>1. first \in Revisions
      BY HistoryAssumption
    <2>2. ElevOf[first] \in Values
      BY <2>1, HistoryAssumption
    <2>3. doc = [rev |-> 0, at |-> [u \in Uids |-> ElevOf[first]]]
      BY DEF Init
    <2> HIDE DEF first
    <2> QED BY <2>2, <2>3, BoundAssumption DEF Document
  <1>2. TypeOK
    BY <1>1 DEF Init, TypeOK
  <1>3. /\ archives = {} /\ resolutions = {} /\ \A op \in Ops : ~Settled(op)
        /\ \A s \in Streams : streams[s] = None
    BY DEF Init, Settled
  <1>4. ArchivesInv /\ RowsInv /\ ChainInv /\ AcceptedInv
    BY <1>3, FS_EmptySet DEF ArchivesInv, RowsInv, ChainInv, AcceptedInv, Ended
  <1>5. NativeInv /\ SentInv /\ PubsInv
    BY IdleStep DEF Init, NativeInv, SentInv, PubsInv
  <1> QED BY <1>2, <1>4, <1>5 DEF IInv

LEMMA StutterInv == ASSUME IInv, UNCHANGED vars PROVE IInv'
  <1>1. UNCHANGED <<doc, store, pubs, frames, native, sent>>
    BY Zenon DEF vars
  <1>2. UNCHANGED <<streams, owners, archives, settlements, resolutions, createOps>>
    BY Zenon, <1>1 DEF store
  <1>3. TypeOK'
    BY <1>1, <1>2 DEF IInv, TypeOK
  <1>4. ArchivesInv' /\ RowsInv' /\ ChainInv' /\ AcceptedInv'
    BY <1>1, TablesKept, AcceptedKept DEF Bound
  <1>5. NativeInv' /\ SentInv'
    BY <1>1, <1>2 DEF IInv, NativeInv, SentInv
  <1>6. PubsInv'
    BY <1>1, <1>2 DEF IInv, PubsInv, ScopeSatisfied, Bound
  <1> QED BY <1>3, <1>4, <1>5, <1>6 DEF IInv

LEMMA NextInv == IInv /\ [Next]_vars => IInv'
  <1> SUFFICES ASSUME IInv, Next PROVE IInv'
    BY StutterInv
  <1>1. CASE \E u \in Uids : UserEdits(u)
    BY <1>1, UserEditsInv
  <1>2. CASE \E a \in frames.updates \union frames.cancels : Invoke(a) \/ Refuse(a) \/ Lose(a)
    BY <1>2, InvokeInv, LoseInv
  <1>3. CASE \E op \in Ops :
                \/ \E state \in {"satisfied", "unsatisfied", "unknown"} : Finish(op, state)
                \/ ReserveCreateOperation(op)
    BY <1>3, FinishInv, ReserveCreateOperationInv
  <1>4. CASE \E p \in Publishers, s \in Streams, op \in Ops, r \in Revisions : Plan(p, s, op, r)
    BY <1>4, PlanInv
  <1>5. CASE \E p \in Publishers, s \in Streams : Ask(p, s) \/ RequestCancel(p, s)
    BY <1>5, AskInv
  <1>6. CASE \E p \in Publishers :
                \/ Reserve(p) \/ Send(p) \/ GiveUp(p)
                \/ QualifySettlement(p) \/ Settle(p) \/ QualifyNotStarted(p) \/ ResolveNotStarted(p)
    BY <1>6, ReserveInv, SendInv, GiveUpInv, QualifySettlementInv, SettleInv, QualifyNotStartedInv,
       ResolveNotStartedInv
  <1> QED BY <1>1, <1>2, <1>3, <1>4, <1>5, <1>6 DEF Next

\* The strengthened invariant holds in every state.
THEOREM InvariantHolds == Spec => []IInv
  BY InitInv, NextInv, PTL DEF Spec

\* An operation id goes out to be executed at most once, and nothing Revit may run
\* or has run is unknown to the store: the right to send is made with the archive,
\* in one transaction.  (kir/standalone_publish.py:376, :380)
THEOREM NeverSentTwice == Spec => []SentOnce
  <1>1. IInv => SentOnce
    BY DEF IInv, SentInv, NativeInv, SentOnce
  <1> QED BY <1>1, InvariantHolds, PTL

\* A resolved update never starts, however late its request arrives.
\* (kir/project_realization_store.py:607, kir/level_resolution.py:103)
THEOREM ResolvedStaysAway == Spec => []ResolvedNeverStarts
  <1>1. IInv => ResolvedNeverStarts
    BY DEF IInv, NativeInv, ResolvedNeverStarts
  <1> QED BY <1>1, InvariantHolds, PTL

\* The tables read back as audit_streams and every read_baseline require: one
\* pending pointer for the one archive without an end, one unbroken chain of
\* settlements whose last is the checkpoint, one stream for an element.
\* (kir/project_realization_store.py:459, :727)
THEOREM TablesSound == Spec => []LedgerSound
  <1>1. ASSUME IInv, NEW s \in Streams, streams[s] # None
        PROVE  LET settled == {a \in ArchivesOf(s) : Settled(a.op)}
                   open == {a \in ArchivesOf(s) : ~Settled(a.op) /\ a.op \notin resolutions}
               IN  /\ {a.op : a \in open} = {streams[s].pending} \ {None}
                   /\ \A a \in settled : a.op \notin resolutions
                   /\ {settlements[a.op].sequence : a \in settled} = 0 .. Cardinality(settled) - 1
                   /\ \A a \in settled : settlements[a.op].parent = a.expected
                   /\ \A a \in ArchivesOf(s) :
                         IF a.expected = None THEN a.base = OriginOf[s]
                         ELSE Stored(a.expected) \in settled /\ a.base = Stored(a.expected).proposed
                   /\ \A a \in settled : a.expected # None =>
                         settlements[a.op].sequence = settlements[a.expected].sequence + 1
                   /\ \A a \in settled :
                         streams[s].checkpoint = a.op <=>
                             settlements[a.op].sequence = Cardinality(settled) - 1
                   /\ \A u \in ScopeOf[s] : owners[u] = s
    <2> DEFINE settled == SettledOf(s)
               open == {a \in ArchivesOf(s) : Open(a)}
    <2>1. \A a \in ArchivesOf(s) : a \in archives /\ a.stream = s /\ a.op \in Ops
      BY <1>1, ArchiveType, FieldTypes DEF IInv, ArchivesOf
    <2>2. {a.op : a \in open} = {streams[s].pending} \ {None}
      <3>1. \A a \in open : a.op = streams[s].pending /\ a.op # None
        BY <1>1, <2>1, NoneAssumption DEF IInv, RowsInv
      <3>2. streams[s].pending # None => \E a \in open : a.op = streams[s].pending
        BY <1>1 DEF IInv, RowsInv, ArchivesOf
      <3> HIDE DEF open
      <3> QED BY <3>1, <3>2
    <2>3. \A a \in settled : a \in ArchivesOf(s) /\ Settled(a.op)
      BY DEF SettledOf
    <2>4. \A a \in settled : a.op \notin resolutions
      BY <1>1, <2>1, <2>3 DEF IInv, ArchivesInv
    <2>5. /\ {settlements[a.op].sequence : a \in settled} = 0 .. Cardinality(settled) - 1
          /\ \A a \in settled : streams[s].checkpoint = a.op <=>
                settlements[a.op].sequence = Cardinality(settled) - 1
      BY <1>1 DEF IInv, ChainInv
    <2>6. \A a \in settled : /\ settlements[a.op].parent = a.expected
                             /\ a.expected # None =>
                                   settlements[a.op].sequence = settlements[a.expected].sequence + 1
      BY <1>1, <2>1, <2>3 DEF IInv, ChainInv
    <2>7. \A a \in ArchivesOf(s) :
             IF a.expected = None THEN a.base = OriginOf[s]
             ELSE Stored(a.expected) \in settled /\ a.base = Stored(a.expected).proposed
      <3> SUFFICES ASSUME NEW a \in ArchivesOf(s), a.expected # None
                   PROVE  Stored(a.expected) \in settled /\ a.base = Stored(a.expected).proposed
        BY <1>1, <2>1 DEF IInv, ChainInv
      <3>1. PICK e \in settled : e.op = a.expected /\ a.base = e.proposed
        BY <1>1, <2>1 DEF IInv, ChainInv
      <3>2. Stored(e.op) = e
        BY <1>1, <2>1, <2>3, StoredIs DEF IInv
      <3> QED BY <3>1, <3>2
    <2>8. \A u \in ScopeOf[s] : owners[u] = s
      BY <1>1 DEF IInv, RowsInv
    <2>9. /\ settled = {a \in ArchivesOf(s) : Settled(a.op)}
          /\ open = {a \in ArchivesOf(s) : ~Settled(a.op) /\ a.op \notin resolutions}
      BY DEF SettledOf, Open
    <2> HIDE DEF settled, open
    <2> QED BY <2>2, <2>4, <2>5, <2>6, <2>7, <2>8, <2>9
  <1>2. ASSUME IInv, NEW s \in Streams, streams[s] = None PROVE ArchivesOf(s) = {}
    BY <1>2 DEF IInv, RowsInv, ArchivesOf
  <1>3. IInv => TypeOK
    BY DEF IInv
  <1>4. IInv => LedgerSound
    BY <1>1, <1>2, <1>3 DEF LedgerSound
  <1> QED BY <1>4, InvariantHolds, PTL

\* What the ledger accepted is what the model shows: the update set its Level and
\* nothing else, and the next one was planned on exactly those fields.
\* (kir/project_realization_store.py:551, kir/level_update_acceptance.py:134)
THEOREM HistoryIsTrue == Spec => []AcceptedFollowsModel
  <1>1. ASSUME IInv, NEW a \in archives, Settled(a.op)
        PROVE  /\ Bound(a, "satisfied")
               /\ settlements[a.op].after.rev > a.before.rev
               /\ Fields(a.stream, settlements[a.op].after)
                    = [Fields(a.stream, a.before) EXCEPT ![TargetOf[a.stream]] = ElevOf[a.proposed]]
    <2> DEFINE after == settlements[a.op].after
               s == a.stream
    <2>1. ScopeSatisfied(a, after)
      BY <1>1 DEF IInv, AcceptedInv
    <2>2. /\ Bound(a, "satisfied") /\ after.rev > a.before.rev
          /\ after.at[TargetOf[s]] = ElevOf[a.proposed]
          /\ \A u \in ScopeOf[s] \ {TargetOf[s]} : after.at[u] = a.before.at[u]
      BY <2>1 DEF ScopeSatisfied
    <2> HIDE DEF after, s
    <2>3. Fields(s, after) = [Fields(s, a.before) EXCEPT ![TargetOf[s]] = ElevOf[a.proposed]]
      BY <2>2 DEF Fields
    <2> QED BY <2>2, <2>3 DEF after, s
  <1>2. IInv => AcceptedFollowsModel
    BY <1>1 DEF IInv, AcceptedInv, AcceptedFollowsModel
  <1> QED BY <1>2, InvariantHolds, PTL

\* Nothing starts on elements an earlier update may have touched and nobody has
\* accepted yet, in whatever order requests arrive: what may start has no end, an
\* update that may have run and was not accepted has none either, a stream has one
\* such update and an element one stream.
\* (kir/project_realization_store.py:550, :562)
THEOREM StartsAfterAcceptance == Spec => StartsOnlySettled
  <1>1. ASSUME IInv, NEW a \in frames.updates, native[a.op] = None,
               NEW b \in archives \ {a}, Overlap(a.stream, b.stream),
               native[b.op] # None, native[b.op].state # "not_started"
        PROVE  Settled(b.op)
    <2> SUFFICES ASSUME ~Settled(b.op) PROVE FALSE
      OBVIOUS
    <2>1. /\ a \in archives /\ a \in Archive /\ a.op \in Ops /\ a.stream \in Streams
          /\ b.op \in Ops /\ b.stream \in Streams
      BY <1>1, ArchiveType, FieldTypes DEF IInv, NativeInv
    <2>2. Open(a)
      <3>1. a.op \notin resolutions
        BY <1>1 DEF IInv, NativeInv
      <3>2. ~Settled(a.op)
        <4> SUFFICES ASSUME Settled(a.op) PROVE FALSE
          OBVIOUS
        <4>1. Bound(a, "satisfied")
          BY <1>1, <2>1 DEF IInv, AcceptedInv, ScopeSatisfied
        <4> QED BY <1>1, <2>1, <4>1, BoundEntry DEF IInv, NativeStates
      <3> QED BY <3>1, <3>2 DEF Open
    <2>3. Open(b)
      BY <1>1 DEF IInv, NativeInv, Open
    <2>4. a.stream # b.stream
      BY <1>1, <2>1, <2>2, <2>3 DEF IInv, RowsInv, ArchivesInv
    <2>5. PICK u : u \in ScopeOf[a.stream] /\ u \in ScopeOf[b.stream]
      BY <1>1 DEF Overlap
    <2>6. owners[u] = a.stream /\ owners[u] = b.stream
      BY <1>1, <2>1, <2>5 DEF IInv, RowsInv
    <2> QED BY <2>4, <2>6
  <1>2. ASSUME IInv
        PROVE  \A a \in frames.updates :
                  native[a.op] = None /\ native'[a.op] # None /\ native'[a.op].state = "started" =>
                      \A b \in archives \ {a} :
                          /\ Overlap(a.stream, b.stream)
                          /\ native[b.op] # None
                          /\ native[b.op].state # "not_started"
                          => Settled(b.op)
    BY <1>1, <1>2
  <1>3. Spec => [][Next]_vars
    BY DEF Spec
  <1> QED BY <1>2, <1>3, InvariantHolds, PTL DEF StartsOnlySettled
=============================================================================
