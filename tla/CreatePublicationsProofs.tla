---------------------- MODULE CreatePublicationsProofs ----------------------
(***************************************************************************)
(* Theorems about CreatePublications, for any archives, publishers and store. *)
(*                                                                          *)
(* No property is inductive by itself: that two archives never make the same  *)
(* output rests on the owners the catalogue keeps, on the release marker, on   *)
(* the receipt the marker names, and on that receipt being what the            *)
(* connector's journal says for ever.  So the invariant follows a receipt from *)
(* the journal over the answer and the publisher into the store.              *)
(***************************************************************************)
EXTENDS CreatePublications, FiniteSetTheorems, TLAPS

\* The connector's journal says so of this very input.
Says(a, st) ==
    /\ ledger[OpOf[a]] # None
    /\ ledger[OpOf[a]].input = a
    /\ ledger[OpOf[a]].state = st

\* The catalogue by itself.
StoreInv ==
    /\ \A o \in Outputs, a \in Archives :
          owners[o] = a <=> a \in inputs /\ o \in OutputsOf[a] /\ resolved[a] = None
    /\ \A a, b \in inputs : OpOf[a] = OpOf[b] => a = b
    /\ \A a \in inputs : OpOf[a] \notin levelOps
    /\ \A a \in Archives :
          /\ IsFiniteSet(receipts[a])
          /\ Cardinality(receipts[a] \intersect Progress) <= MaxProgress
          /\ resolved[a] # None =>
                a \in inputs /\ resolved[a] \in receipts[a] \intersect NotStartedStates

\* One publisher holds the right to send, until it has sent.
SentInv ==
    /\ \A a \in Archives : sent[a] <= 1 /\ (a \notin inputs => sent[a] = 0)
    /\ \A p \in Publishers : At(p, "reserved") => sent[Archive(p)] = 0
    /\ \A p, q \in Publishers :
          At(p, "reserved") /\ At(q, "reserved") /\ Archive(p) = Archive(q) => p = q

\* A publisher past its reservation works on what is stored, and repeats what it heard.
PubsInv ==
    \A p \in Publishers :
        /\ pubs[p].step \notin {"idle", "prepared"} => Archive(p) \in inputs
        /\ pubs[p].step \in {"answered", "recorded"} /\ pubs[p].reply \in TerminalStates
              => Says(Archive(p), pubs[p].reply)
        /\ At(p, "recorded") => pubs[p].reply \in receipts[Archive(p)]

\* A publisher waits for one answer, about its own archive.
FramesInv ==
    /\ \A f \in frames : f.archive \in inputs
    /\ \A f \in frames : f.from # None => At(f.from, "waiting") /\ Archive(f.from) = f.archive
    /\ \A f, g \in frames : f.from = g.from /\ f.from # None => f = g

\* The journal holds stored inputs, and the store what the journal says.
LedgerInv ==
    /\ \A op \in Ops : ledger[op] # None => ledger[op].input \in inputs \union {Foreign}
    /\ \A a \in Archives, st \in TerminalStates : st \in receipts[a] => Says(a, st)

IInv == TypeOK /\ StoreInv /\ SentInv /\ PubsInv /\ FramesInv /\ LedgerInv
-----------------------------------------------------------------------------
(* States, publishers and frames *)

Steps == {"prepared", "reserved", "waiting", "answered", "recorded"}
Answers == TerminalStates \union Progress \union {None}

LEMMA StatesApart ==
    /\ StartedStates \subseteq TerminalStates /\ NotStartedStates \subseteq TerminalStates
    /\ "started" \notin TerminalStates
    /\ StartedStates \intersect NotStartedStates = {}
    /\ None \notin TerminalStates
    /\ TerminalStates \intersect Progress = {}
  BY NoneAssumption DEF TerminalStates, StartedStates, NotStartedStates

LEMMA BusyType ==
    ASSUME TypeOK, NEW p \in Publishers, pubs[p].step # "idle"
    PROVE  /\ pubs[p] \in Working
           /\ pubs[p].step \in Steps /\ pubs[p].goal \in Goals
           /\ pubs[p].archive \in Archives /\ pubs[p].reply \in Answers
  <1>1. pubs[p] \in Working \union {Idle}
    BY DEF TypeOK
  <1>2. pubs[p] # Idle
    BY DEF Idle
  <1>3. pubs[p] \in Working
    BY <1>1, <1>2
  <1> QED BY <1>3 DEF Working, Steps, Answers

LEMMA FrameType ==
    ASSUME TypeOK, NEW f \in frames
    PROVE  /\ f \in Frame
           /\ f.kind \in {"execute", "receipt", "cancel"} /\ f.archive \in Archives
           /\ f.from \in Publishers \union {None}
  BY DEF TypeOK, Frame

\* What a publisher turns to, the others keeping what they do.
LEMMA StepMove ==
    ASSUME TypeOK, NEW p \in Publishers, pubs[p].step # "idle", NEW step \in Steps, Step(p, step)
    PROVE  /\ pubs' \in [Publishers -> Working \union {Idle}]
           /\ pubs'[p].step = step /\ pubs'[p].archive = pubs[p].archive
           /\ pubs'[p].reply = pubs[p].reply
           /\ \A q \in Publishers \ {p} : pubs'[q] = pubs[q]
  <1>1. pubs[p] \in Working
    BY BusyType
  <1>2. pubs \in [Publishers -> Working \union {Idle}]
    BY DEF TypeOK
  <1>3. pubs' = [pubs EXCEPT ![p] = [pubs[p] EXCEPT !.step = step]]
    BY DEF Step
  <1>4. [pubs[p] EXCEPT !.step = step] \in Working
    BY <1>1 DEF Working, Steps
  <1>5. /\ [pubs[p] EXCEPT !.step = step].step = step
        /\ [pubs[p] EXCEPT !.step = step].archive = pubs[p].archive
        /\ [pubs[p] EXCEPT !.step = step].reply = pubs[p].reply
    BY <1>1 DEF Working
  <1> QED BY <1>2, <1>3, <1>4, <1>5

LEMMA StopMove ==
    ASSUME TypeOK, NEW p \in Publishers, Stop(p)
    PROVE  /\ pubs' \in [Publishers -> Working \union {Idle}]
           /\ pubs'[p].step = "idle"
           /\ \A q \in Publishers \ {p} : pubs'[q] = pubs[q]
  <1>1. Idle.step = "idle"
    BY DEF Idle
  <1> QED BY <1>1 DEF TypeOK, Stop

\* A publisher that is not waiting has no request on its way.
LEMMA NotWaiting ==
    ASSUME FramesInv, NEW p \in Publishers, ~At(p, "waiting"), NEW f \in frames
    PROVE  f.from # p
  BY NoneAssumption DEF FramesInv

-----------------------------------------------------------------------------
(* Steps of the store alone *)

LEMMA CommitRevisionInv == ASSUME IInv, CommitRevision PROVE IInv'
  <1>1. UNCHANGED <<inputs, owners, receipts, resolved, levelOps, pubs, frames, ledger, sent>>
    BY Zenon DEF CommitRevision
  <1>2. head' \in 0 .. MaxHead
    <2>1. head \in 0 .. MaxHead /\ head < MaxHead /\ head' = head + 1
      BY DEF CommitRevision, IInv, TypeOK
    <2> QED BY <2>1, BoundAssumption
  <1>3. TypeOK'
    BY <1>1, <1>2 DEF IInv, TypeOK
  <1>4. StoreInv' /\ SentInv'
    BY <1>1 DEF IInv, StoreInv, SentInv, At, Archive
  <1>5. PubsInv' /\ FramesInv' /\ LedgerInv'
    BY <1>1 DEF IInv, PubsInv, FramesInv, LedgerInv, Says, At, Archive
  <1> QED BY <1>3, <1>4, <1>5 DEF IInv

LEMMA ReserveLevelOperationInv ==
    ASSUME IInv, NEW op \in Ops, ReserveLevelOperation(op)
    PROVE  IInv'
  <1>1. UNCHANGED <<head, inputs, owners, receipts, resolved, pubs, frames, ledger, sent>>
    BY Zenon DEF ReserveLevelOperation
  <1>2. levelOps' = levelOps \union {op} /\ \A a \in inputs : OpOf[a] # op
    BY DEF ReserveLevelOperation
  <1>3. TypeOK'
    BY <1>1, <1>2 DEF IInv, TypeOK
  <1>4. StoreInv'
    BY <1>1, <1>2 DEF IInv, StoreInv
  <1> QED
    BY <1>1, <1>3, <1>4 DEF IInv, SentInv, PubsInv, FramesInv, LedgerInv, Says, At, Archive

-----------------------------------------------------------------------------
(* Steps of the connector's journal *)

\* An entry changes only from absent or started, and never to another input.
LEMMA EntryMoves ==
    ASSUME IInv, UNCHANGED <<store, pubs, frames, sent>>,
           NEW op \in Ops, NEW in \in inputs \union {Foreign},
           NEW st \in {"started"} \union TerminalStates,
           ledger[op] = None \/ ledger[op].state = "started",
           ledger' = [ledger EXCEPT ![op] = [op |-> op, input |-> in, state |-> st]]
    PROVE  IInv'
  <1>1. UNCHANGED <<head, inputs, owners, receipts, resolved, levelOps, pubs, frames, sent>>
    BY Zenon DEF store
  <1>2. ledger' \in [Ops -> Journal!Entry \union {None}]
    <2>1. [op |-> op, input |-> in, state |-> st] \in Journal!Entry
      BY DEF IInv, TypeOK, Journal!Entry, TerminalStates
    <2> HIDE DEF Journal!Entry
    <2> QED BY <2>1 DEF IInv, TypeOK
  <1>3. TypeOK'
    BY <1>1, <1>2 DEF IInv, TypeOK
  <1>4. ASSUME NEW a \in Archives, NEW t \in TerminalStates, Says(a, t)
        PROVE  Says(a, t)'
    <2>1. OpOf[a] # op
      BY <1>4, StatesApart DEF Says
    <2>2. ledger'[OpOf[a]] = ledger[OpOf[a]]
      BY <2>1, ArchiveAssumption DEF IInv, TypeOK
    <2> QED BY <1>4, <2>2 DEF Says
  <1>5. StoreInv' /\ SentInv' /\ FramesInv'
    BY <1>1 DEF IInv, StoreInv, SentInv, FramesInv, At, Archive
  <1>6. PubsInv'
    <2>1. ASSUME NEW p \in Publishers, pubs[p].step \in {"answered", "recorded"},
                 pubs[p].reply \in TerminalStates
          PROVE  Says(Archive(p), pubs[p].reply)'
      <3>1. Archive(p) \in Archives
        BY <2>1, BusyType DEF IInv, Archive
      <3>2. Says(Archive(p), pubs[p].reply)
        BY <2>1 DEF IInv, PubsInv
      <3>3. \A a, t : a = Archive(p) /\ t = pubs[p].reply => Says(a, t)'
        BY <1>4, <2>1, <3>1, <3>2
      <3> QED BY <1>1, <3>3 DEF Archive, Says
    <2> QED BY <1>1, <2>1 DEF IInv, PubsInv, At, Archive
  <1>7. LedgerInv'
    <2>1. \A o \in Ops : ledger'[o] # None => ledger'[o].input \in inputs \union {Foreign}
      BY DEF IInv, LedgerInv, TypeOK
    <2> QED BY <1>1, <1>4, <2>1 DEF IInv, LedgerInv
  <1> QED BY <1>3, <1>5, <1>6, <1>7 DEF IInv

LEMMA InvokeInv == ASSUME IInv, NEW f \in frames, Invoke(f) PROVE IInv'
  <1>1. f.archive \in inputs /\ OpOf[f.archive] \in Ops
    BY FrameType, ArchiveAssumption DEF IInv, FramesInv
  <1>2. /\ UNCHANGED <<store, pubs, frames, sent>>
        /\ ledger[OpOf[f.archive]] = None
        /\ ledger' = [ledger EXCEPT ![OpOf[f.archive]] =
                        [op |-> OpOf[f.archive], input |-> f.archive, state |-> "started"]]
    BY DEF Invoke, Journal!Claim
  <1> QED BY <1>1, <1>2, EntryMoves

LEMMA RefuseInv == ASSUME IInv, NEW f \in frames, Refuse(f) PROVE IInv'
  <1> DEFINE st == IF f.kind = "cancel" THEN "cancelled_before_start" ELSE "rejected_before_start"
  <1>1. f.archive \in inputs /\ OpOf[f.archive] \in Ops /\ st \in TerminalStates
    BY FrameType, ArchiveAssumption DEF IInv, FramesInv, TerminalStates, NotStartedStates
  <1>2. /\ UNCHANGED <<store, pubs, frames, sent>>
        /\ ledger[OpOf[f.archive]] = None
        /\ ledger' = [ledger EXCEPT ![OpOf[f.archive]] =
                        [op |-> OpOf[f.archive], input |-> f.archive, state |-> st]]
    BY DEF Refuse, Journal!Tombstone
  <1> HIDE DEF st
  <1> QED BY <1>1, <1>2, EntryMoves

LEMMA FinishInv == ASSUME IInv, NEW op \in Ops, Finish(op) PROVE IInv'
  <1>1. PICK st \in StartedStates : Journal!Resolve(op, st)
    BY DEF Finish
  <1>2. /\ UNCHANGED <<store, pubs, frames, sent>>
        /\ ledger[op] # None /\ ledger[op].state = "started"
        /\ ledger' = [ledger EXCEPT ![op] =
                        [op |-> op, input |-> ledger[op].input, state |-> st]]
    BY <1>1 DEF Finish, Journal!Resolve
  <1>3. ledger[op].input \in inputs \union {Foreign} /\ st \in TerminalStates
    BY <1>1, <1>2, StatesApart DEF IInv, LedgerInv
  <1> QED BY <1>2, <1>3, EntryMoves

LEMMA ForeignClaimInv == ASSUME IInv, NEW op \in Ops, ForeignClaim(op) PROVE IInv'
  <1>1. /\ UNCHANGED <<store, pubs, frames, sent>>
        /\ ledger[op] = None
        /\ ledger' = [ledger EXCEPT ![op] =
                        [op |-> op, input |-> Foreign, state |-> "started"]]
    BY DEF ForeignClaim, Journal!Claim
  <1> QED BY <1>1, EntryMoves
-----------------------------------------------------------------------------
(* Steps of a publisher *)

\* The store, the journal and what was sent are as they were, and a publisher that
\* had nothing on its way now does something that needs no reservation.
LEMMA UnstoredMove ==
    ASSUME IInv, NEW p \in Publishers, ~At(p, "waiting"),
           UNCHANGED <<store, frames, ledger, sent>>,
           pubs' \in [Publishers -> Working \union {Idle}],
           pubs'[p].step \in {"idle", "prepared"},
           \A q \in Publishers \ {p} : pubs'[q] = pubs[q]
    PROVE  IInv'
  <1>1. UNCHANGED <<head, inputs, owners, receipts, resolved, levelOps, frames, ledger, sent>>
    BY Zenon DEF store
  <1>2. TypeOK'
    BY <1>1 DEF IInv, TypeOK
  <1>3. StoreInv' /\ LedgerInv'
    BY <1>1 DEF IInv, StoreInv, LedgerInv, Says
  <1>4. SentInv'
    BY <1>1 DEF IInv, SentInv, At, Archive
  <1>5. PubsInv'
    BY <1>1 DEF IInv, PubsInv, At, Archive, Says
  <1>6. \A f \in frames : f.from # p /\ f.from \in Publishers \union {None}
    BY NotWaiting, FrameType DEF IInv
  <1>7. FramesInv'
    BY <1>1, <1>6 DEF IInv, FramesInv, At, Archive
  <1> QED BY <1>2, <1>3, <1>4, <1>5, <1>7 DEF IInv

LEMMA PrepareInv ==
    ASSUME IInv, NEW p \in Publishers, NEW a \in Archives, Prepare(p, a)
    PROVE  IInv'
  <1> DEFINE work == [step |-> "prepared", goal |-> "publish", archive |-> a, reply |-> None]
  <1>1. work \in Working /\ work.step = "prepared"
    BY DEF Working, Goals
  <1>2. pubs \in [Publishers -> Working \union {Idle}]
    BY DEF IInv, TypeOK
  <1>3. ~At(p, "waiting") /\ UNCHANGED <<store, frames, ledger, sent>>
    BY DEF Prepare, At
  <1>4. pubs' = [pubs EXCEPT ![p] = work]
    BY DEF Prepare
  <1> HIDE DEF work
  <1>5. /\ pubs' \in [Publishers -> Working \union {Idle}]
        /\ pubs'[p].step \in {"idle", "prepared"}
        /\ \A q \in Publishers \ {p} : pubs'[q] = pubs[q]
    BY <1>1, <1>2, <1>4
  <1> QED BY <1>3, <1>5, UnstoredMove

\* A reservation is given once, so that what holds it has not sent yet.
LEMMA ReserveInv ==
    ASSUME IInv, NEW p \in Publishers, Reserve(p)
    PROVE  IInv'
  <1> DEFINE a == Archive(p)
  <1>1. /\ At(p, "prepared") /\ ~At(p, "waiting") /\ pubs[p].step # "idle"
        /\ UNCHANGED <<head, receipts, resolved, levelOps, frames, ledger, sent>>
    BY DEF Reserve, At
  <1>2. a \in Archives
    BY <1>1, BusyType DEF IInv, Archive
  <1>3. CASE Stop(p) /\ UNCHANGED <<inputs, owners>>
    BY <1>1, <1>3, StopMove, UnstoredMove DEF IInv, store
  <1>4. CASE Reservable(a) /\ Insert(a) /\ (Step(p, "reserved") \/ Stop(p))
    <2>1. /\ pubs' \in [Publishers -> Working \union {Idle}]
          /\ pubs'[p].step \in {"reserved", "idle"}
          /\ pubs'[p].step = "reserved" => pubs'[p].archive = a
          /\ \A q \in Publishers \ {p} : pubs'[q] = pubs[q]
      BY <1>1, <1>4, StepMove, StopMove DEF IInv, Steps, Archive
    <2>2. /\ a \notin inputs /\ OpOf[a] \notin levelOps
          /\ \A b \in inputs : OpOf[b] # OpOf[a]
          /\ \A o \in OutputsOf[a] : owners[o] = None
          /\ inputs' = inputs \union {a}
          /\ owners' = [o \in Outputs |-> IF o \in OutputsOf[a] THEN a ELSE owners[o]]
      BY <1>4 DEF Reservable, Insert
    <2> HIDE DEF a
    <2>3. owners' \in [Outputs -> Archives \union {None}]
      BY <1>2, <2>2 DEF IInv, TypeOK
    <2>4. TypeOK'
      BY <1>1, <1>2, <2>1, <2>2, <2>3 DEF IInv, TypeOK
    <2>5. StoreInv'
      <3>1. resolved[a] = None
        BY <1>2, <2>2 DEF IInv, StoreInv
      <3>2. \A o \in Outputs, b \in Archives :
               owners'[o] = b <=> b \in inputs' /\ o \in OutputsOf[b] /\ resolved[b] = None
        <4> SUFFICES ASSUME NEW o \in Outputs, NEW b \in Archives
                     PROVE  owners'[o] = b <=>
                               b \in inputs' /\ o \in OutputsOf[b] /\ resolved[b] = None
          OBVIOUS
        <4>1. owners[o] = b <=> b \in inputs /\ o \in OutputsOf[b] /\ resolved[b] = None
          BY DEF IInv, StoreInv
        <4>2. b # None
          BY NoneAssumption
        <4>3. CASE o \in OutputsOf[a]
          <5>1. owners'[o] = a /\ owners[o] = None
            BY <2>2, <4>3
          <5> QED BY <2>2, <3>1, <4>1, <4>2, <4>3, <5>1
        <4>4. CASE o \notin OutputsOf[a]
          <5>1. owners'[o] = owners[o]
            BY <2>2, <4>4
          <5> QED BY <2>2, <4>1, <4>4, <5>1
        <4> QED BY <4>3, <4>4
      <3>3. /\ \A b, c \in inputs' : OpOf[b] = OpOf[c] => b = c
            /\ \A b \in inputs' : OpOf[b] \notin levelOps
        BY <2>2 DEF IInv, StoreInv
      <3> QED BY <1>1, <2>2, <3>2, <3>3 DEF IInv, StoreInv
    <2>6. SentInv'
      BY <1>1, <1>2, <2>1, <2>2 DEF IInv, SentInv, PubsInv, At, Archive
    <2>7. PubsInv'
      BY <1>1, <2>1, <2>2 DEF IInv, PubsInv, At, Archive, Says
    <2>8. \A f \in frames : f.from # p /\ f.from \in Publishers \union {None}
      BY <1>1, NotWaiting, FrameType DEF IInv
    <2>9. FramesInv' /\ LedgerInv'
      BY <1>1, <2>1, <2>2, <2>8 DEF IInv, FramesInv, LedgerInv, At, Archive, Says
    <2> QED BY <2>4, <2>5, <2>6, <2>7, <2>9 DEF IInv
  <1> QED BY <1>3, <1>4 DEF Reserve

\* A request is on its way, and its publisher waits.
LEMMA ExchangeMove ==
    ASSUME IInv, NEW p \in Publishers, ~At(p, "waiting"),
           NEW kind \in {"execute", "receipt", "cancel"}, NEW goal \in Goals,
           NEW a \in inputs, Exchange(p, kind, goal, a), UNCHANGED <<store, ledger>>
    PROVE  /\ sent' \in [Archives -> 0 .. 2] => TypeOK'
           /\ StoreInv' /\ PubsInv' /\ FramesInv' /\ LedgerInv'
           /\ pubs'[p].step = "waiting" /\ \A q \in Publishers \ {p} : pubs'[q] = pubs[q]
  <1> DEFINE work == [step |-> "waiting", goal |-> goal, archive |-> a, reply |-> None]
             frame == [kind |-> kind, archive |-> a, from |-> p]
  <1>1. UNCHANGED <<head, inputs, owners, receipts, resolved, levelOps, ledger>>
    BY Zenon DEF store
  <1>2. a \in Archives /\ pubs \in [Publishers -> Working \union {Idle}]
    BY DEF IInv, TypeOK
  <1>3. work \in Working /\ work.step = "waiting" /\ work.archive = a
    BY <1>2 DEF Working
  <1>4. frame \in Frame /\ frame.archive = a /\ frame.from = p
    BY <1>2 DEF Frame
  <1>5. frames' = frames \union {frame} /\ pubs' = [pubs EXCEPT ![p] = work]
    BY DEF Exchange
  <1> HIDE DEF work, frame
  <1>6. /\ pubs' \in [Publishers -> Working \union {Idle}] /\ pubs'[p] = work
        /\ \A q \in Publishers \ {p} : pubs'[q] = pubs[q]
    BY <1>2, <1>3, <1>5
  <1>7. sent' \in [Archives -> 0 .. 2] => TypeOK'
    BY <1>1, <1>4, <1>5, <1>6 DEF IInv, TypeOK
  <1>8. StoreInv' /\ LedgerInv'
    BY <1>1 DEF IInv, StoreInv, LedgerInv, Says
  <1>9. PubsInv'
    BY <1>1, <1>3, <1>6 DEF IInv, PubsInv, At, Archive, Says
  <1>10. \A f \in frames : f.from # p /\ f.from \in Publishers \union {None}
    BY NotWaiting, FrameType DEF IInv
  <1>11. FramesInv'
    BY <1>1, <1>3, <1>4, <1>5, <1>6, <1>10 DEF IInv, FramesInv, At, Archive
  <1> QED BY <1>3, <1>6, <1>7, <1>8, <1>9, <1>11

LEMMA SendInv == ASSUME IInv, NEW p \in Publishers, Send(p) PROVE IInv'
  <1> DEFINE a == Archive(p)
  <1>1. At(p, "reserved") /\ ~At(p, "waiting")
    BY DEF Send, At
  <1>2. a \in inputs /\ a \in Archives /\ sent[a] = 0
    BY <1>1 DEF IInv, TypeOK, PubsInv, SentInv, At
  <1>3. sent' = [sent EXCEPT ![a] = 1]
    BY <1>2 DEF Send, IInv, TypeOK
  <1>4. Exchange(p, "execute", "publish", a) /\ UNCHANGED <<store, ledger>>
    BY DEF Send
  <1>5. sent' \in [Archives -> 0 .. 2]
    BY <1>2, <1>3 DEF IInv, TypeOK
  <1>6. /\ TypeOK' /\ StoreInv' /\ PubsInv' /\ FramesInv' /\ LedgerInv'
        /\ pubs'[p].step = "waiting" /\ \A q \in Publishers \ {p} : pubs'[q] = pubs[q]
    <2> HIDE DEF a
    <2> QED BY <1>1, <1>2, <1>4, <1>5, ExchangeMove DEF Goals
  <1>7. inputs' = inputs
    BY <1>4 DEF store
  <1>8. \A q \in Publishers : At(q, "reserved")' =>
           q # p /\ At(q, "reserved") /\ Archive(q)' = Archive(q) /\ Archive(q) # a
    BY <1>1, <1>6 DEF IInv, SentInv, At, Archive
  <1>9. \A q \in Publishers : At(q, "reserved") => Archive(q) \in Archives
    BY BusyType DEF IInv, At, Archive
  <1>10. \A b \in Archives : b # a => sent'[b] = sent[b]
    BY <1>3 DEF IInv, TypeOK
  <1>11. sent'[a] = 1
    BY <1>2, <1>3 DEF IInv, TypeOK
  <1> HIDE DEF a
  <1>12. SentInv'
    BY <1>2, <1>7, <1>8, <1>9, <1>10, <1>11 DEF IInv, SentInv
  <1> QED BY <1>6, <1>12 DEF IInv

LEMMA RequestInv ==
    ASSUME IInv, NEW p \in Publishers, NEW a \in Archives, NEW goal \in Goals \ {"publish"},
           Request(p, a, goal)
    PROVE  IInv'
  <1>1. /\ a \in inputs /\ ~At(p, "waiting") /\ UNCHANGED <<store, ledger, sent>>
        /\ Exchange(p, IF goal = "cancel" THEN "cancel" ELSE "receipt", goal, a)
    BY DEF Request, At
  <1>2. sent' \in [Archives -> 0 .. 2]
    BY <1>1 DEF IInv, TypeOK
  <1>3. /\ TypeOK' /\ StoreInv' /\ PubsInv' /\ FramesInv' /\ LedgerInv'
        /\ pubs'[p].step = "waiting" /\ \A q \in Publishers \ {p} : pubs'[q] = pubs[q]
    BY <1>1, <1>2, ExchangeMove
  <1>4. inputs' = inputs /\ sent' = sent
    BY <1>1 DEF store
  <1>5. SentInv'
    BY <1>3, <1>4 DEF IInv, SentInv, At, Archive
  <1> QED BY <1>3, <1>5 DEF IInv
-----------------------------------------------------------------------------
(* Receipts, releases and answers *)

\* Only a receipt the journal stands for is recorded, and progress only while there
\* is room.
LEMMA RecordReceiptInv ==
    ASSUME IInv, NEW p \in Publishers, RecordReceipt(p)
    PROVE  IInv'
  <1> DEFINE a == Archive(p)
             fact == pubs[p].reply
  <1>1. /\ At(p, "answered") /\ ~At(p, "waiting") /\ pubs[p].step # "idle"
        /\ UNCHANGED <<head, inputs, owners, resolved, levelOps, frames, ledger, sent>>
    BY DEF RecordReceipt, At
  <1>2. a \in Archives /\ a \in inputs /\ fact \in Answers
    BY <1>1, BusyType DEF IInv, PubsInv, At, Archive
  <1>3. fact \in TerminalStates => Says(a, fact)
    BY <1>1 DEF IInv, PubsInv, At
  <1>4. CASE UNCHANGED receipts /\ Stop(p)
    BY <1>1, <1>4, StopMove, UnstoredMove DEF IInv, store
  <1>5. CASE /\ Recorded(p)
             /\ \/ fact \in receipts[a] /\ UNCHANGED receipts
                \/ /\ fact # None /\ fact \notin receipts[a] /\ Recordable(a, fact)
                   /\ receipts' = [receipts EXCEPT ![a] = @ \union {fact}]
    <2>1. /\ pubs' \in [Publishers -> Working \union {Idle}]
          /\ pubs'[p].step \in {"recorded", "idle"}
          /\ pubs'[p].step = "recorded" => pubs'[p].archive = a /\ pubs'[p].reply = fact
          /\ \A q \in Publishers \ {p} : pubs'[q] = pubs[q]
      BY <1>1, <1>5, StepMove, StopMove DEF IInv, Steps, Archive, Recorded
    <2>2. receipts \in [Archives -> SUBSET (TerminalStates \union Progress)]
      BY DEF IInv, TypeOK
    <2>3. /\ receipts' \in [Archives -> SUBSET (TerminalStates \union Progress)]
          /\ fact \in receipts'[a]
          /\ \A b \in Archives : receipts[b] \subseteq receipts'[b]
          /\ \A b \in Archives \ {a} : receipts'[b] = receipts[b]
          /\ receipts'[a] \in {receipts[a], receipts[a] \union {fact}}
      BY <1>2, <1>5, <2>2 DEF Answers
    <2>4. IsFiniteSet(receipts'[a]) /\ Cardinality(receipts'[a] \intersect Progress) <= MaxProgress
      <3>1. IsFiniteSet(receipts[a]) /\ Cardinality(receipts[a] \intersect Progress) <= MaxProgress
        BY <1>2 DEF IInv, StoreInv
      <3>2. CASE receipts'[a] = receipts[a]
        BY <3>1, <3>2
      <3>3. CASE receipts'[a] # receipts[a]
        <4>1. /\ fact # None /\ fact \notin receipts[a] /\ Recordable(a, fact)
              /\ receipts'[a] = receipts[a] \union {fact}
          BY <1>5, <2>3, <3>3
        <4>2. IsFiniteSet(receipts'[a])
          BY <3>1, <4>1, FS_AddElement
        <4>3. CASE fact \in TerminalStates
          <5>1. receipts'[a] \intersect Progress = receipts[a] \intersect Progress
            BY <4>1, <4>3, StatesApart
          <5> QED BY <3>1, <4>2, <5>1
        <4>4. CASE fact \notin TerminalStates
          <5>1. fact \in Progress
            BY <1>2, <4>1, <4>4 DEF Answers
          <5>2. receipts'[a] \intersect Progress = (receipts[a] \intersect Progress) \union {fact}
            BY <4>1, <5>1
          <5>3. Cardinality(receipts[a] \intersect Progress) < MaxProgress
            BY <4>1, <4>4 DEF Recordable
          <5>4. IsFiniteSet(receipts[a] \intersect Progress)
            BY <3>1, FS_Intersection
          <5>5. /\ Cardinality(receipts[a] \intersect Progress) \in Nat
                /\ Cardinality(receipts'[a] \intersect Progress)
                      = Cardinality(receipts[a] \intersect Progress) + 1
            BY <4>1, <5>2, <5>4, FS_AddElement, FS_CardinalityType
          <5> QED BY <4>2, <5>3, <5>5, BoundAssumption
        <4> QED BY <4>3, <4>4
      <3> QED BY <3>2, <3>3
    <2> HIDE DEF a, fact
    <2>5. TypeOK'
      BY <1>1, <2>1, <2>3 DEF IInv, TypeOK
    <2>6. StoreInv'
      <3>1. \A b \in Archives :
               /\ IsFiniteSet(receipts'[b])
               /\ Cardinality(receipts'[b] \intersect Progress) <= MaxProgress
        BY <2>3, <2>4 DEF IInv, StoreInv
      <3>2. \A b \in Archives : resolved[b] # None =>
               b \in inputs /\ resolved[b] \in receipts'[b] \intersect NotStartedStates
        BY <2>3 DEF IInv, StoreInv
      <3> QED BY <1>1, <3>1, <3>2 DEF IInv, StoreInv
    <2>7. SentInv'
      BY <1>1, <2>1 DEF IInv, SentInv, At, Archive
    <2>8. PubsInv'
      <3>1. \A q \in Publishers : pubs[q].step # "idle" => Archive(q) \in Archives
        BY BusyType DEF IInv, Archive
      <3>2. \A q \in Publishers \ {p} : /\ Archive(q)' = Archive(q)
                                        /\ At(q, "recorded")' <=> At(q, "recorded")
        BY <2>1 DEF Archive, At
      <3>3. At(p, "recorded")' => Archive(p)' = a /\ pubs'[p].reply = fact
        BY <2>1 DEF At, Archive
      <3>4. \A q \in Publishers : At(q, "recorded")' => pubs'[q].reply \in receipts'[Archive(q)']
        BY <2>1, <2>3, <3>1, <3>2, <3>3 DEF IInv, PubsInv, At
      <3>5. \A q \in Publishers :
               /\ pubs'[q].step \notin {"idle", "prepared"} => Archive(q)' \in inputs
               /\ pubs'[q].step \in {"answered", "recorded"} /\ pubs'[q].reply \in TerminalStates
                     => Says(Archive(q), pubs[q].reply)'
        BY <1>1, <1>2, <1>3, <2>1 DEF IInv, PubsInv, Archive, Says
      <3> QED BY <1>1, <3>4, <3>5 DEF PubsInv
    <2>9. \A f \in frames : f.from # p /\ f.from \in Publishers \union {None}
      BY <1>1, NotWaiting, FrameType DEF IInv
    <2>10. FramesInv'
      BY <1>1, <2>1, <2>9 DEF IInv, FramesInv, At, Archive
    <2>11. LedgerInv'
      BY <1>1, <1>3, <2>3 DEF IInv, LedgerInv, Says
    <2> QED BY <2>5, <2>6, <2>7, <2>8, <2>10, <2>11 DEF IInv
  <1> QED BY <1>4, <1>5 DEF RecordReceipt, Recorded

\* The archive that is released is the one whose recorded receipt shows no start.
LEMMA ReleaseInv ==
    ASSUME IInv, NEW p \in Publishers, Release(p)
    PROVE  IInv'
  <1> DEFINE a == Archive(p)
  <1>1. /\ At(p, "recorded") /\ ~At(p, "waiting") /\ pubs[p].step # "idle" /\ Stop(p)
        /\ UNCHANGED <<head, inputs, receipts, levelOps, frames, ledger, sent>>
    BY DEF Release, At
  <1>2. a \in Archives /\ a \in inputs /\ pubs[p].reply \in receipts[a]
    BY <1>1, BusyType DEF IInv, PubsInv, At, Archive
  <1>3. CASE UNCHANGED <<resolved, owners>>
    BY <1>1, <1>3, StopMove, UnstoredMove DEF IInv, store
  <1>4. CASE /\ ShowsNotStarted(pubs[p].reply) /\ resolved[a] = None
             /\ resolved' = [resolved EXCEPT ![a] = pubs[p].reply]
             /\ owners' = [o \in Outputs |-> IF owners[o] = a THEN None ELSE owners[o]]
    <2>1. /\ pubs' \in [Publishers -> Working \union {Idle}] /\ pubs'[p].step = "idle"
          /\ \A q \in Publishers \ {p} : pubs'[q] = pubs[q]
      BY <1>1, StopMove DEF IInv
    <2>2. pubs[p].reply \in NotStartedStates /\ pubs[p].reply # None
      BY <1>4, StatesApart DEF ShowsNotStarted
    <2>3. /\ resolved' \in [Archives -> TerminalStates \union {None}]
          /\ resolved'[a] = pubs[p].reply
          /\ \A b \in Archives \ {a} : resolved'[b] = resolved[b]
      BY <1>2, <1>4, <2>2, StatesApart DEF IInv, TypeOK
    <2>4. /\ owners' \in [Outputs -> Archives \union {None}]
          /\ \A o \in Outputs : owners'[o] = IF owners[o] = a THEN None ELSE owners[o]
      BY <1>4 DEF IInv, TypeOK
    <2> HIDE DEF a
    <2>5. TypeOK'
      BY <1>1, <2>1, <2>3, <2>4 DEF IInv, TypeOK
    <2>6. StoreInv'
      <3>1. \A o \in Outputs, b \in Archives :
               owners'[o] = b <=> b \in inputs /\ o \in OutputsOf[b] /\ resolved'[b] = None
        <4> SUFFICES ASSUME NEW o \in Outputs, NEW b \in Archives
                     PROVE  owners'[o] = b <=>
                               b \in inputs /\ o \in OutputsOf[b] /\ resolved'[b] = None
          OBVIOUS
        <4>1. owners[o] = b <=> b \in inputs /\ o \in OutputsOf[b] /\ resolved[b] = None
          BY DEF IInv, StoreInv
        <4>2. b # None
          BY NoneAssumption
        <4>3. CASE b = a
          BY <1>2, <2>2, <2>3, <2>4, <4>2, <4>3
        <4>4. CASE b # a
          BY <2>3, <2>4, <4>1, <4>2, <4>4
        <4> QED BY <4>3, <4>4
      <3>2. \A b \in Archives : resolved'[b] # None =>
               b \in inputs /\ resolved'[b] \in receipts[b] \intersect NotStartedStates
        BY <1>2, <2>2, <2>3 DEF IInv, StoreInv
      <3> QED BY <1>1, <3>1, <3>2 DEF IInv, StoreInv
    <2>7. SentInv' /\ PubsInv'
      BY <1>1, <2>1 DEF IInv, SentInv, PubsInv, At, Archive, Says
    <2>8. \A f \in frames : f.from # p /\ f.from \in Publishers \union {None}
      BY <1>1, NotWaiting, FrameType DEF IInv
    <2>9. FramesInv' /\ LedgerInv'
      BY <1>1, <2>1, <2>8 DEF IInv, FramesInv, LedgerInv, At, Archive, Says
    <2> QED BY <2>5, <2>6, <2>7, <2>9 DEF IInv
  <1> QED BY <1>3, <1>4 DEF Release

\* What a publisher sent goes on without it.
LEMMA GiveUpInv ==
    ASSUME IInv, NEW p \in Publishers, GiveUp(p)
    PROVE  IInv'
  <1> DEFINE left(f) == [f EXCEPT !.from = None]
  <1>1. /\ UNCHANGED <<head, inputs, owners, receipts, resolved, levelOps, ledger, sent>>
        /\ Stop(p)
    BY Zenon DEF GiveUp, store
  <1>2. /\ pubs' \in [Publishers -> Working \union {Idle}] /\ pubs'[p].step = "idle"
        /\ \A q \in Publishers \ {p} : pubs'[q] = pubs[q]
    BY <1>1, StopMove DEF IInv
  <1>3. frames' = {f \in frames : f.from # p} \union
                  {left(f) : f \in {g \in frames : g.from = p /\ g.kind # "receipt"}}
    BY DEF GiveUp
  <1>4. \A f \in frames : left(f) \in Frame /\ left(f).archive = f.archive /\ left(f).from = None
    BY FrameType DEF IInv, Frame
  <1> HIDE DEF left
  <1>5. \A f \in frames' : /\ f \in Frame /\ f.archive \in inputs
                           /\ f.from # None => f \in frames /\ f.from # p
    BY <1>3, <1>4, FrameType DEF IInv, FramesInv
  <1>6. TypeOK'
    BY <1>1, <1>2, <1>5 DEF IInv, TypeOK
  <1>7. StoreInv' /\ LedgerInv'
    BY <1>1 DEF IInv, StoreInv, LedgerInv, Says
  <1>8. SentInv' /\ PubsInv'
    BY <1>1, <1>2 DEF IInv, SentInv, PubsInv, At, Archive, Says
  <1>9. FramesInv'
    <2>1. \A f \in frames' : f.from # None => f.from \in Publishers \ {p}
      BY <1>5, FrameType DEF IInv
    <2> QED BY <1>1, <1>2, <1>5, <2>1 DEF IInv, FramesInv, At, Archive
  <1> QED BY <1>6, <1>7, <1>8, <1>9 DEF IInv
\* An answer about an archive carries what the journal says of it, or nothing.
LEMMA BoundReply ==
    ASSUME IInv, NEW a \in Archives, NEW reply \in BoundReceipts(a) \union {None}
    PROVE  reply \in Answers /\ (reply \in TerminalStates => Says(a, reply))
  <1> DEFINE entry == ledger[OpOf[a]]
  <1>1. CASE reply = None
    BY <1>1, StatesApart DEF Answers
  <1>2. CASE entry # None /\ entry.input = a /\ entry.state = "started" /\ reply \in Progress
    BY <1>2, StatesApart DEF Answers
  <1>3. CASE entry # None /\ entry.input = a /\ entry.state # "started" /\ reply = entry.state
    <2>1. OpOf[a] \in Ops
      BY ArchiveAssumption
    <2>2. entry \in Journal!Entry
      BY <1>3, <2>1 DEF IInv, TypeOK
    <2>3. entry.state \in TerminalStates
      BY <1>3, <2>2 DEF Journal!Entry, TerminalStates
    <2> QED BY <1>3, <2>3 DEF Says, Answers
  <1>4. \/ reply = None
        \/ entry # None /\ entry.input = a /\ entry.state = "started" /\ reply \in Progress
        \/ entry # None /\ entry.input = a /\ entry.state # "started" /\ reply = entry.state
    BY DEF BoundReceipts
  <1> QED BY <1>1, <1>2, <1>3, <1>4

LEMMA AnswerInv ==
    ASSUME IInv, NEW f \in frames, Answer(f)
    PROVE  IInv'
  <1> DEFINE p == f.from
             a == f.archive
             late == [f EXCEPT !.from = None]
  <1>1. PICK reply \in BoundReceipts(a) \union {None} :
           /\ pubs' = IF p = None THEN pubs
                      ELSE [pubs EXCEPT ![p].step = "answered", ![p].reply = reply]
           /\ frames' = frames \ {f} \/ frames' = (frames \ {f}) \union {late}
    BY DEF Answer
  <1>2. UNCHANGED <<head, inputs, owners, receipts, resolved, levelOps, ledger, sent>>
    BY DEF Answer, store
  <1>3. a \in Archives /\ a \in inputs /\ p \in Publishers \union {None} /\ f \in Frame
    BY FrameType DEF IInv, FramesInv
  <1>4. reply \in Answers /\ (reply \in TerminalStates => Says(a, reply))
    BY <1>1, <1>3, BoundReply
  <1>5. late \in Frame /\ late.archive = a /\ late.from = None
    BY <1>3 DEF Frame
  <1>6. p # None => pubs[p].step = "waiting" /\ pubs[p].archive = a
    BY DEF IInv, FramesInv, At, Archive
  <1>7. /\ pubs' \in [Publishers -> Working \union {Idle}]
        /\ p # None => pubs'[p].step = "answered" /\ pubs'[p].archive = a /\ pubs'[p].reply = reply
        /\ \A q \in Publishers : q # p => pubs'[q] = pubs[q]
    <2>1. pubs \in [Publishers -> Working \union {Idle}]
      BY DEF IInv, TypeOK
    <2>2. CASE p = None
      BY <1>1, <2>1, <2>2, NoneAssumption
    <2>3. CASE p # None
      <3>1. p \in Publishers /\ pubs[p] \in Working
        BY <1>3, <1>6, <2>3, BusyType DEF IInv
      <3> DEFINE work == [pubs[p] EXCEPT !.step = "answered", !.reply = reply]
      <3>2. /\ work \in Working /\ work.step = "answered" /\ work.reply = reply
            /\ work.archive = pubs[p].archive
        BY <1>4, <3>1 DEF Working, Answers
      <3>3. pubs' = [pubs EXCEPT ![p] = work]
        BY <1>1, <2>1, <2>3, <3>1
      <3> HIDE DEF work
      <3> QED BY <1>6, <2>1, <2>3, <3>1, <3>2, <3>3
    <2> QED BY <2>2, <2>3
  <1> HIDE DEF p, a, late
  <1>8. \A g \in frames' : /\ g \in Frame /\ g.archive \in inputs
                           /\ g.from # None => g \in frames /\ g # f
    BY <1>1, <1>3, <1>5, FrameType DEF IInv, FramesInv
  <1>9. TypeOK'
    BY <1>2, <1>7, <1>8 DEF IInv, TypeOK
  <1>10. StoreInv' /\ LedgerInv'
    BY <1>2 DEF IInv, StoreInv, LedgerInv, Says
  <1>11. SentInv'
    BY <1>2, <1>3, <1>7, NoneAssumption DEF IInv, SentInv, At, Archive
  <1>12. PubsInv'
    BY <1>2, <1>3, <1>4, <1>7, NoneAssumption DEF IInv, PubsInv, At, Archive, Says
  <1>13. FramesInv'
    <2>1. \A g \in frames' : g.from # None => g.from # p /\ g.from \in Publishers
      BY <1>8, FrameType DEF IInv, FramesInv, p
    <2> QED BY <1>2, <1>7, <1>8, <2>1 DEF IInv, FramesInv, At, Archive
  <1> QED BY <1>9, <1>10, <1>11, <1>12, <1>13 DEF IInv

-----------------------------------------------------------------------------
(* The invariant *)

LEMMA InitInv == Init => IInv
  <1> SUFFICES ASSUME Init PROVE IInv
    OBVIOUS
  <1>1. /\ head = 0 /\ inputs = {} /\ levelOps = {} /\ frames = {}
        /\ owners = [o \in Outputs |-> None]
        /\ receipts = [a \in Archives |-> {}]
        /\ resolved = [a \in Archives |-> None]
        /\ pubs = [p \in Publishers |-> Idle]
        /\ ledger = [op \in Ops |-> None]
        /\ sent = [a \in Archives |-> 0]
    BY DEF Init, Journal!Init
  <1>2. TypeOK
    <2>1. head \in 0 .. MaxHead
      BY <1>1, BoundAssumption
    <2>2. pubs \in [Publishers -> Working \union {Idle}]
      BY <1>1
    <2>3. ledger \in [Ops -> Journal!Entry \union {None}]
      BY <1>1
    <2> QED BY <1>1, <2>1, <2>2, <2>3 DEF TypeOK
  <1>3. StoreInv
    <2>1. \A o \in Outputs, a \in Archives : owners[o] # a
      BY <1>1, NoneAssumption
    <2>2. \A a \in Archives : /\ IsFiniteSet(receipts[a])
                              /\ Cardinality(receipts[a] \intersect Progress) <= MaxProgress
      <3>1. \A a \in Archives : receipts[a] = {} /\ receipts[a] \intersect Progress = {}
        BY <1>1
      <3> QED BY <3>1, FS_EmptySet, BoundAssumption
    <2> QED BY <1>1, <2>1, <2>2 DEF StoreInv
  <1>4. SentInv /\ PubsInv
    <2>1. \A p \in Publishers : pubs[p].step = "idle"
      BY <1>1 DEF Idle
    <2> QED BY <1>1, <2>1 DEF SentInv, PubsInv, At
  <1>5. FramesInv /\ LedgerInv
    BY <1>1 DEF FramesInv, LedgerInv
  <1> QED BY <1>2, <1>3, <1>4, <1>5 DEF IInv

LEMMA StutterInv == IInv /\ UNCHANGED vars => IInv'
  <1> SUFFICES ASSUME IInv, UNCHANGED vars PROVE IInv'
    OBVIOUS
  <1>1. UNCHANGED <<head, inputs, owners, receipts, resolved, levelOps, pubs, frames, ledger, sent>>
    BY Zenon DEF vars, store
  <1>2. TypeOK' /\ StoreInv'
    BY <1>1 DEF IInv, TypeOK, StoreInv
  <1>3. SentInv' /\ PubsInv'
    BY <1>1 DEF IInv, SentInv, PubsInv, At, Archive, Says
  <1>4. FramesInv' /\ LedgerInv'
    BY <1>1 DEF IInv, FramesInv, LedgerInv, At, Archive, Says
  <1> QED BY <1>2, <1>3, <1>4 DEF IInv

LEMMA NextInv == IInv /\ [Next]_vars => IInv'
  <1> SUFFICES ASSUME IInv, [Next]_vars PROVE IInv'
    OBVIOUS
  <1>1. CASE CommitRevision
    BY <1>1, CommitRevisionInv
  <1>2. CASE \E op \in Ops : ReserveLevelOperation(op) \/ Finish(op) \/ ForeignClaim(op)
    BY <1>2, ReserveLevelOperationInv, FinishInv, ForeignClaimInv
  <1>3. ASSUME NEW p \in Publishers,
               \/ \E a \in Archives : Prepare(p, a)
               \/ \E a \in Archives, goal \in Goals \ {"publish"} : Request(p, a, goal)
               \/ Reserve(p) \/ Send(p) \/ RecordReceipt(p) \/ Release(p) \/ GiveUp(p)
        PROVE  IInv'
    BY <1>3, PrepareInv, RequestInv, ReserveInv, SendInv, RecordReceiptInv, ReleaseInv, GiveUpInv
  <1>4. CASE \E f \in frames : Answer(f) \/ Invoke(f) \/ Refuse(f)
    BY <1>4, AnswerInv, InvokeInv, RefuseInv
  <1>5. CASE UNCHANGED vars
    BY <1>5, StutterInv
  <1> QED BY <1>1, <1>2, <1>3, <1>4, <1>5 DEF Next

LEMMA InvariantHolds == Spec => []IInv
  BY InitInv, NextInv, PTL DEF Spec

-----------------------------------------------------------------------------
(* What follows *)

\* A released archive has not run, and cannot.
LEMMA ReleasedNeverRuns ==
    ASSUME IInv, NEW a \in Archives, resolved[a] # None
    PROVE  ~MayHaveRun(a)
  <1>1. resolved[a] \in receipts[a] /\ resolved[a] \in NotStartedStates
    BY DEF IInv, StoreInv
  <1>2. Says(a, resolved[a])
    BY <1>1, StatesApart DEF IInv, LedgerInv
  <1> QED BY <1>1, <1>2 DEF Says, MayHaveRun

\* No output is created in Revit by two archives, whatever is still in flight
\* (project_create_store.py:546 and :705).
THEOREM NeverMadeTwice == Spec => []NoOutputMadeTwice
  <1>1. IInv => NoOutputMadeTwice
    <2> SUFFICES ASSUME IInv, NEW a \in Archives, NEW b \in Archives, NEW o \in Outputs,
                        a # b, o \in OutputsOf[a], o \in OutputsOf[b],
                        MayHaveRun(a), MayHaveRun(b)
                 PROVE  FALSE
      BY ArchiveAssumption DEF NoOutputMadeTwice
    <2>1. \A c \in Archives : MayHaveRun(c) => c \in inputs
      BY ArchiveAssumption, NoneAssumption DEF IInv, LedgerInv, MayHaveRun
    <2>2. resolved[a] = None /\ resolved[b] = None
      BY ReleasedNeverRuns
    <2>3. owners[o] = a /\ owners[o] = b
      BY <2>1, <2>2 DEF IInv, StoreInv
    <2> QED BY <2>3
  <1> QED BY InvariantHolds, <1>1, PTL

\* What may run is stored, and is sent to execute once
\* (standalone_publish.py:225, :234).
THEOREM SentRetained == Spec => []SentIsRetained
  <1>1. IInv => SentIsRetained
    BY DEF IInv, SentInv, FramesInv, LedgerInv, SentIsRetained
  <1> QED BY InvariantHolds, <1>1, PTL

\* A terminal receipt in the store is the journal's word on this input
\* (connector_result.py:555).
THEOREM ReceiptsTrue == Spec => []RetainedReceiptsTrue
  <1>1. IInv => RetainedReceiptsTrue
    BY DEF IInv, LedgerInv, Says, RetainedReceiptsTrue
  <1> QED BY InvariantHolds, <1>1, PTL

\* The catalogue never trips its own audit (project_create_store.py:258, :454, :583,
\* :663): the one terminal receipt of an archive is so because all of them repeat the
\* same entry of the journal.
THEOREM CatalogStaysSound == Spec => []CatalogSound
  <1>1. IInv => CatalogSound
    <2> SUFFICES ASSUME IInv PROVE CatalogSound
      OBVIOUS
    <2>1. ASSUME NEW a \in Archives
          PROVE  /\ Cardinality(Terminal(a)) <= 1
                 /\ resolved[a] # None => Terminal(a) = {resolved[a]}
      <3>1. \A s, t \in Terminal(a) : s = t
        BY DEF IInv, LedgerInv, Says, Terminal
      <3>2. Cardinality(Terminal(a)) <= 1
        <4>1. CASE Terminal(a) = {}
          BY <4>1, FS_EmptySet
        <4>2. CASE Terminal(a) # {}
          <5>1. PICK t : Terminal(a) = {t}
            BY <3>1, <4>2
          <5>2. Cardinality({t}) = 1
            BY FS_Singleton
          <5> QED BY <5>1, <5>2
        <4> QED BY <4>1, <4>2
      <3>3. resolved[a] # None => resolved[a] \in Terminal(a)
        BY StatesApart DEF IInv, StoreInv, Terminal
      <3> QED BY <3>1, <3>2, <3>3
    <2> QED BY <2>1 DEF IInv, StoreInv, CatalogSound
  <1> QED BY InvariantHolds, <1>1, PTL

\* An output loses its owner only to a receipt that shows the owner never started
\* (project_create_store.py:720).
THEOREM FreedByNoStart == Spec => OwnersFreedByNoStart
  <1> DEFINE Freed == \A o \in Outputs, a \in Archives : owners[o] = a /\ owners'[o] # a =>
                         /\ owners'[o] = None
                         /\ resolved'[a] \in NotStartedStates
                         /\ ~MayHaveRun(a)'
             Unstarted == \A a \in Archives : resolved[a] # None => ~MayHaveRun(a)
  <1>1. IInv => Unstarted
    BY ReleasedNeverRuns
  <1>2. IInv /\ Unstarted' /\ [Next]_vars => Freed
    <2> SUFFICES ASSUME IInv, Unstarted', [Next]_vars, NEW o \in Outputs, NEW a \in Archives,
                        owners[o] = a, owners'[o] # a
                 PROVE  /\ owners'[o] = None
                        /\ resolved'[a] \in NotStartedStates
                        /\ ~MayHaveRun(a)'
      OBVIOUS
    <2>1. a # None
      BY NoneAssumption
    <2>2. PICK p \in Publishers : Reserve(p) \/ Release(p)
      BY DEF Next, CommitRevision, ReserveLevelOperation, Finish, ForeignClaim, Prepare,
             Request, Send, RecordReceipt, GiveUp, Answer, Invoke, Refuse, vars, store
    <2>3. CASE Reserve(p)
      BY <2>1, <2>3 DEF Reserve, Reservable, Insert
    <2>4. CASE Release(p)
      <3>1. /\ Archive(p) = a /\ ShowsNotStarted(pubs[p].reply)
            /\ resolved' = [resolved EXCEPT ![a] = pubs[p].reply]
            /\ owners'[o] = None
        BY <2>4 DEF Release
      <3>2. resolved'[a] \in NotStartedStates
        BY <3>1 DEF ShowsNotStarted, IInv, TypeOK
      <3>3. resolved'[a] # None
        BY <3>2, StatesApart
      <3> QED BY <3>1, <3>2, <3>3
    <2> QED BY <2>2, <2>3, <2>4
  <1> QED BY InvariantHolds, <1>1, <1>2, PTL DEF Spec, OwnersFreedByNoStart
=============================================================================
