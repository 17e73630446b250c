---------------------------- MODULE LiveJournal ----------------------------
(* The live journal of the programs of each session (live/journal.py), the    *)
(* append-only store it is restored from (live/journal_store.py) and the      *)
(* turns that fill both (serving.py).  Memory moves first, under one lock;     *)
(* the line that records the move is written afterwards, outside the lock, by  *)
(* the thread that made it, and a line that cannot be written is let go.       *)
EXTENDS Integers, FiniteSets, Sequences, SequencesExt

CONSTANTS
    Keys,          \* session keys: a device and a document
    Programs,      \* one turn each, with the program it publishes
    None,
    MaxChunks,     \* the operations a program may be sent as
    MaxPrograms,   \* programs kept per session
    MaxSessions,   \* sessions kept in memory
    MaxCrashes,    \* bound on the restarts of a run
    MaxTurns,      \* bound on the turns that run at once, see TurnLeft
    WriteOutcomes  \* what may become of a line: see Write

Operations == Programs \X (1..MaxChunks)

Main  == {"planned", "grounded", "dispatched", "committed", "accepted"}
Side  == {"refused_pre_effect", "rolled_back", "running_unknown", "committed_partial"}
Built == {"committed", "accepted"}
EndStages == Side \cup Built
Rank  == [planned |-> 0, grounded |-> 1, dispatched |-> 2, committed |-> 3, accepted |-> 4]

\* What is kept of a program, the records of a session by number, a session, and
\* a line of the store.
Records    == [prog : Programs, stage : Main \cup Side, ops : SUBSET Operations, late : BOOLEAN]
RecordMaps == UNION {[D -> Records] : D \in SUBSET Nat}
Sessions   == [recs : RecordMaps, next : Nat]
Lines      ==      [event : {"program"}, key : Keys, seq : Nat, value : Programs]
              \cup [event : {"operation", "late"}, key : Keys, seq : Nat, value : Operations]
              \cup [event : {"stage"}, key : Keys, seq : Nat, value : Main \cup Side]

ASSUME NoneAssumption ==
    None \notin Keys \cup Programs \cup Nat \cup Lines \cup Side \cup {"rejected"}

\* Every limit of the code has a lowest value above zero (journal.py 129-142).
ASSUME LimitsAssumption ==
    /\ MaxChunks \in Nat \ {0} /\ MaxPrograms \in Nat \ {0} /\ MaxSessions \in Nat \ {0}

VARIABLES
    mem,     \* per key, the session's records by number and its next number, or NoSession
    lru,     \* the keys in memory, least recently used first
    tried,   \* _RESTORE_TRIED
    store,   \* the complete lines of the store
    torn,    \* a line of the store is broken
    turn,    \* per program, the thread of its turn
    native,  \* per operation, what became of it in Revit
    late,    \* per operation, the line a late receipt has yet to write
    crashes,
    \* What happened, for the properties only; no action reads it.
    lost,       \* a line never reached the store whole
    evicted,    \* keys whose session was pushed out of memory
    reconciled  \* keys of sessions that took a late receipt

liveVars == <<mem, lru, tried, store, torn, turn, native, late, crashes, lost, evicted, reconciled>>

\* What stands for a session that is not in memory.
NoSession == [recs |-> << >>, next |-> None]

NoTurn == [pc |-> "new", key |-> None, seq |-> None, n |-> 1, i |-> 0,
           seen |-> << >>, line |-> None, verdict |-> None]

LiveInit ==
    /\ mem = [k \in Keys |-> NoSession] /\ lru = << >> /\ tried = {}
    /\ store = << >> /\ torn = FALSE
    /\ turn = [p \in Programs |-> NoTurn]
    /\ native = [o \in Operations |-> "unsent"]
    /\ late = [o \in Operations |-> None]
    /\ crashes = 0
    /\ lost = FALSE /\ evicted = {} /\ reconciled = {}

(* ------------------------------- the law -------------------------------- *)

\* Forward along the main line, once into a side stage, never out of one and
\* never from a built stage into one.
Forward(from, to) ==
    /\ from \notin Side
    /\ from \in Built => to \notin Side
    /\ to \in Main => Rank[to] > Rank[from]

(* ------------------------------- the store ------------------------------ *)

Line(event, k, seq, value) == [event |-> event, key |-> k, seq |-> seq, value |-> value]

\* A line the replay refuses refuses the whole session.  A stage whose program
\* is not there is passed over.
Fits(recs, line) ==
    CASE line.event = "program"   -> line.seq \notin DOMAIN recs
      [] line.event = "operation" -> line.seq \in DOMAIN recs
      [] line.event = "stage"     -> line.seq \in DOMAIN recs =>
                                        Forward(recs[line.seq].stage, line.value)
      [] line.event = "late"      -> line.seq \in DOMAIN recs =>
                                        /\ recs[line.seq].stage = "running_unknown"
                                        /\ recs[line.seq].ops = {line.value}

NewRecord(p) == [prog |-> p, stage |-> "planned", ops |-> {}, late |-> FALSE]

With(recs, seq, record) == [s \in DOMAIN recs \cup {seq} |-> IF s = seq THEN record ELSE recs[s]]

Absorb(recs, line) ==
    IF line.event = "program" THEN With(recs, line.seq, NewRecord(line.value))
    ELSE IF line.seq \notin DOMAIN recs THEN recs
    ELSE With(recs, line.seq,
              CASE line.event = "operation" -> [recs[line.seq] EXCEPT !.ops = @ \cup {line.value}]
                [] line.event = "stage"     -> [recs[line.seq] EXCEPT !.stage = line.value]
                [] line.event = "late"      -> [recs[line.seq] EXCEPT !.stage = "committed", !.late = TRUE])

NothingRead == [ok |-> TRUE, recs |-> << >>]

\* One line more.
Read(acc, line, k) ==
    IF line.key # k THEN acc
    ELSE IF acc.ok /\ Fits(acc.recs, line) THEN [acc EXCEPT !.recs = Absorb(@, line)]
    ELSE [acc EXCEPT !.ok = FALSE]

\* The records the lines of one key amount to, or a refusal.
ReplayOf(lines, k) ==
    LET upto[i \in 0..Len(lines)] ==
            IF i = 0 THEN NothingRead ELSE Read(upto[i - 1], lines[i], k)
    IN upto[Len(lines)]

Replay(k) == ReplayOf(store, k)

\* A line that is handed to the disk is there, or nothing of it, or a part.
Write(line) ==
    \E outcome \in WriteOutcomes :
        /\ store' = IF outcome = "written" /\ ~torn THEN Append(store, line) ELSE store
        /\ torn' = (torn \/ outcome = "torn")
        /\ lost' = (lost \/ outcome # "written")

(* ------------------------------- the memory ----------------------------- *)

\* The newest MaxPrograms records.
Kept(recs) ==
    LET stays == {s \in DOMAIN recs : Cardinality({t \in DOMAIN recs : t > s}) < MaxPrograms}
    IN [s \in stays |-> recs[s]]

\* A session put into memory may push the least recently used one out.
Put(k, session) ==
    LET order == Append(RemoveFirst(lru, k), k)
        over  == Len(order) > MaxSessions
    IN /\ lru' = IF over THEN Tail(order) ELSE order
       /\ mem' = [x \in Keys |-> IF over /\ x = Head(order) THEN NoSession
                                 ELSE IF x = k THEN session ELSE mem[x]]
       /\ evicted' = IF over THEN evicted \cup {Head(order)} ELSE evicted

EmptySession == [recs |-> << >>, next |-> 0]

InMemory(k, seq) == seq \in DOMAIN mem[k].recs

\* Moves the stage of one record, or does not move it.
CanAdvance(k, seq, stage) == InMemory(k, seq) /\ Forward(mem[k].recs[seq].stage, stage)

\* An operation belongs to one record, and is bound before that record has an end.
CanBind(k, seq, o) ==
    /\ InMemory(k, seq)
    /\ \A s \in DOMAIN mem[k].recs \ {seq} : o \notin mem[k].recs[s].ops
    /\ o \in mem[k].recs[seq].ops \/ mem[k].recs[seq].stage \in {"planned", "grounded", "dispatched"}

\* The record a late receipt of an operation speaks for.
Reconcilable(k, seq, o) ==
    /\ InMemory(k, seq)
    /\ mem[k].recs[seq].ops = {o}
    /\ mem[k].recs[seq].stage = "running_unknown"

(* ------------------------------- a turn --------------------------------- *)

\* A turn that is over is remembered by its number of operations only.
Say(p, pc, line) ==
    turn' = [turn EXCEPT ![p] = IF pc = "over" THEN [NoTurn EXCEPT !.pc = pc, !.n = turn[p].n]
                                ELSE [@ EXCEPT !.pc = pc, !.line = line]]
Move(p, pc) == Say(p, pc, None)

\* Mutant: the mark is set, nobody waits for the one that reads.
HoldsRestoreLockNever(k) == FALSE

HoldsRestoreLock(k) ==
    \E p \in Programs : turn[p].key = k /\ turn[p].pc \in {"reading", "raising"}

\* Bound: turns run together in the last process of a run only, what an earlier
\* one leaves behind it leaves one turn at a time.
TurnLeft ==
    Cardinality({q \in Programs : turn[q].pc \notin {"new", "over"}})
       < IF crashes < MaxCrashes THEN 1 ELSE MaxTurns

\* publish: the first program of a key in this process restores the session,
\* under the key's lock, before anything is appended to it.
Publish(p) ==
    /\ turn[p].pc = "new"
    /\ TurnLeft
    /\ \E k \in Keys, n \in 1..MaxChunks :
          /\ mem[k] = NoSession => ~HoldsRestoreLock(k)
          /\ tried' = IF mem[k] = NoSession THEN tried \cup {k} ELSE tried
          /\ turn' = [turn EXCEPT ![p].key = k, ![p].n = n,
                                  ![p].pc = IF mem[k] = NoSession /\ k \notin tried
                                            THEN "reading" ELSE "appending"]
    /\ UNCHANGED <<mem, lru, store, torn, native, late, lost, crashes, evicted, reconciled>>

ReadStore(p) ==
    LET seen == Replay(turn[p].key)
    IN /\ turn[p].pc = "reading"
       /\ turn' = [turn EXCEPT ![p].pc = "raising",
                               ![p].seen = IF torn \/ ~seen.ok THEN << >> ELSE seen.recs]
       /\ UNCHANGED <<mem, lru, tried, store, torn, native, late, lost, crashes, evicted, reconciled>>

\* Mutant: the stage comes back as it was written.
RestoredStageAsWritten(stage) == stage

\* What was in flight when the process died is in flight no more.
RestoredStage(stage) == IF stage = "dispatched" THEN "running_unknown" ELSE stage

\* Mutant: numbering starts over.
RestoredFromZero(recs) ==
    [recs |-> Kept([s \in DOMAIN recs |-> [recs[s] EXCEPT !.stage = RestoredStage(@)]]), next |-> 0]

Restored(recs) ==
    [recs |-> Kept([s \in DOMAIN recs |-> [recs[s] EXCEPT !.stage = RestoredStage(@)]]),
     next |-> Max(DOMAIN recs) + 1]

\* restore, once the lines are read: never over records this process has lived.
Raise(p) ==
    LET k == turn[p].key
        refused == turn[p].seen = << >> \/ mem[k].recs # << >>
    IN /\ turn[p].pc = "raising"
       /\ IF refused THEN UNCHANGED <<mem, lru, evicted>> ELSE Put(k, Restored(turn[p].seen))
       /\ turn' = [turn EXCEPT ![p].pc = "appending", ![p].seen = << >>]
       /\ UNCHANGED <<tried, store, torn, native, late, lost, crashes, reconciled>>

\* append, under the lock.
AppendProgram(p) ==
    LET k == turn[p].key
        old == IF mem[k] = NoSession THEN EmptySession ELSE mem[k]
    IN /\ turn[p].pc = "appending"
       /\ Put(k, [recs |-> Kept(With(old.recs, old.next, NewRecord(p))), next |-> old.next + 1])
       /\ turn' = [turn EXCEPT ![p].pc = "storing", ![p].seq = old.next,
                               ![p].line = Line("program", k, old.next, p)]
       /\ UNCHANGED <<tried, store, torn, native, late, lost, crashes, reconciled>>

AfterWriting == [storing |-> "binding", bound |-> "marking", marked |-> "sending", staged |-> "over"]

\* The write of whatever the turn moved in memory last.
WriteLine(p) ==
    /\ turn[p].pc \in DOMAIN AfterWriting
    /\ Write(turn[p].line)
    /\ Say(p, AfterWriting[turn[p].pc], None)
    /\ UNCHANGED <<mem, lru, tried, native, late, crashes, evicted, reconciled>>

\* remember_sections, with what the bridge answered: puts a session there if
\* there is none, without a restore.
RememberSections(p) ==
    LET k == turn[p].key
    IN /\ turn[p].pc = "binding"
       /\ Put(k, IF mem[k] = NoSession THEN EmptySession ELSE mem[k])
       /\ UNCHANGED <<tried, store, torn, turn, native, late, lost, crashes, reconciled>>

Current(p) == <<p, turn[p].i + 1>>

SetRecord(k, seq, record) == mem' = [mem EXCEPT ![k].recs = With(@, seq, record)]

\* _bind_turn_operation_id: the operation is bound, and only then marked as
\* dispatched; neither can hold back the write to Revit.
Bind(p) ==
    LET k == turn[p].key
        seq == turn[p].seq
        o == Current(p)
    IN /\ turn[p].pc = "binding"
       /\ IF CanBind(k, seq, o)
          THEN /\ SetRecord(k, seq, [mem[k].recs[seq] EXCEPT !.ops = @ \cup {o}])
               /\ Say(p, "bound", Line("operation", k, seq, o))
          ELSE Move(p, "sending") /\ UNCHANGED mem
       /\ UNCHANGED <<lru, tried, store, torn, native, late, lost, crashes, evicted, reconciled>>

\* Mutant: the record moves and the store is not told.
AdvanceUnwritten(p, stage, done, skipped) ==
    LET k == turn[p].key
        seq == turn[p].seq
    IN /\ Move(p, skipped)
       /\ IF CanAdvance(k, seq, stage)
          THEN SetRecord(k, seq, [mem[k].recs[seq] EXCEPT !.stage = stage])
          ELSE UNCHANGED mem

\* advance: what does not move is not written either.
Advance(p, stage, done, skipped) ==
    LET k == turn[p].key
        seq == turn[p].seq
    IN IF CanAdvance(k, seq, stage)
       THEN /\ SetRecord(k, seq, [mem[k].recs[seq] EXCEPT !.stage = stage])
            /\ Say(p, done, Line("stage", k, seq, stage))
       ELSE Move(p, skipped) /\ UNCHANGED mem

MarkDispatched(p) ==
    /\ turn[p].pc = "marking"
    /\ Advance(p, "dispatched", "marked", "sending")
    /\ UNCHANGED <<lru, tried, store, torn, native, late, lost, crashes, evicted, reconciled>>

\* The one dispatch of the current operation, or an end before it.
SendChunk(p) ==
    /\ turn[p].pc = "sending"
    /\ \/ /\ native' = [native EXCEPT ![Current(p)] = "running"]
          /\ Move(p, "waiting")
       \/ /\ turn' = [turn EXCEPT ![p].pc = "ending", ![p].verdict = "refused_pre_effect"]
          /\ UNCHANGED native
    /\ UNCHANGED <<mem, lru, tried, store, torn, late, lost, crashes, evicted, reconciled>>

\* A chunk of the program could not be prepared: nothing more is sent.
StopEarly(p) ==
    /\ turn[p].pc = "binding"
    /\ turn' = [turn EXCEPT ![p].pc = "ending", ![p].verdict = "refused_pre_effect"]
    /\ UNCHANGED <<mem, lru, tried, store, torn, native, late, lost, crashes, evicted, reconciled>>

\* The answer, or its absence.  A committed chunk that was not accepted ends the
\* program as well.
Answer(p) ==
    LET o == Current(p)
    IN /\ turn[p].pc = "waiting"
       /\ \/ /\ native[o] = "committed"
             /\ \E accepted \in BOOLEAN :
                   turn' = [turn EXCEPT ![p].i = @ + 1,
                                        ![p].verdict = IF accepted THEN None ELSE "rejected",
                                        ![p].pc = IF accepted /\ turn[p].i + 1 < turn[p].n
                                                  THEN "binding" ELSE "ending"]
          \/ /\ native[o] = "rolled_back"
             /\ turn' = [turn EXCEPT ![p].pc = "ending", ![p].verdict = "rolled_back"]
          \/ turn' = [turn EXCEPT ![p].pc = "ending", ![p].verdict = "running_unknown"]
       /\ UNCHANGED <<mem, lru, tried, store, torn, native, late, lost, crashes, evicted, reconciled>>

\* Mutant: no answer is taken for no effect.
FinalStageAssumes(p) ==
    CASE turn[p].i = 0 -> IF turn[p].verdict = "running_unknown" THEN "rolled_back" ELSE turn[p].verdict
      [] turn[p].i > 0 /\ turn[p].n > 1 /\ turn[p].verdict # None -> "committed_partial"
      [] OTHER -> "committed"

\* The one stage a turn ends in: built whole, built in part, or the verdict of
\* the only operation that was tried.
FinalStage(p) ==
    LET t == turn[p]
    IN CASE t.i = 0 -> t.verdict
         [] t.i > 0 /\ t.n > 1 /\ t.verdict # None -> "committed_partial"
         [] OTHER -> "committed"

Stage(p) ==
    /\ turn[p].pc = "ending"
    /\ Advance(p, FinalStage(p), "staged", "over")
    /\ UNCHANGED <<lru, tried, store, torn, native, late, lost, crashes, evicted, reconciled>>

(* --------------------------- around the turn ----------------------------- *)

\* Revit ends what it was sent, whether or not anybody still waits.
Finish(o) ==
    /\ native[o] = "running"
    /\ \E end \in {"committed", "rolled_back"} : native' = [native EXCEPT ![o] = end]
    /\ UNCHANGED <<mem, lru, tried, store, torn, turn, late, lost, crashes, evicted, reconciled>>

\* reconcile_late_commit: the host brings the receipt of a committed operation.
Reconcile(o) ==
    /\ native[o] = "committed" /\ late[o] = None
    /\ \E k \in Keys : mem[k] # NoSession /\ \E s \in DOMAIN mem[k].recs :
          /\ Reconcilable(k, s, o)
          /\ SetRecord(k, s, [mem[k].recs[s] EXCEPT !.stage = "committed", !.late = TRUE])
          /\ late' = [late EXCEPT ![o] = Line("late", k, s, o)]
          /\ reconciled' = reconciled \cup {k}
    /\ UNCHANGED <<lru, tried, store, torn, turn, native, lost, crashes, evicted>>

WriteLate(o) ==
    /\ late[o] # None
    /\ Write(late[o])
    /\ late' = [late EXCEPT ![o] = None]
    /\ UNCHANGED <<mem, lru, tried, turn, native, crashes, evicted, reconciled>>

Unwritten == ({turn[p].line : p \in Programs} \cup {late[o] : o \in Operations}) \ {None}

\* The process dies, inside a write perhaps, and is started again.
Crash ==
    /\ crashes < MaxCrashes
    /\ crashes' = crashes + 1
    /\ mem' = [k \in Keys |-> NoSession] /\ lru' = << >> /\ tried' = {}
    /\ turn' = [p \in Programs |-> IF turn[p].pc = "new" THEN turn[p]
                                   ELSE [NoTurn EXCEPT !.pc = "over", !.n = turn[p].n]]
    /\ late' = [o \in Operations |-> None]
    /\ \E cut \in BOOLEAN : /\ cut => Unwritten # {} /\ "torn" \in WriteOutcomes
                          /\ torn' = (torn \/ cut)
    /\ UNCHANGED <<store, native, lost, evicted, reconciled>>

Turn(p) ==
    \/ Publish(p) \/ ReadStore(p) \/ Raise(p) \/ AppendProgram(p)
    \/ WriteLine(p) \/ RememberSections(p) \/ Bind(p) \/ MarkDispatched(p)
    \/ SendChunk(p) \/ StopEarly(p) \/ Answer(p) \/ Stage(p)

LiveNext ==
    \/ \E p \in Programs : Turn(p)
    \/ \E o \in Operations : Finish(o) \/ Reconcile(o) \/ WriteLate(o)
    \/ Crash

LiveSpec == LiveInit /\ [][LiveNext]_liveVars

(* ------------------------------ properties ------------------------------ *)

HeldUnder(keys) == UNION {{k} \X DOMAIN mem[k].recs : k \in keys}
Held == HeldUnder(Keys)
Rec(h) == mem[h[1]].recs[h[2]]

\* Types; the order of use names the sessions in memory, and a session's next
\* number is above all its records (journal.py 795-819, 1095-1120).
LiveTypeOK ==
    /\ \A k \in Keys : mem[k] # NoSession =>
          /\ \A s \in DOMAIN mem[k].recs : mem[k].recs[s] \in Records /\ s < mem[k].next
          /\ Cardinality(DOMAIN mem[k].recs) <= MaxPrograms
    /\ ToSet(lru) = {k \in Keys : mem[k] # NoSession}
    /\ Len(lru) = Cardinality(ToSet(lru)) /\ Len(lru) <= MaxSessions
    /\ tried \subseteq Keys /\ torn \in BOOLEAN /\ lost \in BOOLEAN
    /\ evicted \subseteq Keys /\ reconciled \subseteq Keys
    /\ native \in [Operations -> {"unsent", "running", "committed", "rolled_back"}]

\* The types, and in a session that was never pushed out of memory a stage says
\* nothing Revit contradicts: a built record has its operations committed, one that
\* came to nothing has none committed or still running, one built in part has at
\* least one (journal.py 171-207, serving.py 835-881, 1440-1454).  A session that
\* follows one pushed out numbers its records from zero, and a turn that still works
\* under an old number marks a record that is not its own (journal.py 815).
StagesAreTrue ==
    /\ LiveTypeOK
    /\ \A h \in HeldUnder(Keys \ evicted) :
       LET r == Rec(h)
           chunks == {<<r.prog, i>> : i \in 1..turn[r.prog].n}
       IN /\ r.stage \in Built => \A o \in IF r.late THEN r.ops ELSE chunks : native[o] = "committed"
          /\ r.late => r.ops # {}
          /\ r.stage \in {"refused_pre_effect", "rolled_back"} =>
                \A o \in chunks : native[o] \in {"unsent", "rolled_back"}
          /\ r.stage = "committed_partial" => \E o \in chunks : native[o] = "committed"

\* A record is marked as dispatched only while the turn that dispatches it lives:
\* nobody is left to wait for an answer that cannot come (journal.py 1305-1317,
\* serving.py 849-922).
DispatchedIsInFlight ==
    \A h \in Held : Rec(h).stage = "dispatched" => turn[Rec(h).prog].pc \notin {"new", "over"}

Quiet(k) == ~\E line \in Unwritten : line.key = k

\* While no line was lost, what a restart would read of a session is what memory
\* holds of it, up to a dispatch that died with its process, unless the session was
\* pushed out of memory or took a late receipt: the replay refuses the second body of
\* a number, and a receipt that meets any stage but `running_unknown`
\* (journal_store.py 558-644, journal.py 815, 1320-1516).
StoreMirrorsMemory ==
    ~lost /\ ~torn =>
       \A k \in Keys \ (evicted \cup reconciled) : mem[k] # NoSession /\ Quiet(k) =>
          /\ Replay(k).ok
          /\ \A s \in DOMAIN mem[k].recs :
                LET m == mem[k].recs[s]
                    r == Replay(k).recs[s]
                IN /\ s \in DOMAIN Replay(k).recs
                   /\ m = r \/ m = [r EXCEPT !.stage = RestoredStage(@)]

\* A built record has every operation of its program in the model
\* (journal.py 189-207, 670-703).
BuiltIsWhole ==
    \A h \in Held : Rec(h).stage \in Built =>
       \A i \in 1..turn[Rec(h).prog].n : native[<<Rec(h).prog, i>>] = "committed"

\* A session that comes into memory while its store replays, and was not pushed out
\* before, brings what the store holds of it, up to the newest MaxPrograms: nobody
\* starts an empty building beside one that is being restored (journal.py 878-1000).
NothingForgotten ==
    [][\A k \in Keys \ evicted :
          mem[k] = NoSession /\ mem'[k] # NoSession /\ ~torn /\ Replay(k).ok =>
             \A s \in DOMAIN Kept(Replay(k).recs) :
                InMemory(k, s)' /\ mem'[k].recs[s].prog = Replay(k).recs[s].prog]_liveVars

\* While its session stays in memory, a record keeps its place and its program,
\* what is built stays built, and what ended otherwise stays so: only an unknown
\* end may become a commit (journal.py 562-633, 670-717).
EndsStand ==
    [][\A h \in Held : InMemory(h[1], h[2])' =>
          LET r == Rec(h)
              s == Rec(h)'
          IN /\ s.prog = r.prog
             /\ r.ops \subseteq s.ops
             /\ r.stage \in Built => s.stage \in Built
             /\ r.stage \in Side => s.stage = r.stage \/ (r.stage = "running_unknown" /\ s.late)]_liveVars
=============================================================================
