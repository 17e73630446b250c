------------------------- MODULE LiveJournalProofs -------------------------
(***************************************************************************)
(* What the live journal says is true of Revit, and what it forgets: theorems *)
(* for every set of sessions and turns and every limit, on top of what          *)
(* StoreProofs shows of any journal.  A session that was pushed out of memory    *)
(* numbers its records from zero when it comes back, so each part of the         *)
(* invariant speaks of the sessions that never were.                             *)
(*                                                                          *)
(* The invariant Honest follows one program through five places: Revit, its   *)
(* turn, the record in memory, the records a turn has read and is about to     *)
(* raise, and the lines of the store.  What may be said of a program in any of *)
(* them is bounded by what Revit did (NativeFacts), a number of a session      *)
(* belongs to the turn that took it (NumberFacts), and what the store says is   *)
(* stated of every number at once, so that it can be carried through one line  *)
(* more without unfolding what a replay computes (ReplayAppend).  Mirror adds  *)
(* that, while no line is lost, the memory of a session that took no late       *)
(* receipt is the replay with the lines that are still to be written.           *)
(***************************************************************************)
EXTENDS StoreProofs

(* ----------------------- what Revit did for each turn ------------------------ *)

Unsent(p, i) == \A j \in (i + 1) .. MaxChunks : native[<<p, j>>] = "unsent"

\* How far a turn is in Revit: what it was answered is committed, and what lies
\* beyond its place was never sent.
NativeHolds(p) ==
    LET t == turn[p]
    IN /\ t.pc \in Before \cup Working => \A j \in 1 .. t.i : native[<<p, j>>] = "committed"
       /\ t.pc \in (Before \cup Working) \ {"waiting", "ending", "staged"} => Unsent(p, t.i)
       /\ t.pc = "waiting" => Unsent(p, t.i + 1)
       /\ t.pc \in {"ending", "staged"} /\ t.verdict = "refused_pre_effect" => Unsent(p, t.i)
       /\ t.pc \in {"ending", "staged"} /\ t.verdict = "rolled_back" =>
             t.i < t.n /\ native[Current(p)] = "rolled_back" /\ Unsent(p, t.i + 1)

NativeFacts == \A p \in Programs : NativeHolds(p)

\* What ended in Revit has ended, and a turn that has its end sends nothing.
NativeOnward ==
    \A o \in Operations :
        /\ native[o] \in {"committed", "rolled_back"} => native'[o] = native[o]
        /\ native[o] = "unsent" /\ turn[o[1]].pc \in {"staged", "over"} => native'[o] = "unsent"

\* A turn that has its end keeps it.
Closed ==
    \A q \in Programs : turn[q].pc \in {"staged", "over"} => turn'[q].pc \in {"staged", "over"}

LEMMA SendIs ==
    ASSUME Base, NEW p \in Programs, SendChunk(p)
    PROVE  /\ turn[p].pc = "sending" /\ Live(p) /\ TurnType' /\ Acts(p)
           /\ turn'[p].key = turn[p].key /\ turn'[p].seq = turn[p].seq
           /\ turn'[p].n = turn[p].n /\ turn'[p].i = turn[p].i
           /\ \/ /\ native' = [native EXCEPT ![Current(p)] = "running"]
                 /\ turn'[p].pc = "waiting" /\ turn'[p].verdict = turn[p].verdict
              \/ /\ native' = native
                 /\ turn'[p].pc = "ending" /\ turn'[p].verdict = "refused_pre_effect"
           /\ mem' = mem /\ tried' = tried /\ store' = store /\ torn' = torn /\ late' = late /\ lost' = lost
  <1>1. turn[p].pc = "sending" /\ Live(p)
    BY DEF SendChunk, Live, Working
  <1>2. TurnType
    BY DEF Base, Types
  <1>3. CASE native' = [native EXCEPT ![Current(p)] = "running"] /\ Move(p, "waiting")
    <2>1. "waiting" \in Before \cup Working
      BY DEF Working
    <2>2. /\ TurnType' /\ Acts(p)
          /\ turn'[p].pc = "waiting"
          /\ turn'[p].key = turn[p].key /\ turn'[p].seq = turn[p].seq
          /\ turn'[p].n = turn[p].n /\ turn'[p].i = turn[p].i /\ turn'[p].verdict = turn[p].verdict
      BY <1>2, <1>3, <2>1, MoveIs
    <2> QED BY <1>1, <1>3, <2>2 DEF SendChunk
  <1>4. CASE /\ turn' = [turn EXCEPT ![p].pc = "ending", ![p].verdict = "refused_pre_effect"]
             /\ UNCHANGED native
    <2>1. PICK v \in Failed : v = "refused_pre_effect"
      BY DEF Failed
    <2>2. /\ TurnType' /\ Acts(p)
          /\ turn'[p].pc = "ending" /\ turn'[p].verdict = v
          /\ turn'[p].key = turn[p].key /\ turn'[p].seq = turn[p].seq
          /\ turn'[p].n = turn[p].n /\ turn'[p].i = turn[p].i
      BY <1>2, <1>4, <2>1, EndIs
    <2> QED BY <1>1, <1>4, <2>1, <2>2 DEF SendChunk
  <1> QED BY <1>3, <1>4 DEF SendChunk

LEMMA StopIs ==
    ASSUME Base, NEW p \in Programs, StopEarly(p)
    PROVE  /\ turn[p].pc = "binding" /\ Live(p) /\ TurnType' /\ Acts(p)
           /\ turn'[p].key = turn[p].key /\ turn'[p].seq = turn[p].seq
           /\ turn'[p].n = turn[p].n /\ turn'[p].i = turn[p].i
           /\ turn'[p].pc = "ending" /\ turn'[p].verdict = "refused_pre_effect"
           /\ mem' = mem /\ tried' = tried /\ store' = store /\ torn' = torn /\ native' = native
           /\ late' = late /\ lost' = lost
  <1>1. PICK v \in Failed : v = "refused_pre_effect"
    BY DEF Failed
  <1>2. /\ TurnType' /\ Acts(p)
        /\ turn'[p].pc = "ending" /\ turn'[p].verdict = v
        /\ turn'[p].key = turn[p].key /\ turn'[p].seq = turn[p].seq
        /\ turn'[p].n = turn[p].n /\ turn'[p].i = turn[p].i
    BY <1>1, EndIs DEF Base, Types, StopEarly
  <1> QED BY <1>1, <1>2 DEF StopEarly, Live, Working

LEMMA AnswerIs ==
    ASSUME Base, NEW p \in Programs, Answer(p)
    PROVE  /\ turn[p].pc = "waiting" /\ Live(p) /\ TurnType' /\ Acts(p)
           /\ turn'[p].key = turn[p].key /\ turn'[p].seq = turn[p].seq /\ turn'[p].n = turn[p].n
           /\ \/ /\ native[Current(p)] = "committed" /\ turn'[p].i = turn[p].i + 1
                 /\ turn'[p].pc \in {"binding", "ending"} /\ turn'[p].verdict \in {None, "rejected"}
              \/ /\ turn'[p].pc = "ending" /\ turn'[p].i = turn[p].i
                 /\ turn'[p].verdict = "rolled_back" /\ native[Current(p)] = "rolled_back"
              \/ /\ turn'[p].pc = "ending" /\ turn'[p].i = turn[p].i
                 /\ turn'[p].verdict = "running_unknown"
           /\ mem' = mem /\ tried' = tried /\ store' = store /\ torn' = torn /\ native' = native
           /\ late' = late /\ lost' = lost
  <1>1. /\ turn[p].pc = "waiting" /\ Live(p)
        /\ mem' = mem /\ tried' = tried /\ store' = store /\ torn' = torn /\ native' = native
        /\ late' = late /\ lost' = lost
    BY DEF Answer, Live, Working
  <1>2. TurnType
    BY DEF Base, Types
  <1>3. ASSUME NEW v \in Failed, turn' = [turn EXCEPT ![p].pc = "ending", ![p].verdict = v]
        PROVE  /\ TurnType' /\ Acts(p)
               /\ turn'[p].key = turn[p].key /\ turn'[p].seq = turn[p].seq /\ turn'[p].n = turn[p].n
               /\ turn'[p].pc = "ending" /\ turn'[p].i = turn[p].i /\ turn'[p].verdict = v
    BY <1>2, <1>3, EndIs
  <1>4. ASSUME NEW accepted \in BOOLEAN,
               turn' = [turn EXCEPT ![p].i = @ + 1,
                                    ![p].verdict = IF accepted THEN None ELSE "rejected",
                                    ![p].pc = IF accepted /\ turn[p].i + 1 < turn[p].n
                                              THEN "binding" ELSE "ending"]
        PROVE  /\ TurnType' /\ Acts(p)
               /\ turn'[p].key = turn[p].key /\ turn'[p].seq = turn[p].seq /\ turn'[p].n = turn[p].n
               /\ turn'[p].i = turn[p].i + 1
               /\ turn'[p].pc \in {"binding", "ending"} /\ turn'[p].verdict \in {None, "rejected"}
    <2>1. PICK x \in Turns : x = turn[p]
      BY <1>2 DEF TurnType
    <2>2. PICK pc \in {"binding", "ending"}, v \in {None, "rejected"}, i \in Nat :
             /\ pc = (IF accepted /\ x.i + 1 < x.n THEN "binding" ELSE "ending")
             /\ v = (IF accepted THEN None ELSE "rejected") /\ i = x.i + 1
      BY TurnFields
    <2>3. PICK t : t = [x EXCEPT !.i = i, !.verdict = v, !.pc = pc]
      OBVIOUS
    <2>4. turn' = [turn EXCEPT ![p] = t]
      BY <1>4, <2>1, <2>2, <2>3
    <2>5. t.pc = pc /\ t.verdict = v /\ t.i = i /\ t.key = x.key /\ t.seq = x.seq /\ t.n = x.n
      BY <2>3 DEF Turns
    <2>6. pc \in Before \cup Working \cup {"over"} /\ v \in Failed \cup {"rejected", None}
      BY DEF Working
    <2>7. t \in Turns
      BY <2>3, <2>6 DEF Turns
    <2>8. TurnType' /\ turn'[p] = t /\ Acts(p)
      BY <1>2, <2>4, <2>7, TurnIs
    <2> QED BY <2>1, <2>2, <2>5, <2>8
  <1>5. "rolled_back" \in Failed /\ "running_unknown" \in Failed
    BY DEF Failed
  <1>6. CASE native[Current(p)] = "committed" /\ \E accepted \in BOOLEAN :
                   turn' = [turn EXCEPT ![p].i = @ + 1,
                                        ![p].verdict = IF accepted THEN None ELSE "rejected",
                                        ![p].pc = IF accepted /\ turn[p].i + 1 < turn[p].n
                                                  THEN "binding" ELSE "ending"]
    BY <1>1, <1>4, <1>6
  <1>7. CASE native[Current(p)] = "rolled_back" /\ turn' = [turn EXCEPT ![p].pc = "ending", ![p].verdict = "rolled_back"]
    BY <1>1, <1>3, <1>5, <1>7
  <1>8. CASE turn' = [turn EXCEPT ![p].pc = "ending", ![p].verdict = "running_unknown"]
    BY <1>1, <1>3, <1>5, <1>8
  <1> QED BY <1>6, <1>7, <1>8 DEF Answer

\* Every step leaves a turn its record and a turn that is over, over.
LEMMA OnwardStep ==
    ASSUME Base, [LiveNext]_liveVars
    PROVE  Onward /\ Closed
  <1>1. ASSUME NEW p \in Programs, Goes(p), turn[p].pc \notin {"staged", "over"} PROVE Onward /\ Closed
    BY <1>1, WorksOnward DEF Closed, Goes, Acts
  <1>2. ASSUME NEW p \in Programs, Acts(p), turn[p].pc \in Before PROVE Onward /\ Closed
    BY <1>2 DEF Onward, Closed, Acts, Live, Before, Working
  <1>3. ASSUME turn' = turn PROVE Onward /\ Closed
    BY <1>3, StandsOnward DEF Closed
  <1>4. ASSUME NEW p \in Programs, Turn(p) PROVE Onward /\ Closed
    <2>1. CASE Publish(p)
      BY <1>2, <2>1, PublishIs DEF Before
    <2>2. CASE ReadStore(p)
      BY <1>2, <2>2, ReadStoreIs DEF Before
    <2>3. CASE Raise(p)
      BY <1>2, <2>3, RaiseIs DEF Before
    <2>4. CASE AppendProgram(p)
      BY <1>2, <2>4, AppendProgramIs DEF Before
    <2>5. CASE WriteLine(p)
      <3>1. /\ Works(p) /\ turn[p].pc \in {"storing", "bound", "marked", "staged"}
            /\ turn[p].pc = "staged" => turn'[p].pc = "over"
        BY <2>5, AfterWrite
      <3> QED BY <3>1, WorksOnward DEF Closed, Works, Goes, Acts
    <2>6. CASE RememberSections(p)
      BY <1>3, <2>6 DEF RememberSections
    <2>7. CASE Bind(p)
      BY <1>1, <2>7, BindIs
    <2>8. CASE MarkDispatched(p)
      BY <1>1, <2>8, MarkIs
    <2>9. CASE Stage(p)
      BY <1>1, <2>9, StageIs
    <2>10. CASE SendChunk(p)
      <3>1. Goes(p) /\ turn[p].pc \notin {"staged", "over"}
        BY <2>10, SendIs DEF Goes, Working
      <3> QED BY <1>1, <3>1
    <2>11. CASE StopEarly(p)
      <3>1. Goes(p) /\ turn[p].pc \notin {"staged", "over"}
        BY <2>11, StopIs DEF Goes, Working
      <3> QED BY <1>1, <3>1
    <2>12. CASE Answer(p)
      <3>1. Goes(p) /\ turn[p].pc \notin {"staged", "over"}
        BY <2>12, AnswerIs DEF Goes, Working
      <3> QED BY <1>1, <3>1
    <2> QED BY <1>4, <2>1, <2>2, <2>3, <2>4, <2>5, <2>6, <2>7, <2>8, <2>9, <2>10, <2>11, <2>12 DEF Turn
  <1>5. ASSUME NEW o \in Operations, Finish(o) \/ Reconcile(o) \/ WriteLate(o) PROVE Onward /\ Closed
    BY <1>3, <1>5 DEF Finish, Reconcile, WriteLate
  <1>6. CASE Crash
    BY <1>6, CrashIs DEF Closed
  <1>7. CASE UNCHANGED liveVars
    BY <1>3, <1>7 DEF liveVars
  <1> QED BY <1>4, <1>5, <1>6, <1>7 DEF LiveNext

\* A turn that moves and sends nothing.
LEMMA NativeKept ==
    ASSUME NativeFacts, NEW p \in Programs, Acts(p), native' = native, turn'[p].i = turn[p].i,
           turn[p].pc \in (Before \cup Working) \ {"waiting", "ending", "staged"},
           turn'[p].pc \in (Before \cup Working) \ {"waiting", "ending", "staged"}
    PROVE  NativeFacts'
  <1> SUFFICES ASSUME NEW q \in Programs PROVE NativeHolds(q)'
    BY DEF NativeFacts
  <1>1. CASE q = p
    <2>1. NativeHolds(p)
      BY DEF NativeFacts
    <2>2. (\A j \in 1 .. turn[p].i : native[<<p, j>>] = "committed") /\ Unsent(p, turn[p].i)
      BY <2>1 DEF NativeHolds
    <2> QED BY <1>1, <2>2 DEF NativeHolds, Unsent
  <1>2. CASE q # p
    <2>1. NativeHolds(q) /\ turn'[q] = turn[q]
      BY <1>2 DEF NativeFacts, Acts
    <2> QED BY <2>1 DEF NativeHolds, Unsent, Current
  <1> QED BY <1>1, <1>2

\* Whatever a step does to the turn of p, the others have what they had.
LEMMA NativeOthers ==
    ASSUME NativeFacts, NEW p \in Programs, Acts(p), native' = native, NativeHolds(p)'
    PROVE  NativeFacts'
  <1> SUFFICES ASSUME NEW q \in Programs, q # p PROVE NativeHolds(q)'
    BY DEF NativeFacts
  <1>1. NativeHolds(q) /\ turn'[q] = turn[q]
    BY DEF NativeFacts, Acts
  <1> QED BY <1>1 DEF NativeHolds, Unsent, Current

LEMMA NativeStands ==
    ASSUME NativeFacts, turn' = turn, native' = native
    PROVE  NativeFacts'
  BY DEF NativeFacts, NativeHolds, Unsent, Current

LEMMA SendNative ==
    ASSUME Base, NativeFacts, NEW p \in Programs, SendChunk(p)
    PROVE  NativeFacts' /\ NativeOnward
  <1>1. /\ turn[p].pc = "sending" /\ Acts(p) /\ turn'[p].i = turn[p].i /\ turn'[p].n = turn[p].n
        /\ \/ /\ native' = [native EXCEPT ![Current(p)] = "running"]
              /\ turn'[p].pc = "waiting" /\ turn'[p].verdict = turn[p].verdict
           \/ /\ native' = native
              /\ turn'[p].pc = "ending" /\ turn'[p].verdict = "refused_pre_effect"
    BY SendIs
  <1>2. TurnType /\ TurnHolds(p) /\ NativeType /\ NativeHolds(p)
    BY DEF Base, Types, TurnFacts, NativeFacts
  <1>3. /\ turn[p].i < turn[p].n /\ turn[p].i \in Nat /\ turn[p].n \in 1 .. MaxChunks
        /\ MaxChunks \in Nat /\ turn[p].n \in Nat
    BY <1>1, <1>2, TurnFields, LimitsAssumption DEF TurnHolds, Before, Working, TurnType
  <1>4. (\A j \in 1 .. turn[p].i : native[<<p, j>>] = "committed") /\ Unsent(p, turn[p].i)
    BY <1>1, <1>2 DEF NativeHolds, Working
  <1>5. Current(p) \in Operations
    BY <1>2, <1>3, CurrentIs
  <1>6. CASE native' = native /\ turn'[p].pc = "ending" /\ turn'[p].verdict = "refused_pre_effect"
    <2>1. NativeHolds(p)'
      BY <1>1, <1>4, <1>6 DEF NativeHolds, Unsent
    <2> QED BY <1>1, <1>6, <2>1, NativeOthers DEF NativeOnward
  <1>7. CASE /\ native' = [native EXCEPT ![Current(p)] = "running"]
             /\ turn'[p].pc = "waiting" /\ turn'[p].verdict = turn[p].verdict
    <2>1. PICK i \in Nat : i = turn[p].i + 1 /\ turn[p].i < i /\ i \in 1 .. MaxChunks
      BY <1>3
    <2>2. Current(p) = <<p, i>> /\ native[<<p, i>>] = "unsent"
      BY <1>3, <1>4, <2>1 DEF Current, Unsent
    <2>3. \A o \in Operations : o # <<p, i>> => native'[o] = native[o]
      BY <1>2, <1>7, <2>2 DEF NativeType
    <2>4. native'[<<p, i>>] = "running"
      BY <1>2, <1>5, <1>7, <2>2 DEF NativeType
    <2>5. \A q \in Programs, j \in 1 .. MaxChunks : <<q, j>> \in Operations
      BY DEF Operations
    <2>6. NativeHolds(p)'
      <3>1. \A j \in 1 .. turn[p].i : native'[<<p, j>>] = "committed"
        <4> SUFFICES ASSUME NEW j \in 1 .. turn[p].i PROVE native'[<<p, j>>] = "committed"
          OBVIOUS
        <4>1. j \in 1 .. MaxChunks /\ j # i
          BY <1>3, <2>1
        <4>2. <<p, j>> # <<p, i>> /\ <<p, j>> \in Operations
          BY <4>1, <2>5
        <4> QED BY <4>2, <2>3, <1>4
      <3>2. \A j \in (turn[p].i + 1) + 1 .. MaxChunks : native'[<<p, j>>] = "unsent"
        <4> SUFFICES ASSUME NEW j \in (turn[p].i + 1) + 1 .. MaxChunks PROVE native'[<<p, j>>] = "unsent"
          OBVIOUS
        <4>1. j \in 1 .. MaxChunks /\ j # i /\ j \in turn[p].i + 1 .. MaxChunks
          BY <1>3, <2>1
        <4>2. <<p, j>> # <<p, i>> /\ <<p, j>> \in Operations
          BY <4>1, <2>5
        <4> QED BY <4>1, <4>2, <2>3, <1>4 DEF Unsent
      <3> QED BY <1>1, <1>7, <3>1, <3>2 DEF NativeHolds, Unsent
    <2>7. ASSUME NEW q \in Programs, q # p PROVE NativeHolds(q)'
      <3>1. NativeHolds(q) /\ turn'[q] = turn[q] /\ turn[q] \in Turns
        BY <1>1, <1>2, <2>7 DEF NativeFacts, Acts, TurnType
      <3>2. \A j : <<q, j>> \in Operations => native'[<<q, j>>] = native[<<q, j>>]
        BY <2>3, <2>7
      <3>3. turn[q].n \in 1 .. MaxChunks /\ turn[q].i \in Nat /\ turn[q].n \in Nat
        BY <3>1, TurnFields
      <3>4. \A j \in 1 .. MaxChunks : native'[<<q, j>>] = native[<<q, j>>]
        BY <3>2, <2>5
      <3>5. turn[q].pc \in Before \cup Working => turn[q].i <= turn[q].n
        <4>1. TurnHolds(q)
          BY DEF Base, TurnFacts
        <4> QED BY <4>1, <3>3 DEF TurnHolds, Before, Working
      <3>6. turn[q].i + 1 <= MaxChunks => native'[Current(q)] = native[Current(q)]
        BY <3>3, <3>4, <1>3 DEF Current
      <3>7. turn[q].pc \in Before \cup Working => \A j \in 1 .. turn[q].i : native'[<<q, j>>] = "committed"
        BY <3>1, <3>3, <3>4, <3>5, <1>3 DEF NativeHolds
      <3>8. \A i1 \in Nat : Unsent(q, i1) => \A j \in i1 + 1 .. MaxChunks : native'[<<q, j>>] = "unsent"
        BY <3>4, <1>3 DEF Unsent
      <3>9. turn[q].pc \in (Before \cup Working) \ {"waiting", "ending", "staged"} =>
               \A j \in turn[q].i + 1 .. MaxChunks : native'[<<q, j>>] = "unsent"
        BY <3>1, <3>3, <3>8 DEF NativeHolds
      <3>n. PICK i1 \in Nat : i1 = turn[q].i + 1
        BY <3>3
      <3>10. turn[q].pc = "waiting" => \A j \in i1 + 1 .. MaxChunks : native'[<<q, j>>] = "unsent"
        BY <3>1, <3>n, <3>8 DEF NativeHolds
      <3>11. turn[q].pc \in {"ending", "staged"} /\ turn[q].verdict = "refused_pre_effect" =>
               \A j \in turn[q].i + 1 .. MaxChunks : native'[<<q, j>>] = "unsent"
        BY <3>1, <3>3, <3>8 DEF NativeHolds
      <3>12. turn[q].pc \in {"ending", "staged"} /\ turn[q].verdict = "rolled_back" =>
               /\ turn[q].i < turn[q].n /\ native'[Current(q)] = "rolled_back"
               /\ \A j \in i1 + 1 .. MaxChunks : native'[<<q, j>>] = "unsent"
        <4>1. turn[q].i < turn[q].n => turn[q].i + 1 <= MaxChunks
          BY <3>3, <1>3
        <4> QED BY <3>1, <3>n, <3>6, <3>8, <4>1 DEF NativeHolds
      <3>13. Current(q)' = Current(q)
        BY <3>1 DEF Current
      <3> QED BY <3>1, <3>n, <3>7, <3>9, <3>10, <3>11, <3>12, <3>13 DEF NativeHolds, Unsent
    <2>8. NativeFacts'
      BY <2>6, <2>7 DEF NativeFacts
    <2>9. NativeOnward
      <3> SUFFICES ASSUME NEW o \in Operations
                   PROVE  /\ native[o] \in {"committed", "rolled_back"} => native'[o] = native[o]
                          /\ native[o] = "unsent" /\ turn[o[1]].pc \in {"staged", "over"} => native'[o] = "unsent"
        BY DEF NativeOnward
      <3>1. CASE o = <<p, i>>
        BY <1>1, <2>2, <3>1
      <3>2. CASE o # <<p, i>>
        BY <2>3, <3>2
      <3> QED BY <3>1, <3>2
    <2> QED BY <2>8, <2>9
  <1> QED BY <1>1, <1>6, <1>7

\* Revit ends an operation: one that runs.
LEMMA FinishNative ==
    ASSUME Base, NativeFacts, NEW o \in Operations, Finish(o)
    PROVE  NativeFacts' /\ NativeOnward
  <1>1. PICK end \in {"committed", "rolled_back"} :
           native[o] = "running" /\ turn' = turn /\ native' = [native EXCEPT ![o] = end]
    BY DEF Finish
  <1>2. NativeType /\ TurnType
    BY DEF Base, Types
  <1>3. \A x \in Operations : native[x] # "running" => native'[x] = native[x]
    BY <1>1, <1>2 DEF NativeType
  <1>4. NativeOnward
    BY <1>3 DEF NativeOnward
  <1>5. \A q \in Programs, j \in 1 .. MaxChunks : <<q, j>> \in Operations
    BY DEF Operations
  <1>6. MaxChunks \in Nat
    BY LimitsAssumption
  <1>7. ASSUME NEW q \in Programs PROVE NativeHolds(q)'
    <2>1. NativeHolds(q) /\ turn'[q] = turn[q] /\ turn[q] \in Turns
      BY <1>1, <1>2 DEF NativeFacts, TurnType
    <2>2. turn[q].n \in 1 .. MaxChunks /\ turn[q].i \in Nat /\ turn[q].n \in Nat
      BY <2>1, TurnFields
    <2>3. turn[q].pc \in Before \cup Working => turn[q].i <= turn[q].n
      <3>1. TurnHolds(q)
        BY DEF Base, TurnFacts
      <3> QED BY <3>1, <2>2 DEF TurnHolds, Before, Working
    <2>4. \A j \in 1 .. MaxChunks : native[<<q, j>>] # "running" => native'[<<q, j>>] = native[<<q, j>>]
      BY <1>3, <1>5
    <2>5. turn[q].pc \in Before \cup Working => \A j \in 1 .. turn[q].i : native'[<<q, j>>] = "committed"
      BY <2>1, <2>2, <2>3, <2>4, <1>6 DEF NativeHolds
    <2>6. \A i1 \in Nat : Unsent(q, i1) => \A j \in i1 + 1 .. MaxChunks : native'[<<q, j>>] = "unsent"
      BY <2>4, <1>6 DEF Unsent
    <2>n. PICK i1 \in Nat : i1 = turn[q].i + 1
      BY <2>2
    <2>7. turn[q].pc \in (Before \cup Working) \ {"waiting", "ending", "staged"} =>
             \A j \in turn[q].i + 1 .. MaxChunks : native'[<<q, j>>] = "unsent"
      BY <2>1, <2>2, <2>6 DEF NativeHolds
    <2>8. turn[q].pc = "waiting" => \A j \in i1 + 1 .. MaxChunks : native'[<<q, j>>] = "unsent"
      BY <2>1, <2>n, <2>6 DEF NativeHolds
    <2>9. turn[q].pc \in {"ending", "staged"} /\ turn[q].verdict = "refused_pre_effect" =>
             \A j \in turn[q].i + 1 .. MaxChunks : native'[<<q, j>>] = "unsent"
      BY <2>1, <2>2, <2>6 DEF NativeHolds
    <2>10. turn[q].pc \in {"ending", "staged"} /\ turn[q].verdict = "rolled_back" =>
             /\ turn[q].i < turn[q].n /\ native'[Current(q)] = "rolled_back"
             /\ \A j \in i1 + 1 .. MaxChunks : native'[<<q, j>>] = "unsent"
      <3>1. turn[q].i < turn[q].n => i1 \in 1 .. MaxChunks
        BY <2>2, <2>n, <1>6
      <3>2. Current(q) = <<q, i1>>
        BY <2>n DEF Current
      <3> QED BY <2>1, <2>n, <2>4, <2>6, <3>1, <3>2 DEF NativeHolds
    <2>11. Current(q)' = Current(q)
      BY <2>1 DEF Current
    <2> QED BY <2>1, <2>n, <2>5, <2>7, <2>8, <2>9, <2>10, <2>11 DEF NativeHolds, Unsent
  <1> QED BY <1>4, <1>7 DEF NativeFacts

LEMMA AnswerNative ==
    ASSUME Base, NativeFacts, NEW p \in Programs, Answer(p)
    PROVE  NativeFacts'
  <1>1. /\ turn[p].pc = "waiting" /\ Acts(p) /\ turn'[p].n = turn[p].n /\ native' = native
        /\ \/ /\ native[Current(p)] = "committed" /\ turn'[p].i = turn[p].i + 1
              /\ turn'[p].pc \in {"binding", "ending"} /\ turn'[p].verdict \in {None, "rejected"}
           \/ /\ turn'[p].pc = "ending" /\ turn'[p].i = turn[p].i
              /\ turn'[p].verdict = "rolled_back" /\ native[Current(p)] = "rolled_back"
           \/ /\ turn'[p].pc = "ending" /\ turn'[p].i = turn[p].i
              /\ turn'[p].verdict = "running_unknown"
    BY AnswerIs
  <1>2. TurnType /\ TurnHolds(p) /\ NativeHolds(p)
    BY DEF Base, Types, TurnFacts, NativeFacts
  <1>3. turn[p].i < turn[p].n /\ turn[p].i \in Nat
    BY <1>1, <1>2, TurnFields DEF TurnHolds, Before, Working, TurnType
  <1>n. PICK i \in Nat : i = turn[p].i /\ i < turn[p].n
    BY <1>3
  <1>4. (\A j \in 1 .. i : native[<<p, j>>] = "committed") /\ Unsent(p, i + 1)
    BY <1>1, <1>2, <1>n DEF NativeHolds, Working
  <1>5. Current(p) = <<p, i + 1>>
    BY <1>n DEF Current
  <1>6. NativeHolds(p)'
    <2>1. CASE /\ native[Current(p)] = "committed" /\ turn'[p].i = i + 1
               /\ turn'[p].pc \in {"binding", "ending"} /\ turn'[p].verdict \in {None, "rejected"}
      <3>1. \A j \in 1 .. (i + 1) : native'[<<p, j>>] = "committed"
        <4> SUFFICES ASSUME NEW j \in 1 .. (i + 1) PROVE native[<<p, j>>] = "committed"
          BY <1>1
        <4>1. j \in 1 .. i \/ j = i + 1
          OBVIOUS
        <4> QED BY <4>1, <1>4, <1>5, <2>1
      <3>2. turn'[p].verdict \notin {"refused_pre_effect", "rolled_back"}
        BY <2>1, NoneIsNoWord DEF Failed
      <3> QED BY <1>1, <1>4, <2>1, <3>1, <3>2 DEF NativeHolds, Unsent
    <2>2. CASE /\ turn'[p].pc = "ending" /\ turn'[p].i = i
               /\ turn'[p].verdict = "rolled_back" /\ native[Current(p)] = "rolled_back"
      BY <1>1, <1>n, <1>4, <2>2 DEF NativeHolds, Unsent, Current
    <2>3. CASE /\ turn'[p].pc = "ending" /\ turn'[p].i = i
               /\ turn'[p].verdict = "running_unknown"
      BY <1>1, <1>4, <2>3 DEF NativeHolds
    <2> QED BY <1>1, <1>n, <2>1, <2>2, <2>3
  <1> QED BY <1>1, <1>6, NativeOthers

LEMMA NativeStep ==
    ASSUME Base, NativeFacts, [LiveNext]_liveVars
    PROVE  NativeFacts' /\ NativeOnward
  <1>1. ASSUME native' = native PROVE NativeOnward
    BY <1>1 DEF NativeOnward
  <1>2. ASSUME NEW p \in Programs, Acts(p), native' = native, turn'[p].pc = "over" PROVE NativeFacts'
    <2>1. NativeHolds(p)'
      BY <1>2 DEF NativeHolds, Before, Working
    <2> QED BY <1>2, <2>1, NativeOthers
  <1>3. ASSUME NEW p \in Programs, Turn(p) PROVE NativeFacts' /\ NativeOnward
    <2>1. CASE SendChunk(p)
      BY <2>1, SendNative
    <2>2. CASE Answer(p)
      BY <1>1, <2>2, AnswerNative, AnswerIs
    <2>3. CASE Publish(p)
      <3>1. /\ Acts(p) /\ native' = native /\ turn'[p].i = turn[p].i /\ turn[p].pc = "new"
            /\ turn'[p].pc \in {"reading", "appending"}
        BY <2>3, PublishIs
      <3> QED BY <1>1, <3>1, NativeKept DEF Before
    <2>4. CASE ReadStore(p)
      <3>1. /\ Acts(p) /\ native' = native /\ turn'[p].i = turn[p].i /\ turn[p].pc = "reading"
            /\ turn'[p].pc = "raising"
        BY <2>4, ReadStoreIs
      <3> QED BY <1>1, <3>1, NativeKept DEF Before
    <2>5. CASE Raise(p)
      <3>1. /\ Acts(p) /\ native' = native /\ turn'[p].i = turn[p].i /\ turn[p].pc = "raising"
            /\ turn'[p].pc = "appending"
        BY <2>5, RaiseIs
      <3> QED BY <1>1, <3>1, NativeKept DEF Before
    <2>6. CASE AppendProgram(p)
      <3>1. /\ Acts(p) /\ native' = native /\ turn'[p].i = turn[p].i /\ turn[p].pc = "appending"
            /\ turn'[p].pc = "storing"
        BY <2>6, AppendProgramIs
      <3> QED BY <1>1, <3>1, NativeKept DEF Before, Working
    <2>7. CASE WriteLine(p)
      <3>1. native' = native
        BY <2>7 DEF WriteLine
      <3>2. CASE turn[p].pc = "staged"
        BY <1>1, <1>2, <2>7, <3>1, <3>2, AfterWrite
      <3>3. CASE turn[p].pc # "staged"
        <4>1. /\ Acts(p) /\ turn'[p].i = turn[p].i /\ turn[p].pc \in {"storing", "bound", "marked"}
              /\ turn'[p].pc \in {"binding", "marking", "sending"}
          BY <2>7, <3>3, AfterWrite
        <4> QED BY <1>1, <3>1, <4>1, NativeKept DEF Before, Working
      <3> QED BY <3>2, <3>3
    <2>8. CASE RememberSections(p)
      BY <1>1, <2>8, NativeStands DEF RememberSections
    <2>9. CASE Bind(p)
      <3>1. /\ Acts(p) /\ turn'[p].i = turn[p].i /\ turn[p].pc = "binding"
            /\ turn'[p].pc \in {"bound", "sending"}
        BY <2>9, BindIs
      <3>2. native' = native
        BY <2>9 DEF Bind
      <3> QED BY <1>1, <3>1, <3>2, NativeKept DEF Before, Working
    <2>10. CASE MarkDispatched(p)
      <3>1. /\ Acts(p) /\ turn'[p].i = turn[p].i /\ turn[p].pc = "marking"
            /\ turn'[p].pc \in {"marked", "sending"}
        BY <2>10, MarkIs
      <3>2. native' = native
        BY <2>10 DEF MarkDispatched
      <3> QED BY <1>1, <3>1, <3>2, NativeKept DEF Before, Working
    <2>11. CASE StopEarly(p)
      <3>1. /\ turn[p].pc = "binding" /\ Acts(p) /\ turn'[p].i = turn[p].i /\ native' = native
            /\ turn'[p].pc = "ending" /\ turn'[p].verdict = "refused_pre_effect"
        BY <2>11, StopIs
      <3>2. NativeHolds(p)'
        <4>1. (\A j \in 1 .. turn[p].i : native[<<p, j>>] = "committed") /\ Unsent(p, turn[p].i)
          BY <3>1 DEF NativeFacts, NativeHolds, Working
        <4> QED BY <3>1, <4>1 DEF NativeHolds, Unsent
      <3> QED BY <1>1, <3>1, <3>2, NativeOthers
    <2>12. CASE Stage(p)
      <3>1. native' = native /\ Acts(p) /\ turn[p].pc = "ending"
        BY <2>12, StageIs DEF Stage
      <3>2. CASE turn'[p].pc = "over"
        BY <1>1, <1>2, <3>1, <3>2
      <3>3. CASE turn'[p].pc # "over"
        <4>1. turn'[p].pc = "staged" /\ turn'[p].i = turn[p].i /\ turn'[p].verdict = turn[p].verdict
          BY <2>12, <3>3, StageIs
        <4>2. turn'[p].n = turn[p].n
          BY <2>12, StageIs
        <4>3. NativeHolds(p)
          BY DEF NativeFacts
        <4>4. NativeHolds(p)'
          BY <3>1, <4>1, <4>2, <4>3 DEF NativeHolds, Unsent, Current, Working
        <4> QED BY <1>1, <3>1, <4>4, NativeOthers
      <3> QED BY <3>2, <3>3
    <2> QED BY <1>3, <2>1, <2>2, <2>3, <2>4, <2>5, <2>6, <2>7, <2>8, <2>9, <2>10, <2>11, <2>12 DEF Turn
  <1>4. ASSUME NEW o \in Operations, Finish(o) PROVE NativeFacts' /\ NativeOnward
    BY <1>4, FinishNative
  <1>5. ASSUME NEW o \in Operations, Reconcile(o) \/ WriteLate(o) PROVE NativeFacts' /\ NativeOnward
    BY <1>1, <1>5, NativeStands DEF Reconcile, WriteLate
  <1>6. CASE Crash
    <2>1. native' = native /\ \A q \in Programs : turn'[q] = turn[q] \/ turn'[q].pc = "over"
      BY <1>6, CrashIs
    <2>2. ASSUME NEW q \in Programs PROVE NativeHolds(q)'
      <3>1. CASE turn'[q].pc = "over"
        BY <3>1 DEF NativeHolds, Before, Working
      <3>2. CASE turn'[q] = turn[q]
        <4>1. NativeHolds(q)
          BY DEF NativeFacts
        <4> QED BY <2>1, <3>2, <4>1 DEF NativeHolds, Unsent, Current
      <3> QED BY <2>1, <3>1, <3>2
    <2>3. NativeFacts'
      BY <2>2 DEF NativeFacts
    <2> QED BY <1>1, <2>1, <2>3
  <1>7. CASE UNCHANGED liveVars
    BY <1>1, <1>7, NativeStands DEF liveVars
  <1> QED BY <1>3, <1>4, <1>5, <1>6, <1>7 DEF LiveNext

LEMMA NativeStart ==
    ASSUME LiveInit
    PROVE  NativeFacts
  <1>1. native = [o \in Operations |-> "unsent"] /\ turn = [p \in Programs |-> NoTurn]
    BY DEF LiveInit
  <1>2. \A p \in Programs, j \in 1 .. MaxChunks : native[<<p, j>>] = "unsent"
    BY <1>1 DEF Operations
  <1>3. NoTurn.pc = "new" /\ NoTurn.i = 0
    BY DEF NoTurn
  <1>4. ASSUME NEW p \in Programs PROVE NativeHolds(p)
    <2>1. turn[p].pc = "new" /\ turn[p].i = 0
      BY <1>1, <1>3
    <2>2. Unsent(p, 0)
      BY <1>2 DEF Unsent
    <2> QED BY <2>1, <2>2 DEF NativeHolds
  <1> QED BY <1>4 DEF NativeFacts

(* -------------------- a number belongs to one turn at work ------------------- *)

\* A turn at work has its session in memory and its number there for itself.
NumberHolds(p) ==
    LET k == turn[p].key
        s == turn[p].seq
    IN Live(p) =>
          /\ mem[k] # NoSession /\ s < mem[k].next
          /\ s \in DOMAIN mem[k].recs => mem[k].recs[s].prog = p
          /\ \A q \in Programs : q # p /\ Live(q) => turn[q].key # k \/ turn[q].seq # s

\* A session that was pushed out comes back with its numbers from the start.
NumberFacts == \A p \in Programs : turn[p].key \notin evicted => NumberHolds(p)

\* The sessions in memory that are not pushed out keep the records they have and no other.
Steady ==
    \A x \in Keys \ evicted' : mem[x] # NoSession =>
        /\ mem'[x] # NoSession /\ mem'[x].next = mem[x].next
        /\ \A s \in DOMAIN mem'[x].recs :
              s \in DOMAIN mem[x].recs /\ mem'[x].recs[s].prog = mem[x].recs[s].prog

\* No turn begins to work.
Followed ==
    \A q \in Programs : Live(q)' =>
        Live(q) /\ turn'[q].key = turn[q].key /\ turn'[q].seq = turn[q].seq

LEMMA SameSteady ==
    ASSUME mem' = mem
    PROVE  Steady
  BY DEF Steady

LEMMA SetSteady ==
    ASSUME Base, lru' = lru, NEW k \in Keys, NEW seq \in DOMAIN mem[k].recs, NEW record \in Records,
           SetRecord(k, seq, record), record.prog = mem[k].recs[seq].prog
    PROVE  Steady
  <1>1. /\ mem'[k] # NoSession
        /\ \A x \in Keys : x # k => mem'[x] = mem[x]
        /\ mem'[k].next = mem[k].next /\ DOMAIN mem'[k].recs = DOMAIN mem[k].recs
        /\ mem'[k].recs[seq] = record
        /\ \A s \in DOMAIN mem[k].recs : s # seq => mem'[k].recs[s] = mem[k].recs[s]
    BY SetRecordIs DEF Base, Types
  <1>2. ASSUME NEW x \in Keys, mem[x] # NoSession
        PROVE  /\ mem'[x] # NoSession /\ mem'[x].next = mem[x].next
               /\ \A s \in DOMAIN mem'[x].recs :
                     s \in DOMAIN mem[x].recs /\ mem'[x].recs[s].prog = mem[x].recs[s].prog
    <2>1. CASE x = k
      BY <1>1, <2>1
    <2>2. CASE x # k
      BY <1>1, <1>2, <2>2
    <2> QED BY <2>1, <2>2
  <1> QED BY <1>2 DEF Steady

LEMMA PutSteady ==
    ASSUME Base, NEW k \in Keys, NEW session \in Sessions, Put(k, session),
           mem[k] # NoSession => session = mem[k]
    PROVE  Steady
  <1>1. mem'[k] = session /\ \A x \in Keys \ {k} : x \notin evicted' => mem'[x] = mem[x]
    BY PutIs DEF Base, Types
  <1>2. session # NoSession
    BY SessionIsOne
  <1>3. \A x \in Keys \ evicted' : mem[x] # NoSession => mem'[x] = mem[x]
    BY <1>1
  <1> QED BY <1>3 DEF Steady

LEMMA ActsFollowed ==
    ASSUME NEW p \in Programs, Acts(p),
           Live(p)' => Live(p) /\ turn'[p].key = turn[p].key /\ turn'[p].seq = turn[p].seq
    PROVE  Followed
  BY DEF Acts, Followed, Live

\* All steps but two leave these sessions in memory and start nobody's work.
LEMMA SteadyStep ==
    ASSUME Base, [LiveNext]_liveVars, \A p \in Programs : ~ AppendProgram(p), ~ Crash
    PROVE  Steady /\ Followed
  <1>1. ASSUME NEW p \in Programs, Turn(p) PROVE Steady /\ Followed
    <2>1. CASE Publish(p)
      <3>1. Acts(p) /\ mem' = mem /\ turn'[p].pc \in {"reading", "appending"}
        BY <2>1, PublishIs
      <3> QED BY <3>1, SameSteady, ActsFollowed DEF Live, Working
    <2>2. CASE ReadStore(p)
      <3>1. Acts(p) /\ mem' = mem /\ turn'[p].pc = "raising"
        BY <2>2, ReadStoreIs
      <3> QED BY <3>1, SameSteady, ActsFollowed DEF Live, Working
    <2>3. CASE Raise(p)
      <3>1. PICK k \in Keys, seen \in RecordMaps :
               /\ Bounded(seen) /\ mem[k] = NoSession
               /\ mem' = mem \/ (seen # << >> /\ Put(k, Restored(seen)))
               /\ Acts(p) /\ turn'[p].pc = "appending"
        BY <2>3, RaiseIs
      <3>2. CASE mem' = mem
        BY <3>1, <3>2, SameSteady, ActsFollowed DEF Live, Working
      <3>3. CASE seen # << >> /\ Put(k, Restored(seen))
        <4>1. Restored(seen) \in Sessions
          BY <3>1, <3>3, RestoredIs DEF Bounded
        <4>2. Steady
          BY <3>1, <3>3, <4>1, PutSteady
        <4> QED BY <3>1, <4>2, ActsFollowed DEF Live, Working
      <3> QED BY <3>1, <3>2, <3>3
    <2>4. CASE WriteLine(p)
      <3>1. mem' = mem
        BY <2>4 DEF WriteLine
      <3>2. Goes(p)
        BY <2>4, AfterWrite DEF Works
      <3> QED BY <3>1, <3>2, SameSteady, ActsFollowed DEF Goes
    <2>5. CASE RememberSections(p)
      <3>1. PICK k \in Keys, session \in Sessions :
               session = (IF mem[k] = NoSession THEN EmptySession ELSE mem[k]) /\ Put(k, session)
        BY <2>5, RememberIs
      <3>2. Steady
        BY <3>1, PutSteady
      <3>3. turn' = turn
        BY <2>5 DEF RememberSections
      <3> QED BY <3>2, <3>3 DEF Followed, Live
    <2>6. CASE Bind(p)
      <3>1. PICK k \in Keys, seq \in Nat :
               /\ k = turn[p].key /\ seq = turn[p].seq /\ Current(p) \in Operations /\ Goes(p)
               /\ \/ /\ CanBind(k, seq, Current(p))
                     /\ SetRecord(k, seq, [mem[k].recs[seq] EXCEPT !.ops = @ \cup {Current(p)}])
                  \/ mem' = mem
        BY <2>6, BindIs
      <3>2. Followed
        BY <3>1, ActsFollowed DEF Goes
      <3>3. CASE mem' = mem
        BY <3>2, <3>3, SameSteady
      <3>4. CASE /\ CanBind(k, seq, Current(p))
                 /\ SetRecord(k, seq, [mem[k].recs[seq] EXCEPT !.ops = @ \cup {Current(p)}])
        <4>1. seq \in DOMAIN mem[k].recs
          BY <3>4 DEF CanBind, InMemory
        <4>2. PICK r \in Records : r = mem[k].recs[seq]
          BY <4>1, MemFields DEF Base, Types
        <4>3. PICK record : record = [r EXCEPT !.ops = @ \cup {Current(p)}]
          OBVIOUS
        <4>4. record \in Records /\ record.prog = r.prog
          BY <3>1, <4>3 DEF Records
        <4>5. lru' = lru
          BY <2>6 DEF Bind
        <4> QED BY <3>2, <3>4, <4>1, <4>2, <4>3, <4>4, <4>5, SetSteady
      <3> QED BY <3>1, <3>3, <3>4
    <2>7. ASSUME NEW stage \in Main \cup Side, NEW k \in Keys, NEW seq \in Nat, lru' = lru,
                 CanAdvance(k, seq, stage), SetRecord(k, seq, [mem[k].recs[seq] EXCEPT !.stage = stage])
          PROVE  Steady
      <3>1. seq \in DOMAIN mem[k].recs
        BY <2>7 DEF CanAdvance, InMemory
      <3>2. PICK r \in Records : r = mem[k].recs[seq]
        BY <3>1, MemFields DEF Base, Types
      <3>3. PICK record : record = [r EXCEPT !.stage = stage]
        OBVIOUS
      <3>4. record \in Records /\ record.prog = r.prog
        BY <3>3 DEF Records
      <3> QED BY <2>7, <3>1, <3>2, <3>3, <3>4, SetSteady
    <2>8. CASE MarkDispatched(p)
      <3>1. PICK stage \in Main \cup Side : stage = "dispatched"
        BY DEF Main
      <3>2. lru' = lru
        BY <2>8 DEF MarkDispatched
      <3>3. Followed
        BY <2>8, MarkIs, ActsFollowed
      <3> QED BY <2>7, <2>8, <3>1, <3>2, <3>3, MarkIs, SameSteady
    <2>9. CASE Stage(p)
      <3>1. lru' = lru
        BY <2>9 DEF Stage
      <3>2. Followed
        BY <2>9, StageIs, ActsFollowed DEF Goes
      <3> QED BY <2>7, <2>9, <3>1, <3>2, StageIs, SameSteady
    <2>10. CASE SendChunk(p)
      BY <2>10, SendIs, SameSteady, ActsFollowed
    <2>11. CASE StopEarly(p)
      BY <2>11, StopIs, SameSteady, ActsFollowed
    <2>12. CASE Answer(p)
      BY <2>12, AnswerIs, SameSteady, ActsFollowed
    <2> QED BY <1>1, <2>1, <2>2, <2>3, <2>4, <2>5, <2>6, <2>8, <2>9, <2>10, <2>11, <2>12 DEF Turn
  <1>2. ASSUME NEW o \in Operations, Finish(o) \/ WriteLate(o) PROVE Steady /\ Followed
    BY <1>2, SameSteady DEF Finish, WriteLate, Followed, Live
  <1>3. ASSUME NEW o \in Operations, Reconcile(o) PROVE Steady /\ Followed
    <2>1. PICK k \in Keys : \E s \in DOMAIN mem[k].recs :
              /\ [mem[k].recs[s] EXCEPT !.stage = "committed", !.late = TRUE] \in Records
              /\ SetRecord(k, s, [mem[k].recs[s] EXCEPT !.stage = "committed", !.late = TRUE])
      BY <1>3, ReconcileIs
    <2>2. PICK s \in DOMAIN mem[k].recs :
              /\ [mem[k].recs[s] EXCEPT !.stage = "committed", !.late = TRUE] \in Records
              /\ SetRecord(k, s, [mem[k].recs[s] EXCEPT !.stage = "committed", !.late = TRUE])
      BY <2>1
    <2>3. PICK r \in Records : r = mem[k].recs[s]
      BY MemFields DEF Base, Types
    <2>4. PICK record : record = [r EXCEPT !.stage = "committed", !.late = TRUE]
      OBVIOUS
    <2>5. record \in Records /\ record.prog = r.prog
      BY <2>2, <2>3, <2>4 DEF Records
    <2>6. lru' = lru /\ turn' = turn
      BY <1>3 DEF Reconcile
    <2>7. Steady
      BY <2>2, <2>3, <2>4, <2>5, <2>6, SetSteady
    <2> QED BY <2>6, <2>7 DEF Followed, Live
  <1>4. CASE UNCHANGED liveVars
    BY <1>4, SameSteady DEF liveVars, Followed, Live
  <1> QED BY <1>1, <1>2, <1>3, <1>4 DEF LiveNext

LEMMA NumberStep ==
    ASSUME Base, Base', NumberFacts, [LiveNext]_liveVars
    PROVE  NumberFacts'
  <1>0. /\ MemType /\ Order /\ Sizes /\ TurnType /\ FlagTypes /\ TurnFacts
        /\ \A q \in Programs : Live(q) => turn[q].key \in Keys /\ turn[q].seq \in Nat
    <2>1. /\ MemType /\ Order /\ Sizes /\ TurnType /\ FlagTypes /\ TurnFacts
      BY DEF Base, Types
    <2>2. \A q \in Programs : Live(q) => Busy(q)
      BY DEF Live, Busy, Working
    <2> QED BY <2>1, <2>2, BusyKey
  <1>e. evicted \in SUBSET evicted'
    BY PastStep DEF Grows
  <1>1. CASE Steady /\ Followed
    <2> SUFFICES ASSUME NEW p \in Programs, Live(p)', turn'[p].key \notin evicted' PROVE NumberHolds(p)'
      BY DEF NumberFacts, NumberHolds
    <2>1. /\ Live(p) /\ turn'[p].key = turn[p].key /\ turn'[p].seq = turn[p].seq
          /\ turn[p].key \notin evicted' /\ turn[p].key \notin evicted
      BY <1>1, <1>e DEF Followed
    <2>2. PICK k \in Keys : k = turn[p].key
      BY <1>0, <2>1
    <2>3. PICK s \in Nat : s = turn[p].seq
      BY <1>0, <2>1
    <2>4. /\ mem[k] # NoSession /\ s < mem[k].next
          /\ s \in DOMAIN mem[k].recs => mem[k].recs[s].prog = p
          /\ \A q \in Programs : q # p /\ Live(q) => turn[q].key # k \/ turn[q].seq # s
      BY <2>1, <2>2, <2>3 DEF NumberFacts, NumberHolds
    <2>5. /\ mem'[k] # NoSession /\ mem'[k].next = mem[k].next
          /\ \A t \in DOMAIN mem'[k].recs :
                t \in DOMAIN mem[k].recs /\ mem'[k].recs[t].prog = mem[k].recs[t].prog
      BY <1>1, <2>1, <2>2, <2>4 DEF Steady
    <2>6. \A q \in Programs : q # p /\ Live(q)' => turn'[q].key # k \/ turn'[q].seq # s
      BY <1>1, <2>4 DEF Followed
    <2> QED BY <2>1, <2>2, <2>3, <2>4, <2>5, <2>6 DEF NumberHolds, Live
  <1>2. ASSUME NEW p \in Programs, AppendProgram(p) PROVE NumberFacts'
    <2>1. PICK k \in Keys, session \in Sessions, seq \in Nat :
              /\ k = turn[p].key /\ turn[p].pc = "appending" /\ Busy(p) /\ k \in tried
              /\ seq = (IF mem[k] = NoSession THEN 0 ELSE mem[k].next)
              /\ \A s \in DOMAIN mem[k].recs : s < seq
              /\ Put(k, session) /\ session.next = seq + 1
              /\ Cardinality(DOMAIN session.recs) <= MaxPrograms
              /\ \A s \in DOMAIN session.recs :
                    \/ s = seq /\ session.recs[s] = NewRecord(p)
                    \/ s \in DOMAIN mem[k].recs /\ session.recs[s] = mem[k].recs[s]
              /\ TurnType' /\ Acts(p)
              /\ turn'[p].pc = "storing" /\ turn'[p].seq = seq
              /\ turn'[p].line = Line("program", k, seq, p)
              /\ turn'[p].key = k
      BY <1>2, AppendProgramIs
    <2>2. mem'[k] = session /\ \A x \in Keys \ {k} : x \notin evicted' => mem'[x] = mem[x]
      BY <1>0, <2>1, PutIs
    <2>3. session # NoSession
      BY SessionIsOne
    <2>4. DOMAIN mem[k].recs \in SUBSET Nat
      BY <1>0, MemFields
    <2>5. ASSUME NEW q \in Programs, q # p, Live(q)'
          PROVE  /\ Live(q) /\ turn'[q] = turn[q] /\ turn[q].key \in Keys /\ turn[q].seq \in Nat
                 /\ turn[q].key = k /\ k \notin evicted => mem[k] # NoSession /\ turn[q].seq < seq
      <3>1. Live(q) /\ turn'[q] = turn[q]
        BY <2>1, <2>5 DEF Acts, Live
      <3>2. turn[q].key = k /\ k \notin evicted => mem[k] # NoSession /\ turn[q].seq < mem[k].next
        BY <3>1 DEF NumberFacts, NumberHolds
      <3> QED BY <1>0, <2>1, <3>1, <3>2
    <2>6. ASSUME k \notin evicted' PROVE NumberHolds(p)'
      <3>1. mem'[k] # NoSession /\ seq < mem'[k].next
        BY <2>1, <2>2, <2>3
      <3>2. seq \in DOMAIN session.recs => session.recs[seq].prog = p
        <4>1. seq \notin DOMAIN mem[k].recs
          BY <2>1, <2>4
        <4> QED BY <2>1, <4>1 DEF NewRecord
      <3>3. \A q \in Programs : q # p /\ Live(q)' => turn'[q].key # k \/ turn'[q].seq # seq
        <4> SUFFICES ASSUME NEW q \in Programs, q # p, Live(q)' PROVE turn'[q].key # k \/ turn'[q].seq # seq
          OBVIOUS
        <4>1. turn'[q] = turn[q] /\ turn[q].seq \in Nat /\ (turn[q].key = k => turn[q].seq < seq)
          BY <1>e, <2>5, <2>6
        <4> QED BY <4>1
      <3> QED BY <2>1, <2>2, <3>1, <3>2, <3>3 DEF NumberHolds, Live
    <2>7. ASSUME NEW q \in Programs, q # p, Live(q)', turn'[q].key \notin evicted' PROVE NumberHolds(q)'
      <3>0. turn'[q] = turn[q] /\ turn[q].key \notin evicted' /\ turn[q].key \notin evicted
        BY <1>e, <2>5, <2>7
      <3>1. /\ Live(q) /\ turn'[q] = turn[q]
            /\ turn[q].key = k => mem[k] # NoSession /\ turn[q].seq < seq
        BY <2>5, <2>7, <3>0
      <3>2. PICK x \in Keys : x = turn[q].key
        BY <2>5, <2>7
      <3>3. PICK s \in Nat : s = turn[q].seq
        BY <2>5, <2>7
      <3>4. /\ mem[x] # NoSession /\ s < mem[x].next
            /\ s \in DOMAIN mem[x].recs => mem[x].recs[s].prog = q
            /\ \A y \in Programs : y # q /\ Live(y) => turn[y].key # x \/ turn[y].seq # s
        BY <3>0, <3>1, <3>2, <3>3 DEF NumberFacts, NumberHolds
      <3>5. mem'[x] # NoSession /\ s < mem'[x].next /\ (s \in DOMAIN mem'[x].recs => mem'[x].recs[s].prog = q)
        <4>1. CASE x = k
          <5>1. s < seq /\ s # seq
            BY <3>1, <3>2, <3>3, <4>1
          <5> QED BY <2>1, <2>2, <2>3, <3>4, <4>1, <5>1
        <4>2. CASE x # k
          BY <2>2, <3>0, <3>2, <3>4, <4>2
        <4> QED BY <4>1, <4>2
      <3>6. ASSUME NEW y \in Programs, y # q, Live(y)' PROVE turn'[y].key # x \/ turn'[y].seq # s
        <4>1. CASE y = p
          BY <2>1, <3>1, <3>2, <3>3, <4>1
        <4>2. CASE y # p
          BY <2>5, <3>4, <3>6, <4>2
        <4> QED BY <4>1, <4>2
      <3> QED BY <3>1, <3>2, <3>3, <3>5, <3>6 DEF NumberHolds, Live
    <2> QED BY <2>1, <2>6, <2>7 DEF NumberFacts, NumberHolds
  <1>3. CASE Crash
    <2>1. \A q \in Programs : turn'[q].pc \in {"new", "over"}
      BY <1>3, CrashIs
    <2> QED BY <2>1 DEF NumberFacts, NumberHolds, Live, Working
  <1> QED BY <1>1, <1>2, <1>3, SteadyStep

(* ------------------------ what a stage may say of Revit ---------------------- *)

\* The operations a program is sent as.
Parts(q) == {<<q, i>> : i \in 1 .. turn[q].n}

\* A stage says nothing Revit contradicts, and an end is said by a turn that has one.
Truth(r) ==
    /\ r.stage \in Built => \A o \in IF r.late THEN r.ops ELSE Parts(r.prog) : native[o] = "committed"
    /\ r.late => r.ops # {} /\ r.stage \in Built
    /\ r.stage \in {"refused_pre_effect", "rolled_back"} =>
          \A o \in Parts(r.prog) : native[o] \in {"unsent", "rolled_back"}
    /\ r.stage = "committed_partial" => \E o \in Parts(r.prog) : native[o] = "committed"
    /\ r.stage \in EndStages => turn[r.prog].pc \in {"staged", "over"}

MemTruth == \A k \in Keys \ evicted : \A s \in DOMAIN mem[k].recs : Truth(mem[k].recs[s])

SeenTruth ==
    \A p \in Programs : turn[p].pc = "raising" /\ turn[p].key \notin evicted =>
        \A s \in DOMAIN turn[p].seen : Truth(turn[p].seen[s])

LEMMA PartsIs ==
    ASSUME TurnType, NEW q \in Programs
    PROVE  Parts(q) \in SUBSET Operations /\ \A o \in Parts(q) : o[1] = q
  <1>1. turn[q].n \in 1 .. MaxChunks /\ MaxChunks \in Nat /\ turn[q].n \in Nat
    BY TurnFields, LimitsAssumption DEF TurnType
  <1>2. ASSUME NEW i \in 1 .. turn[q].n PROVE <<q, i>> \in Operations /\ <<q, i>>[1] = q
    BY <1>1 DEF Operations
  <1> QED BY <1>2 DEF Parts

LEMMA TruthStays ==
    ASSUME TurnType, Onward, Closed, NativeOnward,
           NEW r \in Records, turn[r.prog].pc \in Working \cup {"over"}, Truth(r)
    PROVE  Truth(r)'
  <1>1. PICK q \in Programs : q = r.prog
    BY DEF Records
  <1>2. turn'[q].n = turn[q].n
    BY <1>1 DEF Onward
  <1>3. PICK S : S = Parts(q)
    OBVIOUS
  <1>4. Parts(q)' = S /\ S \in SUBSET Operations /\ \A o \in S : o[1] = q
    BY <1>2, <1>3, PartsIs DEF Parts
  <1>5. r.ops \in SUBSET Operations
    BY DEF Records
  <1>6. \A o \in Operations : native[o] \in {"committed", "rolled_back"} => native'[o] = native[o]
    BY DEF NativeOnward
  <1>7. r.stage \in EndStages => turn[q].pc \in {"staged", "over"} /\ turn'[q].pc \in {"staged", "over"}
    BY <1>1 DEF Truth, Closed
  <1>8. r.stage \in {"refused_pre_effect", "rolled_back"} => \A o \in S : native'[o] \in {"unsent", "rolled_back"}
    <2> SUFFICES ASSUME r.stage \in {"refused_pre_effect", "rolled_back"}, NEW o \in S
                 PROVE  native'[o] \in {"unsent", "rolled_back"}
      OBVIOUS
    <2>1. native[o] \in {"unsent", "rolled_back"} /\ turn[q].pc \in {"staged", "over"}
      BY <1>1, <1>3, <1>7 DEF Truth, EndStages, Side
    <2>2. o \in Operations /\ o[1] = q
      BY <1>4
    <2> QED BY <2>1, <2>2 DEF NativeOnward
  <1>9. r.stage \in Built => \A o \in IF r.late THEN r.ops ELSE S : native'[o] = "committed"
    BY <1>1, <1>3, <1>4, <1>5, <1>6 DEF Truth
  <1>10. r.stage = "committed_partial" => \E o \in S : native'[o] = "committed"
    BY <1>1, <1>3, <1>4, <1>6 DEF Truth
  <1>11. r.late => r.ops # {} /\ r.stage \in Built
    BY DEF Truth
  <1> QED BY <1>1, <1>4, <1>7, <1>8, <1>9, <1>10, <1>11 DEF Truth

\* Which stages do not end a record.
LEMMA EndedIs ==
    /\ \A stage \in {"planned", "grounded", "dispatched"} : stage \notin EndStages /\ stage \notin Built /\ stage \notin Side
    /\ \A stage \in Main \cup Side : stage \in EndStages \/ stage \in {"planned", "grounded", "dispatched"}
    /\ \A stage \in Main \cup Side : Forward(stage, "dispatched") => stage \notin EndStages
    /\ Built \in SUBSET EndStages /\ Side \in SUBSET EndStages
  BY DEF EndStages, Main, Side, Built, Forward, Rank

\* A record that has no end says nothing.
LEMMA UnendedTrue ==
    ASSUME NEW r \in Records, r.stage \notin EndStages, ~ r.late
    PROVE  Truth(r)
  BY DEF Truth, EndStages, Built, Side

LEMMA UnendedIsNotLate ==
    ASSUME NEW r \in Records, Truth(r), r.stage \notin EndStages
    PROVE  ~ r.late
  BY DEF Truth, EndStages

\* The stage a turn ends in is what Revit did.
LEMMA FinalTruth ==
    ASSUME Base, NativeFacts, NEW p \in Programs, turn[p].pc \in {"ending", "staged"}
    PROVE  /\ FinalStage(p) \in {"committed"} \cup Side
           /\ FinalStage(p) = "committed" => \A o \in Parts(p) : native[o] = "committed"
           /\ FinalStage(p) \in {"refused_pre_effect", "rolled_back"} =>
                 \A o \in Parts(p) : native[o] \in {"unsent", "rolled_back"}
           /\ FinalStage(p) = "committed_partial" => \E o \in Parts(p) : native[o] = "committed"
  <1>1. TurnType /\ TurnHolds(p) /\ NativeHolds(p)
    BY DEF Base, Types, TurnFacts, NativeFacts
  <1>2. /\ turn[p].i \in Nat /\ turn[p].n \in Nat /\ turn[p].n \in 1 .. MaxChunks /\ MaxChunks \in Nat
        /\ turn[p].verdict \in Failed \cup {"rejected", None}
    BY <1>1, TurnFields, LimitsAssumption DEF TurnType
  <1>3. /\ turn[p].i <= turn[p].n
        /\ turn[p].i = 0 => turn[p].verdict \in Failed
        /\ turn[p].verdict = None => turn[p].i = turn[p].n
    BY <1>1 DEF TurnHolds
  <1>4. /\ \A j \in 1 .. turn[p].i : native[<<p, j>>] = "committed"
        /\ turn[p].verdict = "refused_pre_effect" => Unsent(p, turn[p].i)
        /\ turn[p].verdict = "rolled_back" =>
              turn[p].i < turn[p].n /\ native[Current(p)] = "rolled_back" /\ Unsent(p, turn[p].i + 1)
    BY <1>1 DEF NativeHolds, Working
  <1>5. FinalStage(p) = IF turn[p].i = 0 THEN turn[p].verdict
                        ELSE IF turn[p].n > 1 /\ turn[p].verdict # None THEN "committed_partial" ELSE "committed"
    BY <1>2 DEF FinalStage
  <1>6. CASE turn[p].i = 0
    <2>1. FinalStage(p) = turn[p].verdict /\ turn[p].verdict \in Failed
      BY <1>3, <1>5, <1>6
    <2>2. CASE turn[p].verdict = "refused_pre_effect"
      <3>1. \A j \in 1 .. MaxChunks : native[<<p, j>>] = "unsent"
        BY <1>4, <1>6, <2>2 DEF Unsent
      <3>2. \A o \in Parts(p) : native[o] = "unsent"
        BY <1>2, <3>1 DEF Parts
      <3> QED BY <2>1, <2>2, <3>2 DEF Side
    <2>3. CASE turn[p].verdict = "rolled_back"
      <3>1. native[<<p, 1>>] = "rolled_back" /\ \A j \in 2 .. MaxChunks : native[<<p, j>>] = "unsent"
        BY <1>4, <1>6, <2>3 DEF Unsent, Current
      <3>2. \A j \in 1 .. turn[p].n : native[<<p, j>>] \in {"unsent", "rolled_back"}
        BY <1>2, <3>1
      <3>3. \A o \in Parts(p) : native[o] \in {"unsent", "rolled_back"}
        BY <3>2 DEF Parts
      <3> QED BY <2>1, <2>3, <3>3 DEF Side
    <2>4. CASE turn[p].verdict = "running_unknown"
      BY <2>1, <2>4 DEF Side
    <2> QED BY <2>1, <2>2, <2>3, <2>4 DEF Failed
  <1>7. CASE turn[p].i # 0 /\ turn[p].n > 1 /\ turn[p].verdict # None
    <2>1. 1 \in 1 .. turn[p].i /\ 1 \in 1 .. turn[p].n
      BY <1>2, <1>7
    <2>2. <<p, 1>> \in Parts(p) /\ native[<<p, 1>>] = "committed"
      BY <1>4, <2>1 DEF Parts
    <2> QED BY <1>5, <1>7, <2>2 DEF Side
  <1>8. CASE turn[p].i # 0 /\ ~ (turn[p].n > 1 /\ turn[p].verdict # None)
    <2>1. turn[p].i = turn[p].n
      BY <1>2, <1>3, <1>8
    <2>2. \A o \in Parts(p) : native[o] = "committed"
      BY <1>4, <2>1 DEF Parts
    <2> QED BY <1>5, <1>8, <2>2
  <1> QED BY <1>6, <1>7, <1>8

\* A record moved to the stage its turn ends in.
LEMMA FinalRecord ==
    ASSUME Base, NativeFacts, NEW p \in Programs, turn[p].pc \in {"ending", "staged"},
           NEW r \in Records, r.prog = p, Truth(r), Forward(r.stage, FinalStage(p)),
           turn'[p].n = turn[p].n, native' = native, turn'[p].pc \in {"staged", "over"},
           NEW record, record = [r EXCEPT !.stage = FinalStage(p)]
    PROVE  record \in Records /\ Truth(record)'
  <1>1. /\ FinalStage(p) \in {"committed"} \cup Side
        /\ FinalStage(p) = "committed" => \A o \in Parts(p) : native[o] = "committed"
        /\ FinalStage(p) \in {"refused_pre_effect", "rolled_back"} =>
              \A o \in Parts(p) : native[o] \in {"unsent", "rolled_back"}
        /\ FinalStage(p) = "committed_partial" => \E o \in Parts(p) : native[o] = "committed"
    BY FinalTruth
  <1>2. PICK stage \in {"committed"} \cup Side : stage = FinalStage(p)
    BY <1>1
  <1>3. record \in Records /\ record.prog = p /\ record.stage = stage /\ record.late = r.late /\ record.ops = r.ops
    BY <1>2 DEF Records, Main
  <1>4. r.stage \notin EndStages
    <2>1. r.stage \in Main \cup Side
      BY DEF Records
    <2> QED BY <1>2, <2>1 DEF Forward, EndStages, Main, Side, Built, Rank
  <1>5. ~ record.late
    BY <1>3, <1>4, UnendedIsNotLate
  <1>6. Parts(p)' = Parts(p)
    BY DEF Parts
  <1>7. stage = "committed" <=> stage \in Built
    BY <1>2 DEF Built, Side
  <1> QED BY <1>1, <1>2, <1>3, <1>5, <1>6, <1>7 DEF Truth

\* A record that takes one more operation of a turn still at work.
LEMMA BoundRecord ==
    ASSUME NEW r \in Records, NEW o \in Operations, Truth(r), turn[r.prog].pc \notin {"staged", "over"},
           NEW record, record = [r EXCEPT !.ops = @ \cup {o}]
    PROVE  record \in Records /\ record.prog = r.prog /\ Truth(record)'
  <1>1. record \in Records /\ record.prog = r.prog /\ record.stage = r.stage /\ record.late = r.late
    BY DEF Records
  <1>2. r.stage \notin EndStages
    BY DEF Truth
  <1>3. ~ record.late
    BY <1>1, <1>2, UnendedIsNotLate
  <1> QED BY <1>1, <1>2, <1>3 DEF Truth, EndStages, Built, Side

\* A record marked as dispatched.
LEMMA MarkedRecord ==
    ASSUME NEW r \in Records, Truth(r), Forward(r.stage, "dispatched"),
           NEW record, record = [r EXCEPT !.stage = "dispatched"]
    PROVE  record \in Records /\ record.prog = r.prog /\ Truth(record)'
  <1>1. record \in Records /\ record.prog = r.prog /\ record.stage = "dispatched" /\ record.late = r.late
    BY DEF Records, Main
  <1>2. r.stage \notin EndStages
    BY EndedIs DEF Records
  <1>3. ~ record.late
    BY <1>1, <1>2, UnendedIsNotLate
  <1> QED BY <1>1, <1>3 DEF Truth, EndStages, Built, Side

\* A record a late receipt speaks for.
LEMMA LateRecord ==
    ASSUME NEW r \in Records, NEW o \in Operations, Truth(r), r.stage = "running_unknown", r.ops = {o},
           native[o] = "committed", native' = native, turn' = turn,
           NEW record, record = [r EXCEPT !.stage = "committed", !.late = TRUE]
    PROVE  record \in Records /\ record.prog = r.prog /\ Truth(record)'
  <1>1. /\ record \in Records /\ record.prog = r.prog /\ record.stage = "committed"
        /\ record.late = TRUE /\ record.ops = {o}
    BY DEF Records, Main
  <1>2. turn[r.prog].pc \in {"staged", "over"}
    BY DEF Truth, EndStages, Side
  <1> QED BY <1>1, <1>2 DEF Truth, Built, EndStages, Side

(* --------------------------- the records in memory --------------------------- *)

\* The records as they were are as true as they were.
LEMMA OldTruth ==
    ASSUME Base, NativeFacts, MemTruth, [LiveNext]_liveVars,
           NEW k \in Keys \ evicted, NEW s \in DOMAIN mem[k].recs
    PROVE  \E r \in Records : r = mem[k].recs[s] /\ Truth(r)'
  <1>1. PICK r \in Records : r = mem[k].recs[s]
    BY MemFields DEF Base, Types
  <1>2. MemHolds(k, s, r)
    BY <1>1 DEF Base, MemFacts
  <1>3. Truth(r) /\ turn[r.prog].pc \in Working \cup {"over"}
    BY <1>1, <1>2 DEF MemTruth, MemHolds
  <1>4. TurnType /\ Onward /\ Closed /\ NativeOnward
    BY OnwardStep, NativeStep DEF Base, Types
  <1> QED BY <1>1, <1>3, <1>4, TruthStays

\* Every record of a step is an old one or one known to be true.
LEMMA MemTruthFrom ==
    ASSUME Base, NativeFacts, MemTruth, [LiveNext]_liveVars,
           \A k \in Keys \ evicted' : \A s \in DOMAIN mem'[k].recs :
               \/ s \in DOMAIN mem[k].recs /\ mem'[k].recs[s] = mem[k].recs[s]
               \/ \E r \in Records : r = mem'[k].recs[s] /\ Truth(r)'
    PROVE  MemTruth'
  <1> SUFFICES ASSUME NEW k \in Keys \ evicted', NEW s \in DOMAIN mem'[k].recs
               PROVE  Truth(mem[k].recs[s])'
    BY DEF MemTruth
  <1>0. k \in Keys \ evicted
    BY PastStep DEF Grows
  <1>1. PICK r \in Records : r = mem'[k].recs[s] /\ Truth(r)'
    <2>1. CASE s \in DOMAIN mem[k].recs /\ mem'[k].recs[s] = mem[k].recs[s]
      <3>1. PICK r \in Records : r = mem[k].recs[s] /\ Truth(r)'
        BY <1>0, <2>1, OldTruth
      <3> QED BY <2>1, <3>1
    <2>2. CASE \E r \in Records : r = mem'[k].recs[s] /\ Truth(r)'
      BY <2>2
    <2> QED BY <2>1, <2>2
  <1>2. PICK q : q = mem'[k].recs[s]
    OBVIOUS
  <1>3. Truth(q)'
    BY <1>1, <1>2
  <1> QED BY <1>2, <1>3 DEF Truth, Parts

\* A step in a session that was pushed out says nothing of the others.
LEMMA MemTruthAway ==
    ASSUME Base, NativeFacts, MemTruth, [LiveNext]_liveVars, NEW k \in Keys, k \in evicted',
           \/ \E session \in Sessions : Put(k, session)
           \/ \E seq, record : SetRecord(k, seq, record)
    PROVE  MemTruth'
  <1>1. MemType /\ Order
    BY DEF Base, Types
  <1>2. ASSUME NEW seq, NEW record, SetRecord(k, seq, record), NEW x \in Keys, x # k PROVE mem'[x] = mem[x]
    BY <1>1, <1>2 DEF SetRecord, MemType
  <1>3. \A x \in Keys \ evicted' : x # k => mem'[x] = mem[x]
    BY <1>1, <1>2, PutIs
  <1>4. \A x \in Keys \ evicted' : mem'[x] = mem[x]
    BY <1>3
  <1> QED BY <1>4, MemTruthFrom

LEMMA MemTruthSet ==
    ASSUME Base, NativeFacts, MemTruth, [LiveNext]_liveVars, lru' = lru,
           NEW k \in Keys, NEW seq \in DOMAIN mem[k].recs, NEW record \in Records,
           SetRecord(k, seq, record), Truth(record)'
    PROVE  MemTruth'
  <1>1. /\ \A x \in Keys : x # k => mem'[x] = mem[x]
        /\ DOMAIN mem'[k].recs = DOMAIN mem[k].recs
        /\ mem'[k].recs[seq] = record
        /\ \A s \in DOMAIN mem[k].recs : s # seq => mem'[k].recs[s] = mem[k].recs[s]
    BY SetRecordIs DEF Base, Types
  <1>2. ASSUME NEW x \in Keys \ evicted', NEW s \in DOMAIN mem'[x].recs
        PROVE  \/ s \in DOMAIN mem[x].recs /\ mem'[x].recs[s] = mem[x].recs[s]
               \/ \E r \in Records : r = mem'[x].recs[s] /\ Truth(r)'
    <2>1. CASE x # k
      BY <1>1, <1>2, <2>1
    <2>2. CASE x = k /\ s # seq
      BY <1>1, <1>2, <2>2
    <2>3. CASE x = k /\ s = seq
      BY <1>1, <2>3
    <2> QED BY <2>1, <2>2, <2>3
  <1> QED BY <1>2, MemTruthFrom

LEMMA MemTruthPut ==
    ASSUME Base, NativeFacts, MemTruth, [LiveNext]_liveVars,
           NEW k \in Keys, NEW session \in Sessions, Put(k, session),
           \A s \in DOMAIN session.recs :
               \/ s \in DOMAIN mem[k].recs /\ session.recs[s] = mem[k].recs[s]
               \/ \E r \in Records : r = session.recs[s] /\ Truth(r)'
    PROVE  MemTruth'
  <1>1. mem'[k] = session /\ \A x \in Keys \ {k} : mem'[x] = mem[x] \/ mem'[x] = NoSession
    BY PutIs DEF Base, Types
  <1>2. DOMAIN NoSession.recs = {}
    BY EmptyMap DEF NoSession
  <1>3. ASSUME NEW x \in Keys \ evicted', NEW s \in DOMAIN mem'[x].recs
        PROVE  \/ s \in DOMAIN mem[x].recs /\ mem'[x].recs[s] = mem[x].recs[s]
               \/ \E r \in Records : r = mem'[x].recs[s] /\ Truth(r)'
    <2>1. CASE x = k
      BY <1>1, <1>3, <2>1
    <2>2. CASE x # k
      BY <1>1, <1>2, <1>3, <2>2
    <2> QED BY <2>1, <2>2
  <1> QED BY <1>3, MemTruthFrom

\* A record that comes back: what was in flight has an unknown end.
LEMMA RestoredRecord ==
    ASSUME NEW r \in Records, Truth(r)', turn'[r.prog].pc = "over",
           NEW record, record = [r EXCEPT !.stage = RestoredStage(@)]
    PROVE  record \in Records /\ record.prog = r.prog /\ Truth(record)'
  <1>1. CASE r.stage = "dispatched"
    <2>1. record \in Records /\ record.prog = r.prog /\ record.stage = "running_unknown" /\ record.late = r.late
      BY <1>1 DEF Records, RestoredStage, Side
    <2>2. ~ record.late
      BY <1>1, <2>1 DEF Truth, Built
    <2> QED BY <2>1, <2>2 DEF Truth, Built
  <1>2. CASE r.stage # "dispatched"
    <2>1. record = r
      BY <1>2 DEF Records, RestoredStage
    <2> QED BY <2>1
  <1> QED BY <1>1, <1>2

LEMMA MemTruthStep ==
    ASSUME Base, NativeFacts, NumberFacts, MemTruth, SeenTruth, [LiveNext]_liveVars
    PROVE  MemTruth'
  <1>0. /\ MemType /\ TurnType /\ Onward /\ Closed /\ NativeOnward
        /\ mem' = mem => MemTruth'
        /\ evicted \in SUBSET evicted'
    <2>1. MemType /\ TurnType /\ Onward /\ Closed /\ NativeOnward
      BY OnwardStep, NativeStep DEF Base, Types
    <2>2. mem' = mem => MemTruth'
      BY MemTruthFrom
    <2>3. evicted \in SUBSET evicted'
      BY PastStep DEF Grows
    <2> QED BY <2>1, <2>2, <2>3
  <1>1. ASSUME NEW p \in Programs, Turn(p) PROVE MemTruth'
    <2>1. CASE Publish(p)
      BY <1>0, <2>1 DEF Publish
    <2>2. CASE ReadStore(p)
      BY <1>0, <2>2 DEF ReadStore
    <2>3. CASE Raise(p)
      <3>1. PICK k \in Keys, seen \in RecordMaps :
               /\ k = turn[p].key /\ seen = turn[p].seen /\ Bounded(seen)
               /\ turn[p].pc = "raising"
               /\ \/ mem' = mem
                  \/ seen # << >> /\ Put(k, Restored(seen))
        BY <2>3, RaiseIs
      <3>2. CASE mem' = mem
        BY <1>0, <3>2
      <3>3. ASSUME seen # << >> /\ Put(k, Restored(seen)), k \in evicted' PROVE MemTruth'
        <4>1. Restored(seen) \in Sessions
          BY <3>1, <3>3, RestoredIs DEF Bounded
        <4> QED BY <3>3, <4>1, MemTruthAway
      <3>4. ASSUME seen # << >> /\ Put(k, Restored(seen)), k \notin evicted' PROVE MemTruth'
        <4>1. PICK session \in Sessions :
                 /\ session = Restored(seen)
                 /\ \A s \in DOMAIN session.recs :
                       s \in DOMAIN seen /\ session.recs[s] = [seen[s] EXCEPT !.stage = RestoredStage(@)]
          BY <3>1, <3>4, RestoredIs DEF Bounded
        <4>2. ASSUME NEW s \in DOMAIN session.recs
              PROVE  \E r \in Records : r = session.recs[s] /\ Truth(r)'
          <5>1. PICK r \in Records : r = seen[s]
            BY <4>1, <4>2, MapElements
          <5>2. Truth(r) /\ turn[r.prog].pc = "over"
            <6>1. SeenHolds(p)
              BY DEF Base, SeenFacts
            <6> QED BY <1>0, <3>1, <3>4, <4>1, <4>2, <5>1, <6>1 DEF SeenTruth, SeenHolds
          <5>3. Truth(r)'
            BY <1>0, <5>2, TruthStays
          <5>4. turn'[r.prog].pc = "over"
            <6>1. r.prog \in Programs /\ Acts(p)
              BY <2>3, RaiseIs DEF Records
            <6>2. r.prog # p
              BY <3>1, <5>2
            <6> QED BY <5>2, <6>1, <6>2 DEF Acts
          <5>5. PICK record : record = [r EXCEPT !.stage = RestoredStage(@)]
            OBVIOUS
          <5>6. record \in Records /\ Truth(record)'
            BY <5>3, <5>4, <5>5, RestoredRecord
          <5> QED BY <4>1, <4>2, <5>1, <5>5, <5>6
        <4> QED BY <3>4, <4>1, <4>2, MemTruthPut
      <3> QED BY <3>1, <3>2, <3>3, <3>4
    <2>4. CASE AppendProgram(p)
      <3>1. PICK k \in Keys, session \in Sessions, seq \in Nat :
               /\ k = turn[p].key
               /\ seq = (IF mem[k] = NoSession THEN 0 ELSE mem[k].next)
               /\ Put(k, session)
               /\ \A s \in DOMAIN session.recs :
                     \/ s = seq /\ session.recs[s] = NewRecord(p)
                     \/ s \in DOMAIN mem[k].recs /\ session.recs[s] = mem[k].recs[s]
        BY <2>4, AppendProgramIs
      <3>n. NewRecord(p) \in Records
        BY DEF NewRecord, Records, Main
      <3>2. PICK new \in Records : new = NewRecord(p) /\ new.stage = "planned" /\ new.late = FALSE
        BY <3>n DEF NewRecord
      <3>3. Truth(new)'
        BY <3>2 DEF Truth, EndStages, Built, Side
      <3> QED BY <3>1, <3>2, <3>3, MemTruthPut
    <2>5. CASE WriteLine(p)
      BY <1>0, <2>5 DEF WriteLine
    <2>6. CASE RememberSections(p)
      <3>1. PICK k \in Keys, session \in Sessions : Put(k, session) /\ session.recs = mem[k].recs
        BY <2>6, RememberIs
      <3> QED BY <3>1, MemTruthPut
    <2>7. CASE Bind(p)
      <3>1. PICK k \in Keys, seq \in Nat, o \in Operations :
               /\ k = turn[p].key /\ seq = turn[p].seq /\ o = Current(p) /\ Live(p)
               /\ turn[p].pc = "binding"
               /\ \/ /\ CanBind(k, seq, o)
                     /\ SetRecord(k, seq, [mem[k].recs[seq] EXCEPT !.ops = @ \cup {o}])
                     /\ turn'[p].pc = "bound"
                  \/ mem' = mem
        BY <2>7, BindIs
      <3>2. CASE mem' = mem
        BY <1>0, <3>2
      <3>3. CASE /\ CanBind(k, seq, o)
                 /\ SetRecord(k, seq, [mem[k].recs[seq] EXCEPT !.ops = @ \cup {o}])
                 /\ turn'[p].pc = "bound"
        <4>e. CASE k \in evicted'
          BY <3>3, <4>e, MemTruthAway
        <4>n. CASE k \notin evicted'
          <5>1. seq \in DOMAIN mem[k].recs
            BY <3>3 DEF CanBind, InMemory
          <5>2. PICK r \in Records : r = mem[k].recs[seq]
            BY <1>0, <5>1, MemFields
          <5>3. r.prog = p /\ Truth(r)
            BY <1>0, <3>1, <4>n, <5>1, <5>2 DEF NumberFacts, NumberHolds, MemTruth
          <5>4. PICK record : record = [r EXCEPT !.ops = @ \cup {o}]
            OBVIOUS
          <5>5. turn[r.prog].pc \notin {"staged", "over"}
            BY <3>1, <5>3
          <5>6. record \in Records /\ Truth(record)'
            BY <5>3, <5>4, <5>5, BoundRecord
          <5>7. lru' = lru
            BY <2>7 DEF Bind
          <5> QED BY <3>3, <5>1, <5>2, <5>4, <5>6, <5>7, MemTruthSet
        <4> QED BY <4>e, <4>n
      <3> QED BY <3>1, <3>2, <3>3
    <2>8. CASE MarkDispatched(p)
      <3>1. PICK k \in Keys, seq \in Nat :
               \/ /\ CanAdvance(k, seq, "dispatched")
                  /\ SetRecord(k, seq, [mem[k].recs[seq] EXCEPT !.stage = "dispatched"])
               \/ mem' = mem
        BY <2>8, MarkIs
      <3>2. CASE mem' = mem
        BY <1>0, <3>2
      <3>3. CASE /\ CanAdvance(k, seq, "dispatched")
                 /\ SetRecord(k, seq, [mem[k].recs[seq] EXCEPT !.stage = "dispatched"])
        <4>e. CASE k \in evicted'
          BY <3>3, <4>e, MemTruthAway
        <4>n. CASE k \notin evicted'
          <5>1. seq \in DOMAIN mem[k].recs
            BY <3>3 DEF CanAdvance, InMemory
          <5>2. PICK r \in Records : r = mem[k].recs[seq]
            BY <1>0, <5>1, MemFields
          <5>3. Truth(r) /\ Forward(r.stage, "dispatched")
            BY <1>0, <3>3, <4>n, <5>1, <5>2 DEF MemTruth, CanAdvance
          <5>4. PICK record : record = [r EXCEPT !.stage = "dispatched"]
            OBVIOUS
          <5>5. record \in Records /\ Truth(record)'
            BY <5>3, <5>4, MarkedRecord
          <5>6. lru' = lru
            BY <2>8 DEF MarkDispatched
          <5> QED BY <3>3, <5>1, <5>2, <5>4, <5>5, <5>6, MemTruthSet
        <4> QED BY <4>e, <4>n
      <3> QED BY <3>1, <3>2, <3>3
    <2>9. CASE Stage(p)
      <3>1. PICK k \in Keys, seq \in Nat :
               /\ k = turn[p].key /\ seq = turn[p].seq /\ Live(p) /\ turn[p].pc = "ending"
               /\ turn'[p].n = turn[p].n
               /\ \/ /\ CanAdvance(k, seq, FinalStage(p))
                     /\ SetRecord(k, seq, [mem[k].recs[seq] EXCEPT !.stage = FinalStage(p)])
                     /\ turn'[p].pc = "staged"
                  \/ mem' = mem
        BY <2>9, StageIs
      <3>2. CASE mem' = mem
        BY <1>0, <3>2
      <3>3. CASE /\ CanAdvance(k, seq, FinalStage(p))
                 /\ SetRecord(k, seq, [mem[k].recs[seq] EXCEPT !.stage = FinalStage(p)])
                 /\ turn'[p].pc = "staged"
        <4>e. CASE k \in evicted'
          BY <3>3, <4>e, MemTruthAway
        <4>n. CASE k \notin evicted'
          <5>1. seq \in DOMAIN mem[k].recs
            BY <3>3 DEF CanAdvance, InMemory
          <5>2. PICK r \in Records : r = mem[k].recs[seq]
            BY <1>0, <5>1, MemFields
          <5>3. Truth(r) /\ Forward(r.stage, FinalStage(p)) /\ r.prog = p
            BY <1>0, <3>1, <3>3, <4>n, <5>1, <5>2 DEF MemTruth, CanAdvance, NumberFacts, NumberHolds
          <5>4. PICK record : record = [r EXCEPT !.stage = FinalStage(p)]
            OBVIOUS
          <5>5. lru' = lru /\ native' = native
            BY <2>9 DEF Stage
          <5>6. record \in Records /\ Truth(record)'
            BY <3>1, <3>3, <5>3, <5>4, <5>5, FinalRecord
          <5> QED BY <3>3, <5>1, <5>2, <5>4, <5>5, <5>6, MemTruthSet
        <4> QED BY <4>e, <4>n
      <3> QED BY <3>1, <3>2, <3>3
    <2>10. CASE SendChunk(p)
      BY <1>0, <2>10 DEF SendChunk
    <2>11. CASE StopEarly(p)
      BY <1>0, <2>11 DEF StopEarly
    <2>12. CASE Answer(p)
      BY <1>0, <2>12 DEF Answer
    <2> QED BY <1>1, <2>1, <2>2, <2>3, <2>4, <2>5, <2>6, <2>7, <2>8, <2>9, <2>10, <2>11, <2>12 DEF Turn
  <1>2. ASSUME NEW o \in Operations, Finish(o) \/ WriteLate(o) PROVE MemTruth'
    BY <1>0, <1>2 DEF Finish, WriteLate
  <1>3. ASSUME NEW o \in Operations, Reconcile(o) PROVE MemTruth'
    <2>1. PICK k \in Keys : \E s \in DOMAIN mem[k].recs :
              /\ Reconcilable(k, s, o) /\ native[o] = "committed"
              /\ SetRecord(k, s, [mem[k].recs[s] EXCEPT !.stage = "committed", !.late = TRUE])
      BY <1>3, ReconcileIs
    <2>2. PICK s \in DOMAIN mem[k].recs :
              /\ Reconcilable(k, s, o) /\ native[o] = "committed"
              /\ SetRecord(k, s, [mem[k].recs[s] EXCEPT !.stage = "committed", !.late = TRUE])
      BY <2>1
    <2>e. CASE k \in evicted'
      BY <2>2, <2>e, MemTruthAway
    <2>n. ASSUME k \notin evicted' PROVE MemTruth'
      <3>1. PICK r \in Records : r = mem[k].recs[s]
        BY <1>0, MemFields
      <3>2. Truth(r) /\ r.stage = "running_unknown" /\ r.ops = {o}
        BY <1>0, <2>2, <2>n, <3>1 DEF MemTruth, Reconcilable
      <3>3. PICK record : record = [r EXCEPT !.stage = "committed", !.late = TRUE]
        OBVIOUS
      <3>4. lru' = lru /\ turn' = turn /\ native' = native
        BY <1>3 DEF Reconcile
      <3>5. record \in Records /\ Truth(record)'
        BY <2>2, <3>2, <3>3, <3>4, LateRecord
      <3> QED BY <2>2, <3>1, <3>3, <3>4, <3>5, MemTruthSet
    <2> QED BY <2>e, <2>n
  <1>4. CASE Crash
    <2>1. \A k \in Keys : mem'[k].recs = << >>
      BY <1>4, CrashIs DEF NoSession
    <2> QED BY <2>1, EmptyMap DEF MemTruth
  <1>5. CASE UNCHANGED liveVars
    BY <1>0, <1>5 DEF liveVars
  <1> QED BY <1>1, <1>2, <1>3, <1>4, <1>5 DEF LiveNext

(* ------------------------- what the store says of Revit ---------------------- *)

Readable(k) == ~ torn /\ Replay(k).ok

\* The records R a session can be read as: they are true, memory numbers on after
\* them, a number of a turn at work is its own there too, a session that was
\* restored to nothing had nothing to restore, and what was read to be restored is
\* what is there to be read.
StoreTrue(k, R) ==
    /\ \A s \in DOMAIN R : Truth(R[s])
    /\ mem[k] # NoSession => \A s \in DOMAIN R : s < mem[k].next
    /\ \A p \in Programs :
          Live(p) /\ turn[p].key = k /\ turn[p].seq \in DOMAIN R => R[turn[p].seq].prog = p
    /\ k \in tried /\ mem[k] = NoSession =>
          R = << >> \/ \E p \in Programs : Restoring(p) /\ turn[p].key = k
    /\ \A p \in Programs : turn[p].pc = "raising" /\ turn[p].key = k => turn[p].seen = R

StoreTruth == \A k \in Keys \ evicted : Readable(k) => StoreTrue(k, Replay(k).recs)

\* A late receipt on its way is for what Revit committed, in a session that is marked
\* for it and in memory.
LateFacts ==
    \A o \in Operations : late[o] # None =>
        /\ native[o] = "committed" /\ late[o].key \in reconciled
        /\ late[o].key \notin evicted => mem[late[o].key] # NoSession

\* The steps that neither restore nor append leave the restoring turns alone and
\* bring no session into memory.
LEMMA RestStep ==
    ASSUME Base, NumberFacts, [LiveNext]_liveVars, ~ Crash,
           \A p \in Programs : ~ Publish(p) /\ ~ ReadStore(p) /\ ~ Raise(p) /\ ~ AppendProgram(p)
    PROVE  /\ tried' = tried
           /\ \A x \in Keys \ evicted' : mem[x] = NoSession => mem'[x] = NoSession
           /\ \A q \in Programs : Restoring(q) \/ Restoring(q)' => turn'[q] = turn[q]
  <1>1. ASSUME NEW p \in Programs, Goes(p)
        PROVE  \A q \in Programs : Restoring(q) \/ Restoring(q)' => turn'[q] = turn[q]
    BY <1>1 DEF Goes, Acts, Live, Restoring, Working
  <1>2. ASSUME NEW k \in Keys, NEW seq \in DOMAIN mem[k].recs, NEW record, SetRecord(k, seq, record)
        PROVE  \A x \in Keys \ evicted' : mem[x] = NoSession => mem'[x] = NoSession
    <2>1. DOMAIN NoSession.recs = {}
      BY EmptyMap DEF NoSession
    <2>2. mem[k] # NoSession
      BY <1>2, <2>1
    <2>3. MemType
      BY DEF Base, Types
    <2>4. \A x \in Keys : x # k => mem'[x] = mem[x]
      BY <1>2, <2>3 DEF SetRecord, MemType
    <2> QED BY <2>2, <2>4
  <1>3. ASSUME NEW p \in Programs, Turn(p)
        PROVE  /\ tried' = tried
               /\ \A x \in Keys \ evicted' : mem[x] = NoSession => mem'[x] = NoSession
               /\ \A q \in Programs : Restoring(q) \/ Restoring(q)' => turn'[q] = turn[q]
    <2>1. CASE WriteLine(p)
      <3>1. Goes(p)
        BY <2>1, AfterWrite DEF Works
      <3> QED BY <1>1, <2>1, <3>1 DEF WriteLine
    <2>2. CASE RememberSections(p)
      <3>1. PICK k \in Keys, session \in Sessions : k = turn[p].key /\ Live(p) /\ Put(k, session)
        BY <2>2, RememberIs
      <3>2. k \notin evicted' => mem[k] # NoSession
        <4>1. evicted \in SUBSET evicted'
          BY PastStep DEF Grows
        <4> QED BY <3>1, <4>1 DEF NumberFacts, NumberHolds
      <3>3. \A x \in Keys \ {k} : x \notin evicted' => mem'[x] = mem[x]
        BY <3>1, PutIs DEF Base, Types
      <3>4. tried' = tried /\ turn' = turn
        BY <2>2 DEF RememberSections
      <3>5. \A x \in Keys \ evicted' : mem[x] = NoSession => mem'[x] = NoSession
        BY <3>2, <3>3
      <3> QED BY <3>4, <3>5 DEF Restoring
    <2>3. CASE Bind(p)
      <3>1. PICK k \in Keys, seq \in Nat :
               /\ Goes(p)
               /\ \/ /\ CanBind(k, seq, Current(p))
                     /\ SetRecord(k, seq, [mem[k].recs[seq] EXCEPT !.ops = @ \cup {Current(p)}])
                  \/ mem' = mem
        BY <2>3, BindIs
      <3>2. tried' = tried
        BY <2>3 DEF Bind
      <3>3. CanBind(k, seq, Current(p)) => seq \in DOMAIN mem[k].recs
        BY DEF CanBind, InMemory
      <3> QED BY <1>1, <1>2, <3>1, <3>2, <3>3
    <2>4. CASE MarkDispatched(p)
      <3>1. PICK k \in Keys, seq \in Nat :
               /\ Goes(p)
               /\ \/ /\ CanAdvance(k, seq, "dispatched")
                     /\ SetRecord(k, seq, [mem[k].recs[seq] EXCEPT !.stage = "dispatched"])
                  \/ mem' = mem
        BY <2>4, MarkIs
      <3>2. tried' = tried
        BY <2>4 DEF MarkDispatched
      <3>3. CanAdvance(k, seq, "dispatched") => seq \in DOMAIN mem[k].recs
        BY DEF CanAdvance, InMemory
      <3> QED BY <1>1, <1>2, <3>1, <3>2, <3>3
    <2>5. CASE Stage(p)
      <3>1. PICK k \in Keys, seq \in Nat :
               /\ Goes(p)
               /\ \/ /\ CanAdvance(k, seq, FinalStage(p))
                     /\ SetRecord(k, seq, [mem[k].recs[seq] EXCEPT !.stage = FinalStage(p)])
                  \/ mem' = mem
        BY <2>5, StageIs
      <3>2. tried' = tried
        BY <2>5 DEF Stage
      <3>3. CanAdvance(k, seq, FinalStage(p)) => seq \in DOMAIN mem[k].recs
        BY DEF CanAdvance, InMemory
      <3> QED BY <1>1, <1>2, <3>1, <3>2, <3>3
    <2>6. CASE SendChunk(p)
      <3>1. Goes(p) /\ mem' = mem /\ tried' = tried
        BY <2>6, SendIs DEF Goes, Working
      <3> QED BY <1>1, <3>1
    <2>7. CASE StopEarly(p)
      <3>1. Goes(p) /\ mem' = mem /\ tried' = tried
        BY <2>7, StopIs DEF Goes, Working
      <3> QED BY <1>1, <3>1
    <2>8. CASE Answer(p)
      <3>1. Goes(p) /\ mem' = mem /\ tried' = tried
        BY <2>8, AnswerIs DEF Goes, Working
      <3> QED BY <1>1, <3>1
    <2> QED BY <1>3, <2>1, <2>2, <2>3, <2>4, <2>5, <2>6, <2>7, <2>8 DEF Turn
  <1>4. ASSUME NEW o \in Operations, Finish(o) \/ WriteLate(o)
        PROVE  tried' = tried /\ mem' = mem /\ turn' = turn
    BY <1>4 DEF Finish, WriteLate
  <1>5. ASSUME NEW o \in Operations, Reconcile(o)
        PROVE  /\ tried' = tried /\ turn' = turn
               /\ \A x \in Keys \ evicted' : mem[x] = NoSession => mem'[x] = NoSession
    <2>1. PICK k \in Keys : \E s \in DOMAIN mem[k].recs :
              SetRecord(k, s, [mem[k].recs[s] EXCEPT !.stage = "committed", !.late = TRUE])
      BY <1>5, ReconcileIs
    <2>2. tried' = tried /\ turn' = turn
      BY <1>5 DEF Reconcile
    <2> QED BY <1>2, <2>1, <2>2
  <1>6. CASE UNCHANGED liveVars
    BY <1>6 DEF liveVars
  <1> QED BY <1>3, <1>4, <1>5, <1>6 DEF LiveNext

\* A step that leaves the sessions and the restoring turns as they are.
StoreOnward(k) ==
    /\ mem[k] = NoSession => mem'[k] = NoSession
    /\ mem[k] # NoSession => mem'[k] # NoSession /\ mem'[k].next = mem[k].next

\* The truth of what a session is read as, whatever a step does elsewhere.
LEMMA ReadTrueStays ==
    ASSUME Base, NativeFacts, [LiveNext]_liveVars, NEW k \in Keys,
           NEW R \in RecordMaps, R = Replay(k).recs, StoreTrue(k, R), NEW s \in DOMAIN R
    PROVE  Truth(R[s])'
  <1>1. PICK r \in Records : r = R[s]
    BY MapElements
  <1>2. StoreHolds(k, Replay(k))
    BY DEF Base, StoreFacts
  <1>3. Truth(r) /\ turn[r.prog].pc \in Working \cup {"over"}
    BY <1>1, <1>2 DEF StoreHolds, StoreTrue
  <1>4. TurnType /\ Onward /\ Closed /\ NativeOnward
    BY OnwardStep, NativeStep DEF Base, Types
  <1>5. Truth(r)'
    BY <1>3, <1>4, TruthStays
  <1> QED BY <1>1, <1>5

\* A step that keeps this session where it is, follows the turns at work and
\* leaves the restoring ones alone.
LEMMA QuietStoreTrue ==
    ASSUME NEW k \in Keys, NEW R \in RecordMaps, StoreTrue(k, R), \A s \in DOMAIN R : Truth(R[s])',
           StoreOnward(k), Followed,
           k \in tried' => k \in tried \/ \E p \in Programs : Restoring(p)' /\ turn'[p].key = k,
           \A q \in Programs : Restoring(q) /\ turn[q].key = k => Restoring(q)' /\ turn'[q].key = k,
           \A q \in Programs : turn'[q].pc = "raising" /\ turn'[q].key = k => turn'[q].seen = R
    PROVE  StoreTrue(k, R)'
  <1>1. mem'[k] # NoSession => \A s \in DOMAIN R : s < mem'[k].next
    BY DEF StoreTrue, StoreOnward
  <1>2. \A p \in Programs :
          Live(p)' /\ turn'[p].key = k /\ turn'[p].seq \in DOMAIN R => R[turn'[p].seq].prog = p
    BY DEF StoreTrue, Followed
  <1>3. k \in tried' /\ mem'[k] = NoSession =>
          R = << >> \/ \E p \in Programs : Restoring(p)' /\ turn'[p].key = k
    BY DEF StoreTrue, StoreOnward
  <1> QED BY <1>1, <1>2, <1>3 DEF StoreTrue

\* The reading of a session stays true, as long as nothing is added to it.
LEMMA StoreTrueStays ==
    ASSUME Base, NativeFacts, NumberFacts, [LiveNext]_liveVars, NEW k \in Keys, k \notin evicted',
           NEW R \in RecordMaps, R = Replay(k).recs, Readable(k), StoreTrue(k, R)
    PROVE  StoreTrue(k, R)'
  <1>0. /\ MemType /\ Order /\ TurnType /\ Locks
        /\ \A s \in DOMAIN R : Truth(R[s])'
        /\ ~ torn /\ Replay(k).ok
    BY ReadTrueStays DEF Base, Types, Readable
  <1>1. ASSUME ~ Crash, \A p \in Programs : ~ AppendProgram(p)
        PROVE  Followed /\ (mem[k] # NoSession => mem'[k] # NoSession /\ mem'[k].next = mem[k].next)
    BY <1>1, SteadyStep DEF Steady
  <1>2. ASSUME NEW p \in Programs, Publish(p) PROVE StoreTrue(k, R)'
    <2>1. PICK x \in Keys :
              /\ turn[p].pc = "new" /\ Acts(p) /\ mem' = mem
              /\ tried' = (IF mem[x] = NoSession THEN tried \cup {x} ELSE tried)
              /\ turn'[p].pc = (IF mem[x] = NoSession /\ x \notin tried THEN "reading" ELSE "appending")
              /\ turn'[p].key = x
      BY <1>2, PublishIs
    <2>2. Followed
      BY <2>1, ActsFollowed DEF Live, Working
    <2>3. StoreOnward(k)
      BY <2>1 DEF StoreOnward
    <2>4. k \in tried' => k \in tried \/ \E q \in Programs : Restoring(q)' /\ turn'[q].key = k
      BY <2>1 DEF Restoring
    <2>5. \A q \in Programs : Restoring(q) /\ turn[q].key = k => Restoring(q)' /\ turn'[q].key = k
      BY <2>1 DEF Restoring, Acts
    <2>6. \A q \in Programs : turn'[q].pc = "raising" /\ turn'[q].key = k => turn'[q].seen = R
      BY <2>1 DEF StoreTrue, Acts
    <2> QED BY <1>0, <2>2, <2>3, <2>4, <2>5, <2>6, QuietStoreTrue
  <1>3. ASSUME NEW p \in Programs, ReadStore(p) PROVE StoreTrue(k, R)'
    <2>1. PICK x \in Keys, seen \in RecordMaps :
              /\ x = turn[p].key /\ turn[p].pc = "reading"
              /\ seen = (IF torn \/ ~ Replay(x).ok THEN << >> ELSE Replay(x).recs)
              /\ Acts(p) /\ turn'[p].seen = seen /\ turn'[p].pc = "raising" /\ turn'[p].key = x
              /\ mem' = mem /\ tried' = tried
      BY <1>3, ReadStoreIs
    <2>2. Followed
      BY <2>1, ActsFollowed DEF Live, Working
    <2>3. StoreOnward(k)
      BY <2>1 DEF StoreOnward
    <2>4. \A q \in Programs : Restoring(q) /\ turn[q].key = k => Restoring(q)' /\ turn'[q].key = k
      BY <2>1 DEF Restoring, Acts
    <2>5. \A q \in Programs : turn'[q].pc = "raising" /\ turn'[q].key = k => turn'[q].seen = R
      BY <1>0, <2>1 DEF StoreTrue, Acts
    <2> QED BY <1>0, <2>1, <2>2, <2>3, <2>4, <2>5, QuietStoreTrue
  <1>4. ASSUME NEW p \in Programs, Raise(p) PROVE StoreTrue(k, R)'
    <2>1. PICK x \in Keys, seen \in RecordMaps :
              /\ x = turn[p].key /\ seen = turn[p].seen /\ Bounded(seen)
              /\ turn[p].pc = "raising" /\ mem[x] = NoSession
              /\ \/ seen = << >> /\ mem' = mem
                 \/ seen # << >> /\ Put(x, Restored(seen))
              /\ Acts(p) /\ turn'[p].pc = "appending" /\ turn'[p].key = x
              /\ tried' = tried
      BY <1>4, RaiseIs
    <2>2. /\ \A q \in Programs : Live(q)' => Live(q) /\ turn'[q].key = turn[q].key /\ turn'[q].seq = turn[q].seq
          /\ \A q \in Programs : q # p => turn'[q] = turn[q]
      BY <2>1, ActsFollowed DEF Live, Working, Followed, Acts
    <2>3. \A q \in Programs : turn'[q].pc = "raising" /\ turn'[q].key = k => turn'[q].seen = R
      BY <2>1, <2>2 DEF StoreTrue
    <2>4. \A q \in Programs :
             Live(q)' /\ turn'[q].key = k /\ turn'[q].seq \in DOMAIN R => R[turn'[q].seq].prog = q
      BY <2>2 DEF StoreTrue
    <2>5. CASE x = k
      <3>1. seen = R
        BY <2>1, <2>5 DEF StoreTrue
      <3>2. CASE seen = << >> /\ mem' = mem
        BY <1>0, <2>1, <2>3, <2>4, <2>5, <3>1, <3>2 DEF StoreTrue
      <3>3. CASE seen # << >> /\ Put(x, Restored(seen))
        <4>1. PICK session \in Sessions :
                 session = Restored(R) /\ \A s \in DOMAIN R : s < session.next
          BY <2>1, <3>1, <3>3, RestoredIs DEF Bounded
        <4>2. mem'[k] = session
          BY <1>0, <2>5, <3>1, <3>3, <4>1, PutIs
        <4>3. mem'[k] # NoSession
          BY <4>2, SessionIsOne
        <4> QED BY <1>0, <2>3, <2>4, <4>1, <4>2, <4>3 DEF StoreTrue
      <3> QED BY <2>1, <3>2, <3>3
    <2>6. CASE x # k
      <3>1. mem'[k] = mem[k]
        <4>1. CASE mem' = mem
          BY <4>1
        <4>2. CASE seen # << >> /\ Put(x, Restored(seen))
          <5>1. PICK session \in Sessions : session = Restored(seen)
            BY <2>1, <4>2, RestoredIs DEF Bounded
          <5> QED BY <1>0, <2>6, <4>2, <5>1, PutIs
        <4> QED BY <2>1, <4>1, <4>2
      <3>2. StoreOnward(k)
        BY <3>1 DEF StoreOnward
      <3>3. \A q \in Programs : Restoring(q) /\ turn[q].key = k => Restoring(q)' /\ turn'[q].key = k
        BY <2>1, <2>2, <2>6 DEF Restoring
      <3>4. Followed
        BY <2>2 DEF Followed
      <3> QED BY <1>0, <2>1, <2>3, <3>2, <3>3, <3>4, QuietStoreTrue
    <2> QED BY <2>5, <2>6
  <1>5. ASSUME NEW p \in Programs, AppendProgram(p) PROVE StoreTrue(k, R)'
    <2>1. PICK x \in Keys, session \in Sessions, seq \in Nat :
              /\ x = turn[p].key /\ turn[p].pc = "appending" /\ Busy(p) /\ x \in tried
              /\ seq = (IF mem[x] = NoSession THEN 0 ELSE mem[x].next)
              /\ Put(x, session) /\ session.next = seq + 1
              /\ Acts(p)
              /\ turn'[p].pc = "storing" /\ turn'[p].seq = seq /\ turn'[p].key = x
              /\ tried' = tried
      BY <1>5, AppendProgramIs
    <2>2. /\ mem'[x] = session /\ session # NoSession
          /\ \A y \in Keys \ {x} : y \notin evicted' => mem'[y] = mem[y]
      BY <1>0, <2>1, PutIs, SessionIsOne
    <2>3. \A q \in Programs : q # p => turn'[q] = turn[q]
      BY <2>1 DEF Acts
    <2>4. \A q \in Programs : turn'[q].pc = "raising" /\ turn'[q].key = k => turn'[q].seen = R
      BY <2>1, <2>3 DEF StoreTrue
    <2>5. \A q \in Programs : q # p =>
             (Live(q)' /\ turn'[q].key = k /\ turn'[q].seq \in DOMAIN R => R[turn'[q].seq].prog = q)
      BY <2>3 DEF StoreTrue, Live
    <2>6. CASE x = k
      <3>1. mem[k] = NoSession => R = << >>
        <4> SUFFICES ASSUME mem[k] = NoSession PROVE ~ \E q \in Programs : Restoring(q) /\ turn[q].key = k
          BY <2>1, <2>6 DEF StoreTrue
        <4>1. ~ Restoring(p) /\ Busy(p) /\ turn[p].key = k
          BY <2>1, <2>6 DEF Restoring
        <4>2. ASSUME NEW q \in Programs, Restoring(q), turn[q].key = k PROVE FALSE
          <5>1. q # p
            BY <4>1, <4>2
          <5> QED BY <1>0, <4>1, <4>2, <5>1 DEF Locks
        <4> QED BY <4>2
      <3>2. mem[k] # NoSession => \A s \in DOMAIN R : s < mem[k].next
        BY DEF StoreTrue
      <3>3. \A s \in DOMAIN R : s < seq
        BY <2>1, <2>6, <3>1, <3>2, EmptyMap
      <3>4. DOMAIN R \in SUBSET Nat
        BY MapElements
      <3>5. seq \notin DOMAIN R /\ \A s \in DOMAIN R : s < seq + 1
        BY <3>3, <3>4
      <3>6. \A s \in DOMAIN R : s < mem'[k].next
        BY <2>1, <2>2, <2>6, <3>5
      <3>7. \A q \in Programs :
               Live(q)' /\ turn'[q].key = k /\ turn'[q].seq \in DOMAIN R => R[turn'[q].seq].prog = q
        BY <2>1, <2>5, <3>5
      <3> QED BY <1>0, <2>2, <2>4, <2>6, <3>6, <3>7 DEF StoreTrue
    <2>7. CASE x # k
      <3>1. mem'[k] = mem[k]
        BY <2>2, <2>7
      <3>2. \A q \in Programs :
               Live(q)' /\ turn'[q].key = k /\ turn'[q].seq \in DOMAIN R => R[turn'[q].seq].prog = q
        BY <2>1, <2>5, <2>7
      <3>3. k \in tried' /\ mem'[k] = NoSession =>
               R = << >> \/ \E q \in Programs : Restoring(q)' /\ turn'[q].key = k
        <4> SUFFICES ASSUME k \in tried, mem[k] = NoSession, R # << >>
                     PROVE  \E q \in Programs : Restoring(q)' /\ turn'[q].key = k
          BY <2>1, <3>1
        <4>1. PICK q \in Programs : Restoring(q) /\ turn[q].key = k
          BY DEF StoreTrue
        <4>2. q # p
          BY <2>1, <4>1 DEF Restoring
        <4> QED BY <2>3, <4>1, <4>2 DEF Restoring
      <3>4. mem'[k] # NoSession => \A s \in DOMAIN R : s < mem'[k].next
        BY <3>1 DEF StoreTrue
      <3> QED BY <1>0, <2>4, <3>2, <3>3, <3>4 DEF StoreTrue
    <2> QED BY <2>6, <2>7
  <1>6. CASE Crash
    <2>1. /\ \A q \in Programs : turn'[q].pc \in {"new", "over"}
          /\ mem'[k] = NoSession /\ tried' = {}
      BY <1>6, CrashIs
    <2> QED BY <1>0, <2>1 DEF StoreTrue, Live, Restoring, Working
  <1>7. CASE /\ ~ Crash
             /\ \A p \in Programs : ~ Publish(p) /\ ~ ReadStore(p) /\ ~ Raise(p) /\ ~ AppendProgram(p)
    <2>1. /\ tried' = tried
          /\ \A x \in Keys \ evicted' : mem[x] = NoSession => mem'[x] = NoSession
          /\ \A q \in Programs : Restoring(q) \/ Restoring(q)' => turn'[q] = turn[q]
      BY <1>7, RestStep
    <2>2. Followed /\ StoreOnward(k)
      BY <1>1, <1>7, <2>1 DEF StoreOnward
    <2>3. \A q \in Programs : Restoring(q) /\ turn[q].key = k => Restoring(q)' /\ turn'[q].key = k
      BY <2>1 DEF Restoring
    <2>4. \A q \in Programs : turn'[q].pc = "raising" /\ turn'[q].key = k => turn'[q].seen = R
      BY <2>1 DEF Restoring, StoreTrue
    <2> QED BY <1>0, <2>1, <2>2, <2>3, <2>4, QuietStoreTrue
  <1> QED BY <1>2, <1>3, <1>4, <1>5, <1>6, <1>7

\* A line of a session in memory adds what is as true as it was in memory.
LEMMA AbsorbTrue ==
    ASSUME NEW k \in Keys, NEW R \in RecordMaps, StoreTrue(k, R)', NEW line \in Lines, line.key = k,
           Fits(R, line), NEW S \in RecordMaps, S = Absorb(R, line),
           mem'[k] # NoSession, \A q \in Programs : Restoring(q)' => turn'[q].key # k,
           line.event = "program" =>
               /\ line.seq < mem'[k].next
               /\ \A q \in Programs : Live(q)' /\ turn'[q].key = k /\ turn'[q].seq = line.seq => q = line.value,
           line.seq \in DOMAIN S => \E r \in Records : r = S[line.seq] /\ Truth(r)',
           line.event # "program" /\ line.seq \in DOMAIN R => S[line.seq].prog = R[line.seq].prog
    PROVE  StoreTrue(k, S)'
  <1>1. /\ DOMAIN S = IF line.event = "program" THEN DOMAIN R \cup {line.seq} ELSE DOMAIN R
        /\ \A s \in DOMAIN R : s # line.seq => S[s] = R[s]
        /\ line.event = "program" => S[line.seq] = NewRecord(line.value)
    BY AbsorbIs
  <1>2. ASSUME NEW s \in DOMAIN S PROVE Truth(S[s])'
    <2>1. CASE s = line.seq
      <3>1. PICK r \in Records : r = S[s] /\ Truth(r)'
        BY <1>2, <2>1
      <3> QED BY <3>1
    <2>2. CASE s # line.seq
      <3>1. s \in DOMAIN R /\ S[s] = R[s]
        BY <1>1, <1>2, <2>2
      <3>2. Truth(R[s])'
        BY <3>1 DEF StoreTrue
      <3> QED BY <3>1, <3>2
    <2> QED BY <2>1, <2>2
  <1>3. \A s \in DOMAIN S : s < mem'[k].next
    BY <1>1 DEF StoreTrue
  <1>4. ASSUME NEW p \in Programs, Live(p)', turn'[p].key = k, turn'[p].seq \in DOMAIN S
        PROVE  S[turn'[p].seq].prog = p
    <2>1. PICK s : s = turn'[p].seq
      OBVIOUS
    <2>2. s \in DOMAIN R => R[s].prog = p
      BY <1>4, <2>1 DEF StoreTrue
    <2>3. CASE line.event = "program" /\ s = line.seq
      <3>1. p = line.value
        BY <1>4, <2>1, <2>3
      <3> QED BY <1>1, <2>1, <2>3, <3>1 DEF NewRecord
    <2>4. CASE line.event # "program" \/ s # line.seq
      BY <1>1, <1>4, <2>1, <2>2, <2>4
    <2> QED BY <2>3, <2>4
  <1>5. \A p \in Programs : turn'[p].pc = "raising" => turn'[p].key # k
    BY DEF Restoring
  <1> QED BY <1>2, <1>3, <1>4, <1>5 DEF StoreTrue

LEMMA StoreTruthFrom ==
    ASSUME \A k \in Keys \ evicted' : Readable(k)' => \E R \in RecordMaps : R = Replay(k)'.recs /\ StoreTrue(k, R)'
    PROVE  StoreTruth'
  <1> SUFFICES ASSUME NEW k \in Keys \ evicted', Readable(k)' PROVE StoreTrue(k, Replay(k).recs)'
    BY DEF StoreTruth
  <1>1. PICK R \in RecordMaps : R = Replay(k)'.recs /\ StoreTrue(k, R)'
    OBVIOUS
  <1> QED BY <1>1 DEF StoreTrue, Truth, Parts

\* What is read after one line more was handed to the disk.
LEMMA AfterLine ==
    ASSUME Base, NativeFacts, NumberFacts, StoreTruth, [LiveNext]_liveVars,
           NEW line \in Lines, Write(line), NEW k \in Keys, k \notin evicted', Readable(k)'
    PROVE  \E R \in RecordMaps, S \in RecordMaps :
              /\ R = Replay(k).recs /\ Readable(k) /\ StoreTrue(k, R) /\ StoreTrue(k, R)'
              /\ S = Replay(k)'.recs
              /\ S = R \/ (line.key = k /\ Fits(R, line) /\ S = Absorb(R, line))
  <1>1. PICK before \in Reading : before = Replay(k) /\ Bounded(before.recs)
    BY DEF Base, StoreFacts, StoreHolds, Reading
  <1>2. /\ torn => torn'
        /\ Replay(k)' = before \/ Replay(k)' = Read(before, line, k)
    BY <1>1, WriteIs DEF Base, Types
  <1>3. ~ torn' /\ Replay(k)'.ok
    BY DEF Readable
  <1>4. PICK after \in Reading : after = Replay(k)'
    BY <1>1, <1>2, ReadIs
  <1>5. before.ok /\ (after = before \/ (line.key = k /\ Fits(before.recs, line) /\ after.recs = Absorb(before.recs, line)))
    BY <1>1, <1>2, <1>3, <1>4, ReadIs
  <1>6. PICK R \in RecordMaps, S \in RecordMaps : R = before.recs /\ S = after.recs
    BY DEF Reading
  <1>7. Readable(k) /\ R = Replay(k).recs
    BY <1>1, <1>2, <1>3, <1>5, <1>6 DEF Readable
  <1>8. StoreTrue(k, R)
    <2>1. k \notin evicted
      BY PastStep DEF Grows
    <2> QED BY <1>7, <2>1 DEF StoreTruth
  <1>9. StoreTrue(k, R)'
    BY <1>7, <1>8, StoreTrueStays
  <1> QED BY <1>4, <1>5, <1>6, <1>7, <1>8, <1>9

LEMMA WriteLineTruth ==
    ASSUME Base, Base', NativeFacts, NumberFacts, StoreTruth, [LiveNext]_liveVars,
           NEW p \in Programs, WriteLine(p)
    PROVE  StoreTruth'
  <1> SUFFICES ASSUME NEW k \in Keys, k \notin evicted', Readable(k)'
               PROVE  \E S \in RecordMaps : S = Replay(k)'.recs /\ StoreTrue(k, S)'
    BY StoreTruthFrom
  <1>e. k \notin evicted
    BY PastStep DEF Grows
  <1>1. /\ turn[p].pc \in {"storing", "bound", "marked", "staged"} /\ Live(p)
        /\ Write(turn[p].line) /\ Acts(p) /\ Works(p) /\ turn'[p].n = turn[p].n
        /\ turn[p].pc = "staged" => turn'[p].pc = "over"
    BY AfterWrite DEF Works, Goes
  <1>2. PICK line \in Lines, x \in Keys, seq \in Nat :
           /\ line = turn[p].line /\ x = turn[p].key /\ seq = turn[p].seq
           /\ line.key = x /\ line.seq = seq
           /\ line.event = IF turn[p].pc = "storing" THEN "program"
                           ELSE IF turn[p].pc = "bound" THEN "operation" ELSE "stage"
           /\ turn[p].pc = "storing" => line.value = p
           /\ turn[p].pc = "bound" => line.value = Current(p)
           /\ turn[p].pc = "marked" => line.value = "dispatched"
           /\ turn[p].pc = "staged" => line.value = FinalStage(p)
    BY <1>1, LineOf
  <1>3. PICK R \in RecordMaps, S \in RecordMaps :
           /\ R = Replay(k).recs /\ Readable(k) /\ StoreTrue(k, R) /\ StoreTrue(k, R)'
           /\ S = Replay(k)'.recs
           /\ S = R \/ (line.key = k /\ Fits(R, line) /\ S = Absorb(R, line))
    BY <1>1, <1>2, AfterLine
  <1>4. CASE S = R
    BY <1>3, <1>4
  <1>5. CASE line.key = k /\ Fits(R, line) /\ S = Absorb(R, line)
    <2>1. mem' = mem /\ native' = native
      BY DEF WriteLine
    <2>2. mem'[k] # NoSession /\ seq < mem'[k].next
      BY <1>e, <1>1, <1>2, <1>5, <2>1 DEF NumberFacts, NumberHolds
    <2>3. \A q \in Programs : Restoring(q)' => turn'[q].key # k
      BY <2>2 DEF Base, Locks
    <2>4. \A q \in Programs : Live(q)' /\ turn'[q].key = k /\ turn'[q].seq = seq => q = p
      <3> SUFFICES ASSUME NEW q \in Programs, q # p, Live(q)', turn'[q].key = k, turn'[q].seq = seq
                   PROVE  FALSE
        OBVIOUS
      <3>1. turn'[q] = turn[q]
        BY <1>1 DEF Acts
      <3>2. Live(q) /\ turn[q].key = k /\ turn[q].seq = seq
        BY <3>1 DEF Live
      <3>3. Live(p) /\ turn[p].key = k /\ turn[p].seq = seq
        BY <1>1, <1>2, <1>5
      <3>4. NumberHolds(p)
        BY <1>e, <3>3 DEF NumberFacts
      <3> QED BY <3>2, <3>3, <3>4 DEF NumberHolds
    <2>m. line.seq = seq /\ S = Absorb(R, line)
      BY <1>2, <1>5
    <2>5. /\ DOMAIN S = IF line.event = "program" THEN DOMAIN R \cup {seq} ELSE DOMAIN R
          /\ line.event = "program" => S[seq] = NewRecord(line.value)
          /\ line.event = "operation" /\ seq \in DOMAIN R => S[seq] = [R[seq] EXCEPT !.ops = @ \cup {line.value}]
          /\ line.event = "stage" /\ seq \in DOMAIN R => S[seq] = [R[seq] EXCEPT !.stage = line.value]
      <3>1. /\ DOMAIN S = IF line.event = "program" THEN DOMAIN R \cup {seq} ELSE DOMAIN R
            /\ line.event = "program" => S[seq] = NewRecord(line.value)
        BY <2>m, AbsorbIs
      <3>2. line.event = "operation" /\ seq \in DOMAIN R => S[seq] = [R[seq] EXCEPT !.ops = @ \cup {line.value}]
        BY <2>m, AbsorbIs
      <3>3. line.event = "stage" /\ seq \in DOMAIN R => S[seq] = [R[seq] EXCEPT !.stage = line.value]
        BY <2>m, AbsorbIs
      <3> QED BY <3>1, <3>2, <3>3
    <2>6. ASSUME seq \in DOMAIN R, line.event # "program"
          PROVE  \E r \in Records, record \in Records :
                    r = R[seq] /\ record = S[seq] /\ record.prog = r.prog /\ Truth(record)'
      <3>n. PICK r \in Records : r = R[seq]
        BY <2>6, MapElements
      <3>m. r.prog = p
        BY <1>1, <1>2, <1>3, <1>5, <2>6, <3>n DEF StoreTrue
      <3>1. r = R[seq] /\ r.prog = p /\ Truth(r)
        BY <1>3, <2>6, <3>n, <3>m DEF StoreTrue
      <3>2. CASE turn[p].pc = "bound"
        <4>1. PICK o \in Operations : o = line.value
          BY <1>2, <3>2, LineIs
        <4>2. PICK record : record = [r EXCEPT !.ops = @ \cup {o}]
          OBVIOUS
        <4>3. record = S[seq]
          BY <1>2, <2>5, <2>6, <3>1, <3>2, <4>1, <4>2
        <4>4. record \in Records /\ record.prog = r.prog /\ Truth(record)'
          BY <3>1, <3>2, <4>2, BoundRecord
        <4> QED BY <3>1, <4>3, <4>4
      <3>3. CASE turn[p].pc = "marked"
        <4>1. Forward(r.stage, "dispatched")
          BY <1>2, <1>5, <2>6, <3>1, <3>3 DEF Fits
        <4>2. PICK record : record = [r EXCEPT !.stage = "dispatched"]
          OBVIOUS
        <4>3. record = S[seq]
          BY <1>2, <2>5, <2>6, <3>1, <3>3, <4>2
        <4>4. record \in Records /\ record.prog = r.prog /\ Truth(record)'
          BY <3>1, <4>1, <4>2, MarkedRecord
        <4> QED BY <3>1, <4>3, <4>4
      <3>4. CASE turn[p].pc = "staged"
        <4>1. Forward(r.stage, FinalStage(p))
          BY <1>2, <1>5, <2>6, <3>1, <3>4 DEF Fits
        <4>2. PICK record : record = [r EXCEPT !.stage = FinalStage(p)]
          OBVIOUS
        <4>3. record = S[seq]
          BY <1>2, <2>5, <2>6, <3>1, <3>4, <4>2
        <4>4. record \in Records /\ Truth(record)'
          BY <1>1, <2>1, <3>1, <3>4, <4>1, <4>2, FinalRecord
        <4>5. record.prog = r.prog
          BY <4>2 DEF Records
        <4> QED BY <3>1, <4>3, <4>4, <4>5
      <3> QED BY <1>1, <1>2, <2>6, <3>2, <3>3, <3>4
    <2>7. line.event = "program" => \E r \in Records : r = S[seq] /\ Truth(r)'
      <3> SUFFICES ASSUME line.event = "program" PROVE \E r \in Records : r = S[seq] /\ Truth(r)'
        OBVIOUS
      <3>1. line.value = p
        BY <1>1, <1>2
      <3>n. NewRecord(p) \in Records
        BY DEF NewRecord, Records, Main
      <3>2. PICK new \in Records : new = NewRecord(p) /\ new.stage = "planned" /\ new.late = FALSE
        BY <3>n DEF NewRecord
      <3>3. Truth(new)'
        BY <3>2 DEF Truth, EndStages, Built, Side
      <3> QED BY <2>5, <3>1, <3>2, <3>3
    <2>8. line.seq \in DOMAIN S => \E r \in Records : r = S[line.seq] /\ Truth(r)'
      BY <1>2, <2>5, <2>6, <2>7
    <2>9. line.event # "program" /\ line.seq \in DOMAIN R => S[line.seq].prog = R[line.seq].prog
      BY <1>2, <2>6
    <2>10. line.event = "program" =>
               /\ line.seq < mem'[k].next
               /\ \A q \in Programs : Live(q)' /\ turn'[q].key = k /\ turn'[q].seq = line.seq => q = line.value
      BY <1>1, <1>2, <2>2, <2>4
    <2>11. StoreTrue(k, S)'
      BY <1>3, <1>5, <2>2, <2>3, <2>8, <2>9, <2>10, AbsorbTrue
    <2> QED BY <1>3, <2>11
  <1> QED BY <1>3, <1>4, <1>5

LEMMA WriteLateTruth ==
    ASSUME Base, Base', NativeFacts, NumberFacts, StoreTruth, LateFacts,
           [LiveNext]_liveVars, NEW o \in Operations, WriteLate(o)
    PROVE  StoreTruth'
  <1> SUFFICES ASSUME NEW k \in Keys, k \notin evicted', Readable(k)'
               PROVE  \E S \in RecordMaps : S = Replay(k)'.recs /\ StoreTrue(k, S)'
    BY StoreTruthFrom
  <1>e. k \notin evicted
    BY PastStep DEF Grows
  <1>1. /\ late[o] # None /\ Write(late[o])
        /\ mem' = mem /\ turn' = turn /\ native' = native
    BY DEF WriteLate
  <1>2. PICK line \in Lines : line = late[o] /\ line.event = "late" /\ line.value = o
    BY <1>1, LateLine DEF Base, Types
  <1>3. PICK R \in RecordMaps, S \in RecordMaps :
           /\ R = Replay(k).recs /\ Readable(k) /\ StoreTrue(k, R) /\ StoreTrue(k, R)'
           /\ S = Replay(k)'.recs
           /\ S = R \/ (line.key = k /\ Fits(R, line) /\ S = Absorb(R, line))
    BY <1>1, <1>2, AfterLine
  <1>4. CASE S = R
    BY <1>3, <1>4
  <1>5. CASE line.key = k /\ Fits(R, line) /\ S = Absorb(R, line)
    <2>1. mem'[k] # NoSession /\ native[o] = "committed"
      BY <1>e, <1>1, <1>2, <1>5 DEF LateFacts
    <2>2. \A q \in Programs : Restoring(q)' => turn'[q].key # k
      BY <2>1 DEF Base, Locks
    <2>3. PICK seq \in Nat : seq = line.seq
      BY LineIs
    <2>4. /\ DOMAIN S = DOMAIN R
          /\ seq \in DOMAIN R => S[seq] = [R[seq] EXCEPT !.stage = "committed", !.late = TRUE]
      BY <1>2, <1>5, <2>3, AbsorbIs
    <2>5. ASSUME seq \in DOMAIN R
          PROVE  \E r \in Records, record \in Records :
                    r = R[seq] /\ record = S[seq] /\ record.prog = r.prog /\ Truth(record)'
      <3>1. PICK r \in Records : r = R[seq] /\ Truth(r)
        BY <1>3, <2>5, MapElements DEF StoreTrue
      <3>2. r.stage = "running_unknown" /\ r.ops = {o}
        BY <1>2, <1>5, <2>3, <2>5, <3>1 DEF Fits
      <3>3. PICK record : record = [r EXCEPT !.stage = "committed", !.late = TRUE]
        OBVIOUS
      <3>4. record \in Records /\ record.prog = r.prog /\ Truth(record)'
        BY <1>1, <2>1, <3>1, <3>2, <3>3, LateRecord
      <3> QED BY <2>4, <2>5, <3>1, <3>3, <3>4
    <2>6. StoreTrue(k, S)'
      BY <1>2, <1>3, <1>5, <2>1, <2>2, <2>3, <2>4, <2>5, AbsorbTrue
    <2> QED BY <1>3, <2>6
  <1> QED BY <1>3, <1>4, <1>5

LEMMA StoreTruthStep ==
    ASSUME Base, Base', NativeFacts, NumberFacts, StoreTruth, LateFacts, [LiveNext]_liveVars
    PROVE  StoreTruth'
  <1>1. CASE \E p \in Programs : WriteLine(p)
    BY <1>1, WriteLineTruth
  <1>2. CASE \E o \in Operations : WriteLate(o)
    BY <1>2, WriteLateTruth
  <1>3. CASE store' = store /\ (torn => torn')
    <2> SUFFICES ASSUME NEW k \in Keys, k \notin evicted', Readable(k)'
                 PROVE  \E R \in RecordMaps : R = Replay(k)'.recs /\ StoreTrue(k, R)'
      BY StoreTruthFrom
    <2>e. k \notin evicted
      BY PastStep DEF Grows
    <2>1. Replay(k)' = Replay(k)
      BY <1>3 DEF Replay
    <2>2. Readable(k)
      BY <1>3, <2>1 DEF Readable
    <2>3. PICK R \in RecordMaps : R = Replay(k).recs
      BY DEF Base, StoreFacts, StoreHolds
    <2>4. StoreTrue(k, R)
      BY <2>e, <2>2, <2>3 DEF StoreTruth
    <2>5. StoreTrue(k, R)'
      BY <2>2, <2>3, <2>4, StoreTrueStays
    <2> QED BY <2>1, <2>3, <2>5
  <1>4. \/ \E p \in Programs : WriteLine(p)
        \/ \E o \in Operations : WriteLate(o)
        \/ store' = store /\ (torn => torn')
    <2>1. ASSUME NEW p \in Programs, Turn(p) PROVE WriteLine(p) \/ (store' = store /\ torn' = torn)
      BY <2>1 DEF Turn, Publish, ReadStore, Raise, AppendProgram, RememberSections, Bind,
                  MarkDispatched, SendChunk, StopEarly, Answer, Stage
    <2>2. ASSUME NEW o \in Operations, Finish(o) \/ Reconcile(o) PROVE store' = store /\ torn' = torn
      BY <2>2 DEF Finish, Reconcile
    <2>3. Crash => store' = store /\ (torn => torn')
      BY CrashIs
    <2>4. UNCHANGED liveVars => store' = store /\ torn' = torn
      BY DEF liveVars
    <2> QED BY <2>1, <2>2, <2>3, <2>4 DEF LiveNext
  <1> QED BY <1>1, <1>2, <1>3, <1>4

\* Only the turn that reads its store begins to raise what it read.
LEMMA RaisingIs ==
    ASSUME Base, NumberFacts, [LiveNext]_liveVars,
           NEW q \in Programs, turn'[q].pc = "raising"
    PROVE  turn'[q] = turn[q] \/ ReadStore(q)
  <1>1. CASE \E p \in Programs : ReadStore(p)
    <2>1. PICK p \in Programs : ReadStore(p)
      BY <1>1
    <2>2. Acts(p)
      BY <2>1, ReadStoreIs
    <2> QED BY <2>1, <2>2 DEF Acts
  <1>2. CASE \E p \in Programs : Publish(p)
    <2>1. PICK p \in Programs : Publish(p)
      BY <1>2
    <2>2. Acts(p) /\ turn'[p].pc \in {"reading", "appending"}
      BY <2>1, PublishIs
    <2> QED BY <2>2 DEF Acts
  <1>3. CASE \E p \in Programs : Raise(p)
    <2>1. PICK p \in Programs : Raise(p)
      BY <1>3
    <2>2. Acts(p) /\ turn'[p].pc = "appending"
      BY <2>1, RaiseIs
    <2> QED BY <2>2 DEF Acts
  <1>4. CASE \E p \in Programs : AppendProgram(p)
    <2>1. PICK p \in Programs : AppendProgram(p)
      BY <1>4
    <2>2. Acts(p) /\ turn'[p].pc = "storing"
      BY <2>1, AppendProgramIs
    <2> QED BY <2>2 DEF Acts
  <1>5. CASE Crash
    <2>1. turn'[q].pc \in {"new", "over"}
      BY <1>5, CrashIs
    <2> QED BY <2>1
  <1>6. CASE /\ ~ Crash
             /\ \A p \in Programs : ~ Publish(p) /\ ~ ReadStore(p) /\ ~ Raise(p) /\ ~ AppendProgram(p)
    BY <1>6, RestStep DEF Restoring
  <1> QED BY <1>1, <1>2, <1>3, <1>4, <1>5, <1>6

LEMMA SeenTruthStep ==
    ASSUME Base, NativeFacts, NumberFacts, SeenTruth, StoreTruth, [LiveNext]_liveVars
    PROVE  SeenTruth'
  <1> SUFFICES ASSUME NEW p \in Programs, turn'[p].pc = "raising", turn'[p].key \notin evicted',
                      NEW s \in DOMAIN turn'[p].seen
               PROVE  Truth(turn[p].seen[s])'
    BY DEF SeenTruth
  <1>1. TurnType /\ Onward /\ Closed /\ NativeOnward
    BY OnwardStep, NativeStep DEF Base, Types
  <1>e. turn'[p].key \notin evicted
    BY PastStep DEF Grows
  <1>2. CASE turn'[p] = turn[p]
    <2>1. PICK seen \in RecordMaps : seen = turn[p].seen
      BY <1>1, TurnFields DEF TurnType
    <2>2. PICK r \in Records : r = seen[s]
      BY <1>2, <2>1, MapElements
    <2>3. SeenHolds(p)
      BY DEF Base, SeenFacts
    <2>4. Truth(r) /\ turn[r.prog].pc = "over"
      BY <1>e, <1>2, <2>1, <2>2, <2>3 DEF SeenTruth, SeenHolds
    <2>5. Truth(r)'
      BY <1>1, <2>4, TruthStays
    <2>6. r = turn'[p].seen[s]
      BY <1>2, <2>1, <2>2
    <2> QED BY <2>5, <2>6 DEF Truth, Parts
  <1>3. CASE ReadStore(p)
    <2>1. PICK k \in Keys, seen \in RecordMaps :
             /\ k = turn[p].key /\ StoreHolds(k, Replay(k))
             /\ seen = (IF torn \/ ~ Replay(k).ok THEN << >> ELSE Replay(k).recs)
             /\ turn'[p].seen = seen /\ turn'[p].key = k
      BY <1>3, ReadStoreIs
    <2>2. Readable(k) /\ seen = Replay(k).recs
      BY <2>1, EmptyMap DEF Readable
    <2>3. StoreTrue(k, seen)
      BY <1>e, <2>1, <2>2 DEF StoreTruth
    <2>4. Truth(seen[s])'
      BY <2>1, <2>2, <2>3, ReadTrueStays
    <2> QED BY <2>1, <2>4 DEF Truth, Parts
  <1> QED BY <1>2, <1>3, RaisingIs

LEMMA LateFactsStep ==
    ASSUME Base, NativeFacts, NumberFacts, LateFacts, [LiveNext]_liveVars
    PROVE  LateFacts'
  <1>0. MemType /\ Order /\ Sizes /\ LateType /\ NativeOnward
    BY NativeStep DEF Base, Types
  <1>e. evicted \in SUBSET evicted' /\ reconciled \in SUBSET reconciled'
    BY PastStep DEF Grows
  <1>1. CASE Crash
    <2>1. \A o \in Operations : late'[o] = None
      BY <1>1, CrashIs
    <2> QED BY <2>1 DEF LateFacts
  <1>2. CASE ~ Crash
    <2>1. \A x \in Keys \ evicted' : mem[x] # NoSession => mem'[x] # NoSession
      <3>1. CASE \E p \in Programs : AppendProgram(p)
        <4>1. PICK p \in Programs : AppendProgram(p)
          BY <3>1
        <4>2. PICK k \in Keys, session \in Sessions : k = turn[p].key /\ Put(k, session)
          BY <4>1, AppendProgramIs
        <4>3. /\ mem'[k] = session /\ session # NoSession
              /\ \A x \in Keys \ {k} : x \notin evicted' => mem'[x] = mem[x]
          BY <1>0, <4>2, PutIs, SessionIsOne
        <4> QED BY <4>3
      <3>2. CASE \A p \in Programs : ~ AppendProgram(p)
        BY <1>2, <3>2, SteadyStep DEF Steady
      <3> QED BY <3>1, <3>2
    <2>2. \A o \in Operations : late[o] # None => late[o].key \in Keys
      BY <1>0, LateLine
    <2>3. ASSUME NEW o \in Operations, late[o] # None
          PROVE  /\ native'[o] = "committed" /\ late[o].key \in reconciled'
                 /\ late[o].key \notin evicted' => mem'[late[o].key] # NoSession
      <3>1. /\ native[o] = "committed" /\ late[o].key \in reconciled /\ late[o].key \in Keys
            /\ late[o].key \notin evicted => mem[late[o].key] # NoSession
        BY <2>2, <2>3 DEF LateFacts
      <3>2. native'[o] = "committed"
        BY <1>0, <3>1 DEF NativeOnward
      <3> QED BY <1>e, <2>1, <3>1, <3>2
    <2>4. \/ \E o \in Operations : Reconcile(o)
          \/ \A o \in Operations : late'[o] = None \/ late'[o] = late[o]
      <3>1. ASSUME NEW p \in Programs, Turn(p) PROVE late' = late
        BY <3>1 DEF Turn, Publish, ReadStore, Raise, AppendProgram, WriteLine, RememberSections, Bind,
                    MarkDispatched, SendChunk, StopEarly, Answer, Stage
      <3>2. ASSUME NEW o \in Operations, WriteLate(o)
            PROVE  \A x \in Operations : late'[x] = None \/ late'[x] = late[x]
        BY <1>0, <3>2 DEF WriteLate, LateType
      <3>3. ASSUME NEW o \in Operations, Finish(o) PROVE late' = late
        BY <3>3 DEF Finish
      <3>4. UNCHANGED liveVars => late' = late
        BY DEF liveVars
      <3> QED BY <1>2, <3>1, <3>2, <3>3, <3>4 DEF LiveNext
    <2>5. CASE \A o \in Operations : late'[o] = None \/ late'[o] = late[o]
      BY <2>3, <2>5 DEF LateFacts
    <2>6. CASE \E o \in Operations : Reconcile(o)
      <3>1. PICK o \in Operations : Reconcile(o)
        BY <2>6
      <3>2. PICK k \in Keys : \E s \in DOMAIN mem[k].recs :
                /\ native[o] = "committed"
                /\ late' = [late EXCEPT ![o] = Line("late", k, s, o)]
                /\ s \in Nat /\ reconciled' = reconciled \cup {k}
        BY <3>1, ReconcileIs
      <3>3. PICK s \in DOMAIN mem[k].recs :
                /\ native[o] = "committed"
                /\ late' = [late EXCEPT ![o] = Line("late", k, s, o)]
                /\ s \in Nat /\ reconciled' = reconciled \cup {k}
        BY <3>2
      <3>4. mem[k] # NoSession
        BY <3>3, EmptyMap DEF NoSession
      <3>5. late'[o] = Line("late", k, s, o) /\ \A x \in Operations : x # o => late'[x] = late[x]
        BY <1>0, <3>3 DEF LateType
      <3>6. late'[o].key = k
        BY <3>5 DEF Line
      <3>7. native'[o] = "committed" /\ k \in reconciled' /\ (k \notin evicted' => mem'[k] # NoSession)
        BY <1>0, <2>1, <3>3, <3>4 DEF NativeOnward
      <3>8. ASSUME NEW x \in Operations, late'[x] # None
            PROVE  /\ native'[x] = "committed" /\ late'[x].key \in reconciled'
                   /\ late'[x].key \notin evicted' => mem'[late'[x].key] # NoSession
        <4>1. CASE x = o
          BY <3>6, <3>7, <4>1
        <4>2. CASE x # o
          BY <2>3, <3>5, <3>8, <4>2
        <4> QED BY <4>1, <4>2
      <3> QED BY <3>8 DEF LateFacts
    <2> QED BY <2>4, <2>5, <2>6
  <1> QED BY <1>1, <1>2

(* ------------------------------- what is true -------------------------------- *)

\* The inductive invariant of what is said of Revit.
Honest == Base /\ NativeFacts /\ NumberFacts /\ MemTruth /\ SeenTruth /\ LateFacts /\ StoreTruth

LEMMA HonestStart ==
    ASSUME LiveInit
    PROVE  Honest
  <1>1. Base /\ NativeFacts
    BY BaseStart, NativeStart
  <1>2. /\ mem = [k \in Keys |-> NoSession] /\ store = << >> /\ tried = {}
        /\ turn = [p \in Programs |-> NoTurn] /\ late = [o \in Operations |-> None]
    BY DEF LiveInit
  <1>3. \A p \in Programs : turn[p].pc = "new"
    BY <1>2 DEF NoTurn
  <1>4. NumberFacts /\ SeenTruth
    BY <1>3 DEF NumberFacts, NumberHolds, Live, Working, SeenTruth
  <1>5. MemTruth
    BY <1>2, EmptyMap DEF MemTruth, NoSession
  <1>6. LateFacts
    BY <1>2 DEF LateFacts
  <1>7. ASSUME NEW k \in Keys PROVE StoreTrue(k, Replay(k).recs)
    <2>1. PICK R \in RecordMaps : R = Replay(k).recs /\ R = << >>
      BY <1>2, ReplayEmpty, EmptyMap DEF Replay, NothingRead
    <2>2. StoreTrue(k, R)
      BY <1>2, <1>3, <2>1, EmptyMap DEF StoreTrue, Live, Working
    <2> QED BY <2>1, <2>2
  <1> QED BY <1>1, <1>4, <1>5, <1>6, <1>7 DEF Honest, StoreTruth

LEMMA HonestStep ==
    ASSUME Honest, [LiveNext]_liveVars
    PROVE  Honest'
  <1>1. Base /\ NativeFacts /\ NumberFacts /\ MemTruth /\ SeenTruth /\ LateFacts /\ StoreTruth
    BY DEF Honest
  <1>2. Base'
    BY <1>1, BaseStep
  <1>3. NativeFacts' /\ NumberFacts'
    BY <1>1, <1>2, NativeStep, NumberStep
  <1>4. MemTruth' /\ SeenTruth' /\ LateFacts' /\ StoreTruth'
    BY <1>1, <1>2, MemTruthStep, SeenTruthStep, LateFactsStep, StoreTruthStep
  <1> QED BY <1>2, <1>3, <1>4 DEF Honest

LEMMA HonestHolds == LiveSpec => []Honest
  <1>1. LiveInit => Honest
    BY HonestStart
  <1>2. Honest /\ [LiveNext]_liveVars => Honest'
    BY HonestStep
  <1> QED BY <1>1, <1>2, PTL DEF LiveSpec

\* A stage says nothing that Revit contradicts, whatever died, was lost or came
\* late, in every session that was never pushed out of memory, however many others
\* were (journal.py 171-207, serving.py 835-881, 1440-1454).
THEOREM StagesTrue == LiveSpec => []StagesAreTrue
  <1>1. LiveTypeOK /\ Honest => StagesAreTrue
    <2> SUFFICES ASSUME LiveTypeOK, Honest PROVE StagesAreTrue
      OBVIOUS
    <2>1. ASSUME NEW h \in HeldUnder(Keys \ evicted)
          PROVE  LET r == Rec(h)
                     chunks == {<<r.prog, i>> : i \in 1..turn[r.prog].n}
                 IN /\ r.stage \in Built => \A o \in IF r.late THEN r.ops ELSE chunks : native[o] = "committed"
                    /\ r.late => r.ops # {}
                    /\ r.stage \in {"refused_pre_effect", "rolled_back"} =>
                          \A o \in chunks : native[o] \in {"unsent", "rolled_back"}
                    /\ r.stage = "committed_partial" => \E o \in chunks : native[o] = "committed"
      <3>1. PICK r : r = Rec(h)
        OBVIOUS
      <3>n. PICK k \in Keys \ evicted : h \in {k} \X DOMAIN mem[k].recs
        BY DEF HeldUnder
      <3>2. Truth(r)
        BY <3>1, <3>n DEF Honest, MemTruth, Rec
      <3> QED BY <3>1, <3>2 DEF Truth, Parts
    <2> QED BY <2>1 DEF StagesAreTrue
  <1> QED BY <1>1, LiveTypes, HonestHolds, PTL

\* A turn that appends to a session nobody has yet has nothing to forget.
LEMMA NothingToRestore ==
    ASSUME Base, StoreTruth, NEW p \in Programs, turn[p].pc = "appending",
           NEW k \in Keys, k \notin evicted, k = turn[p].key, mem[k] = NoSession, Readable(k)
    PROVE  Replay(k).recs = << >>
  <1>1. StoreTrue(k, Replay(k).recs) /\ Locks /\ TurnHolds(p)
    BY DEF StoreTruth, Base, TurnFacts
  <1>2. Busy(p) /\ ~ Restoring(p)
    BY DEF Busy, Restoring
  <1>3. k \in tried
    BY <1>1, <1>2 DEF TurnHolds
  <1>4. ASSUME NEW q \in Programs, Restoring(q), turn[q].key = k PROVE FALSE
    <2>1. q # p
      BY <1>2, <1>4
    <2> QED BY <1>1, <1>2, <1>4, <2>1 DEF Locks
  <1> QED BY <1>1, <1>3, <1>4 DEF StoreTrue

\* A session that comes into memory brings the records its store holds.
Brings(k) ==
    mem[k] = NoSession /\ mem'[k] # NoSession /\ ~ torn /\ Replay(k).ok =>
        \A s \in DOMAIN Kept(Replay(k).recs) :
            s \in DOMAIN mem'[k].recs /\ mem'[k].recs[s].prog = Replay(k).recs[s].prog

LEMMA BringsStep ==
    ASSUME Honest, [LiveNext]_liveVars, NEW k \in Keys, k \notin evicted
    PROVE  Brings(k)
  <1> SUFFICES ASSUME mem[k] = NoSession, mem'[k] # NoSession, ~ torn, Replay(k).ok
               PROVE  \A s \in DOMAIN Kept(Replay(k).recs) :
                         s \in DOMAIN mem'[k].recs /\ mem'[k].recs[s].prog = Replay(k).recs[s].prog
    BY DEF Brings
  <1>1. /\ Base /\ NumberFacts /\ StoreTruth /\ MemType /\ Order /\ Readable(k)
        /\ StoreTrue(k, Replay(k).recs)
    BY DEF Honest, Base, Types, Readable, StoreTruth
  <1>e. k \notin evicted'
    BY <1>1, PastStep DEF Grows
  <1>2. PICK R \in RecordMaps : R = Replay(k).recs /\ Bounded(R)
    BY <1>1 DEF Base, StoreFacts, StoreHolds
  <1>3. DOMAIN Kept(R) \in SUBSET (DOMAIN R)
    BY <1>2, KeptIs DEF Bounded
  <1>4. ASSUME NEW p \in Programs, Raise(p)
        PROVE  \A s \in DOMAIN Kept(R) : s \in DOMAIN mem'[k].recs /\ mem'[k].recs[s].prog = R[s].prog
    <2>1. PICK x \in Keys, seen \in RecordMaps :
              /\ x = turn[p].key /\ seen = turn[p].seen
              /\ turn[p].pc = "raising"
              /\ \/ seen = << >> /\ mem' = mem
                 \/ seen # << >> /\ Put(x, Restored(seen))
              /\ Bounded(seen)
      BY <1>1, <1>4, RaiseIs
    <2>2. seen # << >> /\ Put(x, Restored(seen))
      BY <2>1
    <2>3. PICK session \in Sessions :
             /\ session = Restored(seen)
             /\ DOMAIN session.recs = DOMAIN Kept(seen)
             /\ DOMAIN session.recs \in SUBSET (DOMAIN seen)
             /\ \A s \in DOMAIN session.recs : session.recs[s] = [seen[s] EXCEPT !.stage = RestoredStage(@)]
      BY <2>1, <2>2, RestoredIs DEF Bounded
    <2>4. mem'[x] = session /\ \A y \in Keys \ {x} : y \notin evicted' => mem'[y] = mem[y]
      BY <1>1, <2>2, <2>3, PutIs
    <2>5. x = k
      BY <1>e, <2>4
    <2>6. seen = R
      BY <1>1, <1>2, <2>1, <2>5 DEF StoreTrue
    <2>7. ASSUME NEW s \in DOMAIN Kept(R)
          PROVE  s \in DOMAIN mem'[k].recs /\ mem'[k].recs[s].prog = R[s].prog
      <3>1. PICK r \in Records : r = R[s]
        BY <1>3, <2>7, MapElements
      <3>2. PICK record : record = [r EXCEPT !.stage = RestoredStage(@)]
        OBVIOUS
      <3>3. record.prog = r.prog
        BY <3>2 DEF Records
      <3>4. s \in DOMAIN session.recs /\ session.recs[s] = record
        BY <2>3, <2>6, <2>7, <3>1, <3>2
      <3> QED BY <2>4, <2>5, <3>1, <3>3, <3>4
    <2> QED BY <2>7
  <1>5. ASSUME NEW p \in Programs, AppendProgram(p)
        PROVE  \A s \in DOMAIN Kept(R) : s \in DOMAIN mem'[k].recs /\ mem'[k].recs[s].prog = R[s].prog
    <2>1. PICK x \in Keys, session \in Sessions : x = turn[p].key /\ turn[p].pc = "appending" /\ Put(x, session)
      BY <1>1, <1>5, AppendProgramIs
    <2>2. x = k
      BY <1>e, <1>1, <2>1, PutIs
    <2>3. R = << >>
      BY <1>1, <1>2, <2>1, <2>2, NothingToRestore
    <2> QED BY <1>3, <2>3, EmptyMap
  <1>6. CASE Crash
    BY <1>1, <1>6, CrashIs
  <1>7. CASE \E p \in Programs : Publish(p) \/ ReadStore(p)
    BY <1>7 DEF Publish, ReadStore
  <1>8. CASE /\ ~ Crash
             /\ \A p \in Programs : ~ Publish(p) /\ ~ ReadStore(p) /\ ~ Raise(p) /\ ~ AppendProgram(p)
    BY <1>e, <1>1, <1>8, RestStep
  <1> QED BY <1>2, <1>4, <1>5, <1>6, <1>7, <1>8

\* A session that was never pushed out of memory is restored with every record its
\* store holds, and nobody starts an empty one beside it, whatever became of the
\* other sessions (journal.py 878-1000).
THEOREM NothingForgottenAlways == LiveSpec => NothingForgotten
  <1>1. Honest /\ [LiveNext]_liveVars =>
           [\A k \in Keys \ evicted :
              mem[k] = NoSession /\ mem'[k] # NoSession /\ ~torn /\ Replay(k).ok =>
                 \A s \in DOMAIN Kept(Replay(k).recs) :
                    InMemory(k, s)' /\ mem'[k].recs[s].prog = Replay(k).recs[s].prog]_liveVars
    BY BringsStep DEF Brings, InMemory
  <1> QED BY <1>1, HonestHolds, PTL DEF LiveSpec, NothingForgotten

(* --------------------------- memory and its store ---------------------------- *)

\* A turn at work that has nothing left to write.
Plain == Working \ {"storing", "bound", "marked", "staged"}

\* What the record m, number s, is to the records R its session is read as: the
\* turn that owns it has at most the one line it holds still to write, and the
\* record of a turn that is over may have been restored.
MirrorRec(s, m, R) ==
    LET t == turn[m.prog]
    IN /\ t.pc = "storing" => m = NewRecord(m.prog)
       /\ t.pc # "storing" => s \in DOMAIN R
       /\ t.pc = "bound" => m = [R[s] EXCEPT !.ops = @ \cup {t.line.value}]
       /\ t.pc \in {"marked", "staged"} => m = [R[s] EXCEPT !.stage = t.line.value]
       /\ t.pc \in Plain => m = R[s]
       /\ t.pc = "over" => m = R[s] \/ m = [R[s] EXCEPT !.stage = RestoredStage(@)]

\* A program is in the store once its turn has written it, and the stage that a
\* turn is about to write is one the replay takes.
MirrorTurn(k, p, R) ==
    LET t == turn[p]
    IN Live(p) /\ t.key = k =>
          /\ t.pc = "storing" <=> t.seq \notin DOMAIN R
          /\ t.pc \in {"marked", "staged"} => Forward(R[t.seq].stage, t.line.value)

MirrorOf(k, R) ==
    /\ \A p \in Programs : MirrorTurn(k, p, R)
    /\ \A s \in DOMAIN mem[k].recs : MirrorRec(s, mem[k].recs[s], R)

Mirror ==
    ~ lost /\ ~ torn =>
        \A k \in Keys \ (evicted \cup reconciled) : Replay(k).ok /\ MirrorOf(k, Replay(k).recs)

LEMMA MirrorActs ==
    ASSUME NEW k, NEW R, NEW p \in Programs, Acts(p), MirrorOf(k, R), MirrorTurn(k, p, R)',
           MemType, MemType', k \in Keys,
           \A s \in DOMAIN mem'[k].recs : \E m \in Records :
               /\ m = mem'[k].recs[s]
               /\ \/ s \in DOMAIN mem[k].recs /\ m = mem[k].recs[s] /\ m.prog # p
                  \/ MirrorRec(s, m, R)'
    PROVE  MirrorOf(k, R)'
  <1>1. ASSUME NEW q \in Programs PROVE MirrorTurn(k, q, R)'
    <2>1. CASE q = p
      BY <2>1
    <2>2. CASE q # p
      BY <2>2 DEF MirrorOf, MirrorTurn, Acts, Live
    <2> QED BY <2>1, <2>2
  <1>2. ASSUME NEW s \in DOMAIN mem'[k].recs PROVE MirrorRec(s, mem[k].recs[s], R)'
    <2>1. PICK m \in Records :
             /\ m = mem'[k].recs[s]
             /\ \/ s \in DOMAIN mem[k].recs /\ m = mem[k].recs[s] /\ m.prog # p
                \/ MirrorRec(s, m, R)'
      BY <1>2
    <2>2. MirrorRec(s, m, R)'
      <3>1. CASE s \in DOMAIN mem[k].recs /\ m = mem[k].recs[s] /\ m.prog # p
        <4>1. m.prog \in Programs
          BY DEF Records
        <4>2. turn'[m.prog] = turn[m.prog]
          BY <3>1, <4>1 DEF Acts
        <4>3. MirrorRec(s, m, R)
          BY <3>1 DEF MirrorOf
        <4> QED BY <4>2, <4>3 DEF MirrorRec
      <3> QED BY <2>1, <3>1
    <2> QED BY <2>1, <2>2 DEF MirrorRec
  <1> QED BY <1>1, <1>2 DEF MirrorOf

\* A turn that does not own a record of the session: one that has not begun.
LEMMA OwnedIs ==
    ASSUME Base, NEW k \in Keys, NEW s \in DOMAIN mem[k].recs
    PROVE  \E m \in Records :
              /\ m = mem[k].recs[s] /\ MemHolds(k, s, m)
              /\ m.prog \in Programs /\ turn[m.prog].pc \in Working \cup {"over"}
              /\ Live(m.prog) => turn[m.prog].key = k /\ turn[m.prog].seq = s
  <1>1. PICK m \in Records : m = mem[k].recs[s]
    BY MemFields DEF Base, Types
  <1>2. MemHolds(k, s, m)
    BY <1>1 DEF Base, MemFacts
  <1>3. m.prog \in Programs
    BY DEF Records
  <1> QED BY <1>1, <1>2, <1>3 DEF MemHolds

\* A turn that has not begun to work moves on.
LEMMA MirrorBefore ==
    ASSUME Base, Base', NEW k \in Keys, NEW R, MirrorOf(k, R), NEW p \in Programs, Acts(p),
           turn[p].pc \in Before, turn'[p].pc \in Before, mem'[k].recs = mem[k].recs
    PROVE  MirrorOf(k, R)'
  <1>1. MirrorTurn(k, p, R)'
    BY DEF MirrorTurn, Live, Before, Working
  <1>2. ASSUME NEW s \in DOMAIN mem'[k].recs
        PROVE  \E m \in Records : /\ m = mem'[k].recs[s]
                                  /\ s \in DOMAIN mem[k].recs /\ m = mem[k].recs[s] /\ m.prog # p
    <2>1. PICK m \in Records : m = mem[k].recs[s] /\ turn[m.prog].pc \in Working \cup {"over"}
      BY <1>2, OwnedIs
    <2>2. m.prog # p
      BY <2>1 DEF Before, Working
    <2> QED BY <1>2, <2>1, <2>2
  <1> QED BY <1>1, <1>2, MirrorActs DEF Base, Types

\* A turn at work moves on, and has neither had nor has anything to write.
LEMMA MirrorPlain ==
    ASSUME Base, Base', NEW k \in Keys, NEW R, MirrorOf(k, R), NEW p \in Programs, Acts(p),
           turn[p].pc \in Plain, turn'[p].pc \in Plain \cup {"over"},
           turn'[p].pc # "over" => turn'[p].key = turn[p].key /\ turn'[p].seq = turn[p].seq,
           mem'[k].recs = mem[k].recs
    PROVE  MirrorOf(k, R)'
  <1>1. MirrorTurn(k, p, R)'
    BY DEF MirrorOf, MirrorTurn, Live, Plain, Working
  <1>2. ASSUME NEW s \in DOMAIN mem'[k].recs
        PROVE  \E m \in Records : /\ m = mem'[k].recs[s]
                                  /\ \/ s \in DOMAIN mem[k].recs /\ m = mem[k].recs[s] /\ m.prog # p
                                     \/ MirrorRec(s, m, R)'
    <2>1. PICK m \in Records : m = mem[k].recs[s]
      BY <1>2, OwnedIs
    <2>2. CASE m.prog # p
      BY <1>2, <2>1, <2>2
    <2>3. CASE m.prog = p
      <3>1. MirrorRec(s, m, R)
        BY <1>2, <2>1 DEF MirrorOf
      <3>2. m = R[s] /\ s \in DOMAIN R
        BY <2>3, <3>1 DEF MirrorRec, Plain
      <3>3. MirrorRec(s, m, R)'
        BY <2>3, <3>2 DEF MirrorRec, Plain, Working
      <3> QED BY <1>2, <2>1, <3>3
    <2> QED BY <2>2, <2>3
  <1> QED BY <1>1, <1>2, MirrorActs DEF Base, Types

\* The turn moved its record from m and has the line of it to write.
HoldsLine(p, m, record) ==
    \/ turn'[p].pc = "bound" /\ record = [m EXCEPT !.ops = @ \cup {turn'[p].line.value}]
    \/ /\ turn'[p].pc \in {"marked", "staged"}
       /\ record = [m EXCEPT !.stage = turn'[p].line.value]
       /\ Forward(m.stage, turn'[p].line.value)

\* A turn at work moves its record, and holds the line that says so.
LEMMA MirrorSet ==
    ASSUME Base, Base', NumberFacts, NEW k \in Keys, k \notin evicted,
           NEW R \in RecordMaps, MirrorOf(k, R), NEW p \in Programs, Acts(p), turn[p].pc \in Plain, lru' = lru,
           NEW x \in Keys, x = turn[p].key, NEW seq \in DOMAIN mem[x].recs, seq = turn[p].seq,
           NEW m \in Records, m = mem[x].recs[seq], NEW record \in Records, SetRecord(x, seq, record),
           turn'[p].key = x, turn'[p].seq = seq, record.prog = m.prog, HoldsLine(p, m, record)
    PROVE  MirrorOf(k, R)'
  <1>1. /\ \A y \in Keys : y # x => mem'[y] = mem[y]
        /\ DOMAIN mem'[x].recs = DOMAIN mem[x].recs
        /\ mem'[x].recs[seq] = record
        /\ \A s \in DOMAIN mem[x].recs : s # seq => mem'[x].recs[s] = mem[x].recs[s]
    BY SetRecordIs DEF Base, Types
  <1>2. Live(p)
    BY DEF Plain, Live
  <1>3. CASE k = x
    <2>n. m.prog = p
      BY <1>2, <1>3 DEF NumberFacts, NumberHolds
    <2>1. MirrorRec(seq, m, R) /\ MirrorTurn(k, p, R)
      BY <1>3 DEF MirrorOf
    <2>2. m = R[seq] /\ seq \in DOMAIN R
      BY <2>n, <2>1 DEF MirrorRec, Plain
    <2>3. MirrorTurn(k, p, R)'
      BY <1>2, <1>3, <2>2 DEF MirrorTurn, Live, HoldsLine
    <2>4. MirrorRec(seq, record, R)'
      BY <2>n, <2>2 DEF MirrorRec, Plain, HoldsLine
    <2>5. ASSUME NEW s \in DOMAIN mem'[k].recs
          PROVE  \E r \in Records : /\ r = mem'[k].recs[s]
                                    /\ \/ s \in DOMAIN mem[k].recs /\ r = mem[k].recs[s] /\ r.prog # p
                                       \/ MirrorRec(s, r, R)'
      <3>1. CASE s = seq
        BY <1>1, <1>3, <2>4, <3>1
      <3>2. CASE s # seq
        <4>0. s \in DOMAIN mem[k].recs
          BY <1>1, <1>3, <2>5
        <4>1. PICK r \in Records :
                 /\ r = mem[k].recs[s] /\ r.prog \in Programs
                 /\ Live(r.prog) => turn[r.prog].key = k /\ turn[r.prog].seq = s
          BY <4>0, OwnedIs
        <4>2. r.prog # p
          BY <1>2, <3>2, <4>1
        <4> QED BY <1>1, <1>3, <2>5, <3>2, <4>1, <4>2
      <3> QED BY <3>1, <3>2
    <2> QED BY <2>3, <2>5, MirrorActs DEF Base, Types
  <1>4. CASE k # x
    <2>1. MirrorTurn(k, p, R)'
      BY <1>4 DEF MirrorTurn
    <2>2. ASSUME NEW s \in DOMAIN mem'[k].recs
          PROVE  \E r \in Records : /\ r = mem'[k].recs[s]
                                    /\ s \in DOMAIN mem[k].recs /\ r = mem[k].recs[s] /\ r.prog # p
      <3>1. mem'[k] = mem[k]
        BY <1>1, <1>4
      <3>2. PICK r \in Records :
               /\ r = mem[k].recs[s] /\ r.prog \in Programs
               /\ Live(r.prog) => turn[r.prog].key = k /\ turn[r.prog].seq = s
        BY <2>2, <3>1, OwnedIs
      <3>3. r.prog # p
        BY <1>2, <1>4, <3>2
      <3> QED BY <2>2, <3>1, <3>2, <3>3
    <2> QED BY <2>1, <2>2, MirrorActs DEF Base, Types
  <1> QED BY <1>3, <1>4

\* A session that is raised is the one its store holds.
LEMMA MirrorRaise ==
    ASSUME Honest, Base', NEW k \in Keys, k \notin evicted, k \notin evicted',
           NEW R \in RecordMaps, R = Replay(k).recs,
           Readable(k), MirrorOf(k, R), NEW p \in Programs, Raise(p)
    PROVE  MirrorOf(k, R)'
  <1>1. PICK x \in Keys, seen \in RecordMaps :
            /\ x = turn[p].key /\ seen = turn[p].seen /\ Bounded(seen)
            /\ turn[p].pc = "raising" /\ mem[x] = NoSession
            /\ \/ seen = << >> /\ mem' = mem
               \/ seen # << >> /\ Put(x, Restored(seen))
            /\ Acts(p) /\ turn'[p].pc = "appending" /\ turn'[p].key = x
    BY RaiseIs DEF Honest
  <1>2. /\ Base /\ MemType /\ Order /\ StoreTrue(k, R) /\ SeenHolds(p)
        /\ turn[p].pc \in Before /\ turn'[p].pc \in Before
    BY <1>1 DEF Honest, StoreTruth, Base, Types, SeenFacts, Before
  <1>3. CASE mem' = mem
    BY <1>1, <1>2, <1>3, MirrorBefore
  <1>4. CASE seen # << >> /\ Put(x, Restored(seen))
    <2>1. PICK session \in Sessions :
             /\ session = Restored(seen)
             /\ \A s \in DOMAIN session.recs :
                   s \in DOMAIN seen /\ session.recs[s] = [seen[s] EXCEPT !.stage = RestoredStage(@)]
      BY <1>1, <1>4, RestoredIs DEF Bounded
    <2>2. mem'[x] = session /\ \A y \in Keys \ {x} : y \notin evicted' => mem'[y] = mem[y]
      BY <1>2, <1>4, <2>1, PutIs
    <2>3. CASE x # k
      <3>1. mem'[k].recs = mem[k].recs
        BY <2>2, <2>3
      <3> QED BY <1>1, <1>2, <3>1, MirrorBefore
    <2>4. CASE x = k
      <3>1. seen = R
        BY <1>1, <1>2, <2>4 DEF StoreTrue
      <3>2. MirrorTurn(k, p, R)'
        BY <1>1 DEF MirrorTurn, Live, Working
      <3>3. ASSUME NEW s \in DOMAIN mem'[k].recs
            PROVE  \E m \in Records : m = mem'[k].recs[s] /\ MirrorRec(s, m, R)'
        <4>1. s \in DOMAIN R /\ mem'[k].recs[s] = [R[s] EXCEPT !.stage = RestoredStage(@)]
          BY <2>1, <2>2, <2>4, <3>1, <3>3
        <4>2. PICK r \in Records : r = R[s]
          BY <4>1, MapElements
        <4>3. PICK m \in Records : m = mem'[k].recs[s]
          <5>1. session.recs \in RecordMaps
            BY DEF Sessions
          <5> QED BY <2>2, <2>4, <3>3, <5>1, MapElements
        <4>4. m = [r EXCEPT !.stage = RestoredStage(@)]
          BY <4>1, <4>2, <4>3
        <4>5. m.prog = r.prog
          BY <4>4 DEF Records
        <4>6. turn[r.prog].pc = "over" /\ r.prog \in Programs
          BY <1>1, <1>2, <3>1, <4>1, <4>2 DEF SeenHolds, Records
        <4>7. turn'[m.prog].pc = "over"
          BY <1>1, <4>5, <4>6 DEF Acts
        <4>8. MirrorRec(s, m, R)'
          BY <4>1, <4>2, <4>4, <4>7 DEF MirrorRec, Plain, Working
        <4> QED BY <4>3, <4>8
      <3> QED BY <1>1, <1>2, <3>2, <3>3, MirrorActs DEF Base, Types
    <2> QED BY <2>3, <2>4
  <1> QED BY <1>1, <1>3, <1>4

\* A program that is appended is not in the store yet.
LEMMA MirrorAppend ==
    ASSUME Honest, Base', NEW k \in Keys, k \notin evicted, k \notin evicted',
           NEW R \in RecordMaps, R = Replay(k).recs,
           Readable(k), MirrorOf(k, R), NEW p \in Programs, AppendProgram(p)
    PROVE  MirrorOf(k, R)'
  <1>1. PICK x \in Keys, session \in Sessions, seq \in Nat :
            /\ x = turn[p].key /\ turn[p].pc = "appending"
            /\ seq = (IF mem[x] = NoSession THEN 0 ELSE mem[x].next)
            /\ \A s \in DOMAIN mem[x].recs : s < seq
            /\ Put(x, session) /\ session.next = seq + 1
            /\ \A s \in DOMAIN session.recs :
                  \/ s = seq /\ session.recs[s] = NewRecord(p)
                  \/ s \in DOMAIN mem[x].recs /\ session.recs[s] = mem[x].recs[s]
            /\ Acts(p)
            /\ turn'[p].pc = "storing" /\ turn'[p].seq = seq /\ turn'[p].key = x
    BY AppendProgramIs DEF Honest
  <1>2. Base /\ MemType /\ Order /\ StoreTruth /\ StoreTrue(k, R)
    BY DEF Honest, StoreTruth, Base, Types
  <1>3. mem'[x] = session /\ \A y \in Keys \ {x} : y \notin evicted' => mem'[y] = mem[y]
    BY <1>1, <1>2, PutIs
  <1>4. ASSUME NEW s \in DOMAIN mem[k].recs
        PROVE  \E m \in Records : m = mem[k].recs[s] /\ m.prog # p
    <2>1. PICK m \in Records : m = mem[k].recs[s] /\ turn[m.prog].pc \in Working \cup {"over"}
      BY <1>2, OwnedIs
    <2>2. m.prog # p
      BY <1>1, <2>1 DEF Working
    <2> QED BY <2>1, <2>2
  <1>5. CASE x # k
    <2>1. MirrorTurn(k, p, R)'
      BY <1>1, <1>5 DEF MirrorTurn
    <2>2. mem'[k] = mem[k]
      BY <1>3, <1>5
    <2> QED BY <1>1, <1>2, <1>4, <2>1, <2>2, MirrorActs DEF Base, Types
  <1>6. CASE x = k
    <2>1. mem[k] = NoSession => R = << >>
      BY <1>1, <1>2, <1>6, NothingToRestore
    <2>2. mem[k] # NoSession => \A s \in DOMAIN R : s < mem[k].next
      BY <1>2 DEF StoreTrue
    <2>3. seq \notin DOMAIN R
      <3>1. CASE mem[k] = NoSession
        BY <2>1, <3>1, EmptyMap
      <3>2. CASE mem[k] # NoSession
        <4>1. \A s \in DOMAIN R : s < seq
          BY <1>1, <1>6, <2>2, <3>2
        <4> QED BY <4>1
      <3> QED BY <3>1, <3>2
    <2>4. MirrorTurn(k, p, R)'
      BY <1>1, <2>3 DEF MirrorTurn
    <2>n. NewRecord(p) \in Records
      BY DEF NewRecord, Records, Main
    <2>5. PICK new \in Records : new = NewRecord(p) /\ new.prog = p
      BY <2>n DEF NewRecord
    <2>6. MirrorRec(seq, new, R)'
      BY <1>1, <2>5 DEF MirrorRec, Plain
    <2>7. ASSUME NEW s \in DOMAIN mem'[k].recs
          PROVE  \E m \in Records : /\ m = mem'[k].recs[s]
                                    /\ \/ s \in DOMAIN mem[k].recs /\ m = mem[k].recs[s] /\ m.prog # p
                                       \/ MirrorRec(s, m, R)'
      <3>1. CASE s = seq /\ session.recs[s] = NewRecord(p)
        BY <1>3, <1>6, <2>5, <2>6, <3>1
      <3>2. CASE s \in DOMAIN mem[x].recs /\ session.recs[s] = mem[x].recs[s]
        BY <1>3, <1>4, <1>6, <3>2
      <3> QED BY <1>1, <1>3, <1>6, <2>7, <3>1, <3>2
    <2> QED BY <1>1, <1>2, <2>4, <2>7, MirrorActs DEF Base, Types
  <1> QED BY <1>5, <1>6

\* The line a turn writes makes its store what memory is.
LEMMA MirrorWrite ==
    ASSUME Honest, Base', NEW k \in Keys, k \notin evicted, NEW R \in RecordMaps, MirrorOf(k, R),
           NEW p \in Programs, WriteLine(p),
           NEW line \in Lines, line = turn[p].line, line.key = k
    PROVE  Fits(R, line) /\ \E S \in RecordMaps : S = Absorb(R, line) /\ MirrorOf(k, S)'
  <1>1. Base /\ NumberFacts
    BY DEF Honest
  <1>2. /\ turn[p].pc \in {"storing", "bound", "marked", "staged"} /\ Live(p) /\ Acts(p)
        /\ turn[p].pc # "staged" =>
              /\ turn'[p].pc = IF turn[p].pc = "storing" THEN "binding"
                               ELSE IF turn[p].pc = "bound" THEN "marking" ELSE "sending"
              /\ turn'[p].key = turn[p].key /\ turn'[p].seq = turn[p].seq
        /\ turn[p].pc = "staged" => turn'[p].pc = "over"
    BY <1>1, AfterWrite DEF Works, Goes
  <1>3. PICK seq \in Nat :
           /\ seq = turn[p].seq /\ line.seq = seq /\ turn[p].key = k
           /\ line.event = IF turn[p].pc = "storing" THEN "program"
                           ELSE IF turn[p].pc = "bound" THEN "operation" ELSE "stage"
           /\ turn[p].pc = "storing" => line.value = p
    BY <1>1, <1>2, LineOf
  <1>4. /\ turn[p].pc = "storing" <=> seq \notin DOMAIN R
        /\ turn[p].pc \in {"marked", "staged"} => Forward(R[seq].stage, line.value)
    BY <1>2, <1>3 DEF MirrorOf, MirrorTurn
  <1>5. Fits(R, line)
    BY <1>2, <1>3, <1>4 DEF Fits
  <1>6. PICK S \in RecordMaps : S = Absorb(R, line)
    BY AbsorbIs
  <1>7. /\ DOMAIN S = DOMAIN R \cup {seq}
        /\ \A s \in DOMAIN R : s # seq => S[s] = R[s]
        /\ turn[p].pc = "storing" => S[seq] = NewRecord(p)
        /\ turn[p].pc = "bound" => S[seq] = [R[seq] EXCEPT !.ops = @ \cup {line.value}]
        /\ turn[p].pc \in {"marked", "staged"} => S[seq] = [R[seq] EXCEPT !.stage = line.value]
    <2>1. line.seq = seq
      BY <1>3
    <2>2. DOMAIN S = IF line.event = "program" THEN DOMAIN R \cup {seq} ELSE DOMAIN R
      <3>1. CASE line.event = "program"
        BY <1>6, <2>1, <3>1 DEF Absorb, With
      <3>2. CASE line.event # "program" /\ seq \notin DOMAIN R
        BY <1>6, <2>1, <3>2 DEF Absorb
      <3>3. CASE line.event # "program" /\ seq \in DOMAIN R
        <4>1. \E r : S = With(R, seq, r)
          BY <1>6, <2>1, <3>3 DEF Absorb
        <4>2. DOMAIN S = DOMAIN R \cup {seq}
          BY <4>1 DEF With
        <4> QED BY <3>3, <4>2
      <3> QED BY <3>1, <3>2, <3>3
    <2>3. \A s \in DOMAIN R : s # seq => S[s] = R[s]
      BY <1>6, <2>1, AbsorbIs
    <2>4. line.event = "program" => S[seq] = NewRecord(line.value)
      BY <1>6, <2>1, AbsorbIs
    <2>5. line.event = "operation" /\ seq \in DOMAIN R => S[seq] = [R[seq] EXCEPT !.ops = @ \cup {line.value}]
      BY <1>6, <2>1, AbsorbIs
    <2>6. line.event = "stage" /\ seq \in DOMAIN R => S[seq] = [R[seq] EXCEPT !.stage = line.value]
      BY <1>6, <2>1, AbsorbIs
    <2>7. DOMAIN S = DOMAIN R \cup {seq}
      BY <1>2, <1>3, <1>4, <2>2
    <2>8. turn[p].pc = "storing" => S[seq] = NewRecord(p)
      BY <1>3, <2>4
    <2>9. turn[p].pc = "bound" => S[seq] = [R[seq] EXCEPT !.ops = @ \cup {line.value}]
      BY <1>3, <1>4, <2>5
    <2>10. turn[p].pc \in {"marked", "staged"} => S[seq] = [R[seq] EXCEPT !.stage = line.value]
      BY <1>3, <1>4, <2>6
    <2> QED BY <2>3, <2>7, <2>8, <2>9, <2>10
  <1>8. ASSUME NEW q \in Programs PROVE MirrorTurn(k, q, S)'
    <2>1. CASE q = p
      <3>1. /\ turn'[p].pc \in {"binding", "marking", "sending", "over"}
            /\ turn'[p].pc # "over" => turn'[p].seq = seq
        BY <1>2, <1>3
      <3>2. seq \in DOMAIN S
        BY <1>7
      <3>3. ~ (turn'[p].pc \in Working /\ turn'[p].pc = "over")
        BY DEF Working
      <3> QED BY <2>1, <3>1, <3>2, <3>3 DEF MirrorTurn, Live
    <2>2. CASE q # p
      <3>1. turn'[q] = turn[q] /\ MirrorTurn(k, q, R)
        BY <1>2, <2>2 DEF Acts, MirrorOf
      <3>2. Live(q) /\ turn[q].key = k => turn[q].seq # seq
        BY <1>1, <1>2, <1>3, <2>2 DEF NumberFacts, NumberHolds
      <3>3. Live(q) /\ turn[q].key = k =>
               /\ turn[q].seq \in DOMAIN S <=> turn[q].seq \in DOMAIN R
               /\ turn[q].seq \in DOMAIN R => S[turn[q].seq] = R[turn[q].seq]
        BY <1>7, <3>2
      <3>4. Live(q) /\ turn[q].key = k =>
               /\ turn[q].pc = "storing" <=> turn[q].seq \notin DOMAIN S
               /\ turn[q].pc \in {"marked", "staged"} => Forward(S[turn[q].seq].stage, turn[q].line.value)
        BY <3>1, <3>3 DEF MirrorTurn
      <3> QED BY <3>1, <3>4 DEF MirrorTurn, Live
    <2> QED BY <2>1, <2>2
  <1>9. ASSUME NEW s \in DOMAIN mem'[k].recs PROVE MirrorRec(s, mem[k].recs[s], S)'
    <2>1. mem' = mem
      BY DEF WriteLine
    <2>n. s \in DOMAIN mem[k].recs
      BY <1>9, <2>1
    <2>2. PICK m \in Records :
             /\ m = mem[k].recs[s] /\ m.prog \in Programs
             /\ Live(m.prog) => turn[m.prog].key = k /\ turn[m.prog].seq = s
      BY <1>1, <2>n, OwnedIs
    <2>3. MirrorRec(s, m, R)
      BY <1>9, <2>1, <2>2 DEF MirrorOf
    <2>4. MirrorRec(s, m, S)'
      <3>1. CASE s # seq
        <4>1. m.prog # p
          BY <1>2, <1>3, <2>2, <3>1
        <4>2. turn'[m.prog] = turn[m.prog]
          BY <1>2, <2>2, <4>1 DEF Acts
        <4>3. (s \in DOMAIN R => s \in DOMAIN S /\ S[s] = R[s])
          BY <1>7, <3>1
        <4>4. turn[m.prog].pc \in Plain \cup {"bound", "marked", "staged", "over"} => s \in DOMAIN R
          BY <2>3 DEF MirrorRec, Plain
        <4> QED BY <2>3, <4>2, <4>3, <4>4 DEF MirrorRec
      <3>2. CASE s = seq
        <4>1. m.prog = p
          BY <1>1, <1>2, <1>3, <1>9, <2>1, <2>2, <3>2 DEF NumberFacts, NumberHolds
        <4>2. m = S[s]
          BY <1>2, <1>7, <2>3, <3>2, <4>1 DEF MirrorRec
        <4>3. turn'[p].pc \in Plain \cup {"over"} /\ turn'[p].pc # "storing"
          BY <1>2 DEF Plain, Working
        <4>4. s \in DOMAIN S
          BY <1>7, <3>2
        <4> QED BY <4>1, <4>2, <4>3, <4>4 DEF MirrorRec, Plain
      <3> QED BY <3>1, <3>2
    <2> QED BY <2>1, <2>2, <2>4 DEF MirrorRec
  <1> QED BY <1>5, <1>6, <1>8, <1>9 DEF MirrorOf

\* Every step of a turn that writes nothing.
LEMMA MirrorMove ==
    ASSUME Honest, Base', NEW k \in Keys, k \notin evicted, k \notin evicted',
           NEW R \in RecordMaps, R = Replay(k).recs,
           Readable(k), MirrorOf(k, R), NEW p \in Programs, Turn(p), ~ WriteLine(p)
    PROVE  MirrorOf(k, R)'
  <1>0. Base /\ NumberFacts /\ MemType /\ Order
    BY DEF Honest, Base, Types
  <1>1. CASE Publish(p)
    <2>1. /\ Acts(p) /\ mem' = mem /\ turn[p].pc = "new"
          /\ turn'[p].pc \in {"reading", "appending"}
      BY <1>0, <1>1, PublishIs
    <2> QED BY <1>0, <2>1, MirrorBefore DEF Before
  <1>2. CASE ReadStore(p)
    <2>1. Acts(p) /\ mem' = mem /\ turn[p].pc = "reading" /\ turn'[p].pc = "raising"
      BY <1>0, <1>2, ReadStoreIs
    <2> QED BY <1>0, <2>1, MirrorBefore DEF Before
  <1>3. CASE Raise(p)
    BY <1>3, MirrorRaise
  <1>4. CASE AppendProgram(p)
    BY <1>4, MirrorAppend
  <1>5. CASE RememberSections(p)
    <2>1. PICK x \in Keys, session \in Sessions :
             turn[p].pc = "binding" /\ Put(x, session) /\ session.recs = mem[x].recs
      BY <1>0, <1>5, RememberIs
    <2>2. mem'[k].recs = mem[k].recs
      BY <1>0, <2>1, PutIs
    <2>3. turn' = turn
      BY <1>5 DEF RememberSections
    <2> QED BY <1>0, <2>1, <2>2, <2>3, MirrorPlain DEF Acts, Plain, Working
  <1>6. CASE Bind(p)
    <2>1. PICK x \in Keys, seq \in Nat, o \in Operations :
             /\ x = turn[p].key /\ seq = turn[p].seq /\ o = Current(p)
             /\ turn[p].pc = "binding" /\ Acts(p)
             /\ turn'[p].key = x /\ turn'[p].seq = seq
             /\ \/ /\ CanBind(x, seq, o)
                   /\ turn'[p].pc = "bound" /\ turn'[p].line = Line("operation", x, seq, o)
                   /\ SetRecord(x, seq, [mem[x].recs[seq] EXCEPT !.ops = @ \cup {o}])
                \/ turn'[p].pc = "sending" /\ mem' = mem
      BY <1>0, <1>6, BindIs
    <2>2. CASE turn'[p].pc = "sending" /\ mem' = mem
      BY <1>0, <2>1, <2>2, MirrorPlain DEF Plain, Working
    <2>3. CASE /\ CanBind(x, seq, o)
               /\ turn'[p].pc = "bound" /\ turn'[p].line = Line("operation", x, seq, o)
               /\ SetRecord(x, seq, [mem[x].recs[seq] EXCEPT !.ops = @ \cup {o}])
      <3>1. seq \in DOMAIN mem[x].recs
        BY <2>3 DEF CanBind, InMemory
      <3>2. PICK m \in Records : m = mem[x].recs[seq]
        BY <1>0, <3>1, MemFields
      <3>3. PICK record : record = [m EXCEPT !.ops = @ \cup {o}]
        OBVIOUS
      <3>4. record \in Records /\ record.prog = m.prog
        BY <3>3 DEF Records
      <3>5. turn'[p].line.value = o
        BY <2>3 DEF Line
      <3>6. HoldsLine(p, m, record)
        BY <2>3, <3>3, <3>5 DEF HoldsLine
      <3>7. lru' = lru /\ turn[p].pc \in Plain
        BY <1>6, <2>1 DEF Bind, Plain, Working
      <3> QED BY <1>0, <2>1, <2>3, <3>1, <3>2, <3>3, <3>4, <3>6, <3>7, MirrorSet
    <2> QED BY <2>1, <2>2, <2>3
  <1>7. ASSUME NEW stage \in Main \cup Side, NEW x \in Keys, NEW seq \in Nat,
               x = turn[p].key, seq = turn[p].seq, turn[p].pc \in {"marking", "ending"}, Acts(p), lru' = lru,
               turn'[p].key = x, turn'[p].seq = seq, turn'[p].pc \in {"marked", "staged"},
               turn'[p].line = Line("stage", x, seq, stage),
               CanAdvance(x, seq, stage), SetRecord(x, seq, [mem[x].recs[seq] EXCEPT !.stage = stage])
        PROVE  MirrorOf(k, R)'
    <2>1. seq \in DOMAIN mem[x].recs
      BY <1>7 DEF CanAdvance, InMemory
    <2>2. PICK m \in Records : m = mem[x].recs[seq]
      BY <1>0, <2>1, MemFields
    <2>3. PICK record : record = [m EXCEPT !.stage = stage]
      OBVIOUS
    <2>4. record \in Records /\ record.prog = m.prog
      BY <2>3 DEF Records
    <2>5. turn'[p].line.value = stage
      BY <1>7 DEF Line
    <2>6. Forward(m.stage, stage)
      BY <1>7, <2>2 DEF CanAdvance
    <2>7. HoldsLine(p, m, record)
      BY <1>7, <2>3, <2>5, <2>6 DEF HoldsLine
    <2>8. turn[p].pc \in Plain
      BY <1>7 DEF Plain, Working
    <2> QED BY <1>0, <1>7, <2>1, <2>2, <2>3, <2>4, <2>7, <2>8, MirrorSet
  <1>8. CASE MarkDispatched(p)
    <2>1. PICK x \in Keys, seq \in Nat :
             /\ x = turn[p].key /\ seq = turn[p].seq /\ turn[p].pc = "marking" /\ Acts(p)
             /\ turn'[p].key = x /\ turn'[p].seq = seq
             /\ \/ /\ CanAdvance(x, seq, "dispatched")
                   /\ turn'[p].pc = "marked" /\ turn'[p].line = Line("stage", x, seq, "dispatched")
                   /\ SetRecord(x, seq, [mem[x].recs[seq] EXCEPT !.stage = "dispatched"])
                \/ turn'[p].pc = "sending" /\ mem' = mem
      BY <1>0, <1>8, MarkIs
    <2>2. CASE turn'[p].pc = "sending" /\ mem' = mem
      BY <1>0, <2>1, <2>2, MirrorPlain DEF Plain, Working
    <2>3. CASE /\ CanAdvance(x, seq, "dispatched")
               /\ turn'[p].pc = "marked" /\ turn'[p].line = Line("stage", x, seq, "dispatched")
               /\ SetRecord(x, seq, [mem[x].recs[seq] EXCEPT !.stage = "dispatched"])
      <3>1. lru' = lru
        BY <1>8 DEF MarkDispatched
      <3>2. PICK stage \in Main \cup Side : stage = "dispatched"
        BY DEF Main
      <3> QED BY <1>7, <2>1, <2>3, <3>1, <3>2
    <2> QED BY <2>1, <2>2, <2>3
  <1>9. CASE Stage(p)
    <2>1. PICK x \in Keys, seq \in Nat, stage \in Main \cup Side :
             /\ x = turn[p].key /\ seq = turn[p].seq /\ stage = FinalStage(p)
             /\ turn[p].pc = "ending" /\ Acts(p)
             /\ \/ /\ CanAdvance(x, seq, stage)
                   /\ turn'[p].pc = "staged" /\ turn'[p].line = Line("stage", x, seq, stage)
                   /\ turn'[p].key = x /\ turn'[p].seq = seq
                   /\ SetRecord(x, seq, [mem[x].recs[seq] EXCEPT !.stage = stage])
                \/ turn'[p].pc = "over" /\ mem' = mem
      BY <1>0, <1>9, StageIs
    <2>2. CASE turn'[p].pc = "over" /\ mem' = mem
      BY <1>0, <2>1, <2>2, MirrorPlain DEF Plain, Working
    <2>3. CASE /\ CanAdvance(x, seq, stage)
               /\ turn'[p].pc = "staged" /\ turn'[p].line = Line("stage", x, seq, stage)
               /\ turn'[p].key = x /\ turn'[p].seq = seq
               /\ SetRecord(x, seq, [mem[x].recs[seq] EXCEPT !.stage = stage])
      <3>1. lru' = lru
        BY <1>9 DEF Stage
      <3> QED BY <1>7, <2>1, <2>3, <3>1
    <2> QED BY <2>1, <2>2, <2>3
  <1>10. CASE SendChunk(p)
    <2>1. /\ turn[p].pc = "sending" /\ Acts(p) /\ mem' = mem
          /\ turn'[p].key = turn[p].key /\ turn'[p].seq = turn[p].seq
          /\ turn'[p].pc \in {"waiting", "ending"}
      BY <1>0, <1>10, SendIs
    <2> QED BY <1>0, <2>1, MirrorPlain DEF Plain, Working
  <1>11. CASE StopEarly(p)
    <2>1. /\ turn[p].pc = "binding" /\ Acts(p) /\ mem' = mem
          /\ turn'[p].key = turn[p].key /\ turn'[p].seq = turn[p].seq
          /\ turn'[p].pc = "ending"
      BY <1>0, <1>11, StopIs
    <2> QED BY <1>0, <2>1, MirrorPlain DEF Plain, Working
  <1>12. CASE Answer(p)
    <2>1. /\ turn[p].pc = "waiting" /\ Acts(p) /\ mem' = mem
          /\ turn'[p].key = turn[p].key /\ turn'[p].seq = turn[p].seq
          /\ turn'[p].pc \in {"binding", "ending"}
      BY <1>0, <1>12, AnswerIs
    <2> QED BY <1>0, <2>1, MirrorPlain DEF Plain, Working
  <1> QED BY <1>1, <1>2, <1>3, <1>4, <1>5, <1>6, <1>8, <1>9, <1>10, <1>11, <1>12 DEF Turn

LEMMA MirrorFrom ==
    ASSUME ~ lost' /\ ~ torn' =>
              \A k \in Keys \ (evicted' \cup reconciled') :
                  \E r \in Reading : r = Replay(k)' /\ r.ok /\ MirrorOf(k, r.recs)'
    PROVE  Mirror'
  <1> SUFFICES ASSUME ~ lost', ~ torn', NEW k \in Keys \ (evicted' \cup reconciled')
               PROVE Replay(k)'.ok /\ MirrorOf(k, Replay(k).recs)'
    BY DEF Mirror
  <1>1. PICK r \in Reading : r = Replay(k)' /\ r.ok /\ MirrorOf(k, r.recs)'
    OBVIOUS
  <1> QED BY <1>1 DEF MirrorOf, MirrorTurn, MirrorRec

\* A step that leaves the turns and the session in memory as they are.
LEMMA MirrorStands ==
    ASSUME NEW k, NEW R, MirrorOf(k, R), turn' = turn, mem'[k] = mem[k]
    PROVE  MirrorOf(k, R)'
  BY DEF MirrorOf, MirrorTurn, MirrorRec, Live

LEMMA MirrorStep ==
    ASSUME Honest, Base', Mirror, [LiveNext]_liveVars
    PROVE  Mirror'
  <1>0. Base /\ MemType /\ LinesType /\ FlagTypes /\ LateType /\ LateFacts
    BY DEF Honest, Base, Types
  <1>1. ASSUME NEW o \in Operations, Reconcile(o)
        PROVE  /\ UNCHANGED <<store, turn, lost, torn>>
               /\ \A y \in Keys : y \notin reconciled' => mem'[y] = mem[y]
    <2>1. PICK x \in Keys : \E n \in DOMAIN mem[x].recs :
             /\ SetRecord(x, n, [mem[x].recs[n] EXCEPT !.stage = "committed", !.late = TRUE])
             /\ reconciled' = reconciled \cup {x}
      BY <1>0, <1>1, ReconcileIs
    <2>2. \A y \in Keys : y # x => mem'[y] = mem[y]
      BY <1>0, <2>1 DEF SetRecord, MemType
    <2> QED BY <1>1, <2>1, <2>2 DEF Reconcile
  <1>2. ASSUME NEW o \in Operations, WriteLate(o)
        PROVE  /\ UNCHANGED <<turn, mem>> /\ (~ lost' /\ ~ torn' => ~ lost /\ ~ torn)
               /\ ~ lost' /\ ~ torn' => \A y \in Keys : y \notin reconciled => Replay(y)' = Replay(y)
    <2>1. late[o] # None /\ Write(late[o]) /\ UNCHANGED <<turn, mem>>
      BY <1>2 DEF WriteLate
    <2>2. PICK line \in Lines : line = late[o] /\ line.key \in reconciled
      BY <1>0, <2>1, LateLine DEF LateFacts
    <2>3. ASSUME NEW y \in Keys, y \notin reconciled PROVE Read(Replay(y), line, y) = Replay(y)
      <3>1. line.key # y
        BY <2>2, <2>3
      <3> QED BY <3>1 DEF Read
    <2>4. /\ torn => torn'
          /\ lost => lost'
          /\ ~ lost' /\ ~ torn' => \A y \in Keys : Replay(y)' = Read(Replay(y), line, y)
      BY <1>0, <2>1, <2>2, WriteIs
    <2> QED BY <2>1, <2>3, <2>4
  <1>e. evicted \in SUBSET evicted' /\ reconciled \in SUBSET reconciled'
    BY <1>0, PastStep DEF Grows
  <1>3. ASSUME ~ lost', ~ torn', ~ lost, ~ torn, NEW k \in Keys \ (evicted' \cup reconciled'),
               Replay(k)' = Replay(k),
               \/ Crash \/ (turn' = turn /\ mem'[k] = mem[k])
               \/ \E p \in Programs : Turn(p) /\ ~ WriteLine(p)
        PROVE  \E r \in Reading : r = Replay(k)' /\ r.ok /\ MirrorOf(k, r.recs)'
    <2>1. PICK r \in Reading : r = Replay(k) /\ r.ok /\ MirrorOf(k, r.recs)
      BY <1>e, <1>0, <1>3 DEF Base, StoreFacts, StoreHolds, Reading, Mirror
    <2>2. Replay(k)' = r
      BY <1>3, <2>1
    <2>3. PICK R \in RecordMaps : R = r.recs
      BY DEF Reading
    <2>4. MirrorOf(k, R)'
      <3>1. CASE Crash
        <4>1. /\ \A q \in Programs : turn'[q].pc \in {"new", "over"}
              /\ mem'[k].recs = << >>
          BY <1>0, <3>1, CrashIs DEF NoSession
        <4> QED BY <4>1, EmptyMap DEF MirrorOf, MirrorTurn, Live, Working
      <3>2. CASE turn' = turn /\ mem'[k] = mem[k]
        BY <2>1, <2>3, <3>2, MirrorStands
      <3>3. CASE \E p \in Programs : Turn(p) /\ ~ WriteLine(p)
        <4>1. PICK p \in Programs : Turn(p) /\ ~ WriteLine(p)
          BY <3>3
        <4>2. Readable(k)
          BY <1>3, <2>1 DEF Readable
        <4> QED BY <1>e, <1>3, <2>1, <2>3, <4>1, <4>2, MirrorMove
      <3> QED BY <1>3, <3>1, <3>2, <3>3
    <2> QED BY <2>1, <2>2, <2>3, <2>4
  <1>4. ASSUME ~ lost', ~ torn', ~ lost, ~ torn, NEW k \in Keys \ (evicted' \cup reconciled'),
               NEW p \in Programs, WriteLine(p)
        PROVE  \E r \in Reading : r = Replay(k)' /\ r.ok /\ MirrorOf(k, r.recs)'
    <2>1. PICK r \in Reading : r = Replay(k) /\ r.ok /\ MirrorOf(k, r.recs) /\ Bounded(r.recs)
      BY <1>e, <1>0, <1>4 DEF Base, StoreFacts, StoreHolds, Reading, Mirror
    <2>2. PICK R \in RecordMaps : R = r.recs
      BY DEF Reading
    <2>3. /\ turn[p].pc \in {"storing", "bound", "marked", "staged"} /\ Live(p) /\ Acts(p)
          /\ Write(turn[p].line)
          /\ turn[p].pc # "staged" => turn'[p].key = turn[p].key
          /\ turn[p].pc = "staged" => turn'[p].pc = "over"
      BY <1>0, <1>4, AfterWrite DEF Works, Goes
    <2>4. PICK line \in Lines : line = turn[p].line /\ line.key = turn[p].key
      BY <1>0, <2>3, LineOf
    <2>5. Replay(k)' = Read(r, line, k)
      BY <1>0, <1>4, <2>1, <2>3, <2>4, WriteIs
    <2>6. CASE line.key = k
      <3>1. PICK S \in RecordMaps : Fits(R, line) /\ S = Absorb(R, line) /\ MirrorOf(k, S)'
        BY <1>e, <1>4, <2>1, <2>2, <2>4, <2>6, MirrorWrite
      <3>2. PICK after \in Reading : after = Replay(k)'
        BY <2>1, <2>5, ReadIs
      <3>3. after.ok /\ after.recs = S
        BY <2>1, <2>2, <2>5, <2>6, <3>1, <3>2, ReadIs
      <3> QED BY <3>1, <3>2, <3>3
    <2>7. CASE line.key # k
      <3>1. Replay(k)' = r
        BY <2>1, <2>5, <2>7, ReadIs
      <3>2. mem' = mem
        BY <1>4 DEF WriteLine
      <3>3. MirrorTurn(k, p, R)'
        BY <2>3, <2>4, <2>7 DEF MirrorTurn, Live, Working
      <3>4. ASSUME NEW s \in DOMAIN mem'[k].recs
            PROVE  \E m \in Records : /\ m = mem'[k].recs[s]
                                      /\ s \in DOMAIN mem[k].recs /\ m = mem[k].recs[s] /\ m.prog # p
        <4>n. s \in DOMAIN mem[k].recs
          BY <3>2, <3>4
        <4>1. PICK m \in Records :
                 /\ m = mem[k].recs[s] /\ m.prog \in Programs
                 /\ Live(m.prog) => turn[m.prog].key = k /\ turn[m.prog].seq = s
          BY <1>0, <4>n, OwnedIs
        <4>2. m.prog # p
          BY <2>3, <2>4, <2>7, <4>1
        <4> QED BY <3>2, <4>n, <4>1, <4>2
      <3>5. MirrorOf(k, R)'
        BY <1>0, <2>1, <2>2, <2>3, <3>3, <3>4, MirrorActs DEF Base, Types
      <3> QED BY <2>1, <2>2, <3>1, <3>5
    <2> QED BY <2>6, <2>7
  <1>5. ~ lost' /\ ~ torn' => ~ lost /\ ~ torn
    <2>1. ASSUME NEW p \in Programs, Turn(p) PROVE ~ lost' /\ ~ torn' => ~ lost /\ ~ torn
      <3>1. CASE WriteLine(p)
        <4>1. PICK line \in Lines : line = turn[p].line /\ Write(line)
          BY <1>0, <3>1, AfterWrite, LineOf
        <4> QED BY <1>0, <4>1, WriteIs
      <3>2. CASE ~ WriteLine(p)
        BY <2>1, <3>2 DEF Turn, Publish, ReadStore, Raise, AppendProgram, RememberSections, Bind,
                          MarkDispatched, SendChunk, StopEarly, Answer, Stage
      <3> QED BY <3>1, <3>2
    <2>2. ASSUME NEW o \in Operations, Finish(o) PROVE lost' = lost /\ torn' = torn
      BY <2>2 DEF Finish
    <2>3. Crash => lost' = lost /\ (torn => torn')
      BY <1>0, CrashIs
    <2>4. UNCHANGED liveVars => lost' = lost /\ torn' = torn
      BY DEF liveVars
    <2> QED BY <1>1, <1>2, <2>1, <2>2, <2>3, <2>4 DEF LiveNext
  <1>6. ASSUME ~ lost', ~ torn', NEW k \in Keys \ (evicted' \cup reconciled')
        PROVE  \/ \E p \in Programs : WriteLine(p)
               \/ /\ Replay(k)' = Replay(k)
                  /\ \/ Crash \/ (turn' = turn /\ mem'[k] = mem[k])
                     \/ \E p \in Programs : Turn(p) /\ ~ WriteLine(p)
    <2>n. store' = store => Replay(k)' = Replay(k)
      BY DEF Replay
    <2>1. ASSUME NEW p \in Programs, Turn(p), ~ WriteLine(p) PROVE store' = store
      BY <2>1 DEF Turn, Publish, ReadStore, Raise, AppendProgram, RememberSections, Bind,
                  MarkDispatched, SendChunk, StopEarly, Answer, Stage
    <2>2. ASSUME NEW o \in Operations, Finish(o) PROVE store' = store /\ turn' = turn /\ mem'[k] = mem[k]
      BY <2>2 DEF Finish
    <2>3. Crash => store' = store
      BY <1>0, CrashIs
    <2>4. UNCHANGED liveVars => store' = store /\ turn' = turn /\ mem'[k] = mem[k]
      BY DEF liveVars
    <2>5. ASSUME NEW o \in Operations, Reconcile(o) PROVE store' = store /\ turn' = turn /\ mem'[k] = mem[k]
      BY <1>1, <1>6, <2>5
    <2>6. ASSUME NEW o \in Operations, WriteLate(o)
          PROVE  Replay(k)' = Replay(k) /\ turn' = turn /\ mem'[k] = mem[k]
      BY <1>e, <1>2, <1>6, <2>6
    <2> QED BY <2>n, <2>1, <2>2, <2>3, <2>4, <2>5, <2>6 DEF LiveNext
  <1> SUFFICES ASSUME ~ lost', ~ torn', NEW k \in Keys \ (evicted' \cup reconciled')
               PROVE  \E r \in Reading : r = Replay(k)' /\ r.ok /\ MirrorOf(k, r.recs)'
    BY MirrorFrom
  <1> QED BY <1>3, <1>4, <1>5, <1>6

LEMMA MirrorStart ==
    ASSUME LiveInit
    PROVE  Mirror
  <1>1. /\ mem = [k \in Keys |-> NoSession] /\ store = << >>
        /\ turn = [p \in Programs |-> NoTurn]
    BY DEF LiveInit
  <1>2. \A p \in Programs : turn[p].pc = "new"
    BY <1>1 DEF NoTurn
  <1>3. ASSUME NEW k \in Keys PROVE Replay(k).ok /\ MirrorOf(k, Replay(k).recs)
    <2>1. Replay(k).ok
      BY <1>1, ReplayEmpty DEF Replay, NothingRead
    <2>2. DOMAIN mem[k].recs = {}
      BY <1>1, EmptyMap DEF NoSession
    <2> QED BY <1>2, <2>1, <2>2 DEF MirrorOf, MirrorTurn, Live, Working
  <1> QED BY <1>1, <1>3 DEF Mirror

\* Where no line was lost, what a restart would read of a session that was never
\* pushed out and took no late receipt is what memory holds of it, up to a dispatch
\* that died with its process, whatever became of the other sessions
\* (journal_store.py 558-644, journal.py 815, 1320-1516).
THEOREM StoreMirrorsMemoryAlways == LiveSpec => []StoreMirrorsMemory
  <1>1. LiveInit => Honest /\ Mirror
    BY HonestStart, MirrorStart
  <1>2. (Honest /\ Mirror) /\ [LiveNext]_liveVars => (Honest /\ Mirror)'
    <2> SUFFICES ASSUME Honest, Mirror, [LiveNext]_liveVars PROVE (Honest /\ Mirror)'
      OBVIOUS
    <2>1. Honest'
      BY HonestStep
    <2>2. Base'
      BY <2>1 DEF Honest
    <2> QED BY <2>1, <2>2, MirrorStep
  <1>3. Honest /\ Mirror => StoreMirrorsMemory
    <2> SUFFICES ASSUME Base, Mirror, ~ lost, ~ torn, NEW k \in Keys \ (evicted \cup reconciled), Quiet(k)
                 PROVE  /\ Replay(k).ok
                        /\ \A s \in DOMAIN mem[k].recs :
                              LET m == mem[k].recs[s]
                                  r == Replay(k).recs[s]
                              IN /\ s \in DOMAIN Replay(k).recs
                                 /\ m = r \/ m = [r EXCEPT !.stage = RestoredStage(@)]
      BY DEF StoreMirrorsMemory, Honest
    <2>1. PICK r \in Reading : r = Replay(k) /\ r.ok /\ MirrorOf(k, r.recs)
      BY DEF Base, StoreFacts, StoreHolds, Reading, Mirror
    <2>2. PICK R \in RecordMaps : R = r.recs
      BY DEF Reading
    <2>3. ASSUME NEW s \in DOMAIN mem[k].recs
          PROVE  \E m \in Records : /\ m = mem[k].recs[s] /\ s \in DOMAIN R
                                    /\ m = R[s] \/ m = [R[s] EXCEPT !.stage = RestoredStage(@)]
      <3>1. PICK m \in Records :
               /\ m = mem[k].recs[s] /\ m.prog \in Programs
               /\ turn[m.prog].pc \in Working \cup {"over"}
               /\ Live(m.prog) => turn[m.prog].key = k /\ turn[m.prog].seq = s
        BY OwnedIs
      <3>2. turn[m.prog].pc \notin {"storing", "bound", "marked", "staged"}
        <4> SUFFICES ASSUME turn[m.prog].pc \in {"storing", "bound", "marked", "staged"} PROVE FALSE
          OBVIOUS
        <4>1. Live(m.prog)
          BY DEF Live, Working
        <4>2. PICK line \in Lines : line = turn[m.prog].line /\ line.key = k
          BY <3>1, <4>1, LineOf
        <4>3. line # None
          BY NoneAssumption
        <4> QED BY <3>1, <4>2, <4>3 DEF Quiet, Unwritten
      <3>3. MirrorRec(s, m, R)
        BY <2>1, <2>2, <3>1 DEF MirrorOf
      <3> QED BY <3>1, <3>2, <3>3 DEF MirrorRec, Plain
    <2> QED BY <2>1, <2>2, <2>3
  <1> QED BY <1>1, <1>2, <1>3, PTL DEF LiveSpec
=============================================================================
