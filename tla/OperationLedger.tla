-------------------------- MODULE OperationLedger --------------------------
(***************************************************************************)
(* What the durable journal of one connector process promises about each    *)
(* operation id, with no file, index or failure in sight: an id is absent,  *)
(* or claimed by one input, or resolved for ever.  A tombstone resolves an  *)
(* id that was never claimed.                                               *)
(*                                                                          *)
(* Abstract counterpart of Execution/OperationJournal.cs, stated in         *)
(* connector/revit/PROTOCOL.md ("The first terminal result is               *)
(* authoritative").  OperationJournal and Connector are shown to implement  *)
(* it.                                                                      *)
(***************************************************************************)
CONSTANTS Ops,               \* operation ids
          Inputs,            \* complete input bindings a request can carry
          StartedStates,     \* terminal states of an operation that started
          NotStartedStates,  \* terminal states of one that never did
          Absent             \* no record

VARIABLE ledger              \* what the journal knows of each operation id

Entry == [op : Ops, input : Inputs,
          state : {"started"} \union StartedStates \union NotStartedStates]

LedgerType == ledger \in [Ops -> Entry \union {Absent}]

Init == ledger = [op \in Ops |-> Absent]

\* An operation id is bound to an input, before anything is invoked.
Claim(op, in) ==
    /\ ledger[op] = Absent
    /\ ledger' = [ledger EXCEPT ![op] =
                    [op |-> op, input |-> in, state |-> "started"]]

\* The claimed operation gets its one terminal state.
Resolve(op, st) ==
    /\ ledger[op] # Absent
    /\ ledger[op].state = "started"
    /\ ledger' = [ledger EXCEPT ![op] =
                    [op |-> op, input |-> ledger[op].input, state |-> st]]

\* An operation id that was never claimed is closed without ever starting.
Tombstone(op, in, st) ==
    /\ ledger[op] = Absent
    /\ ledger' = [ledger EXCEPT ![op] =
                    [op |-> op, input |-> in, state |-> st]]

Next ==
    \/ \E op \in Ops, in \in Inputs : Claim(op, in)
    \/ \E op \in Ops, st \in StartedStates : Resolve(op, st)
    \/ \E op \in Ops, in \in Inputs, st \in NotStartedStates :
          Tombstone(op, in, st)

Spec == Init /\ [][Next]_ledger
=============================================================================
