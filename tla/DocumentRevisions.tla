------------------------- MODULE DocumentRevisions -------------------------
(***************************************************************************)
(* DocumentRevisionTracker (connector/revit/src/Kir.Revit.Connector/        *)
(* Context/DocumentRevisionTracker.cs): a key and a revision for every open *)
(* document, counted from Revit's change events.                            *)
(*                                                                          *)
(* A member of Docs is one native document, opened at most once; a file     *)
(* that is reopened is another one.  Managed wrappers are compared with     *)
(* Document.Equals, so an entry belongs to a document.  Everything happens  *)
(* on Revit's API thread, one event at a time.  `changes` is what really    *)
(* happened to each document, which the tracker only learns from events.    *)
(***************************************************************************)
EXTENDS Integers, FiniteSetsExt

CONSTANTS Docs,        \* native documents
          NoDoc,       \* no active document
          NoEntry,     \* the tracker has not seen the document, or pruned it
          MaxChanges   \* bound on the changes of one document

ASSUME DocAssumption == NoDoc \notin Docs
ASSUME EntryAssumption == NoEntry \notin [key : Nat, revision : Nat]
ASSUME ChangesAssumption == MaxChanges \in Nat

VARIABLES document,  \* what became of each native document
          active,    \* the active document
          changes,   \* changes made to each document (not visible to the code)
          entries,   \* _entries
          lastKey,   \* _nextDocument
          failed,    \* _failure is set
          retired    \* the tracker is disposed

trackerVars == <<entries, lastKey, failed, retired>>
documentVars == <<document, active, changes>>

Entry == [key : Nat, revision : Nat]

TrackerTypeOK ==
    /\ document \in [Docs -> {"unopened", "open", "closed"}]
    /\ active \in Docs \union {NoDoc}
    /\ changes \in [Docs -> 0 .. MaxChanges]
    /\ entries \in [Docs -> Entry \union {NoEntry}]
    /\ lastKey \in Nat
    /\ failed \in BOOLEAN
    /\ retired \in BOOLEAN

TrackerInit ==
    /\ document = [d \in Docs |-> "unopened"]
    /\ active = NoDoc
    /\ changes = [d \in Docs |-> 0]
    /\ entries = [d \in Docs |-> NoEntry]
    /\ lastKey = 0
    /\ failed = FALSE
    /\ retired = FALSE

Usable == ~failed /\ ~retired

-----------------------------------------------------------------------------
(* Entries *)

\* Entries of documents that are no longer valid are dropped; `valid` are those
\* that still are.
PruneInvalid(valid) == [d \in Docs |-> IF d \in valid THEN entries[d] ELSE NoEntry]

Valid == {d \in Docs : document[d] = "open"}

\* Keys come from a counter that is never reset.
NewEntry(kept) == [key |-> lastKey + 1, revision |-> 0]

\* The entry of a valid document, made on the first sight of it.
FindOrCreate(d) ==
    LET kept == PruneInvalid(Valid)
    IN  IF kept[d] # NoEntry THEN kept[d] ELSE NewEntry(kept)

\* FindOrCreate and what its caller makes of the entry, e.
Observe(d, e) ==
    /\ entries' = [PruneInvalid(Valid) EXCEPT ![d] = e]
    /\ lastKey' = IF PruneInvalid(Valid)[d] = NoEntry THEN lastKey + 1 ELSE lastKey
    /\ UNCHANGED failed

\* Anything that goes wrong is latched until the add-in restarts; what had been
\* done to the entries by then is never read again.
Fail ==
    /\ failed' = TRUE
    /\ UNCHANGED <<entries, lastKey>>

-----------------------------------------------------------------------------
(* Revit's events *)

\* A document is opened or made active; the tracker is not told.
Activate(d) ==
    /\ document[d] # "closed" /\ active # d
    /\ document' = [document EXCEPT ![d] = "open"]
    /\ active' = d
    /\ UNCHANGED <<changes, trackerVars>>

\* Mutant: a change event that cannot be handled is skipped.
DocumentChangedSkipsFailure(d) ==
    /\ document[d] = "open" /\ changes[d] < MaxChanges
    /\ changes' = [changes EXCEPT ![d] = @ + 1]
    /\ \/ Usable /\ Observe(d, [FindOrCreate(d) EXCEPT !.revision = @ + 1])
       \/ UNCHANGED <<entries, lastKey, failed>>
    /\ UNCHANGED <<document, active, retired>>

\* Commit, undo or redo: OnDocumentChanged counts it or fails.
DocumentChanged(d) ==
    /\ document[d] = "open" /\ changes[d] < MaxChanges
    /\ changes' = [changes EXCEPT ![d] = @ + 1]
    /\ \/ /\ Usable
          /\ Observe(d, [FindOrCreate(d) EXCEPT !.revision = @ + 1])
       \/ /\ Usable
          /\ Fail
       \/ /\ ~Usable
          /\ UNCHANGED <<entries, lastKey, failed>>
    /\ UNCHANGED <<document, active, retired>>

\* The document goes, and its wrappers with it; OnDocumentClosed prunes or fails.
DocumentClosed(d) ==
    /\ document[d] = "open"
    /\ document' = [document EXCEPT ![d] = "closed"]
    /\ active' = IF active = d THEN NoDoc ELSE active
    /\ \/ /\ Usable
          /\ entries' = PruneInvalid(Valid \ {d})
          /\ UNCHANGED <<lastKey, failed>>
       \/ /\ Usable
          /\ Fail
       \/ /\ ~Usable
          /\ UNCHANGED <<entries, lastKey, failed>>
    /\ UNCHANGED <<changes, retired>>

\* Dispose unsubscribes and forgets.
DisposeTracker ==
    /\ ~retired
    /\ retired' = TRUE
    /\ entries' = [d \in Docs |-> NoEntry]
    /\ UNCHANGED <<documentVars, lastKey, failed>>
=============================================================================
