---------------------------- MODULE Enumeration -----------------------------
(***************************************************************************)
(* What a paginated collection promises to a client that follows its       *)
(* cursors while the batch importer keeps committing.  Nothing here knows  *)
(* of pages, cursors, retries or look-ahead rows: the client receives the  *)
(* keys of the collection in order, once each, and a row that was in the   *)
(* collection all along is never passed over.                              *)
(*                                                                         *)
(* CollectionWalk and ReleaseChildren implement this specification.        *)
(***************************************************************************)
EXTENDS Keyset

CONSTANT Rows  \* the keys a row of the collection may have

VARIABLES
  table,      \* the rows committed now
  stable,     \* the rows committed without interruption since the walk began
  ever,       \* the rows committed at some time since the walk began
  delivered,  \* the keys the client has received, in the order of arrival
  done        \* the client has been told that nothing is left

vars == <<table, stable, ever, delivered, done>>

\* A history of the table, kept by every step that commits.
History(t) ==
  /\ table' = t
  /\ stable' = stable \cap t
  /\ ever' = ever \cup t

Init ==
  /\ table \in SUBSET Rows
  /\ stable = table
  /\ ever = table
  /\ delivered = <<>>
  /\ done = FALSE

\* The importer commits a transaction that touches the collection.
Commit ==
  /\ History(table')
  /\ UNCHANGED <<delivered, done>>

\* A stable row is delivered before any later row is, and before the end.
NothingPassedOver(rows, ended) ==
  \A x \in stable :
    (ended \/ \E y \in Keys(rows) : x <= y) => x \in Keys(rows)

\* The client receives some more rows, perhaps none, perhaps the last ones.
Deliver ==
  /\ ~done
  /\ Len(delivered) <= Len(delivered')
  /\ delivered = SubSeq(delivered', 1, Len(delivered))
  /\ Ascending(delivered')
  /\ Keys(delivered') \subseteq ever
  /\ NothingPassedOver(delivered', done')
  /\ UNCHANGED <<table, stable, ever>>

Next == Commit \/ Deliver

Spec == Init /\ [][Next]_vars

=============================================================================
