------------------------------- MODULE Mirror -------------------------------
(***************************************************************************)
(* What keeping a document in a second store promises: one copy of it is   *)
(* made there, which may lag behind but only catches up.  It never has     *)
(* what the document has not had, never goes back to what the document was *)
(* before, and is neither lost nor doubled.                                *)
(*                                                                         *)
(* The promise ends when the copy is spoiled.  UserSync spoils the node of *)
(* a user when changes, messages or stale views of the user meet, or when  *)
(* something fails.                                                        *)
(***************************************************************************)
EXTENDS Integers

CONSTANTS
  Parts,      \* of a document, each changed by itself
  Versions,   \* of a part, numbers: a change makes a later one
  Places,     \* where a copy can be
  None        \* no document, no copy

Document == [Parts -> Versions]

VARIABLES
  original,
  copies,
  spoiled    \* nothing is promised any more

vars == <<original, copies, spoiled>>

\* In no part is d later than e.
Behind(d, e) == \A p \in Parts : d[p] <= e[p]

Init ==
  /\ original = None
  /\ copies = [x \in Places |-> None]
  /\ spoiled = FALSE

Make ==
  /\ original = None
  /\ original' \in Document
  /\ UNCHANGED <<copies, spoiled>>

Change(p) ==
  /\ original # None
  /\ \E v \in Versions :
       /\ original[p] < v
       /\ original' = [original EXCEPT ![p] = v]
  /\ UNCHANGED <<copies, spoiled>>

CatchUp(x) ==
  /\ original # None
  /\ \A y \in Places \ {x} : copies[y] = None
  /\ \E d \in Document :
       /\ Behind(d, original)
       /\ copies[x] # None => Behind(copies[x], d)
       /\ copies' = [copies EXCEPT ![x] = d]
  /\ UNCHANGED <<original, spoiled>>

Spoil ==
  /\ spoiled' = TRUE
  /\ original' \in Document \cup {None}
  /\ copies' \in [Places -> Document \cup {None}]

Next ==
  \/ Make
  \/ \E p \in Parts : Change(p)
  \/ \E x \in Places : CatchUp(x)
  \/ Spoil

Spec == Init /\ [][Next]_vars

=============================================================================
