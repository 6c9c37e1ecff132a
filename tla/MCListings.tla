----------------------------- MODULE MCListings -----------------------------
(* Lists of four users, of whom one reads, for TLC. *)
EXTENDS Listings, TLC

CONSTANTS me, f, a, b, x, y

MCOrder == f :> 1 @@ a :> 2 @@ me :> 3 @@ b :> 4

\* f, whom me follows, follows a and is followed by b, and a follows me.
MCGraphs == {{<<me, f>>, <<f, a>>, <<b, f>>, <<a, me>>}}

\* a and b share one of two interests with me, and all have one name.
MCProfiles == {[u \in Members |->
  [name |-> 1, interests |-> CASE u = me -> {x, y} [] u = f -> {} [] OTHER -> {x}]]}

\* Bound: both readings are of one list.  Readings of different lists share nothing but
\* the graph, which neither changes.
OneList == \A d, e \in Readings : Begun(d) /\ Begun(e) => readings[d].list = readings[e].list

Symmetry == Permutations(Readings)

=============================================================================
