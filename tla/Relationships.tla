--------------------------- MODULE Relationships ---------------------------
(***************************************************************************)
(* What the relationship service promises about a pair of users: following *)
(* and blocking are relations on users, they exclude each other, and each  *)
(* changes by one follow, unfollow, block or unblock at a time.            *)
(*                                                                         *)
(* The promise covers the pairs that are not in "spoiled".  SocialGraph    *)
(* spoils a pair when two requests about it overlap or when one of its     *)
(* queries fails: the service takes no lock and runs no transaction over   *)
(* its checks, so it promises nothing about such a pair.                   *)
(***************************************************************************)
EXTENDS Naturals

CONSTANT Users

VARIABLES
  following,   \* <<a, b>>: a follows b
  blocked,     \* <<a, b>>: a has blocked b
  spoiled      \* pairs {a, b} about which nothing is promised any more

vars == <<following, blocked, spoiled>>

Pairs == Users \X Users

TypeOK ==
  /\ following \subseteq Pairs
  /\ blocked \subseteq Pairs
  /\ spoiled \subseteq SUBSET Users

Between(a, b) == {<<a, b>>, <<b, a>>}

Init ==
  /\ following = {}
  /\ blocked = {}
  /\ spoiled = {}

Follow(a, b) ==
  /\ a # b
  /\ {a, b} \notin spoiled
  /\ <<a, b>> \notin following
  /\ blocked \cap Between(a, b) = {}
  /\ following' = following \cup {<<a, b>>}
  /\ UNCHANGED <<blocked, spoiled>>

Unfollow(a, b) ==
  /\ following' = following \ {<<a, b>>}
  /\ UNCHANGED <<blocked, spoiled>>

Block(a, b) ==
  /\ a # b
  /\ {a, b} \notin spoiled
  /\ (following \cup blocked) \cap Between(a, b) = {}
  /\ blocked' = blocked \cup {<<a, b>>}
  /\ UNCHANGED <<following, spoiled>>

Unblock(a, b) ==
  /\ blocked' = blocked \ {<<a, b>>}
  /\ UNCHANGED <<following, spoiled>>

Spoil(a, b) ==
  /\ spoiled' = spoiled \cup {{a, b}}
  /\ following' = following \ Between(a, b)
  /\ blocked' = blocked \ Between(a, b)

Next ==
  \E a, b \in Users :
    \/ Follow(a, b)
    \/ Unfollow(a, b)
    \/ Block(a, b)
    \/ Unblock(a, b)
    \/ Spoil(a, b)

Spec == Init /\ [][Next]_vars

=============================================================================
