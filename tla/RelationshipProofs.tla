------------------------- MODULE RelationshipProofs -------------------------
(***************************************************************************)
(* Proofs about the relationship service: first about SocialGraph, for any *)
(* users, any number of handlers, any number of requests and of failures;  *)
(* then about Listings, for any users, any order of theirs, any pages, and *)
(* any number of readings, of changes and of failures.                     *)
(***************************************************************************)
EXTENDS SocialGraph, Listings, FiniteSetTheorems, TLAPS

USE SocialGraphAssumption

-----------------------------------------------------------------------------
(* Lemmas about the helpers *)

\* The ways a request moves on keep it a request.
LEMMA MovesTyped ==
  ASSUME TypeOK, NEW h \in Handlers, Busy(h)
  PROVE  /\ \A q \in Queries : Goto(h, q) => requests' \in [Handlers -> Request \cup {NoRequest}]
         /\ \A m \in Operations : Call(h, m) => requests' \in [Handlers -> Request \cup {NoRequest}]
         /\ Return(h) => requests' \in [Handlers -> Request \cup {NoRequest}]
<1>1. requests[h] \in Request
  BY DEF TypeOK, Busy
<1>2. \A m \in Operations : Entry[m] \in Queries
  BY DEF Operations, Entry, Queries
<1>3. \A q \in Queries : [requests[h] EXCEPT !.at = q] \in Request
  BY <1>1 DEF Request
<1>4. \A m \in Operations, q \in Queries : [requests[h] EXCEPT !.call = m, !.at = q] \in Request
  BY <1>1 DEF Request
<1>5. {"isFollower", "createBlocked"} \subseteq Queries /\ "blockUser" \in Operations
  BY DEF Queries, Operations
<1>6. ASSUME NEW r \in Request \cup {NoRequest}, Becomes(h, r)
      PROVE  requests' \in [Handlers -> Request \cup {NoRequest}]
  BY <1>6 DEF Becomes, TypeOK
<1>7. ASSUME NEW q \in Queries, Goto(h, q)
      PROVE  requests' \in [Handlers -> Request \cup {NoRequest}]
  BY <1>3, <1>6, <1>7 DEF Goto
<1>8. ASSUME NEW m \in Operations, Call(h, m)
      PROVE  requests' \in [Handlers -> Request \cup {NoRequest}]
  BY <1>2, <1>4, <1>6, <1>8 DEF Call
<1>9. ASSUME Return(h)
      PROVE  requests' \in [Handlers -> Request \cup {NoRequest}]
  BY <1>4, <1>5, <1>6, <1>9 DEF Return
<1> QED
  BY <1>7, <1>8, <1>9

\* Every step leaves the relationships alone, adds one, or removes all the
\* parallel ones between two users.
LEMMA GraphStep ==
  ASSUME TypeOK, [Next]_vars
  PROVE  \/ UNCHANGED <<follows, blocks, following_number, followers_number>>
         \/ \E a, b \in Users : AddFollowing(a, b)
         \/ \E a, b \in Users : RemoveFollowing(a, b)
         \/ \E a, b \in Users : AddBlocked(a, b)
         \/ \E a, b \in Users : RemoveBlocked(a, b)
<1>1. \A h \in Handlers : Busy(h) => requests[h].from \in Users /\ requests[h].to \in Users
  BY DEF TypeOK, Busy, Request
<1>2. CASE \E h \in Handlers : CreateFollowing(h)
  BY <1>1, <1>2 DEF CreateFollowing, At, graph
<1>3. CASE \E h \in Handlers : DeleteFollowing(h)
  BY <1>1, <1>3 DEF DeleteFollowing, At, graph
<1>4. CASE \E h \in Handlers : CreateBlocked(h)
  BY <1>1, <1>4 DEF CreateBlocked, At, graph
<1>5. CASE \E h \in Handlers : DeleteBlocked(h)
  BY <1>1, <1>5 DEF DeleteBlocked, At, graph
<1> QED
  BY <1>2, <1>3, <1>4, <1>5 DEF Next, HandlerStep, SyncUser, BeginRequest, Crash, UserExists,
     CheckIfUserFollowing, CheckIfUserFollower, CheckIfBlocked, CheckIfBlockedBy, Notify, graph, vars

-----------------------------------------------------------------------------
(* Types and counters *)

\* The counters stay natural numbers because they count relationships, so
\* the two are one inductive invariant.
CountInv ==
  /\ TypeOK
  /\ IsFiniteSet(follows)
  /\ CountersMatchEdges

\* A relationship created, or found already there, keeps numbers and relationships equal.
LEMMA AddCounts ==
  ASSUME CountInv, NEW a \in Users, NEW b \in Users, AddFollowing(a, b)
  PROVE  /\ follows' \subseteq Edge
         /\ following_number' \in [Users -> Nat]
         /\ followers_number' \in [Users -> Nat]
         /\ IsFiniteSet(follows')
         /\ CountersMatchEdges'
<1>1. CASE UNCHANGED graph
  BY <1>1 DEF CountInv, TypeOK, graph, CountersMatchEdges, Following, Followers
<1>2. CASE ~UNCHANGED graph
  <2>1. PICK i \in EdgeIds :
          /\ [from |-> a, to |-> b, id |-> i] \notin follows
          /\ follows' = follows \cup {[from |-> a, to |-> b, id |-> i]}
    BY <1>2 DEF AddFollowing
  <2> DEFINE e == [from |-> a, to |-> b, id |-> i]
  <2>2. /\ following_number' = [following_number EXCEPT ![a] = @ + 1]
        /\ followers_number' = [followers_number EXCEPT ![b] = @ + 1]
    BY <1>2 DEF AddFollowing
  <2>3. e \in Edge /\ e.from = a /\ e.to = b
    BY DEF Edge
  <2>4. IsFiniteSet(follows')
    BY <2>1, FS_AddElement DEF CountInv
  <2>5. /\ follows' \subseteq Edge
        /\ following_number' \in [Users -> Nat]
        /\ followers_number' \in [Users -> Nat]
    BY <2>1, <2>2, <2>3 DEF CountInv, TypeOK
  <2>6. ASSUME NEW u \in Users
        PROVE  following_number'[u] = Cardinality(Following(u)')
    <3>1. IsFiniteSet(Following(u))
      BY FS_Subset DEF CountInv, Following
    <3>2. following_number[u] = Cardinality(Following(u))
      BY DEF CountInv, CountersMatchEdges
    <3>3. CASE u = a
      <4>1. Following(u)' = Following(u) \cup {e} /\ e \notin Following(u)
        BY <2>1, <2>3, <3>3 DEF Following
      <4>2. Cardinality(Following(u)') = Cardinality(Following(u)) + 1
        BY <3>1, <4>1, FS_AddElement
      <4> QED
        BY <2>2, <3>2, <3>3, <4>2 DEF CountInv, TypeOK
    <3>4. CASE u # a
      <4>1. Following(u)' = Following(u)
        BY <2>1, <2>3, <3>4 DEF Following
      <4> QED
        BY <2>2, <3>2, <3>4, <4>1 DEF CountInv, TypeOK
    <3> QED
      BY <3>3, <3>4
  <2>7. ASSUME NEW u \in Users
        PROVE  followers_number'[u] = Cardinality(Followers(u)')
    <3>1. IsFiniteSet(Followers(u))
      BY FS_Subset DEF CountInv, Followers
    <3>2. followers_number[u] = Cardinality(Followers(u))
      BY DEF CountInv, CountersMatchEdges
    <3>3. CASE u = b
      <4>1. Followers(u)' = Followers(u) \cup {e} /\ e \notin Followers(u)
        BY <2>1, <2>3, <3>3 DEF Followers
      <4>2. Cardinality(Followers(u)') = Cardinality(Followers(u)) + 1
        BY <3>1, <4>1, FS_AddElement
      <4> QED
        BY <2>2, <3>2, <3>3, <4>2 DEF CountInv, TypeOK
    <3>4. CASE u # b
      <4>1. Followers(u)' = Followers(u)
        BY <2>1, <2>3, <3>4 DEF Followers
      <4> QED
        BY <2>2, <3>2, <3>4, <4>1 DEF CountInv, TypeOK
    <3> QED
      BY <3>3, <3>4
  <2> QED
    BY <2>4, <2>5, <2>6, <2>7 DEF CountersMatchEdges
<1> QED
  BY <1>1, <1>2

\* Deleting all the parallel relationships of two users takes as many off their numbers.
LEMMA RemoveCounts ==
  ASSUME CountInv, NEW a \in Users, NEW b \in Users, RemoveFollowing(a, b)
  PROVE  /\ follows' \subseteq Edge
         /\ following_number' \in [Users -> Nat]
         /\ followers_number' \in [Users -> Nat]
         /\ IsFiniteSet(follows')
         /\ CountersMatchEdges'
<1> DEFINE P == Parallel(follows, a, b)
<1>1. /\ follows' = follows \ P
      /\ following_number' = [following_number EXCEPT ![a] = @ - Cardinality(P)]
      /\ followers_number' = [followers_number EXCEPT ![b] = @ - Cardinality(P)]
  BY DEF RemoveFollowing
<1>2. IsFiniteSet(follows') /\ IsFiniteSet(P)
  BY <1>1, FS_Subset DEF CountInv, Parallel
<1>3. Cardinality(P) \in Nat
  BY <1>2, FS_CardinalityType
<1>4. \A u \in Users : IsFiniteSet(Following(u)) /\ IsFiniteSet(Followers(u))
  BY FS_Subset DEF CountInv, Following, Followers
<1>5. Cardinality(Following(a)') = Cardinality(Following(a)) - Cardinality(P)
  <2>1. Following(a)' = Following(a) \ P /\ Following(a) \cap P = P
    BY <1>1 DEF Following, Parallel
  <2> QED
    BY <1>4, <2>1, FS_Difference
<1>6. Cardinality(Followers(b)') = Cardinality(Followers(b)) - Cardinality(P)
  <2>1. Followers(b)' = Followers(b) \ P /\ Followers(b) \cap P = P
    BY <1>1 DEF Followers, Parallel
  <2> QED
    BY <1>4, <2>1, FS_Difference
<1>7. \A u \in Users : u # a => Following(u)' = Following(u)
  BY <1>1 DEF Following, Parallel
<1>8. \A u \in Users : u # b => Followers(u)' = Followers(u)
  BY <1>1 DEF Followers, Parallel
<1>9. \A u \in Users : IsFiniteSet(Following(u)') /\ IsFiniteSet(Followers(u)')
  BY <1>2, FS_Subset DEF Following, Followers
<1>10. \A u \in Users : Cardinality(Following(u)') \in Nat /\ Cardinality(Followers(u)') \in Nat
  BY <1>9, FS_CardinalityType
<1>11. \A u \in Users : following_number'[u] = Cardinality(Following(u)')
  BY <1>1, <1>3, <1>5, <1>7 DEF CountInv, CountersMatchEdges, TypeOK
<1>12. \A u \in Users : followers_number'[u] = Cardinality(Followers(u)')
  BY <1>1, <1>3, <1>6, <1>8 DEF CountInv, CountersMatchEdges, TypeOK
<1>13. following_number' \in [Users -> Nat] /\ followers_number' \in [Users -> Nat]
  BY <1>1, <1>10, <1>11, <1>12 DEF CountInv, TypeOK
<1>14. follows' \subseteq Edge
  BY <1>1 DEF CountInv, TypeOK
<1> QED
  BY <1>2, <1>11, <1>12, <1>13, <1>14 DEF CountersMatchEdges

\* The variables that are not counters keep their types.
LEMMA RequestTyped ==
  ASSUME TypeOK, [Next]_vars
  PROVE  /\ nodes' \subseteq Users
         /\ requests' \in [Handlers -> Request \cup {NoRequest}]
         /\ notified' \subseteq Users \X Users
         /\ faults' \in 0..MaxFaults
         /\ begun' \in 0..MaxRequests
         /\ tainted' \subseteq SUBSET Users
<1> DEFINE Goal == /\ nodes' \subseteq Users
                   /\ requests' \in [Handlers -> Request \cup {NoRequest}]
                   /\ notified' \subseteq Users \X Users
                   /\ faults' \in 0..MaxFaults
                   /\ begun' \in 0..MaxRequests
                   /\ tainted' \subseteq SUBSET Users
<1>1. \A h \in Handlers : Busy(h) => Pair(requests[h]) \subseteq Users /\ requests[h] \in Request
  BY DEF TypeOK, Busy, Request, Pair
<1>2. Fault => faults' \in 0..MaxFaults
  BY DEF Fault, TypeOK
<1>3. ASSUME NEW h \in Handlers, Busy(h), NEW fact, NEW yes, Answers(h, fact, yes)
      PROVE  faults' \in 0..MaxFaults /\ tainted' \subseteq SUBSET Users
  BY <1>1, <1>2, <1>3 DEF Answers, FaultTaints, TypeOK
<1>4. \A q \in {"isFollowing", "isFollower", "isBlocked", "isBlockedBy", "createFollowing", "notify",
                 "deleteFollowing", "createBlocked", "deleteBlocked", "userExists"} : q \in Queries
  BY DEF Queries
<1>5. \A m \in {"unfollowingUser", "removeFollower", "blockUser"} : m \in Operations
  BY DEF Operations
<1>6. CASE UNCHANGED vars
  BY <1>6 DEF vars, TypeOK
<1>7. CASE \E u \in Users : SyncUser(u)
  BY <1>7 DEF SyncUser, TypeOK
<1>8. ASSUME NEW h \in Handlers, NEW op \in Operations, NEW a \in Users, NEW b \in Users,
             BeginRequest(h, op, a, b)
      PROVE  Goal
  <2>1. Entry[op] \in Queries
    BY DEF Operations, Entry, Queries
  <2>2. [op |-> op, call |-> op, at |-> Entry[op], from |-> a, to |-> b, seen |-> FALSE] \in Request
    BY <2>1 DEF Request
  <2> QED
    BY <1>8, <2>2 DEF BeginRequest, Becomes, graph, TypeOK
<1>9. ASSUME NEW h \in Handlers, HandlerStep(h)
      PROVE  Goal
  <2>0. Busy(h)
    BY <1>9 DEF HandlerStep, UserExists, CheckIfUserFollowing, CheckIfUserFollower, CheckIfBlocked,
       CheckIfBlockedBy, CreateFollowing, Notify, DeleteFollowing, CreateBlocked, DeleteBlocked, Crash, At
  <2> DEFINE Moved == requests' \in [Handlers -> Request \cup {NoRequest}]
  <2>1. /\ \A q \in Queries : Goto(h, q) => Moved
        /\ \A m \in Operations : Call(h, m) => Moved
        /\ Return(h) => Moved
    BY <2>0, MovesTyped
  <2> HIDE DEF Moved
  <2>2. CASE UserExists(h)
    BY <1>3, <1>4, <2>0, <2>1, <2>2 DEF UserExists, graph, TypeOK, Moved
  <2>3. CASE CheckIfUserFollowing(h)
    BY <1>3, <1>4, <1>5, <2>0, <2>1, <2>3 DEF CheckIfUserFollowing, graph, TypeOK, Moved
  <2>4. CASE CheckIfUserFollower(h)
    BY <1>3, <1>4, <1>5, <2>0, <2>1, <2>4 DEF CheckIfUserFollower, graph, TypeOK, Moved
  <2>5. CASE CheckIfBlocked(h)
    <3>1. \A yes \in BOOLEAN : [requests[h] EXCEPT !.at = "isBlockedBy", !.seen = yes] \in Request
      BY <1>1, <1>4, <2>0 DEF Request
    <3>2. Moved
      BY <2>5, <3>1 DEF CheckIfBlocked, Becomes, TypeOK, Moved
    <3> QED
      BY <1>3, <2>0, <2>5, <3>2 DEF CheckIfBlocked, graph, TypeOK, Moved
  <2>6. CASE CheckIfBlockedBy(h)
    <3>1. \A m \in Operations \ {"unblockUser"} : AfterBlockCheck[m] \in Queries
      BY DEF Operations, AfterBlockCheck, Queries
    <3>2. requests[h].call \in Operations
      BY <1>1, <2>0 DEF Request
    <3> QED
      BY <1>3, <1>4, <2>0, <2>1, <2>6, <3>1, <3>2 DEF CheckIfBlockedBy, graph, TypeOK, Moved
  <2>7. CASE CreateFollowing(h)
    BY <1>2, <1>4, <2>1, <2>7 DEF CreateFollowing, AddFollowing, graph, TypeOK, Moved
  <2>8. CASE Notify(h)
    BY <1>1, <1>2, <2>0, <2>1, <2>8 DEF Notify, graph, TypeOK, Moved, Request
  <2>9. CASE DeleteFollowing(h)
    BY <1>1, <1>2, <2>0, <2>1, <2>9 DEF DeleteFollowing, RemoveFollowing, FaultTaints, graph, TypeOK, Moved
  <2>10. CASE CreateBlocked(h)
    BY <1>2, <2>1, <2>10 DEF CreateBlocked, AddBlocked, graph, TypeOK, Moved
  <2>11. CASE DeleteBlocked(h)
    BY <1>2, <2>1, <2>11 DEF DeleteBlocked, RemoveBlocked, graph, TypeOK, Moved
  <2>12. CASE Crash(h)
    BY <2>12 DEF Crash, Becomes, graph, TypeOK
  <2> QED
    BY <1>9, <2>2, <2>3, <2>4, <2>5, <2>6, <2>7, <2>8, <2>9, <2>10, <2>11, <2>12 DEF HandlerStep
<1> QED
  BY <1>6, <1>7, <1>8, <1>9 DEF Next

\* At first nobody follows anybody.
LEMMA CountInvInit == Init => CountInv
<1> SUFFICES ASSUME Init PROVE CountInv
  OBVIOUS
<1>1. TypeOK
  BY DEF Init, TypeOK
<1>2. IsFiniteSet(follows) /\ CountersMatchEdges
  <2>1. \A u \in Users : Following(u) = {} /\ Followers(u) = {}
    BY DEF Init, Following, Followers
  <2> QED
    BY <2>1, FS_EmptySet DEF Init, CountersMatchEdges
<1> QED
  BY <1>1, <1>2 DEF CountInv

\* Every step keeps numbers and relationships equal.
LEMMA CountInvNext == CountInv /\ [Next]_vars => CountInv'
<1> SUFFICES ASSUME CountInv, [Next]_vars PROVE CountInv'
  OBVIOUS
<1>0. TypeOK
  BY DEF CountInv
<1>1. /\ nodes' \subseteq Users
      /\ requests' \in [Handlers -> Request \cup {NoRequest}]
      /\ notified' \subseteq Users \X Users
      /\ faults' \in 0..MaxFaults
      /\ begun' \in 0..MaxRequests
      /\ tainted' \subseteq SUBSET Users
  BY <1>0, RequestTyped
<1> DEFINE Counted == /\ follows' \subseteq Edge
                      /\ following_number' \in [Users -> Nat]
                      /\ followers_number' \in [Users -> Nat]
                      /\ IsFiniteSet(follows')
                      /\ CountersMatchEdges'
<1>2. ASSUME UNCHANGED <<follows, following_number, followers_number>>
      PROVE  Counted
  BY <1>2 DEF CountInv, TypeOK, CountersMatchEdges, Following, Followers
<1>3. ASSUME NEW a \in Users, NEW b \in Users, AddFollowing(a, b)
      PROVE  Counted /\ UNCHANGED blocks
  BY <1>3, AddCounts DEF AddFollowing, graph
<1>4. ASSUME NEW a \in Users, NEW b \in Users, RemoveFollowing(a, b)
      PROVE  Counted /\ UNCHANGED blocks
  BY <1>4, RemoveCounts DEF RemoveFollowing
<1>5. ASSUME NEW a \in Users, NEW b \in Users, AddBlocked(a, b)
      PROVE  /\ UNCHANGED <<follows, following_number, followers_number>>
             /\ blocks' \subseteq Edge
  <2>1. \A i \in EdgeIds : [from |-> a, to |-> b, id |-> i] \in Edge
    BY DEF Edge
  <2>2. blocks \subseteq Edge
    BY <1>0 DEF TypeOK
  <2> QED
    BY <1>5, <2>1, <2>2 DEF AddBlocked, graph
<1>6. ASSUME NEW a \in Users, NEW b \in Users, RemoveBlocked(a, b)
      PROVE  /\ UNCHANGED <<follows, following_number, followers_number>>
             /\ blocks' \subseteq Edge
  BY <1>0, <1>6 DEF RemoveBlocked, TypeOK
<1>7. blocks \subseteq Edge
  BY <1>0 DEF TypeOK
<1> HIDE DEF Counted
<1>8. Counted /\ blocks' \subseteq Edge
  BY <1>0, <1>2, <1>3, <1>4, <1>5, <1>6, <1>7, GraphStep
<1> QED
  BY <1>1, <1>8 DEF CountInv, TypeOK, Counted

\* Every variable keeps its type; in particular the counters never become
\* negative.
THEOREM TypeCorrect == Spec => []TypeOK
<1>1. CountInv => TypeOK
  BY DEF CountInv
<1> QED
  BY <1>1, CountInvInit, CountInvNext, PTL DEF Spec

\* following_number and followers_number count the FOLLOWING relationships of
\* a user in every reachable state, with any concurrency and any failures.
THEOREM CountersCorrect == Spec => []CountersMatchEdges
<1>1. CountInv => CountersMatchEdges
  BY DEF CountInv
<1> QED
  BY <1>1, CountInvInit, CountInvNext, PTL DEF Spec

-----------------------------------------------------------------------------
(* One request at a time about a pair *)

\* Which method runs which query, and for whom.
Control(r) ==
  /\ r.op # "unblockUser" => r.from # r.to
  /\ r.op # r.call => r.op = "blockUser" /\ r.call \in {"unfollowingUser", "removeFollower"}
  /\ r.at = "userExists" => r.call \in {"followingUser", "blockUser"}
  /\ r.at = "isFollowing" => r.call \in {"followingUser", "unfollowingUser", "blockUser"}
  /\ r.at = "isFollower" => r.call \in {"removeFollower", "blockUser"}
  /\ r.at \in {"createFollowing", "notify"} => r.call = "followingUser"
  /\ r.at = "deleteFollowing" => r.call \in {"unfollowingUser", "removeFollower"}
  /\ r.at = "createBlocked" => r.call = "blockUser"
  /\ r.at = "deleteBlocked" => r.call = "unblockUser"

ControlOK == \A h \in Handlers : Busy(h) => Control(requests[h])

\* Two requests in flight about a pair have tainted it.
Alone ==
  \A g, h \in Handlers :
    g # h /\ Busy(g) /\ Busy(h) /\ Pair(requests[g]) = Pair(requests[h]) =>
      Pair(requests[h]) \in tainted

SerialInv ==
  /\ TypeOK
  /\ ControlOK
  /\ Alone
  /\ ChecksStillHold
  /\ BlockExcludesFollow
  /\ NoParallelEdges

\* The request of h after a step: the same one, in method m at query q.
Now(h, m, q) ==
  /\ requests'[h] \in Request
  /\ requests'[h].op = requests[h].op
  /\ requests'[h].from = requests[h].from
  /\ requests'[h].to = requests[h].to
  /\ requests'[h].call = m
  /\ requests'[h].at = q

Others(h) == \A g \in Handlers : g # h => requests'[g] = requests[g]

\* What the three ways of moving on do to the request.
LEMMA Moves ==
  ASSUME TypeOK, NEW h \in Handlers, Busy(h)
  PROVE  /\ \A q \in Queries : Goto(h, q) => Others(h) /\ Now(h, requests[h].call, q)
         /\ \A m \in Operations : Call(h, m) => Others(h) /\ Now(h, m, Entry[m])
         /\ Return(h) =>
              /\ Others(h)
              /\ \/ requests[h].op = requests[h].call /\ requests'[h] = NoRequest
                 \/ /\ requests[h].op # requests[h].call /\ requests[h].call = "unfollowingUser"
                    /\ Now(h, "blockUser", "isFollower")
                 \/ /\ requests[h].op # requests[h].call /\ requests[h].call = "removeFollower"
                    /\ Now(h, "blockUser", "createBlocked")
<1>1. requests[h] \in Request
  BY DEF TypeOK, Busy
<1>2. ASSUME NEW r, Becomes(h, r)
      PROVE  Others(h) /\ requests'[h] = r
  BY <1>2 DEF Becomes, TypeOK, Others
<1>3. ASSUME NEW q \in Queries, Goto(h, q)
      PROVE  Others(h) /\ Now(h, requests[h].call, q)
  <2>1. Others(h) /\ requests'[h] = [requests[h] EXCEPT !.at = q]
    BY <1>2, <1>3 DEF Goto
  <2> QED
    BY <1>1, <2>1 DEF Now, Request
<1>4. ASSUME NEW m \in Operations, NEW q \in Queries,
             Becomes(h, [requests[h] EXCEPT !.call = m, !.at = q])
      PROVE  Others(h) /\ Now(h, m, q)
  <2>1. Others(h) /\ requests'[h] = [requests[h] EXCEPT !.call = m, !.at = q]
    BY <1>2, <1>4
  <2> QED
    BY <1>1, <2>1 DEF Now, Request
<1>5. \A m \in Operations : Entry[m] \in Queries
  BY DEF Operations, Entry, Queries
<1>6. {"isFollower", "createBlocked"} \subseteq Queries /\ "blockUser" \in Operations
  BY DEF Queries, Operations
<1> QED
  BY <1>2, <1>3, <1>4, <1>5, <1>6 DEF Call, Return

\* A step of h concerns the request of h only, and keeps its control.
LEMMA HandlerMoves ==
  ASSUME TypeOK, ControlOK, NEW h \in Handlers, HandlerStep(h)
  PROVE  /\ Busy(h)
         /\ Others(h)
         /\ tainted \subseteq tainted'
         /\ \/ requests'[h] = NoRequest
            \/ /\ Control(requests'[h])
               /\ Now(h, requests'[h].call, requests'[h].at)
<1> DEFINE r == requests[h]
           s == requests'[h]
           Kept == s = NoRequest \/ (Control(s) /\ Now(h, s.call, s.at))
<1>1. Busy(h)
  BY DEF HandlerStep, UserExists, CheckIfUserFollowing, CheckIfUserFollower, CheckIfBlocked,
     CheckIfBlockedBy, CreateFollowing, Notify, DeleteFollowing, CreateBlocked, DeleteBlocked, Crash, At
<1>2. r \in Request /\ Control(r)
  BY <1>1 DEF TypeOK, ControlOK, Busy
<1>3. /\ \A q \in Queries : Goto(h, q) => Others(h) /\ Now(h, r.call, q)
      /\ \A m \in Operations : Call(h, m) => Others(h) /\ Now(h, m, Entry[m])
      /\ Return(h) =>
           /\ Others(h)
           /\ \/ r.op = r.call /\ s = NoRequest
              \/ r.op # r.call /\ r.call = "unfollowingUser" /\ Now(h, "blockUser", "isFollower")
              \/ r.op # r.call /\ r.call = "removeFollower" /\ Now(h, "blockUser", "createBlocked")
  BY <1>1, Moves
<1>4. Return(h) => Others(h) /\ Kept
  BY <1>2, <1>3 DEF Control, Now
<1>5. tainted \subseteq tainted'
  BY DEF HandlerStep, UserExists, CheckIfUserFollowing, CheckIfUserFollower, CheckIfBlocked,
     CheckIfBlockedBy, CreateFollowing, Notify, DeleteFollowing, CreateBlocked, DeleteBlocked, Crash,
     Answers, FaultTaints
<1>6. \A q \in {"userExists", "isFollowing", "isFollower", "isBlocked", "isBlockedBy", "createFollowing",
                 "notify", "deleteFollowing", "createBlocked", "deleteBlocked"} : q \in Queries
  BY DEF Queries
<1> SUFFICES Others(h) /\ Kept
  BY <1>1, <1>5
<1> HIDE DEF r, s
<1>7. CASE UserExists(h)
  BY <1>2, <1>3, <1>4, <1>6, <1>7 DEF UserExists, At, Control, Now, r, s
<1>8. CASE CheckIfUserFollowing(h)
  BY <1>2, <1>3, <1>4, <1>6, <1>8 DEF CheckIfUserFollowing, At, Control, Now, Entry, Operations, r, s
<1>9. CASE CheckIfUserFollower(h)
  BY <1>2, <1>3, <1>4, <1>6, <1>9 DEF CheckIfUserFollower, At, Control, Now, Entry, Operations, r, s
<1>10. CASE CheckIfBlocked(h)
  <2>1. PICK yes \in BOOLEAN : Becomes(h, [r EXCEPT !.at = "isBlockedBy", !.seen = yes])
    BY <1>10 DEF CheckIfBlocked, r
  <2>2. Others(h) /\ s = [r EXCEPT !.at = "isBlockedBy", !.seen = yes]
    BY <2>1 DEF Becomes, TypeOK, Others, s
  <2>3. Now(h, s.call, s.at) /\ s.call = r.call /\ s.at = "isBlockedBy"
    BY <1>2, <1>6, <2>2 DEF Now, Request, r, s
  <2> QED
    BY <1>2, <2>2, <2>3 DEF Control, Now, r, s
<1>11. CASE CheckIfBlockedBy(h)
  <2>1. r.call \in Operations
    BY <1>2 DEF Request
  <2> QED
    BY <1>2, <1>3, <1>4, <1>6, <1>11, <2>1 DEF CheckIfBlockedBy, AfterBlockCheck, Operations, At, Control, Now, r, s
<1>12. CASE CreateFollowing(h)
  BY <1>2, <1>3, <1>4, <1>6, <1>12 DEF CreateFollowing, At, Control, Now, r, s
<1>13. CASE Crash(h)
  BY <1>13 DEF Crash, Becomes, TypeOK, Others, s
<1> QED
  BY <1>1, <1>4, <1>5, <1>7, <1>8, <1>9, <1>10, <1>11, <1>12, <1>13
  DEF HandlerStep, Notify, DeleteFollowing, CreateBlocked, DeleteBlocked, r, s

\* A query that writes concerns the two users it names only.
LEMMA WritesLocal ==
  ASSUME NEW a, NEW b,
         \/ AddFollowing(a, b)
         \/ RemoveFollowing(a, b)
         \/ AddBlocked(a, b)
         \/ RemoveBlocked(a, b)
  PROVE  \A c, d : {c, d} # {a, b} =>
           /\ Parallel(follows', c, d) = Parallel(follows, c, d)
           /\ Parallel(blocks', c, d) = Parallel(blocks, c, d)
<1> SUFFICES ASSUME NEW c, NEW d, {c, d} # {a, b}
             PROVE  /\ Parallel(follows', c, d) = Parallel(follows, c, d)
                    /\ Parallel(blocks', c, d) = Parallel(blocks, c, d)
  OBVIOUS
<1>0. c # a \/ d # b
  OBVIOUS
<1>1. CASE AddFollowing(a, b)
  <2>1. CASE UNCHANGED graph
    BY <2>1 DEF Parallel, graph
  <2>2. CASE ~UNCHANGED graph
    <3>1. PICK i \in EdgeIds : follows' = follows \cup {[from |-> a, to |-> b, id |-> i]}
      BY <1>1, <2>2 DEF AddFollowing
    <3>2. UNCHANGED blocks
      BY <1>1, <2>2 DEF AddFollowing
    <3> QED
      BY <1>0, <3>1, <3>2 DEF Parallel
  <2> QED
    BY <2>1, <2>2
<1>2. CASE RemoveFollowing(a, b)
  BY <1>0, <1>2 DEF RemoveFollowing, Parallel
<1>3. CASE AddBlocked(a, b)
  <2>1. CASE UNCHANGED graph
    BY <2>1 DEF Parallel, graph
  <2>2. CASE ~UNCHANGED graph
    <3>1. PICK i \in EdgeIds : blocks' = blocks \cup {[from |-> a, to |-> b, id |-> i]}
      BY <1>3, <2>2 DEF AddBlocked
    <3>2. UNCHANGED follows
      BY <1>3, <2>2 DEF AddBlocked
    <3> QED
      BY <1>0, <3>1, <3>2 DEF Parallel
  <2> QED
    BY <2>1, <2>2
<1>4. CASE RemoveBlocked(a, b)
  BY <1>0, <1>4 DEF RemoveBlocked, Parallel
<1> QED
  BY <1>1, <1>2, <1>3, <1>4

\* A step of a handler changes no relationship but between the two users of
\* its request.
LEMMA HandlerLocal ==
  ASSUME TypeOK, NEW h \in Handlers, HandlerStep(h)
  PROVE  \A c, d : {c, d} # Pair(requests[h]) =>
           /\ Parallel(follows', c, d) = Parallel(follows, c, d)
           /\ Parallel(blocks', c, d) = Parallel(blocks, c, d)
<1> DEFINE r == requests[h]
<1>1. \/ UNCHANGED <<follows, blocks>>
      \/ AddFollowing(r.from, r.to)
      \/ RemoveFollowing(r.from, r.to)
      \/ RemoveFollowing(r.to, r.from)
      \/ AddBlocked(r.from, r.to)
      \/ RemoveBlocked(r.from, r.to)
  BY DEF HandlerStep, UserExists, CheckIfUserFollowing, CheckIfUserFollower, CheckIfBlocked, CheckIfBlockedBy,
     CreateFollowing, Notify, DeleteFollowing, CreateBlocked, DeleteBlocked, Crash, graph
<1>2. Pair(r) = {r.from, r.to} /\ Pair(r) = {r.to, r.from}
  BY DEF Pair
<1>3. CASE UNCHANGED <<follows, blocks>>
  BY <1>3 DEF Parallel
<1> QED
  BY <1>1, <1>2, <1>3, WritesLocal

\* Related, by the parallel relationships.
LEMMA RelatedParallel ==
  ASSUME NEW edges, NEW a, NEW b
  PROVE  Related(edges, a, b) <=> Parallel(edges, a, b) # {}
BY DEF Related, Parallel

\* What the request of h has read after its own step is still so.
LEMMA FreshStep ==
  ASSUME SerialInv, NEW h \in Handlers, HandlerStep(h), Pair(requests[h]) \notin tainted'
  PROVE  requests'[h] = NoRequest \/ Fresh(requests[h])'
<1> DEFINE r == requests[h]
           s == requests'[h]
<1>0. TypeOK /\ ControlOK
  BY DEF SerialInv
<1>1. Busy(h) /\ tainted \subseteq tainted'
  BY <1>0, HandlerMoves
<1>2. r \in Request /\ Control(r) /\ Fresh(r)
  BY <1>1 DEF SerialInv, TypeOK, ControlOK, ChecksStillHold, Busy
<1>3. /\ \A q \in Queries : Goto(h, q) => Now(h, r.call, q)
      /\ \A m \in Operations : Call(h, m) => Now(h, m, Entry[m])
      /\ Return(h) =>
           \/ r.op = r.call /\ s = NoRequest
           \/ r.op # r.call /\ r.call = "unfollowingUser" /\ Now(h, "blockUser", "isFollower")
           \/ r.op # r.call /\ r.call = "removeFollower" /\ Now(h, "blockUser", "createBlocked")
  BY <1>0, <1>1, Moves
<1>4. \A q \in {"userExists", "isFollowing", "isFollower", "isBlocked", "isBlockedBy", "createFollowing",
                 "notify", "deleteFollowing", "createBlocked", "deleteBlocked"} : q \in Queries
  BY DEF Queries
<1>5. ~FaultTaints(h)
  BY DEF FaultTaints
<1> HIDE DEF r, s
<1>6. CASE UserExists(h)
  <2>1. UNCHANGED <<follows, blocks>>
    BY <1>6 DEF UserExists, graph
  <2> QED
    BY <1>2, <1>3, <1>4, <1>5, <1>6, <2>1
    DEF UserExists, At, Control, Now, Fresh, PastBlockCheck, PastFollowingCheck, r, s
<1>7. CASE CheckIfUserFollowing(h)
  <2>1. UNCHANGED <<follows, blocks>>
    BY <1>7 DEF CheckIfUserFollowing, graph
  <2> QED
    BY <1>2, <1>3, <1>4, <1>5, <1>7, <2>1
    DEF CheckIfUserFollowing, Answers, At, Control, Now, Entry, Operations, Fresh, PastBlockCheck,
        PastFollowingCheck, r, s
<1>8. CASE CheckIfUserFollower(h)
  <2>1. UNCHANGED <<follows, blocks>>
    BY <1>8 DEF CheckIfUserFollower, graph
  <2> QED
    BY <1>2, <1>3, <1>4, <1>5, <1>8, <2>1
    DEF CheckIfUserFollower, Answers, At, Control, Now, Entry, Operations, Fresh, PastBlockCheck,
        PastFollowingCheck, r, s
<1>9. CASE CheckIfBlocked(h)
  <2>1. UNCHANGED <<follows, blocks>>
    BY <1>9 DEF CheckIfBlocked, graph
  <2>2. PICK yes \in BOOLEAN :
          /\ yes = Related(blocks, r.from, r.to)
          /\ Becomes(h, [r EXCEPT !.at = "isBlockedBy", !.seen = yes])
    BY <1>5, <1>9 DEF CheckIfBlocked, Answers, r
  <2>3. s = [r EXCEPT !.at = "isBlockedBy", !.seen = yes]
    BY <1>0, <2>2 DEF Becomes, TypeOK, s
  <2>4. /\ s.op = r.op /\ s.call = r.call /\ s.from = r.from /\ s.to = r.to
        /\ s.at = "isBlockedBy" /\ s.seen = yes
    BY <1>2, <2>3 DEF Request
  <2>5. r.at = "isBlocked"
    BY <1>9 DEF CheckIfBlocked, At, r
  <2> QED
    BY <1>2, <2>1, <2>2, <2>4, <2>5
    DEF Control, Fresh, Related, PastBlockCheck, PastFollowingCheck, r, s
<1>10. CASE CheckIfBlockedBy(h)
  <2>1. UNCHANGED <<follows, blocks>>
    BY <1>10 DEF CheckIfBlockedBy, graph
  <2>2. r.call \in Operations
    BY <1>2 DEF Request
  <2> QED
    BY <1>2, <1>3, <1>4, <1>5, <1>10, <2>1, <2>2
    DEF CheckIfBlockedBy, Answers, AfterBlockCheck, At, Control, Now, Operations, Fresh, PastBlockCheck,
        PastFollowingCheck, r, s
<1>11. CASE DeleteFollowing(h)
  <2>1. CASE RemoveFollowing(r.from, r.to) /\ r.call = "unfollowingUser"
    <3>1. blocks' = blocks /\ ~Related(follows', r.from, r.to)
      BY <2>1 DEF RemoveFollowing, Related, Parallel
    <3> QED
      BY <1>2, <1>3, <1>11, <2>1, <3>1
      DEF DeleteFollowing, Control, Now, Fresh, PastBlockCheck, PastFollowingCheck, r, s
  <2>2. CASE RemoveFollowing(r.to, r.from) /\ r.call # "unfollowingUser"
    <3>1. blocks' = blocks /\ ~Related(follows', r.to, r.from)
      BY <2>2 DEF RemoveFollowing, Related, Parallel
    <3>2. Related(follows', r.from, r.to) => Related(follows, r.from, r.to)
      BY <2>2 DEF RemoveFollowing, Related
    <3> QED
      BY <1>2, <1>3, <1>11, <2>2, <3>1, <3>2
      DEF DeleteFollowing, Control, Now, Fresh, PastBlockCheck, PastFollowingCheck, r, s
  <2> QED
    BY <1>5, <1>11, <2>1, <2>2 DEF DeleteFollowing, r
<1>12. CASE CreateFollowing(h) \/ Notify(h) \/ CreateBlocked(h) \/ DeleteBlocked(h)
  BY <1>2, <1>3, <1>4, <1>12
  DEF CreateFollowing, Notify, CreateBlocked, DeleteBlocked, At, Control, Now, Fresh, PastBlockCheck,
      PastFollowingCheck, r, s
<1>13. CASE Crash(h)
  BY <1>0, <1>13 DEF Crash, Becomes, TypeOK, s
<1> QED
  BY <1>6, <1>7, <1>8, <1>9, <1>10, <1>11, <1>12, <1>13 DEF HandlerStep, s

-----------------------------------------------------------------------------
(* The serial invariant is inductive *)

\* What BlockExcludesFollow and NoParallelEdges say of one ordered pair.
PairSafe(F, B, a, b) ==
  /\ Related(B, a, b) => ~Related(F, a, b) /\ ~Related(F, b, a)
  /\ \A e, f \in Parallel(F, a, b) : e = f
  /\ \A e, f \in Parallel(B, a, b) : e = f
  /\ a # b /\ Related(B, a, b) => ~Related(B, b, a)

\* Removing relationships keeps a pair safe.
LEMMA PairSafeSubset ==
  ASSUME NEW F, NEW B, NEW F2, NEW B2, NEW a, NEW b,
         PairSafe(F, B, a, b), F2 \subseteq F, B2 \subseteq B
  PROVE  PairSafe(F2, B2, a, b)
BY DEF PairSafe, Related, Parallel

\* So does adding a FOLLOWING between users that neither follow so already nor
\* have a block between them.
LEMMA PairSafeFollow ==
  ASSUME NEW F, NEW B, NEW a, NEW b, NEW i, a # b,
         PairSafe(F, B, a, b), PairSafe(F, B, b, a),
         ~Related(F, a, b), ~Related(B, a, b), ~Related(B, b, a)
  PROVE  LET F2 == F \cup {[from |-> a, to |-> b, id |-> i]} IN
         PairSafe(F2, B, a, b) /\ PairSafe(F2, B, b, a)
<1> DEFINE e == [from |-> a, to |-> b, id |-> i]
<1>1. e.from = a /\ e.to = b
  OBVIOUS
<1> HIDE DEF e
<1> QED
  BY <1>1 DEF PairSafe, Related, Parallel, e

\* So does adding a BLOCKED between users without any relationship.
LEMMA PairSafeBlock ==
  ASSUME NEW F, NEW B, NEW a, NEW b, NEW i, a # b,
         PairSafe(F, B, a, b), PairSafe(F, B, b, a),
         ~Related(F, a, b), ~Related(F, b, a), ~Related(B, a, b), ~Related(B, b, a)
  PROVE  LET B2 == B \cup {[from |-> a, to |-> b, id |-> i]} IN
         PairSafe(F, B2, a, b) /\ PairSafe(F, B2, b, a)
<1> DEFINE e == [from |-> a, to |-> b, id |-> i]
<1>1. e.from = a /\ e.to = b
  OBVIOUS
<1> HIDE DEF e
<1> QED
  BY <1>1 DEF PairSafe, Related, Parallel, e

AllSafe == \A a, b \in Users : {a, b} \notin tainted => PairSafe(follows, blocks, a, b)

\* Safe pairs are what the two properties of the run say.
LEMMA AllSafeIs == AllSafe <=> BlockExcludesFollow /\ NoParallelEdges
BY DEF AllSafe, PairSafe, BlockExcludesFollow, NoParallelEdges

\* The users of the request of h stay safe in its own step.
LEMMA OwnPairSafe ==
  ASSUME SerialInv, NEW h \in Handlers, HandlerStep(h), Pair(requests[h]) \notin tainted'
  PROVE  /\ PairSafe(follows', blocks', requests[h].from, requests[h].to)
         /\ PairSafe(follows', blocks', requests[h].to, requests[h].from)
<1> DEFINE r == requests[h]
<1>0. TypeOK /\ ControlOK /\ AllSafe
  BY AllSafeIs DEF SerialInv
<1>1. Busy(h) /\ tainted \subseteq tainted'
  BY <1>0, HandlerMoves
<1>2. r \in Request /\ Control(r) /\ Fresh(r)
  BY <1>1 DEF SerialInv, TypeOK, ControlOK, ChecksStillHold, Busy
<1>3. r.from \in Users /\ r.to \in Users /\ {r.from, r.to} \notin tainted /\ {r.to, r.from} \notin tainted
  <2>1. {r.from, r.to} = Pair(r) /\ {r.to, r.from} = Pair(r)
    BY DEF Pair
  <2> QED
    BY <1>1, <1>2, <2>1 DEF Request
<1>4. PairSafe(follows, blocks, r.from, r.to) /\ PairSafe(follows, blocks, r.to, r.from)
  BY <1>0, <1>3 DEF AllSafe
<1>5. CASE follows' \subseteq follows /\ blocks' \subseteq blocks
  BY <1>4, <1>5, PairSafeSubset
<1>6. CASE AddFollowing(r.from, r.to) /\ CreateFollowing(h) /\ ~UNCHANGED graph
  <2>1. r.at = "createFollowing" /\ r.from # r.to
    BY <1>2, <1>6 DEF CreateFollowing, At, Control
  <2>2. ~Related(follows, r.from, r.to) /\ ~Related(blocks, r.from, r.to) /\ ~Related(blocks, r.to, r.from)
    BY <1>2, <2>1 DEF Fresh, PastBlockCheck, PastFollowingCheck, Control
  <2>3. PICK i \in EdgeIds : follows' = follows \cup {[from |-> r.from, to |-> r.to, id |-> i]}
    BY <1>6 DEF AddFollowing
  <2>4. blocks' = blocks
    BY <1>6 DEF AddFollowing
  <2> HIDE DEF r
  <2> QED
    BY <1>4, <2>1, <2>2, <2>3, <2>4, PairSafeFollow DEF r
<1>7. CASE AddBlocked(r.from, r.to) /\ CreateBlocked(h) /\ ~UNCHANGED graph
  <2>1. r.at = "createBlocked" /\ r.from # r.to
    BY <1>2, <1>7 DEF CreateBlocked, At, Control
  <2>2. /\ ~Related(follows, r.from, r.to) /\ ~Related(follows, r.to, r.from)
        /\ ~Related(blocks, r.from, r.to) /\ ~Related(blocks, r.to, r.from)
    BY <1>2, <2>1 DEF Fresh, PastBlockCheck, PastFollowingCheck, Control
  <2>3. PICK i \in EdgeIds : blocks' = blocks \cup {[from |-> r.from, to |-> r.to, id |-> i]}
    BY <1>7 DEF AddBlocked
  <2>4. follows' = follows
    BY <1>7 DEF AddBlocked
  <2> HIDE DEF r
  <2> QED
    BY <1>4, <2>1, <2>2, <2>3, <2>4, PairSafeBlock DEF r
<1>8. CASE UNCHANGED graph
  BY <1>4, <1>8 DEF graph
<1>9. CASE CreateFollowing(h)
  BY <1>6, <1>8, <1>9 DEF CreateFollowing
<1>10. CASE CreateBlocked(h)
  BY <1>7, <1>8, <1>10 DEF CreateBlocked
<1>11. CASE DeleteFollowing(h) \/ DeleteBlocked(h)
  <2>1. follows' \subseteq follows /\ blocks' \subseteq blocks
    BY <1>11 DEF DeleteFollowing, DeleteBlocked, RemoveFollowing, RemoveBlocked, graph
  <2> QED
    BY <1>5, <2>1
<1> QED
  BY <1>8, <1>9, <1>10, <1>11 DEF HandlerStep, UserExists, CheckIfUserFollowing, CheckIfUserFollower,
     CheckIfBlocked, CheckIfBlockedBy, Notify, Crash

\* On an untainted pair the step of a request acts alone, and keeps the pair safe.
LEMMA HandlerSerial ==
  ASSUME SerialInv, NEW h \in Handlers, HandlerStep(h)
  PROVE  ControlOK' /\ Alone' /\ ChecksStillHold' /\ AllSafe'
<1>0. TypeOK /\ ControlOK /\ Alone /\ ChecksStillHold /\ AllSafe
  BY AllSafeIs DEF SerialInv
<1>1. /\ Busy(h)
      /\ Others(h)
      /\ tainted \subseteq tainted'
      /\ \/ requests'[h] = NoRequest
         \/ Control(requests'[h]) /\ Now(h, requests'[h].call, requests'[h].at)
  BY <1>0, HandlerMoves
<1>2. \A g \in Handlers : Busy(g)' => Busy(g) /\ Pair(requests'[g]) = Pair(requests[g])
  BY <1>1 DEF Busy, Others, Now, Pair
<1>3. ControlOK'
  BY <1>0, <1>1 DEF ControlOK, Busy, Others, Control
<1>4. Alone'
  <2> SUFFICES ASSUME NEW g \in Handlers, NEW k \in Handlers, g # k, Busy(g)', Busy(k)',
                      Pair(requests'[g]) = Pair(requests'[k])
               PROVE  Pair(requests'[k]) \in tainted'
    BY DEF Alone, Pair, Busy
  <2> QED
    BY <1>0, <1>1, <1>2 DEF Alone
<1>5. ChecksStillHold'
  <2> SUFFICES ASSUME NEW g \in Handlers, Busy(g)', Pair(requests'[g]) \notin tainted'
               PROVE  Fresh(requests[g])'
    BY DEF ChecksStillHold, Pair, Busy
  <2>1. Busy(g) /\ Pair(requests[g]) \notin tainted' /\ Pair(requests[g]) \notin tainted
    BY <1>1, <1>2
  <2>2. CASE g = h
    BY <2>1, <2>2, FreshStep DEF Busy
  <2>3. CASE g # h
    <3> DEFINE r == requests[g]
    <3>1. requests'[g] = r /\ Fresh(r)
      BY <1>0, <1>1, <2>1, <2>3 DEF Others, ChecksStillHold
    <3>2. {r.from, r.to} # Pair(requests[h]) /\ {r.to, r.from} # Pair(requests[h])
      <4>1. Pair(r) # Pair(requests[h])
        BY <1>0, <1>1, <2>1, <2>3 DEF Alone
      <4> QED
        BY <4>1 DEF Pair
    <3> HIDE DEF r
    <3>3. /\ Parallel(follows', r.from, r.to) = Parallel(follows, r.from, r.to)
          /\ Parallel(follows', r.to, r.from) = Parallel(follows, r.to, r.from)
          /\ Parallel(blocks', r.from, r.to) = Parallel(blocks, r.from, r.to)
          /\ Parallel(blocks', r.to, r.from) = Parallel(blocks, r.to, r.from)
      BY <1>0, <3>2, HandlerLocal
    <3>4. /\ Related(follows', r.from, r.to) <=> Related(follows, r.from, r.to)
          /\ Related(follows', r.to, r.from) <=> Related(follows, r.to, r.from)
          /\ Related(blocks', r.from, r.to) <=> Related(blocks, r.from, r.to)
          /\ Related(blocks', r.to, r.from) <=> Related(blocks, r.to, r.from)
      BY <3>3, RelatedParallel
    <3>5. /\ r.at = "isBlockedBy" => (r.seen <=> Related(blocks', r.from, r.to))
          /\ PastBlockCheck(r) => ~Related(blocks', r.from, r.to) /\ ~Related(blocks', r.to, r.from)
          /\ PastFollowingCheck(r) => ~Related(follows', r.from, r.to)
          /\ r.at = "createBlocked" => ~Related(follows', r.to, r.from)
      BY <3>1, <3>4 DEF Fresh
    <3> QED
      BY <3>1, <3>5 DEF Fresh, Related, PastBlockCheck, PastFollowingCheck
  <2> QED
    BY <2>2, <2>3
<1>6. AllSafe'
  <2> SUFFICES ASSUME NEW a \in Users, NEW b \in Users, {a, b} \notin tainted'
               PROVE  PairSafe(follows', blocks', a, b)
    BY DEF AllSafe, PairSafe, Related, Parallel
  <2>1. PairSafe(follows, blocks, a, b)
    BY <1>0, <1>1 DEF AllSafe
  <2>2. CASE {a, b} = Pair(requests[h])
    <3>1. \/ a = requests[h].from /\ b = requests[h].to
          \/ a = requests[h].to /\ b = requests[h].from
      BY <2>2 DEF Pair
    <3> QED
      BY <2>2, <3>1, OwnPairSafe
  <2>3. CASE {a, b} # Pair(requests[h])
    <3>1. {b, a} # Pair(requests[h])
      BY <2>3
    <3>2. /\ Parallel(follows', a, b) = Parallel(follows, a, b)
          /\ Parallel(follows', b, a) = Parallel(follows, b, a)
          /\ Parallel(blocks', a, b) = Parallel(blocks, a, b)
          /\ Parallel(blocks', b, a) = Parallel(blocks, b, a)
      BY <1>0, <2>3, <3>1, HandlerLocal
    <3> QED
      BY <2>1, <3>2, RelatedParallel DEF PairSafe
  <2> QED
    BY <2>2, <2>3
<1> QED
  BY <1>3, <1>4, <1>5, <1>6

\* At first no request is in flight.
LEMMA SerialInvInit == Init => SerialInv
<1> SUFFICES ASSUME Init PROVE SerialInv
  OBVIOUS
<1>1. TypeOK
  BY DEF Init, TypeOK
<1>2. \A h \in Handlers : ~Busy(h)
  BY DEF Init, Busy
<1>3. BlockExcludesFollow /\ NoParallelEdges
  BY DEF Init, BlockExcludesFollow, NoParallelEdges, Related, Parallel
<1> QED
  BY <1>1, <1>2, <1>3 DEF SerialInv, ControlOK, Alone, ChecksStillHold

\* A new request knows nothing yet, and taints its pair if another request
\* about it is in flight.
LEMMA BeginSerial ==
  ASSUME SerialInv, NEW k \in Handlers, NEW op \in Operations, NEW a \in Users, NEW b \in Users,
         BeginRequest(k, op, a, b)
  PROVE  ControlOK' /\ Alone' /\ ChecksStillHold' /\ AllSafe'
<1> DEFINE s == [op |-> op, call |-> op, at |-> Entry[op], from |-> a, to |-> b, seen |-> FALSE]
<1>0. TypeOK /\ ControlOK /\ Alone /\ ChecksStillHold /\ AllSafe
  BY AllSafeIs DEF SerialInv
<1>1. /\ requests'[k] = s
      /\ \A g \in Handlers : g # k => requests'[g] = requests[g]
      /\ UNCHANGED graph
      /\ tainted \subseteq tainted'
      /\ ~Busy(k)
      /\ \A g \in Handlers : Busy(g) /\ Pair(requests[g]) = {a, b} => {a, b} \in tainted'
  BY <1>0 DEF BeginRequest, Becomes, TypeOK
<1>2. Control(s) /\ ~PastBlockCheck(s) /\ ~PastFollowingCheck(s) /\ s.at \notin {"isBlockedBy", "createBlocked"}
  <2>1. op # "unblockUser" => a # b
    BY DEF BeginRequest
  <2> QED
    BY <2>1 DEF Operations, Entry, Control, PastBlockCheck, PastFollowingCheck
<1>3. Pair(s) = {a, b}
  BY DEF Pair
<1> HIDE DEF s
<1>4. ControlOK'
  BY <1>0, <1>1, <1>2 DEF ControlOK, Busy, Control
<1>5. Alone'
  <2> SUFFICES ASSUME NEW g \in Handlers, NEW h \in Handlers, g # h, Busy(g)', Busy(h)',
                      Pair(requests'[g]) = Pair(requests'[h])
               PROVE  Pair(requests'[h]) \in tainted'
    BY DEF Alone, Pair, Busy
  <2>1. CASE g = k
    BY <1>1, <1>3, <2>1 DEF Busy
  <2>2. CASE h = k
    BY <1>1, <1>3, <2>2 DEF Busy
  <2>3. CASE g # k /\ h # k
    BY <1>0, <1>1, <2>3 DEF Alone, Busy
  <2> QED
    BY <2>1, <2>2, <2>3
<1>6. ChecksStillHold'
  <2> SUFFICES ASSUME NEW g \in Handlers, Busy(g)', Pair(requests'[g]) \notin tainted'
               PROVE  Fresh(requests[g])'
    BY DEF ChecksStillHold, Pair, Busy
  <2>1. CASE g = k
    BY <1>1, <1>2, <2>1 DEF Fresh, PastBlockCheck, PastFollowingCheck
  <2>2. CASE g # k
    <3>1. requests'[g] = requests[g] /\ Fresh(requests[g]) /\ UNCHANGED <<follows, blocks>>
      BY <1>0, <1>1, <2>2 DEF ChecksStillHold, Busy, graph
    <3> QED
      BY <3>1 DEF Fresh, Related, PastBlockCheck, PastFollowingCheck
  <2> QED
    BY <2>1, <2>2
<1>7. AllSafe'
  BY <1>0, <1>1 DEF AllSafe, PairSafe, Related, Parallel, graph
<1> QED
  BY <1>4, <1>5, <1>6, <1>7

\* Every step keeps untainted pairs serial.
LEMMA SerialInvNext == SerialInv /\ TypeOK' /\ [Next]_vars => SerialInv'
<1> SUFFICES ASSUME SerialInv, TypeOK', [Next]_vars
             PROVE  ControlOK' /\ Alone' /\ ChecksStillHold' /\ AllSafe'
  <2>1. AllSafe' <=> BlockExcludesFollow' /\ NoParallelEdges'
    BY DEF AllSafe, PairSafe, BlockExcludesFollow, NoParallelEdges
  <2> QED
    BY <2>1 DEF SerialInv
<1>1. CASE UNCHANGED <<requests, tainted, follows, blocks>>
  <2>1. ControlOK /\ Alone /\ ChecksStillHold /\ AllSafe
    BY AllSafeIs DEF SerialInv
  <2>2. ControlOK' /\ Alone'
    BY <1>1, <2>1 DEF ControlOK, Alone, Busy, Control, Pair
  <2>3. ChecksStillHold'
    BY <1>1, <2>1 DEF ChecksStillHold, Busy, Pair, Fresh, Related, PastBlockCheck, PastFollowingCheck
  <2>4. AllSafe'
    BY <1>1, <2>1 DEF AllSafe, PairSafe, Related, Parallel
  <2> QED
    BY <2>2, <2>3, <2>4
<1>2. CASE \E h \in Handlers : HandlerStep(h)
  BY <1>2, HandlerSerial
<1>3. CASE \E h \in Handlers, op \in Operations, a, b \in Users : BeginRequest(h, op, a, b)
  BY <1>3, BeginSerial
<1>4. CASE \E u \in Users : SyncUser(u)
  BY <1>1, <1>4 DEF SyncUser
<1> QED
  BY <1>1, <1>2, <1>3, <1>4 DEF Next, vars

\* So untainted pairs are always serial.
LEMMA Serial == Spec => []SerialInv
<1>1. CountInv => TypeOK
  BY DEF CountInv
<1> QED
  BY <1>1, CountInvInit, CountInvNext, SerialInvInit, SerialInvNext, PTL DEF Spec

\* On a pair whose requests never overlapped and whose queries never failed,
\* every answer a request acts on is still right.
THEOREM ChecksCorrect == Spec => []ChecksStillHold
<1>1. SerialInv => ChecksStillHold
  BY DEF SerialInv
<1> QED
  BY <1>1, Serial, PTL

\* Such a pair is never both blocked and following.
THEOREM BlockCorrect == Spec => []BlockExcludesFollow
<1>1. SerialInv => BlockExcludesFollow
  BY DEF SerialInv
<1> QED
  BY <1>1, Serial, PTL

\* Such a pair has no parallel relationships and no mutual block.
THEOREM EdgesCorrect == Spec => []NoParallelEdges
<1>1. SerialInv => NoParallelEdges
  BY DEF SerialInv
<1> QED
  BY <1>1, Serial, PTL

-----------------------------------------------------------------------------
(* The sequences of queries implement Relationships *)

\* An untainted pair that is not related is not in the relation.
LEMMA RelationNot ==
  ASSUME NEW edges, NEW a, NEW b, ~Related(edges, a, b)
  PROVE  <<a, b>> \notin Relation(edges)
BY DEF Relation, Untainted, Related

\* Adding one relationship adds one pair to the relation, if it is not tainted.
LEMMA RelationAdd ==
  ASSUME NEW edges, NEW e
  PROVE  /\ {e.from, e.to} \in tainted => Relation(edges \cup {e}) = Relation(edges)
         /\ {e.from, e.to} \notin tainted => Relation(edges \cup {e}) = Relation(edges) \cup {<<e.from, e.to>>}
BY DEF Relation, Untainted

\* Removing the parallel ones removes that pair.
LEMMA RelationRemove ==
  ASSUME NEW edges, NEW a, NEW b
  PROVE  Relation(edges \ Parallel(edges, a, b)) = Relation(edges) \ {<<a, b>>}
<1>1. \A e \in edges : e \in Parallel(edges, a, b) <=> <<e.from, e.to>> = <<a, b>>
  BY DEF Parallel
<1> QED
  BY <1>1 DEF Relation, Untainted

\* Tainting a pair removes it both ways.
LEMMA RelationTaint ==
  ASSUME NEW edges, NEW a, NEW b, edges' = edges, tainted' = tainted \cup {{a, b}}
  PROVE  Relation(edges)' = Relation(edges) \ {<<a, b>>, <<b, a>>}
<1>1. \A e : {e.from, e.to} = {a, b} <=> <<e.from, e.to>> \in {<<a, b>>, <<b, a>>}
  OBVIOUS
<1> QED
  BY <1>1 DEF Relation, Untainted

AbstractStep == Abstract!Next \/ UNCHANGED Abstract!vars

\* A step that taints a pair and changes no relationship spoils the pair.
LEMMA TaintRefines ==
  ASSUME UNCHANGED <<follows, blocks>>, NEW a \in Users, NEW b \in Users,
         tainted' = tainted \cup {{a, b}}
  PROVE  AbstractStep
<1>1. /\ Relation(follows)' = Relation(follows) \ {<<a, b>>, <<b, a>>}
      /\ Relation(blocks)' = Relation(blocks) \ {<<a, b>>, <<b, a>>}
  BY RelationTaint
<1>2. Abstract!Spoil(a, b)
  BY <1>1 DEF Abstract!Spoil, Abstract!Between
<1> QED
  BY <1>2 DEF AbstractStep, Abstract!Next

\* A step that changes nothing the relations see is a stuttering step.
LEMMA StutterRefines ==
  ASSUME UNCHANGED <<follows, blocks, tainted>>
  PROVE  AbstractStep
BY DEF AbstractStep, Abstract!vars, Relation, Untainted

\* A query that writes is the abstract operation, or stutters.
LEMMA WriteRefines ==
  ASSUME SerialInv, NEW h \in Handlers, UNCHANGED tainted,
         CreateFollowing(h) \/ DeleteFollowing(h) \/ CreateBlocked(h) \/ DeleteBlocked(h)
  PROVE  AbstractStep
<1> DEFINE r == requests[h]
           a == r.from
           b == r.to
<1>0. HandlerStep(h) /\ Busy(h) /\ TypeOK
  BY DEF HandlerStep, SerialInv, CreateFollowing, DeleteFollowing, CreateBlocked, DeleteBlocked, At
<1>1. r \in Request /\ a \in Users /\ b \in Users /\ Control(r)
  BY <1>0 DEF SerialInv, TypeOK, Busy, ControlOK, Request
<1>2. {a, b} \notin tainted => Fresh(r)
  BY <1>0 DEF SerialInv, ChecksStillHold, Pair
<1>3. Relation(follows)' = Relation(follows') /\ Relation(blocks)' = Relation(blocks')
  BY DEF Relation, Untainted
<1>4. CASE UNCHANGED graph
  BY <1>4, StutterRefines DEF graph
<1>5. CASE CreateFollowing(h) /\ ~UNCHANGED graph
  <2>1. PICK e : follows' = follows \cup {e} /\ e.from = a /\ e.to = b
    <3>1. PICK i \in EdgeIds : follows' = follows \cup {[from |-> a, to |-> b, id |-> i]}
      BY <1>5 DEF CreateFollowing, AddFollowing
    <3>2. WITNESS [from |-> a, to |-> b, id |-> i]
    <3> QED
      BY <3>1
  <2>2. blocks' = blocks /\ r.at = "createFollowing" /\ a # b
    BY <1>1, <1>5 DEF CreateFollowing, AddFollowing, At, Control
  <2>3. CASE {a, b} \in tainted
    <3>1. Relation(follows)' = Relation(follows) /\ Relation(blocks)' = Relation(blocks)
      BY <1>3, <2>1, <2>2, <2>3, RelationAdd
    <3> QED
      BY <3>1 DEF AbstractStep, Abstract!vars
  <2>4. CASE {a, b} \notin tainted
    <3>1. ~Related(follows, a, b) /\ ~Related(blocks, a, b) /\ ~Related(blocks, b, a)
      BY <1>1, <1>2, <2>2, <2>4 DEF Fresh, Control, PastBlockCheck, PastFollowingCheck
    <3>2. <<a, b>> \notin Relation(follows) /\ Relation(blocks) \cap {<<a, b>>, <<b, a>>} = {}
      BY <3>1, RelationNot
    <3> HIDE DEF a, b
    <3>3. Relation(follows)' = Relation(follows) \cup {<<a, b>>} /\ Relation(blocks)' = Relation(blocks)
      <4>1. Relation(follows') = Relation(follows) \cup {<<a, b>>}
        BY <2>1, <2>4, RelationAdd
      <4> QED
        BY <1>3, <2>1, <2>2, <4>1
    <3>4. Abstract!Follow(a, b)
      BY <2>2, <2>4, <3>2, <3>3 DEF Abstract!Follow, Abstract!Between
    <3> QED
      BY <1>1, <3>4 DEF AbstractStep, Abstract!Next
  <2> QED
    BY <2>3, <2>4
<1>6. ASSUME NEW x \in Users, NEW y \in Users, RemoveFollowing(x, y)
      PROVE  AbstractStep
  <2>1. Relation(follows)' = Relation(follows) \ {<<x, y>>} /\ Relation(blocks)' = Relation(blocks)
    BY <1>3, <1>6, RelationRemove DEF RemoveFollowing
  <2>2. Abstract!Unfollow(x, y)
    BY <2>1 DEF Abstract!Unfollow
  <2> QED
    BY <2>2 DEF AbstractStep, Abstract!Next
<1>7. CASE DeleteFollowing(h) /\ ~UNCHANGED graph
  BY <1>1, <1>6, <1>7 DEF DeleteFollowing
<1>8. CASE CreateBlocked(h) /\ ~UNCHANGED graph
  <2>1. PICK e : blocks' = blocks \cup {e} /\ e.from = a /\ e.to = b
    <3>1. PICK i \in EdgeIds : blocks' = blocks \cup {[from |-> a, to |-> b, id |-> i]}
      BY <1>8 DEF CreateBlocked, AddBlocked
    <3>2. WITNESS [from |-> a, to |-> b, id |-> i]
    <3> QED
      BY <3>1
  <2>2. follows' = follows /\ r.at = "createBlocked" /\ a # b
    BY <1>1, <1>8 DEF CreateBlocked, AddBlocked, At, Control
  <2>3. CASE {a, b} \in tainted
    <3>1. Relation(follows)' = Relation(follows) /\ Relation(blocks)' = Relation(blocks)
      BY <1>3, <2>1, <2>2, <2>3, RelationAdd
    <3> QED
      BY <3>1 DEF AbstractStep, Abstract!vars
  <2>4. CASE {a, b} \notin tainted
    <3>1. /\ ~Related(follows, a, b) /\ ~Related(follows, b, a)
          /\ ~Related(blocks, a, b) /\ ~Related(blocks, b, a)
      BY <1>1, <1>2, <2>2, <2>4 DEF Fresh, Control, PastBlockCheck, PastFollowingCheck
    <3>2. (Relation(follows) \cup Relation(blocks)) \cap {<<a, b>>, <<b, a>>} = {}
      BY <3>1, RelationNot
    <3> HIDE DEF a, b
    <3>3. Relation(blocks)' = Relation(blocks) \cup {<<a, b>>} /\ Relation(follows)' = Relation(follows)
      <4>1. Relation(blocks') = Relation(blocks) \cup {<<a, b>>}
        BY <2>1, <2>4, RelationAdd
      <4> QED
        BY <1>3, <2>1, <2>2, <4>1
    <3>4. Abstract!Block(a, b)
      BY <2>2, <2>4, <3>2, <3>3 DEF Abstract!Block, Abstract!Between
    <3> QED
      BY <1>1, <3>4 DEF AbstractStep, Abstract!Next
  <2> QED
    BY <2>3, <2>4
<1>9. CASE DeleteBlocked(h) /\ ~UNCHANGED graph
  <2>1. RemoveBlocked(a, b)
    BY <1>9 DEF DeleteBlocked
  <2>2. Relation(blocks)' = Relation(blocks) \ {<<a, b>>} /\ Relation(follows)' = Relation(follows)
    BY <1>3, <2>1, RelationRemove DEF RemoveBlocked
  <2> HIDE DEF a, b
  <2>3. Abstract!Unblock(a, b)
    BY <2>2 DEF Abstract!Unblock
  <2> QED
    BY <1>1, <2>3 DEF AbstractStep, Abstract!Next
<1> QED
  BY <1>4, <1>5, <1>7, <1>8, <1>9

\* Every step is an abstract one of Relationships, or none.
LEMMA StepRefines == SerialInv /\ [Next]_vars => AbstractStep
<1> SUFFICES ASSUME SerialInv, [Next]_vars PROVE AbstractStep
  OBVIOUS
<1>0. TypeOK
  BY DEF SerialInv
<1>1. CASE UNCHANGED vars
  BY <1>1, StutterRefines DEF vars
<1>2. CASE \E u \in Users : SyncUser(u)
  BY <1>2, StutterRefines DEF SyncUser
<1>3. ASSUME NEW h \in Handlers, NEW op \in Operations, NEW a \in Users, NEW b \in Users,
             BeginRequest(h, op, a, b)
      PROVE  AbstractStep
  <2>1. tainted' = tainted \/ tainted' = tainted \cup {{a, b}}
    BY <1>3 DEF BeginRequest
  <2>2. UNCHANGED <<follows, blocks>>
    BY <1>3 DEF BeginRequest, graph
  <2> QED
    BY <2>1, <2>2, StutterRefines, TaintRefines
<1>4. ASSUME NEW h \in Handlers, HandlerStep(h)
      PROVE  AbstractStep
  <2>1. Busy(h)
    BY <1>4 DEF HandlerStep, UserExists, CheckIfUserFollowing, CheckIfUserFollower, CheckIfBlocked,
       CheckIfBlockedBy, CreateFollowing, Notify, DeleteFollowing, CreateBlocked, DeleteBlocked, Crash, At
  <2>2. requests[h].from \in Users /\ requests[h].to \in Users
    BY <1>0, <2>1 DEF TypeOK, Busy, Request
  <2>3. tainted' = tainted \/ tainted' = tainted \cup {{requests[h].from, requests[h].to}}
    BY <1>4 DEF HandlerStep, UserExists, CheckIfUserFollowing, CheckIfUserFollower, CheckIfBlocked,
       CheckIfBlockedBy, CreateFollowing, Notify, DeleteFollowing, CreateBlocked, DeleteBlocked, Crash,
       Answers, FaultTaints, Pair
  <2>4. CASE UNCHANGED <<follows, blocks>>
    BY <2>2, <2>3, <2>4, StutterRefines, TaintRefines
  <2>5. CASE ~UNCHANGED <<follows, blocks>>
    <3>1. CreateFollowing(h) \/ DeleteFollowing(h) \/ CreateBlocked(h) \/ DeleteBlocked(h)
      BY <1>4, <2>5 DEF HandlerStep, UserExists, CheckIfUserFollowing, CheckIfUserFollower, CheckIfBlocked,
         CheckIfBlockedBy, Notify, Crash, graph
    <3>2. UNCHANGED tainted
      BY <2>5, <3>1 DEF CreateFollowing, DeleteFollowing, CreateBlocked, DeleteBlocked, graph
    <3> QED
      BY <3>1, <3>2, WriteRefines
  <2> QED
    BY <2>4, <2>5
<1> QED
  BY <1>1, <1>2, <1>3, <1>4 DEF Next

\* The graph begins as Relationships does.
LEMMA InitRefines == Init => Abstract!Init
BY DEF Init, Abstract!Init, Relation, Untainted

\* The requests of the service, each a sequence of queries that other requests
\* interleave with, implement the atomic follow, unfollow, block and unblock of
\* Relationships.
THEOREM Refinement == Spec => RefinesRelationships
<1>1. SerialInv /\ [Next]_vars => [Abstract!Next]_(Abstract!vars)
  BY StepRefines DEF AbstractStep
<1> QED
  BY <1>1, InitRefines, Serial, PTL DEF Spec, RefinesRelationships, Abstract!Spec

-----------------------------------------------------------------------------
(* The lists *)

USE ListingsAssumption

\* What a reading awaits once its page is read.
Late == {"seen", "mergeGet", "mergeSet", "filter", "forget"}

\* The requests of a reading are where they can be, and its pages are no more than users.
Settled(r) ==
  /\ r.at = "clear" => r.list = "suggestions" /\ r.page = 0
  /\ r.at \in {"count", "seen", "mergeGet", "mergeSet"} => r.list \in Suggesting
  /\ r.at = "forget" => r.list = "interests"
  /\ r.ended => r.at = "idle"
  /\ ~r.ended => r.page <= Cardinality(Members)
  /\ r.at = "page" /\ r.list \in Suggesting => r.total <= Cardinality(Members)
  /\ r.at \in Late /\ ~r.last => r.page + 1 <= Cardinality(Members)

\* Two that read the same suggestions at the same time know of each other.
Together(d, e) ==
  /\ d # e /\ Begun(d) /\ Begun(e)
  /\ ~readings[d].ended /\ ~readings[e].ended
  /\ readings[d].list = readings[e].list /\ readings[d].list \in Suggesting

\* A total that stands for the rows until the page is read.
Counts(d) ==
  readings[d].at = "page" /\ readings[d].list \in Suggesting /\ Undisturbed(d) =>
    Cardinality(Rows(readings[d].list, following, users)) <= readings[d].total

\* What a reading knows of the others and of the list is so.
ReadingOK(d) ==
  /\ Settled(readings[d])
  /\ \A e \in readings[d].with : Begun(e)
  /\ \A e \in Readings : Together(d, e) => e \in readings[d].with
  /\ ~readings[d].ended =>
       readings[d].stable \subseteq Shown(readings[d].list, following, users)
  /\ Counts(d)

ReadingInv == \A d \in Readings : Begun(d) => ReadingOK(d)

\* Without a failure, Redis keeps users with an interest only while one reads them.
ForgetInv ==
  shown["interests"] # {} =>
    failures > 0 \/ \E d \in Readings : Reads(d, "interests") /\ ~readings[d].ended

\* Readings whose writes to Redis are all among theirs.
Closed(E) ==
  \A e \in E : Begun(e) /\ Undisturbed(e) /\ readings[e].with \subseteq E

\* The user has been on the list all along.
Wanted(E, u) == \A e \in E : u \in readings[e].stable

\* The client has the user, or is about to.
Given(e, u) ==
  u \in readings[e].got \/ (readings[e].at \in {"filter", "forget"} /\ u \in readings[e].rows)

\* One of the readings gives the user.
Covered(E, u) == \E e \in E : Given(e, u)

\* What the set in Redis holds counts for the reading.
PastClear(r) ==
  /\ ~r.ended /\ r.list \in Suggesting
  /\ r.list = "interests" \/ r.page > 0 \/ r.at \notin {"idle", "clear"}

\* A row of the user's at n or later.
From(l, n, u) ==
  \E q \in Rows(l, following, users) :
    Returned(l, q[3]) = u /\ n <= Offset(q, Rows(l, following, users))

\* The reading has the user on its page, or comes to the user yet.
Ahead(r, u) ==
  IF r.at \in Late
  THEN u \in r.rows \/ (~r.last /\ From(r.list, (r.page + 1) * Limit, u))
  ELSE ~r.ended /\ From(r.list, r.page * Limit, u)

\* The user comes yet, and nothing in Redis stands in the way.
Open(r, u) ==
  /\ PastClear(r) => u \notin shown[r.list]
  /\ r.at = "mergeSet" => u \notin r.known
  /\ Ahead(r, u)

\* Whoever is on the list all along is given by one of the readings, or comes yet to all.
CoverInv ==
  \A E \in SUBSET Readings, u \in Members :
    Closed(E) /\ Wanted(E, u) => Covered(E, u) \/ \A d \in E : Open(readings[d], u)

\* A reading of suggestions that nothing from outside has touched.
Lone(d) ==
  /\ Reads(d, "suggestions")
  /\ readings[d].with = {}
  /\ readings[d].met \cap {"failed", "expired"} = {}

\* What a reading alone has given is in Redis, and on no page of it still to be given.
Apart(r) ==
  /\ "repeated" \notin r.met
  /\ ~r.ended /\ r.page = 0 => r.got = {}
  /\ PastClear(r) => r.got \subseteq shown["suggestions"]
  /\ r.at \in {"mergeGet", "mergeSet", "filter"} => r.rows \cap r.got = {}
  /\ r.at = "mergeSet" => r.got \subseteq r.known
  /\ r.at = "filter" => r.rows \subseteq shown["suggestions"]


ApartInv == \A d \in Readings : Lone(d) => Apart(readings[d])

\* Rows, finitely many, as they are ordered.
RowSets == {rows \in SUBSET (Nat \X Nat \X Members) : IsFiniteSet(rows)}

\* Rows are finitely many, and so is every part of them.
LEMMA RowsFinite ==
  ASSUME NEW rows \in RowSets
  PROVE  /\ IsFiniteSet(rows) /\ Cardinality(rows) \in Nat
         /\ \A part \in SUBSET rows : part \in RowSets
  BY FS_Subset, FS_CardinalityType DEF RowSets

\* Of any two rows one is earlier.
LEMMA RowsOrdered ==
  ASSUME NEW rows \in RowSets, NEW q \in rows, NEW r \in rows
  PROVE  /\ ~Earlier(q, q)
         /\ q # r => Earlier(q, r) \/ Earlier(r, q)
         /\ \A p \in rows : Earlier(p, q) /\ Earlier(q, r) => Earlier(p, r)
<1>1. \A x \in rows : x[1] \in Nat /\ x[2] \in Nat /\ x[3] \in Members /\ x = <<x[1], x[2], x[3]>>
  BY DEF RowSets
<1>2. \A x \in rows : Order[x[3]] \in Nat
  BY <1>1 DEF ListingsAssumption
<1>3. ~Earlier(q, q)
  BY <1>1, <1>2 DEF Earlier
<1>4. ASSUME q # r PROVE Earlier(q, r) \/ Earlier(r, q)
  <2>1. q[1] # r[1] \/ q[2] # r[2] \/ q[3] # r[3]
    BY <1>1, <1>4
  <2>2. q[3] # r[3] => Order[q[3]] # Order[r[3]]
    BY <1>1 DEF ListingsAssumption
  <2> QED
    BY <1>1, <1>2, <2>1, <2>2 DEF Earlier
<1>5. ASSUME NEW p \in rows, Earlier(p, q), Earlier(q, r) PROVE Earlier(p, r)
  BY <1>1, <1>2, <1>5 DEF Earlier
<1> QED
  BY <1>3, <1>4, <1>5

\* An offset is less than the number of rows.
LEMMA OffsetBelow ==
  ASSUME NEW rows \in RowSets, NEW q \in rows
  PROVE  Offset(q, rows) \in 0..Cardinality(rows) - 1
<1> DEFINE before == {p \in rows : Earlier(p, q)}
<1>1. before \subseteq rows \ {q}
  BY RowsOrdered
<1>2. IsFiniteSet(rows \ {q}) /\ Cardinality(rows \ {q}) = Cardinality(rows) - 1
  BY RowsFinite, FS_RemoveElement
<1>3. IsFiniteSet(before) /\ Cardinality(before) <= Cardinality(rows \ {q})
  BY <1>1, <1>2, FS_Subset
<1>4. Cardinality(before) \in Nat
  BY <1>3, FS_CardinalityType
<1> QED
  BY <1>2, <1>3, <1>4, RowsFinite DEF Offset

\* Two rows have two offsets.
LEMMA OffsetInjective ==
  ASSUME NEW rows \in RowSets, NEW q \in rows, NEW r \in rows, Offset(q, rows) = Offset(r, rows)
  PROVE  q = r
<1> DEFINE Before(x) == {p \in rows : Earlier(p, x)}
<1>1. \A x \in rows : Before(x) \subseteq rows /\ IsFiniteSet(Before(x)) /\ Cardinality(Before(x)) \in Nat
  BY RowsFinite, FS_Subset, FS_CardinalityType
<1>2. ASSUME NEW x \in rows, NEW y \in rows, Earlier(x, y)
      PROVE  Cardinality(Before(x)) < Cardinality(Before(y))
  <2>1. x \notin Before(x) /\ x \in Before(y) /\ Before(x) \subseteq Before(y)
    BY <1>2, RowsOrdered
  <2>2. Cardinality(Before(x) \cup {x}) = Cardinality(Before(x)) + 1
    BY <1>1, <2>1, FS_AddElement
  <2>3. Before(x) \cup {x} \subseteq Before(y)
    BY <2>1
  <2>4. Cardinality(Before(x) \cup {x}) <= Cardinality(Before(y))
    BY <1>1, <2>3, FS_Subset
  <2> HIDE DEF Before
  <2> QED
    BY <1>1, <2>2, <2>4
<1>3. Cardinality(Before(q)) = Cardinality(Before(r))
  BY DEF Offset
<1>4. ~Earlier(q, r) /\ ~Earlier(r, q)
  <2> HIDE DEF Before
  <2> QED
    BY <1>1, <1>2, <1>3
<1> QED
  BY <1>4, RowsOrdered

\* Rows that are added only push others back.
LEMMA OffsetMonotone ==
  ASSUME NEW more \in RowSets, NEW rows \in SUBSET more, NEW q \in rows
  PROVE  Offset(q, rows) <= Offset(q, more)
<1>1. {p \in rows : Earlier(p, q)} \subseteq {p \in more : Earlier(p, q)}
  OBVIOUS
<1>2. IsFiniteSet({p \in more : Earlier(p, q)})
  BY RowsFinite, FS_Subset
<1> QED
  BY <1>1, <1>2, FS_Subset DEF Offset

\* Every number less than that of the rows is the offset of one.
LEMMA OffsetOnto ==
  ASSUME NEW rows \in RowSets, NEW k \in 0..Cardinality(rows) - 1
  PROVE  \E q \in rows : Offset(q, rows) = k
<1> DEFINE n == Cardinality(rows)
           f == [q \in rows |-> Offset(q, rows)]
<1>1. n \in Nat
  BY RowsFinite
<1>2. f \in [rows -> 0..n - 1]
  BY OffsetBelow
<1>3. IsInjective(f)
  BY OffsetInjective DEF IsInjective
<1>4. IsFiniteSet(0..n - 1) /\ Cardinality(0..n - 1) = n
  BY <1>1, FS_Interval
<1>5. f \in Injection(rows, 0..n - 1)
  BY <1>2, <1>3 DEF Injection
<1>6. f \in Surjection(rows, 0..n - 1)
  BY <1>4, <1>5, FS_Injection
<1> QED
  BY <1>6 DEF Surjection

\* A page that rows come after is full.
LEMMA PageFull ==
  ASSUME NEW rows \in RowSets, NEW n \in Nat,
         NEW q \in rows, n + Limit <= Offset(q, rows)
  PROVE  Limit <= Cardinality({r \in rows : Offset(r, rows) \in n..n + Limit - 1})
<1> DEFINE page == {r \in rows : Offset(r, rows) \in n..n + Limit - 1}
           f == [r \in page |-> Offset(r, rows)]
<1>1. Limit \in Nat /\ Cardinality(rows) \in Nat
  BY RowsFinite DEF ListingsAssumption
<1>2. \A k \in n..n + Limit - 1 : k \in 0..Cardinality(rows) - 1
  BY <1>1, OffsetBelow
<1>3. \A k \in n..n + Limit - 1 : \E r \in page : f[r] = k
  BY <1>2, OffsetOnto
<1>4. f \in Surjection(page, n..n + Limit - 1)
  BY <1>3 DEF Surjection
<1>5. IsFiniteSet(page)
  BY RowsFinite, FS_Subset
<1>6. Cardinality(n..n + Limit - 1) <= Cardinality(page)
  BY <1>4, <1>5, FS_Surjection
<1>7. Cardinality(n..n + Limit - 1) = Limit
  BY <1>1, FS_Interval
<1> QED
  BY <1>6, <1>7

\* There is a user at least: Me.
LEMMA MembersCounted == Cardinality(Members) \in Nat /\ Cardinality(Members) >= 1
<1>1. IsFiniteSet(Members) /\ Members # {}
  BY DEF ListingsAssumption
<1> QED
  BY <1>1, FS_CardinalityType, FS_EmptySet

\* Pages follow each other.
LEMMA PageStarts ==
  ASSUME NEW p \in Nat
  PROVE  /\ p * Limit \in Nat
         /\ (p + 1) * Limit = p * Limit + Limit
         /\ p <= p * Limit
<1>1. Limit \in Nat /\ Limit >= 1
  BY DEF ListingsAssumption
<1>2. p * Limit \in Nat
  BY <1>1
<1>3. (p + 1) * Limit = p * Limit + Limit
  BY <1>1
<1>4. p <= p * Limit
  BY <1>1
<1> QED
  BY <1>2, <1>3, <1>4

\* Suggestions are of users.
LEMMA SuggestedTyped ==
  ASSUME NEW g
  PROVE  FriendsOfFriends(g) \subseteq Members /\ LikeMinded(g) \subseteq Members
<1>1. \A f : Outgoing(f, g) \subseteq Members /\ Incoming(f, g) \subseteq Members
  BY DEF Outgoing, Incoming
<1>2. ASSUME NEW u \in FriendsOfFriends(g) PROVE u \in Members
  <2>1. PICK f \in Outgoing(Me, g) : u \in Outgoing(f, g)
    BY DEF FriendsOfFriends
  <2> QED
    BY <1>1, <2>1
<1>3. ASSUME NEW u \in LikeMinded(g) PROVE u \in Members
  <2>1. PICK f \in Outgoing(Me, g) : u \in Incoming(f, g)
    BY DEF LikeMinded
  <2> QED
    BY <1>1, <2>1
<1> QED
  BY <1>2, <1>3

\* There are as many rows of one tier as users in it.
LEMMA TaggedFinite ==
  ASSUME NEW n, NEW S, IsFiniteSet(S)
  PROVE  /\ IsFiniteSet({n} \X {0} \X S)
         /\ Cardinality({n} \X {0} \X S) <= Cardinality(S)
<1> DEFINE row == [u \in S |-> <<n, 0, u>>]
<1>1. \A t \in {n} \X {0} \X S : t[3] \in S /\ t = <<n, 0, t[3]>>
  OBVIOUS
<1>2. row \in [S -> {n} \X {0} \X S]
  OBVIOUS
<1>3. \A t \in {n} \X {0} \X S : row[t[3]] = t
  BY <1>1
<1> HIDE DEF row
<1>4. row \in Surjection(S, {n} \X {0} \X S)
  BY <1>1, <1>2, <1>3 DEF Surjection
<1> QED
  BY <1>4, FS_Surjection

\* The rows of a list, and how many there can be of one that is not counted.
LEMMA RowsTyped ==
  ASSUME NEW l \in Lists, NEW g, NEW i \in [Members -> User]
  PROVE  /\ Rows(l, g, i) \in RowSets
         /\ l \in Plain => Cardinality(Rows(l, g, i)) <= Cardinality(Members)
<1>1. ASSUME l # "interests" PROVE First(l, g, i) \subseteq Members
  BY <1>1, SuggestedTyped DEF First, Lists, Plain, Suggesting, Outgoing, Incoming
<1>2. Second(l, g) \subseteq Members
  BY SuggestedTyped DEF Second
<1>3. Rows(l, g, i) \in SUBSET (Nat \X Nat \X Members)
  <2>1. CASE l = "interests"
    <3>1. ASSUME NEW u \in Members PROVE Lacking(u, i) \in Nat /\ i[u].name \in Nat
      <4>1. i[u] \in User /\ i[Me] \in User
        BY DEF ListingsAssumption
      <4>2. i[Me].interests \ i[u].interests \subseteq Topics /\ i[u].name \in Nat
        BY <4>1 DEF User, ListingsAssumption
      <4> QED
        BY <4>2, FS_Subset, FS_CardinalityType DEF Lacking, ListingsAssumption
    <3>2. Sharing(i) \subseteq Members
      BY DEF Sharing
    <3> QED
      BY <2>1, <3>1, <3>2 DEF Rows
  <2>2. CASE l # "interests"
    BY <1>1, <1>2, <2>2 DEF Rows
  <2> QED
    BY <2>1, <2>2
<1>4. IsFiniteSet(Rows(l, g, i))
  <2>1. CASE l = "interests"
    <3> DEFINE row == [u \in Sharing(i) |-> <<Lacking(u, i), i[u].name, u>>]
    <3>1. IsFiniteSet(Sharing(i))
      BY FS_Subset DEF Sharing, ListingsAssumption
    <3>2. row \in Surjection(Sharing(i), Rows(l, g, i))
      BY <2>1 DEF Rows, Surjection
    <3> QED
      BY <3>1, <3>2, FS_Surjection
  <2>2. CASE l # "interests"
    <3>1. IsFiniteSet(First(l, g, i)) /\ IsFiniteSet(Second(l, g))
      BY <1>1, <1>2, <2>2, FS_Subset DEF ListingsAssumption
    <3> DEFINE S == {1} \X {0} \X First(l, g, i)
               T == {2} \X {0} \X Second(l, g)
    <3>2. IsFiniteSet(S) /\ IsFiniteSet(T)
      <4>1. IsFiniteSet({1} \X {0} \X First(l, g, i))
        BY <3>1, TaggedFinite
      <4>2. IsFiniteSet({2} \X {0} \X Second(l, g))
        BY <3>1, TaggedFinite
      <4> QED
        BY <4>1, <4>2
    <3>3. Rows(l, g, i) = S \cup T
      BY <2>2 DEF Rows
    <3> HIDE DEF S, T
    <3>4. IsFiniteSet(S \cup T)
      BY <3>2, FS_Union
    <3> QED
      BY <3>3, <3>4
  <2> QED
    BY <2>1, <2>2
<1>5. Rows(l, g, i) \in RowSets
  BY <1>3, <1>4 DEF RowSets
<1>6. ASSUME l \in Plain PROVE Cardinality(Rows(l, g, i)) <= Cardinality(Members)
  <2>1. Second(l, g) = {} /\ l # "interests"
    BY <1>6 DEF Second, Plain
  <2>2. Rows(l, g, i) \subseteq {1} \X {0} \X Members
    BY <1>1, <2>1 DEF Rows
  <2>3. IsFiniteSet(Members)
    BY DEF ListingsAssumption
  <2>4. /\ Cardinality({1} \X {0} \X Members) <= Cardinality(Members)
        /\ IsFiniteSet({1} \X {0} \X Members)
    BY <2>3, TaggedFinite
  <2>5. /\ Cardinality(Rows(l, g, i)) <= Cardinality({1} \X {0} \X Members)
        /\ Cardinality(Rows(l, g, i)) \in Nat
    BY <2>2, <2>4, FS_Subset, FS_CardinalityType
  <2>6. Cardinality({1} \X {0} \X Members) \in Nat /\ Cardinality(Members) \in Nat
    BY <2>3, <2>4, FS_CardinalityType
  <2> QED
    BY <2>4, <2>5, <2>6
<1> QED
  BY <1>5, <1>6

\* Whom a list shows is Me or another user; each is in a row.
LEMMA ShownRows ==
  ASSUME NEW l \in Lists, NEW g, NEW i \in [Members -> User]
  PROVE  /\ Shown(l, g, i) \subseteq Members
         /\ \A u \in Shown(l, g, i) : \E q \in Rows(l, g, i) : Returned(l, q[3]) = u
         /\ \A page \in SUBSET Rows(l, g, i) : Results(l, page) \subseteq Members
<1>1. \A q \in Rows(l, g, i) : Returned(l, q[3]) \in Members
  BY RowsTyped DEF RowSets, Returned, ListingsAssumption
<1>2. Shown(l, g, i) \subseteq Results(l, Rows(l, g, i))
  BY DEF Shown
<1> QED
  BY <1>1, <1>2 DEF Results

\* A total is at most the number of users.
LEMMA TotalBound ==
  ASSUME LTypeOK, NEW l \in Suggesting
  PROVE  Total(l) \in Nat /\ Total(l) <= Cardinality(Members)
<1>1. \A S \in SUBSET Members : Cardinality(S) \in Nat /\ Cardinality(S) <= Cardinality(Members)
  BY FS_Subset, FS_CardinalityType DEF ListingsAssumption
<1>2. Sharing(users) \in SUBSET Members
  BY DEF Sharing, LTypeOK
<1>3. FriendsOfFriends(following) \cup (LikeMinded(following) \ FriendsOfFriends(following)) \in SUBSET Members
  BY SuggestedTyped
<1>4. {} \in SUBSET Members /\ Cardinality({}) = 0
  BY FS_EmptySet
<1> QED
  BY <1>1, <1>2, <1>3, <1>4 DEF Total

\* Where one page does not give a user, the next ones do.
LEMMA PageGives ==
  ASSUME LTypeOK, NEW l \in Lists, NEW p \in Nat, NEW u, From(l, p * Limit, u)
  PROVE  u \in Results(l, Page(l, p)) \/ From(l, (p + 1) * Limit, u)
<1> DEFINE rows == Rows(l, following, users)
<1>1. rows \in RowSets
  BY RowsTyped DEF LTypeOK
<1>2. PICK q \in rows : Returned(l, q[3]) = u /\ p * Limit <= Offset(q, rows)
  BY DEF From
<1>3. Offset(q, rows) \in Nat
  BY <1>1, OffsetBelow, RowsFinite
<1>4. Limit \in Nat
  BY DEF ListingsAssumption
<1>5. CASE (p + 1) * Limit <= Offset(q, rows)
  BY <1>2, <1>5 DEF From
<1>6. CASE ~((p + 1) * Limit <= Offset(q, rows))
  <2>1. Offset(q, rows) \in p * Limit .. (p + 1) * Limit - 1
    BY <1>2, <1>3, <1>4, <1>6, PageStarts
  <2>2. q \in Page(l, p)
    BY <2>1 DEF Page
  <2> QED
    BY <1>2, <2>2 DEF Results
<1> QED
  BY <1>5, <1>6

\* A page that is not full, or ends with the rows, is the last.
LEMMA PageLast ==
  ASSUME LTypeOK, NEW l \in Lists, NEW p \in Nat, NEW u, From(l, (p + 1) * Limit, u)
  PROVE  /\ Limit <= Cardinality(Page(l, p))
         /\ (p + 1) * Limit < Cardinality(Rows(l, following, users))
<1> DEFINE rows == Rows(l, following, users)
<1>1. rows \in RowSets
  BY RowsTyped DEF LTypeOK
<1>2. PICK q \in rows : (p + 1) * Limit <= Offset(q, rows)
  BY DEF From
<1>3. Offset(q, rows) \in 0..Cardinality(rows) - 1 /\ Cardinality(rows) \in Nat
  BY <1>1, OffsetBelow, RowsFinite
<1>4. p * Limit \in Nat /\ (p + 1) * Limit = p * Limit + Limit /\ Limit \in Nat
  BY PageStarts DEF ListingsAssumption
<1>5. Limit <= Cardinality({r \in rows : Offset(r, rows) \in p * Limit .. p * Limit + Limit - 1})
  BY <1>1, <1>2, <1>4, PageFull
<1>6. Page(l, p) = {r \in rows : Offset(r, rows) \in p * Limit .. p * Limit + Limit - 1}
  BY <1>4 DEF Page
<1>7. (p + 1) * Limit < Cardinality(rows)
  BY <1>2, <1>3, <1>4
<1> QED
  BY <1>5, <1>6, <1>7

\* A page on which there is a row is no later than there are rows.
LEMMA PageInside ==
  ASSUME LTypeOK, NEW l \in Lists, NEW p \in Nat, Page(l, p) # {}
  PROVE  p + 1 <= Cardinality(Rows(l, following, users))
<1> DEFINE rows == Rows(l, following, users)
<1>1. rows \in RowSets
  BY RowsTyped DEF LTypeOK
<1>2. PICK q \in rows : Offset(q, rows) \in p * Limit .. (p + 1) * Limit - 1
  BY DEF Page
<1>3. Offset(q, rows) \in 0..Cardinality(rows) - 1 /\ Cardinality(rows) \in Nat
  BY <1>1, OffsetBelow, RowsFinite
<1> QED
  BY <1>2, <1>3, PageStarts

-----------------------------------------------------------------------------
(* What each step does to a reading *)

\* A reading's request moves on, and what other readings do is left alone.
Advances(d) ==
  LET r == readings[d]
      s == readings'[d]
  IN
  /\ Begun(d) /\ r \in Reading /\ s \in Reading
  /\ \A e \in Readings \ {d} : readings'[e] = readings[e]
  /\ s.list = r.list /\ s.stable = r.stable /\ s.with = r.with /\ r.met \subseteq s.met
  /\ Settled(s)
  /\ UNCHANGED relations
  /\ LTypeOK'

\* A failure is noted, writes nothing to Redis, and ends no reading.
Fails(d) ==
  /\ Advances(d)
  /\ "failed" \in readings'[d].met
  /\ readings'[d].ended = readings[d].ended
  /\ failures' > 0
  /\ shown'["suggestions"] = shown["suggestions"]
  /\ shown'["interests"] \subseteq shown["interests"]

\* A request that leaves to its reading what the client knows of it moves it on.
LEMMA AdvancesBy ==
  ASSUME LTypeOK, NEW d \in Readings, Begun(d), NEW s \in Reading, Turns(d, s),
         s.list = readings[d].list, s.stable = readings[d].stable,
         s.with = readings[d].with, readings[d].met \subseteq s.met,
         Settled(s), UNCHANGED relations,
         shown' \in [Suggesting -> SUBSET Members], failures' \in 0..MaxFailures
  PROVE  Advances(d) /\ readings'[d] = s
<1>1. readings \in [Readings -> Reading \cup {None}] /\ readings[d] \in Reading
  BY DEF LTypeOK, Begun
<1>2. readings' = [readings EXCEPT ![d] = s]
  BY DEF Turns
<1>3. readings'[d] = s /\ \A e \in Readings \ {d} : readings'[e] = readings[e]
  BY <1>1, <1>2
<1>4. readings' \in [Readings -> Reading \cup {None}]
  BY <1>1, <1>2
<1>5. LTypeOK'
  BY <1>4 DEF LTypeOK, relations
<1> QED
  BY <1>1, <1>3, <1>5 DEF Advances

\* How an answer that is an error leaves a reading.
LEMMA FailsBy ==
  ASSUME LTypeOK, NEW d \in Readings, Begun(d), NEW s \in Reading, Turns(d, Failed(s)), Failure,
         s.list = readings[d].list, s.stable = readings[d].stable,
         s.with = readings[d].with, s.met = readings[d].met, s.ended = readings[d].ended,
         Settled(s), UNCHANGED relations,
         shown' \in [Suggesting -> SUBSET Members],
         shown'["suggestions"] = shown["suggestions"],
         shown'["interests"] \subseteq shown["interests"]
  PROVE  Fails(d)
<1> DEFINE t == Failed(s)
<1>1. t = [s EXCEPT !.met = @ \cup {"failed"}]
  BY DEF Failed
<1>2. t \in Reading
  BY <1>1 DEF Reading
<1>3. /\ t.list = s.list /\ t.stable = s.stable /\ t.with = s.with /\ t.ended = s.ended
      /\ t.at = s.at /\ t.page = s.page /\ t.last = s.last /\ t.total = s.total
      /\ t.met = s.met \cup {"failed"}
  BY <1>1 DEF Reading
<1>4. Settled(t)
  BY <1>3 DEF Settled
<1>5. failures' \in 0..MaxFailures /\ failures' > 0
  BY DEF Failure, LTypeOK, ListingsAssumption
<1> HIDE DEF t
<1>6. Turns(d, t)
  BY DEF t
<1>7. Advances(d) /\ readings'[d] = t
  BY <1>2, <1>3, <1>4, <1>5, <1>6, AdvancesBy
<1> QED
  BY <1>3, <1>5, <1>7 DEF Fails

\* The client may ask again: the reading is idle.
LEMMA GivesUpFails ==
  ASSUME LTypeOK, NEW d \in Readings, Begun(d), Settled(readings[d]), ~readings[d].ended,
         GivesUp(d), UNCHANGED relations,
         shown' \in [Suggesting -> SUBSET Members],
         shown'["suggestions"] = shown["suggestions"],
         shown'["interests"] \subseteq shown["interests"]
  PROVE  Fails(d)
<1> DEFINE r == readings[d]
           s == [r EXCEPT !.at = "idle"]
<1>1. r \in Reading
  BY DEF LTypeOK, Begun
<1>2. s \in Reading
  BY <1>1 DEF Reading, Stages
<1>3. /\ s.list = r.list /\ s.stable = r.stable /\ s.with = r.with /\ s.met = r.met
      /\ s.ended = r.ended /\ s.page = r.page /\ s.at = "idle"
  BY <1>1 DEF Reading
<1>4. Settled(s)
  BY <1>3 DEF Settled, Late
<1>5. Turns(d, Failed(s)) /\ Failure
  BY DEF GivesUp
<1> HIDE DEF s
<1> QED
  BY <1>2, <1>3, <1>4, <1>5, FailsBy

\* The client asks for a page.
LEMMA AskStep ==
  ASSUME LTypeOK, NEW d \in Readings, Settled(readings[d]), Ask(d)
  PROVE  LET r == readings[d]
             s == readings'[d]
         IN
         /\ Advances(d) /\ UNCHANGED <<shown, failures>>
         /\ r.at = "idle" /\ ~r.ended
         /\ s.at = IF r.list = "suggestions" /\ r.page = 0 THEN "clear"
                   ELSE IF r.list \in Suggesting THEN "count" ELSE "page"
         /\ s.page = r.page /\ s.got = r.got /\ s.ended = r.ended /\ s.met = r.met
<1> DEFINE r == readings[d]
           q == IF r.list = "suggestions" /\ r.page = 0 THEN "clear"
                ELSE IF r.list \in Suggesting THEN "count" ELSE "page"
           t == [r EXCEPT !.at = q]
<1>1. Begun(d) /\ r \in Reading /\ r.at = "idle" /\ ~r.ended
  BY DEF LTypeOK, Begun, Ask, Awaits
<1>2. t \in Reading
  BY <1>1 DEF Reading, Stages
<1>3. /\ t.list = r.list /\ t.stable = r.stable /\ t.with = r.with /\ t.met = r.met
      /\ t.ended = r.ended /\ t.page = r.page /\ t.at = q /\ t.got = r.got
  BY <1>1 DEF Reading
<1>4. Settled(t)
  BY <1>1, <1>3 DEF Settled, Late, Suggesting
<1>5. Turns(d, t) /\ UNCHANGED <<shown, failures, relations>>
  BY DEF Ask, MoveTo, relations
<1> HIDE DEF t
<1>6. Advances(d) /\ readings'[d] = t
  BY <1>1, <1>2, <1>3, <1>4, <1>5, AdvancesBy DEF LTypeOK
<1> QED
  BY <1>1, <1>3, <1>5, <1>6

\* The set is cleared before the first page.
LEMMA ClearStep ==
  ASSUME LTypeOK, NEW d \in Readings, Settled(readings[d]), Clear(d)
  PROVE  LET r == readings[d]
             s == readings'[d]
         IN
         /\ r.at = "clear" /\ r.list = "suggestions" /\ r.page = 0 /\ ~r.ended
         /\ Fails(d) \/ /\ Advances(d) /\ UNCHANGED failures
                        /\ shown'["suggestions"] = {} /\ shown'["interests"] = shown["interests"]
                        /\ s.at = "count" /\ s.page = r.page /\ s.got = r.got
                        /\ s.ended = r.ended /\ s.met = r.met
<1> DEFINE r == readings[d]
           t == [r EXCEPT !.at = "count"]
<1>1. Begun(d) /\ r \in Reading /\ r.at = "clear" /\ shown \in [Suggesting -> SUBSET Members]
  BY DEF LTypeOK, Begun, Clear, Awaits
<1>2. r.list = "suggestions" /\ r.page = 0 /\ ~r.ended
  BY <1>1 DEF Settled
<1>3. UNCHANGED relations
  BY DEF Clear
<1>4. CASE GivesUp(d) /\ UNCHANGED shown
  BY <1>1, <1>2, <1>3, <1>4, GivesUpFails
<1>5. CASE MoveTo(d, "count") /\ shown' = [shown EXCEPT !["suggestions"] = {}] /\ NoFailure
  <2>1. t \in Reading
    BY <1>1 DEF Reading, Stages
  <2>2. /\ t.list = r.list /\ t.stable = r.stable /\ t.with = r.with /\ t.met = r.met
        /\ t.ended = r.ended /\ t.page = r.page /\ t.at = "count" /\ t.got = r.got
    BY <1>1 DEF Reading
  <2>3. Settled(t)
    BY <1>2, <2>2 DEF Settled, Late, Suggesting
  <2>4. Turns(d, t) /\ UNCHANGED failures
    BY <1>5 DEF MoveTo, NoFailure
  <2>5. shown' \in [Suggesting -> SUBSET Members]
    BY <1>1, <1>5
  <2>6. shown'["suggestions"] = {} /\ shown'["interests"] = shown["interests"]
    BY <1>1, <1>5 DEF Suggesting
  <2> HIDE DEF t
  <2>7. Advances(d) /\ readings'[d] = t
    BY <1>1, <1>3, <2>1, <2>2, <2>3, <2>4, <2>5, AdvancesBy DEF LTypeOK
  <2> QED
    BY <1>1, <1>2, <2>2, <2>4, <2>6, <2>7
<1> QED
  BY <1>4, <1>5 DEF Clear

\* Suggestions are counted: none are left, or the page comes next.
LEMMA CountStep ==
  ASSUME LTypeOK, NEW d \in Readings, Settled(readings[d]), Count(d)
  PROVE  LET r == readings[d]
             s == readings'[d]
             rows == Rows(r.list, following, users)
         IN
         /\ r.at = "count" /\ r.list \in Suggesting /\ ~r.ended
         /\ Fails(d) \/ /\ Advances(d) /\ UNCHANGED <<shown, failures>>
                        /\ s.at = IF s.total = 0 THEN "seen" ELSE "page"
                        /\ s.rows = {} /\ s.last = (s.total = 0)
                        /\ "short" \in s.met \/ Cardinality(rows) <= s.total
                        /\ s.page = r.page /\ s.got = r.got /\ s.ended = r.ended
                        /\ \A m \in {"failed", "expired", "repeated"} : m \in s.met <=> m \in r.met
<1> DEFINE r == readings[d]
           rows == Rows(r.list, following, users)
           total == Total(r.list)
           Counted(n) == [r EXCEPT !.total = n, !.at = IF n = 0 THEN "seen" ELSE "page",
                                   !.rows = {}, !.last = n = 0]
           few == total < Cardinality(rows)
<1>1. Begun(d) /\ r \in Reading /\ r.at = "count" /\ shown \in [Suggesting -> SUBSET Members]
  BY DEF LTypeOK, Begun, Count, Awaits
<1>2. r.list \in Suggesting /\ ~r.ended /\ r.page <= Cardinality(Members)
  BY <1>1 DEF Settled
<1>3. UNCHANGED <<shown, relations>>
  BY DEF Count
<1>4. total \in Nat /\ total <= Cardinality(Members)
  BY <1>2, TotalBound
<1>5. Cardinality(rows) \in Nat
  BY <1>1, RowsTyped, RowsFinite DEF LTypeOK, Reading
<1>6. ASSUME NEW n \in Nat, n <= Cardinality(Members)
      PROVE  LET t == Counted(n) IN
             /\ t \in Reading /\ Settled(t)
             /\ t.list = r.list /\ t.stable = r.stable /\ t.with = r.with /\ t.met = r.met
             /\ t.ended = r.ended /\ t.page = r.page /\ t.got = r.got
             /\ t.at = (IF n = 0 THEN "seen" ELSE "page") /\ t.rows = {}
             /\ t.last = (n = 0) /\ t.total = n
  <2> DEFINE t == Counted(n)
  <2>1. t \in Reading
    BY <1>1 DEF Reading, Stages
  <2>2. /\ t.list = r.list /\ t.stable = r.stable /\ t.with = r.with /\ t.met = r.met
        /\ t.ended = r.ended /\ t.page = r.page /\ t.got = r.got
        /\ t.at = (IF n = 0 THEN "seen" ELSE "page") /\ t.rows = {}
        /\ t.last = (n = 0) /\ t.total = n
    BY <1>1 DEF Reading
  <2> HIDE DEF t
  <2>3. Settled(t)
    BY <1>2, <1>6, <2>2 DEF Settled, Late
  <2> QED
    BY <2>1, <2>2, <2>3 DEF t
<1>7. CASE GivesUp(d)
  BY <1>1, <1>2, <1>3, <1>7, GivesUpFails
<1>8. CASE Failure /\ Turns(d, Failed(Counted(0)))
  <2>1. 0 \in Nat /\ 0 <= Cardinality(Members)
    BY MembersCounted
  <2> DEFINE t == Counted(0)
  <2>2. /\ t \in Reading /\ Settled(t)
        /\ t.list = r.list /\ t.stable = r.stable /\ t.with = r.with /\ t.met = r.met
        /\ t.ended = r.ended
    BY <1>6, <2>1
  <2>3. Turns(d, Failed(t)) /\ Failure
    BY <1>8
  <2> HIDE DEF t
  <2> QED
    BY <1>1, <1>2, <1>3, <2>2, <2>3, FailsBy
<1>9. CASE NoFailure /\ Turns(d, IF few THEN [Counted(total) EXCEPT !.met = @ \cup {"short"}]
                                 ELSE Counted(total))
  <2> DEFINE c == Counted(total)
             t == IF few THEN [c EXCEPT !.met = @ \cup {"short"}] ELSE c
  <2>1. /\ c \in Reading /\ Settled(c)
        /\ c.list = r.list /\ c.stable = r.stable /\ c.with = r.with /\ c.met = r.met
        /\ c.ended = r.ended /\ c.page = r.page /\ c.got = r.got
        /\ c.at = (IF total = 0 THEN "seen" ELSE "page") /\ c.rows = {}
        /\ c.last = (total = 0) /\ c.total = total
    BY <1>4, <1>6
  <2>2. Turns(d, t) /\ UNCHANGED failures
    BY <1>9 DEF NoFailure
  <2> HIDE DEF c, total
  <2>3. t \in Reading
    BY <2>1 DEF Reading
  <2>4. /\ t.list = c.list /\ t.stable = c.stable /\ t.with = c.with /\ t.ended = c.ended
        /\ t.page = c.page /\ t.got = c.got /\ t.at = c.at /\ t.rows = c.rows
        /\ t.last = c.last /\ t.total = c.total
        /\ t.met = IF few THEN c.met \cup {"short"} ELSE c.met
    BY <2>1 DEF Reading
  <2> HIDE DEF t
  <2>5. Settled(t)
    BY <2>1, <2>4 DEF Settled
  <2>6. Advances(d) /\ readings'[d] = t
    BY <1>1, <1>3, <2>1, <2>2, <2>3, <2>4, <2>5, AdvancesBy DEF LTypeOK
  <2>7. "short" \in t.met \/ Cardinality(rows) <= t.total
    BY <1>4, <1>5, <2>1, <2>4
  <2> QED
    BY <1>1, <1>2, <1>3, <2>1, <2>2, <2>4, <2>6, <2>7
<1> QED
  BY <1>7, <1>8, <1>9 DEF Count

\* After a page that is not the last there can be another one.
LEMMA NotLast ==
  ASSUME LTypeOK, NEW r \in Reading, Settled(r), r.at = "page", ~r.ended,
         NEW page \in {Page(r.list, r.page), {}}, ~IsLast(r, page)
  PROVE  r.page + 1 <= Cardinality(Members)
<1>1. r.list \in Lists /\ r.page \in Nat /\ r.total \in Nat
  BY MembersCounted DEF Reading, MaxPage
<1>2. CASE r.list \in Suggesting
  <2>1. r.total <= Cardinality(Members)
    BY <1>2 DEF Settled
  <2>2. ~((r.page + 1) * Limit >= r.total)
    BY <1>2 DEF IsLast
  <2>3. (r.page + 1) * Limit \in Nat /\ r.page + 1 <= (r.page + 1) * Limit
    BY <1>1, PageStarts, r.page + 1 \in Nat
  <2> QED
    BY <1>1, <2>1, <2>2, <2>3, MembersCounted
<1>3. CASE r.list \notin Suggesting
  <2>1. ~(Cardinality(page) < Limit) /\ Limit \in Nat /\ Limit # 0
    BY <1>3 DEF IsLast, ListingsAssumption
  <2>2. ASSUME page = {} PROVE FALSE
    <3>1. Cardinality(page) = 0
      BY <2>2, FS_EmptySet
    <3> QED
      BY <2>1, <3>1
  <2>3. r.page + 1 <= Cardinality(Rows(r.list, following, users))
    BY <1>1, <2>2, PageInside
  <2>4. /\ Cardinality(Rows(r.list, following, users)) <= Cardinality(Members)
        /\ Cardinality(Rows(r.list, following, users)) \in Nat
    BY <1>1, <1>3, RowsTyped, RowsFinite DEF Lists, LTypeOK
  <2> QED
    BY <1>1, <2>3, <2>4, MembersCounted
<1> QED
  BY <1>2, <1>3

\* The page is read, and decided to be the last or not.
LEMMA ReadPageStep ==
  ASSUME LTypeOK, NEW d \in Readings, Settled(readings[d]), ReadPage(d)
  PROVE  LET r == readings[d]
             s == readings'[d]
             page == Page(r.list, r.page)
         IN
         /\ r.at = "page" /\ ~r.ended
         /\ Fails(d) \/ /\ Advances(d) /\ UNCHANGED <<shown, failures>>
                        /\ s.at = IF r.list \in Suggesting THEN "seen" ELSE "filter"
                        /\ s.rows = Results(r.list, page) /\ s.last = IsLast(r, page)
                        /\ s.page = r.page /\ s.got = r.got
                        /\ s.ended = r.ended /\ s.met = r.met
<1> DEFINE r == readings[d]
           Read(page) == [r EXCEPT !.rows = Results(r.list, page), !.last = IsLast(r, page),
                                   !.at = IF r.list \in Suggesting THEN "seen" ELSE "filter"]
<1>1. Begun(d) /\ r \in Reading /\ r.at = "page" /\ shown \in [Suggesting -> SUBSET Members]
  BY DEF LTypeOK, Begun, ReadPage, Awaits
<1>2. ~r.ended /\ r.page <= Cardinality(Members)
  BY <1>1 DEF Settled
<1>3. UNCHANGED <<shown, relations>>
  BY DEF ReadPage
<1>4. ASSUME NEW page \in {Page(r.list, r.page), {}}
      PROVE  LET t == Read(page) IN
             /\ t \in Reading /\ Settled(t)
             /\ t.list = r.list /\ t.stable = r.stable /\ t.with = r.with /\ t.met = r.met
             /\ t.ended = r.ended /\ t.page = r.page /\ t.got = r.got
             /\ t.at = (IF r.list \in Suggesting THEN "seen" ELSE "filter")
             /\ t.rows = Results(r.list, page) /\ t.last = IsLast(r, page)
  <2> DEFINE t == Read(page)
  <2>1. page \subseteq Rows(r.list, following, users)
    BY DEF Page
  <2>2. Results(r.list, page) \subseteq Members
    BY <1>1, <2>1, ShownRows DEF LTypeOK, Reading
  <2>3. IsLast(r, page) \in BOOLEAN
    <3>1. ((r.page + 1) * Limit >= r.total) \in BOOLEAN /\ (Cardinality(page) < Limit) \in BOOLEAN
      OBVIOUS
    <3> QED
      BY <3>1, Zenon DEF IsLast
  <2>4. t \in Reading
    BY <1>1, <2>2, <2>3 DEF Reading, Stages
  <2>5. /\ t.list = r.list /\ t.stable = r.stable /\ t.with = r.with /\ t.met = r.met
        /\ t.ended = r.ended /\ t.page = r.page /\ t.got = r.got
        /\ t.at = (IF r.list \in Suggesting THEN "seen" ELSE "filter")
        /\ t.rows = Results(r.list, page) /\ t.last = IsLast(r, page)
    BY <1>1 DEF Reading
  <2> HIDE DEF t
  <2>6. ~IsLast(r, page) => r.page + 1 <= Cardinality(Members)
    BY <1>1, <1>2, NotLast
  <2>7. Settled(t)
    BY <1>2, <2>5, <2>6 DEF Settled, Late
  <2> QED
    BY <2>4, <2>5, <2>7 DEF t
<1>5. CASE GivesUp(d)
  BY <1>1, <1>2, <1>3, <1>5, GivesUpFails
<1>6. CASE Turns(d, Failed(Read({}))) /\ Failure
  <2> DEFINE t == Read({})
  <2>1. /\ t \in Reading /\ Settled(t)
        /\ t.list = r.list /\ t.stable = r.stable /\ t.with = r.with /\ t.met = r.met
        /\ t.ended = r.ended
    BY <1>4
  <2>2. Turns(d, Failed(t)) /\ Failure
    BY <1>6
  <2> HIDE DEF t
  <2> QED
    BY <1>1, <1>2, <1>3, <2>1, <2>2, FailsBy
<1>7. CASE Turns(d, Read(Page(r.list, r.page))) /\ NoFailure
  <2> DEFINE t == Read(Page(r.list, r.page))
  <2>1. /\ t \in Reading /\ Settled(t)
        /\ t.list = r.list /\ t.stable = r.stable /\ t.with = r.with /\ t.met = r.met
        /\ t.ended = r.ended /\ t.page = r.page /\ t.got = r.got
        /\ t.at = (IF r.list \in Suggesting THEN "seen" ELSE "filter")
        /\ t.rows = Results(r.list, Page(r.list, r.page))
        /\ t.last = IsLast(r, Page(r.list, r.page))
    BY <1>4
  <2>2. Turns(d, t) /\ UNCHANGED failures
    BY <1>7 DEF NoFailure
  <2> HIDE DEF t
  <2>3. Advances(d) /\ readings'[d] = t
    BY <1>1, <1>3, <2>1, <2>2, AdvancesBy DEF LTypeOK
  <2> QED
    BY <1>1, <1>2, <1>3, <2>1, <2>2, <2>3
<1> QED
  BY <1>5, <1>6, <1>7 DEF ReadPage

\* Users who were suggested before are left out.
LEMMA SeenStep ==
  ASSUME LTypeOK, NEW d \in Readings, Settled(readings[d]), Seen(d)
  PROVE  LET r == readings[d]
             s == readings'[d]
         IN
         /\ r.at = "seen" /\ r.list \in Suggesting /\ ~r.ended
         /\ Fails(d) \/ /\ Advances(d) /\ UNCHANGED <<shown, failures>>
                        /\ s.rows = r.rows \ shown[r.list]
                        /\ s.at = IF r.rows \subseteq shown[r.list] THEN "filter" ELSE "mergeGet"
                        /\ s.last = r.last /\ s.page = r.page /\ s.got = r.got
                        /\ s.ended = r.ended /\ s.met = r.met
<1> DEFINE r == readings[d]
           Left(known) == [r EXCEPT !.rows = @ \ known,
                                    !.at = IF r.rows \subseteq known THEN "filter" ELSE "mergeGet"]
<1>1. Begun(d) /\ r \in Reading /\ r.at = "seen" /\ shown \in [Suggesting -> SUBSET Members]
  BY DEF LTypeOK, Begun, Seen, Awaits
<1>2. r.list \in Suggesting /\ ~r.ended
  BY <1>1 DEF Settled
<1>3. UNCHANGED <<shown, relations>>
  BY DEF Seen
<1>4. ASSUME NEW known \in SUBSET Members
      PROVE  LET t == Left(known) IN
             /\ t \in Reading /\ Settled(t)
             /\ t.list = r.list /\ t.stable = r.stable /\ t.with = r.with /\ t.met = r.met
             /\ t.ended = r.ended /\ t.page = r.page /\ t.got = r.got
             /\ t.at = (IF r.rows \subseteq known THEN "filter" ELSE "mergeGet")
             /\ t.rows = r.rows \ known /\ t.last = r.last
  <2> DEFINE t == Left(known)
  <2>1. t \in Reading
    BY <1>1 DEF Reading, Stages
  <2>2. /\ t.list = r.list /\ t.stable = r.stable /\ t.with = r.with /\ t.met = r.met
        /\ t.ended = r.ended /\ t.page = r.page /\ t.got = r.got
        /\ t.at = (IF r.rows \subseteq known THEN "filter" ELSE "mergeGet")
        /\ t.rows = r.rows \ known /\ t.last = r.last
    BY <1>1 DEF Reading
  <2> HIDE DEF t
  <2>3. Settled(t)
    BY <1>1, <1>2, <2>2 DEF Settled, Late
  <2> QED
    BY <2>1, <2>2, <2>3 DEF t
<1>5. PICK known \in SUBSET Members : Cached(d, known) /\ Noted(d, Left(known))
  BY DEF Seen
<1> DEFINE t == Left(known)
<1>6. /\ t \in Reading /\ Settled(t)
      /\ t.list = r.list /\ t.stable = r.stable /\ t.with = r.with /\ t.met = r.met
      /\ t.ended = r.ended /\ t.page = r.page /\ t.got = r.got
      /\ t.at = (IF r.rows \subseteq known THEN "filter" ELSE "mergeGet")
      /\ t.rows = r.rows \ known /\ t.last = r.last
  BY <1>4
<1>7. Noted(d, t)
  BY <1>5
<1> HIDE DEF t
<1>8. CASE known = shown[r.list] /\ NoFailure
  <2>1. Turns(d, t) /\ UNCHANGED failures
    BY <1>7, <1>8 DEF Noted, NoFailure
  <2>2. Advances(d) /\ readings'[d] = t
    BY <1>1, <1>3, <1>6, <2>1, AdvancesBy DEF LTypeOK
  <2> QED
    BY <1>1, <1>2, <1>3, <1>6, <1>8, <2>1, <2>2
<1>9. CASE Failure
  <2>1. failures' # failures
    BY <1>9 DEF Failure, LTypeOK
  <2>2. Turns(d, Failed(t))
    BY <1>7, <2>1 DEF Noted
  <2> QED
    BY <1>1, <1>2, <1>3, <1>6, <1>9, <2>2, FailsBy
<1> QED
  BY <1>5, <1>8, <1>9 DEF Cached

\* The set is read again.
LEMMA MergeGetStep ==
  ASSUME LTypeOK, NEW d \in Readings, Settled(readings[d]), MergeGet(d)
  PROVE  LET r == readings[d]
             s == readings'[d]
         IN
         /\ r.at = "mergeGet" /\ r.list \in Suggesting /\ ~r.ended
         /\ Fails(d) \/ /\ Advances(d) /\ UNCHANGED <<shown, failures>>
                        /\ s.at = "mergeSet" /\ s.known = shown[r.list] /\ s.rows = r.rows
                        /\ s.last = r.last /\ s.page = r.page /\ s.got = r.got
                        /\ s.ended = r.ended /\ s.met = r.met
<1> DEFINE r == readings[d]
           Knows(known) == [r EXCEPT !.known = known, !.at = "mergeSet"]
<1>1. Begun(d) /\ r \in Reading /\ r.at = "mergeGet" /\ shown \in [Suggesting -> SUBSET Members]
  BY DEF LTypeOK, Begun, MergeGet, Awaits
<1>2. r.list \in Suggesting /\ ~r.ended
  BY <1>1 DEF Settled
<1>3. UNCHANGED <<shown, relations>>
  BY DEF MergeGet
<1>4. PICK known \in SUBSET Members : Cached(d, known) /\ Noted(d, Knows(known))
  BY DEF MergeGet
<1> DEFINE t == Knows(known)
<1>5. t \in Reading
  BY <1>1 DEF Reading, Stages
<1>6. /\ t.list = r.list /\ t.stable = r.stable /\ t.with = r.with /\ t.met = r.met
      /\ t.ended = r.ended /\ t.page = r.page /\ t.got = r.got
      /\ t.at = "mergeSet" /\ t.rows = r.rows /\ t.last = r.last /\ t.known = known
  BY <1>1 DEF Reading
<1>7. Noted(d, t)
  BY <1>4
<1> HIDE DEF t
<1>8. Settled(t)
  BY <1>1, <1>2, <1>6 DEF Settled, Late
<1>9. CASE known = shown[r.list] /\ NoFailure
  <2>1. Turns(d, t) /\ UNCHANGED failures
    BY <1>7, <1>9 DEF Noted, NoFailure
  <2>2. Advances(d) /\ readings'[d] = t
    BY <1>1, <1>3, <1>5, <1>6, <1>8, <2>1, AdvancesBy DEF LTypeOK
  <2> QED
    BY <1>1, <1>2, <1>3, <1>6, <1>9, <2>1, <2>2
<1>10. CASE Failure
  <2>1. failures' # failures
    BY <1>10 DEF Failure, LTypeOK
  <2>2. Turns(d, Failed(t))
    BY <1>7, <2>1 DEF Noted
  <2> QED
    BY <1>1, <1>2, <1>3, <1>5, <1>6, <1>8, <1>10, <2>2, FailsBy
<1> QED
  BY <1>4, <1>9, <1>10 DEF Cached

\* The set is written whole, with the users of the page.
LEMMA MergeSetStep ==
  ASSUME LTypeOK, NEW d \in Readings, Settled(readings[d]), MergeSet(d)
  PROVE  LET r == readings[d]
             s == readings'[d]
         IN
         /\ r.at = "mergeSet" /\ r.list \in Suggesting /\ ~r.ended
         /\ Fails(d) \/ /\ Advances(d) /\ UNCHANGED failures
                        /\ shown'[r.list] = r.known \cup r.rows
                        /\ \A l \in Suggesting \ {r.list} : shown'[l] = shown[l]
                        /\ s.at = "filter" /\ s.rows = r.rows
                        /\ s.last = r.last /\ s.page = r.page /\ s.got = r.got
                        /\ s.ended = r.ended /\ s.met = r.met
<1> DEFINE r == readings[d]
           t == [r EXCEPT !.known = {}, !.at = "filter"]
<1>1. Begun(d) /\ r \in Reading /\ r.at = "mergeSet" /\ shown \in [Suggesting -> SUBSET Members]
  BY DEF LTypeOK, Begun, MergeSet, Awaits
<1>2. r.list \in Suggesting /\ ~r.ended /\ r.known \subseteq Members /\ r.rows \subseteq Members
  BY <1>1 DEF Settled, Reading
<1>3. UNCHANGED relations
  BY DEF MergeSet
<1>4. t \in Reading
  BY <1>1 DEF Reading, Stages
<1>5. /\ t.list = r.list /\ t.stable = r.stable /\ t.with = r.with /\ t.met = r.met
      /\ t.ended = r.ended /\ t.page = r.page /\ t.got = r.got
      /\ t.at = "filter" /\ t.rows = r.rows /\ t.last = r.last
  BY <1>1 DEF Reading
<1>6. Noted(d, t)
  BY DEF MergeSet
<1> HIDE DEF t
<1>7. Settled(t)
  BY <1>1, <1>2, <1>5 DEF Settled, Late
<1>8. CASE NoFailure /\ shown' = [shown EXCEPT ![r.list] = r.known \cup r.rows]
  <2>1. Turns(d, t) /\ UNCHANGED failures
    BY <1>6, <1>8 DEF Noted, NoFailure
  <2>2. shown' \in [Suggesting -> SUBSET Members]
    BY <1>1, <1>2, <1>8
  <2>3. shown'[r.list] = r.known \cup r.rows /\ \A l \in Suggesting \ {r.list} : shown'[l] = shown[l]
    BY <1>1, <1>2, <1>8
  <2>4. Advances(d) /\ readings'[d] = t
    BY <1>1, <1>3, <1>4, <1>5, <1>7, <2>1, <2>2, AdvancesBy DEF LTypeOK
  <2> QED
    BY <1>1, <1>2, <1>5, <2>1, <2>3, <2>4
<1>9. CASE Failure /\ UNCHANGED shown
  <2>1. failures' # failures
    BY <1>9 DEF Failure, LTypeOK
  <2>2. Turns(d, Failed(t))
    BY <1>6, <2>1 DEF Noted
  <2> QED
    BY <1>1, <1>2, <1>3, <1>4, <1>5, <1>7, <1>9, <2>2, FailsBy
<1> QED
  BY <1>8, <1>9 DEF MergeSet

\* An answer gives the page to the client, which asks for the next one or ends.
LEMMA AnsweredStep ==
  ASSUME LTypeOK, NEW d \in Readings, Begun(d), Settled(readings[d]),
         readings[d].at \in {"filter", "forget"}, Answered(d, readings[d]), UNCHANGED relations,
         shown' \in [Suggesting -> SUBSET Members]
  PROVE  LET r == readings[d]
             s == readings'[d]
         IN
         /\ Advances(d) /\ UNCHANGED failures
         /\ s.at = "idle" /\ s.got = r.got \cup r.rows
         /\ s.ended = r.last /\ s.page = r.page + 1
         /\ s.met = r.met \cup (IF r.rows \cap r.got # {} THEN {"repeated"} ELSE {})
<1> DEFINE r == readings[d]
           met == r.met \cup (IF r.rows \cap r.got # {} THEN {"repeated"} ELSE {})
           t == [r EXCEPT !.at = "idle", !.rows = {}, !.total = 0, !.last = FALSE,
                          !.got = @ \cup r.rows, !.ended = r.last, !.page = @ + 1,
                          !.met = @ \cup (IF r.rows \cap r.got # {} THEN {"repeated"} ELSE {})]
<1>1. r \in Reading
  BY DEF LTypeOK, Begun
<1>2. /\ ~r.ended /\ r.page <= Cardinality(Members)
      /\ ~r.last => r.page + 1 <= Cardinality(Members)
  BY DEF Settled, Late
<1>3. r.page \in Nat /\ r.page + 1 \in 0..MaxPage
  BY <1>1, <1>2, MembersCounted DEF Reading, MaxPage
<1>4. met \subseteq {"moved", "short", "failed", "expired", "repeated"}
  BY <1>1 DEF Reading
<1>5. t = [r EXCEPT !.at = "idle", !.rows = {}, !.total = 0, !.last = FALSE,
                    !.got = r.got \cup r.rows, !.ended = r.last, !.page = r.page + 1,
                    !.met = met]
  BY <1>1 DEF Reading
<1> HIDE DEF met
<1>6. t \in Reading
  BY <1>1, <1>3, <1>4, <1>5 DEF Reading, Stages
<1>7. /\ t.list = r.list /\ t.stable = r.stable /\ t.with = r.with /\ t.met = met
      /\ t.ended = r.last /\ t.page = r.page + 1 /\ t.got = r.got \cup r.rows /\ t.at = "idle"
  BY <1>1, <1>5 DEF Reading
<1>8. Turns(d, t) /\ UNCHANGED failures
  BY DEF Answered, NoFailure
<1> HIDE DEF t
<1>9. Settled(t)
  BY <1>2, <1>7 DEF Settled, Late
<1>10. r.met \subseteq t.met
  BY <1>7 DEF met
<1>11. Advances(d) /\ readings'[d] = t
  BY <1>6, <1>7, <1>8, <1>9, <1>10, AdvancesBy DEF LTypeOK
<1> QED
  BY <1>7, <1>8, <1>11 DEF met

\* Whoever Me follows by now is left out of interests.
LEMMA FilterStep ==
  ASSUME LTypeOK, NEW d \in Readings, Settled(readings[d]), Filter(d)
  PROVE  LET r == readings[d]
             s == readings'[d]
         IN
         /\ r.at = "filter" /\ ~r.ended
         /\ \/ Fails(d)
            \/ /\ r.list # "interests"
               /\ Advances(d) /\ UNCHANGED <<shown, failures>>
               /\ s.at = "idle" /\ s.got = r.got \cup r.rows
               /\ s.ended = r.last /\ s.page = r.page + 1
               /\ s.met = r.met \cup (IF r.rows \cap r.got # {} THEN {"repeated"} ELSE {})
            \/ /\ r.list = "interests"
               /\ Advances(d) /\ UNCHANGED <<shown, failures>>
               /\ s.at = "forget" /\ s.rows = r.rows \ Outgoing(Me, following)
               /\ s.last = r.last /\ s.page = r.page /\ s.got = r.got
               /\ s.ended = r.ended /\ s.met = r.met
<1> DEFINE r == readings[d]
           t == [r EXCEPT !.at = "forget", !.rows = @ \ Outgoing(Me, following)]
           u == [r EXCEPT !.at = "forget"]
<1>1. Begun(d) /\ r \in Reading /\ r.at = "filter" /\ shown \in [Suggesting -> SUBSET Members]
  BY DEF LTypeOK, Begun, Filter, Awaits
<1>2. ~r.ended
  BY <1>1 DEF Settled
<1>3. UNCHANGED <<shown, relations>>
  BY DEF Filter
<1>4. CASE GivesUp(d)
  BY <1>1, <1>2, <1>3, <1>4, GivesUpFails
<1>5. CASE r.list # "interests" /\ Answered(d, r)
  BY <1>1, <1>2, <1>3, <1>5, AnsweredStep
<1>6. CASE r.list = "interests" /\ Turns(d, t) /\ NoFailure
  <2>1. t \in Reading
    BY <1>1 DEF Reading, Stages
  <2>2. /\ t.list = r.list /\ t.stable = r.stable /\ t.with = r.with /\ t.met = r.met
        /\ t.ended = r.ended /\ t.page = r.page /\ t.got = r.got
        /\ t.at = "forget" /\ t.rows = r.rows \ Outgoing(Me, following) /\ t.last = r.last
    BY <1>1 DEF Reading
  <2>3. Turns(d, t) /\ UNCHANGED failures
    BY <1>6 DEF NoFailure
  <2> HIDE DEF t
  <2>4. Settled(t)
    BY <1>1, <1>2, <1>6, <2>2 DEF Settled, Late
  <2>5. Advances(d) /\ readings'[d] = t
    BY <1>1, <1>3, <2>1, <2>2, <2>3, <2>4, AdvancesBy DEF LTypeOK
  <2> QED
    BY <1>1, <1>2, <1>3, <1>6, <2>2, <2>3, <2>5
<1>7. CASE r.list = "interests" /\ Turns(d, Failed(u)) /\ Failure
  <2>1. u \in Reading
    BY <1>1 DEF Reading, Stages
  <2>2. /\ u.list = r.list /\ u.stable = r.stable /\ u.with = r.with /\ u.met = r.met
        /\ u.ended = r.ended /\ u.page = r.page /\ u.at = "forget" /\ u.last = r.last
    BY <1>1 DEF Reading
  <2>3. Turns(d, Failed(u)) /\ Failure
    BY <1>7
  <2> HIDE DEF u
  <2>4. Settled(u)
    BY <1>1, <1>2, <1>7, <2>2 DEF Settled, Late
  <2> QED
    BY <1>1, <1>2, <1>3, <2>1, <2>2, <2>3, <2>4, FailsBy
<1> QED
  BY <1>4, <1>5, <1>6, <1>7 DEF Filter

\* With the answer, whoever was suggested by interest is forgotten.
LEMMA ForgetStep ==
  ASSUME LTypeOK, NEW d \in Readings, Settled(readings[d]), Forget(d)
  PROVE  LET r == readings[d]
             s == readings'[d]
         IN
         /\ r.at = "forget" /\ r.list = "interests" /\ ~r.ended
         /\ Fails(d) \/ /\ Advances(d) /\ UNCHANGED failures
                        /\ shown'["interests"] = {} /\ shown'["suggestions"] = shown["suggestions"]
                        /\ s.at = "idle" /\ s.got = r.got \cup r.rows
                        /\ s.ended = r.last /\ s.page = r.page + 1
                        /\ s.met = r.met \cup (IF r.rows \cap r.got # {} THEN {"repeated"} ELSE {})
<1> DEFINE r == readings[d]
           cleared == [shown EXCEPT !["interests"] = {}]
<1>1. Begun(d) /\ r \in Reading /\ r.at = "forget" /\ shown \in [Suggesting -> SUBSET Members]
  BY DEF LTypeOK, Begun, Forget, Awaits
<1>2. ~r.ended /\ r.list = "interests"
  BY <1>1 DEF Settled
<1>3. UNCHANGED relations
  BY DEF Forget
<1>4. /\ cleared \in [Suggesting -> SUBSET Members]
      /\ cleared["interests"] = {} /\ cleared["suggestions"] = shown["suggestions"]
  BY <1>1 DEF Suggesting
<1> HIDE DEF cleared
<1>5. CASE GivesUp(d) /\ shown' \in {shown, cleared}
  BY <1>1, <1>2, <1>3, <1>4, <1>5, GivesUpFails
<1>6. CASE Answered(d, r) /\ shown' = cleared
  BY <1>1, <1>2, <1>3, <1>4, <1>6, AnsweredStep
<1> QED
  BY <1>5, <1>6 DEF Forget, cleared

\* What another actor leaves of a reading.
Alike(r, s) ==
  /\ s.list = r.list /\ s.at = r.at /\ s.page = r.page /\ s.rows = r.rows /\ s.total = r.total
  /\ s.last = r.last /\ s.known = r.known /\ s.got = r.got /\ s.ended = r.ended

\* A reading begins, and those of the same suggestions are joined by it.
LEMMA BeginStep ==
  ASSUME LTypeOK, NEW d \in Readings, NEW l \in Lists, Begin(d, l)
  PROVE  LET others == {e \in Readings : l \in Suggesting /\ Reads(e, l) /\ ~readings[e].ended}
             s == readings'[d]
         IN
         /\ ~Begun(d) /\ LTypeOK' /\ UNCHANGED <<shown, relations, failures>>
         /\ s \in Reading /\ s.list = l /\ s.at = "idle" /\ s.page = 0 /\ s.got = {} /\ ~s.ended
         /\ s.stable = Shown(l, following, users) /\ s.with = others
         /\ s.met = IF l = "interests" /\ failures > 0 THEN {"failed"} ELSE {}
         /\ \A e \in Readings \ {d} :
              /\ readings'[e] = None <=> readings[e] = None
              /\ Begun(e) =>
                   /\ readings'[e] \in Reading /\ Alike(readings[e], readings'[e])
                   /\ readings'[e].stable = readings[e].stable
                   /\ readings'[e].met = readings[e].met
                   /\ readings'[e].with = IF e \in others THEN readings[e].with \cup {d}
                                          ELSE readings[e].with
<1> DEFINE others == {e \in Readings : l \in Suggesting /\ Reads(e, l) /\ ~readings[e].ended}
           t == [list |-> l, at |-> "idle", page |-> 0, rows |-> {}, total |-> 0,
                 last |-> FALSE, known |-> {}, got |-> {}, ended |-> FALSE,
                 stable |-> Shown(l, following, users), with |-> others,
                 met |-> IF l = "interests" /\ failures > 0 THEN {"failed"} ELSE {}]
           Joined(e) == [readings[e] EXCEPT !.with = @ \cup {d}]
<1>1. ~Begun(d) /\ UNCHANGED <<shown, relations, failures>>
  BY DEF Begin
<1>2. readings' = [e \in Readings |-> CASE e = d -> t
                                        [] e \in others -> Joined(e)
                                        [] OTHER -> readings[e]]
  BY DEF Begin
<1>3. Shown(l, following, users) \subseteq Members
  BY ShownRows DEF LTypeOK
<1>4. t \in Reading
  BY <1>3, MembersCounted DEF Reading, Stages, MaxPage
<1>5. /\ t.list = l /\ t.at = "idle" /\ t.page = 0 /\ t.got = {} /\ ~t.ended
      /\ t.stable = Shown(l, following, users) /\ t.with = others
      /\ t.met = IF l = "interests" /\ failures > 0 THEN {"failed"} ELSE {}
  OBVIOUS
<1>6. ASSUME NEW e \in Readings, Begun(e)
      PROVE  /\ readings[e] \in Reading /\ Joined(e) \in Reading
             /\ Alike(readings[e], Joined(e)) /\ Alike(readings[e], readings[e])
             /\ Joined(e).stable = readings[e].stable /\ Joined(e).met = readings[e].met
             /\ Joined(e).with = readings[e].with \cup {d}
  <2>1. readings[e] \in Reading
    BY <1>6 DEF LTypeOK, Begun
  <2>2. Joined(e) \in Reading
    BY <2>1 DEF Reading
  <2> QED
    BY <2>1, <2>2 DEF Reading, Alike
<1>7. d \notin others /\ \A e \in others : Begun(e)
  BY <1>1 DEF Reads
<1> HIDE DEF t, others, Joined
<1>8. readings'[d] = t
  BY <1>2, <1>7
<1>9. \A e \in Readings \ {d} : readings'[e] = IF e \in others THEN Joined(e) ELSE readings[e]
  BY <1>2
<1>10. None \notin Reading
  BY DEF ListingsAssumption
<1>11. \A e \in Readings \ {d} :
              /\ readings'[e] = None <=> readings[e] = None
              /\ Begun(e) =>
                   /\ readings'[e] \in Reading /\ Alike(readings[e], readings'[e])
                   /\ readings'[e].stable = readings[e].stable
                   /\ readings'[e].met = readings[e].met
                   /\ readings'[e].with = IF e \in others THEN readings[e].with \cup {d}
                                          ELSE readings[e].with
  <2> TAKE e \in Readings \ {d}
  <2>1. CASE ~Begun(e)
    <3>1. readings[e] = None /\ e \notin others
      BY <1>7, <2>1 DEF Begun
    <3> QED
      BY <1>9, <2>1, <3>1
  <2>2. CASE Begun(e)
    <3>1. readings[e] # None /\ Joined(e) # None
      BY <1>6, <1>10, <2>2
    <3> QED
      BY <1>6, <1>9, <2>2, <3>1
  <2> QED
    BY <2>1, <2>2
<1>12. \A e \in Readings : readings'[e] \in Reading \cup {None}
  BY <1>4, <1>8, <1>11 DEF Begun
<1>13. readings' \in [Readings -> Reading \cup {None}]
  <2>1. readings' = [e \in Readings |-> readings'[e]]
    BY <1>2
  <2> QED
    BY <1>12, <2>1
<1>14. LTypeOK'
  BY <1>1, <1>13 DEF LTypeOK, relations
<1> QED
  BY <1>1, <1>4, <1>5, <1>8, <1>11, <1>14 DEF others

\* The set expires, which readings of those suggestions meet.
LEMMA ExpireStep ==
  ASSUME LTypeOK, NEW l \in Suggesting, Expire(l)
  PROVE  /\ LTypeOK' /\ UNCHANGED <<relations, failures>>
         /\ shown'[l] = {} /\ \A m \in Suggesting \ {l} : shown'[m] = shown[m]
         /\ \A e \in Readings :
              /\ readings'[e] = None <=> readings[e] = None
              /\ Begun(e) =>
                   /\ readings'[e] \in Reading /\ Alike(readings[e], readings'[e])
                   /\ readings'[e].stable = readings[e].stable
                   /\ readings'[e].with = readings[e].with
                   /\ readings'[e].met = IF readings[e].list = l THEN readings[e].met \cup {"expired"}
                                         ELSE readings[e].met
<1> DEFINE Met(e) == [readings[e] EXCEPT !.met = @ \cup {"expired"}]
<1>1. UNCHANGED <<relations, failures>> /\ shown' = [shown EXCEPT ![l] = {}]
  BY DEF Expire
<1>2. shown' \in [Suggesting -> SUBSET Members]
  BY <1>1 DEF LTypeOK
<1>3. shown'[l] = {} /\ \A m \in Suggesting \ {l} : shown'[m] = shown[m]
  BY <1>1 DEF LTypeOK
<1>4. readings' = [e \in Readings |-> IF Reads(e, l) THEN Met(e) ELSE readings[e]]
  BY DEF Expire
<1>5. ASSUME NEW e \in Readings, Begun(e)
      PROVE  /\ readings[e] \in Reading /\ Met(e) \in Reading
             /\ Alike(readings[e], Met(e)) /\ Alike(readings[e], readings[e])
             /\ Met(e).stable = readings[e].stable /\ Met(e).with = readings[e].with
             /\ Met(e).met = readings[e].met \cup {"expired"}
  <2>1. readings[e] \in Reading
    BY <1>5 DEF LTypeOK, Begun
  <2>2. Met(e) \in Reading
    BY <2>1 DEF Reading
  <2> QED
    BY <2>1, <2>2 DEF Reading, Alike
<1> HIDE DEF Met
<1>6. \A e \in Readings : readings'[e] = IF Reads(e, l) THEN Met(e) ELSE readings[e]
  BY <1>4
<1>7. None \notin Reading
  BY DEF ListingsAssumption
<1>8. \A e \in Readings :
              /\ readings'[e] = None <=> readings[e] = None
              /\ Begun(e) =>
                   /\ readings'[e] \in Reading /\ Alike(readings[e], readings'[e])
                   /\ readings'[e].stable = readings[e].stable
                   /\ readings'[e].with = readings[e].with
                   /\ readings'[e].met = IF readings[e].list = l THEN readings[e].met \cup {"expired"}
                                         ELSE readings[e].met
  <2> TAKE e \in Readings
  <2>1. CASE ~Begun(e)
    <3>1. readings[e] = None /\ ~Reads(e, l)
      BY <2>1 DEF Begun, Reads
    <3> QED
      BY <1>6, <2>1, <3>1
  <2>2. CASE Begun(e)
    <3>1. readings[e] # None /\ Met(e) # None /\ (Reads(e, l) <=> readings[e].list = l)
      BY <1>5, <1>7, <2>2 DEF Reads
    <3> QED
      BY <1>5, <1>6, <2>2, <3>1
  <2> QED
    BY <2>1, <2>2
<1>9. readings' \in [Readings -> Reading \cup {None}]
  <2>1. readings' = [e \in Readings |-> readings'[e]]
    BY <1>4
  <2> QED
    BY <1>8, <2>1 DEF Begun
<1>10. LTypeOK'
  BY <1>1, <1>2, <1>9 DEF LTypeOK, relations
<1> QED
  BY <1>1, <1>3, <1>8, <1>10

\* The graph changes: a reading from which no row goes, and to which none comes between a
\* count and its page, has the rows it had.
LEMMA ChangedStep ==
  ASSUME LTypeOK, NEW g \in SUBSET (Members \X Members), NEW i \in [Members -> User], Changed(g, i)
  PROVE  /\ LTypeOK' /\ UNCHANGED <<shown, failures>>
         /\ following' = g /\ users' = i
         /\ \A e \in Readings :
              /\ readings'[e] = None <=> readings[e] = None
              /\ Begun(e) =>
                   /\ readings'[e] \in Reading /\ Alike(readings[e], readings'[e])
                   /\ readings'[e].with = readings[e].with
                   /\ readings[e].ended => readings'[e] = readings[e]
                   /\ ~readings[e].ended =>
                        LET r == readings[e]
                            s == readings'[e]
                            rows == Rows(r.list, following, users)
                        IN
                        /\ s.stable = r.stable \cap Shown(r.list, g, i)
                        /\ r.met \subseteq s.met /\ s.met \subseteq r.met \cup {"moved"}
                        /\ "moved" \in s.met \/ /\ rows \subseteq Rows(r.list, g, i)
                                                /\ r.at = "page" /\ r.list \in Suggesting =>
                                                     ~(Cardinality(Rows(r.list, g, i)) > Cardinality(rows))
<1> DEFINE Gone(r) == ~(Rows(r.list, following, users) \subseteq Rows(r.list, g, i))
           Between(r) == /\ r.list \in Suggesting /\ r.at = "page"
                         /\ Cardinality(Rows(r.list, g, i)) > Cardinality(Rows(r.list, following, users))
           After(r) == [r EXCEPT !.stable = @ \cap Shown(r.list, g, i),
                                 !.met = IF Gone(r) \/ Between(r) THEN @ \cup {"moved"} ELSE @]
<1>1. /\ UNCHANGED <<shown, failures>> /\ following' = g /\ users' = i
      /\ changes' \in 0..MaxChanges
  <2>1. UNCHANGED <<shown, failures>> /\ following' = g /\ users' = i
    BY DEF Changed
  <2>2. changes < MaxChanges /\ changes' = changes + 1 /\ changes \in 0..MaxChanges /\ MaxChanges \in Nat
    BY DEF Changed, LTypeOK, ListingsAssumption
  <2> QED
    BY <2>1, <2>2
<1>2. readings' = [e \in Readings |-> IF ~Begun(e) \/ readings[e].ended THEN readings[e]
                                      ELSE After(readings[e])]
  BY DEF Changed
<1>3. ASSUME NEW r \in Reading
      PROVE  /\ After(r) \in Reading /\ Alike(r, After(r)) /\ Alike(r, r)
             /\ After(r).with = r.with
             /\ After(r).stable = r.stable \cap Shown(r.list, g, i)
             /\ After(r).met = IF Gone(r) \/ Between(r) THEN r.met \cup {"moved"} ELSE r.met
  <2> HIDE DEF Gone, Between
  <2>1. After(r) \in Reading
    BY DEF Reading
  <2> QED
    BY <2>1 DEF Reading, Alike
<1>4. ASSUME NEW r \in Reading, ~Gone(r)
      PROVE  Rows(r.list, following, users) \subseteq Rows(r.list, g, i)
  BY <1>4
<1> HIDE DEF Gone, After
<1>5. \A e \in Readings : readings'[e] = IF ~Begun(e) \/ readings[e].ended THEN readings[e]
                                         ELSE After(readings[e])
  BY <1>2
<1>6. None \notin Reading
  BY DEF ListingsAssumption
<1>7. \A e \in Readings : Begun(e) => readings[e] \in Reading
  BY DEF LTypeOK, Begun
<1>8. \A e \in Readings :
              /\ readings'[e] = None <=> readings[e] = None
              /\ Begun(e) =>
                   /\ readings'[e] \in Reading /\ Alike(readings[e], readings'[e])
                   /\ readings'[e].with = readings[e].with
                   /\ readings[e].ended => readings'[e] = readings[e]
                   /\ ~readings[e].ended =>
                        LET r == readings[e]
                            s == readings'[e]
                            rows == Rows(r.list, following, users)
                        IN
                        /\ s.stable = r.stable \cap Shown(r.list, g, i)
                        /\ r.met \subseteq s.met /\ s.met \subseteq r.met \cup {"moved"}
                        /\ "moved" \in s.met \/ /\ rows \subseteq Rows(r.list, g, i)
                                                /\ r.at = "page" /\ r.list \in Suggesting =>
                                                     ~(Cardinality(Rows(r.list, g, i)) > Cardinality(rows))
  <2> TAKE e \in Readings
  <2>1. CASE ~Begun(e)
    BY <1>5, <2>1
  <2>2. CASE Begun(e) /\ readings[e].ended
    BY <1>3, <1>5, <1>7, <2>2
  <2>3. CASE Begun(e) /\ ~readings[e].ended
    <3> DEFINE r == readings[e]
               s == readings'[e]
    <3>1. r \in Reading /\ s = After(r)
      BY <1>5, <1>7, <2>3
    <3>2. /\ s \in Reading /\ Alike(r, s) /\ s.with = r.with
          /\ s.stable = r.stable \cap Shown(r.list, g, i)
          /\ s.met = IF Gone(r) \/ Between(r) THEN r.met \cup {"moved"} ELSE r.met
      BY <1>3, <3>1
    <3>3. s # None /\ r # None
      BY <1>6, <3>1, <3>2
    <3>4. r.met \subseteq s.met /\ s.met \subseteq r.met \cup {"moved"}
      BY <3>2
    <3>5. "moved" \notin s.met => ~Gone(r) /\ ~Between(r)
      BY <3>2
    <3>6. ASSUME "moved" \notin s.met
          PROVE  /\ Rows(r.list, following, users) \subseteq Rows(r.list, g, i)
                 /\ r.at = "page" /\ r.list \in Suggesting =>
                      ~(Cardinality(Rows(r.list, g, i)) > Cardinality(Rows(r.list, following, users)))
      BY <1>4, <3>1, <3>5, <3>6
    <3> QED
      BY <2>3, <3>2, <3>3, <3>4, <3>6
  <2> QED
    BY <2>1, <2>2, <2>3
<1>9. readings' \in [Readings -> Reading \cup {None}]
  <2>1. readings' = [e \in Readings |-> readings'[e]]
    BY <1>2
  <2> QED
    BY <1>8, <2>1 DEF Begun
<1>10. LTypeOK'
  BY <1>1, <1>9 DEF LTypeOK
<1> QED
  BY <1>1, <1>8, <1>10

\* Every change is a change to another graph of the users, or to other names and interests.
LEMMA Changes ==
  ASSUME LTypeOK,
         \/ \E u, v \in Members : Follow(u, v) \/ Unfollow(u, v)
         \/ \E u \in Members : \/ \E t \in Topics : CreateUserInterests(u, t)
                               \/ \E n \in Names : Rename(u, n)
  PROVE  \E g \in SUBSET (Members \X Members), i \in [Members -> User] : Changed(g, i)
<1>1. following \in SUBSET (Members \X Members) /\ users \in [Members -> User]
  BY DEF LTypeOK
<1>2. ASSUME NEW u \in Members, NEW v \in Members, Follow(u, v)
      PROVE  \E g \in SUBSET (Members \X Members), i \in [Members -> User] : Changed(g, i)
  BY <1>1, <1>2 DEF Follow
<1>3. ASSUME NEW u \in Members, NEW v \in Members, Unfollow(u, v)
      PROVE  \E g \in SUBSET (Members \X Members), i \in [Members -> User] : Changed(g, i)
  BY <1>1, <1>3 DEF Unfollow
<1>4. ASSUME NEW u \in Members, NEW t \in Topics, CreateUserInterests(u, t)
      PROVE  \E g \in SUBSET (Members \X Members), i \in [Members -> User] : Changed(g, i)
  <2> DEFINE i == [users EXCEPT ![u].interests = @ \cup {t}]
  <2>1. users[u] \in User
    BY <1>1
  <2>2. [users[u] EXCEPT !.interests = @ \cup {t}] \in User
    BY <2>1 DEF User
  <2>3. i \in [Members -> User]
    BY <1>1, <2>2
  <2> QED
    BY <1>1, <1>4, <2>3 DEF CreateUserInterests
<1>5. ASSUME NEW u \in Members, NEW n \in Names, Rename(u, n)
      PROVE  \E g \in SUBSET (Members \X Members), i \in [Members -> User] : Changed(g, i)
  <2> DEFINE i == [users EXCEPT ![u].name = n]
  <2>1. users[u] \in User
    BY <1>1
  <2>2. [users[u] EXCEPT !.name = n] \in User
    BY <2>1 DEF User
  <2>3. i \in [Members -> User]
    BY <1>1, <2>2
  <2> QED
    BY <1>1, <1>5, <2>3 DEF Rename
<1> QED
  BY <1>2, <1>3, <1>4, <1>5

-----------------------------------------------------------------------------
(* Readings are what they seem *)

\* The step of one reading's request disturbs what is known of no other's.
LEMMA AdvancesReadings ==
  ASSUME LTypeOK, ReadingInv, NEW d \in Readings, Advances(d), ~readings[d].ended, Counts(d)'
  PROVE  ReadingInv'
<1>1. /\ Begun(d) /\ readings'[d] # None
      /\ readings'[d].list = readings[d].list /\ readings'[d].stable = readings[d].stable
      /\ readings'[d].with = readings[d].with /\ Settled(readings'[d])
      /\ \A e \in Readings \ {d} : readings'[e] = readings[e]
  BY DEF Advances, ListingsAssumption
<1>2. following' = following /\ users' = users
  BY DEF Advances, relations
<1>3. \A e \in Readings : (readings'[e] # None) <=> (readings[e] # None)
  BY <1>1 DEF Begun
<1>4. \A e \in Readings : readings'[e] # None =>
        /\ readings'[e].list = readings[e].list /\ readings'[e].stable = readings[e].stable
        /\ readings'[e].with = readings[e].with
        /\ ~readings'[e].ended => ~readings[e].ended
  BY <1>1
<1>5. \A e \in Readings : Begun(e)' <=> Begun(e)
  BY <1>3 DEF Begun
<1>6. ASSUME NEW e \in Readings, Begun(e) PROVE ReadingOK(e)'
  <2>1. ReadingOK(e)
    BY <1>6 DEF ReadingInv
  <2>2. readings'[e] # None
    BY <1>3, <1>6 DEF Begun
  <2>3. Settled(readings[e])'
    <3>1. CASE e = d
      BY <1>1, <3>1
    <3>2. CASE e # d
      BY <1>1, <2>1, <3>2 DEF ReadingOK
    <3> QED
      BY <3>1, <3>2
  <2>4. (\A f \in readings[e].with : Begun(f))'
    <3>1. \A f \in readings[e].with : Begun(f) /\ f \in Readings
      BY <1>6, <2>1 DEF ReadingOK, LTypeOK, Begun, Reading
    <3> QED
      BY <1>4, <1>5, <2>2, <3>1
  <2>5. (\A f \in Readings : Together(e, f) => f \in readings[e].with)'
    <3>1. \A f \in Readings : Together(e, f)' => Together(e, f)
      BY <1>4, <1>5 DEF Together, Begun
    <3> QED
      BY <1>4, <2>1, <2>2, <3>1 DEF ReadingOK
  <2>6. (~readings[e].ended =>
          readings[e].stable \subseteq Shown(readings[e].list, following, users))'
    BY <1>2, <1>4, <2>1, <2>2 DEF ReadingOK
  <2>7. Counts(e)'
    <3>1. CASE e = d
      BY <3>1
    <3>2. CASE e # d
      BY <1>1, <1>2, <2>1, <3>2 DEF ReadingOK, Counts, Undisturbed
    <3> QED
      BY <3>1, <3>2
  <2> QED
    BY <2>3, <2>4, <2>5, <2>6, <2>7 DEF ReadingOK
<1> QED
  BY <1>5, <1>6 DEF ReadingInv

\* Whatever leaves a reading alike, and its totals right.
LEMMA AlikeReadings ==
  ASSUME LTypeOK, ReadingInv,
         \A e \in Readings :
           /\ readings'[e] = None <=> readings[e] = None
           /\ Begun(e) => /\ Alike(readings[e], readings'[e])
                          /\ readings'[e].with = readings[e].with
                          /\ ~readings[e].ended => readings'[e].stable \subseteq
                               Shown(readings[e].list, following', users')
                          /\ Counts(e)'
  PROVE  ReadingInv'
<1>1. \A e \in Readings : Begun(e)' <=> Begun(e)
  BY DEF Begun
<1>2. ASSUME NEW e \in Readings, Begun(e) PROVE ReadingOK(e)'
  <2>1. ReadingOK(e)
    BY <1>2 DEF ReadingInv
  <2>2. Settled(readings[e])'
    BY <1>2, <2>1 DEF ReadingOK, Settled, Alike
  <2>3. (\A f \in readings[e].with : Begun(f))'
    <3>1. \A f \in readings[e].with : Begun(f) /\ f \in Readings
      BY <1>2, <2>1 DEF ReadingOK, LTypeOK, Begun, Reading
    <3> QED
      BY <1>1, <1>2, <3>1
  <2>4. (\A f \in Readings : Together(e, f) => f \in readings[e].with)'
    <3>1. \A f \in Readings : Together(e, f)' => Together(e, f)
      BY <1>1 DEF Together, Begun, Alike
    <3> QED
      BY <1>2, <2>1, <3>1 DEF ReadingOK
  <2>5. (~readings[e].ended =>
          readings[e].stable \subseteq Shown(readings[e].list, following, users))'
    BY <1>2 DEF Alike
  <2>6. Counts(e)'
    BY <1>2
  <2> QED
    BY <2>2, <2>3, <2>4, <2>5, <2>6 DEF ReadingOK
<1> QED
  BY <1>1, <1>2 DEF ReadingInv

\* A reading that begins, and the others of its list, know of each other.
LEMMA BeginReadings ==
  ASSUME LTypeOK, ReadingInv, NEW d \in Readings, NEW l \in Lists, Begin(d, l)
  PROVE  LTypeOK' /\ ReadingInv'
<1> DEFINE others == {e \in Readings : l \in Suggesting /\ Reads(e, l) /\ ~readings[e].ended}
           s == readings'[d]
<1>1. /\ ~Begun(d) /\ LTypeOK' /\ UNCHANGED <<shown, relations, failures>>
      /\ s \in Reading /\ s.list = l /\ s.at = "idle" /\ s.page = 0 /\ s.got = {} /\ ~s.ended
      /\ s.stable = Shown(l, following, users) /\ s.with = others
      /\ \A e \in Readings \ {d} :
           /\ readings'[e] = None <=> readings[e] = None
           /\ Begun(e) =>
                /\ readings'[e] \in Reading /\ Alike(readings[e], readings'[e])
                /\ readings'[e].stable = readings[e].stable
                /\ readings'[e].met = readings[e].met
                /\ readings'[e].with = IF e \in others THEN readings[e].with \cup {d}
                                       ELSE readings[e].with
  BY BeginStep
<1>2. following' = following /\ users' = users
  BY <1>1 DEF relations
<1>3. s # None
  BY <1>1 DEF ListingsAssumption
<1>4. \A e \in Readings : Begun(e)' <=> (Begun(e) \/ e = d)
  BY <1>1, <1>3 DEF Begun
<1>5. \A e \in others : e \in Readings /\ Begun(e) /\ readings[e].list = l /\ ~readings[e].ended
  BY DEF Reads
<1>6. ASSUME l \in Suggesting, NEW e \in Readings, Begun(e), readings[e].list = l, ~readings[e].ended
      PROVE  e \in others
  BY <1>6 DEF Reads
<1> HIDE DEF others, s
<1>7. ReadingOK(d)'
  <2>1. Settled(s)
    BY <1>1, MembersCounted DEF Settled, Late
  <2>2. \A f \in s.with : Begun(f)'
    BY <1>1, <1>4, <1>5
  <2>3. ASSUME NEW e \in Readings, Together(d, e)' PROVE e \in s.with
    <3>1. e # d /\ Begun(e)
      BY <1>4, <2>3 DEF Together
    <3>2. /\ readings'[e].list = s.list /\ s.list \in Suggesting /\ ~readings'[e].ended
      BY <2>3 DEF Together, s
    <3>3. readings[e].list = l /\ ~readings[e].ended /\ l \in Suggesting
      BY <1>1, <3>1, <3>2 DEF Alike
    <3> QED
      BY <1>1, <1>6, <3>1, <3>3
  <2>4. Counts(d)'
    BY <1>1 DEF Counts, s
  <2> QED
    BY <1>1, <1>2, <2>1, <2>2, <2>3, <2>4 DEF ReadingOK, s
<1>8. ASSUME NEW e \in Readings, Begun(e) PROVE ReadingOK(e)'
  <2>1. ReadingOK(e) /\ e # d
    BY <1>1, <1>8 DEF ReadingInv
  <2>2. /\ Alike(readings[e], readings'[e]) /\ readings'[e].stable = readings[e].stable
        /\ readings'[e].met = readings[e].met
        /\ readings'[e].with = IF e \in others THEN readings[e].with \cup {d}
                               ELSE readings[e].with
    BY <1>1, <1>8, <2>1
  <2>3. Settled(readings[e])'
    BY <2>1, <2>2 DEF ReadingOK, Settled, Alike
  <2>4. (\A f \in readings[e].with : Begun(f))'
    <3>1. \A f \in readings[e].with : Begun(f) /\ f \in Readings
      BY <1>8, <2>1 DEF ReadingOK, LTypeOK, Begun, Reading
    <3> QED
      BY <1>4, <2>2, <3>1
  <2>5. ASSUME NEW f \in Readings, Together(e, f)' PROVE f \in readings'[e].with
    <3>1. CASE f = d
      <4>1. readings'[e].list = s.list /\ readings'[e].list \in Suggesting /\ ~readings'[e].ended
        BY <2>5, <3>1 DEF Together, s
      <4>2. e \in others
        BY <1>1, <1>6, <1>8, <2>2, <4>1 DEF Alike
      <4> QED
        BY <2>2, <3>1, <4>2
    <3>2. CASE f # d
      <4>1. Begun(f) /\ Alike(readings[f], readings'[f])
        BY <1>1, <1>4, <2>5, <3>2 DEF Together
      <4>2. Together(e, f)
        BY <1>8, <2>2, <2>5, <4>1 DEF Together, Alike
      <4> QED
        BY <2>1, <2>2, <4>2 DEF ReadingOK
    <3> QED
      BY <3>1, <3>2
  <2>6. (~readings[e].ended =>
          readings[e].stable \subseteq Shown(readings[e].list, following, users))'
    BY <1>2, <2>1, <2>2 DEF ReadingOK, Alike
  <2>7. Counts(e)'
    BY <1>2, <2>1, <2>2 DEF ReadingOK, Counts, Undisturbed, Alike
  <2> QED
    BY <2>3, <2>4, <2>5, <2>6, <2>7 DEF ReadingOK
<1> QED
  BY <1>1, <1>4, <1>7, <1>8 DEF ReadingInv

\* What Redis drops is nothing the readings stand on.
LEMMA ExpireReadings ==
  ASSUME LTypeOK, ReadingInv, NEW l \in Suggesting, Expire(l)
  PROVE  LTypeOK' /\ ReadingInv'
<1>1. /\ LTypeOK' /\ UNCHANGED <<relations, failures>>
      /\ \A e \in Readings :
           /\ readings'[e] = None <=> readings[e] = None
           /\ Begun(e) =>
                /\ Alike(readings[e], readings'[e])
                /\ readings'[e].stable = readings[e].stable
                /\ readings'[e].with = readings[e].with
                /\ readings'[e].met = IF readings[e].list = l THEN readings[e].met \cup {"expired"}
                                      ELSE readings[e].met
  BY ExpireStep
<1>2. following' = following /\ users' = users
  BY <1>1 DEF relations
<1>3. ASSUME NEW e \in Readings, Begun(e)
      PROVE  /\ ~readings[e].ended => readings'[e].stable \subseteq
                  Shown(readings[e].list, following', users')
             /\ Counts(e)'
  <2>1. ReadingOK(e)
    BY <1>3 DEF ReadingInv
  <2>2. Undisturbed(e)' => Undisturbed(e)
    BY <1>1, <1>3 DEF Undisturbed
  <2> QED
    BY <1>1, <1>2, <1>3, <2>1, <2>2 DEF ReadingOK, Counts, Alike
<1> QED
  BY <1>1, <1>3, AlikeReadings

\* A change takes from the readings those who leave the list, and disturbs a count that it
\* makes too small.
LEMMA ChangedReadings ==
  ASSUME LTypeOK, ReadingInv,
         NEW g \in SUBSET (Members \X Members), NEW i \in [Members -> User], Changed(g, i)
  PROVE  LTypeOK' /\ ReadingInv'
<1>1. /\ LTypeOK' /\ following' = g /\ users' = i
      /\ \A e \in Readings :
           /\ readings'[e] = None <=> readings[e] = None
           /\ Begun(e) =>
                /\ Alike(readings[e], readings'[e]) /\ readings'[e].with = readings[e].with
                /\ ~readings[e].ended =>
                     LET r == readings[e]
                         s == readings'[e]
                         rows == Rows(r.list, following, users)
                     IN
                     /\ s.stable = r.stable \cap Shown(r.list, g, i)
                     /\ r.met \subseteq s.met
                     /\ "moved" \in s.met \/ /\ rows \subseteq Rows(r.list, g, i)
                                             /\ r.at = "page" /\ r.list \in Suggesting =>
                                                  ~(Cardinality(Rows(r.list, g, i)) > Cardinality(rows))
  BY ChangedStep
<1>2. ASSUME NEW e \in Readings, Begun(e)
      PROVE  /\ ~readings[e].ended => readings'[e].stable \subseteq
                  Shown(readings[e].list, following', users')
             /\ Counts(e)'
  <2> DEFINE r == readings[e]
             s == readings'[e]
  <2>1. ReadingOK(e) /\ r \in Reading
    BY <1>2 DEF ReadingInv, LTypeOK, Begun
  <2>2. Alike(r, s)
    BY <1>1, <1>2
  <2>3. ~r.ended => s.stable \subseteq Shown(r.list, g, i)
    BY <1>1, <1>2
  <2>4. ASSUME s.at = "page", s.list \in Suggesting, s.met \cap {"moved", "short", "failed"} = {}
        PROVE  Cardinality(Rows(s.list, g, i)) <= s.total
    <3>1. r.at = "page" /\ r.list = s.list /\ r.total = s.total /\ ~r.ended
      BY <2>1, <2>2, <2>4 DEF Alike, ReadingOK, Settled
    <3>2. /\ r.met \subseteq s.met
          /\ ~(Cardinality(Rows(r.list, g, i)) > Cardinality(Rows(r.list, following, users)))
      BY <1>1, <1>2, <2>4, <3>1
    <3>3. Undisturbed(e)
      BY <2>4, <3>2 DEF Undisturbed
    <3>4. Cardinality(Rows(r.list, following, users)) <= r.total
      BY <2>1, <2>4, <3>1, <3>3 DEF ReadingOK, Counts
    <3>5. /\ Cardinality(Rows(r.list, g, i)) \in Nat
          /\ Cardinality(Rows(r.list, following, users)) \in Nat /\ r.total \in Nat
      BY <2>1, RowsTyped, RowsFinite DEF Reading, LTypeOK
    <3> HIDE DEF r, s
    <3> QED
      BY <3>1, <3>2, <3>4, <3>5
  <2>5. Counts(e)'
    BY <1>1, <2>4 DEF Counts, Undisturbed
  <2> QED
    BY <1>1, <2>3, <2>5
<1> QED
  BY <1>1, <1>2, AlikeReadings

\* A step of the request of a reading.
RequestStep(d) ==
  \/ Ask(d) \/ Clear(d) \/ Count(d) \/ ReadPage(d) \/ Seen(d)
  \/ MergeGet(d) \/ MergeSet(d) \/ Filter(d) \/ Forget(d)

\* A step of a request's is one of a reading that has not ended.
LEMMA RequestAdvances ==
  ASSUME LTypeOK, ReadingInv, NEW d \in Readings, RequestStep(d)
  PROVE  Begun(d) /\ Settled(readings[d]) /\ Advances(d) /\ ~readings[d].ended
<1>1. Begun(d)
  BY DEF RequestStep, Ask, Clear, Count, ReadPage, Seen, MergeGet, MergeSet, Filter, Forget, Awaits
<1>2. Settled(readings[d])
  BY <1>1 DEF ReadingInv, ReadingOK
<1>3. Fails(d) => Advances(d)
  BY DEF Fails
<1>4. CASE Ask(d)
  BY <1>1, <1>2, <1>4, AskStep
<1>5. CASE Clear(d)
  BY <1>1, <1>2, <1>3, <1>5, ClearStep
<1>6. CASE Count(d)
  BY <1>1, <1>2, <1>3, <1>6, CountStep
<1>7. CASE ReadPage(d)
  BY <1>1, <1>2, <1>3, <1>7, ReadPageStep
<1>8. CASE Seen(d)
  BY <1>1, <1>2, <1>3, <1>8, SeenStep
<1>9. CASE MergeGet(d)
  BY <1>1, <1>2, <1>3, <1>9, MergeGetStep
<1>10. CASE MergeSet(d)
  BY <1>1, <1>2, <1>3, <1>10, MergeSetStep
<1>11. CASE Filter(d)
  BY <1>1, <1>2, <1>3, <1>11, FilterStep
<1>12. CASE Forget(d)
  BY <1>1, <1>2, <1>3, <1>12, ForgetStep
<1> QED
  BY <1>4, <1>5, <1>6, <1>7, <1>8, <1>9, <1>10, <1>11, <1>12 DEF RequestStep

\* A step of a request's leaves what is known of the readings.
LEMMA RequestReadings ==
  ASSUME LTypeOK, ReadingInv, NEW d \in Readings, RequestStep(d)
  PROVE  LTypeOK' /\ ReadingInv'
<1> DEFINE s == readings'[d]
<1>1. Begun(d) /\ Settled(readings[d]) /\ Advances(d) /\ ~readings[d].ended
  BY RequestAdvances
<1>2. LTypeOK' /\ following' = following /\ users' = users /\ s.list = readings[d].list
  BY <1>1 DEF Advances, relations
<1>3. \/ s.at # "page" \/ s.list \notin Suggesting \/ "failed" \in s.met
      \/ "short" \in s.met \/ Cardinality(Rows(s.list, following, users)) <= s.total
  <2>1. Fails(d) => "failed" \in s.met
    BY DEF Fails
  <2>2. CASE Ask(d)
    BY <1>1, <1>2, <2>2, AskStep
  <2>3. CASE Clear(d)
    BY <1>1, <2>1, <2>3, ClearStep
  <2>4. CASE Count(d)
    BY <1>1, <1>2, <2>1, <2>4, CountStep
  <2>5. CASE ReadPage(d)
    BY <1>1, <2>1, <2>5, ReadPageStep
  <2>6. CASE Seen(d)
    BY <1>1, <2>1, <2>6, SeenStep
  <2>7. CASE MergeGet(d)
    BY <1>1, <2>1, <2>7, MergeGetStep
  <2>8. CASE MergeSet(d)
    BY <1>1, <2>1, <2>8, MergeSetStep
  <2>9. CASE Filter(d)
    BY <1>1, <2>1, <2>9, FilterStep
  <2>10. CASE Forget(d)
    BY <1>1, <2>1, <2>10, ForgetStep
  <2> QED
    BY <2>2, <2>3, <2>4, <2>5, <2>6, <2>7, <2>8, <2>9, <2>10 DEF RequestStep
<1>4. Counts(d)'
  BY <1>2, <1>3 DEF Counts, Undisturbed
<1> QED
  BY <1>1, <1>2, <1>4, AdvancesReadings

\* The set of users suggested by interest is forgotten by the last that reads them.
LEMMA RequestForget ==
  ASSUME LTypeOK, ReadingInv, ForgetInv, NEW d \in Readings, RequestStep(d)
  PROVE  ForgetInv'
<1> DEFINE r == readings[d]
           s == readings'[d]
<1>1. Begun(d) /\ Settled(r) /\ Advances(d) /\ ~r.ended
  BY RequestAdvances
<1>2. /\ s # None /\ s.list = r.list
      /\ \A e \in Readings \ {d} : readings'[e] = readings[e]
      /\ failures \in Nat /\ failures' \in Nat
  BY <1>1 DEF Advances, ListingsAssumption, LTypeOK
<1>3. ASSUME shown'["interests"] \subseteq shown["interests"], failures' = failures,
             r.list = "interests" => ~s.ended
      PROVE  ForgetInv'
  <2> SUFFICES ASSUME shown'["interests"] # {}, ~(failures' > 0)
               PROVE  \E e \in Readings : Reads(e, "interests")' /\ ~readings'[e].ended
    BY DEF ForgetInv
  <2>1. PICK e \in Readings : Reads(e, "interests") /\ ~readings[e].ended
    BY <1>3 DEF ForgetInv
  <2>2. Reads(e, "interests")' /\ ~readings'[e].ended
    BY <1>1, <1>2, <1>3, <2>1 DEF Reads, Begun
  <2> QED
    BY <2>2
<1>4. CASE Fails(d)
  BY <1>4 DEF Fails, ForgetInv
<1>5. CASE Ask(d)
  BY <1>1, <1>3, <1>5, AskStep
<1>6. CASE Clear(d)
  BY <1>1, <1>3, <1>4, <1>6, ClearStep
<1>7. CASE Count(d)
  BY <1>1, <1>3, <1>4, <1>7, CountStep
<1>8. CASE ReadPage(d)
  BY <1>1, <1>3, <1>4, <1>8, ReadPageStep
<1>9. CASE Seen(d)
  BY <1>1, <1>3, <1>4, <1>9, SeenStep
<1>10. CASE MergeGet(d)
  BY <1>1, <1>3, <1>4, <1>10, MergeGetStep
<1>11. CASE MergeSet(d) /\ ~Fails(d)
  <2>1. /\ failures' = failures /\ ~s.ended /\ r.list \in Suggesting
        /\ \A l \in Suggesting \ {r.list} : shown'[l] = shown[l]
    BY <1>1, <1>11, MergeSetStep
  <2>2. CASE r.list = "interests"
    <3>1. Reads(d, "interests")' /\ ~readings'[d].ended
      BY <1>2, <2>1, <2>2 DEF Reads, Begun
    <3> QED
      BY <3>1 DEF ForgetInv
  <2>3. CASE r.list # "interests"
    <3>1. shown'["interests"] = shown["interests"]
      BY <2>1, <2>3 DEF Suggesting
    <3> QED
      BY <1>3, <2>1, <2>3, <3>1
  <2> QED
    BY <2>2, <2>3
<1>12. CASE Filter(d)
  BY <1>1, <1>3, <1>4, <1>12, FilterStep
<1>13. CASE Forget(d) /\ ~Fails(d)
  <2>1. shown'["interests"] = {}
    BY <1>1, <1>13, ForgetStep
  <2> QED
    BY <2>1 DEF ForgetInv
<1> QED
  BY <1>4, <1>5, <1>6, <1>7, <1>8, <1>9, <1>10, <1>11, <1>12, <1>13 DEF RequestStep

\* Others leave it so.
LEMMA OthersForget ==
  ASSUME ForgetInv, UNCHANGED failures, shown'["interests"] \subseteq shown["interests"],
         \A e \in Readings : Begun(e) => /\ readings'[e] # None
                                         /\ Alike(readings[e], readings'[e])
  PROVE  ForgetInv'
<1> SUFFICES ASSUME shown'["interests"] # {}, ~(failures' > 0)
             PROVE  \E e \in Readings : Reads(e, "interests")' /\ ~readings'[e].ended
  BY DEF ForgetInv
<1>1. PICK e \in Readings : Reads(e, "interests") /\ ~readings[e].ended
  BY DEF ForgetInv
<1>2. Reads(e, "interests")' /\ ~readings'[e].ended
  BY <1>1 DEF Reads, Begun, Alike
<1> QED
  BY <1>2

-----------------------------------------------------------------------------
(* Nobody is left out *)

\* What a set of readings is after a step of one's request, it was before.
LEMMA RequestBack ==
  ASSUME LTypeOK, NEW d \in Readings, Advances(d),
         NEW E \in SUBSET Readings, NEW u, Closed(E)', Wanted(E, u)'
  PROVE  Closed(E) /\ Wanted(E, u)
<1>1. /\ Begun(d) /\ readings'[d].stable = readings[d].stable
      /\ readings'[d].with = readings[d].with /\ readings[d].met \subseteq readings'[d].met
      /\ \A e \in Readings \ {d} : readings'[e] = readings[e]
  BY DEF Advances
<1>2. ASSUME NEW e \in E
      PROVE  Begun(e) /\ Undisturbed(e) /\ readings[e].with \subseteq E /\ u \in readings[e].stable
  <2>1. /\ readings'[e] # None /\ readings'[e].met \cap {"moved", "short", "failed"} = {}
        /\ readings'[e].with \subseteq E /\ u \in readings'[e].stable
    BY <1>2 DEF Closed, Wanted, Begun, Undisturbed
  <2>2. CASE e = d
    BY <1>1, <2>1, <2>2 DEF Undisturbed
  <2>3. CASE e # d
    BY <1>1, <2>1, <2>3 DEF Undisturbed, Begun
  <2> QED
    BY <2>2, <2>3
<1> QED
  BY <1>2 DEF Closed, Wanted

\* A step of a request's takes from the client no user it has, nor one that it is about to
\* have and that was on the list all along.
LEMMA RequestCovered ==
  ASSUME LTypeOK, ReadingInv, NEW d \in Readings, RequestStep(d),
         NEW E \in SUBSET Readings, NEW u, Wanted(E, u), Covered(E, u), d \in E => ~Fails(d)
  PROVE  Covered(E, u)'
<1> DEFINE r == readings[d]
           s == readings'[d]
<1>1. Begun(d) /\ Settled(r) /\ Advances(d) /\ ~r.ended
  BY RequestAdvances
<1>2. \A e \in Readings \ {d} : readings'[e] = readings[e]
  BY <1>1 DEF Advances
<1>3. PICK e \in E : Given(e, u)
  BY DEF Covered
<1>4. CASE e # d
  <2>1. Given(e, u)'
    BY <1>2, <1>3, <1>4 DEF Given
  <2> QED
    BY <2>1 DEF Covered
<1>5. CASE e = d
  <2>1. ~Fails(d) /\ u \in r.stable
    BY <1>5 DEF Wanted
  <2>2. r.stable \subseteq Shown(r.list, following, users)
    BY <1>1 DEF ReadingInv, ReadingOK
  <2>3. r.list = "interests" => u \notin Outgoing(Me, following)
    BY <2>1, <2>2 DEF Shown
  <2>4. u \in r.got \/ (r.at \in {"filter", "forget"} /\ u \in r.rows)
    BY <1>3, <1>5 DEF Given
  <2>5. u \in s.got \/ (s.at = "forget" /\ u \in s.rows)
    <3>1. CASE Ask(d)
      BY <1>1, <2>4, <3>1, AskStep
    <3>2. CASE Clear(d)
      BY <1>1, <2>1, <2>4, <3>2, ClearStep
    <3>3. CASE Count(d)
      BY <1>1, <2>1, <2>4, <3>3, CountStep
    <3>4. CASE ReadPage(d)
      BY <1>1, <2>1, <2>4, <3>4, ReadPageStep
    <3>5. CASE Seen(d)
      BY <1>1, <2>1, <2>4, <3>5, SeenStep
    <3>6. CASE MergeGet(d)
      BY <1>1, <2>1, <2>4, <3>6, MergeGetStep
    <3>7. CASE MergeSet(d)
      BY <1>1, <2>1, <2>4, <3>7, MergeSetStep
    <3>8. CASE Filter(d)
      BY <1>1, <2>1, <2>3, <2>4, <3>8, FilterStep
    <3>9. CASE Forget(d)
      BY <1>1, <2>1, <2>4, <3>9, ForgetStep
    <3> QED
      BY <3>1, <3>2, <3>3, <3>4, <3>5, <3>6, <3>7, <3>8, <3>9 DEF RequestStep
  <2>6. Given(d, u)'
    BY <2>5 DEF Given
  <2> QED
    BY <1>5, <2>6 DEF Covered
<1> QED
  BY <1>4, <1>5

\* Redis holds back no user who is still to come: whoever writes the set is one of the
\* readings, and is about to give the users it adds.
LEMMA RequestShown ==
  ASSUME LTypeOK, ReadingInv, NEW d \in Readings, RequestStep(d),
         NEW E \in SUBSET Readings, NEW u, Closed(E), ~Covered(E, u)',
         \A e \in E : Open(readings[e], u), d \in E => ~Fails(d),
         NEW e \in E, PastClear(readings[e])'
  PROVE  u \notin shown'[readings'[e].list]
<1> DEFINE r == readings[d]
           s == readings'[d]
<1>1. Begun(d) /\ Settled(r) /\ Advances(d) /\ ~r.ended
  BY RequestAdvances
<1>2. s.list = r.list /\ \A f \in Readings \ {d} : readings'[f] = readings[f]
  BY <1>1 DEF Advances
<1>3. readings'[e].list = readings[e].list /\ readings[e].list \in Suggesting /\ ~readings[e].ended
  BY <1>1, <1>2 DEF PastClear
<1>4. ASSUME \A l \in Suggesting : shown'[l] \subseteq shown[l],
             e = d => PastClear(r) \/ shown'[r.list] = {}
      PROVE  u \notin shown'[readings'[e].list]
  <2>1. PastClear(readings[e]) \/ shown'[readings[e].list] = {}
    <3>1. CASE e = d
      BY <1>4, <3>1
    <3>2. CASE e # d
      BY <1>2, <3>2 DEF PastClear
    <3> QED
      BY <3>1, <3>2
  <2> QED
    BY <1>3, <1>4, <2>1 DEF Open
<1>5. e = d => r.list \in Suggesting
  BY <1>3
<1>6. r.at \notin {"idle", "clear"} => (e = d => PastClear(r) \/ shown'[r.list] = {})
  BY <1>1, <1>5 DEF PastClear
<1>7. CASE Fails(d)
  <2>1. d \notin E
    BY <1>7
  <2>2. \A l \in Suggesting : shown'[l] \subseteq shown[l]
    BY <1>7 DEF Fails, Suggesting
  <2> QED
    BY <1>4, <2>1, <2>2
<1>8. CASE Ask(d)
  <2>1. UNCHANGED shown /\ s.page = r.page /\ r.at = "idle"
        /\ s.at = IF r.list = "suggestions" /\ r.page = 0 THEN "clear"
                  ELSE IF r.list \in Suggesting THEN "count" ELSE "page"
    BY <1>1, <1>8, AskStep
  <2>2. e = d => PastClear(r)
    BY <1>1, <1>2, <1>3, <2>1, MembersCounted DEF PastClear, Suggesting, Advances, Reading, MaxPage
  <2> QED
    BY <1>4, <2>1, <2>2
<1>9. CASE Clear(d) /\ ~Fails(d)
  <2>1. /\ r.list = "suggestions"
        /\ shown'["suggestions"] = {} /\ shown'["interests"] = shown["interests"]
    BY <1>1, <1>9, ClearStep
  <2> QED
    BY <1>4, <2>1 DEF Suggesting
<1>10. CASE Count(d) /\ ~Fails(d)
  BY <1>1, <1>4, <1>6, <1>10, CountStep
<1>11. CASE ReadPage(d) /\ ~Fails(d)
  BY <1>1, <1>4, <1>6, <1>11, ReadPageStep
<1>12. CASE Seen(d) /\ ~Fails(d)
  BY <1>1, <1>4, <1>6, <1>12, SeenStep
<1>13. CASE MergeGet(d) /\ ~Fails(d)
  BY <1>1, <1>4, <1>6, <1>13, MergeGetStep
<1>14. CASE MergeSet(d) /\ ~Fails(d)
  <2>1. /\ r.at = "mergeSet" /\ r.list \in Suggesting
        /\ shown'[r.list] = r.known \cup r.rows
        /\ \A l \in Suggesting \ {r.list} : shown'[l] = shown[l]
        /\ s.at = "filter" /\ s.rows = r.rows
    BY <1>1, <1>14, MergeSetStep
  <2>2. CASE readings[e].list # r.list
    <3>1. e # d /\ shown'[readings[e].list] = shown[readings[e].list]
      BY <1>3, <2>1, <2>2
    <3>2. PastClear(readings[e])
      BY <1>2, <3>1 DEF PastClear
    <3> QED
      BY <1>3, <3>1, <3>2 DEF Open
  <2>3. CASE readings[e].list = r.list
    <3>1. d \in E
      <4>1. CASE e = d
        BY <4>1
      <4>2. CASE e # d
        <5>1. Begun(e) /\ readings[e].with \subseteq E
          BY DEF Closed
        <5>2. Together(e, d)
          BY <1>1, <1>3, <2>3, <4>2, <5>1 DEF Together
        <5> QED
          BY <5>1, <5>2 DEF ReadingInv, ReadingOK
      <4> QED
        BY <4>1, <4>2
    <3>2. u \notin r.known
      BY <2>1, <3>1 DEF Open
    <3>3. u \notin r.rows
      BY <2>1, <3>1 DEF Covered, Given
    <3> QED
      BY <1>3, <2>1, <2>3, <3>2, <3>3
  <2> QED
    BY <2>2, <2>3
<1>15. CASE Filter(d) /\ ~Fails(d)
  BY <1>1, <1>4, <1>6, <1>15, FilterStep
<1>16. CASE Forget(d) /\ ~Fails(d)
  <2>1. /\ r.at = "forget"
        /\ shown'["interests"] = {} /\ shown'["suggestions"] = shown["suggestions"]
    BY <1>1, <1>16, ForgetStep
  <2> QED
    BY <1>4, <1>6, <2>1 DEF Suggesting
<1> QED
  BY <1>7, <1>8, <1>9, <1>10, <1>11, <1>12, <1>13, <1>14, <1>15, <1>16 DEF RequestStep

\* A user who is still to come to a reading comes to it later, or is on its page.
LEMMA RequestAhead ==
  ASSUME LTypeOK, ReadingInv, NEW d \in Readings, RequestStep(d), ~Fails(d), Undisturbed(d)',
         NEW u, Open(readings[d], u), ~Given(d, u), ~Given(d, u)'
  PROVE  Ahead(readings[d], u)' /\ (readings[d].at = "mergeSet" => u \notin readings[d].known)'
<1> DEFINE r == readings[d]
           s == readings'[d]
           rows == Rows(r.list, following, users)
<1>1. Begun(d) /\ Settled(r) /\ Advances(d) /\ ~r.ended
  BY RequestAdvances
<1>2. r \in Reading /\ s \in Reading /\ s.list = r.list /\ r.met \subseteq s.met
      /\ following' = following /\ users' = users
  BY <1>1 DEF Advances, relations
<1>3. r.list \in Lists /\ r.page \in Nat
  BY <1>2, MembersCounted DEF Reading, MaxPage
<1>4. Ahead(r, u)
  BY DEF Open
<1>5. r.at \in Stages
  BY <1>2 DEF Reading
<1>6. ASSUME s.at \in Late, u \in s.rows \/ (~s.last /\ From(r.list, (s.page + 1) * Limit, u)),
             s.at = "mergeSet" => u \notin s.known
      PROVE  Ahead(readings[d], u)' /\ (readings[d].at = "mergeSet" => u \notin readings[d].known)'
  BY <1>2, <1>6 DEF Ahead, From
<1>7. ASSUME s.at \notin Late, ~s.ended, From(r.list, s.page * Limit, u)
      PROVE  Ahead(readings[d], u)' /\ (readings[d].at = "mergeSet" => u \notin readings[d].known)'
  BY <1>2, <1>7 DEF Ahead, From, Late
<1>8. r.at \notin Late => From(r.list, r.page * Limit, u)
  BY <1>4 DEF Ahead
<1>9. r.at \in Late => u \in r.rows \/ (~r.last /\ From(r.list, (r.page + 1) * Limit, u))
  BY <1>4 DEF Ahead
<1>10. u \notin s.got /\ ~(s.at \in {"filter", "forget"} /\ u \in s.rows)
  BY DEF Given
<1>11. CASE Ask(d)
  <2>1. /\ s.at \notin Late /\ ~s.ended /\ s.page = r.page /\ r.at \notin Late
    BY <1>1, <1>11, AskStep DEF Late
  <2> QED
    BY <1>7, <1>8, <2>1
<1>12. CASE Clear(d)
  <2>1. /\ s.at \notin Late /\ ~s.ended /\ s.page = r.page /\ r.at \notin Late
    BY <1>1, <1>12, ClearStep DEF Late
  <2> QED
    BY <1>7, <1>8, <2>1
<1>13. CASE Count(d)
  <2>1. /\ s.at = (IF s.total = 0 THEN "seen" ELSE "page")
        /\ "short" \in s.met \/ Cardinality(rows) <= s.total
        /\ s.page = r.page /\ ~s.ended /\ r.at \notin Late
    BY <1>1, <1>13, CountStep DEF Late
  <2>2. From(r.list, r.page * Limit, u)
    BY <1>8, <2>1
  <2>3. rows \in RowSets
    BY <1>3, RowsTyped DEF LTypeOK
  <2>4. PICK q \in rows : TRUE
    BY <2>2 DEF From
  <2>5. Cardinality(rows) \in Nat /\ Cardinality(rows) # 0
    BY <2>3, <2>4, RowsFinite, FS_EmptySet
  <2>6. "short" \notin s.met
    BY DEF Undisturbed
  <2>7. s.total # 0
    BY <2>1, <2>5, <2>6
  <2>8. s.at \notin Late
    BY <2>1, <2>7 DEF Late
  <2> QED
    BY <1>7, <2>1, <2>2, <2>8
<1>14. CASE ReadPage(d)
  <2> DEFINE page == Page(r.list, r.page)
  <2>1. /\ r.at = "page" /\ s.at = (IF r.list \in Suggesting THEN "seen" ELSE "filter")
        /\ s.rows = Results(r.list, page) /\ s.last = IsLast(r, page) /\ s.page = r.page
    BY <1>1, <1>14, ReadPageStep
  <2>2. From(r.list, r.page * Limit, u)
    BY <1>8, <2>1 DEF Late
  <2>3. u \in s.rows \/ From(r.list, (r.page + 1) * Limit, u)
    BY <1>3, <2>1, <2>2, PageGives
  <2>4. ASSUME From(r.list, (r.page + 1) * Limit, u) PROVE ~IsLast(r, page)
    <3>1. Limit <= Cardinality(page) /\ (r.page + 1) * Limit < Cardinality(rows)
      BY <1>3, <2>4, PageLast
    <3>2. page \in SUBSET rows /\ rows \in RowSets
      BY <1>3, RowsTyped DEF Page, LTypeOK
    <3>3. page \in RowSets
      BY <3>2, RowsFinite
    <3>4. /\ Cardinality(page) \in Nat /\ Cardinality(rows) \in Nat /\ Limit \in Nat
          /\ (r.page + 1) * Limit \in Nat /\ r.total \in Nat
      <4>1. r.page + 1 \in Nat
        BY <1>3
      <4> QED
        BY <1>2, <3>2, <3>3, <4>1, RowsFinite, PageStarts DEF Reading, ListingsAssumption
    <3>5. CASE r.list \in Suggesting
      <4>1. Undisturbed(d)
        BY <1>2 DEF Undisturbed
      <4>2. Cardinality(rows) <= r.total
        BY <1>1, <2>1, <3>5, <4>1 DEF ReadingInv, ReadingOK, Counts
      <4>3. ~((r.page + 1) * Limit >= r.total)
        BY <3>1, <3>4, <4>2
      <4> QED
        BY <3>5, <4>3 DEF IsLast
    <3>6. CASE r.list \notin Suggesting
      <4>1. ~(Cardinality(page) < Limit)
        BY <3>1, <3>4
      <4> QED
        BY <3>6, <4>1 DEF IsLast
    <3> QED
      BY <3>5, <3>6
  <2> QED
    BY <1>6, <2>1, <2>3, <2>4 DEF Late
<1>15. CASE Seen(d)
  <2>1. /\ r.at = "seen" /\ r.list \in Suggesting /\ s.rows = r.rows \ shown[r.list]
        /\ s.at = IF r.rows \subseteq shown[r.list] THEN "filter" ELSE "mergeGet"
        /\ s.last = r.last /\ s.page = r.page
    BY <1>1, <1>15, SeenStep
  <2>2. u \notin shown[r.list]
    BY <1>1, <2>1 DEF Open, PastClear
  <2> QED
    BY <1>6, <1>9, <2>1, <2>2 DEF Late
<1>16. CASE MergeGet(d)
  <2>1. /\ r.at = "mergeGet" /\ r.list \in Suggesting /\ s.at = "mergeSet"
        /\ s.known = shown[r.list] /\ s.rows = r.rows
        /\ s.last = r.last /\ s.page = r.page
    BY <1>1, <1>16, MergeGetStep
  <2>2. u \notin shown[r.list]
    BY <1>1, <2>1 DEF Open, PastClear
  <2> QED
    BY <1>6, <1>9, <2>1, <2>2 DEF Late
<1>17. CASE MergeSet(d)
  <2>1. /\ r.at = "mergeSet" /\ s.at = "filter" /\ s.rows = r.rows
        /\ s.last = r.last /\ s.page = r.page
    BY <1>1, <1>17, MergeSetStep
  <2> QED
    BY <1>6, <1>9, <2>1 DEF Late
<1>18. CASE Filter(d) /\ r.list # "interests"
  <2>1. /\ r.at = "filter" /\ s.at = "idle" /\ s.got = r.got \cup r.rows
        /\ s.ended = r.last /\ s.page = r.page + 1
    BY <1>1, <1>18, FilterStep
  <2> QED
    BY <1>7, <1>9, <1>10, <2>1 DEF Late
<1>19. CASE Filter(d) /\ r.list = "interests"
  <2>1. /\ r.at = "filter" /\ s.at = "forget" /\ s.rows = r.rows \ Outgoing(Me, following)
        /\ s.last = r.last /\ s.page = r.page
    BY <1>1, <1>19, FilterStep
  <2>2. u \notin r.rows
    BY <2>1 DEF Given
  <2> QED
    BY <1>6, <1>9, <2>1, <2>2 DEF Late
<1>20. CASE Forget(d)
  <2>1. /\ r.at = "forget" /\ s.at = "idle" /\ s.got = r.got \cup r.rows
        /\ s.ended = r.last /\ s.page = r.page + 1
    BY <1>1, <1>20, ForgetStep
  <2> QED
    BY <1>7, <1>9, <1>10, <2>1 DEF Late
<1> QED
  BY <1>11, <1>12, <1>13, <1>14, <1>15, <1>16, <1>17, <1>18, <1>19, <1>20 DEF RequestStep

\* A request's step leaves nobody out.
LEMMA RequestCover ==
  ASSUME LTypeOK, ReadingInv, CoverInv, NEW d \in Readings, RequestStep(d)
  PROVE  CoverInv'
<1> SUFFICES ASSUME NEW E \in SUBSET Readings, NEW u \in Members,
                    Closed(E)', Wanted(E, u)', ~Covered(E, u)',
                    NEW e \in E
             PROVE  Open(readings[e], u)'
  BY DEF CoverInv
<1>1. Advances(d) /\ ~readings[d].ended
  BY RequestAdvances
<1>2. Closed(E) /\ Wanted(E, u)
  BY <1>1, RequestBack
<1>3. d \in E => ~Fails(d)
  BY DEF Closed, Undisturbed, Fails
<1>4. ~Covered(E, u)
  BY <1>2, <1>3, RequestCovered
<1>5. \A f \in E : Open(readings[f], u)
  BY <1>2, <1>4 DEF CoverInv
<1>6. PastClear(readings[e])' => u \notin shown'[readings'[e].list]
  BY <1>2, <1>3, <1>5, RequestShown
<1>7. Ahead(readings[e], u)' /\ (readings[e].at = "mergeSet" => u \notin readings[e].known)'
  <2>1. CASE e = d
    <3>1. ~Given(d, u) /\ ~Given(d, u)' /\ Undisturbed(d)'
      BY <1>4, <2>1 DEF Covered, Closed
    <3> QED
      BY <1>3, <1>5, <2>1, <3>1, RequestAhead
  <2>2. CASE e # d
    <3>1. readings'[e] = readings[e] /\ following' = following /\ users' = users
      BY <1>1, <2>2 DEF Advances, relations
    <3> QED
      BY <1>5, <3>1 DEF Open, Ahead, From
  <2> QED
    BY <2>1, <2>2
<1> QED
  BY <1>6, <1>7 DEF Open

\* A reading that begins has everyone ahead, and of interests nobody is held back from it.
LEMMA BeginCover ==
  ASSUME LTypeOK, ReadingInv, ForgetInv, CoverInv, NEW d \in Readings, NEW l \in Lists, Begin(d, l)
  PROVE  CoverInv'
<1> DEFINE others == {e \in Readings : l \in Suggesting /\ Reads(e, l) /\ ~readings[e].ended}
           s == readings'[d]
<1>1. /\ ~Begun(d) /\ UNCHANGED <<shown, relations, failures>>
      /\ s \in Reading /\ s.list = l /\ s.at = "idle" /\ s.page = 0 /\ s.got = {} /\ ~s.ended
      /\ s.stable = Shown(l, following, users) /\ s.with = others
      /\ s.met = IF l = "interests" /\ failures > 0 THEN {"failed"} ELSE {}
      /\ \A e \in Readings \ {d} :
           /\ readings'[e] = None <=> readings[e] = None
           /\ Begun(e) =>
                /\ readings'[e] \in Reading /\ Alike(readings[e], readings'[e])
                /\ readings'[e].stable = readings[e].stable
                /\ readings'[e].met = readings[e].met
                /\ readings'[e].with = IF e \in others THEN readings[e].with \cup {d}
                                       ELSE readings[e].with
  BY BeginStep
<1>2. following' = following /\ users' = users /\ shown' = shown /\ failures' = failures
  BY <1>1 DEF relations
<1>3. \A e \in Readings : Reads(e, l) /\ ~readings[e].ended /\ l \in Suggesting => e \in others
  OBVIOUS
<1> HIDE DEF others
<1> SUFFICES ASSUME NEW E \in SUBSET Readings, NEW u \in Members,
                    Closed(E)', Wanted(E, u)', ~Covered(E, u)',
                    NEW e \in E
             PROVE  Open(readings[e], u)'
  BY DEF CoverInv
<1> DEFINE F == E \ {d}
<1>4. ASSUME NEW f \in F
      PROVE  /\ Begun(f) /\ Undisturbed(f) /\ readings[f].with \subseteq F
             /\ u \in readings[f].stable
             /\ Given(f, u) <=> Given(f, u)'
             /\ Alike(readings[f], readings'[f])
  <2>1. f \in E /\ f # d /\ f \in Readings
    OBVIOUS
  <2>2. Begun(f)
    BY <1>1, <2>1 DEF Closed, Begun
  <2>3. /\ Alike(readings[f], readings'[f]) /\ readings'[f].stable = readings[f].stable
        /\ readings'[f].met = readings[f].met /\ readings[f].with \subseteq readings'[f].with
    BY <1>1, <2>1, <2>2
  <2>4. Undisturbed(f)
    BY <2>1, <2>3 DEF Closed, Undisturbed
  <2>5. \A h \in readings[f].with : Begun(h)
    BY <2>1, <2>2 DEF ReadingInv, ReadingOK
  <2>6. readings[f].with \subseteq F
    BY <1>1, <2>1, <2>3, <2>5 DEF Closed
  <2>7. u \in readings[f].stable
    BY <2>1, <2>3 DEF Wanted
  <2>8. Given(f, u) <=> Given(f, u)'
    BY <2>3 DEF Given, Alike
  <2> QED
    BY <2>2, <2>3, <2>4, <2>6, <2>7, <2>8
<1>5. Closed(F) /\ Wanted(F, u)
  BY <1>4 DEF Closed, Wanted
<1>6. ~Covered(F, u)
  <2> SUFFICES ASSUME NEW f \in F, Given(f, u) PROVE FALSE
    BY DEF Covered
  <2>1. Given(f, u)'
    BY <1>4
  <2> QED
    BY <2>1 DEF Covered
<1>7. F \in SUBSET Readings
  OBVIOUS
<1>8. \A f \in F : Open(readings[f], u)
  BY <1>5, <1>6, <1>7 DEF CoverInv
<1>9. CASE e # d
  <2>1. Open(readings[e], u) /\ Alike(readings[e], readings'[e])
    BY <1>4, <1>8, <1>9
  <2> QED
    BY <1>2, <2>1 DEF Open, PastClear, Ahead, From, Alike
<1>10. CASE e = d
  <2>1. u \in Shown(l, following, users) /\ s.met \cap {"moved", "short", "failed"} = {}
        /\ s.with \subseteq E
    BY <1>1, <1>10 DEF Wanted, Closed, Undisturbed
  <2>2. Ahead(readings[d], u)'
    <3>1. PICK q \in Rows(l, following, users) : Returned(l, q[3]) = u
      BY <2>1, ShownRows DEF LTypeOK
    <3>2. Rows(l, following, users) \in RowSets
      BY RowsTyped DEF LTypeOK
    <3>3. Offset(q, Rows(l, following, users)) \in Nat
      BY <3>2, OffsetBelow, RowsFinite
    <3>4. 0 * Limit = 0
      BY DEF ListingsAssumption
    <3>5. 0 * Limit <= Offset(q, Rows(l, following, users))
      BY <3>3, <3>4
    <3> QED
      BY <1>1, <1>2, <3>1, <3>5 DEF Ahead, From, Late
  <2>3. ASSUME PastClear(s), u \in shown[l] PROVE FALSE
    <3>1. l = "interests"
      BY <1>1, <2>3 DEF PastClear, Suggesting
    <3>2. ~(failures > 0)
      BY <1>1, <2>1, <3>1
    <3>3. PICK f \in Readings : Reads(f, "interests") /\ ~readings[f].ended
      BY <2>3, <3>1, <3>2 DEF ForgetInv
    <3>4. f \in others
      BY <1>3, <3>1, <3>3 DEF Suggesting
    <3>5. f \in F
      BY <1>1, <2>1, <3>3, <3>4 DEF Reads
    <3>6. PastClear(readings[f]) /\ readings[f].list = l
      BY <3>1, <3>3 DEF PastClear, Reads, Suggesting
    <3> QED
      BY <1>8, <2>3, <3>5, <3>6 DEF Open
  <2> QED
    BY <1>1, <1>2, <1>10, <2>2, <2>3 DEF Open
<1> QED
  BY <1>9, <1>10

\* What expires holds nobody back.
LEMMA ExpireCover ==
  ASSUME LTypeOK, ReadingInv, CoverInv, NEW l \in Suggesting, Expire(l)
  PROVE  CoverInv'
<1>1. /\ UNCHANGED <<relations, failures>>
      /\ shown'[l] = {} /\ \A m \in Suggesting \ {l} : shown'[m] = shown[m]
      /\ \A e \in Readings :
           /\ readings'[e] = None <=> readings[e] = None
           /\ Begun(e) =>
                /\ Alike(readings[e], readings'[e])
                /\ readings'[e].stable = readings[e].stable
                /\ readings'[e].with = readings[e].with
                /\ readings'[e].met = IF readings[e].list = l THEN readings[e].met \cup {"expired"}
                                      ELSE readings[e].met
  BY ExpireStep
<1>2. following' = following /\ users' = users
  BY <1>1 DEF relations
<1>3. \A m \in Suggesting : shown'[m] \subseteq shown[m]
  BY <1>1
<1> SUFFICES ASSUME NEW E \in SUBSET Readings, NEW u \in Members,
                    Closed(E)', Wanted(E, u)', ~Covered(E, u)',
                    NEW e \in E
             PROVE  Open(readings[e], u)'
  BY DEF CoverInv
<1>4. ASSUME NEW f \in E
      PROVE  /\ Begun(f) /\ Undisturbed(f) /\ readings[f].with \subseteq E
             /\ u \in readings[f].stable
             /\ Given(f, u) <=> Given(f, u)'
             /\ Alike(readings[f], readings'[f])
  <2>1. Begun(f) /\ f \in Readings
    BY <1>1 DEF Closed, Begun
  <2>2. /\ Alike(readings[f], readings'[f]) /\ readings'[f].stable = readings[f].stable
        /\ readings[f].met \subseteq readings'[f].met /\ readings[f].with = readings'[f].with
    BY <1>1, <2>1
  <2>3. Undisturbed(f) /\ readings[f].with \subseteq E /\ u \in readings[f].stable
    BY <2>2 DEF Closed, Wanted, Undisturbed
  <2>4. Given(f, u) <=> Given(f, u)'
    BY <2>2 DEF Given, Alike
  <2> QED
    BY <2>1, <2>2, <2>3, <2>4
<1>5. Closed(E) /\ Wanted(E, u) /\ ~Covered(E, u)
  BY <1>4 DEF Closed, Wanted, Covered
<1>6. Open(readings[e], u) /\ Alike(readings[e], readings'[e])
  BY <1>4, <1>5 DEF CoverInv
<1> QED
  BY <1>2, <1>3, <1>6 DEF Open, PastClear, Ahead, From, Alike

\* Rows that come only push others back.
LEMMA ChangedCover ==
  ASSUME LTypeOK, ReadingInv, CoverInv,
         NEW g \in SUBSET (Members \X Members), NEW i \in [Members -> User], Changed(g, i)
  PROVE  CoverInv'
<1>1. /\ UNCHANGED <<shown, failures>> /\ following' = g /\ users' = i
      /\ \A e \in Readings :
           /\ readings'[e] = None <=> readings[e] = None
           /\ Begun(e) =>
                /\ Alike(readings[e], readings'[e]) /\ readings'[e].with = readings[e].with
                /\ readings[e].ended => readings'[e] = readings[e]
                /\ ~readings[e].ended =>
                     LET r == readings[e]
                         s == readings'[e]
                         rows == Rows(r.list, following, users)
                     IN
                     /\ s.stable = r.stable \cap Shown(r.list, g, i)
                     /\ r.met \subseteq s.met
                     /\ "moved" \in s.met \/ /\ rows \subseteq Rows(r.list, g, i)
                                             /\ r.at = "page" /\ r.list \in Suggesting =>
                                                  ~(Cardinality(Rows(r.list, g, i)) > Cardinality(rows))
  BY ChangedStep
<1> SUFFICES ASSUME NEW E \in SUBSET Readings, NEW u \in Members,
                    Closed(E)', Wanted(E, u)', ~Covered(E, u)',
                    NEW e \in E
             PROVE  Open(readings[e], u)'
  BY DEF CoverInv
<1>2. ASSUME NEW f \in E
      PROVE  /\ Begun(f) /\ Undisturbed(f) /\ readings[f].with \subseteq E
             /\ u \in readings[f].stable
             /\ Given(f, u) <=> Given(f, u)'
             /\ Alike(readings[f], readings'[f])
  <2>1. Begun(f) /\ f \in Readings
    BY <1>1 DEF Closed, Begun
  <2>2. /\ Alike(readings[f], readings'[f]) /\ readings'[f].stable \subseteq readings[f].stable
        /\ readings[f].met \subseteq readings'[f].met /\ readings[f].with = readings'[f].with
    BY <1>1, <2>1
  <2>3. Undisturbed(f) /\ readings[f].with \subseteq E /\ u \in readings[f].stable
    BY <2>2 DEF Closed, Wanted, Undisturbed
  <2>4. Given(f, u) <=> Given(f, u)'
    BY <2>2 DEF Given, Alike
  <2> QED
    BY <2>1, <2>2, <2>3, <2>4
<1>3. Closed(E) /\ Wanted(E, u) /\ ~Covered(E, u)
  BY <1>2 DEF Closed, Wanted, Covered
<1>4. Open(readings[e], u) /\ Alike(readings[e], readings'[e]) /\ Begun(e)
  BY <1>2, <1>3 DEF CoverInv
<1> DEFINE r == readings[e]
           s == readings'[e]
<1>5. r \in Reading /\ Settled(r)
  BY <1>4 DEF LTypeOK, Begun, ReadingInv, ReadingOK
<1>6. ASSUME NEW n \in Nat, From(r.list, n, u), ~r.ended
      PROVE  From(r.list, n, u)'
  <2>1. "moved" \notin s.met
    BY DEF Closed, Undisturbed
  <2>2. Rows(r.list, following, users) \subseteq Rows(r.list, g, i)
    BY <1>1, <1>4, <1>6, <2>1
  <2>3. Rows(r.list, g, i) \in RowSets /\ r.list \in Lists
    BY <1>5, RowsTyped DEF Reading
  <2>4. PICK q \in Rows(r.list, following, users) :
          Returned(r.list, q[3]) = u /\ n <= Offset(q, Rows(r.list, following, users))
    BY <1>6 DEF From
  <2>5. Rows(r.list, following, users) \in RowSets
    BY <2>2, <2>3, RowsFinite
  <2>6. /\ Offset(q, Rows(r.list, following, users)) <= Offset(q, Rows(r.list, g, i))
        /\ Offset(q, Rows(r.list, following, users)) \in Nat
        /\ Offset(q, Rows(r.list, g, i)) \in Nat
    BY <2>2, <2>3, <2>5, OffsetMonotone, OffsetBelow, RowsFinite
  <2>7. n <= Offset(q, Rows(r.list, g, i)) /\ q \in Rows(r.list, g, i)
    BY <2>2, <2>4, <2>6
  <2>8. readings'[e].list = r.list
    BY <1>4 DEF Alike
  <2> QED
    BY <1>1, <2>4, <2>7, <2>8 DEF From
<1>7. r.page * Limit \in Nat /\ (r.page + 1) * Limit \in Nat
  <2>1. r.page \in Nat /\ r.page + 1 \in Nat
    BY <1>5, MembersCounted DEF Reading, MaxPage
  <2> QED
    BY <2>1, PageStarts
<1>8. r.at \in Late => ~r.ended
  BY <1>5 DEF Settled, Late
<1>9. Ahead(readings[e], u)'
  BY <1>4, <1>6, <1>7, <1>8 DEF Open, Ahead, Alike
<1> QED
  BY <1>1, <1>4, <1>9 DEF Open, PastClear, Alike

-----------------------------------------------------------------------------
(* Nobody comes twice *)

\* A reading that reads alone keeps in Redis whom it has given, and leaves them out.
LEMMA RequestOwnApart ==
  ASSUME LTypeOK, ReadingInv, ApartInv, NEW d \in Readings, RequestStep(d), Lone(d)'
  PROVE  Apart(readings[d])'
<1> DEFINE r == readings[d]
           s == readings'[d]
<1>1. Begun(d) /\ Settled(r) /\ Advances(d) /\ ~r.ended
  BY RequestAdvances
<1>2. /\ s.list = r.list /\ s.with = r.with /\ r.met \subseteq s.met /\ r.page \in Nat
      /\ r.at \in Stages
  BY <1>1, MembersCounted DEF Advances, Reading, MaxPage
<1>3. s.list = "suggestions" /\ s.with = {} /\ s.met \cap {"failed", "expired"} = {}
  BY DEF Lone, Reads
<1>4. ~Fails(d)
  BY <1>3 DEF Fails
<1>5. Lone(d)
  BY <1>1, <1>2, <1>3 DEF Lone, Reads
<1>6. Apart(r)
  BY <1>5 DEF ApartInv
<1>7. r.at \notin {"idle", "clear"} => r.got \subseteq shown["suggestions"]
  BY <1>1, <1>2, <1>3, <1>6 DEF Apart, PastClear, Suggesting
<1>8. r.list = "suggestions"
  BY <1>2, <1>3
<1>18. SUFFICES /\ "repeated" \notin s.met
                /\ ~s.ended /\ s.page = 0 => s.got = {}
                /\ PastClear(s) => s.got \subseteq shown'["suggestions"]
                /\ s.at \in {"mergeGet", "mergeSet", "filter"} => s.rows \cap s.got = {}
                /\ s.at = "mergeSet" => s.got \subseteq s.known
                /\ s.at = "filter" => s.rows \subseteq shown'["suggestions"]
  BY DEF Apart
<1>9. CASE Ask(d)
  <2>1. /\ UNCHANGED shown /\ r.at = "idle" /\ s.page = r.page /\ s.got = r.got
        /\ s.at = IF r.page = 0 THEN "clear" ELSE "count"
        /\ s.ended = r.ended /\ s.met = r.met
    BY <1>1, <1>2, <1>3, <1>9, AskStep DEF Suggesting
  <2>2. PastClear(s) => PastClear(r)
    BY <1>2, <2>1 DEF PastClear
  <2> QED
    BY <1>6, <2>1, <2>2 DEF Apart
<1>10. CASE Clear(d)
  <2>1. /\ s.at = "count" /\ s.page = r.page /\ r.page = 0 /\ s.got = r.got
        /\ s.ended = r.ended /\ s.met = r.met
    BY <1>1, <1>4, <1>10, ClearStep
  <2> QED
    BY <1>1, <1>6, <2>1 DEF Apart
<1>11. CASE Count(d)
  <2>1. /\ UNCHANGED shown /\ r.at = "count" /\ s.at \in {"seen", "page"}
        /\ s.page = r.page /\ s.got = r.got /\ s.ended = r.ended
        /\ "repeated" \in s.met <=> "repeated" \in r.met
    BY <1>1, <1>4, <1>11, CountStep
  <2> QED
    BY <1>6, <1>7, <2>1 DEF Apart
<1>12. CASE ReadPage(d)
  <2>1. /\ UNCHANGED shown /\ r.at = "page" /\ s.at = "seen"
        /\ s.page = r.page /\ s.got = r.got /\ s.ended = r.ended /\ s.met = r.met
    BY <1>1, <1>2, <1>3, <1>4, <1>12, ReadPageStep DEF Suggesting
  <2> QED
    BY <1>6, <1>7, <2>1 DEF Apart
<1>13. CASE Seen(d)
  <2>1. /\ UNCHANGED shown /\ r.at = "seen" /\ s.rows = r.rows \ shown["suggestions"]
        /\ s.at = IF r.rows \subseteq shown["suggestions"] THEN "filter" ELSE "mergeGet"
        /\ s.page = r.page /\ s.got = r.got /\ s.ended = r.ended /\ s.met = r.met
    BY <1>1, <1>4, <1>8, <1>13, SeenStep
  <2> QED
    BY <1>6, <1>7, <2>1 DEF Apart
<1>14. CASE MergeGet(d)
  <2>1. /\ UNCHANGED shown /\ r.at = "mergeGet" /\ s.at = "mergeSet"
        /\ s.known = shown["suggestions"] /\ s.rows = r.rows
        /\ s.page = r.page /\ s.got = r.got /\ s.ended = r.ended /\ s.met = r.met
    BY <1>1, <1>4, <1>8, <1>14, MergeGetStep
  <2> QED
    BY <1>6, <1>7, <2>1 DEF Apart
<1>15. CASE MergeSet(d)
  <2>1. /\ r.at = "mergeSet" /\ s.at = "filter" /\ s.rows = r.rows
        /\ shown'["suggestions"] = r.known \cup r.rows
        /\ s.page = r.page /\ s.got = r.got /\ s.ended = r.ended /\ s.met = r.met
    BY <1>1, <1>4, <1>8, <1>15, MergeSetStep
  <2> QED
    BY <1>6, <2>1 DEF Apart
<1>16. CASE Filter(d)
  <2>1. /\ UNCHANGED shown /\ r.at = "filter" /\ s.at = "idle" /\ s.got = r.got \cup r.rows
        /\ s.page = r.page + 1
        /\ s.met = r.met \cup (IF r.rows \cap r.got # {} THEN {"repeated"} ELSE {})
    BY <1>1, <1>2, <1>3, <1>4, <1>16, FilterStep
  <2>2. s.page # 0
    BY <1>2, <2>1
  <2> QED
    BY <1>6, <1>7, <2>1, <2>2 DEF Apart
<1>17. CASE Forget(d)
  BY <1>1, <1>2, <1>3, <1>17, ForgetStep
<1> QED
  BY <1>9, <1>10, <1>11, <1>12, <1>13, <1>14, <1>15, <1>16, <1>17 DEF RequestStep

\* What one reading's request does to Redis leaves a reading alone that is alone.
LEMMA RequestApart ==
  ASSUME LTypeOK, ReadingInv, ApartInv, NEW d \in Readings, RequestStep(d)
  PROVE  ApartInv'
<1> DEFINE r == readings[d]
<1>1. Begun(d) /\ Settled(r) /\ Advances(d) /\ ~r.ended
  BY RequestAdvances
<1>2. shown'["suggestions"] = shown["suggestions"] \/ r.list = "suggestions"
  <2>1. Fails(d) => shown'["suggestions"] = shown["suggestions"]
    BY DEF Fails
  <2>2. CASE Ask(d)
    BY <1>1, <2>2, AskStep
  <2>3. CASE Clear(d)
    BY <1>1, <2>3, ClearStep
  <2>4. CASE Count(d)
    BY <1>1, <2>1, <2>4, CountStep
  <2>5. CASE ReadPage(d)
    BY <1>1, <2>1, <2>5, ReadPageStep
  <2>6. CASE Seen(d)
    BY <1>1, <2>1, <2>6, SeenStep
  <2>7. CASE MergeGet(d)
    BY <1>1, <2>1, <2>7, MergeGetStep
  <2>8. CASE MergeSet(d)
    BY <1>1, <2>1, <2>8, MergeSetStep DEF Suggesting
  <2>9. CASE Filter(d)
    BY <1>1, <2>1, <2>9, FilterStep
  <2>10. CASE Forget(d)
    BY <1>1, <2>1, <2>10, ForgetStep
  <2> QED
    BY <2>2, <2>3, <2>4, <2>5, <2>6, <2>7, <2>8, <2>9, <2>10 DEF RequestStep
<1> SUFFICES ASSUME NEW e \in Readings, Lone(e)' PROVE Apart(readings[e])'
  BY DEF ApartInv
<1>3. CASE e = d
  BY <1>3, RequestOwnApart
<1>4. CASE e # d
  <2>1. readings'[e] = readings[e]
    BY <1>1, <1>4 DEF Advances
  <2>2. Lone(e)
    BY <2>1 DEF Lone, Reads, Begun
  <2>3. Apart(readings[e])
    BY <2>2 DEF ApartInv
  <2>4. CASE shown'["suggestions"] = shown["suggestions"]
    BY <2>1, <2>3, <2>4 DEF Apart
  <2>5. CASE r.list = "suggestions"
    <3>1. Begun(e) /\ readings[e].list = "suggestions" /\ readings[e].with = {}
      BY <2>2 DEF Lone, Reads
    <3>2. ReadingOK(e)
      BY <3>1 DEF ReadingInv
    <3>3. ~readings[e].ended => Together(e, d)
      BY <1>1, <1>4, <2>5, <3>1 DEF Together, Suggesting
    <3>4. readings[e].ended /\ readings[e].at = "idle"
      BY <3>1, <3>2, <3>3 DEF ReadingOK, Settled
    <3> QED
      BY <2>1, <2>3, <3>4 DEF Apart, PastClear
  <2> QED
    BY <1>2, <2>4, <2>5
<1> QED
  BY <1>3, <1>4

\* A reading that begins joins those it could disturb, or disturbs none.
LEMMA BeginApart ==
  ASSUME LTypeOK, ApartInv, NEW d \in Readings, NEW l \in Lists, Begin(d, l)
  PROVE  ApartInv'
<1> DEFINE others == {e \in Readings : l \in Suggesting /\ Reads(e, l) /\ ~readings[e].ended}
           s == readings'[d]
<1>1. /\ ~Begun(d) /\ UNCHANGED <<shown, relations, failures>>
      /\ s.list = l /\ s.at = "idle" /\ s.page = 0 /\ s.got = {}
      /\ s.met = IF l = "interests" /\ failures > 0 THEN {"failed"} ELSE {}
      /\ \A e \in Readings \ {d} :
           /\ readings'[e] = None <=> readings[e] = None
           /\ Begun(e) =>
                /\ Alike(readings[e], readings'[e])
                /\ readings'[e].met = readings[e].met
                /\ readings'[e].with = IF e \in others THEN readings[e].with \cup {d}
                                       ELSE readings[e].with
  BY BeginStep
<1> HIDE DEF others
<1> SUFFICES ASSUME NEW e \in Readings, Lone(e)' PROVE Apart(readings[e])'
  BY DEF ApartInv
<1>2. CASE e = d
  <2>1. s.met \cap {"repeated"} = {}
    BY <1>1
  <2> QED
    BY <1>1, <1>2, <2>1 DEF Apart, PastClear, Lone, Reads
<1>3. CASE e # d
  <2>1. Begun(e)
    BY <1>1, <1>3 DEF Lone, Reads, Begun
  <2>2. /\ Alike(readings[e], readings'[e]) /\ readings'[e].met = readings[e].met
        /\ readings[e].with \subseteq readings'[e].with
    BY <1>1, <1>3, <2>1
  <2>3. Lone(e)
    BY <2>1, <2>2 DEF Lone, Reads, Alike
  <2> QED
    BY <1>1, <2>2, <2>3 DEF ApartInv, Apart, PastClear, Alike
<1> QED
  BY <1>2, <1>3

\* A reading meets what expires of its own.
LEMMA ExpireApart ==
  ASSUME LTypeOK, ApartInv, NEW l \in Suggesting, Expire(l)
  PROVE  ApartInv'
<1>1. /\ \A m \in Suggesting \ {l} : shown'[m] = shown[m]
      /\ \A e \in Readings :
           /\ readings'[e] = None <=> readings[e] = None
           /\ Begun(e) =>
                /\ Alike(readings[e], readings'[e])
                /\ readings'[e].with = readings[e].with
                /\ readings'[e].met = IF readings[e].list = l THEN readings[e].met \cup {"expired"}
                                      ELSE readings[e].met
  BY ExpireStep
<1> SUFFICES ASSUME NEW e \in Readings, Lone(e)' PROVE Apart(readings[e])'
  BY DEF ApartInv
<1>2. Begun(e)
  BY <1>1 DEF Lone, Reads, Begun
<1>3. readings'[e].list = "suggestions" /\ "expired" \notin readings'[e].met
  BY DEF Lone, Reads
<1>4. readings[e].list = "suggestions" /\ l # "suggestions" /\ readings'[e].met = readings[e].met
  BY <1>1, <1>2, <1>3 DEF Alike
<1>5. shown'["suggestions"] = shown["suggestions"]
  BY <1>1, <1>4 DEF Suggesting
<1>6. Alike(readings[e], readings'[e]) /\ Lone(e)
  BY <1>1, <1>2, <1>4 DEF Lone, Reads
<1> QED
  BY <1>4, <1>5, <1>6 DEF ApartInv, Apart, PastClear, Alike

\* Nor does the graph matter.
LEMMA ChangedApart ==
  ASSUME LTypeOK, ApartInv,
         NEW g \in SUBSET (Members \X Members), NEW i \in [Members -> User], Changed(g, i)
  PROVE  ApartInv'
<1>1. /\ UNCHANGED shown
      /\ \A e \in Readings :
           /\ readings'[e] = None <=> readings[e] = None
           /\ Begun(e) =>
                /\ Alike(readings[e], readings'[e]) /\ readings'[e].with = readings[e].with
                /\ readings[e].ended => readings'[e] = readings[e]
                /\ ~readings[e].ended =>
                     /\ readings[e].met \subseteq readings'[e].met
                     /\ readings'[e].met \subseteq readings[e].met \cup {"moved"}
  BY ChangedStep
<1> SUFFICES ASSUME NEW e \in Readings, Lone(e)' PROVE Apart(readings[e])'
  BY DEF ApartInv
<1>2. Begun(e)
  BY <1>1 DEF Lone, Reads, Begun
<1>3. /\ Alike(readings[e], readings'[e]) /\ readings'[e].with = readings[e].with
      /\ readings[e].met \subseteq readings'[e].met
      /\ readings'[e].met \subseteq readings[e].met \cup {"moved"}
  BY <1>1, <1>2
<1>4. Lone(e)
  BY <1>2, <1>3 DEF Lone, Reads, Alike
<1>5. Apart(readings[e])
  BY <1>4 DEF ApartInv
<1>6. "repeated" \notin readings'[e].met
  BY <1>3, <1>5 DEF Apart
<1> QED
  BY <1>1, <1>3, <1>5, <1>6 DEF Apart, PastClear, Alike

-----------------------------------------------------------------------------
(* The theorems about the lists *)

\* The invariant, inductive.
ListingsInv == LTypeOK /\ ReadingInv /\ ForgetInv /\ CoverInv /\ ApartInv

\* It holds before anyone reads.
LEMMA ListingsInvInit == LInit => ListingsInv
<1> SUFFICES ASSUME LInit PROVE ListingsInv
  OBVIOUS
<1>1. LTypeOK
  BY DEF LInit, LTypeOK, ListingsAssumption
<1>2. \A d \in Readings : ~Begun(d)
  BY DEF LInit, Begun
<1>3. ReadingInv /\ ApartInv
  BY <1>2 DEF ReadingInv, ApartInv, Lone, Reads
<1>4. ForgetInv
  BY DEF LInit, ForgetInv, Suggesting
<1>5. \A E \in SUBSET Readings : Closed(E) => E = {}
  BY <1>2 DEF Closed
<1>6. CoverInv
  BY <1>5 DEF CoverInv
<1> QED
  BY <1>1, <1>3, <1>4, <1>6 DEF ListingsInv

\* Every step keeps it.
LEMMA ListingsInvNext == ListingsInv /\ [LNext]_lvars => ListingsInv'
<1> SUFFICES ASSUME ListingsInv, [LNext]_lvars PROVE ListingsInv'
  OBVIOUS
<1>1. LTypeOK /\ ReadingInv /\ ForgetInv /\ CoverInv /\ ApartInv
  BY DEF ListingsInv
<1>2. CASE UNCHANGED lvars
  <2>1. LTypeOK' /\ ForgetInv'
    BY <1>1, <1>2 DEF lvars, LTypeOK, ForgetInv, Reads, Begun
  <2>2. ReadingInv'
    BY <1>1, <1>2 DEF lvars, ReadingInv, ReadingOK, Begun, Together, Counts, Undisturbed
  <2>3. CoverInv'
    <3>1. UNCHANGED <<following, users, shown, readings>>
      BY <1>2 DEF lvars
    <3>2. ASSUME NEW E \in SUBSET Readings, NEW u \in Members, Closed(E)', Wanted(E, u)'
          PROVE  Covered(E, u)' \/ \A d \in E : Open(readings[d], u)'
      <4>1. Closed(E) /\ Wanted(E, u)
        BY <3>1, <3>2 DEF Closed, Wanted, Begun, Undisturbed
      <4>2. Covered(E, u) => Covered(E, u)'
        BY <3>1 DEF Covered, Given
      <4>3. \A d \in E : Open(readings[d], u) => Open(readings[d], u)'
        BY <3>1 DEF Open, PastClear, Ahead, From
      <4> QED
        BY <1>1, <4>1, <4>2, <4>3 DEF CoverInv
    <3> QED
      BY <3>2 DEF CoverInv
  <2>4. ApartInv'
    BY <1>1, <1>2 DEF lvars, ApartInv, Lone, Reads, Begun, Apart, PastClear
  <2> QED
    BY <2>1, <2>2, <2>3, <2>4 DEF ListingsInv
<1>3. CASE \E d \in Readings : RequestStep(d)
  BY <1>1, <1>3, RequestReadings, RequestForget, RequestCover, RequestApart DEF ListingsInv
<1>4. ASSUME NEW d \in Readings, NEW l \in Lists, Begin(d, l) PROVE ListingsInv'
  <2>1. UNCHANGED <<shown, failures>> /\ \A e \in Readings : Begun(e) =>
          readings'[e] # None /\ Alike(readings[e], readings'[e])
    BY <1>1, <1>4, BeginStep DEF Begun
  <2>2. ForgetInv'
    BY <1>1, <2>1, OthersForget
  <2> QED
    BY <1>1, <1>4, <2>2, BeginReadings, BeginCover, BeginApart DEF ListingsInv
<1>5. ASSUME NEW l \in Suggesting, Expire(l) PROVE ListingsInv'
  <2>1. /\ UNCHANGED failures /\ shown'["interests"] \subseteq shown["interests"]
        /\ \A e \in Readings : Begun(e) =>
             readings'[e] # None /\ Alike(readings[e], readings'[e])
    BY <1>1, <1>5, ExpireStep DEF Begun, Suggesting
  <2>2. ForgetInv'
    BY <1>1, <2>1, OthersForget
  <2> QED
    BY <1>1, <1>5, <2>2, ExpireReadings, ExpireCover, ExpireApart DEF ListingsInv
<1>6. ASSUME NEW g \in SUBSET (Members \X Members), NEW i \in [Members -> User], Changed(g, i)
      PROVE  ListingsInv'
  <2>1. /\ UNCHANGED <<shown, failures>>
        /\ \A e \in Readings : Begun(e) =>
             readings'[e] # None /\ Alike(readings[e], readings'[e])
    BY <1>1, <1>6, ChangedStep DEF Begun
  <2>2. ForgetInv'
    BY <1>1, <2>1, OthersForget
  <2> QED
    BY <1>1, <1>6, <2>2, ChangedReadings, ChangedCover, ChangedApart DEF ListingsInv
<1>7. CASE \/ \E u, v \in Members : Follow(u, v) \/ Unfollow(u, v)
           \/ \E u \in Members : \/ \E t \in Topics : CreateUserInterests(u, t)
                                 \/ \E n \in Names : Rename(u, n)
  BY <1>1, <1>6, <1>7, Changes
<1> QED
  BY <1>2, <1>3, <1>4, <1>5, <1>7 DEF LNext, RequestStep

\* So it always holds.
LEMMA ListingsInvariant == LSpec => []ListingsInv
<1> QED
  BY ListingsInvInit, ListingsInvNext, PTL DEF LSpec

\* The state of the readings, of the graph and of Redis is of its type: a client asks for
\* no more pages than there are rows, and one.
THEOREM ListingsTyped == LSpec => []LTypeOK
<1>1. ListingsInv => LTypeOK
  BY DEF ListingsInv
<1> QED
  BY <1>1, ListingsInvariant, PTL

\* Whoever is on a list all along has been given by one at least of any readings of it that
\* have all ended, and that have read beside no others.
THEOREM ListsComplete == LSpec => []Complete
<1>1. ASSUME ListingsInv PROVE Complete
  <2> SUFFICES ASSUME NEW E \in (SUBSET Readings) \ {{}},
                      \A e \in E : /\ Begun(e) /\ readings[e].ended
                                   /\ Undisturbed(e)
                                   /\ readings[e].with \subseteq E,
                      NEW u \in Members, \A e \in E : u \in readings[e].stable
               PROVE  \E e \in E : u \in readings[e].got
    BY DEF Complete
  <2>1. PICK d \in E : TRUE
    OBVIOUS
  <2>2. Closed(E) /\ Wanted(E, u) /\ E \in SUBSET Readings
    BY DEF Closed, Wanted
  <2>3. \A e \in E : readings[e].at = "idle" /\ readings[e].ended
    BY <1>1 DEF ListingsInv, ReadingInv, ReadingOK, Settled
  <2>4. ~Open(readings[d], u)
    BY <2>1, <2>3 DEF Open, Ahead, Late
  <2>5. Covered(E, u)
    BY <1>1, <2>1, <2>2, <2>4 DEF ListingsInv, CoverInv
  <2> QED
    BY <2>3, <2>5 DEF Covered, Given
<1> QED
  BY <1>1, ListingsInvariant, PTL

\* No suggestion comes twice to a reading that reads alone.
THEOREM PagesApart == LSpec => []PagesDisjoint
<1>1. ListingsInv => PagesDisjoint
  BY DEF ListingsInv, ApartInv, Lone, Apart, PagesDisjoint
<1> QED
  BY <1>1, ListingsInvariant, PTL

=============================================================================
