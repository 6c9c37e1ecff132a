---------------------------- MODULE SocialGraph ----------------------------
(***************************************************************************)
(* The relationship service (apps/relationship): follow, unfollow, remove  *)
(* a follower, block and unblock, over the Neo4j graph.                    *)
(*                                                                         *)
(* Every request is a sequence of Neo4j queries with an await between any  *)
(* two of them.  A query (one session.run, an auto-commit transaction) is  *)
(* one step here; the requests of all handlers interleave between steps,   *)
(* a query may fail, and a handler may die between two queries.            *)
(***************************************************************************)
EXTENDS Integers, FiniteSets

CONSTANTS
  Users,        \* user ids
  Handlers,     \* requests the service instances can serve at the same time
  EdgeIds,      \* identities Neo4j gives to parallel relationships
  NoRequest,    \* what an idle handler serves
  MaxFaults,    \* bound: failed queries in a behaviour
  MaxRequests   \* bound: requests begun in a behaviour

Operations ==
  {"followingUser", "unfollowingUser", "removeFollower", "blockUser", "unblockUser"}

\* The queries of a request, each named for the question it asks or the
\* change it makes.
Queries ==
  {"userExists", "isFollowing", "isFollower", "isBlocked", "isBlockedBy",
   "createFollowing", "notify", "deleteFollowing", "createBlocked", "deleteBlocked"}

\* op: the endpoint called; call: the service method running now (blockUser
\* calls unfollowingUser and removeFollower); at: the query it runs next;
\* seen: the answer to the first of checkIfUserBlocked's two queries.
Request ==
  [op: Operations, call: Operations, at: Queries, from: Users, to: Users, seen: BOOLEAN]

ASSUME SocialGraphAssumption ==
  /\ NoRequest \notin Request
  /\ IsFiniteSet(Users)
  /\ IsFiniteSet(Handlers)
  /\ MaxFaults \in Nat
  /\ MaxRequests \in Nat

VARIABLES
  nodes,             \* users that have a node in Neo4j
  follows,           \* FOLLOWING relationships
  blocks,            \* BLOCKED relationships
  following_number,  \* property of a user's node
  followers_number,  \* property of a user's node
  requests,          \* what each handler is doing
  notified,          \* <<a, b>>: create_notification sent to b, "a followed you"
  faults,            \* failed queries so far
  begun,             \* requests begun so far
  tainted            \* history: pairs on which requests overlapped or a query failed

graph == <<nodes, follows, blocks, following_number, followers_number>>
vars == <<nodes, follows, blocks, following_number, followers_number,
          requests, notified, faults, begun, tainted>>

Edge == [from: Users, to: Users, id: EdgeIds]

TypeOK ==
  /\ nodes \subseteq Users
  /\ follows \subseteq Edge
  /\ blocks \subseteq Edge
  /\ following_number \in [Users -> Nat]
  /\ followers_number \in [Users -> Nat]
  /\ requests \in [Handlers -> Request \cup {NoRequest}]
  /\ notified \subseteq Users \X Users
  /\ faults \in 0..MaxFaults
  /\ begun \in 0..MaxRequests
  /\ tainted \subseteq SUBSET Users

Parallel(edges, a, b) == {e \in edges : e.from = a /\ e.to = b}
Related(edges, a, b) == \E e \in edges : e.from = a /\ e.to = b

Pair(r) == {r.from, r.to}
Busy(h) == requests[h] # NoRequest
At(h, q) == Busy(h) /\ requests[h].at = q

-----------------------------------------------------------------------------
(* How a request moves on *)

Entry ==
  [followingUser |-> "userExists", unfollowingUser |-> "isFollowing",
   removeFollower |-> "isBlocked", blockUser |-> "isBlocked", unblockUser |-> "isBlocked"]

Becomes(h, r) == requests' = [requests EXCEPT ![h] = r]

Goto(h, q) == Becomes(h, [requests[h] EXCEPT !.at = q])

Call(h, method) == Becomes(h, [requests[h] EXCEPT !.call = method, !.at = Entry[method]])

\* A faulty variant, to show what the properties catch: blockUser goes on to the
\* block once it has unfollowed.
ReturnPastFollower(h) ==
  LET r == requests[h] IN
  \/ r.op = r.call /\ Becomes(h, NoRequest)
  \/ r.op # r.call /\ Becomes(h, [r EXCEPT !.call = "blockUser", !.at = "createBlocked"])

\* A method returns to the client, or to blockUser, which ignores the result.
Return(h) ==
  LET r == requests[h] IN
  \/ r.op = r.call /\ Becomes(h, NoRequest)
  \/ /\ r.op # r.call /\ r.call = "unfollowingUser"
     /\ Becomes(h, [r EXCEPT !.call = "blockUser", !.at = "isFollower"])
  \/ /\ r.op # r.call /\ r.call = "removeFollower"
     /\ Becomes(h, [r EXCEPT !.call = "blockUser", !.at = "createBlocked"])

Fault == faults < MaxFaults /\ faults' = faults + 1
FaultTaints(h) == Fault /\ tainted' = tainted \cup {Pair(requests[h])}

\* A read answers with the fact, or fails, and the error is logged and
\* answered as FALSE.
Answers(h, fact, yes) ==
  \/ yes = fact /\ UNCHANGED <<faults, tainted>>
  \/ yes = FALSE /\ FaultTaints(h)


-----------------------------------------------------------------------------
(* Requests begin and handlers die *)

Init ==
  /\ nodes \in SUBSET Users
  /\ follows = {}
  /\ blocks = {}
  /\ following_number = [u \in Users |-> 0]
  /\ followers_number = [u \in Users |-> 0]
  /\ requests = [h \in Handlers |-> NoRequest]
  /\ notified = {}
  /\ faults = 0
  /\ begun = 0
  /\ tainted = {}

\* neo4jdb-sync adds the node of a registered user.
SyncUser(u) ==
  /\ u \notin nodes
  /\ nodes' = nodes \cup {u}
  /\ UNCHANGED <<follows, blocks, following_number, followers_number,
                 requests, notified, faults, begun, tainted>>

\* Every method but unblockUser refuses a request about oneself at once.
BeginRequest(h, op, a, b) ==
  /\ ~Busy(h)
  /\ begun < MaxRequests
  /\ op # "unblockUser" => a # b
  /\ Becomes(h, [op |-> op, call |-> op, at |-> Entry[op], from |-> a, to |-> b, seen |-> FALSE])
  /\ begun' = begun + 1
  /\ tainted' = IF \E g \in Handlers : Busy(g) /\ Pair(requests[g]) = {a, b}
                THEN tainted \cup {{a, b}}
                ELSE tainted
  /\ UNCHANGED <<graph, notified, faults>>

\* The instance that serves h is killed: the request is lost where it is.
Crash(h) ==
  /\ Busy(h)
  /\ Becomes(h, NoRequest)
  /\ UNCHANGED <<graph, notified, faults, begun, tainted>>

-----------------------------------------------------------------------------
(* Checks *)

UserExists(h) ==
  /\ At(h, "userExists")
  /\ \E yes \in BOOLEAN :
       /\ Answers(h, requests[h].to \in nodes, yes)
       /\ \/ yes /\ Goto(h, "isFollowing")
          \/ ~yes /\ Return(h)
  /\ UNCHANGED <<graph, notified, begun>>

\* Faulty: followingUser goes on for a user it follows already.
CheckIfUserFollowingUnheeded(h) ==
  LET r == requests[h] IN
  /\ At(h, "isFollowing")
  /\ \E yes \in BOOLEAN :
       /\ Answers(h, Related(follows, r.from, r.to), yes)
       /\ \/ r.call = "followingUser" /\ Goto(h, "isBlocked")
          \/ r.call = "unfollowingUser" /\ yes  /\ Goto(h, "isBlocked")
          \/ r.call = "unfollowingUser" /\ ~yes /\ Return(h)
          \/ r.call = "blockUser" /\ yes  /\ Call(h, "unfollowingUser")
          \/ r.call = "blockUser" /\ ~yes /\ Goto(h, "isFollower")
  /\ UNCHANGED <<graph, notified, begun>>

\* checkIfUserFollowing: do I follow the other user?
CheckIfUserFollowing(h) ==
  LET r == requests[h] IN
  /\ At(h, "isFollowing")
  /\ \E yes \in BOOLEAN :
       /\ Answers(h, Related(follows, r.from, r.to), yes)
       /\ \/ r.call = "followingUser"   /\ yes  /\ Return(h)
          \/ r.call = "followingUser"   /\ ~yes /\ Goto(h, "isBlocked")
          \/ r.call = "unfollowingUser" /\ yes  /\ Goto(h, "isBlocked")
          \/ r.call = "unfollowingUser" /\ ~yes /\ Return(h)
          \/ r.call = "blockUser"       /\ yes  /\ Call(h, "unfollowingUser")
          \/ r.call = "blockUser"       /\ ~yes /\ Goto(h, "isFollower")
  /\ UNCHANGED <<graph, notified, begun>>

\* checkIfUserFollowing with the two users swapped.
CheckIfUserFollower(h) ==
  LET r == requests[h] IN
  /\ At(h, "isFollower")
  /\ \E yes \in BOOLEAN :
       /\ Answers(h, Related(follows, r.to, r.from), yes)
       /\ \/ r.call = "removeFollower" /\ yes  /\ Goto(h, "deleteFollowing")
          \/ r.call = "removeFollower" /\ ~yes /\ Return(h)
          \/ r.call = "blockUser"      /\ yes  /\ Call(h, "removeFollower")
          \/ r.call = "blockUser"      /\ ~yes /\ Goto(h, "createBlocked")
  /\ UNCHANGED <<graph, notified, begun>>

\* checkIfUserBlocked, first query: have I blocked the other user?
CheckIfBlocked(h) ==
  LET r == requests[h] IN
  /\ At(h, "isBlocked")
  /\ \E yes \in BOOLEAN :
       /\ Answers(h, Related(blocks, r.from, r.to), yes)
       /\ Becomes(h, [r EXCEPT !.at = "isBlockedBy", !.seen = yes])
  /\ UNCHANGED <<graph, notified, begun>>

\* What a method does once neither user has blocked the other.
AfterBlockCheck ==
  [followingUser |-> "createFollowing", unfollowingUser |-> "deleteFollowing",
   removeFollower |-> "isFollower", blockUser |-> "userExists"]

\* Faulty: the second answer replaces the first.
CheckIfBlockedByAlone(h) ==
  LET r == requests[h] IN
  /\ At(h, "isBlockedBy")
  /\ \E yes \in BOOLEAN :
       /\ Answers(h, Related(blocks, r.to, r.from), yes)
       /\ \/ r.call = "unblockUser" /\ yes  /\ Goto(h, "deleteBlocked")
          \/ r.call # "unblockUser" /\ ~yes /\ Goto(h, AfterBlockCheck[r.call])
          \/ (yes <=> r.call # "unblockUser") /\ Return(h)
  /\ UNCHANGED <<graph, notified, begun>>

\* checkIfUserBlocked, second query: has the other user blocked me?
CheckIfBlockedBy(h) ==
  LET r == requests[h] IN
  /\ At(h, "isBlockedBy")
  /\ \E yes \in BOOLEAN :
       /\ Answers(h, Related(blocks, r.to, r.from), yes)
       /\ \/ r.call = "unblockUser" /\ (r.seen \/ yes)  /\ Goto(h, "deleteBlocked")
          \/ r.call = "unblockUser" /\ ~(r.seen \/ yes) /\ Return(h)
          \/ r.call # "unblockUser" /\ (r.seen \/ yes)  /\ Return(h)
          \/ r.call # "unblockUser" /\ ~(r.seen \/ yes) /\ Goto(h, AfterBlockCheck[r.call])
  /\ UNCHANGED <<graph, notified, begun>>

-----------------------------------------------------------------------------
(* Changes *)

\* CREATE matches both nodes first: without them it creates nothing, and
\* does not fail.
AddFollowing(a, b) ==
  \/ /\ {a, b} \subseteq nodes
     /\ \E i \in EdgeIds :
          /\ [from |-> a, to |-> b, id |-> i] \notin follows
          /\ follows' = follows \cup {[from |-> a, to |-> b, id |-> i]}
     /\ following_number' = [following_number EXCEPT ![a] = @ + 1]
     /\ followers_number' = [followers_number EXCEPT ![b] = @ + 1]
     /\ UNCHANGED <<nodes, blocks>>
  \/ ~({a, b} \subseteq nodes) /\ UNCHANGED graph

\* Faulty: the decrement does not depend on a relationship found.
RemoveFollowingUnmatched(a, b) ==
  /\ follows' = follows \ Parallel(follows, a, b)
  /\ following_number' = [following_number EXCEPT ![a] = @ - 1]
  /\ followers_number' = [followers_number EXCEPT ![b] = @ - 1]
  /\ UNCHANGED <<nodes, blocks>>

\* Faulty: parallel relationships go with one decrement.
RemoveFollowingOnce(a, b) ==
  LET one == IF Related(follows, a, b) THEN 1 ELSE 0 IN
  /\ follows' = follows \ Parallel(follows, a, b)
  /\ following_number' = [following_number EXCEPT ![a] = @ - one]
  /\ followers_number' = [followers_number EXCEPT ![b] = @ - one]
  /\ UNCHANGED <<nodes, blocks>>

\* One row per parallel relationship: each is deleted, and each decrements.
RemoveFollowing(a, b) ==
  LET rows == Cardinality(Parallel(follows, a, b)) IN
  /\ follows' = follows \ Parallel(follows, a, b)
  /\ following_number' = [following_number EXCEPT ![a] = @ - rows]
  /\ followers_number' = [followers_number EXCEPT ![b] = @ - rows]
  /\ UNCHANGED <<nodes, blocks>>

AddBlocked(a, b) ==
  \/ /\ {a, b} \subseteq nodes
     /\ \E i \in EdgeIds :
          /\ [from |-> a, to |-> b, id |-> i] \notin blocks
          /\ blocks' = blocks \cup {[from |-> a, to |-> b, id |-> i]}
     /\ UNCHANGED <<nodes, follows, following_number, followers_number>>
  \/ ~({a, b} \subseteq nodes) /\ UNCHANGED graph

RemoveBlocked(a, b) ==
  /\ blocks' = blocks \ Parallel(blocks, a, b)
  /\ UNCHANGED <<nodes, follows, following_number, followers_number>>

\* The three outcomes of a query that writes: done; done, but the answer is
\* lost and the service reports a failure; not done.
CreateFollowing(h) ==
  LET r == requests[h] IN
  /\ At(h, "createFollowing")
  /\ \/ AddFollowing(r.from, r.to) /\ Goto(h, "notify") /\ UNCHANGED <<faults, tainted>>
     \/ AddFollowing(r.from, r.to) /\ Return(h) /\ Fault /\ UNCHANGED tainted
     \/ UNCHANGED graph /\ Return(h) /\ Fault /\ UNCHANGED tainted
  /\ UNCHANGED <<notified, begun>>

\* getUser of the caller for its name, then create_notification to the other.
Notify(h) ==
  LET r == requests[h] IN
  /\ At(h, "notify")
  /\ \/ /\ r.from \in nodes
        /\ notified' = notified \cup {<<r.from, r.to>>}
        /\ UNCHANGED faults
     \/ r.from \notin nodes /\ UNCHANGED <<notified, faults>>
     \/ Fault /\ UNCHANGED notified
  /\ Return(h)
  /\ UNCHANGED <<graph, begun, tainted>>

\* Faulty: removeFollower does not swap the users.
DeleteFollowingUnswapped(h) ==
  LET r == requests[h] IN
  /\ At(h, "deleteFollowing")
  /\ Return(h)
  /\ \/ RemoveFollowing(r.from, r.to) /\ UNCHANGED <<faults, tainted>>
     \/ RemoveFollowing(r.from, r.to) /\ Fault /\ UNCHANGED tainted
     \/ UNCHANGED graph /\ FaultTaints(h)
  /\ UNCHANGED <<notified, begun>>

\* unfollowingUser deletes my relationship, removeFollower the other user's.
DeleteFollowing(h) ==
  LET r == requests[h]
      Remove == IF r.call = "unfollowingUser" THEN RemoveFollowing(r.from, r.to)
                                              ELSE RemoveFollowing(r.to, r.from)
  IN
  /\ At(h, "deleteFollowing")
  /\ Return(h)
  /\ \/ Remove /\ UNCHANGED <<faults, tainted>>
     \/ Remove /\ Fault /\ UNCHANGED tainted
     \/ UNCHANGED graph /\ FaultTaints(h)
  /\ UNCHANGED <<notified, begun>>

CreateBlocked(h) ==
  LET r == requests[h] IN
  /\ At(h, "createBlocked")
  /\ Return(h)
  /\ \/ AddBlocked(r.from, r.to) /\ UNCHANGED faults
     \/ AddBlocked(r.from, r.to) /\ Fault
     \/ UNCHANGED graph /\ Fault
  /\ UNCHANGED <<notified, begun, tainted>>

DeleteBlocked(h) ==
  LET r == requests[h] IN
  /\ At(h, "deleteBlocked")
  /\ Return(h)
  /\ \/ RemoveBlocked(r.from, r.to) /\ UNCHANGED faults
     \/ RemoveBlocked(r.from, r.to) /\ Fault
     \/ UNCHANGED graph /\ Fault
  /\ UNCHANGED <<notified, begun, tainted>>

HandlerStep(h) ==
  \/ UserExists(h)
  \/ CheckIfUserFollowing(h)
  \/ CheckIfUserFollower(h)
  \/ CheckIfBlocked(h)
  \/ CheckIfBlockedBy(h)
  \/ CreateFollowing(h)
  \/ Notify(h)
  \/ DeleteFollowing(h)
  \/ CreateBlocked(h)
  \/ DeleteBlocked(h)
  \/ Crash(h)

Next ==
  \/ \E u \in Users : SyncUser(u)
  \/ \E h \in Handlers, op \in Operations, a, b \in Users : BeginRequest(h, op, a, b)
  \/ \E h \in Handlers : HandlerStep(h)

Spec == Init /\ [][Next]_vars

-----------------------------------------------------------------------------
(* Properties *)

Following(u) == {e \in follows : e.from = u}
Followers(u) == {e \in follows : e.to = u}

\* The counters a profile shows are the numbers of relationships in the graph,
\* whatever interleaves or fails, and also when concurrent follows have left
\* parallel relationships (SET in createUserToUserFollowingRelationship and
\* deleteUserToUserFollowingRelationship).
CountersMatchEdges ==
  \A u \in Users :
    /\ following_number[u] = Cardinality(Following(u))
    /\ followers_number[u] = Cardinality(Followers(u))

\* Users who never had two requests about each other in flight at once, and
\* no failed query, are never both blocked and following (blockUser removes
\* both directions first, followingUser checks both directions).
BlockExcludesFollow ==
  \A a, b \in Users :
    {a, b} \notin tainted /\ Related(blocks, a, b) =>
      ~Related(follows, a, b) /\ ~Related(follows, b, a)

\* For such a pair there is one relationship of a kind at most, and a block in
\* one direction only.
NoParallelEdges ==
  \A a, b \in Users :
    {a, b} \notin tainted =>
      /\ \A e, f \in Parallel(follows, a, b) : e = f
      /\ \A e, f \in Parallel(blocks, a, b) : e = f
      /\ a # b /\ Related(blocks, a, b) => ~Related(blocks, b, a)

\* What a request has passed: checkIfUserBlocked, and a check that the caller
\* does not follow the other user (or the removal of the relationship).
PastBlockCheck(r) ==
  \/ r.at = "createFollowing"
  \/ r.op = "blockUser" /\ r.call # "blockUser"
  \/ r.call = "blockUser" /\ r.at \in {"userExists", "isFollowing", "isFollower", "createBlocked"}

PastFollowingCheck(r) ==
  \/ r.call = "followingUser" /\ r.at \in {"isBlocked", "isBlockedBy", "createFollowing"}
  \/ r.op = "blockUser" /\ r.call = "removeFollower"
  \/ r.call = "blockUser" /\ r.at \in {"isFollower", "createBlocked"}

\* What a request read is still so.
Fresh(r) ==
  /\ r.at = "isBlockedBy" => (r.seen <=> Related(blocks, r.from, r.to))
  /\ PastBlockCheck(r) => ~Related(blocks, r.from, r.to) /\ ~Related(blocks, r.to, r.from)
  /\ PastFollowingCheck(r) => ~Related(follows, r.from, r.to)
  /\ r.at = "createBlocked" => ~Related(follows, r.to, r.from)

\* What a request read at one of its queries still holds at its later ones, for
\* a request that was never in flight with another about the same two users:
\* blockUser and followingUser act on answers several awaits old.
ChecksStillHold ==
  \A h \in Handlers :
    Busy(h) /\ Pair(requests[h]) \notin tainted => Fresh(requests[h])

\* The relations without the tainted pairs; parallel relationships are one.
Untainted(edges) == {e \in edges : {e.from, e.to} \notin tainted}
Relation(edges) == {<<e.from, e.to>> : e \in Untainted(edges)}

\* On the pairs that are not tainted the sequences of queries act like the
\* atomic operations of Relationships: followingUser, unfollowingUser,
\* removeFollower, blockUser and unblockUser each take effect at one query.
Abstract == INSTANCE Relationships WITH
  following <- Relation(follows), blocked <- Relation(blocks), spoiled <- tainted

RefinesRelationships == Abstract!Spec

=============================================================================
