------------------------------ MODULE Listings ------------------------------
(***************************************************************************)
(* The lists that the relationship service (apps/relationship) gives to a  *)
(* user page by page: who is followed, who follows, both searched by name, *)
(* and two kinds of suggestions.  A client asks for page after page until  *)
(* one is said to be the last; in the meantime the graph changes.          *)
(*                                                                         *)
(* A page is what Neo4j finds at an offset, at the moment.  Suggestions    *)
(* are counted in a query of their own, which decides what page is the     *)
(* last, and go through a set in Redis of users already suggested.         *)
(*                                                                         *)
(* Suggestions by interest are ordered, by how many interests are shared   *)
(* and by name, and both change.  The other queries leave rows unordered:  *)
(* Neo4j is taken to have an order of its own, and to keep it.             *)
(***************************************************************************)
EXTENDS Integers, FiniteSets

CONSTANTS
  Members,     \* the users, of whom one reads
  Me,          \* the one who reads
  Readings,    \* Me reading a list to its end, on some device
  None,        \* a reading that has not begun
  Order,       \* where each user is in Neo4j's order
  Names,       \* the users' names, in the order of names
  Matching,    \* those that a search finds
  Topics,      \* what a user can be interested in
  Graphs,      \* who follows whom, at first
  Profiles,    \* the users' names and interests, at first
  Limit,       \* users per page
  MaxChanges,  \* bound: follows, unfollows, new interests and new names
  MaxFailures  \* bound: failed queries and lost answers

Plain == {"following", "followers", "searchFollowing", "searchFollowers"}
Suggesting == {"suggestions", "interests"}
Lists == Plain \cup Suggesting

MaxPage == 2 * Cardinality(Members)

\* A user's node, as far as lists read it.
User == [name : Names, interests : SUBSET Topics]

Stages == {"idle", "clear", "count", "page", "seen", "mergeGet", "mergeSet", "filter", "forget"}

\* Of a reading: rows, total, last, known are the request's; got, and the rest, the
\* client's; stable: whom the list had from the beginning of the reading until now;
\* with: readings of the same suggestions at the same time.
Reading ==
  [list : Lists, at : Stages, page : 0..MaxPage, rows : SUBSET Members, total : Nat,
   last : BOOLEAN, known : SUBSET Members, got : SUBSET Members, ended : BOOLEAN,
   stable : SUBSET Members, with : SUBSET Readings,
   met : SUBSET {"moved", "short", "failed", "expired", "repeated"}]

ASSUME ListingsAssumption ==
  /\ Me \in Members
  /\ IsFiniteSet(Members)
  /\ Order \in [Members -> Nat]
  /\ \A u, v \in Members : Order[u] = Order[v] => u = v
  /\ Names \subseteq Nat
  /\ IsFiniteSet(Topics)
  /\ Graphs \subseteq SUBSET (Members \X Members)
  /\ Profiles \subseteq [Members -> User]
  /\ None \notin Reading
  /\ Limit \in Nat \ {0}
  /\ {MaxChanges, MaxFailures} \subseteq Nat

VARIABLES
  following,   \* Neo4j: pairs of follower and followed
  users,       \* Neo4j: the nodes of the users
  shown,       \* Redis: of the suggestions, the users suggested of late
  readings,    \* the readings
  changes,     \* changes so far
  failures     \* failures so far

lvars == <<following, users, shown, readings, changes, failures>>
relations == <<following, users, changes>>

LTypeOK ==
  /\ following \subseteq Members \X Members
  /\ users \in [Members -> User]
  /\ shown \in [Suggesting -> SUBSET Members]
  /\ readings \in [Readings -> Reading \cup {None}]
  /\ changes \in 0..MaxChanges
  /\ failures \in 0..MaxFailures

-----------------------------------------------------------------------------
(* The queries *)

Outgoing(u, g) == {v \in Members : <<u, v>> \in g}
Incoming(u, g) == {v \in Members : <<v, u>> \in g}

\* Whom Me follows follows them, or is followed by them, and Me does not.
FriendsOfFriends(g) ==
  (UNION {Outgoing(f, g) : f \in Outgoing(Me, g)}) \ (Outgoing(Me, g) \cup {Me})
LikeMinded(g) ==
  (UNION {Incoming(f, g) : f \in Outgoing(Me, g)}) \ (Outgoing(Me, g) \cup {Me})

Shared(u, i) == i[u].interests \cap i[Me].interests
Sharing(i) == {u \in Members \ {Me} : Shared(u, i) # {}}

\* getPaginatedSuggestions matches one kind after the other: it finds no row at all
\* unless both kinds match.
BothKinds(g) == FriendsOfFriends(g) # {} /\ LikeMinded(g) # {}

\* Suggestions come in two tiers; whoever is in both is two rows.
First(l, g, i) ==
  CASE l = "following" -> Outgoing(Me, g)
    [] l = "followers" -> Incoming(Me, g)
    [] l = "searchFollowing" -> {u \in Outgoing(Me, g) : i[u].name \in Matching}
    [] l = "searchFollowers" -> IF i[Me].name \in Matching THEN Incoming(Me, g) ELSE {}
    [] l = "suggestions" -> IF BothKinds(g) THEN FriendsOfFriends(g) ELSE {}

Second(l, g) == IF l = "suggestions" /\ BothKinds(g) THEN LikeMinded(g) ELSE {}

\* Faulty: the relationship of the one who is followed.
ReturnedFollow(l, u) == IF l = "searchFollowers" THEN <<u, Me>> ELSE u

\* searchFollowers returns the one who is followed.
Returned(l, u) == IF l = "searchFollowers" THEN Me ELSE u

\* How many interests of Me's the user lacks: ORDER BY shared_interests_count DESC.
Lacking(u, i) == Cardinality(i[Me].interests \ i[u].interests)

\* A row is what it is ordered by, and its user.
Rows(l, g, i) ==
  IF l = "interests" THEN {<<Lacking(u, i), i[u].name, u>> : u \in Sharing(i)}
  ELSE ({1} \X {0} \X First(l, g, i)) \cup ({2} \X {0} \X Second(l, g))

Results(l, rows) == {Returned(l, r[3]) : r \in rows}

\* ORDER BY, and Neo4j's own order among equals.
Earlier(q, r) ==
  \/ q[1] < r[1]
  \/ q[1] = r[1] /\ q[2] < r[2]
  \/ q[1] = r[1] /\ q[2] = r[2] /\ Order[q[3]] < Order[r[3]]

\* How many rows are before r.
Offset(r, rows) == Cardinality({q \in rows : Earlier(q, r)})

\* SKIP and LIMIT.
Page(l, p) ==
  LET rows == Rows(l, following, users) IN
  {r \in rows : Offset(r, rows) \in p * Limit .. (p + 1) * Limit - 1}

\* getSuggestionsTotalCount counts users, and matches like-minded ones who are not
\* friends of friends: without any, it finds no row.  The total of interests leaves out
\* who FOLLOWS Me: nobody does, the relationship is FOLLOWING.
Total(l) ==
  IF l = "interests" THEN Cardinality(Sharing(users))
  ELSE LET primary == FriendsOfFriends(following)
           secondary == LikeMinded(following) \ primary
       IN IF primary = {} \/ secondary = {} THEN 0 ELSE Cardinality(primary \cup secondary)

\* Faulty: the page after is the last.
IsLastEarly(r, page) ==
  IF r.list \in Suggesting THEN (r.page + 2) * Limit >= r.total ELSE Cardinality(page) < Limit

IsLast(r, page) ==
  IF r.list \in Suggesting THEN (r.page + 1) * Limit >= r.total ELSE Cardinality(page) < Limit

-----------------------------------------------------------------------------
(* Readings *)

LInit ==
  /\ following \in Graphs
  /\ users \in Profiles
  /\ shown = [l \in Suggesting |-> {}]
  /\ readings = [d \in Readings |-> None]
  /\ changes = 0
  /\ failures = 0

\* Whom a list shows: those whom Me follows are left out of interests at the end.
Shown(l, g, i) ==
  LET found == Results(l, Rows(l, g, i)) IN
  IF l = "interests" THEN found \ Outgoing(Me, g) ELSE found

Begun(d) == readings[d] # None
Reads(d, l) == Begun(d) /\ readings[d].list = l
Awaits(d, q) == Begun(d) /\ readings[d].at = q
Turns(d, r) == readings' = [readings EXCEPT ![d] = r]
MoveTo(d, q) == Turns(d, [readings[d] EXCEPT !.at = q])

NoFailure == UNCHANGED failures
Failure == failures < MaxFailures /\ failures' = failures + 1
Failed(r) == [r EXCEPT !.met = @ \cup {"failed"}]

Begin(d, l) ==
  LET others == {e \in Readings : l \in Suggesting /\ Reads(e, l) /\ ~readings[e].ended} IN
  /\ ~Begun(d)
  /\ readings' = [e \in Readings |->
       CASE e = d -> [list |-> l, at |-> "idle", page |-> 0, rows |-> {}, total |-> 0,
                      last |-> FALSE, known |-> {}, got |-> {}, ended |-> FALSE,
                      stable |-> Shown(l, following, users), with |-> others,
                      met |-> IF l = "interests" /\ failures > 0 THEN {"failed"} ELSE {}]
         [] e \in others -> [readings[e] EXCEPT !.with = @ \cup {d}]
         [] OTHER -> readings[e]]
  /\ UNCHANGED <<shown, relations, failures>>

\* The client asks for its next page.
Ask(d) ==
  LET r == readings[d] IN
  /\ Awaits(d, "idle") /\ ~r.ended
  /\ MoveTo(d, IF r.list = "suggestions" /\ r.page = 0 THEN "clear"
               ELSE IF r.list \in Suggesting THEN "count" ELSE "page")
  /\ UNCHANGED <<shown, relations, failures>>

\* An answer that is an error, or is lost: the client may ask again.
GivesUp(d) == Failure /\ Turns(d, Failed([readings[d] EXCEPT !.at = "idle"]))

Clear(d) ==
  /\ Awaits(d, "clear")
  /\ \/ MoveTo(d, "count") /\ shown' = [shown EXCEPT !["suggestions"] = {}] /\ NoFailure
     \/ GivesUp(d) /\ UNCHANGED shown
  /\ UNCHANGED relations

\* getFriendsSuggestions and getUsersWithSameInterests count first.  When the count, or
\* Me's interests, cannot be read, there is nothing to suggest; when the count of those
\* who share them cannot, it is an error.
Count(d) ==
  LET r == readings[d]
      Counted(n) == [r EXCEPT !.total = n, !.at = IF n = 0 THEN "seen" ELSE "page",
                              !.rows = {}, !.last = n = 0]
      total == Total(r.list)
      few == total < Cardinality(Rows(r.list, following, users))
  IN
  /\ Awaits(d, "count")
  /\ \/ NoFailure /\ Turns(d, IF few THEN [Counted(total) EXCEPT !.met = @ \cup {"short"}]
                              ELSE Counted(total))
     \/ Failure /\ Turns(d, Failed(Counted(0)))
     \/ r.list = "interests" /\ GivesUp(d)
  /\ UNCHANGED <<shown, relations>>

\* A query that fails finds nothing; that of interests is an error.
ReadPage(d) ==
  LET r == readings[d]
      Read(page) == [r EXCEPT !.rows = Results(r.list, page), !.last = IsLast(r, page),
                              !.at = IF r.list \in Suggesting THEN "seen" ELSE "filter"]
  IN
  /\ Awaits(d, "page")
  /\ \/ Turns(d, Read(Page(r.list, r.page))) /\ NoFailure
     \/ r.list # "interests" /\ Turns(d, Failed(Read({}))) /\ Failure
     \/ r.list = "interests" /\ GivesUp(d)
  /\ UNCHANGED <<shown, relations>>

\* getCachedSuggestionUserIds; a failure is an empty set.
Cached(d, known) ==
  \/ known = shown[readings[d].list] /\ NoFailure
  \/ known = {} /\ Failure

Noted(d, r) == IF failures' # failures THEN Turns(d, Failed(r)) ELSE Turns(d, r)

\* Faulty: whoever is on the page stays.
SeenAll(d) ==
  LET r == readings[d] IN
  /\ Awaits(d, "seen")
  /\ Turns(d, [r EXCEPT !.at = IF r.rows = {} THEN "filter" ELSE "mergeGet"])
  /\ NoFailure
  /\ UNCHANGED <<shown, relations>>

\* Step 2 and 3: users who were suggested before are left out.
Seen(d) ==
  LET r == readings[d] IN
  /\ Awaits(d, "seen")
  /\ \E known \in SUBSET Members :
       /\ Cached(d, known)
       /\ Noted(d, [r EXCEPT !.rows = @ \ known,
                             !.at = IF r.rows \subseteq known THEN "filter" ELSE "mergeGet"])
  /\ UNCHANGED <<shown, relations>>

\* updateCachedSuggestionUserIds reads the set again, and writes it whole.
MergeGet(d) ==
  /\ Awaits(d, "mergeGet")
  /\ \E known \in SUBSET Members :
       Cached(d, known) /\ Noted(d, [readings[d] EXCEPT !.known = known, !.at = "mergeSet"])
  /\ UNCHANGED <<shown, relations>>

MergeSet(d) ==
  LET r == readings[d] IN
  /\ Awaits(d, "mergeSet")
  /\ \/ NoFailure /\ shown' = [shown EXCEPT ![r.list] = r.known \cup r.rows]
     \/ Failure /\ UNCHANGED shown
  /\ Noted(d, [r EXCEPT !.known = {}, !.at = "filter"])
  /\ UNCHANGED relations

\* The answer reaches the client.  A search that finds nothing says so.
Answered(d, r) ==
  /\ NoFailure
  /\ Turns(d, [r EXCEPT !.at = "idle", !.rows = {}, !.total = 0, !.last = FALSE,
       !.got = @ \cup r.rows, !.ended = r.last, !.page = @ + 1,
       !.met = @ \cup (IF r.rows \cap r.got # {} THEN {"repeated"} ELSE {})])

\* filterUsers looks up how Me is related to each one, and filterFollowingUsers leaves
\* out those whom Me follows; a failure of the latter leaves one in.
Filter(d) ==
  LET r == readings[d] IN
  /\ Awaits(d, "filter")
  /\ IF r.list = "interests"
     THEN \/ /\ Turns(d, [r EXCEPT !.at = "forget", !.rows = @ \ Outgoing(Me, following)])
             /\ NoFailure
          \/ Turns(d, Failed([r EXCEPT !.at = "forget"])) /\ Failure
     ELSE Answered(d, r) \/ GivesUp(d)
  /\ UNCHANGED <<shown, relations>>

\* interestSuggestUser forgets whom it has suggested as it answers.
Forget(d) ==
  /\ Awaits(d, "forget")
  /\ \/ Answered(d, readings[d]) /\ shown' = [shown EXCEPT !["interests"] = {}]
     \/ GivesUp(d) /\ shown' \in {shown, [shown EXCEPT !["interests"] = {}]}
  /\ UNCHANGED relations

\* The set is kept for minutes.
Expire(l) ==
  /\ shown[l] # {}
  /\ shown' = [shown EXCEPT ![l] = {}]
  /\ readings' = [d \in Readings |->
       IF Reads(d, l) THEN [readings[d] EXCEPT !.met = @ \cup {"expired"}] ELSE readings[d]]
  /\ UNCHANGED <<relations, failures>>

-----------------------------------------------------------------------------
(* Changes *)

\* What a change is to the readings: some move when a row before theirs goes, or is
\* ordered otherwise, or comes between a count and its page.
Changed(g, i) ==
  /\ changes < MaxChanges
  /\ changes' = changes + 1
  /\ following' = g
  /\ users' = i
  /\ readings' = [d \in Readings |->
       LET r == readings[d]
           old == Rows(r.list, following, users)
           new == Rows(r.list, g, i)
           gone == ~(old \subseteq new)
           between == r.list \in Suggesting /\ r.at = "page" /\ Cardinality(new) > Cardinality(old)
       IN IF ~Begun(d) \/ r.ended THEN r
          ELSE [r EXCEPT !.stable = @ \cap Shown(r.list, g, i),
                         !.met = IF gone \/ between THEN @ \cup {"moved"} ELSE @]]
  /\ UNCHANGED <<shown, failures>>

Follow(u, v) ==
  /\ u # v /\ <<u, v>> \notin following
  /\ Changed(following \cup {<<u, v>>}, users)

Unfollow(u, v) ==
  /\ <<u, v>> \in following
  /\ Changed(following \ {<<u, v>>}, users)

\* createUserInterests, one after the other: an interest that is there is left alone.
CreateUserInterests(u, t) ==
  /\ t \notin users[u].interests
  /\ Changed(following, [users EXCEPT ![u].interests = @ \cup {t}])

\* neo4jdb-sync brings a new name.
Rename(u, n) ==
  /\ n # users[u].name
  /\ Changed(following, [users EXCEPT ![u].name = n])

LNext ==
  \/ \E d \in Readings :
       \/ \E l \in Lists : Begin(d, l)
       \/ Ask(d) \/ Clear(d) \/ Count(d) \/ ReadPage(d) \/ Seen(d)
       \/ MergeGet(d) \/ MergeSet(d) \/ Filter(d) \/ Forget(d)
  \/ \E l \in Suggesting : Expire(l)
  \/ \E u, v \in Members : Follow(u, v) \/ Unfollow(u, v)
  \/ \E u \in Members : (\E t \in Topics : CreateUserInterests(u, t)) \/ \E n \in Names : Rename(u, n)

LSpec == LInit /\ [][LNext]_lvars

-----------------------------------------------------------------------------
(* Properties *)

Undisturbed(d) == readings[d].met \cap {"moved", "short", "failed"} = {}

\* A client that has asked until the last page has seen everyone who was on the list all
\* along, whoever was added in the meantime, and whatever was read before; of readings of
\* suggestions at the same time, one at least has.  At the same time goes from reading to
\* reading: one may write back to Redis whom another had shown before a third dropped
\* them.  Not when a query failed, a row went or moved (one more shared interest or a new
\* name puts it before others, and pages are cut at other rows), or a total was less than
\* the rows.
Complete ==
  \A E \in (SUBSET Readings) \ {{}} :
    (\A e \in E : /\ Begun(e) /\ readings[e].ended
                  /\ Undisturbed(e)
                  /\ readings[e].with \subseteq E) =>
      \A u \in Members :
        (\A e \in E : u \in readings[e].stable) => \E e \in E : u \in readings[e].got

\* Suggestions do not come twice on different pages of one reading, whatever changes,
\* as long as Redis keeps the set and no other reading writes it.
PagesDisjoint ==
  \A d \in Readings :
    /\ Reads(d, "suggestions")
    /\ readings[d].with = {}
    /\ readings[d].met \cap {"failed", "expired"} = {}
    => "repeated" \notin readings[d].met

=============================================================================
