------------------------------ MODULE UserSync ------------------------------
(***************************************************************************)
(* One user's document in MongoDB and its node in Neo4j: registration      *)
(* (apps/auth) and changes of the document (apps/user) send messages, the  *)
(* gateway (apps/api-gateway) compares the two whenever the profile is     *)
(* viewed and sends what is missing, and apps/neo4jdb-sync applies the     *)
(* messages.                                                               *)
(*                                                                         *)
(* The queue is acknowledged on delivery, its consumer takes the next      *)
(* message while it awaits Neo4j for this one, and an error of a message   *)
(* is logged and dropped.  What mends the node is the next view.           *)
(***************************************************************************)
EXTENDS Integers, Sequences, FiniteSets

CONSTANTS
  Clients,    \* requests about this user served at the same time
  Workers,    \* messages handled at the same time
  NodeIds,    \* identities of Neo4j nodes
  None,       \* no document, no node, no request, no message
  MaxEdits,   \* bound: changes of the document
  MaxQueue,   \* bound: messages in the queue
  MaxFaults   \* bound: failed queries, killed instances, broker restarts

\* "profile" stands for display_name and avatar_ipfs_hash.  A change of the
\* username reads the document again before it sends it, the others do not; a
\* change of the role is the request of an admin.
Fields == {"username", "profile", "role"}

\* A value is the number of the change that made it, 0 at the registration.
Data == [Fields -> 0..MaxEdits]

Kinds == {"create", "update"}
Message == [kind : Kinds, data : Data]

Operations == {"register", "edit", "view"}

\* copy: the document as the request has it in hand; kind: what it will send.
Request ==
  [op : Operations, at : {"save", "reread", "readUser", "setCache", "getNode", "emit", "invalidate"},
   field : Fields, kind : Kinds, copy : Data \cup {None}]

Job == [kind : Kinds, data : Data, at : {"find", "findAgain", "create", "update"}]

ASSUME UserSyncAssumption ==
  /\ None \notin Data \cup Request \cup Job
  /\ IsFiniteSet(NodeIds)
  /\ MaxEdits \in Nat
  /\ MaxQueue \in Nat
  /\ MaxFaults \in Nat

VARIABLES
  doc,        \* the user's document in MongoDB
  cache,      \* the gateway's copy in Redis, for five minutes
  nodes,      \* the User nodes with this user_id
  queue,      \* neo4j_sync_queue
  requests,   \* what each client is served
  jobs,       \* the message each worker handles
  edits,      \* changes begun so far
  faults,     \* faults so far
  raced       \* history: requests or messages have met in a harmful order,
              \* or something has failed

vars == <<doc, cache, nodes, queue, requests, jobs, edits, faults, raced>>

TypeOK ==
  /\ doc \in Data \cup {None}
  /\ cache \in Data \cup {None}
  /\ nodes \in [NodeIds -> Data \cup {None}]
  /\ queue \in Seq(Message)
  /\ Len(queue) <= MaxQueue
  /\ requests \in [Clients -> Request \cup {None}]
  /\ jobs \in [Workers -> Job \cup {None}]
  /\ edits \in 0..MaxEdits
  /\ faults \in 0..MaxFaults
  /\ raced \in BOOLEAN

Existing == {n \in NodeIds : nodes[n] # None}
Registered == doc # None

Busy(c) == requests[c] # None
At(c, q) == Busy(c) /\ requests[c].at = q
Becomes(c, r) == requests' = [requests EXCEPT ![c] = r]
Goto(c, q) == Becomes(c, [requests[c] EXCEPT !.at = q])
Return(c) == Becomes(c, None)

Working(w) == jobs[w] # None
Does(w, q) == Working(w) /\ jobs[w].at = q
JobBecomes(w, j) == jobs' = [jobs EXCEPT ![w] = j]
JobGoto(w, q) == JobBecomes(w, [jobs[w] EXCEPT !.at = q])
Done(w) == JobBecomes(w, None)

Fault == faults < MaxFaults /\ faults' = faults + 1 /\ raced' = TRUE
NoFault == UNCHANGED <<faults, raced>>

Editing(c) == Busy(c) /\ requests[c].op = "edit"
\* Another change of the document is in flight.
Overlaps(c) == \E d \in Clients \ {c} : Editing(d)

-----------------------------------------------------------------------------
(* Registration and changes *)

Init ==
  /\ doc = None
  /\ cache = None
  /\ nodes = [n \in NodeIds |-> None]
  /\ queue = <<>>
  /\ requests = [c \in Clients |-> None]
  /\ jobs = [w \in Workers |-> None]
  /\ edits = 0
  /\ faults = 0
  /\ raced = FALSE

\* The user service creates the document; the auth service sends it.
Register(c) ==
  LET new == [f \in Fields |-> 0] IN
  /\ ~Busy(c)
  /\ ~Registered
  /\ doc' = new
  /\ Becomes(c, [op |-> "register", at |-> "emit", field |-> "profile",
                 kind |-> "create", copy |-> new])
  /\ UNCHANGED <<cache, nodes, queue, jobs, edits, faults, raced>>

\* findById, and the change made to the copy.
BeginEdit(c, f) ==
  /\ ~Busy(c)
  /\ Registered
  /\ edits < MaxEdits
  /\ edits' = edits + 1
  /\ Becomes(c, [op |-> "edit", at |-> "save", field |-> f,
                 kind |-> "update", copy |-> [doc EXCEPT ![f] = edits + 1]])
  /\ raced' = (raced \/ Overlaps(c))
  /\ UNCHANGED <<doc, cache, nodes, queue, jobs, faults>>

\* save, or findByIdAndUpdate: only the changed field is written.
Save(c) ==
  LET r == requests[c] IN
  /\ At(c, "save")
  /\ \/ /\ doc' = [doc EXCEPT ![r.field] = r.copy[r.field]]
        /\ \/ r.field = "username" /\ Goto(c, "reread")
           \/ r.field # "username" /\ Goto(c, "emit")
        /\ NoFault
     \/ UNCHANGED doc /\ Return(c) /\ Fault
  /\ UNCHANGED <<cache, nodes, queue, jobs, edits>>

\* Faulty: the message carries the user read before the change.
RereadOld(c) ==
  LET r == requests[c] IN
  /\ At(c, "reread")
  /\ Becomes(c, [r EXCEPT !.at = "emit", !.copy = [doc EXCEPT !["username"] = 0]])
  /\ NoFault
  /\ UNCHANGED <<doc, cache, nodes, queue, jobs, edits>>

Reread(c) ==
  /\ At(c, "reread")
  /\ \/ Becomes(c, [requests[c] EXCEPT !.at = "emit", !.copy = doc]) /\ NoFault
     \/ Return(c) /\ Fault
  /\ UNCHANGED <<doc, cache, nodes, queue, jobs, edits>>

\* A view may send what MongoDB no longer has.
Sent(r, message) ==
  /\ Len(queue) < MaxQueue
  /\ queue' = Append(queue, message)
  /\ raced' = (raced \/ (r.op = "view" /\ r.copy # doc))
  /\ UNCHANGED faults

\* The gateway deletes from its cache the user who asked, who is not the user
\* changed when an admin changes a role.
AfterEmit(c) ==
  LET r == requests[c] IN
  \/ r.op = "edit" /\ Goto(c, "invalidate")
  \/ (r.op # "edit" \/ r.field = "role") /\ Return(c)

\* When sending fails after a change the gateway gets an error, and leaves its
\* cache alone.
EmitFails(c) == UNCHANGED queue /\ Return(c) /\ Fault

\* Faulty: the pattern of the message is named after the request.
EmitOperation(c) ==
  /\ At(c, "emit")
  /\ \/ Sent(requests[c], [kind |-> requests[c].op, data |-> requests[c].copy]) /\ AfterEmit(c)
     \/ EmitFails(c)
  /\ UNCHANGED <<doc, cache, nodes, jobs, edits>>

\* Faulty: a change of the document leaves the cache alone.
EmitAndReturn(c) ==
  /\ At(c, "emit")
  /\ \/ Sent(requests[c], [kind |-> requests[c].kind, data |-> requests[c].copy]) /\ Return(c)
     \/ EmitFails(c)
  /\ UNCHANGED <<doc, cache, nodes, jobs, edits>>

Emit(c) ==
  /\ At(c, "emit")
  /\ \/ Sent(requests[c], [kind |-> requests[c].kind, data |-> requests[c].copy]) /\ AfterEmit(c)
     \/ EmitFails(c)
  /\ UNCHANGED <<doc, cache, nodes, jobs, edits>>

\* userChangedData; a failure is logged and dropped.
Invalidate(c) ==
  /\ At(c, "invalidate")
  /\ \/ cache' = None /\ NoFault
     \/ UNCHANGED cache /\ Fault
  /\ Return(c)
  /\ UNCHANGED <<doc, nodes, queue, jobs, edits>>

-----------------------------------------------------------------------------
(* Views of the profile *)

View(c, at, copy) ==
  Becomes(c, [op |-> "view", at |-> at, field |-> "profile", kind |-> "update", copy |-> copy])

\* getUserProfile looks into the cache first.
GetUserProfile(c) ==
  /\ ~Busy(c)
  /\ Registered
  /\ \/ cache # None /\ View(c, "getNode", cache)
     \/ cache = None /\ View(c, "readUser", None)
  /\ UNCHANGED <<doc, cache, nodes, queue, jobs, edits, faults, raced>>

\* getMyProfile reads the document.
GetMyProfile(c) ==
  /\ ~Busy(c)
  /\ Registered
  /\ View(c, "getNode", doc)
  /\ UNCHANGED <<doc, cache, nodes, queue, jobs, edits, faults, raced>>

ReadUser(c) ==
  /\ At(c, "readUser")
  /\ \/ Becomes(c, [requests[c] EXCEPT !.at = "setCache", !.copy = doc]) /\ NoFault
     \/ Return(c) /\ Fault
  /\ UNCHANGED <<doc, cache, nodes, queue, jobs, edits>>

\* userData; a failure is logged and dropped.
SetCache(c) ==
  /\ At(c, "setCache")
  /\ \/ /\ cache' = requests[c].copy
        /\ raced' = (raced \/ requests[c].copy # doc)
        /\ UNCHANGED faults
     \/ UNCHANGED cache /\ Fault
  /\ Goto(c, "getNode")
  /\ UNCHANGED <<doc, nodes, queue, jobs, edits>>

\* Node and copy are compared in the given fields.  A failed query looks like a
\* missing node; a failed call ends the comparison.
Compare(c, fields) ==
  LET r == requests[c]
      Differs(n) == \E f \in fields : nodes[n][f] # r.copy[f]
      Send(kind) == Becomes(c, [r EXCEPT !.at = "emit", !.kind = kind])
  IN
  /\ At(c, "getNode")
  /\ \/ /\ \/ \E n \in Existing : Differs(n) /\ Send("update")
           \/ \E n \in Existing : ~Differs(n) /\ Return(c)
           \/ Existing = {} /\ Send("create")
        /\ NoFault
     \/ Send("create") /\ Fault
     \/ Return(c) /\ Fault
  /\ UNCHANGED <<doc, cache, nodes, queue, jobs, edits>>

\* Faulty: the role is not compared.
GetNodeLessRole(c) == Compare(c, Fields \ {"role"})

\* Faulty: a missing node is not repaired, only a different one.
GetNodeIfAny(c) ==
  \/ Existing # {} /\ Compare(c, Fields)
  \/ /\ Existing = {}
     /\ At(c, "getNode")
     /\ Return(c)
     /\ NoFault
     /\ UNCHANGED <<doc, cache, nodes, queue, jobs, edits>>

\* The relationship service's getUser, and syncNeo4jUser.
GetNode(c) == Compare(c, Fields)

ExpireCache ==
  /\ cache # None
  /\ cache' = None
  /\ UNCHANGED <<doc, nodes, queue, requests, jobs, edits, faults, raced>>

-----------------------------------------------------------------------------
(* Neo4j DB sync *)

\* The message is acknowledged as it is delivered.
Receive(w) ==
  /\ ~Working(w)
  /\ queue # <<>>
  /\ JobBecomes(w, [kind |-> Head(queue).kind, data |-> Head(queue).data, at |-> "find"])
  /\ queue' = Tail(queue)
  /\ raced' = (raced \/ \E v \in Workers : Working(v))
  /\ UNCHANGED <<doc, cache, nodes, requests, edits, faults>>

\* Faulty: createUser trusts that a registration comes once.
FindUserNodeForUpdate(w) ==
  LET j == jobs[w] IN
  /\ Does(w, "find") \/ Does(w, "findAgain")
  /\ \/ j.kind = "update" /\ Existing # {} /\ JobGoto(w, "update")
     \/ j.kind = "update" /\ Existing = {} /\ JobGoto(w, "create")
     \/ j.kind = "create" /\ JobGoto(w, "create")
  /\ NoFault
  /\ UNCHANGED <<doc, cache, nodes, queue, requests, edits>>

\* findUserNode, whose failure is answered as "not found".  updateUser calls
\* createUser for a missing node, which looks again, and gives up if it finds one.
FindUserNode(w) ==
  LET j == jobs[w] IN
  /\ Does(w, "find") \/ Does(w, "findAgain")
  /\ \E found \in BOOLEAN :
       /\ \/ (found <=> Existing # {}) /\ NoFault
          \/ ~found /\ Fault
       /\ \/ found  /\ j.at = "find" /\ j.kind = "update" /\ JobGoto(w, "update")
          \/ found  /\ (j.at = "findAgain" \/ j.kind = "create") /\ Done(w)
          \/ ~found /\ j.at = "find" /\ j.kind = "update" /\ JobGoto(w, "findAgain")
          \/ ~found /\ (j.at = "findAgain" \/ j.kind = "create") /\ JobGoto(w, "create")
  /\ UNCHANGED <<doc, cache, nodes, queue, requests, edits>>

\* createUserNode.  Its own check asks for a property "id" that nodes do not
\* have, and never finds one.
CreateUserNode(w) ==
  /\ Does(w, "create")
  /\ \/ \E n \in NodeIds \ Existing :
          nodes' = [nodes EXCEPT ![n] = jobs[w].data] /\ NoFault
     \/ UNCHANGED nodes /\ Fault
  /\ Done(w)
  /\ UNCHANGED <<doc, cache, queue, requests, edits>>

\* updateUserNode: every node with the user_id.
UpdateUserNode(w) ==
  /\ Does(w, "update")
  /\ \/ /\ nodes' = [n \in NodeIds |-> IF n \in Existing THEN jobs[w].data ELSE None]
        /\ NoFault
     \/ UNCHANGED nodes /\ Fault
  /\ Done(w)
  /\ UNCHANGED <<doc, cache, queue, requests, edits>>

-----------------------------------------------------------------------------
(* Failures *)

CrashClient(c) ==
  /\ Busy(c)
  /\ Return(c)
  /\ Fault
  /\ UNCHANGED <<doc, cache, nodes, queue, jobs, edits>>

CrashWorker(w) ==
  /\ Working(w)
  /\ Done(w)
  /\ Fault
  /\ UNCHANGED <<doc, cache, nodes, queue, requests, edits>>

\* The queue is durable, the messages are not.
RestartBroker ==
  /\ queue # <<>>
  /\ queue' = <<>>
  /\ Fault
  /\ UNCHANGED <<doc, cache, nodes, requests, jobs, edits>>

ClientStep(c) ==
  \/ Save(c)
  \/ Reread(c)
  \/ Emit(c)
  \/ Invalidate(c)
  \/ ReadUser(c)
  \/ SetCache(c)
  \/ GetNode(c)

WorkerStep(w) ==
  \/ Receive(w)
  \/ FindUserNode(w)
  \/ CreateUserNode(w)
  \/ UpdateUserNode(w)

ViewSomewhere == \E c \in Clients : GetUserProfile(c) \/ GetMyProfile(c)

Next ==
  \/ \E c \in Clients : Register(c) \/ ClientStep(c) \/ CrashClient(c)
  \/ \E c \in Clients, f \in Fields : BeginEdit(c, f)
  \/ ViewSomewhere
  \/ \E w \in Workers : WorkerStep(w) \/ CrashWorker(w)
  \/ ExpireCache
  \/ RestartBroker

Spec == Init /\ [][Next]_vars

\* Requests and messages in hand go on, the consumer stays subscribed, Redis
\* expires its keys; and, the one assumption about people, the profile is
\* looked at again and again.
Fairness ==
  /\ \A c \in Clients : WF_vars(ClientStep(c))
  /\ \A w \in Workers : WF_vars(WorkerStep(w))
  /\ WF_vars(ExpireCache)
  /\ WF_vars(ViewSomewhere)

FairSpec == Spec /\ Fairness

-----------------------------------------------------------------------------
(* Properties *)

Twins == Cardinality(Existing) > 1

\* The graph has the user as MongoDB has it.
Synced == Registered /\ Existing # {} /\ \A n \in Existing : nodes[n] = doc

Quiet ==
  /\ queue = <<>>
  /\ \A c \in Clients : ~Busy(c)
  /\ \A w \in Workers : ~Working(w)

\* Without failures, and without changes, messages or stale views that meet, the
\* messages alone keep the graph right: when nothing is under way, the node is
\* there and is as the document is.
QuietSynced == ~raced /\ Registered /\ Quiet => Synced

\* In such a history the node is a mirror of the document: one node is made, though
\* registration, changes and views may all send a message that creates it; it never
\* has what MongoDB has not had, and never goes back, though each of them also sends
\* the whole document as it read it.
Graph == INSTANCE Mirror WITH
  Parts <- Fields,
  Versions <- 0..MaxEdits,
  Places <- NodeIds,
  original <- doc,
  copies <- nodes,
  spoiled <- raced

MirrorsUser == Graph!Spec

\* A change is stored, and on its way to deleting the cache.
Invalidating == \E c \in Clients : Editing(c) /\ requests[c].at # "save"

\* In such a history the gateway's copy is that of MongoDB, except for the role,
\* unless a change is on its way to deleting it.
CacheFollowsUser ==
  ~raced /\ cache # None /\ ~Invalidating =>
    \A f \in Fields \ {"role"} : cache[f] = doc[f]

\* Whatever was lost, overtaken or stale, once the changes stop views of the
\* profile make the node right, for good; unless there are two nodes, of which
\* the comparison sees one.
ViewsHeal == <>Registered => <>[]Synced \/ <>Twins

=============================================================================
