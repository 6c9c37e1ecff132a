--------------------------- MODULE UserSyncProofs ---------------------------
(***************************************************************************)
(* Proofs about UserSync, for any number of clients, workers, nodes,       *)
(* changes, messages and failures.                                         *)
(***************************************************************************)
EXTENDS UserSync, FiniteSetTheorems, SequenceTheorems, TLAPS

USE UserSyncAssumption

-----------------------------------------------------------------------------
(* Types *)

Points == {"save", "reread", "readUser", "setCache", "getNode", "emit", "invalidate"}

\* What a request is, and holds, at each of its points.
Typed(r) ==
  /\ r.at = "save" => r.op = "edit"
  /\ r.at = "reread" => r.op = "edit" /\ r.field = "username"
  /\ r.at = "invalidate" => r.op = "edit"
  /\ r.at \in {"readUser", "setCache", "getNode"} => r.op = "view"
  /\ r.at # "readUser" => r.copy \in Data
  /\ r.op = "edit" => r.kind = "update"
  /\ r.op = "register" => r.at = "emit" /\ r.kind = "create"

\* Before the registration there is nothing anywhere.
Fresh ==
  /\ cache = None
  /\ queue = <<>>
  /\ Existing = {}
  /\ \A c \in Clients : ~Busy(c)
  /\ \A w \in Workers : ~Working(w)

TypeInv ==
  /\ TypeOK
  /\ \A c \in Clients : Busy(c) => Typed(requests[c])
  /\ ~Registered => Fresh

\* What a busy client's request is.
LEMMA Holds ==
  ASSUME TypeInv, NEW c \in Clients, Busy(c)
  PROVE  /\ requests[c] \in Request
         /\ Typed(requests[c])
         /\ doc \in Data
BY DEF TypeInv, TypeOK, Busy, Registered, Fresh

\* What a busy worker's job is.
LEMMA HoldsJob ==
  ASSUME TypeInv, NEW w \in Workers, Working(w)
  PROVE  /\ jobs[w] \in Job
         /\ doc \in Data
BY DEF TypeInv, TypeOK, Working, Registered, Fresh

\* The points of a request that others refer to.
LEMMA PointsHold ==
  /\ "reread" \in Points /\ "setCache" \in Points /\ "getNode" \in Points
  /\ "emit" \in Points /\ "invalidate" \in Points
BY DEF Points

\* A request that moves on, with another copy or kind.
LEMMA RequestAt ==
  ASSUME NEW r \in Request, NEW q \in Points
  PROVE  LET s == [r EXCEPT !.at = q] IN
         /\ s \in Request
         /\ s.at = q /\ s.op = r.op /\ s.field = r.field /\ s.kind = r.kind /\ s.copy = r.copy
BY DEF Request, Points

\* A request about to emit is the same request.
LEMMA RequestKind ==
  ASSUME NEW r \in Request, NEW k \in Kinds
  PROVE  LET s == [r EXCEPT !.at = "emit", !.kind = k] IN
         /\ s \in Request
         /\ s.at = "emit" /\ s.op = r.op /\ s.field = r.field /\ s.kind = k /\ s.copy = r.copy
BY DEF Request

\* A job at another query is the same job.
LEMMA JobAt ==
  ASSUME NEW j \in Job, NEW q \in {"find", "findAgain", "create", "update"}
  PROVE  LET k == [j EXCEPT !.at = q] IN
         k \in Job /\ k.at = q /\ k.kind = j.kind /\ k.data = j.data
BY DEF Job

\* A request that changes leaves the others.
LEMMA Becoming ==
  ASSUME TypeInv, NEW c \in Clients, NEW r, Becomes(c, r)
  PROVE  /\ \A d \in Clients : requests'[d] = IF d = c THEN r ELSE requests[d]
         /\ r \in Request \cup {None} => requests' \in [Clients -> Request \cup {None}]
         /\ r = None \/ Typed(r) => \A d \in Clients : Busy(d)' => Typed(requests'[d])
BY DEF TypeInv, TypeOK, Becomes, Busy

\* A job that changes leaves the others.
LEMMA JobBecoming ==
  ASSUME TypeInv, NEW w \in Workers, NEW j, JobBecomes(w, j)
  PROVE  /\ \A v \in Workers : jobs'[v] = IF v = w THEN j ELSE jobs[v]
         /\ j \in Job \cup {None} => jobs' \in [Workers -> Job \cup {None}]
BY DEF TypeInv, TypeOK, JobBecomes

-----------------------------------------------------------------------------
(* What each step of a request makes of it *)

\* It goes on, as the same operation on the same field.
Moves(c, r) ==
  /\ Busy(c)
  /\ r \in Request
  /\ Typed(r)
  /\ r.op = requests[c].op
  /\ r.field = requests[c].field
  /\ Becomes(c, r)

\* r differs from s in its point at most.
Same(r, s) ==
  r.op = s.op /\ r.field = s.field /\ r.kind = s.kind /\ r.copy = s.copy

\* A request that moves on keeps its copy.
LEMMA GotoMoves ==
  ASSUME TypeInv, NEW c \in Clients, Busy(c), NEW q \in Points, Goto(c, q),
         \A r \in Request : Same(r, requests[c]) /\ r.at = q => Typed(r)
  PROVE  \E r \in Request : Moves(c, r) /\ r.at = q /\ r.copy = requests[c].copy
<1> DEFINE r == [requests[c] EXCEPT !.at = q]
<1>1. requests[c] \in Request
  BY Holds
<1>2. /\ r \in Request
      /\ r.at = q /\ r.op = requests[c].op /\ r.field = requests[c].field
      /\ r.kind = requests[c].kind /\ r.copy = requests[c].copy
  BY <1>1, RequestAt
<1>3. Becomes(c, r)
  BY DEF Goto
<1> HIDE DEF r
<1>4. Typed(r)
  BY <1>2 DEF Same
<1> QED
  BY <1>2, <1>3, <1>4 DEF Moves

\* A save writes one field, and the request goes on to reading it again or to emitting.
LEMMA SaveMoves ==
  ASSUME TypeInv, NEW c \in Clients, Save(c)
  PROVE  /\ Editing(c) /\ requests[c].at = "save"
         /\ \/ UNCHANGED doc /\ Return(c) /\ Fault
            \/ \E r \in Request :
                 /\ Moves(c, r)
                 /\ r.at \in {"reread", "emit"}
                 /\ r.copy = requests[c].copy
                 /\ doc' = [doc EXCEPT ![r.field] = r.copy[r.field]]
                 /\ NoFault
<1>1. Busy(c) /\ requests[c].at = "save" /\ Typed(requests[c]) /\ requests[c] \in Request
  BY Holds DEF Save, At
<1>2. Editing(c)
  BY <1>1 DEF Editing, Typed
<1>3. CASE UNCHANGED doc /\ Return(c) /\ Fault
  BY <1>1, <1>2, <1>3
<1>4. ASSUME doc' = [doc EXCEPT ![requests[c].field] = requests[c].copy[requests[c].field]],
             NoFault, NEW q \in {"reread", "emit"}, Goto(c, q),
             q = "reread" => requests[c].field = "username"
      PROVE  \E r \in Request :
                 /\ Moves(c, r)
                 /\ r.at \in {"reread", "emit"}
                 /\ r.copy = requests[c].copy
                 /\ doc' = [doc EXCEPT ![r.field] = r.copy[r.field]]
                 /\ NoFault
  <2>1. \A r \in Request : Same(r, requests[c]) /\ r.at = q => Typed(r)
    BY <1>1, <1>2, <1>4 DEF Same, Typed, Editing
  <2>2. \E r \in Request : Moves(c, r) /\ r.at = q /\ r.copy = requests[c].copy
    BY <1>1, <1>4, <2>1, GotoMoves, PointsHold
  <2>3. PICK r \in Request : Moves(c, r) /\ r.at = q /\ r.copy = requests[c].copy
    BY <2>2
  <2>4. r.field = requests[c].field
    BY <2>3 DEF Moves
  <2> QED
    BY <1>4, <2>3, <2>4
<1> QED
  BY <1>1, <1>2, <1>3, <1>4 DEF Save

\* Reading again gives the request the document as it is.
LEMMA RereadMoves ==
  ASSUME TypeInv, NEW c \in Clients, Reread(c)
  PROVE  /\ Editing(c) /\ requests[c].at = "reread"
         /\ \/ Return(c) /\ Fault
            \/ \E r \in Request : Moves(c, r) /\ r.at = "emit" /\ r.copy = doc /\ NoFault
<1>1. Busy(c) /\ requests[c].at = "reread" /\ Typed(requests[c]) /\ requests[c] \in Request
      /\ doc \in Data
  BY Holds DEF Reread, At
<1>2. Editing(c)
  BY <1>1 DEF Editing, Typed
<1>3. CASE Becomes(c, [requests[c] EXCEPT !.at = "emit", !.copy = doc]) /\ NoFault
  <2> DEFINE r == [requests[c] EXCEPT !.at = "emit", !.copy = doc]
  <2>1. /\ r \in Request
        /\ r.at = "emit" /\ r.op = requests[c].op /\ r.field = requests[c].field
        /\ r.kind = requests[c].kind /\ r.copy = doc
    BY <1>1 DEF Request
  <2>2. Becomes(c, r)
    BY <1>3
  <2> HIDE DEF r
  <2>3. Typed(r)
    BY <1>1, <2>1 DEF Typed
  <2> QED
    BY <1>1, <1>2, <1>3, <2>1, <2>2, <2>3 DEF Moves
<1> QED
  BY <1>1, <1>2, <1>3 DEF Reread

\* A message carries the request's copy; the request ends or goes on to the cache.
LEMMA EmitMoves ==
  ASSUME TypeInv, NEW c \in Clients, Emit(c)
  PROVE  /\ At(c, "emit")
         /\ requests[c].copy \in Data
         /\ \/ EmitFails(c)
            \/ /\ Sent(requests[c], [kind |-> requests[c].kind, data |-> requests[c].copy])
               /\ \/ Return(c) /\ (requests[c].op # "edit" \/ requests[c].field = "role")
                  \/ Editing(c) /\ \E r \in Request : Moves(c, r) /\ r.at = "invalidate"
<1>1. Busy(c) /\ requests[c].at = "emit" /\ Typed(requests[c]) /\ requests[c] \in Request
  BY Holds DEF Emit, At
<1>2. requests[c].copy \in Data
  BY <1>1 DEF Typed
<1>3. ASSUME requests[c].op = "edit", Goto(c, "invalidate")
      PROVE  Editing(c) /\ \E r \in Request : Moves(c, r) /\ r.at = "invalidate"
  <2>1. \A r \in Request : Same(r, requests[c]) /\ r.at = "invalidate" => Typed(r)
    BY <1>1, <1>3 DEF Same, Typed
  <2>2. \E r \in Request : Moves(c, r) /\ r.at = "invalidate" /\ r.copy = requests[c].copy
    BY <1>1, <1>3, <2>1, GotoMoves, PointsHold
  <2> QED
    BY <1>1, <1>3, <2>2 DEF Editing
<1> QED
  BY <1>1, <1>2, <1>3 DEF Emit, AfterEmit, At

\* A view holds the document as it was when it was read.
LEMMA ReadUserMoves ==
  ASSUME TypeInv, NEW c \in Clients, ReadUser(c)
  PROVE  /\ Busy(c) /\ requests[c].op = "view"
         /\ \/ Return(c) /\ Fault
            \/ \E r \in Request : Moves(c, r) /\ r.at = "setCache" /\ r.copy = doc /\ NoFault
<1>1. Busy(c) /\ requests[c].at = "readUser" /\ Typed(requests[c]) /\ requests[c] \in Request
      /\ doc \in Data
  BY Holds DEF ReadUser, At
<1>2. requests[c].op = "view"
  BY <1>1 DEF Typed
<1>3. CASE Becomes(c, [requests[c] EXCEPT !.at = "setCache", !.copy = doc]) /\ NoFault
  <2> DEFINE r == [requests[c] EXCEPT !.at = "setCache", !.copy = doc]
  <2>1. /\ r \in Request
        /\ r.at = "setCache" /\ r.op = requests[c].op /\ r.field = requests[c].field
        /\ r.kind = requests[c].kind /\ r.copy = doc
    BY <1>1 DEF Request
  <2>2. Becomes(c, r)
    BY <1>3
  <2> HIDE DEF r
  <2>3. Typed(r)
    BY <1>1, <1>2, <2>1 DEF Typed
  <2> QED
    BY <1>1, <1>2, <1>3, <2>1, <2>2, <2>3 DEF Moves
<1> QED
  BY <1>1, <1>2, <1>3 DEF ReadUser

\* A view writes its copy to the cache.
LEMMA SetCacheMoves ==
  ASSUME TypeInv, NEW c \in Clients, SetCache(c)
  PROVE  /\ Busy(c) /\ requests[c].op = "view" /\ requests[c].copy \in Data
         /\ \E r \in Request : Moves(c, r) /\ r.at = "getNode"
<1>1. Busy(c) /\ requests[c].at = "setCache" /\ Typed(requests[c]) /\ requests[c] \in Request
  BY Holds DEF SetCache, At
<1>2. requests[c].op = "view" /\ requests[c].copy \in Data
  BY <1>1 DEF Typed
<1>3. Goto(c, "getNode")
  BY DEF SetCache
<1>4. \A r \in Request : Same(r, requests[c]) /\ r.at = "getNode" => Typed(r)
  BY <1>1, <1>2 DEF Same, Typed
<1>5. \E r \in Request : Moves(c, r) /\ r.at = "getNode" /\ r.copy = requests[c].copy
  BY <1>1, <1>3, <1>4, GotoMoves, PointsHold
<1> QED
  BY <1>1, <1>2, <1>5

\* A view ends when the node is as the document, or goes on to emit.
LEMMA GetNodeMoves ==
  ASSUME TypeInv, NEW c \in Clients, GetNode(c)
  PROVE  /\ Busy(c) /\ requests[c].op = "view"
         /\ Fault \/ NoFault
         /\ \/ Return(c)
            \/ \E r \in Request : Moves(c, r) /\ r.at = "emit"
<1>1. Busy(c) /\ requests[c].at = "getNode" /\ Typed(requests[c]) /\ requests[c] \in Request
  BY Holds DEF GetNode, Compare, At
<1>2. requests[c].op = "view" /\ requests[c].copy \in Data
  BY <1>1 DEF Typed
<1>3. ASSUME NEW k \in Kinds, Becomes(c, [requests[c] EXCEPT !.at = "emit", !.kind = k])
      PROVE  \E r \in Request : Moves(c, r) /\ r.at = "emit"
  <2> DEFINE r == [requests[c] EXCEPT !.at = "emit", !.kind = k]
  <2>1. /\ r \in Request
        /\ r.at = "emit" /\ r.op = requests[c].op /\ r.field = requests[c].field
        /\ r.kind = k /\ r.copy = requests[c].copy
    BY <1>1, RequestKind
  <2>2. Becomes(c, r)
    BY <1>3
  <2> HIDE DEF r
  <2>3. Typed(r)
    BY <1>2, <2>1 DEF Typed
  <2> QED
    BY <1>1, <2>1, <2>2, <2>3 DEF Moves
<1>4. "create" \in Kinds /\ "update" \in Kinds
  BY DEF Kinds
<1> QED
  BY <1>1, <1>2, <1>3, <1>4 DEF GetNode, Compare

\* What a free client begins.
LEMMA ViewMoves ==
  ASSUME TypeInv, NEW c \in Clients, GetUserProfile(c) \/ GetMyProfile(c)
  PROVE  /\ ~Busy(c) /\ Registered
         /\ \E r \in Request : Becomes(c, r) /\ Typed(r) /\ r.op = "view"
<1>1. ASSUME NEW a \in {"getNode", "readUser"}, NEW d \in Data \cup {None}, View(c, a, d),
             a = "getNode" => d \in Data
      PROVE  \E r \in Request : Becomes(c, r) /\ Typed(r) /\ r.op = "view"
  <2> DEFINE r == [op |-> "view", at |-> a, field |-> "profile", kind |-> "update", copy |-> d]
  <2>1. r \in Request
    BY DEF Request, Operations, Kinds, Fields
  <2>2. r.op = "view" /\ r.at = a /\ r.copy = d
    OBVIOUS
  <2>3. Becomes(c, r)
    BY <1>1 DEF View
  <2> HIDE DEF r
  <2>4. Typed(r)
    BY <1>1, <2>2 DEF Typed
  <2> QED
    BY <2>1, <2>2, <2>3, <2>4
<1>2. doc \in Data \cup {None} /\ cache \in Data \cup {None}
  BY DEF TypeInv, TypeOK
<1> QED
  BY <1>1, <1>2 DEF GetUserProfile, GetMyProfile, Registered

-----------------------------------------------------------------------------
(* The types are kept *)

\* Failures are counted up to their bound.
LEMMA FaultTypes ==
  ASSUME TypeInv, Fault \/ NoFault
  PROVE  faults' \in 0..MaxFaults /\ raced' \in BOOLEAN
<1>1. faults \in 0..MaxFaults /\ raced \in BOOLEAN /\ MaxFaults \in Nat
  BY DEF TypeInv, TypeOK
<1>2. CASE Fault
  <2>1. faults < MaxFaults /\ faults' = faults + 1
    BY <1>2 DEF Fault
  <2>2. faults' \in 0..MaxFaults
    BY <1>1, <2>1
  <2>3. raced' = TRUE
    BY <1>2 DEF Fault
  <2> QED
    BY <2>2, <2>3
<1>3. CASE NoFault
  BY <1>1, <1>3 DEF NoFault
<1> QED
  BY <1>2, <1>3

\* After the registration the types are all there is to keep.
LEMMA TypeKept ==
  ASSUME doc' \in Data,
         cache' \in Data \cup {None},
         nodes' \in [NodeIds -> Data \cup {None}],
         queue' \in Seq(Message) /\ Len(queue') <= MaxQueue,
         requests' \in [Clients -> Request \cup {None}],
         \A d \in Clients : Busy(d)' => Typed(requests'[d]),
         jobs' \in [Workers -> Job \cup {None}],
         edits' \in 0..MaxEdits,
         faults' \in 0..MaxFaults,
         raced' \in BOOLEAN
  PROVE  TypeInv'
<1>1. Registered'
  BY DEF Registered
<1>2. \A d \in Clients : (Busy(d) => Typed(requests[d]))'
  BY DEF Typed
<1> QED
  BY <1>1, <1>2 DEF TypeInv, TypeOK

\* The three ways a request ends a step.
LEMMA RequestKept ==
  ASSUME TypeInv, NEW c \in Clients,
         \/ Return(c)
         \/ \E r \in Request : Moves(c, r)
         \/ \E r \in Request : Becomes(c, r) /\ Typed(r)
  PROVE  /\ requests' \in [Clients -> Request \cup {None}]
         /\ \A d \in Clients : Busy(d)' => Typed(requests'[d])
BY Becoming DEF Return, Moves

\* Types hold at first.
LEMMA InitType == Init => TypeInv
<1> SUFFICES ASSUME Init PROVE TypeInv
  OBVIOUS
<1>1. Existing = {}
  BY DEF Init, Existing
<1>2. queue \in Seq(Message) /\ Len(queue) = 0
  BY DEF Init
<1>3. Fresh
  BY <1>1 DEF Init, Fresh, Busy, Working
<1>4. /\ doc \in Data \cup {None}
      /\ cache \in Data \cup {None}
      /\ nodes \in [NodeIds -> Data \cup {None}]
      /\ requests \in [Clients -> Request \cup {None}]
      /\ jobs \in [Workers -> Job \cup {None}]
      /\ edits \in 0..MaxEdits
      /\ faults \in 0..MaxFaults
  BY DEF Init
<1>5. \A c \in Clients : ~Busy(c)
  BY DEF Init, Busy
<1>6. raced \in BOOLEAN
  BY DEF Init
<1> QED
  BY <1>2, <1>3, <1>4, <1>5, <1>6 DEF TypeInv, TypeOK

ZeroData == [f \in Fields |-> 0]

\* A registration makes the document and holds a copy.
LEMMA RegisterMoves ==
  ASSUME TypeInv, NEW c \in Clients, Register(c)
  PROVE  /\ ZeroData \in Data
         /\ doc' = ZeroData
         /\ \E r \in Request : /\ Becomes(c, r) /\ Typed(r)
                               /\ r.op = "register" /\ r.copy = ZeroData
<1> DEFINE r == [op |-> "register", at |-> "emit", field |-> "profile",
                 kind |-> "create", copy |-> ZeroData]
<1>1. ZeroData \in Data
  BY DEF ZeroData, Data
<1>2. r \in Request
  BY <1>1 DEF Request, Operations, Kinds, Fields
<1>3. Becomes(c, r) /\ doc' = ZeroData
  BY DEF Register, ZeroData
<1>4. r.op = "register" /\ r.at = "emit" /\ r.kind = "create" /\ r.copy = ZeroData
  OBVIOUS
<1> HIDE DEF r
<1>5. Typed(r)
  BY <1>1, <1>4 DEF Typed
<1> QED
  BY <1>1, <1>2, <1>3, <1>4, <1>5

\* A change holds the document with one field newer than any.
LEMMA BeginEditMoves ==
  ASSUME TypeInv, NEW c \in Clients, NEW f \in Fields, BeginEdit(c, f)
  PROVE  /\ ~Busy(c) /\ doc \in Data
         /\ edits' = edits + 1 /\ edits' \in 0..MaxEdits
         /\ \E r \in Request : /\ Becomes(c, r) /\ Typed(r)
                               /\ r.op = "edit" /\ r.at = "save" /\ r.field = f
                               /\ r.copy = [doc EXCEPT ![f] = edits + 1]
<1>1. doc \in Data /\ edits' = edits + 1 /\ edits' \in 0..MaxEdits
  BY DEF BeginEdit, Registered, TypeInv, TypeOK
<1> DEFINE d == [doc EXCEPT ![f] = edits + 1]
<1> DEFINE r == [op |-> "edit", at |-> "save", field |-> f, kind |-> "update", copy |-> d]
<1>2. d \in Data
  BY <1>1 DEF Data
<1>3. r \in Request
  BY <1>2 DEF Request, Operations, Kinds
<1>4. Becomes(c, r) /\ ~Busy(c)
  BY DEF BeginEdit
<1>5. r.op = "edit" /\ r.at = "save" /\ r.kind = "update" /\ r.field = f /\ r.copy = d
  OBVIOUS
<1> HIDE DEF r
<1>6. Typed(r)
  BY <1>2, <1>5 DEF Typed
<1> QED
  BY <1>1, <1>3, <1>4, <1>5, <1>6

\* What Receive, FindUserNode and the others make of a message.
LEMMA ReceiveMoves ==
  ASSUME TypeInv, NEW w \in Workers, Receive(w)
  PROVE  /\ queue # <<>> /\ Head(queue) \in Message /\ ~Working(w)
         /\ Tail(queue) \in Seq(Message) /\ Len(queue') <= MaxQueue
         /\ doc \in Data
         /\ \E j \in Job : /\ JobBecomes(w, j) /\ j.at = "find"
                           /\ j.kind = Head(queue).kind /\ j.data = Head(queue).data
<1>1. queue # <<>> /\ queue \in Seq(Message) /\ Len(queue) <= MaxQueue /\ ~Working(w)
      /\ queue' = Tail(queue)
  BY DEF Receive, TypeInv, TypeOK
<1>2. doc \in Data
  BY <1>1 DEF TypeInv, TypeOK, Registered, Fresh
<1>3. Head(queue) \in Message /\ Tail(queue) \in Seq(Message) /\ Len(queue') <= MaxQueue
  BY <1>1, HeadTailProperties
<1> DEFINE j == [kind |-> Head(queue).kind, data |-> Head(queue).data, at |-> "find"]
<1>4. j \in Job
  BY <1>3 DEF Job, Message
<1>5. JobBecomes(w, j) /\ j.at = "find" /\ j.kind = Head(queue).kind /\ j.data = Head(queue).data
  BY DEF Receive
<1> HIDE DEF j
<1> QED
  BY <1>1, <1>2, <1>3, <1>4, <1>5

\* A message being handled goes on.
JobMoves(w, j) ==
  /\ Working(w)
  /\ j \in Job
  /\ j.kind = jobs[w].kind
  /\ j.data = jobs[w].data
  /\ JobBecomes(w, j)

\* What was found about the node decides where the job goes.
LEMMA FindMoves ==
  ASSUME TypeInv, NEW w \in Workers, FindUserNode(w)
  PROVE  /\ Working(w)
         /\ jobs[w].at \in {"find", "findAgain"}
         /\ Fault \/ NoFault
         /\ \E found \in BOOLEAN :
              /\ ((found <=> Existing # {}) /\ NoFault) \/ Fault
              /\ \/ /\ found /\ jobs[w].kind = "update" /\ jobs[w].at = "find"
                    /\ \E j \in Job : JobMoves(w, j) /\ j.at = "update"
                 \/ found /\ (jobs[w].at = "findAgain" \/ jobs[w].kind = "create") /\ Done(w)
                 \/ /\ ~found /\ jobs[w].kind = "update" /\ jobs[w].at = "find"
                    /\ \E j \in Job : JobMoves(w, j) /\ j.at = "findAgain"
                 \/ /\ ~found /\ (jobs[w].at = "findAgain" \/ jobs[w].kind = "create")
                    /\ \E j \in Job : JobMoves(w, j) /\ j.at = "create"
<1>1. Working(w) /\ jobs[w].at \in {"find", "findAgain"} /\ jobs[w] \in Job
  BY HoldsJob DEF FindUserNode, Does
<1>2. ASSUME NEW q \in {"find", "findAgain", "create", "update"}, JobGoto(w, q)
      PROVE  \E j \in Job : JobMoves(w, j) /\ j.at = q
  <2> DEFINE j == [jobs[w] EXCEPT !.at = q]
  <2>1. j \in Job /\ j.at = q /\ j.kind = jobs[w].kind /\ j.data = jobs[w].data
    BY <1>1, JobAt
  <2>2. JobBecomes(w, j)
    BY <1>2 DEF JobGoto
  <2> HIDE DEF j
  <2> QED
    BY <1>1, <2>1, <2>2 DEF JobMoves
<1>3. PICK found \in BOOLEAN :
        /\ \/ (found <=> Existing # {}) /\ NoFault
           \/ ~found /\ Fault
        /\ \/ found  /\ jobs[w].at = "find" /\ jobs[w].kind = "update" /\ JobGoto(w, "update")
           \/ found  /\ (jobs[w].at = "findAgain" \/ jobs[w].kind = "create") /\ Done(w)
           \/ ~found /\ jobs[w].at = "find" /\ jobs[w].kind = "update" /\ JobGoto(w, "findAgain")
           \/ ~found /\ (jobs[w].at = "findAgain" \/ jobs[w].kind = "create") /\ JobGoto(w, "create")
  BY DEF FindUserNode
<1>4. JobGoto(w, "update") => \E j \in Job : JobMoves(w, j) /\ j.at = "update"
  BY <1>2
<1>5. JobGoto(w, "findAgain") => \E j \in Job : JobMoves(w, j) /\ j.at = "findAgain"
  BY <1>2
<1>6. JobGoto(w, "create") => \E j \in Job : JobMoves(w, j) /\ j.at = "create"
  BY <1>2
<1> QED
  BY <1>1, <1>3, <1>4, <1>5, <1>6

\* Every step keeps types.
LEMMA NextType == TypeInv /\ [Next]_vars => TypeInv'
<1> SUFFICES ASSUME TypeInv, [Next]_vars PROVE TypeInv'
  OBVIOUS
<1> USE DEF TypeInv, TypeOK
<1>1. ASSUME NEW c \in Clients, Register(c)
      PROVE  TypeInv'
  <2>1. /\ requests' \in [Clients -> Request \cup {None}]
        /\ \A d \in Clients : Busy(d)' => Typed(requests'[d])
    BY <1>1, RegisterMoves, RequestKept
  <2>2. doc' \in Data
    BY <1>1, RegisterMoves
  <2> QED
    BY <1>1, <2>1, <2>2, TypeKept DEF Register
<1>2. ASSUME NEW c \in Clients, Save(c)
      PROVE  TypeInv'
  <2>1. /\ requests' \in [Clients -> Request \cup {None}]
        /\ \A d \in Clients : Busy(d)' => Typed(requests'[d])
    BY <1>2, SaveMoves, RequestKept
  <2>2. doc \in Data
    BY <1>2, Holds DEF Save, At
  <2>3. ASSUME NEW r \in Request, Moves(c, r), r.at \in {"reread", "emit"},
               doc' = [doc EXCEPT ![r.field] = r.copy[r.field]]
        PROVE  doc' \in Data
    <3>1. r.copy \in Data /\ r.field \in Fields
      BY <2>3 DEF Moves, Typed, Request
    <3> QED
      BY <2>2, <2>3, <3>1 DEF Data
  <2>4. doc' \in Data
    BY <1>2, <2>2, <2>3, SaveMoves
  <2>5. Fault \/ NoFault
    BY <1>2, SaveMoves
  <2> QED
    BY <1>2, <2>1, <2>4, <2>5, TypeKept, FaultTypes DEF Save
<1>3. ASSUME NEW c \in Clients, Reread(c)
      PROVE  TypeInv'
  <2>1. /\ requests' \in [Clients -> Request \cup {None}]
        /\ \A d \in Clients : Busy(d)' => Typed(requests'[d])
    BY <1>3, RereadMoves, RequestKept
  <2>2. doc \in Data
    BY <1>3, Holds DEF Reread, At
  <2> QED
    BY <1>3, <2>1, <2>2, TypeKept, FaultTypes DEF Reread
<1>4. ASSUME NEW c \in Clients, Emit(c)
      PROVE  TypeInv'
  <2>1. /\ requests' \in [Clients -> Request \cup {None}]
        /\ \A d \in Clients : Busy(d)' => Typed(requests'[d])
    BY <1>4, EmitMoves, RequestKept DEF EmitFails
  <2>2. doc \in Data /\ requests[c] \in Request /\ requests[c].copy \in Data
    BY <1>4, Holds, EmitMoves DEF Emit, At
  <2> DEFINE m == [kind |-> requests[c].kind, data |-> requests[c].copy]
  <2>3. m \in Message
    BY <2>2 DEF Request, Message
  <2>4. CASE Sent(requests[c], m)
    <3> HIDE DEF m
    <3>1. queue' \in Seq(Message) /\ Len(queue') <= MaxQueue
      BY <2>3, <2>4, AppendProperties DEF Sent
    <3>2. faults' = faults /\ raced' \in BOOLEAN
      BY <2>4 DEF Sent
    <3> QED
      BY <1>4, <2>1, <2>2, <3>1, <3>2, TypeKept DEF Emit
  <2>5. CASE EmitFails(c)
    BY <1>4, <2>1, <2>2, <2>5, TypeKept, FaultTypes DEF Emit, EmitFails
  <2> QED
    BY <1>4, <2>4, <2>5, EmitMoves
<1>5. ASSUME NEW c \in Clients, Invalidate(c)
      PROVE  TypeInv'
  <2>1. /\ requests' \in [Clients -> Request \cup {None}]
        /\ \A d \in Clients : Busy(d)' => Typed(requests'[d])
    BY <1>5, RequestKept DEF Invalidate
  <2>2. doc \in Data
    BY <1>5, Holds DEF Invalidate, At
  <2>3. faults' \in 0..MaxFaults /\ raced' \in BOOLEAN
    BY <1>5, FaultTypes DEF Invalidate
  <2> QED
    BY <1>5, <2>1, <2>2, <2>3, TypeKept DEF Invalidate
<1>6. ASSUME NEW c \in Clients, ReadUser(c)
      PROVE  TypeInv'
  <2>1. /\ requests' \in [Clients -> Request \cup {None}]
        /\ \A d \in Clients : Busy(d)' => Typed(requests'[d])
    BY <1>6, ReadUserMoves, RequestKept
  <2>2. doc \in Data
    BY <1>6, Holds DEF ReadUser, At
  <2> QED
    BY <1>6, <2>1, <2>2, TypeKept, FaultTypes DEF ReadUser
<1>7. ASSUME NEW c \in Clients, SetCache(c)
      PROVE  TypeInv'
  <2>1. /\ requests' \in [Clients -> Request \cup {None}]
        /\ \A d \in Clients : Busy(d)' => Typed(requests'[d])
    BY <1>7, SetCacheMoves, RequestKept
  <2>2. doc \in Data /\ requests[c].copy \in Data
    BY <1>7, Holds, SetCacheMoves DEF SetCache, At
  <2>3. cache' \in Data \cup {None}
    BY <1>7, <2>2 DEF SetCache
  <2>4. faults' \in 0..MaxFaults /\ raced' \in BOOLEAN
    BY <1>7, FaultTypes DEF SetCache
  <2> QED
    BY <1>7, <2>1, <2>2, <2>3, <2>4, TypeKept DEF SetCache
<1>8. ASSUME NEW c \in Clients, GetNode(c)
      PROVE  TypeInv'
  <2>1. /\ requests' \in [Clients -> Request \cup {None}]
        /\ \A d \in Clients : Busy(d)' => Typed(requests'[d])
    BY <1>8, GetNodeMoves, RequestKept
  <2>2. doc \in Data
    BY <1>8, Holds, GetNodeMoves
  <2>3. faults' \in 0..MaxFaults /\ raced' \in BOOLEAN
    BY <1>8, FaultTypes, GetNodeMoves
  <2> QED
    BY <1>8, <2>1, <2>2, <2>3, TypeKept DEF GetNode, Compare
<1>9. ASSUME NEW c \in Clients, CrashClient(c)
      PROVE  TypeInv'
  <2>1. /\ requests' \in [Clients -> Request \cup {None}]
        /\ \A d \in Clients : Busy(d)' => Typed(requests'[d])
    BY <1>9, RequestKept DEF CrashClient
  <2>2. doc \in Data
    BY <1>9, Holds DEF CrashClient
  <2> QED
    BY <1>9, <2>1, <2>2, TypeKept, FaultTypes DEF CrashClient
<1>10. ASSUME NEW c \in Clients, NEW f \in Fields, BeginEdit(c, f)
       PROVE  TypeInv'
  <2>1. /\ requests' \in [Clients -> Request \cup {None}]
        /\ \A d \in Clients : Busy(d)' => Typed(requests'[d])
    BY <1>10, BeginEditMoves, RequestKept
  <2>2. doc \in Data /\ edits' \in 0..MaxEdits
    BY <1>10, BeginEditMoves
  <2>3. raced' \in BOOLEAN
    BY <1>10 DEF BeginEdit
  <2> QED
    BY <1>10, <2>1, <2>2, <2>3, TypeKept DEF BeginEdit
<1>11. ASSUME NEW c \in Clients, GetUserProfile(c) \/ GetMyProfile(c)
       PROVE  TypeInv'
  <2>1. /\ requests' \in [Clients -> Request \cup {None}]
        /\ \A d \in Clients : Busy(d)' => Typed(requests'[d])
    BY <1>11, ViewMoves, RequestKept
  <2>2. doc \in Data
    BY <1>11, ViewMoves DEF Registered
  <2> QED
    BY <1>11, <2>1, <2>2, TypeKept DEF GetUserProfile, GetMyProfile
<1>12. ASSUME NEW w \in Workers, Receive(w)
       PROVE  TypeInv'
  <2>1. jobs' \in [Workers -> Job \cup {None}]
    BY <1>12, ReceiveMoves, JobBecoming
  <2>2. doc \in Data /\ queue' \in Seq(Message) /\ Len(queue') <= MaxQueue
    BY <1>12, ReceiveMoves DEF Receive
  <2>3. raced' \in BOOLEAN
    BY <1>12 DEF Receive
  <2>4. \A d \in Clients : Busy(d)' => Typed(requests'[d])
    BY <1>12 DEF Receive, Busy
  <2> QED
    BY <1>12, <2>1, <2>2, <2>3, <2>4, TypeKept DEF Receive
<1>13. ASSUME NEW w \in Workers, FindUserNode(w)
       PROVE  TypeInv'
  <2>1. jobs' \in [Workers -> Job \cup {None}]
    BY <1>13, FindMoves, JobBecoming DEF JobMoves, Done
  <2>2. doc \in Data
    BY <1>13, FindMoves, HoldsJob
  <2>3. faults' \in 0..MaxFaults /\ raced' \in BOOLEAN
    BY <1>13, FindMoves, FaultTypes
  <2>4. \A d \in Clients : Busy(d)' => Typed(requests'[d])
    BY <1>13 DEF FindUserNode, Busy
  <2> QED
    BY <1>13, <2>1, <2>2, <2>3, <2>4, TypeKept DEF FindUserNode
<1>14. ASSUME NEW w \in Workers, CreateUserNode(w) \/ UpdateUserNode(w)
       PROVE  TypeInv'
  <2>1. Working(w) /\ Done(w)
    BY <1>14 DEF CreateUserNode, UpdateUserNode, Does
  <2>2. jobs' \in [Workers -> Job \cup {None}]
    BY <2>1, JobBecoming DEF Done
  <2>3. doc \in Data /\ jobs[w].data \in Data
    BY <2>1, HoldsJob DEF Job
  <2>4. nodes' \in [NodeIds -> Data \cup {None}]
    BY <1>14, <2>3 DEF CreateUserNode, UpdateUserNode
  <2>5. faults' \in 0..MaxFaults /\ raced' \in BOOLEAN
    BY <1>14, FaultTypes DEF CreateUserNode, UpdateUserNode
  <2>6. \A d \in Clients : Busy(d)' => Typed(requests'[d])
    BY <1>14 DEF CreateUserNode, UpdateUserNode, Busy
  <2> QED
    BY <1>14, <2>2, <2>3, <2>4, <2>5, <2>6, TypeKept DEF CreateUserNode, UpdateUserNode
<1>15. ASSUME NEW w \in Workers, CrashWorker(w)
       PROVE  TypeInv'
  <2>1. jobs' \in [Workers -> Job \cup {None}]
    BY <1>15, JobBecoming DEF CrashWorker, Done
  <2>2. doc \in Data
    BY <1>15, HoldsJob DEF CrashWorker
  <2>3. \A d \in Clients : Busy(d)' => Typed(requests'[d])
    BY <1>15 DEF CrashWorker, Busy
  <2> QED
    BY <1>15, <2>1, <2>2, <2>3, TypeKept, FaultTypes DEF CrashWorker
<1>16. CASE ExpireCache
  <2>1. doc \in Data
    BY <1>16 DEF ExpireCache, Registered, Fresh
  <2>2. \A d \in Clients : Busy(d)' => Typed(requests'[d])
    BY <1>16 DEF ExpireCache, Busy
  <2> QED
    BY <1>16, <2>1, <2>2, TypeKept DEF ExpireCache
<1>17. CASE RestartBroker
  <2>1. doc \in Data
    BY <1>17 DEF RestartBroker, Registered, Fresh
  <2>2. \A d \in Clients : Busy(d)' => Typed(requests'[d])
    BY <1>17 DEF RestartBroker, Busy
  <2>3. queue' \in Seq(Message) /\ Len(queue') = 0
    BY <1>17 DEF RestartBroker
  <2> QED
    BY <1>17, <2>1, <2>2, <2>3, TypeKept, FaultTypes DEF RestartBroker
<1>18. CASE UNCHANGED vars
  BY <1>18 DEF vars, Registered, Fresh, Busy, Working, Existing, Typed
<1> QED
  BY <1>1, <1>2, <1>3, <1>4, <1>5, <1>6, <1>7, <1>8, <1>9, <1>10, <1>11, <1>12, <1>13,
     <1>14, <1>15, <1>16, <1>17, <1>18
  DEF Next, ClientStep, WorkerStep, ViewSomewhere

\* Documents, copies, messages, nodes, requests and jobs have their types, and
\* the queue its bound.
THEOREM TypeCorrect == Spec => []TypeOK
<1>1. TypeInv => TypeOK
  BY DEF TypeInv
<1> QED
  BY <1>1, InitType, NextType, PTL DEF Spec

-----------------------------------------------------------------------------
(* As long as nothing has raced: requests, and the gateway's cache *)

\* What has raced stays so; a fault ends the time without races.
LEMMA RacedStays ==
  ASSUME [Next]_vars, raced
  PROVE  raced'
BY DEF Next, ClientStep, WorkerStep, ViewSomewhere, vars, Fault, NoFault, Register,
       BeginEdit, Save, Reread, Emit, EmitFails, Sent, Invalidate, ReadUser, SetCache, GetNode,
       Compare, CrashClient, GetUserProfile, GetMyProfile, Receive, FindUserNode,
       CreateUserNode, UpdateUserNode, CrashWorker, ExpireCache, RestartBroker

\* A failure counts as a race.
LEMMA NoFaultUnraced ==
  ASSUME ~raced'
  PROVE  ~Fault
BY DEF Fault

OneEditor == \A c, d \in Clients : Editing(c) /\ Editing(d) => c = d

\* A change holds the document as it is, but for the field it changes, until it
\* has saved it, and the document as it is when it sends it.
Current(r) ==
  /\ r.op = "register" => r.copy = ZeroData
  /\ r.op = "edit" /\ r.at = "emit" => r.copy = doc
  /\ r.op = "edit" /\ r.at = "save" =>
       /\ doc[r.field] < r.copy[r.field]
       /\ r.copy[r.field] <= edits
       /\ \A g \in Fields \ {r.field} : r.copy[g] = doc[g]

\* No field is of a change that has not begun.
Counted == Registered => \A f \in Fields : doc[f] <= edits

RequestInv ==
  /\ OneEditor
  /\ \A c \in Clients : \A r \in Request : requests[c] = r => Current(r)
  /\ Counted

\* The change that will delete the copy of this field from the cache.
Refreshing(c, f) ==
  /\ Editing(c)
  /\ requests[c].at \in {"reread", "emit", "invalidate"}
  /\ requests[c].field = f

CacheInv ==
  cache # None =>
    \A f \in Fields \ {"role"} : cache[f] = doc[f] \/ \E c \in Clients : Refreshing(c, f)

\* What a step of a request owes to the others.
LEMMA RequestInvKept ==
  ASSUME TypeInv, RequestInv,
         NEW c \in Clients, NEW x \in Request \cup {None}, Becomes(c, x),
         x \in Request => (x.op = "edit" => Editing(c) \/ ~Overlaps(c)),
         x \in Request => Current(x)',
         \A d \in Clients \ {c} : \A r \in Request : requests[d] = r => Current(r)',
         Counted'
  PROVE  RequestInv'
<1>1. \A d \in Clients : requests'[d] = IF d = c THEN x ELSE requests[d]
  BY Becoming
<1>2. x \notin Request => x = None
  OBVIOUS
<1>3. None \notin Request
  OBVIOUS
<1>4. OneEditor'
  <2> SUFFICES ASSUME NEW a \in Clients, NEW b \in Clients, Editing(a)', Editing(b)', a # b
               PROVE  FALSE
    BY DEF OneEditor
  <2>1. \A d \in Clients \ {c} : Editing(d)' => Editing(d)
    BY <1>1 DEF Editing, Busy
  <2>2. Editing(c)' => x \in Request /\ x.op = "edit"
    BY <1>1, <1>2 DEF Editing, Busy
  <2>3. CASE a # c /\ b # c
    BY <2>1, <2>3 DEF RequestInv, OneEditor
  <2>4. CASE a = c \/ b = c
    <3>1. Editing(c) \/ ~Overlaps(c)
      BY <2>2, <2>4
    <3>2. \E d \in Clients \ {c} : Editing(d)
      BY <2>1, <2>4
    <3> QED
      BY <3>1, <3>2 DEF RequestInv, OneEditor, Overlaps
  <2> QED
    BY <2>3, <2>4
<1>5. ASSUME NEW d \in Clients, NEW r \in Request, requests'[d] = r
      PROVE  Current(r)'
  <2>1. CASE d = c
    BY <1>1, <1>5, <2>1
  <2>2. CASE d # c
    BY <1>1, <1>5, <2>2
  <2> QED
    BY <2>1, <2>2
<1> QED
  BY <1>4, <1>5 DEF RequestInv

\* The other requests, when the document stays.
LEMMA OthersCurrent ==
  ASSUME TypeInv, RequestInv, UNCHANGED <<doc, edits>>
  PROVE  /\ \A d \in Clients : \A r \in Request : requests[d] = r => Current(r)'
         /\ Counted'
BY DEF RequestInv, Current, Counted, Registered

\* Every step keeps one change in progress at most.
LEMMA NextRequests ==
  ASSUME TypeInv, RequestInv, [Next]_vars, ~raced'
  PROVE  RequestInv'
<1>0. ~Fault
  BY NoFaultUnraced
<1>a. None \notin Request
  OBVIOUS
\* A step of a view, or of a change that has been sent.
<1>b. ASSUME NEW c \in Clients, doc' = doc, edits' = edits,
             NEW x \in Request, Becomes(c, x),
             x.op = "edit" => Editing(c) /\ x.at = "invalidate",
             x.op # "register"
      PROVE  RequestInv'
  <2>1. Current(x)'
    BY <1>b DEF Current
  <2>2. x.op = "edit" => Editing(c)
    BY <1>b
  <2> QED
    BY <1>b, <2>1, <2>2, OthersCurrent, RequestInvKept
<1>c. ASSUME NEW c \in Clients, doc' = doc, edits' = edits, Return(c)
      PROVE  RequestInv'
  BY <1>a, <1>c, OthersCurrent, RequestInvKept DEF Return
<1>1. ASSUME NEW c \in Clients, Register(c)
      PROVE  RequestInv'
  <2>1. PICK x \in Request : Becomes(c, x) /\ Typed(x) /\ x.op = "register" /\ x.copy = ZeroData
    BY <1>1, RegisterMoves
  <2>2. \A d \in Clients : requests[d] = None
    BY <1>1 DEF Register, TypeInv, Fresh, Busy
  <2>3. Counted'
    <3>1. doc' = ZeroData /\ edits' = edits /\ edits \in 0..MaxEdits
      BY <1>1 DEF Register, ZeroData, TypeInv, TypeOK
    <3> QED
      BY <3>1 DEF Counted, ZeroData
  <2>4. Current(x)'
    BY <2>1 DEF Current
  <2> QED
    BY <1>a, <2>1, <2>2, <2>3, <2>4, RequestInvKept
<1>2. ASSUME NEW c \in Clients, NEW f \in Fields, BeginEdit(c, f)
      PROVE  RequestInv'
  <2>1. PICK x \in Request : /\ Becomes(c, x) /\ Typed(x)
                             /\ x.op = "edit" /\ x.at = "save" /\ x.field = f
                             /\ x.copy = [doc EXCEPT ![f] = edits + 1]
    BY <1>2, BeginEditMoves
  <2>2. ~Overlaps(c) /\ doc' = doc /\ edits' = edits + 1 /\ Registered
    BY <1>2 DEF BeginEdit
  <2>3. doc \in Data /\ edits \in 0..MaxEdits
    BY <2>2 DEF TypeInv, TypeOK, Registered
  <2>4. \A g \in Fields : doc[g] \in Int /\ doc[g] <= edits
    BY <2>2, <2>3 DEF RequestInv, Counted, Data
  <2>5. Counted'
    BY <2>2, <2>3, <2>4 DEF Counted
  <2>6. Current(x)'
    <3>1. x.copy[f] = edits + 1 /\ \A g \in Fields \ {f} : x.copy[g] = doc[g]
      BY <2>1, <2>3 DEF Data
    <3> QED
      BY <2>1, <2>2, <2>3, <2>4, <3>1 DEF Current
  <2>7. \A d \in Clients \ {c} : \A r \in Request : requests[d] = r => Current(r)'
    <3> SUFFICES ASSUME NEW d \in Clients \ {c}, NEW r \in Request, requests[d] = r
                 PROVE  Current(r)'
      OBVIOUS
    <3>1. r.op # "edit"
      BY <1>a, <2>2 DEF Overlaps, Editing, Busy
    <3>2. Current(r)
      BY DEF RequestInv
    <3> QED
      BY <3>1, <3>2 DEF Current
  <2> QED
    BY <2>1, <2>2, <2>5, <2>6, <2>7, RequestInvKept
<1>3. ASSUME NEW c \in Clients, Save(c)
      PROVE  RequestInv'
  <2>1. Editing(c) /\ requests[c].at = "save"
    BY <1>3, SaveMoves
  <2>2. PICK x \in Request :
                 /\ Moves(c, x)
                 /\ x.at \in {"reread", "emit"}
                 /\ x.copy = requests[c].copy
                 /\ doc' = [doc EXCEPT ![x.field] = x.copy[x.field]]
    BY <1>0, <1>3, SaveMoves
  <2>3. doc \in Data /\ requests[c] \in Request /\ edits' = edits /\ edits \in 0..MaxEdits
    BY <1>3, <2>1, Holds DEF Editing, Save, TypeInv, TypeOK
  <2>4. x.field \in Fields /\ x.field = requests[c].field /\ x.copy \in Data /\ x.op = "edit"
    BY <2>1, <2>2 DEF Moves, Typed, Request, Editing
  <2>5. /\ doc[x.field] < x.copy[x.field] /\ x.copy[x.field] <= edits
        /\ \A g \in Fields \ {x.field} : x.copy[g] = doc[g]
    <3>1. Current(requests[c])
      BY <2>3 DEF RequestInv
    <3> QED
      BY <2>1, <2>2, <2>4, <3>1 DEF Current, Editing
  <2>6. doc' = x.copy
    BY <2>2, <2>3, <2>4, <2>5 DEF Data
  <2>7. Current(x)'
    BY <2>2, <2>4, <2>6 DEF Current
  <2>8. Counted'
    <3>1. \A g \in Fields : doc[g] <= edits
      BY <2>3 DEF RequestInv, Counted, Registered
    <3> QED
      BY <2>3, <2>4, <2>5, <2>6, <3>1 DEF Counted
  <2>9. \A d \in Clients \ {c} : \A r \in Request : requests[d] = r => Current(r)'
    <3> SUFFICES ASSUME NEW d \in Clients \ {c}, NEW r \in Request, requests[d] = r
                 PROVE  Current(r)'
      OBVIOUS
    <3>1. r.op # "edit"
      BY <1>a, <2>1 DEF RequestInv, OneEditor, Editing, Busy
    <3>2. Current(r)
      BY DEF RequestInv
    <3> QED
      BY <3>1, <3>2 DEF Current
  <2> QED
    BY <2>1, <2>2, <2>7, <2>8, <2>9, RequestInvKept DEF Moves
<1>4. ASSUME NEW c \in Clients, Reread(c)
      PROVE  RequestInv'
  <2>1. Editing(c)
    BY <1>4, RereadMoves
  <2>2. PICK x \in Request : Moves(c, x) /\ x.at = "emit" /\ x.copy = doc
    BY <1>0, <1>4, RereadMoves
  <2>3. UNCHANGED <<doc, edits>>
    BY <1>4 DEF Reread
  <2>4. Current(x)'
    BY <2>1, <2>2, <2>3 DEF Current, Moves, Editing
  <2> QED
    BY <2>1, <2>2, <2>3, <2>4, OthersCurrent, RequestInvKept DEF Moves
<1>5. ASSUME NEW c \in Clients, Emit(c)
      PROVE  RequestInv'
  <2>1. doc' = doc /\ edits' = edits
    BY <1>5 DEF Emit
  <2>2. \/ Return(c)
        \/ Editing(c) /\ \E r \in Request : Moves(c, r) /\ r.at = "invalidate"
    BY <1>5, EmitMoves DEF EmitFails
  <2>3. ASSUME Editing(c), NEW r \in Request, Moves(c, r), r.at = "invalidate"
        PROVE  RequestInv'
    <3>1. Becomes(c, r) /\ r.op = "edit"
      BY <2>3 DEF Moves, Editing
    <3>2. r.op # "register"
      BY <3>1
    <3> QED
      BY <1>b, <2>1, <2>3, <3>1, <3>2
  <2> QED
    BY <1>c, <2>1, <2>2, <2>3
<1>6. ASSUME NEW c \in Clients, Invalidate(c) \/ CrashClient(c)
      PROVE  RequestInv'
  BY <1>c, <1>6 DEF Invalidate, CrashClient
<1>7. ASSUME NEW c \in Clients, ReadUser(c)
      PROVE  RequestInv'
  <2>1. Return(c) \/ \E r \in Request : Becomes(c, r) /\ r.op = "view"
    BY <1>7, ReadUserMoves DEF Moves
  <2>2. doc' = doc /\ edits' = edits
    BY <1>7 DEF ReadUser
  <2> QED
    BY <1>b, <1>c, <2>1, <2>2
<1>8. ASSUME NEW c \in Clients, SetCache(c)
      PROVE  RequestInv'
  <2>1. \E r \in Request : Becomes(c, r) /\ r.op = "view"
    BY <1>8, SetCacheMoves DEF Moves
  <2>2. doc' = doc /\ edits' = edits
    BY <1>8 DEF SetCache
  <2> QED
    BY <1>b, <1>c, <2>1, <2>2
<1>9. ASSUME NEW c \in Clients, GetNode(c)
      PROVE  RequestInv'
  <2>1. Return(c) \/ \E r \in Request : Becomes(c, r) /\ r.op = "view"
    BY <1>9, GetNodeMoves DEF Moves
  <2>2. doc' = doc /\ edits' = edits
    BY <1>9 DEF GetNode, Compare
  <2> QED
    BY <1>b, <1>c, <2>1, <2>2
<1>10. ASSUME NEW c \in Clients, GetUserProfile(c) \/ GetMyProfile(c)
       PROVE  RequestInv'
  <2>1. \E r \in Request : Becomes(c, r) /\ r.op = "view"
    BY <1>10, ViewMoves
  <2>2. doc' = doc /\ edits' = edits
    BY <1>10 DEF GetUserProfile, GetMyProfile
  <2> QED
    BY <1>b, <1>c, <2>1, <2>2
<1>11. ASSUME UNCHANGED <<doc, edits, requests>>
       PROVE  RequestInv'
  BY <1>11 DEF RequestInv, OneEditor, Editing, Busy, Current, Counted, Registered
<1>12. ASSUME NEW w \in Workers, WorkerStep(w) \/ CrashWorker(w)
       PROVE  UNCHANGED <<doc, edits, requests>>
  BY <1>12 DEF WorkerStep, CrashWorker, Receive, FindUserNode, CreateUserNode, UpdateUserNode
<1>13. CASE ExpireCache \/ RestartBroker \/ UNCHANGED vars
  BY <1>11, <1>13 DEF ExpireCache, RestartBroker, vars
<1> QED
  BY <1>1, <1>2, <1>3, <1>4, <1>5, <1>6, <1>7, <1>8, <1>9, <1>10, <1>11, <1>12, <1>13
  DEF Next, ClientStep, ViewSomewhere

\* What a step owes to the cache: a change in progress stays until it has deleted the copy.
LEMMA CacheInvKept ==
  ASSUME TypeInv, CacheInv, cache' = cache, doc' = doc,
         NEW c \in Clients, NEW x \in Request \cup {None}, Becomes(c, x),
         \A f \in Fields \ {"role"} :
           Refreshing(c, f) =>
             /\ x \in Request
             /\ x.op = "edit"
             /\ x.field = f
             /\ x.at \in {"reread", "emit", "invalidate"}
  PROVE  CacheInv'
<1> SUFFICES ASSUME cache # None, NEW f \in Fields \ {"role"}, cache[f] # doc[f]
             PROVE  \E d \in Clients : Refreshing(d, f)'
  BY DEF CacheInv
<1>1. \A d \in Clients : requests'[d] = IF d = c THEN x ELSE requests[d]
  BY Becoming
<1>2. PICK d \in Clients : Refreshing(d, f)
  BY DEF CacheInv
<1>3. CASE d = c
  <2>1. x \in Request /\ x.op = "edit" /\ x.field = f /\ x.at \in {"reread", "emit", "invalidate"}
    BY <1>2, <1>3
  <2> QED
    BY <1>1, <1>3, <2>1 DEF Refreshing, Editing, Busy
<1>4. CASE d # c
  BY <1>1, <1>2, <1>4 DEF Refreshing, Editing, Busy
<1> QED
  BY <1>3, <1>4

\* Every step keeps the copy right, or a change on its way to it.
LEMMA NextCache ==
  ASSUME TypeInv, RequestInv, CacheInv, [Next]_vars, ~raced'
  PROVE  CacheInv'
<1>0. ~Fault
  BY NoFaultUnraced
<1>a. None \notin Request
  OBVIOUS
\* A step of a request that is not a change.
<1>b. ASSUME NEW c \in Clients, ~Editing(c), cache' = cache, doc' = doc,
             NEW x \in Request \cup {None}, Becomes(c, x)
      PROVE  CacheInv'
  BY <1>b, CacheInvKept DEF Refreshing
<1>1. ASSUME NEW c \in Clients, Register(c)
      PROVE  CacheInv'
  BY <1>1 DEF Register, TypeInv, Fresh, CacheInv
<1>2. ASSUME NEW c \in Clients, NEW f \in Fields, BeginEdit(c, f)
      PROVE  CacheInv'
  <2>1. ~Editing(c) /\ cache' = cache /\ doc' = doc /\ \E x \in Request : Becomes(c, x)
    BY <1>2, BeginEditMoves DEF Editing, BeginEdit
  <2> QED
    BY <1>b, <2>1
<1>3. ASSUME NEW c \in Clients, Save(c)
      PROVE  CacheInv'
  <2>1. Editing(c) /\ requests[c].at = "save" /\ cache' = cache
    BY <1>3, SaveMoves DEF Save
  <2>2. PICK x \in Request :
                 /\ Moves(c, x)
                 /\ x.at \in {"reread", "emit"}
                 /\ doc' = [doc EXCEPT ![x.field] = x.copy[x.field]]
    BY <1>0, <1>3, SaveMoves
  <2>3. \A d \in Clients : requests'[d] = IF d = c THEN x ELSE requests[d]
    BY <2>2, Becoming DEF Moves
  <2>4. x.op = "edit" /\ doc \in Data
    BY <2>1, <2>2, Holds DEF Moves, Editing
  <2>5. Refreshing(c, x.field)'
    BY <1>a, <2>2, <2>3, <2>4 DEF Refreshing, Editing, Busy
  <2>6. \A d \in Clients : \A f \in Fields : Refreshing(d, f) => Refreshing(d, f)'
    BY <2>1, <2>3 DEF Refreshing, Editing, Busy
  <2>7. \A f \in Fields \ {x.field} : doc'[f] = doc[f]
    BY <2>2, <2>4 DEF Data
  <2> SUFFICES ASSUME cache # None, NEW f \in Fields \ {"role"}
               PROVE  cache[f] = doc'[f] \/ \E d \in Clients : Refreshing(d, f)'
    BY <2>1 DEF CacheInv
  <2>8. CASE f = x.field
    BY <2>5, <2>8
  <2>9. CASE f # x.field
    BY <2>6, <2>7, <2>9 DEF CacheInv
  <2> QED
    BY <2>8, <2>9
<1>4. ASSUME NEW c \in Clients, Reread(c)
      PROVE  CacheInv'
  <2>1. PICK x \in Request : Moves(c, x) /\ x.at = "emit"
    BY <1>0, <1>4, RereadMoves
  <2>2. Editing(c) /\ cache' = cache /\ doc' = doc
    BY <1>4, RereadMoves DEF Reread
  <2>3. x.op = "edit" /\ x.field = requests[c].field /\ Becomes(c, x)
    BY <2>1, <2>2 DEF Moves, Editing
  <2> QED
    BY <2>1, <2>2, <2>3, CacheInvKept DEF Refreshing
<1>5. ASSUME NEW c \in Clients, Emit(c)
      PROVE  CacheInv'
  <2>1. cache' = cache /\ doc' = doc
    BY <1>5 DEF Emit
  <2>2. CASE Return(c) /\ (requests[c].op # "edit" \/ requests[c].field = "role")
    BY <2>1, <2>2, CacheInvKept DEF Refreshing, Editing, Return
  <2>3. ASSUME Editing(c), NEW x \in Request, Moves(c, x), x.at = "invalidate"
        PROVE  CacheInv'
    <3>1. x.op = "edit" /\ x.field = requests[c].field /\ Becomes(c, x)
      BY <2>3 DEF Moves, Editing
    <3> QED
      BY <2>1, <2>3, <3>1, CacheInvKept DEF Refreshing
  <2>4. ~EmitFails(c)
    BY <1>0 DEF EmitFails
  <2> QED
    BY <1>5, <2>2, <2>3, <2>4, EmitMoves
<1>6. ASSUME NEW c \in Clients, Invalidate(c)
      PROVE  CacheInv'
  BY <1>0, <1>6 DEF Invalidate, CacheInv
<1>7. ASSUME NEW c \in Clients, ReadUser(c)
      PROVE  CacheInv'
  <2>1. \E x \in Request \cup {None} : Becomes(c, x)
    BY <1>7, ReadUserMoves DEF Moves, Return
  <2>2. ~Editing(c) /\ cache' = cache /\ doc' = doc
    BY <1>7, ReadUserMoves DEF ReadUser, Editing
  <2> QED
    BY <1>b, <2>1, <2>2
<1>8. ASSUME NEW c \in Clients, SetCache(c)
      PROVE  CacheInv'
  BY <1>0, <1>8 DEF SetCache, CacheInv
<1>9. ASSUME NEW c \in Clients, GetNode(c)
      PROVE  CacheInv'
  <2>1. \E x \in Request \cup {None} : Becomes(c, x)
    BY <1>9, GetNodeMoves DEF Moves, Return
  <2>2. ~Editing(c) /\ cache' = cache /\ doc' = doc
    BY <1>9, GetNodeMoves DEF GetNode, Compare, Editing
  <2> QED
    BY <1>b, <2>1, <2>2
<1>10. ASSUME NEW c \in Clients, GetUserProfile(c) \/ GetMyProfile(c)
       PROVE  CacheInv'
  <2>1. \E x \in Request : Becomes(c, x)
    BY <1>10, ViewMoves
  <2>2. ~Editing(c) /\ cache' = cache /\ doc' = doc
    BY <1>10 DEF GetUserProfile, GetMyProfile, Editing
  <2> QED
    BY <1>b, <2>1, <2>2
<1>11. ASSUME UNCHANGED <<doc, cache, requests>>
       PROVE  CacheInv'
  BY <1>11 DEF CacheInv, Refreshing, Editing, Busy
<1>12. ASSUME NEW w \in Workers, WorkerStep(w) \/ CrashWorker(w)
       PROVE  UNCHANGED <<doc, cache, requests>>
  BY <1>12 DEF WorkerStep, CrashWorker, Receive, FindUserNode, CreateUserNode, UpdateUserNode
<1>13. CASE ExpireCache
  BY <1>13 DEF ExpireCache, CacheInv
<1>14. CASE RestartBroker \/ UNCHANGED vars
  BY <1>11, <1>14 DEF RestartBroker, vars
<1>15. \A c \in Clients : ~CrashClient(c)
  BY <1>0 DEF CrashClient
<1> QED
  BY <1>1, <1>2, <1>3, <1>4, <1>5, <1>6, <1>7, <1>8, <1>9, <1>10, <1>11, <1>12, <1>13,
     <1>14, <1>15
  DEF Next, ClientStep, ViewSomewhere

-----------------------------------------------------------------------------
(* As long as nothing has raced: messages and nodes *)

\* One message is handled at a time, so that what was found about the node still
\* holds when it is acted upon, and one node is made at most.
GraphInv ==
  /\ \A v, w \in Workers : Working(v) /\ Working(w) => v = w
  /\ \A m, n \in Existing : m = n
  /\ \A w \in Workers : \A j \in Job : jobs[w] = j =>
       /\ j.at = "update" => Existing # {}
       /\ j.at \in {"findAgain", "create"} => Existing = {}
       /\ j.at \in {"findAgain", "update"} => j.kind = "update"

\* The step of the only worker.
LEMMA OnlyWorker ==
  ASSUME TypeInv, GraphInv, NEW w \in Workers, Working(w), NEW j, JobBecomes(w, j)
  PROVE  \A v \in Workers : jobs'[v] = IF v = w THEN j ELSE None
BY JobBecoming DEF GraphInv, Working

\* What a step of a job owes: what it found of the node is true still.
LEMMA JobKept ==
  ASSUME TypeInv, GraphInv, NEW w \in Workers, NEW j \in Job, JobBecomes(w, j),
         nodes' = nodes, \A v \in Workers \ {w} : ~Working(v),
         /\ j.at = "update" => Existing # {}
         /\ j.at \in {"findAgain", "create"} => Existing = {}
         /\ j.at \in {"findAgain", "update"} => j.kind = "update"
  PROVE  GraphInv'
<1>1. \A v \in Workers : jobs'[v] = IF v = w THEN j ELSE None
  BY JobBecoming DEF Working
<1>2. Existing' = Existing
  BY DEF Existing
<1>3. None \notin Job
  OBVIOUS
<1>4. \A u, v \in Workers : Working(u)' /\ Working(v)' => u = v
  BY <1>1 DEF Working
<1>5. \A v \in Workers : \A k \in Job : jobs'[v] = k =>
       /\ k.at = "update" => Existing # {}
       /\ k.at \in {"findAgain", "create"} => Existing = {}
       /\ k.at \in {"findAgain", "update"} => k.kind = "update"
  BY <1>1, <1>3
<1> QED
  BY <1>2, <1>4, <1>5 DEF GraphInv

\* What a job that ends owes: there is one node at most.
LEMMA DoneKept ==
  ASSUME TypeInv, GraphInv, NEW w \in Workers, Working(w), Done(w),
         \A m, n \in Existing' : m = n
  PROVE  GraphInv'
<1>1. \A v \in Workers : jobs'[v] = None
  BY OnlyWorker DEF Done
<1>2. None \notin Job
  OBVIOUS
<1> QED
  BY <1>1, <1>2 DEF GraphInv, Working

\* What FindUserNode does when nothing fails: a message whose node is there
\* already has nothing to create.
LEMMA FindUnraced ==
  ASSUME TypeInv, GraphInv, NEW w \in Workers, FindUserNode(w), ~raced'
  PROVE  /\ Working(w)
         /\ nodes' = nodes /\ queue' = queue
         /\ \/ \E j \in Job : /\ JobMoves(w, j)
                              /\ j.at = "update" => Existing # {}
                              /\ j.at \in {"findAgain", "create"} => Existing = {}
                              /\ j.at \in {"findAgain", "update"} => j.kind = "update"
            \/ Done(w) /\ jobs[w].kind = "create" /\ Existing # {}
<1>1. PICK found \in BOOLEAN :
              /\ found <=> Existing # {}
              /\ \/ /\ found /\ jobs[w].kind = "update" /\ jobs[w].at = "find"
                    /\ \E j \in Job : JobMoves(w, j) /\ j.at = "update"
                 \/ found /\ (jobs[w].at = "findAgain" \/ jobs[w].kind = "create") /\ Done(w)
                 \/ /\ ~found /\ jobs[w].kind = "update" /\ jobs[w].at = "find"
                    /\ \E j \in Job : JobMoves(w, j) /\ j.at = "findAgain"
                 \/ /\ ~found /\ (jobs[w].at = "findAgain" \/ jobs[w].kind = "create")
                    /\ \E j \in Job : JobMoves(w, j) /\ j.at = "create"
  BY FindMoves, NoFaultUnraced
<1>2. Working(w) /\ jobs[w] \in Job /\ jobs[w].at \in {"find", "findAgain"}
  BY FindMoves, HoldsJob
<1>3. nodes' = nodes /\ queue' = queue
  BY DEF FindUserNode
<1>4. jobs[w].at = "findAgain" => Existing = {}
  BY <1>2 DEF GraphInv
<1>5. jobs[w].kind \in {"create", "update"}
  BY <1>2 DEF Job, Kinds
<1>6. CASE found /\ jobs[w].kind = "update" /\ jobs[w].at = "find"
  <2>1. PICK j \in Job : JobMoves(w, j) /\ j.at = "update"
    BY <1>1, <1>4, <1>6
  <2>2. j.kind = "update"
    BY <1>6, <2>1 DEF JobMoves
  <2> QED
    BY <1>1, <1>2, <1>3, <1>6, <2>1, <2>2
<1>7. CASE found /\ (jobs[w].at = "findAgain" \/ jobs[w].kind = "create")
  BY <1>1, <1>2, <1>3, <1>4, <1>7
<1>8. CASE ~found /\ jobs[w].kind = "update" /\ jobs[w].at = "find"
  <2>1. PICK j \in Job : JobMoves(w, j) /\ j.at = "findAgain"
    BY <1>1, <1>8
  <2>2. j.kind = "update"
    BY <1>8, <2>1 DEF JobMoves
  <2> QED
    BY <1>1, <1>2, <1>3, <1>8, <2>1, <2>2
<1>9. CASE ~found /\ (jobs[w].at = "findAgain" \/ jobs[w].kind = "create")
  <2>1. PICK j \in Job : JobMoves(w, j) /\ j.at = "create"
    BY <1>1, <1>9
  <2> QED
    BY <1>1, <1>2, <1>3, <1>9, <2>1
<1> QED
  BY <1>1, <1>6, <1>7, <1>8, <1>9

\* createUserNode, when nothing fails.
LEMMA CreateUnraced ==
  ASSUME TypeInv, GraphInv, NEW w \in Workers, CreateUserNode(w), ~raced'
  PROVE  /\ Working(w) /\ Done(w) /\ queue' = queue
         /\ jobs[w] \in Job
         /\ Existing = {}
         /\ \E n \in NodeIds : /\ Existing' = {n}
                               /\ nodes'[n] = jobs[w].data
<1>1. Working(w) /\ jobs[w] \in Job /\ jobs[w].at = "create" /\ Done(w) /\ queue' = queue
  BY HoldsJob DEF CreateUserNode, Does
<1>2. Existing = {}
  BY <1>1 DEF GraphInv
<1>3. PICK n \in NodeIds \ Existing : nodes' = [nodes EXCEPT ![n] = jobs[w].data]
  BY NoFaultUnraced DEF CreateUserNode
<1>4. nodes \in [NodeIds -> Data \cup {None}] /\ jobs[w].data \in Data /\ None \notin Data
  BY <1>1 DEF TypeInv, TypeOK, Job
<1>5. nodes'[n] = jobs[w].data /\ \A m \in NodeIds \ {n} : nodes'[m] = nodes[m]
  BY <1>3, <1>4
<1>6. Existing' = {n}
  BY <1>2, <1>3, <1>4, <1>5 DEF Existing
<1> QED
  BY <1>1, <1>2, <1>5, <1>6

\* updateUserNode, when nothing fails.
LEMMA UpdateUnraced ==
  ASSUME TypeInv, GraphInv, NEW w \in Workers, UpdateUserNode(w), ~raced'
  PROVE  /\ Working(w) /\ Done(w) /\ queue' = queue
         /\ jobs[w] \in Job /\ jobs[w].kind = "update"
         /\ Existing # {} /\ Existing' = Existing
         /\ \A n \in Existing : nodes'[n] = jobs[w].data
<1>1. Working(w) /\ jobs[w] \in Job /\ jobs[w].at = "update" /\ Done(w) /\ queue' = queue
  BY HoldsJob DEF UpdateUserNode, Does
<1>2. Existing # {} /\ jobs[w].kind = "update"
  BY <1>1 DEF GraphInv
<1>3. nodes' = [n \in NodeIds |-> IF n \in Existing THEN jobs[w].data ELSE None]
  BY NoFaultUnraced DEF UpdateUserNode
<1>4. jobs[w].data \in Data /\ None \notin Data
  BY <1>1 DEF Job
<1>5. Existing' = Existing
  BY <1>3, <1>4 DEF Existing
<1>6. \A n \in Existing : nodes'[n] = jobs[w].data
  BY <1>3 DEF Existing
<1> QED
  BY <1>1, <1>2, <1>5, <1>6

\* Who does not handle messages leaves the graph alone.
Elsewhere == UNCHANGED <<nodes, jobs>>

\* Clients, the cache and the broker touch neither nodes nor jobs.
LEMMA ClientElsewhere ==
  ASSUME \/ \E c \in Clients : Register(c) \/ ClientStep(c) \/ CrashClient(c)
         \/ \E c \in Clients, f \in Fields : BeginEdit(c, f)
         \/ ViewSomewhere
         \/ ExpireCache
         \/ RestartBroker
         \/ UNCHANGED vars
  PROVE  Elsewhere
BY DEF Elsewhere, ClientStep, CrashClient, ViewSomewhere, vars, Register, BeginEdit, Save,
       Reread, Emit, Invalidate, ReadUser, SetCache, GetNode, Compare, GetUserProfile,
       GetMyProfile, ExpireCache, RestartBroker

\* Every step keeps one job at a time, and what it found true.
LEMMA NextGraph ==
  ASSUME TypeInv, GraphInv, [Next]_vars, ~raced'
  PROVE  GraphInv'
<1>1. CASE Elsewhere
  BY <1>1 DEF Elsewhere, GraphInv, Working, Existing
<1>2. ASSUME NEW w \in Workers, Receive(w)
      PROVE  GraphInv'
  <2>1. PICK j \in Job : JobBecomes(w, j) /\ j.at = "find"
    BY <1>2, ReceiveMoves
  <2>2. nodes' = nodes /\ \A v \in Workers \ {w} : ~Working(v)
    BY <1>2 DEF Receive
  <2> QED
    BY <2>1, <2>2, JobKept
<1>3. ASSUME NEW w \in Workers, FindUserNode(w)
      PROVE  GraphInv'
  <2>1. Working(w) /\ nodes' = nodes /\ \A v \in Workers \ {w} : ~Working(v)
    BY <1>3, FindUnraced DEF GraphInv
  <2>2. ASSUME NEW j \in Job, JobMoves(w, j),
               j.at = "update" => Existing # {},
               j.at \in {"findAgain", "create"} => Existing = {},
               j.at \in {"findAgain", "update"} => j.kind = "update"
        PROVE  GraphInv'
    BY <2>1, <2>2, JobKept DEF JobMoves
  <2>3. CASE Done(w)
    <3>1. \A m, n \in Existing' : m = n
      BY <2>1 DEF Existing, GraphInv
    <3> QED
      BY <2>1, <2>3, <3>1, DoneKept
  <2> QED
    BY <1>3, <2>2, <2>3, FindUnraced
<1>4. ASSUME NEW w \in Workers, CreateUserNode(w)
      PROVE  GraphInv'
  BY <1>4, CreateUnraced, DoneKept
<1>5. ASSUME NEW w \in Workers, UpdateUserNode(w)
      PROVE  GraphInv'
  <2>1. Working(w) /\ Done(w) /\ Existing' = Existing
    BY <1>5, UpdateUnraced
  <2>2. \A m, n \in Existing' : m = n
    BY <2>1 DEF GraphInv
  <2> QED
    BY <2>1, <2>2, DoneKept
<1>6. \A w \in Workers : ~CrashWorker(w)
  BY NoFaultUnraced DEF CrashWorker
<1> QED
  BY <1>1, <1>2, <1>3, <1>4, <1>5, <1>6, ClientElsewhere DEF Next, WorkerStep

-----------------------------------------------------------------------------
(* What the messages make of the node *)

NoUpdate(q) == \A i \in DOMAIN q : q[i].kind # "update"

LastUpdate(q, v) ==
  \E i \in DOMAIN q :
    /\ q[i].kind = "update"
    /\ q[i].data = v
    /\ \A j \in DOMAIN q : i < j => q[j].kind # "update"

\* Handled one after the other, the messages of q leave a node with v where b is
\* now: the last update decides, else the node that is there, else the first
\* creation.
Ends(q, b, v) ==
  \/ LastUpdate(q, v)
  \/ NoUpdate(q) /\ b # None /\ v = b
  \/ NoUpdate(q) /\ b = None /\ q # <<>> /\ v = Head(q).data
  \/ NoUpdate(q) /\ b = None /\ q = <<>> /\ v = None

\* The message that w handles will be written; a creation is, if no node is there.
Writes(w) == Working(w) /\ (jobs[w].kind = "update" \/ Existing = {})

NodeIs(b) ==
  \/ b = None /\ Existing = {}
  \/ \E n \in Existing : nodes[n] = b

\* What the messages in the queue will find.
Base(b) ==
  \/ \E w \in Workers : Writes(w) /\ jobs[w].data = b
  \/ (\A w \in Workers : ~Writes(w)) /\ NodeIs(b)

Leads(v) == \E b \in Data \cup {None} : Base(b) /\ Ends(queue, b, v)

\* A change that is saved, and whose message is on its way to the queue.
Telling(c) == Editing(c) /\ requests[c].at \in {"reread", "emit"}

Registering(c) == Busy(c) /\ requests[c].op = "register"

\* The messages lead to the document as it is, or one will be sent that does.
Outcome ==
  Registered =>
    \/ \E c \in Clients : Telling(c)
    \/ doc = ZeroData /\ Leads(None) /\ \E c \in Clients : Registering(c)
    \/ Leads(doc)

\* The messages of a queue.
LEMMA MessageDomain ==
  ASSUME NEW q \in Seq(Message)
  PROVE  /\ Len(q) \in Nat
         /\ DOMAIN q = 1..Len(q)
         /\ \A i \in 1..Len(q) : q[i] \in Message /\ q[i].data \in Data
<1>1. Len(q) \in Nat /\ DOMAIN q = 1..Len(q)
  BY LenProperties
<1>2. \A i \in 1..Len(q) : q[i] \in Message
  BY ElementOfSeq
<1> QED
  BY <1>1, <1>2 DEF Message

\* The queue without its first message.
LEMMA MessageTail ==
  ASSUME NEW q \in Seq(Message), q # <<>>
  PROVE  /\ Head(q) \in Message /\ Head(q).data \in Data /\ Head(q) = q[1]
         /\ Tail(q) \in Seq(Message)
         /\ Len(q) \in Nat \ {0}
         /\ DOMAIN q = 1..Len(q)
         /\ DOMAIN Tail(q) = 1..(Len(q) - 1)
         /\ \A i \in 1..(Len(q) - 1) : Tail(q)[i] = q[i + 1]
<1>1. Head(q) \in Message /\ Tail(q) \in Seq(Message) /\ Len(Tail(q)) = Len(q) - 1
      /\ \A i \in 1..Len(Tail(q)) : Tail(q)[i] = q[i + 1]
  BY HeadTailProperties
<1>2. Len(q) \in Nat \ {0} /\ DOMAIN q = 1..Len(q) /\ DOMAIN Tail(q) = 1..Len(Tail(q))
  BY <1>1, EmptySeq, LenProperties
<1>3. Head(q) = q[1] /\ Head(q).data \in Data
  BY <1>1 DEF Message
<1> QED
  BY <1>1, <1>2, <1>3

\* The queue with one message more.
LEMMA MessageAppend ==
  ASSUME NEW q \in Seq(Message), NEW m \in Message
  PROVE  /\ Append(q, m) \in Seq(Message)
         /\ Append(q, m) # <<>>
         /\ DOMAIN q = 1..Len(q) /\ Len(q) \in Nat
         /\ DOMAIN Append(q, m) = 1..(Len(q) + 1)
         /\ \A i \in 1..Len(q) : Append(q, m)[i] = q[i]
         /\ Append(q, m)[Len(q) + 1] = m
         /\ Head(Append(q, m)) = IF q = <<>> THEN m ELSE Head(q)
<1>1. /\ Append(q, m) \in Seq(Message)
      /\ Append(q, m) # <<>>
      /\ Len(Append(q, m)) = Len(q) + 1
      /\ \A i \in 1..Len(q) : Append(q, m)[i] = q[i]
      /\ Append(q, m)[Len(q) + 1] = m
  BY AppendProperties
<1>2. DOMAIN q = 1..Len(q) /\ Len(q) \in Nat /\ DOMAIN Append(q, m) = 1..(Len(q) + 1)
  BY <1>1, LenProperties
<1>3. Head(Append(q, m)) = Append(q, m)[1]
  BY <1>1, MessageTail
<1>4. CASE q = <<>>
  <2>1. Len(q) = 0
    BY <1>4
  <2> QED
    BY <1>1, <1>2, <1>3, <1>4, <2>1
<1>5. CASE q # <<>>
  <2>1. Head(q) = q[1] /\ 1 \in 1..Len(q)
    BY <1>5, MessageTail
  <2> QED
    BY <1>1, <1>2, <1>3, <1>5, <2>1
<1> QED
  BY <1>4, <1>5

\* The next message is received: if it will be written it takes the place of the
\* node, else the node stays.
LEMMA EndsTail ==
  ASSUME NEW q \in Seq(Message), q # <<>>, NEW b \in Data \cup {None},
         NEW v \in Data \cup {None}, Ends(q, b, v)
  PROVE  /\ Head(q).kind = "update" \/ b = None => Ends(Tail(q), Head(q).data, v)
         /\ Head(q).kind # "update" /\ b # None => Ends(Tail(q), b, v)
<1> DEFINE t == Tail(q)
           n == Len(q)
<1>1. /\ Head(q).data \in Data /\ Head(q) = q[1]
      /\ n \in Nat \ {0}
      /\ DOMAIN q = 1..n
      /\ DOMAIN t = 1..(n - 1)
      /\ \A i \in 1..(n - 1) : t[i] = q[i + 1]
  BY MessageTail
<1>2. Head(q).data # None
  BY <1>1
<1> HIDE DEF t, n
<1>3. CASE LastUpdate(q, v)
  <2>1. PICK i \in 1..n : /\ q[i].kind = "update"
                          /\ q[i].data = v
                          /\ \A j \in 1..n : i < j => q[j].kind # "update"
    BY <1>1, <1>3 DEF LastUpdate
  <2>2. CASE i = 1
    <3>1. NoUpdate(t)
      <4> SUFFICES ASSUME NEW k \in 1..(n - 1) PROVE t[k].kind # "update"
        BY <1>1 DEF NoUpdate
      <4>1. k + 1 \in 1..n /\ 1 < k + 1
        BY <1>1
      <4> QED
        BY <1>1, <2>1, <2>2, <4>1
    <3>2. Head(q).kind = "update" /\ v = Head(q).data
      BY <1>1, <2>1, <2>2
    <3> QED
      BY <1>2, <3>1, <3>2 DEF Ends, t
  <2>3. CASE i # 1
    <3>1. i - 1 \in 1..(n - 1) /\ (i - 1) + 1 = i
      BY <1>1, <2>3
    <3>2. t[i - 1] = q[i]
      BY <1>1, <3>1
    <3>3. ASSUME NEW k \in 1..(n - 1), i - 1 < k
          PROVE  t[k].kind # "update"
      <4>1. k + 1 \in 1..n /\ i < k + 1
        BY <1>1, <3>3
      <4> QED
        BY <1>1, <2>1, <4>1
    <3>4. LastUpdate(t, v)
      BY <1>1, <2>1, <3>1, <3>2, <3>3 DEF LastUpdate
    <3> QED
      BY <3>4 DEF Ends, t
  <2> QED
    BY <2>2, <2>3
<1>4. CASE NoUpdate(q)
  <2>1. NoUpdate(t)
    <3> SUFFICES ASSUME NEW k \in 1..(n - 1) PROVE t[k].kind # "update"
      BY <1>1 DEF NoUpdate
    <3>1. k + 1 \in 1..n
      BY <1>1
    <3> QED
      BY <1>1, <1>4, <3>1 DEF NoUpdate
  <2>2. Head(q).kind # "update"
    <3>1. 1 \in 1..n
      BY <1>1
    <3> QED
      BY <1>1, <1>4, <3>1 DEF NoUpdate
  <2>3. ~LastUpdate(q, v)
    BY <1>4 DEF LastUpdate, NoUpdate
  <2> QED
    BY <1>2, <2>1, <2>2, <2>3 DEF Ends, t
<1> QED
  BY <1>3, <1>4 DEF Ends

\* An update decides.
LEMMA EndsUpdate ==
  ASSUME NEW q \in Seq(Message), NEW m \in Message, m.kind = "update", NEW b
  PROVE  Ends(Append(q, m), b, m.data)
<1> DEFINE a == Append(q, m)
           n == Len(q) + 1
<1>1. n \in Nat /\ DOMAIN a = 1..n /\ a[n] = m /\ n \in 1..n
  BY MessageAppend
<1> HIDE DEF a, n
<1>2. \A j \in 1..n : ~(n < j)
  BY <1>1
<1>3. LastUpdate(a, m.data)
  BY <1>1, <1>2 DEF LastUpdate
<1> QED
  BY <1>3 DEF Ends, a

\* A creation behind what leads to a node changes nothing.
LEMMA EndsCreate ==
  ASSUME NEW q \in Seq(Message), NEW m \in Message, NEW b \in Data \cup {None},
         NEW v \in Data, m.kind = "create", Ends(q, b, v)
  PROVE  Ends(Append(q, m), b, v)
<1> DEFINE a == Append(q, m)
           n == Len(q)
<1>1. /\ n \in Nat /\ DOMAIN q = 1..n /\ DOMAIN a = 1..(n + 1)
      /\ \A i \in 1..n : a[i] = q[i]
      /\ a[n + 1] = m
      /\ a # <<>>
      /\ Head(a) = IF q = <<>> THEN m ELSE Head(q)
  BY MessageAppend
<1>2. v # None /\ m.kind # "update"
  OBVIOUS
<1> HIDE DEF a, n
<1>3. CASE LastUpdate(q, v)
  <2>1. PICK i \in 1..n : /\ q[i].kind = "update"
                          /\ q[i].data = v
                          /\ \A j \in 1..n : i < j => q[j].kind # "update"
    BY <1>1, <1>3 DEF LastUpdate
  <2>2. i \in 1..(n + 1) /\ \A j \in 1..(n + 1) : j \in 1..n \/ j = n + 1
    BY <1>1
  <2>3. \A j \in 1..(n + 1) : i < j => a[j].kind # "update"
    BY <1>1, <1>2, <2>1, <2>2
  <2>4. LastUpdate(a, v)
    BY <1>1, <2>1, <2>2, <2>3 DEF LastUpdate
  <2> QED
    BY <2>4 DEF Ends, a
<1>4. CASE NoUpdate(q)
  <2>1. \A j \in 1..(n + 1) : j \in 1..n \/ j = n + 1
    BY <1>1
  <2>2. NoUpdate(a)
    BY <1>1, <1>2, <1>4, <2>1 DEF NoUpdate
  <2>3. ~LastUpdate(q, v)
    BY <1>4 DEF LastUpdate, NoUpdate
  <2> QED
    BY <1>1, <1>2, <2>2, <2>3 DEF Ends, a
<1> QED
  BY <1>3, <1>4 DEF Ends

\* A message with what the others lead to changes nothing.
LEMMA EndsAgain ==
  ASSUME NEW q \in Seq(Message), NEW m \in Message, NEW b \in Data \cup {None},
         Ends(q, b, m.data)
  PROVE  Ends(Append(q, m), b, m.data)
<1>1. m.data \in Data /\ m.kind \in {"create", "update"}
  BY DEF Message, Kinds
<1> QED
  BY <1>1, EndsUpdate, EndsCreate

\* Only an empty queue leaves no node.
LEMMA EndsNone ==
  ASSUME NEW q \in Seq(Message), NEW b \in Data \cup {None}, Ends(q, b, None)
  PROVE  q = <<>> /\ b = None
<1>1. ~LastUpdate(q, None)
  BY MessageDomain DEF LastUpdate
<1>2. q # <<>> => Head(q).data # None
  BY MessageTail
<1> QED
  BY <1>1, <1>2 DEF Ends

\* The first message makes the node.
LEMMA EndsFirst ==
  ASSUME NEW q \in Seq(Message), NEW m \in Message, q = <<>>
  PROVE  Ends(Append(q, m), None, m.data)
<1>1. CASE m.kind = "update"
  BY <1>1, EndsUpdate
<1>2. CASE m.kind # "update"
  <2>1. Len(q) = 0 /\ Append(q, m)[Len(q) + 1] = m /\ DOMAIN Append(q, m) = 1..(Len(q) + 1)
        /\ Append(q, m) # <<>> /\ Head(Append(q, m)) = m
    BY MessageAppend
  <2>2. DOMAIN Append(q, m) = {1} /\ Append(q, m)[1] = m
    BY <2>1
  <2>3. NoUpdate(Append(q, m))
    BY <1>2, <2>2 DEF NoUpdate
  <2> QED
    BY <2>1, <2>3 DEF Ends
<1> QED
  BY <1>1, <1>2

-----------------------------------------------------------------------------
(* The messages keep leading to the document *)

\* What the messages start from is a user or nothing.
LEMMA BaseExists ==
  ASSUME TypeInv
  PROVE  \E b \in Data \cup {None} : Base(b)
<1>1. CASE \E w \in Workers : Writes(w)
  <2>1. PICK w \in Workers : Writes(w)
    BY <1>1
  <2>2. jobs[w].data \in Data
    BY <2>1, HoldsJob DEF Writes, Job
  <2> QED
    BY <2>1, <2>2 DEF Base
<1>2. CASE (\A w \in Workers : ~Writes(w)) /\ Existing = {}
  BY <1>2 DEF Base, NodeIs
<1>3. CASE (\A w \in Workers : ~Writes(w)) /\ Existing # {}
  <2>1. PICK n \in Existing : TRUE
    BY <1>3
  <2>2. nodes[n] \in Data
    BY <2>1 DEF Existing, TypeInv, TypeOK
  <2> QED
    BY <1>3, <2>1, <2>2 DEF Base, NodeIs
<1> QED
  BY <1>1, <1>2, <1>3

\* What Leads(v)' says of a v that is not primed.
LeadsNext(v) == \E b \in Data \cup {None} : Base(b)' /\ Ends(queue', b, v)

\* The worker takes the next message.
LEMMA ReceiveLeads ==
  ASSUME TypeInv, GraphInv, NEW w \in Workers, Receive(w), ~raced',
         NEW v \in Data \cup {None}, Leads(v)
  PROVE  LeadsNext(v)
<1>1. PICK j \in Job : /\ JobBecomes(w, j)
                       /\ j.kind = Head(queue).kind /\ j.data = Head(queue).data
  BY ReceiveMoves
<1>2. /\ queue # <<>> /\ queue \in Seq(Message) /\ queue' = Tail(queue)
      /\ nodes' = nodes
      /\ \A u \in Workers : ~Working(u)
  BY ReceiveMoves DEF Receive, TypeInv, TypeOK
<1>3. None \notin Job /\ None \notin Data /\ j.data \in Data
  BY DEF Job
<1>4. \A u \in Workers : jobs'[u] = IF u = w THEN j ELSE None
  BY <1>1, <1>2, JobBecoming DEF Working
<1>5. Existing' = Existing
  BY <1>2 DEF Existing
<1>6. \A u \in Workers : Writes(u)' <=> u = w /\ (j.kind = "update" \/ Existing = {})
  BY <1>3, <1>4, <1>5 DEF Writes, Working
<1>7. PICK b \in Data \cup {None} : NodeIs(b) /\ Ends(queue, b, v)
  BY <1>2 DEF Leads, Base, Writes
<1>8. b = None <=> Existing = {}
  BY <1>3, <1>7 DEF NodeIs, Existing
<1>9. CASE j.kind = "update" \/ Existing = {}
  <2>1. Writes(w)' /\ jobs'[w].data = j.data
    BY <1>4, <1>6, <1>9
  <2>2. Base(j.data)'
    BY <2>1 DEF Base
  <2>3. Ends(queue', j.data, v)
    BY <1>1, <1>2, <1>7, <1>8, <1>9, EndsTail
  <2> QED
    BY <1>3, <2>2, <2>3 DEF LeadsNext
<1>10. CASE j.kind # "update" /\ Existing # {}
  <2>1. NodeIs(b)'
    BY <1>2, <1>5, <1>7 DEF NodeIs
  <2>2. Base(b)'
    BY <1>6, <1>10, <2>1 DEF Base
  <2>3. Ends(queue', b, v)
    BY <1>1, <1>2, <1>7, <1>8, <1>10, EndsTail
  <2> QED
    BY <2>2, <2>3 DEF LeadsNext
<1> QED
  BY <1>9, <1>10

\* It looks for the node.
LEMMA FindLeads ==
  ASSUME TypeInv, GraphInv, NEW w \in Workers, FindUserNode(w), ~raced',
         NEW v \in Data \cup {None}, Leads(v)
  PROVE  LeadsNext(v)
<1>1. Working(w) /\ nodes' = nodes /\ queue' = queue
  BY FindUnraced
<1>2. Existing' = Existing
  BY <1>1 DEF Existing
<1>3. PICK b \in Data \cup {None} : Base(b) /\ Ends(queue, b, v)
  BY DEF Leads
<1>4. \A u \in Workers : u # w => ~Working(u)
  BY <1>1 DEF GraphInv
<1>5. ASSUME NEW j \in Job, JobMoves(w, j)
      PROVE  Base(b)'
  <2>1. \A u \in Workers : jobs'[u] = IF u = w THEN j ELSE None
    BY <1>1, <1>5, OnlyWorker DEF JobMoves
  <2>2. j.kind = jobs[w].kind /\ j.data = jobs[w].data /\ None \notin Job
    BY <1>5 DEF JobMoves
  <2>3. \A u \in Workers : (Writes(u)' <=> Writes(u)) /\ (Writes(u)' => u = w)
    BY <1>1, <1>2, <1>4, <2>1, <2>2 DEF Writes, Working
  <2>4. CASE \E u \in Workers : Writes(u) /\ jobs[u].data = b
    <3>1. Writes(w)' /\ jobs'[w].data = b
      BY <2>1, <2>2, <2>3, <2>4
    <3> QED
      BY <3>1 DEF Base
  <2>5. CASE (\A u \in Workers : ~Writes(u)) /\ NodeIs(b)
    BY <1>1, <1>2, <2>3, <2>5 DEF Base, NodeIs
  <2> QED
    BY <1>3, <2>4, <2>5 DEF Base
<1>6. ASSUME Done(w), jobs[w].kind = "create", Existing # {}
      PROVE  Base(b)'
  <2>1. \A u \in Workers : jobs'[u] = None
    BY <1>1, <1>6, OnlyWorker DEF Done
  <2>2. \A u \in Workers : ~Writes(u) /\ ~Writes(u)'
    BY <1>4, <1>6, <2>1 DEF Writes, Working
  <2>3. NodeIs(b)'
    BY <1>1, <1>2, <1>3, <2>2 DEF Base, NodeIs
  <2> QED
    BY <2>2, <2>3 DEF Base
<1>7. Base(b)'
  BY <1>5, <1>6, FindUnraced
<1> QED
  BY <1>1, <1>3, <1>7 DEF LeadsNext

\* It writes the node.
LEMMA WriteLeads ==
  ASSUME TypeInv, GraphInv, NEW w \in Workers, CreateUserNode(w) \/ UpdateUserNode(w), ~raced',
         NEW v \in Data \cup {None}, Leads(v)
  PROVE  LeadsNext(v)
<1>1. Working(w) /\ Done(w) /\ queue' = queue /\ jobs[w].data \in Data
  BY CreateUnraced, UpdateUnraced DEF Job
<1>2. Writes(w)
  BY <1>1, CreateUnraced, UpdateUnraced DEF Writes
<1>3. \A u \in Workers : Writes(u) => u = w
  BY <1>1 DEF GraphInv, Writes
<1>4. PICK b \in Data \cup {None} : Base(b) /\ Ends(queue, b, v)
  BY DEF Leads
<1>5. b = jobs[w].data
  BY <1>2, <1>3, <1>4 DEF Base
<1>6. \A u \in Workers : ~Writes(u)'
  BY <1>1, OnlyWorker DEF Done, Writes, Working
<1>7. \E n \in Existing' : nodes'[n] = jobs[w].data
  BY CreateUnraced, UpdateUnraced
<1>8. Base(b)'
  BY <1>5, <1>6, <1>7 DEF Base, NodeIs
<1> QED
  BY <1>1, <1>4, <1>8 DEF LeadsNext

\* What the messages lead to stays the outcome, if it is what they led to before.
LEMMA OutcomeLeads ==
  ASSUME TypeInv, Outcome, UNCHANGED <<doc, requests>>,
         \A v \in Data \cup {None} : Leads(v) => LeadsNext(v)
  PROVE  Outcome'
<1> SUFFICES ASSUME Registered
             PROVE  \/ \E c \in Clients : Telling(c)'
                    \/ doc = ZeroData /\ Leads(None)' /\ \E c \in Clients : Registering(c)'
                    \/ Leads(doc)'
  BY DEF Outcome, Registered
<1>1. doc \in Data /\ doc' = doc
  BY DEF TypeInv, TypeOK, Registered
<1>2. CASE \E c \in Clients : Telling(c)
  BY <1>2 DEF Telling, Editing, Busy
<1>3. CASE doc = ZeroData /\ Leads(None) /\ \E c \in Clients : Registering(c)
  <2>1. LeadsNext(None)
    BY <1>3
  <2>2. Leads(None)'
    BY <2>1 DEF LeadsNext, Leads
  <2> QED
    BY <1>3, <2>2 DEF Registering, Busy
<1>4. CASE Leads(doc)
  <2>1. LeadsNext(doc)
    BY <1>1, <1>4
  <2> QED
    BY <1>1, <2>1 DEF LeadsNext, Leads
<1> QED
  BY <1>2, <1>3, <1>4 DEF Outcome

\* A request that neither has a message to send nor has just sent one.
LEMMA OutcomeKept ==
  ASSUME TypeInv, Outcome, Elsewhere, doc' = doc, queue' = queue,
         NEW c \in Clients, NEW x, Becomes(c, x),
         ~Telling(c), ~Registering(c)
  PROVE  Outcome'
<1>1. \A d \in Clients : requests'[d] = IF d = c THEN x ELSE requests[d]
  BY Becoming
<1>2. \A d \in Clients : Telling(d) => Telling(d)'
  BY <1>1 DEF Telling, Editing, Busy
<1>3. \A d \in Clients : Registering(d) => Registering(d)'
  BY <1>1 DEF Registering, Busy
<1>4. \A b : Base(b) => Base(b)'
  BY DEF Elsewhere, Base, NodeIs, Writes, Working, Existing
<1>5. Leads(None) => Leads(None)'
  BY <1>4 DEF Leads
<1>6. Leads(doc) => Leads(doc)'
  BY <1>4 DEF Leads
<1> QED
  BY <1>2, <1>3, <1>5, <1>6 DEF Outcome, Registered

\* A message that is sent makes the document the outcome.
LEMMA EmitOutcome ==
  ASSUME TypeInv, RequestInv, GraphInv, Outcome, NEW c \in Clients, Emit(c), ~raced'
  PROVE  Outcome'
<1> DEFINE r == requests[c]
           m == [kind |-> r.kind, data |-> r.copy]
<1>1. /\ r \in Request /\ Typed(r) /\ r.at = "emit" /\ Busy(c) /\ r.copy \in Data
      /\ doc \in Data /\ doc' = doc /\ Elsewhere
  BY EmitMoves, Holds, ClientElsewhere DEF At, Emit, ClientStep
<1>2. /\ Sent(r, m)
      /\ \/ Return(c)
         \/ Editing(c) /\ \E s \in Request : Moves(c, s) /\ s.at = "invalidate"
  BY EmitMoves, NoFaultUnraced DEF EmitFails
<1>3. PICK x : Becomes(c, x)
  BY <1>2 DEF Return, Moves
<1>4. m \in Message /\ m.kind = r.kind /\ m.data = r.copy
  BY <1>1 DEF Request, Message
<1> HIDE DEF m
<1>5. queue \in Seq(Message) /\ queue' = Append(queue, m)
  BY <1>2 DEF Sent, TypeInv, TypeOK
<1>6. \A d \in Clients : requests'[d] = IF d = c THEN x ELSE requests[d]
  BY <1>3, Becoming
<1>7. \A b : Base(b) => Base(b)'
  BY <1>1 DEF Elsewhere, Base, NodeIs, Writes, Working, Existing
<1>8. Registered
  BY <1>1 DEF Registered
<1>9. m.data = doc => (Leads(doc) => Leads(doc)')
  <2> SUFFICES ASSUME m.data = doc, Leads(doc) PROVE Leads(doc)'
    OBVIOUS
  <2>1. PICK b \in Data \cup {None} : Base(b) /\ Ends(queue, b, m.data)
    BY DEF Leads
  <2>2. Ends(queue', b, m.data)
    BY <1>4, <1>5, <2>1, EndsAgain
  <2> QED
    BY <1>1, <1>7, <2>1, <2>2 DEF Leads
<1>10. m.data = doc => (Leads(None) => Leads(doc)')
  <2> SUFFICES ASSUME m.data = doc, Leads(None) PROVE Leads(doc)'
    OBVIOUS
  <2>1. PICK b \in Data \cup {None} : Base(b) /\ Ends(queue, b, None)
    BY DEF Leads
  <2>2. queue = <<>> /\ b = None
    BY <1>5, <2>1, EndsNone
  <2>3. Ends(queue', None, m.data)
    BY <1>4, <1>5, <2>2, EndsFirst
  <2> QED
    BY <1>1, <1>7, <2>1, <2>2, <2>3 DEF Leads
<1>11. CASE r.op = "edit"
  <2>1. m.kind = "update" /\ m.data = doc
    BY <1>1, <1>4, <1>11 DEF Typed, RequestInv, Current
  <2>2. PICK b \in Data \cup {None} : Base(b)
    BY BaseExists
  <2>3. Ends(queue', b, doc)
    BY <1>4, <1>5, <2>1, EndsUpdate
  <2>4. Leads(doc)'
    BY <1>1, <1>7, <2>2, <2>3 DEF Leads
  <2> QED
    BY <2>4 DEF Outcome
<1>12. CASE r.op # "edit"
  <2>1. \A d \in Clients : Telling(d) => Telling(d)'
    BY <1>6, <1>12 DEF Telling, Editing, Busy
  <2>2. CASE r.op = "view"
    <3>1. m.data = doc
      BY <1>2, <1>4, <2>2 DEF Sent
    <3> QED
      BY <1>8, <1>9, <1>10, <2>1, <3>1 DEF Outcome
  <2>3. CASE r.op = "register"
    <3>1. m.data = ZeroData
      BY <1>1, <1>4, <2>3 DEF RequestInv, Current
    <3>2. CASE doc = ZeroData
      BY <1>8, <1>9, <1>10, <2>1, <3>1, <3>2 DEF Outcome
    <3>3. CASE doc # ZeroData /\ Leads(doc)
      <4>1. PICK b \in Data \cup {None} : Base(b) /\ Ends(queue, b, doc)
        BY <3>3 DEF Leads
      <4>2. m.kind = "create"
        BY <1>1, <1>4, <2>3 DEF Typed
      <4>3. Ends(queue', b, doc)
        BY <1>1, <1>4, <1>5, <4>1, <4>2, EndsCreate
      <4>4. Leads(doc)'
        BY <1>1, <1>7, <4>1, <4>3 DEF Leads
      <4> QED
        BY <4>4 DEF Outcome
    <3> QED
      BY <1>8, <2>1, <3>2, <3>3 DEF Outcome
  <2> QED
    BY <1>1, <1>12, <2>2, <2>3 DEF Request, Operations
<1> QED
  BY <1>11, <1>12

\* Every step keeps the document the outcome, or a request about to send it.
LEMMA NextOutcome ==
  ASSUME TypeInv, RequestInv, GraphInv, Outcome, [Next]_vars, ~raced'
  PROVE  Outcome'
<1>0. ~Fault
  BY NoFaultUnraced
<1>1. ASSUME NEW c \in Clients, Register(c)
      PROVE  Outcome'
  <2>1. PICK x \in Request : Becomes(c, x) /\ x.op = "register"
    BY <1>1, RegisterMoves
  <2>2. Registering(c)'
    <3>1. requests'[c] = x /\ None \notin Request
      BY <2>1, Becoming
    <3> QED
      BY <2>1, <3>1 DEF Registering, Busy
  <2>3. Fresh /\ Elsewhere /\ queue' = queue /\ doc' = ZeroData
    BY <1>1, ClientElsewhere DEF Register, TypeInv, ZeroData
  <2>4. Base(None)' /\ queue' = <<>>
    BY <2>3 DEF Fresh, Elsewhere, Base, NodeIs, Writes, Working, Existing
  <2>5. Ends(<<>>, None, None)
    BY DEF Ends, NoUpdate
  <2>6. Leads(None)'
    BY <2>4, <2>5 DEF Leads
  <2> QED
    BY <2>2, <2>3, <2>6 DEF Outcome
<1>2. ASSUME NEW c \in Clients, NEW f \in Fields, BeginEdit(c, f)
      PROVE  Outcome'
  <2>1. ~Busy(c) /\ doc' = doc /\ queue' = queue /\ Elsewhere /\ \E x : Becomes(c, x)
    BY <1>2, BeginEditMoves DEF BeginEdit, Elsewhere
  <2> QED
    BY <2>1, OutcomeKept DEF Telling, Registering, Editing
<1>3. ASSUME NEW c \in Clients, Save(c)
      PROVE  Outcome'
  <2>1. PICK x \in Request : Moves(c, x) /\ x.at \in {"reread", "emit"}
    BY <1>0, <1>3, SaveMoves
  <2>2. Editing(c)
    BY <1>3, SaveMoves
  <2>3. requests'[c] = x /\ None \notin Request /\ x.op = "edit"
    BY <2>1, <2>2, Becoming DEF Moves, Editing
  <2>4. Telling(c)'
    BY <2>1, <2>3 DEF Telling, Editing, Busy
  <2> QED
    BY <2>4 DEF Outcome
<1>4. ASSUME NEW c \in Clients, Reread(c)
      PROVE  Outcome'
  <2>1. PICK x \in Request : Moves(c, x) /\ x.at = "emit"
    BY <1>0, <1>4, RereadMoves
  <2>2. Editing(c)
    BY <1>4, RereadMoves
  <2>3. requests'[c] = x /\ None \notin Request /\ x.op = "edit"
    BY <2>1, <2>2, Becoming DEF Moves, Editing
  <2>4. Telling(c)'
    BY <2>1, <2>3 DEF Telling, Editing, Busy
  <2> QED
    BY <2>4 DEF Outcome
<1>5. ASSUME NEW c \in Clients, Emit(c)
      PROVE  Outcome'
  BY <1>5, EmitOutcome
<1>6. ASSUME NEW c \in Clients, Invalidate(c)
      PROVE  Outcome'
  <2>1. Busy(c) /\ requests[c].at = "invalidate" /\ requests[c].op = "edit"
    BY <1>6, Holds DEF Invalidate, At, Typed
  <2>2. doc' = doc /\ queue' = queue /\ Elsewhere /\ \E x : Becomes(c, x)
    BY <1>6 DEF Invalidate, Elsewhere, Return
  <2>3. ~Telling(c) /\ ~Registering(c)
    BY <2>1 DEF Telling, Registering
  <2> QED
    BY <2>2, <2>3, OutcomeKept
<1>7. ASSUME NEW c \in Clients, ReadUser(c) \/ SetCache(c) \/ GetNode(c)
      PROVE  Outcome'
  <2>1. requests[c].op = "view"
    BY <1>7, ReadUserMoves, SetCacheMoves, GetNodeMoves
  <2>2. \E x : Becomes(c, x)
    BY <1>7, ReadUserMoves, SetCacheMoves, GetNodeMoves DEF Moves, Return
  <2>3. doc' = doc /\ queue' = queue /\ Elsewhere
    BY <1>7 DEF ReadUser, SetCache, GetNode, Compare, Elsewhere
  <2>4. ~Telling(c) /\ ~Registering(c)
    BY <2>1 DEF Telling, Registering, Editing
  <2> QED
    BY <2>2, <2>3, <2>4, OutcomeKept
<1>8. ASSUME NEW c \in Clients, GetUserProfile(c) \/ GetMyProfile(c)
      PROVE  Outcome'
  <2>1. ~Busy(c) /\ \E x : Becomes(c, x)
    BY <1>8, ViewMoves
  <2>2. doc' = doc /\ queue' = queue /\ Elsewhere
    BY <1>8 DEF GetUserProfile, GetMyProfile, Elsewhere
  <2> QED
    BY <2>1, <2>2, OutcomeKept DEF Telling, Registering, Editing
<1>9. ASSUME NEW w \in Workers, WorkerStep(w)
      PROVE  Outcome'
  <2>1. UNCHANGED <<doc, requests>>
    BY <1>9 DEF WorkerStep, Receive, FindUserNode, CreateUserNode, UpdateUserNode
  <2>2. \A v \in Data \cup {None} : Leads(v) => LeadsNext(v)
    BY <1>9, ReceiveLeads, FindLeads, WriteLeads DEF WorkerStep
  <2> QED
    BY <2>1, <2>2, OutcomeLeads
<1>10. CASE ExpireCache \/ UNCHANGED vars
  <2>1. UNCHANGED <<doc, requests, queue, jobs, nodes>>
    BY <1>10 DEF ExpireCache, vars
  <2> QED
    BY <2>1 DEF Outcome, Registered, Telling, Registering, Editing, Busy, Leads, Base, NodeIs,
                Writes, Working, Existing
<1>11. /\ \A c \in Clients : ~CrashClient(c)
       /\ \A w \in Workers : ~CrashWorker(w)
       /\ ~RestartBroker
  BY <1>0 DEF CrashClient, CrashWorker, RestartBroker
<1> QED
  BY <1>1, <1>2, <1>3, <1>4, <1>5, <1>6, <1>7, <1>8, <1>9, <1>10, <1>11
  DEF Next, ClientStep, ViewSomewhere

-----------------------------------------------------------------------------
(* The node is not ahead of the document, and does not go back *)

\* In no field is d later than e.
Behind(d, e) == \A f \in Fields : d[f] <= e[f]

\* A copy is not ahead of itself.
LEMMA BehindAgain == ASSUME NEW d \in Data PROVE Behind(d, d)
BY DEF Behind, Data

\* Being behind is transitive.
LEMMA BehindLater ==
  ASSUME NEW c \in Data, NEW d \in Data, NEW e \in Data, Behind(c, d), Behind(d, e)
  PROVE  Behind(c, e)
<1> SUFFICES ASSUME NEW f \in Fields PROVE c[f] <= e[f]
  BY DEF Behind
<1>1. c[f] \in Int /\ d[f] \in Int /\ e[f] \in Int
  BY DEF Data
<1>2. c[f] <= d[f] /\ d[f] <= e[f]
  BY DEF Behind
<1> QED
  BY <1>1, <1>2

\* What an update with d will replace: the node, what is handled before it, and
\* what is in the queue before place i.
NodeBehind(d) == \A n \in Existing : Behind(nodes[n], d)
JobBehind(d) == \A w \in Workers : Working(w) => Behind(jobs[w].data, d)

\* Nothing is ahead of the document, and nothing an update will replace is ahead
\* of the update.
OrderInv ==
  /\ NodeBehind(doc)
  /\ JobBehind(doc)
  /\ \A i \in DOMAIN queue : Behind(queue[i].data, doc)
  /\ \A w \in Workers : Working(w) /\ jobs[w].kind = "update" => NodeBehind(jobs[w].data)
  /\ \A i \in DOMAIN queue : queue[i].kind = "update" =>
       /\ NodeBehind(queue[i].data)
       /\ JobBehind(queue[i].data)
       /\ \A j \in DOMAIN queue : j < i => Behind(queue[j].data, queue[i].data)

\* What nodes, jobs and messages hold are copies of the user.
LEMMA GraphData ==
  ASSUME TypeInv
  PROVE  /\ \A n \in Existing : nodes[n] \in Data
         /\ \A w \in Workers : Working(w) => jobs[w].data \in Data
         /\ \A i \in DOMAIN queue : queue[i].data \in Data
<1>1. \A n \in Existing : nodes[n] \in Data
  BY DEF TypeInv, TypeOK, Existing
<1>2. \A w \in Workers : Working(w) => jobs[w].data \in Data
  BY HoldsJob DEF Job
<1>3. \A i \in DOMAIN queue : queue[i].data \in Data
  BY MessageDomain DEF TypeInv, TypeOK
<1> QED
  BY <1>1, <1>2, <1>3

\* Before the registration there is nothing to be ahead.
LEMMA FreshOrder ==
  ASSUME TypeInv, Fresh, Elsewhere, queue' = queue
  PROVE  OrderInv'
<1>1. /\ Existing' = {} /\ DOMAIN queue' = {}
      /\ \A w \in Workers : ~Working(w)'
  BY DEF Fresh, Elsewhere, Existing, Working
<1> QED
  BY <1>1 DEF OrderInv, NodeBehind, JobBehind

\* The document goes ahead, or stays.
LEMMA DocOrder ==
  ASSUME TypeInv, OrderInv, Elsewhere, queue' = queue, doc \in Data, doc' \in Data,
         Behind(doc, doc')
  PROVE  OrderInv'
<1>1. /\ Existing' = Existing /\ nodes' = nodes /\ jobs' = jobs
      /\ \A w \in Workers : Working(w)' <=> Working(w)
  BY DEF Elsewhere, Existing, Working
<1>2. \A d \in Data : Behind(d, doc) => Behind(d, doc')
  BY BehindLater
<1>3. /\ \A n \in Existing : Behind(nodes[n], doc')
      /\ \A w \in Workers : Working(w) => Behind(jobs[w].data, doc')
      /\ \A i \in DOMAIN queue : Behind(queue[i].data, doc')
  BY <1>2, GraphData DEF OrderInv, NodeBehind, JobBehind
<1> QED
  BY <1>1, <1>3 DEF OrderInv, NodeBehind, JobBehind

\* A new user is ahead of none.
LEMMA ZeroBehind ==
  ASSUME NEW d \in Data
  PROVE  ZeroData \in Data /\ Behind(ZeroData, d)
BY DEF ZeroData, Data, Behind

\* A message that is sent is ahead of none before it.
LEMMA EmitOrder ==
  ASSUME TypeInv, RequestInv, OrderInv, NEW c \in Clients, Emit(c), ~raced'
  PROVE  OrderInv'
<1> DEFINE r == requests[c]
           m == [kind |-> r.kind, data |-> r.copy]
           n == Len(queue)
<1>1. /\ r \in Request /\ Typed(r) /\ r.at = "emit" /\ r.copy \in Data
      /\ doc \in Data /\ doc' = doc
  BY EmitMoves, Holds DEF At, Emit
<1>2. Sent(r, m)
  BY EmitMoves, NoFaultUnraced DEF EmitFails
<1>3. m \in Message /\ m.kind = r.kind /\ m.data = r.copy
  BY <1>1 DEF Request, Message
<1>4. Current(r)
  BY <1>1 DEF RequestInv
<1>5. r.op = "register" \/ r.copy = doc
  <2>1. CASE r.op = "view"
    BY <1>2, <2>1 DEF Sent
  <2>2. CASE r.op = "edit"
    BY <1>1, <1>4, <2>2 DEF Current
  <2> QED
    BY <1>1, <2>1, <2>2 DEF Request, Operations
<1> HIDE DEF m
<1>6. m.kind = "update" => m.data = doc
  BY <1>1, <1>3, <1>5 DEF Typed
<1>7. Behind(m.data, doc)
  BY <1>1, <1>3, <1>4, <1>5, BehindAgain, ZeroBehind DEF Current
<1>8. /\ n \in Nat /\ DOMAIN queue = 1..n /\ DOMAIN queue' = 1..(n + 1)
      /\ \A i \in 1..n : queue'[i] = queue[i]
      /\ queue'[n + 1] = m
  BY <1>2, <1>3, MessageAppend DEF Sent, TypeInv, TypeOK
<1>9. /\ Existing' = Existing /\ nodes' = nodes /\ jobs' = jobs
      /\ \A w \in Workers : Working(w)' <=> Working(w)
  BY DEF Emit, Existing, Working
<1> HIDE DEF n
<1>10. \A i \in 1..(n + 1) : i \in 1..n \/ i = n + 1
  BY <1>8
<1>11. \A i \in 1..(n + 1) : Behind(queue'[i].data, doc)
  BY <1>7, <1>8, <1>10 DEF OrderInv
<1>12. ASSUME NEW i \in 1..(n + 1), queue'[i].kind = "update"
       PROVE  /\ NodeBehind(queue'[i].data)
              /\ JobBehind(queue'[i].data)
              /\ \A j \in 1..(n + 1) : j < i => Behind(queue'[j].data, queue'[i].data)
  <2>1. CASE i \in 1..n
    <3>1. \A j \in 1..(n + 1) : j < i => j \in 1..n
      BY <1>8, <2>1
    <3> QED
      BY <1>8, <1>12, <2>1, <3>1 DEF OrderInv
  <2>2. CASE i = n + 1
    <3>1. queue'[i].data = doc
      BY <1>6, <1>8, <1>12, <2>2
    <3> QED
      BY <1>11, <3>1 DEF OrderInv
  <2> QED
    BY <1>10, <2>1, <2>2
<1>13. /\ NodeBehind(doc) /\ JobBehind(doc)
       /\ \A w \in Workers : Working(w) /\ jobs[w].kind = "update" => NodeBehind(jobs[w].data)
  BY DEF OrderInv
<1> QED
  BY <1>1, <1>8, <1>9, <1>11, <1>12, <1>13 DEF OrderInv, NodeBehind, JobBehind

\* A message in hand keeps its place before the rest.
LEMMA ReceiveOrder ==
  ASSUME TypeInv, OrderInv, NEW w \in Workers, Receive(w), ~raced'
  PROVE  OrderInv'
<1> DEFINE n == Len(queue)
<1>1. PICK k \in Job : /\ JobBecomes(w, k)
                       /\ k.kind = Head(queue).kind /\ k.data = Head(queue).data
  BY ReceiveMoves
<1>2. /\ queue # <<>> /\ queue \in Seq(Message) /\ queue' = Tail(queue)
      /\ nodes' = nodes /\ doc' = doc
      /\ \A u \in Workers : ~Working(u)
  BY ReceiveMoves DEF Receive, TypeInv, TypeOK
<1>3. \A u \in Workers : jobs'[u] = IF u = w THEN k ELSE None
  BY <1>1, <1>2, JobBecoming DEF Working
<1>4. Existing' = Existing
  BY <1>2 DEF Existing
<1>5. /\ Head(queue) = queue[1] /\ n \in Nat \ {0}
      /\ DOMAIN queue = 1..n /\ DOMAIN queue' = 1..(n - 1)
      /\ \A i \in 1..(n - 1) : queue'[i] = queue[i + 1]
  BY <1>2, MessageTail
<1> HIDE DEF n
<1>6. 1 \in 1..n /\ \A i \in 1..(n - 1) : i + 1 \in 1..n /\ 1 < i + 1
  BY <1>5
<1>7. Behind(k.data, doc) /\ (k.kind = "update" => NodeBehind(k.data))
  BY <1>1, <1>5, <1>6 DEF OrderInv
<1>8. \A i \in 1..(n - 1) : Behind(queue'[i].data, doc)
  BY <1>5, <1>6 DEF OrderInv
<1>9. ASSUME NEW i \in 1..(n - 1), queue'[i].kind = "update"
      PROVE  /\ NodeBehind(queue'[i].data)
             /\ Behind(k.data, queue'[i].data)
             /\ \A j \in 1..(n - 1) : j < i => Behind(queue'[j].data, queue'[i].data)
  <2>1. queue[i + 1].kind = "update" /\ queue[i + 1].data = queue'[i].data
    BY <1>5, <1>9
  <2>2. \A j \in 1..(n - 1) : j < i => j + 1 < i + 1
    BY <1>5
  <2> QED
    BY <1>1, <1>5, <1>6, <2>1, <2>2 DEF OrderInv
<1>10. \A u \in Workers : Working(u)' => u = w
  BY <1>3 DEF Working
<1>11. NodeBehind(doc)' /\ JobBehind(doc)'
  BY <1>2, <1>3, <1>4, <1>7, <1>10 DEF OrderInv, NodeBehind, JobBehind
<1>12. \A u \in Workers : Working(u)' /\ jobs'[u].kind = "update" => NodeBehind(jobs'[u].data)
  BY <1>3, <1>7, <1>10
<1>13. \A u \in Workers : Working(u)' /\ jobs'[u].kind = "update" => NodeBehind(jobs[u].data)'
  BY <1>2, <1>4, <1>12 DEF NodeBehind
<1>14. \A i \in 1..(n - 1) : queue'[i].kind = "update" =>
         NodeBehind(queue[i].data)' /\ JobBehind(queue[i].data)'
  BY <1>2, <1>3, <1>4, <1>9, <1>10 DEF NodeBehind, JobBehind
<1> QED
  BY <1>2, <1>5, <1>8, <1>9, <1>11, <1>13, <1>14 DEF OrderInv

\* Finding a node changes no order.
LEMMA FindOrder ==
  ASSUME TypeInv, GraphInv, OrderInv, NEW w \in Workers, FindUserNode(w), ~raced'
  PROVE  OrderInv'
<1>1. /\ Working(w) /\ nodes' = nodes /\ queue' = queue /\ doc' = doc
      /\ \/ \E j \in Job : JobMoves(w, j)
         \/ Done(w)
  BY FindUnraced DEF FindUserNode
<1>2. Existing' = Existing
  BY <1>1 DEF Existing
<1>3. \A u \in Workers : Working(u)' =>
        Working(u) /\ jobs'[u].data = jobs[u].data /\ jobs'[u].kind = jobs[u].kind
  <2>1. ASSUME NEW j \in Job, JobMoves(w, j)
        PROVE  \A u \in Workers : Working(u)' =>
                 Working(u) /\ jobs'[u].data = jobs[u].data /\ jobs'[u].kind = jobs[u].kind
    BY <1>1, <2>1, OnlyWorker DEF JobMoves, Working
  <2>2. CASE Done(w)
    BY <1>1, <2>2, OnlyWorker DEF Done, Working
  <2> QED
    BY <1>1, <2>1, <2>2
<1>4. /\ NodeBehind(doc)' /\ JobBehind(doc)'
      /\ \A u \in Workers : Working(u)' /\ jobs'[u].kind = "update" => NodeBehind(jobs[u].data)'
  BY <1>1, <1>2, <1>3 DEF OrderInv, NodeBehind, JobBehind
<1>5. \A i \in DOMAIN queue : queue[i].kind = "update" =>
        NodeBehind(queue[i].data)' /\ JobBehind(queue[i].data)'
  BY <1>1, <1>2, <1>3 DEF OrderInv, NodeBehind, JobBehind
<1> QED
  BY <1>1, <1>4, <1>5 DEF OrderInv

\* A node that is written was behind, and is no further than what comes.
LEMMA WriteOrder ==
  ASSUME TypeInv, GraphInv, OrderInv, NEW w \in Workers,
         CreateUserNode(w) \/ UpdateUserNode(w), ~raced'
  PROVE  OrderInv'
<1>1. Working(w) /\ Done(w) /\ queue' = queue /\ doc' = doc
  BY CreateUnraced, UpdateUnraced DEF CreateUserNode, UpdateUserNode
<1>2. \A u \in Workers : ~Working(u)'
  BY <1>1, OnlyWorker DEF Done, Working
<1>3. \A n \in Existing' : nodes'[n] = jobs[w].data
  BY CreateUnraced, UpdateUnraced
<1>4. NodeBehind(doc)'
  BY <1>1, <1>3 DEF OrderInv, NodeBehind, JobBehind
<1>5. \A i \in DOMAIN queue : queue[i].kind = "update" => NodeBehind(queue[i].data)'
  BY <1>1, <1>3 DEF OrderInv, NodeBehind, JobBehind
<1>6. JobBehind(doc)' /\ \A i \in DOMAIN queue' : JobBehind(queue[i].data)'
  BY <1>2 DEF JobBehind
<1> QED
  BY <1>1, <1>2, <1>4, <1>5, <1>6 DEF OrderInv

\* A save moves one field of the document ahead.
LEMMA SaveAhead ==
  ASSUME TypeInv, RequestInv, NEW c \in Clients, Save(c), ~raced'
  PROVE  /\ doc \in Data /\ doc' \in Data /\ Behind(doc, doc')
         /\ \E f \in Fields : \E v \in 0..MaxEdits :
              doc[f] < v /\ doc' = [doc EXCEPT ![f] = v]
<1>1. PICK x \in Request :
                 /\ Moves(c, x)
                 /\ x.at \in {"reread", "emit"}
                 /\ x.copy = requests[c].copy
                 /\ doc' = [doc EXCEPT ![x.field] = x.copy[x.field]]
  BY NoFaultUnraced, SaveMoves
<1>2. Editing(c) /\ requests[c].at = "save"
  BY SaveMoves
<1>3. requests[c] \in Request /\ doc \in Data
  BY <1>2, Holds DEF Editing
<1>4. x.field \in Fields /\ x.field = requests[c].field /\ x.copy \in Data
  BY <1>1 DEF Moves, Typed, Request
<1>5. doc[x.field] < x.copy[x.field]
  <2>1. Current(requests[c])
    BY <1>3 DEF RequestInv
  <2> QED
    BY <1>1, <1>2, <1>4, <2>1 DEF Current, Editing
<1>6. x.copy[x.field] \in 0..MaxEdits
  BY <1>4 DEF Data
<1>7. doc' \in Data
  BY <1>1, <1>3, <1>4, <1>6 DEF Data
<1>8. Behind(doc, doc')
  <2> SUFFICES ASSUME NEW f \in Fields PROVE doc[f] <= doc'[f]
    BY DEF Behind
  <2>1. doc[f] \in Int /\ doc'[f] = IF f = x.field THEN x.copy[x.field] ELSE doc[f]
    BY <1>1, <1>3, <1>4 DEF Data
  <2> QED
    BY <1>5, <1>6, <2>1
<1> QED
  BY <1>1, <1>3, <1>4, <1>5, <1>6, <1>7, <1>8

\* Every step keeps nodes, messages and document in order.
LEMMA NextOrder ==
  ASSUME TypeInv, RequestInv, GraphInv, OrderInv, [Next]_vars, ~raced'
  PROVE  OrderInv'
<1>0. ~Fault
  BY NoFaultUnraced
<1>1. ASSUME doc' = doc, Elsewhere, queue' = queue
      PROVE  OrderInv'
  BY <1>1, DocOrder, FreshOrder, BehindAgain DEF TypeInv, TypeOK, Registered
<1>2. ASSUME NEW c \in Clients, Register(c)
      PROVE  OrderInv'
  <2>1. Fresh /\ Elsewhere /\ queue' = queue
    BY <1>2 DEF Register, TypeInv, Elsewhere
  <2> QED
    BY <2>1, FreshOrder
<1>3. ASSUME NEW c \in Clients, Save(c)
      PROVE  OrderInv'
  <2>1. Elsewhere /\ queue' = queue
    BY <1>3 DEF Save, Elsewhere
  <2>2. doc \in Data /\ doc' \in Data /\ Behind(doc, doc')
    BY <1>3, SaveAhead
  <2> QED
    BY <2>1, <2>2, DocOrder
<1>4. ASSUME NEW c \in Clients,
             Reread(c) \/ Invalidate(c) \/ ReadUser(c) \/ SetCache(c) \/ GetNode(c)
               \/ GetUserProfile(c) \/ GetMyProfile(c)
      PROVE  OrderInv'
  <2>1. doc' = doc /\ Elsewhere /\ queue' = queue
    BY <1>4 DEF Elsewhere, Reread, Invalidate, ReadUser, SetCache, GetNode, Compare,
                GetUserProfile, GetMyProfile
  <2> QED
    BY <1>1, <2>1
<1>5. ASSUME NEW c \in Clients, NEW f \in Fields, BeginEdit(c, f)
      PROVE  OrderInv'
  <2>1. doc' = doc /\ Elsewhere /\ queue' = queue
    BY <1>5 DEF Elsewhere, BeginEdit
  <2> QED
    BY <1>1, <2>1
<1>6. CASE ExpireCache \/ UNCHANGED vars
  <2>1. doc' = doc /\ Elsewhere /\ queue' = queue
    BY <1>6 DEF Elsewhere, ExpireCache, vars
  <2> QED
    BY <1>1, <2>1
<1>7. ASSUME NEW w \in Workers, WorkerStep(w)
      PROVE  OrderInv'
  BY <1>7, ReceiveOrder, FindOrder, WriteOrder DEF WorkerStep
<1>8. /\ \A c \in Clients : ~CrashClient(c)
      /\ \A w \in Workers : ~CrashWorker(w)
      /\ ~RestartBroker
  BY <1>0 DEF CrashClient, CrashWorker, RestartBroker
<1> QED
  BY <1>2, <1>3, <1>4, <1>5, <1>6, <1>7, <1>8, EmitOrder DEF Next, ClientStep, ViewSomewhere

-----------------------------------------------------------------------------
(* The invariant, and what follows from it *)

UnracedInv == RequestInv /\ CacheInv /\ GraphInv /\ Outcome /\ OrderInv

Inv == TypeInv /\ (~raced => UnracedInv)

\* The invariant holds at first.
LEMMA InitInv == Init => Inv
<1> SUFFICES ASSUME Init PROVE Inv
  OBVIOUS
<1>1. TypeInv
  BY InitType
<1>2. /\ ~Registered /\ cache = None /\ Existing = {} /\ DOMAIN queue = {}
      /\ \A c \in Clients : requests[c] = None
      /\ \A w \in Workers : jobs[w] = None
      /\ None \notin Request /\ None \notin Job
  BY DEF Init, Registered, Existing
<1>3. RequestInv
  BY <1>2 DEF RequestInv, OneEditor, Editing, Busy, Counted
<1>4. CacheInv
  BY <1>2 DEF CacheInv
<1>5. GraphInv
  BY <1>2 DEF GraphInv, Working
<1>6. Outcome
  BY <1>2 DEF Outcome
<1>7. OrderInv
  BY <1>2 DEF OrderInv, NodeBehind, JobBehind, Working
<1> QED
  BY <1>1, <1>3, <1>4, <1>5, <1>6, <1>7 DEF Inv, UnracedInv

\* Every step keeps the invariant, as long as nothing races.
LEMMA NextInv == Inv /\ [Next]_vars => Inv'
<1> SUFFICES ASSUME Inv, [Next]_vars PROVE Inv'
  OBVIOUS
<1>1. TypeInv /\ TypeInv'
  BY NextType DEF Inv
<1>2. ASSUME ~raced'
      PROVE  UnracedInv'
  <2>1. UnracedInv
    BY <1>2, RacedStays DEF Inv
  <2>2. RequestInv'
    BY <1>1, <1>2, <2>1, NextRequests DEF UnracedInv
  <2>3. CacheInv'
    BY <1>1, <1>2, <2>1, NextCache DEF UnracedInv
  <2>4. GraphInv'
    BY <1>1, <1>2, <2>1, NextGraph DEF UnracedInv
  <2>5. Outcome'
    BY <1>1, <1>2, <2>1, NextOutcome DEF UnracedInv
  <2>6. OrderInv'
    BY <1>1, <1>2, <2>1, NextOrder DEF UnracedInv
  <2> QED
    BY <2>2, <2>3, <2>4, <2>5, <2>6 DEF UnracedInv
<1> QED
  BY <1>1, <1>2 DEF Inv

\* What holds until something fails or races: requests and the cache, one message
\* at a time and one node, the document at the end of the messages, no older data
\* after newer.
THEOREM InvCorrect == Spec => []Inv
BY InitInv, NextInv, PTL DEF Spec

\* With no failures, and no changes, messages or stale views that meet, the
\* messages alone bring the graph to what MongoDB has: when nothing is under way the
\* node is there and is as the document is.
THEOREM QuietCorrect == Spec => []QuietSynced
<1>1. Inv => QuietSynced
  <2> SUFFICES ASSUME Inv, ~raced, Registered, Quiet PROVE Synced
    BY DEF QuietSynced
  <2>1. \A c \in Clients : ~Telling(c) /\ ~Registering(c)
    BY DEF Quiet, Telling, Registering, Editing
  <2>2. Leads(doc) /\ doc \in Data
    BY <2>1 DEF Inv, UnracedInv, Outcome, TypeInv, TypeOK, Registered
  <2>3. PICK b \in Data \cup {None} : Base(b) /\ Ends(<<>>, b, doc)
    BY <2>2 DEF Leads, Quiet
  <2>4. b = doc
    BY <2>2, <2>3 DEF Ends, LastUpdate
  <2>5. NodeIs(doc)
    BY <2>3, <2>4 DEF Base, Writes, Quiet
  <2>6. PICK n \in Existing : nodes[n] = doc
    BY <2>2, <2>5 DEF NodeIs
  <2>7. \A m \in Existing : m = n
    BY <2>6 DEF Inv, UnracedInv, GraphInv
  <2> QED
    BY <2>6, <2>7 DEF Synced
<1> QED
  BY <1>1, InvCorrect, PTL

\* The gateway's copy of the user is MongoDB's, but for the role, unless a change is
\* on its way to deleting it; until a stale view, a change or a failure meets
\* another.
THEOREM CacheCorrect == Spec => []CacheFollowsUser
<1>1. Inv => CacheFollowsUser
  <2> SUFFICES ASSUME Inv, ~raced, cache # None, ~Invalidating,
                      NEW f \in Fields \ {"role"}
               PROVE  cache[f] = doc[f]
    BY DEF CacheFollowsUser
  <2>1. \A c \in Clients : ~Refreshing(c, f)
    BY DEF Invalidating, Refreshing
  <2> QED
    BY <2>1 DEF Inv, UnracedInv, CacheInv
<1> QED
  BY <1>1, InvCorrect, PTL

\* A step of the services is a step of the mirror, or none.
LEMMA GraphStep ==
  ASSUME Inv, Inv', [Next]_vars
  PROVE  [Graph!Next]_(Graph!vars)
<1>a. Graph!Document = Data
  BY DEF Graph!Document, Data
<1>b. \A d, e : Graph!Behind(d, e) <=> Behind(d, e)
  BY DEF Graph!Behind, Behind
<1>1. CASE raced'
  <2>1. doc' \in Data \cup {None} /\ nodes' \in [NodeIds -> Data \cup {None}] /\ raced' = TRUE
    BY <1>1 DEF Inv, TypeInv, TypeOK
  <2> QED
    BY <1>a, <2>1 DEF Graph!Next, Graph!Spoil
<1>2. CASE ~raced'
  <2>1. ~raced /\ ~Fault /\ raced' = raced /\ TypeInv /\ UnracedInv
    BY <1>2, RacedStays, NoFaultUnraced DEF Inv, TypeInv, TypeOK
  <2>2. ASSUME UNCHANGED <<doc, nodes>>
        PROVE  [Graph!Next]_(Graph!vars)
    BY <2>1, <2>2 DEF Graph!vars
  <2>3. ASSUME NEW c \in Clients, Register(c)
        PROVE  [Graph!Next]_(Graph!vars)
    <3>1. doc = None /\ doc' \in Data /\ nodes' = nodes
      BY <2>1, <2>3, RegisterMoves DEF Register, Registered
    <3> QED
      BY <1>a, <2>1, <3>1 DEF Graph!Next, Graph!Make
  <2>4. ASSUME NEW c \in Clients, Save(c)
        PROVE  [Graph!Next]_(Graph!vars)
    <3>1. nodes' = nodes /\ doc # None
      BY <1>2, <2>1, <2>4, SaveAhead DEF Save, UnracedInv
    <3>2. \E f \in Fields : \E v \in 0..MaxEdits : doc[f] < v /\ doc' = [doc EXCEPT ![f] = v]
      BY <1>2, <2>1, <2>4, SaveAhead DEF UnracedInv
    <3> QED
      BY <2>1, <3>1, <3>2 DEF Graph!Next, Graph!Change
  <2>5. ASSUME NEW w \in Workers, CreateUserNode(w)
        PROVE  [Graph!Next]_(Graph!vars)
    <3> DEFINE d == jobs[w].data
    <3>1. /\ Working(w) /\ d \in Data /\ Existing = {} /\ doc \in Data /\ doc' = doc
      BY <1>2, <2>1, <2>5, CreateUnraced, HoldsJob DEF UnracedInv, Job, CreateUserNode
    <3>2. PICK n \in NodeIds : nodes' = [nodes EXCEPT ![n] = d]
      BY <2>1, <2>5 DEF CreateUserNode
    <3>3. \A m \in NodeIds : nodes[m] = None
      BY <3>1 DEF Existing
    <3>4. Behind(d, doc)
      BY <2>1, <3>1 DEF UnracedInv, OrderInv, JobBehind
    <3> HIDE DEF d
    <3>5. Graph!CatchUp(n)
      BY <1>a, <1>b, <2>1, <3>1, <3>2, <3>3, <3>4 DEF Graph!CatchUp
    <3> QED
      BY <3>5 DEF Graph!Next
  <2>6. ASSUME NEW w \in Workers, UpdateUserNode(w)
        PROVE  [Graph!Next]_(Graph!vars)
    <3> DEFINE d == jobs[w].data
    <3>1. /\ Working(w) /\ d \in Data /\ Existing # {} /\ doc \in Data /\ doc' = doc
          /\ jobs[w].kind = "update"
      BY <1>2, <2>1, <2>6, UpdateUnraced, HoldsJob DEF UnracedInv, Job, UpdateUserNode
    <3>2. PICK n \in Existing : \A m \in Existing : m = n
      BY <2>1, <3>1 DEF UnracedInv, GraphInv
    <3>3. n \in NodeIds /\ \A m \in NodeIds \ {n} : nodes[m] = None
      BY <3>2 DEF Existing
    <3>4. nodes' = [m \in NodeIds |-> IF m \in Existing THEN d ELSE None]
      BY <2>1, <2>6 DEF UpdateUserNode
    <3>5. nodes' = [nodes EXCEPT ![n] = d]
      BY <2>1, <3>2, <3>3, <3>4 DEF TypeInv, TypeOK
    <3>6. Behind(d, doc) /\ Behind(nodes[n], d)
      BY <2>1, <3>1, <3>2 DEF UnracedInv, OrderInv, JobBehind, NodeBehind
    <3> HIDE DEF d
    <3>7. Graph!CatchUp(n)
      BY <1>a, <1>b, <2>1, <3>1, <3>3, <3>5, <3>6 DEF Graph!CatchUp
    <3> QED
      BY <3>3, <3>7 DEF Graph!Next
  <2>7. ASSUME NEW c \in Clients,
               Reread(c) \/ Emit(c) \/ Invalidate(c) \/ ReadUser(c) \/ SetCache(c)
                 \/ GetNode(c) \/ GetUserProfile(c) \/ GetMyProfile(c)
        PROVE  UNCHANGED <<doc, nodes>>
    BY <2>7 DEF Reread, Emit, Invalidate, ReadUser, SetCache, GetNode, Compare,
                GetUserProfile, GetMyProfile
  <2>8. ASSUME NEW c \in Clients, NEW f \in Fields, BeginEdit(c, f)
        PROVE  UNCHANGED <<doc, nodes>>
    BY <2>8 DEF BeginEdit
  <2>9. ASSUME NEW w \in Workers, Receive(w) \/ FindUserNode(w)
        PROVE  UNCHANGED <<doc, nodes>>
    BY <2>9 DEF Receive, FindUserNode
  <2>10. ExpireCache \/ UNCHANGED vars => UNCHANGED <<doc, nodes>>
    BY DEF ExpireCache, vars
  <2>11. /\ \A c \in Clients : ~CrashClient(c)
         /\ \A w \in Workers : ~CrashWorker(w)
         /\ ~RestartBroker
    BY <2>1 DEF CrashClient, CrashWorker, RestartBroker
  <2> QED
    BY <2>2, <2>3, <2>4, <2>5, <2>6, <2>7, <2>8, <2>9, <2>10, <2>11
    DEF Next, ClientStep, WorkerStep, ViewSomewhere
<1> QED
  BY <1>1, <1>2

\* The node in Neo4j is a mirror of the user's document: one node, never ahead of
\* MongoDB, never going back, until something fails or races.
THEOREM MirrorCorrect == Spec => MirrorsUser
<1>1. Init => Graph!Init
  BY DEF Init, Graph!Init
<1>2. Inv /\ Inv' /\ [Next]_vars => [Graph!Next]_(Graph!vars)
  BY GraphStep
<1> QED
  BY <1>1, <1>2, InvCorrect, PTL DEF Spec, MirrorsUser, Graph!Spec

=============================================================================
