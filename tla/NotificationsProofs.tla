------------------------ MODULE NotificationsProofs ------------------------
(***************************************************************************)
(* Proofs about Notifications, for any number of clients, notifications    *)
(* and failures.                                                           *)
(***************************************************************************)
EXTENDS Notifications, WellFoundedInduction, TLAPS

USE NotificationsAssumption

-----------------------------------------------------------------------------
(* Types *)

\* A socket that pushes has something to push.
Pushing(c) == connections[c].at \in {"ask", "mark"} => connections[c].left # {}

TypeInv == TypeOK /\ \A c \in Clients : Pushing(c)

\* Failures are counted up to their bound.
LEMMA FaultTypes ==
  ASSUME TypeOK, Fault
  PROVE  faults' \in 0..MaxFaults
BY DEF TypeOK, Fault

\* A notification moves on, or is marked.
LEMMA JobType ==
  ASSUME TypeOK, NEW n \in Notes, NEW j \in Jobs, Job(n, j)
  PROVE  notes' \in [Notes -> Note]
BY DEF TypeOK, Job, Note

\* A notification that is marked is one still.
LEMMA MarkType ==
  ASSUME TypeOK, NEW n
  PROVE  MarkAsDelivered(n) \in [Notes -> Note]
<1>1. CASE n \in Notes
  BY <1>1 DEF TypeOK, MarkAsDelivered, Note
<1>2. CASE n \notin Notes
  BY <1>2 DEF TypeOK, MarkAsDelivered
<1> QED
  BY <1>1, <1>2

\* A socket moves on, or pushes the next.
LEMMA ConnectionType ==
  ASSUME TypeInv, NEW c \in Clients, NEW k \in Connection,
         connections' = [connections EXCEPT ![c] = k],
         k.at \in {"ask", "mark"} => k.left # {}
  PROVE  /\ connections' \in [Clients -> Connection]
         /\ \A d \in Clients : Pushing(d)'
<1>1. \A d \in Clients : connections'[d] = IF d = c THEN k ELSE connections[d]
  BY DEF TypeInv, TypeOK
<1> QED
  BY <1>1 DEF TypeInv, TypeOK, Pushing

\* A socket that moves on is typed, if it has something left to push where it must.
LEMMA GotoType ==
  ASSUME TypeInv, NEW c \in Clients, NEW q \in Stages, Goto(c, q),
         q \in {"ask", "mark"} => connections[c].left # {}
  PROVE  /\ connections' \in [Clients -> Connection]
         /\ \A d \in Clients : Pushing(d)'
<1> DEFINE k == [connections[c] EXCEPT !.at = q]
<1>1. k \in Connection /\ k.at = q /\ k.left = connections[c].left
  BY DEF TypeInv, TypeOK, Connection
<1>2. connections' = [connections EXCEPT ![c] = k]
  BY DEF Goto
<1> HIDE DEF k
<1> QED
  BY <1>1, <1>2, ConnectionType

\* A socket with something left pushes it, one without rests.
LEMMA PushType ==
  ASSUME TypeInv, NEW c \in Clients, NEW left \in SUBSET Notes, Push(c, left)
  PROVE  /\ connections' \in [Clients -> Connection]
         /\ \A d \in Clients : Pushing(d)'
<1> DEFINE k == [at |-> IF left = {} THEN "idle" ELSE "ask", left |-> left]
<1>1. k \in Connection /\ (k.at \in {"ask", "mark"} => k.left # {})
  BY DEF Connection, Stages
<1>2. connections' = [connections EXCEPT ![c] = k]
  BY DEF Push
<1> HIDE DEF k
<1> QED
  BY <1>1, <1>2, ConnectionType

\* Notifications are pushed in the order of their numbers; there is a first.
LEMMA HeadType ==
  ASSUME TypeInv, NEW c \in Clients, connections[c].at \in {"ask", "mark"}
  PROVE  Head(c) \in connections[c].left /\ Head(c) \in Notes
<1> DEFINE S == connections[c].left
           R == OpToRel(<, Nat)
<1>1. S # {} /\ S \subseteq Notes /\ S \subseteq Nat
  BY DEF TypeInv, TypeOK, Pushing, Connection, Notes
<1>2. IsWellFoundedOn(R, Nat)
  BY NatLessThanWellFounded
<1> HIDE DEF S, R
<1>3. PICK n \in S : \A m \in S : ~ (<<m, n>> \in R)
  BY <1>1, <1>2, WFMin
<1>4. \A m \in S : ~ (m < n)
  BY <1>1, <1>3 DEF R, OpToRel
<1>5. \A m \in S : n <= m
  BY <1>1, <1>4
<1>6. \E k \in S : \A m \in S : k <= m
  BY <1>5
<1> QED
  BY <1>1, <1>6 DEF Head, S

\* What is left after the first is a set of notifications.
LEMMA TailType ==
  ASSUME TypeInv, NEW c \in Clients
  PROVE  Tail(c) \in SUBSET Notes
BY DEF TypeInv, TypeOK, Tail, Connection

\* Types hold at first.
LEMMA InitType == Init => TypeInv
<1> SUFFICES ASSUME Init PROVE TypeInv
  OBVIOUS
<1>1. notes \in [Notes -> Note]
  BY DEF Init, Note, Jobs
<1>2. connections \in [Clients -> Connection]
  BY DEF Init, Off, Connection, Stages
<1>3. faults \in 0..MaxFaults
  BY DEF Init
<1>4. stale \in BOOLEAN /\ failed \in BOOLEAN
  BY DEF Init
<1>5. online \subseteq Clients /\ sockets \subseteq Clients /\ room \subseteq Clients
      /\ known \subseteq sockets /\ received \subseteq Notes
  BY DEF Init
<1>6. \A c \in Clients : Pushing(c)
  BY DEF Init, Off, Pushing
<1> QED
  BY <1>1, <1>2, <1>3, <1>4, <1>5, <1>6 DEF TypeInv, TypeOK

\* Every step keeps types.
LEMMA NextType == TypeInv /\ [Next]_vars => TypeInv'
<1> SUFFICES ASSUME TypeInv, [Next]_vars PROVE TypeInv'
  OBVIOUS
<1>a. /\ notes \in [Notes -> Note]
      /\ connections \in [Clients -> Connection]
      /\ online \subseteq Clients /\ sockets \subseteq Clients /\ room \subseteq Clients
      /\ known \subseteq sockets
      /\ received \subseteq Notes
      /\ stale \in BOOLEAN
      /\ faults \in 0..MaxFaults
      /\ failed \in BOOLEAN
  BY DEF TypeInv, TypeOK
<1>b. "queued" \in Jobs /\ "ask" \in Jobs /\ "mark" \in Jobs /\ "done" \in Jobs /\ "lost" \in Jobs
  BY DEF Jobs
<1>c. "join" \in Stages /\ "find" \in Stages /\ "mark" \in Stages
  BY DEF Stages
<1>1. ASSUME NEW n \in Notes, Publish(n) \/ CreateNotification(n)
      PROVE  TypeInv'
  <2>1. notes' \in [Notes -> Note]
    BY <1>1, <1>b, JobType DEF TypeInv, Publish, CreateNotification
  <2> QED
    BY <1>1, <1>a, <2>1 DEF Publish, CreateNotification, redis, TypeInv, TypeOK, Pushing
<1>2. ASSUME NEW n \in Notes, SendNotification(n)
      PROVE  TypeInv'
  <2>1. notes' \in [Notes -> Note]
    BY <1>2, <1>b, JobType DEF TypeInv, SendNotification
  <2>2. received' \subseteq Notes
    BY <1>2, <1>a DEF SendNotification, Emit
  <2> QED
    BY <1>2, <1>a, <2>1, <2>2 DEF SendNotification, redis, TypeInv, TypeOK, Pushing
<1>3. ASSUME NEW n \in Notes, MarkSent(n)
      PROVE  TypeInv'
  <2>1. MarkAsDelivered(n) \in [Notes -> Note]
    BY MarkType DEF TypeInv
  <2>2. notes' = [MarkAsDelivered(n) EXCEPT ![n].job = "done"]
    BY <1>3 DEF MarkSent
  <2>3. notes' \in [Notes -> Note]
    BY <1>b, <2>1, <2>2 DEF Note
  <2> QED
    BY <1>3, <1>a, <2>3 DEF MarkSent, redis, TypeInv, TypeOK, Pushing
<1>4. ASSUME NEW c \in Clients, Connect(c) \/ JoinRoom(c)
      PROVE  TypeInv'
  <2>1. connections' \in [Clients -> Connection] /\ \A d \in Clients : Pushing(d)'
    BY <1>4, <1>c, GotoType DEF Connect, JoinRoom
  <2>2. online' \subseteq Clients /\ sockets' \subseteq Clients /\ room' \subseteq Clients
        /\ known' \subseteq sockets'
    BY <1>4, <1>a DEF Connect, JoinRoom, redis
  <2> QED
    BY <1>4, <1>a, <2>1, <2>2 DEF Connect, JoinRoom, redis, TypeInv, TypeOK, Pushing
<1>5. ASSUME NEW c \in Clients, FindUndelivered(c)
      PROVE  TypeInv'
  <2>1. connections' \in [Clients -> Connection] /\ \A d \in Clients : Pushing(d)'
    BY <1>5, PushType DEF FindUndelivered
  <2> QED
    BY <1>5, <1>a, <2>1 DEF FindUndelivered, redis, TypeInv, TypeOK, Pushing
<1>6. ASSUME NEW c \in Clients, PushNext(c)
      PROVE  TypeInv'
  <2>1. connections' \in [Clients -> Connection] /\ \A d \in Clients : Pushing(d)'
    <3>1. connections[c].left # {}
      BY <1>6 DEF PushNext, At, TypeInv, Pushing
    <3>2. CASE Push(c, Tail(c))
      BY <3>2, PushType, TailType
    <3>3. CASE Goto(c, "mark")
      BY <1>c, <3>1, <3>3, GotoType
    <3> QED
      BY <1>6, <3>2, <3>3 DEF PushNext
  <2>2. received' \subseteq Notes
    BY <1>6, <1>a, HeadType DEF PushNext, Emit, At
  <2> QED
    BY <1>6, <1>a, <2>1, <2>2 DEF PushNext, redis, TypeInv, TypeOK, Pushing
<1>7. ASSUME NEW c \in Clients, MarkPushed(c)
      PROVE  TypeInv'
  <2>1. connections' \in [Clients -> Connection] /\ \A d \in Clients : Pushing(d)'
    BY <1>7, PushType, TailType DEF MarkPushed
  <2>2. notes' \in [Notes -> Note]
    BY <1>7, MarkType DEF MarkPushed, TypeInv
  <2> QED
    BY <1>7, <1>a, <2>1, <2>2 DEF MarkPushed, redis, TypeInv, TypeOK
<1>8. ASSUME NEW c \in Clients, Drop(c)
      PROVE  TypeInv'
  <2>1. faults' \in 0..MaxFaults
    BY <1>8, FaultTypes DEF Drop, TypeInv
  <2> QED
    BY <1>8, <1>a, <2>1 DEF Drop, redis, TypeInv, TypeOK, Pushing
<1>9. ASSUME NEW c \in Clients, HandleDisconnect(c)
      PROVE  TypeInv'
  <2>1. faults' \in 0..MaxFaults
    BY <1>9, <1>a, FaultTypes DEF HandleDisconnect, TypeInv
  <2>2. stale' \in BOOLEAN
    BY <1>9, <1>a DEF HandleDisconnect
  <2>3. known' \subseteq sockets' /\ sockets' \subseteq Clients /\ room' \subseteq Clients
    BY <1>9, <1>a DEF HandleDisconnect
  <2> QED
    BY <1>9, <1>a, <2>1, <2>2, <2>3 DEF HandleDisconnect, TypeInv, TypeOK, Pushing
<1>10. ASSUME NEW c \in Clients, Forget(c)
       PROVE  TypeInv'
  <2>1. Off \in Connection /\ Off.at = "off"
    BY DEF Off, Connection, Stages
  <2>2. connections' \in [Clients -> Connection] /\ \A d \in Clients : Pushing(d)'
    BY <1>10, <2>1, ConnectionType DEF Forget
  <2> QED
    BY <1>10, <1>a, <2>2 DEF Forget, redis, TypeInv, TypeOK
<1>11. ASSUME NEW S \in SUBSET Notes, MarkAsRead(S)
       PROVE  TypeInv'
  <2>1. \A n \in Notes : [notes[n] EXCEPT !.read = TRUE] \in Note
    BY <1>a DEF Note
  <2>2. notes' \in [Notes -> Note]
    BY <1>11, <1>a, <2>1 DEF MarkAsRead
  <2> QED
    BY <1>11, <1>a, <2>2 DEF MarkAsRead, redis, TypeInv, TypeOK, Pushing
<1>12. ASSUME NEW n \in Notes, MessageFails(n)
       PROVE  TypeInv'
  <2>1. notes' \in [Notes -> Note]
    BY <1>12, <1>b, JobType DEF MessageFails, TypeInv
  <2>2. faults' \in 0..MaxFaults
    BY <1>12, FaultTypes DEF MessageFails, TypeInv
  <2> QED
    BY <1>12, <1>a, <2>1, <2>2 DEF MessageFails, redis, TypeInv, TypeOK, Pushing
<1>13. ASSUME NEW c \in Clients, ConnectionFails(c)
       PROVE  TypeInv'
  <2>1. connections' \in [Clients -> Connection] /\ \A d \in Clients : Pushing(d)'
    <3>1. CASE connections' = [connections EXCEPT ![c] = [at |-> "idle", left |-> {}]]
      <4> DEFINE k == [at |-> "idle", left |-> {}]
      <4>1. k \in Connection /\ k.at = "idle"
        BY DEF Connection, Stages
      <4> HIDE DEF k
      <4> QED
        BY <3>1, <4>1, ConnectionType DEF k
    <3>2. CASE Push(c, Tail(c))
      BY <3>2, PushType, TailType
    <3> QED
      BY <1>13, <3>1, <3>2 DEF ConnectionFails
  <2>2. notes' \in [Notes -> Note] /\ online' \subseteq Clients /\ known' \subseteq sockets'
    BY <1>13, <1>a, MarkType DEF ConnectionFails, TypeInv
  <2>3. faults' \in 0..MaxFaults /\ failed' = TRUE
    BY <1>13, FaultTypes DEF ConnectionFails, TypeInv
  <2> QED
    BY <1>13, <1>a, <2>1, <2>2, <2>3 DEF ConnectionFails, redis, TypeInv, TypeOK
<1>14. CASE Restart
  <2>1. notes' \in [Notes -> Note]
    <3>1. PICK S \in SUBSET {n \in Notes : notes[n].job = "queued"} :
            notes' = [n \in Notes |-> [notes[n] EXCEPT
              !.job = CASE n \in S -> "lost" [] @ \in {"ask", "mark"} -> "done" [] OTHER -> @]]
      BY <1>14 DEF Restart
    <3>2. ASSUME NEW n \in Notes
          PROVE  [notes[n] EXCEPT
              !.job = CASE n \in S -> "lost" [] @ \in {"ask", "mark"} -> "done" [] OTHER -> @]
                  \in Note
      BY <1>a, <1>b DEF Note
    <3> QED
      BY <3>1, <3>2
  <2>2. connections' \in [Clients -> Connection] /\ \A d \in Clients : Pushing(d)'
    <3>1. Off \in Connection /\ Off.at = "off"
      BY DEF Off, Connection, Stages
    <3> QED
      BY <1>14, <3>1 DEF Restart, Pushing
  <2>3. faults' \in 0..MaxFaults
    BY <1>14, FaultTypes DEF Restart, TypeInv
  <2>4. stale' \in BOOLEAN /\ failed' = failed /\ received' = received
        /\ online' = {} /\ room' = {} /\ sockets' = {} /\ known' = {}
    BY <1>14 DEF Restart
  <2> QED
    BY <1>a, <2>1, <2>2, <2>3, <2>4 DEF TypeInv, TypeOK
<1>15. CASE ExpireSockets
  BY <1>15, <1>a DEF ExpireSockets, TypeInv, TypeOK, Pushing
<1>16. CASE UNCHANGED vars
  BY <1>16, <1>a DEF vars, TypeInv, TypeOK, Pushing
<1>17. MarkOneRead \/ MarkAsReadAll => \E S \in SUBSET Notes : MarkAsRead(S)
  BY DEF MarkOneRead, MarkAsReadAll
<1> QED
  BY <1>1, <1>2, <1>3, <1>4, <1>5, <1>6, <1>7, <1>8, <1>9, <1>10, <1>11, <1>12, <1>13,
     <1>14, <1>15, <1>16, <1>17
  DEF Next, MessageStep, SocketStep

\* Notifications, sockets, Redis and what has been received have their types.
THEOREM TypeCorrect == Spec => []TypeOK
<1>1. TypeInv => TypeOK
  BY DEF TypeInv
<1> QED
  BY <1>1, InitType, NextType, PTL DEF Spec

-----------------------------------------------------------------------------
(* What is written to a notification stays *)

\* A notification after a step keeps what it was told, and is not unsaved.
Keeps(n) ==
  /\ notes[n].delivered => notes'[n].delivered
  /\ notes[n].read => notes'[n].read
  /\ Saved(n) => Saved(n)'

\* No step takes a flag of a notification back.
LEMMA StepKeeps ==
  ASSUME TypeOK, [Next]_vars, NEW m \in Notes
  PROVE  Keeps(m)
<1>a. notes \in [Notes -> Note]
  BY DEF TypeOK
<1>1. ASSUME NEW n \in Notes, Publish(n) \/ CreateNotification(n) \/ SendNotification(n)
                              \/ MarkSent(n) \/ MessageFails(n)
      PROVE  Keeps(m)
  <2>1. CASE Publish(n) \/ CreateNotification(n)
    BY <1>a, <2>1 DEF Publish, CreateNotification, Job, Note, Keeps, Saved
  <2>2. CASE SendNotification(n)
    BY <1>a, <2>2 DEF SendNotification, Job, Note, Keeps, Saved
  <2>3. CASE MarkSent(n)
    BY <1>a, <2>3 DEF MarkSent, MarkAsDelivered, Note, Keeps, Saved
  <2>4. CASE MessageFails(n)
    BY <1>a, <2>4 DEF MessageFails, Job, Note, Keeps, Saved
  <2> QED
    BY <1>1, <2>1, <2>2, <2>3, <2>4
<1>2. ASSUME NEW n, notes' = MarkAsDelivered(n)
      PROVE  Keeps(m)
  BY <1>a, <1>2 DEF MarkAsDelivered, Note, Keeps, Saved
<1>3. ASSUME notes' = notes
      PROVE  Keeps(m)
  BY <1>3 DEF Keeps, Saved
<1>4. ASSUME NEW c \in Clients, Connect(c) \/ SocketStep(c) \/ Drop(c) \/ ConnectionFails(c)
      PROVE  notes' = notes \/ \E n : notes' = MarkAsDelivered(n)
  BY <1>4 DEF Connect, SocketStep, JoinRoom, FindUndelivered, PushNext, MarkPushed,
              HandleDisconnect, Forget, Drop, ConnectionFails
<1>5. ASSUME NEW S, MarkAsRead(S)
      PROVE  Keeps(m)
  BY <1>a, <1>5 DEF MarkAsRead, Note, Keeps, Saved
<1>6. CASE Restart
  <2>1. PICK S \in SUBSET {n \in Notes : notes[n].job = "queued"} :
            notes' = [n \in Notes |-> [notes[n] EXCEPT
              !.job = CASE n \in S -> "lost" [] @ \in {"ask", "mark"} -> "done" [] OTHER -> @]]
    BY <1>6 DEF Restart
  <2>2. notes'[m].delivered = notes[m].delivered /\ notes'[m].read = notes[m].read
    BY <1>a, <2>1 DEF Note
  <2>3. ASSUME Saved(m)
        PROVE  Saved(m)'
    <3>1. m \notin S
      BY <2>3 DEF Saved
    <3> QED
      BY <1>a, <2>1, <2>3, <3>1 DEF Saved, Note
  <2> QED
    BY <2>2, <2>3 DEF Keeps
<1>7. CASE ExpireSockets \/ UNCHANGED vars
  BY <1>3, <1>7 DEF ExpireSockets, vars
<1> QED
  BY <1>1, <1>2, <1>3, <1>4, <1>5, <1>6, <1>7
  DEF Next, MessageStep, MarkOneRead, MarkAsReadAll

\* Neither the two paths that mark a notification as delivered nor the marking as
\* read, nor a failure, undoes what another has written.
THEOREM FlagsCorrect == Spec => FlagsKept
<1>1. TypeOK /\ [Next]_vars =>
        [\A n \in Notes :
           /\ notes[n].delivered => notes'[n].delivered
           /\ notes[n].read => notes'[n].read
           /\ Saved(n) => Saved(n)']_vars
  BY StepKeeps DEF Keeps
<1> QED
  BY <1>1, TypeCorrect, PTL DEF Spec, FlagsKept

-----------------------------------------------------------------------------
(* Who is in the room *)

\* An open socket whose client lives is in the room, or about to join.
RoomInv == \A c \in sockets \cap online : At(c, "join") \/ c \in room

\* Every step keeps the living sockets in the room.
LEMMA NextRoom ==
  ASSUME TypeOK, RoomInv, [Next]_vars
  PROVE  RoomInv'
<1>a. connections \in [Clients -> Connection] /\ sockets \subseteq Clients
  BY DEF TypeOK
\* A socket that goes on, open and living only if it was.
<1>b. ASSUME NEW c \in Clients, ~At(c, "join"), NEW k,
             connections' = [connections EXCEPT ![c] = k],
             room' = room, sockets' = sockets, online' \subseteq online
      PROVE  RoomInv'
  BY <1>a, <1>b DEF RoomInv, At
<1>c. ASSUME connections' = connections, room' = room, sockets' = sockets, online' \subseteq online
      PROVE  RoomInv'
  BY <1>c DEF RoomInv, At
<1>1. ASSUME NEW n \in Notes, Publish(n) \/ MessageStep(n) \/ MessageFails(n)
      PROVE  RoomInv'
  BY <1>1, <1>c DEF Publish, MessageStep, CreateNotification, SendNotification, MarkSent,
                    MessageFails, redis
<1>2. ASSUME NEW c \in Clients, Connect(c)
      PROVE  RoomInv'
  <2>1. \A d \in Clients : At(d, "join")' <=> d = c \/ At(d, "join")
    BY <1>2, <1>a DEF Connect, Goto, At, Connection
  <2> QED
    BY <1>2, <1>a, <2>1 DEF Connect, RoomInv
<1>3. ASSUME NEW c \in Clients, JoinRoom(c)
      PROVE  RoomInv'
  <2>1. \A d \in Clients : d # c => (At(d, "join")' <=> At(d, "join"))
    BY <1>3, <1>a DEF JoinRoom, Goto, At
  <2>2. sockets' = sockets /\ online' = online /\ room \subseteq room' /\ (c \in sockets => c \in room')
    BY <1>3 DEF JoinRoom, redis
  <2> QED
    BY <1>a, <2>1, <2>2 DEF RoomInv
<1>4. ASSUME NEW c \in Clients, FindUndelivered(c) \/ PushNext(c) \/ MarkPushed(c) \/ Forget(c)
      PROVE  RoomInv'
  <2>1. ~At(c, "join") /\ room' = room /\ sockets' = sockets /\ online' = online
    BY <1>4 DEF FindUndelivered, PushNext, MarkPushed, Forget, At, redis
  <2>2. \E k : connections' = [connections EXCEPT ![c] = k]
    BY <1>4 DEF FindUndelivered, PushNext, MarkPushed, Forget, Push, Goto
  <2> QED
    BY <1>b, <2>1, <2>2
<1>5. ASSUME NEW c \in Clients, HandleDisconnect(c)
      PROVE  RoomInv'
  BY <1>5 DEF HandleDisconnect, RoomInv, At
<1>6. ASSUME NEW c \in Clients, Drop(c)
      PROVE  RoomInv'
  BY <1>6, <1>c DEF Drop, redis
<1>7. ASSUME NEW c \in Clients, ConnectionFails(c)
      PROVE  RoomInv'
  <2>1. room' = room /\ sockets' = sockets /\ online' \subseteq online
    BY <1>7 DEF ConnectionFails, redis
  <2>2. CASE connections[c].at \in {"join", "find", "mark"} /\ online' = online \ {c}
             /\ connections' = [connections EXCEPT ![c] = [at |-> "idle", left |-> {}]]
    BY <1>a, <2>1, <2>2 DEF RoomInv, At
  <2>3. CASE connections[c].at \in {"ask", "mark"} /\ Push(c, Tail(c))
    <3>1. ~At(c, "join")
      BY <2>3 DEF At
    <3>2. \E k : connections' = [connections EXCEPT ![c] = k]
      BY <2>3 DEF Push
    <3> QED
      BY <1>b, <2>1, <3>1, <3>2
  <2> QED
    BY <1>7, <2>2, <2>3 DEF ConnectionFails
<1>8. CASE Restart
  BY <1>8 DEF Restart, RoomInv
<1>9. ASSUME NEW S, MarkAsRead(S)
      PROVE  RoomInv'
  BY <1>9, <1>c DEF MarkAsRead, redis
<1>10. CASE ExpireSockets \/ UNCHANGED vars
  BY <1>10, <1>c DEF ExpireSockets, vars, redis
<1> QED
  BY <1>1, <1>2, <1>3, <1>4, <1>5, <1>6, <1>7, <1>8, <1>9, <1>10
  DEF Next, SocketStep, MarkOneRead, MarkAsReadAll

\* Only sendNotificationToUser marks a message's notification, and only when it finds
\* somebody in Redis.
LEMMA OnlySend ==
  ASSUME TypeOK, [Next]_vars, NEW n \in Notes, notes'[n].job = "mark", notes[n].job # "mark"
  PROVE  SendNotification(n) /\ Connected /\ Emit(n)
<1>a. notes \in [Notes -> Note]
  BY DEF TypeOK
<1>1. ASSUME NEW m \in Notes, Publish(m) \/ CreateNotification(m) \/ MarkSent(m) \/ MessageFails(m)
      PROVE  FALSE
  BY <1>a, <1>1 DEF Publish, CreateNotification, MarkSent, MessageFails, MarkAsDelivered, Job, Note
<1>2. ASSUME NEW m \in Notes, SendNotification(m)
      PROVE  m = n /\ Connected /\ Emit(n)
  BY <1>a, <1>2 DEF SendNotification, Job, Note
<1>3. ASSUME NEW m, notes' = MarkAsDelivered(m)
      PROVE  FALSE
  BY <1>a, <1>3 DEF MarkAsDelivered, Note
<1>4. notes' # notes
  OBVIOUS
<1>5. ASSUME NEW c \in Clients, Connect(c) \/ SocketStep(c) \/ Drop(c) \/ ConnectionFails(c)
      PROVE  notes' = notes \/ \E m : notes' = MarkAsDelivered(m)
  BY <1>5 DEF Connect, SocketStep, JoinRoom, FindUndelivered, PushNext, MarkPushed,
              HandleDisconnect, Forget, Drop, ConnectionFails
<1>6. ASSUME NEW S, MarkAsRead(S)
      PROVE  FALSE
  BY <1>a, <1>6 DEF MarkAsRead, Note
<1>7. CASE Restart
  <2>1. PICK S \in SUBSET {m \in Notes : notes[m].job = "queued"} :
            notes' = [m \in Notes |-> [notes[m] EXCEPT
              !.job = CASE m \in S -> "lost" [] @ \in {"ask", "mark"} -> "done" [] OTHER -> @]]
    BY <1>7 DEF Restart
  <2>2. notes'[n].job # "mark"
    BY <1>a, <2>1 DEF Note
  <2> QED
    BY <2>2
<1>8. ExpireSockets \/ UNCHANGED vars => notes' = notes
  BY DEF ExpireSockets, vars
<1> QED
  BY <1>1, <1>2, <1>3, <1>4, <1>5, <1>6, <1>7, <1>8
  DEF Next, MessageStep, MarkOneRead, MarkAsReadAll

\* A notification is delivered unseen only because Redis knows a socket that has not
\* joined yet, one whose client has gone, or one of no living instance.
THEOREM UnseenCorrect == Spec => DeliveredUnseen
<1>1. Init => RoomInv
  BY DEF Init, RoomInv
<1>2. TypeOK /\ RoomInv /\ [Next]_vars => RoomInv'
  BY NextRoom
<1>3. TypeOK /\ RoomInv /\ [Next]_vars =>
        [\A n \in Notes :
           /\ ~(n \in received)
           /\ notes'[n].job = "mark" /\ notes[n].job # "mark"
           /\ ~(n \in received')
           => stale \/ \E c \in known : At(c, "join") \/ c \notin online]_vars
  <2> SUFFICES ASSUME TypeOK, RoomInv, [Next]_vars, NEW n \in Notes,
                      notes'[n].job = "mark", notes[n].job # "mark", ~(n \in received'), ~stale
               PROVE  \E c \in known : At(c, "join") \/ c \notin online
    OBVIOUS
  <2>1. Connected /\ Emit(n)
    BY OnlySend
  <2>2. PICK c \in known : c \in sockets
    BY <2>1 DEF Connected, TypeOK
  <2>3. room \cap online = {}
    BY <2>1 DEF Emit
  <2> QED
    BY <2>2, <2>3 DEF RoomInv
<1> QED
  BY <1>1, <1>2, <1>3, TypeCorrect, PTL DEF Spec, DeliveredUnseen

-----------------------------------------------------------------------------
(* What is saved is not forgotten *)

\* The socket has still to look for the notification, or to push it.
Awaits(c, n) == At(c, "join") \/ At(c, "find") \/ n \in connections[c].left

\* As long as no query fails, a notification whose message has been handled without
\* its being delivered is awaited by every socket that Redis knows.
NothingForgotten ==
  \A n \in Notes :
    ~failed /\ notes[n].job = "done" /\ ~notes[n].delivered => \A c \in known : Awaits(c, n)

\* No more notifications, no more known sockets, and those go on waiting.
LEMMA GoOnWaiting ==
  ASSUME NothingForgotten, failed' = failed, known' \subseteq known,
         NEW n \in Notes, notes'[n].job = "done", ~notes'[n].delivered, ~failed',
         notes[n].job = "done", ~notes[n].delivered,
         NEW c \in known', Awaits(c, n) => Awaits(c, n)'
  PROVE  Awaits(c, n)'
BY DEF NothingForgotten

\* Every step keeps somebody at work on what is not delivered.
LEMMA NextForgotten ==
  ASSUME TypeInv, NothingForgotten, [Next]_vars
  PROVE  NothingForgotten'
<1>a. notes \in [Notes -> Note] /\ connections \in [Clients -> Connection] /\ known \subseteq Clients
  BY DEF TypeInv, TypeOK
<1> SUFFICES ASSUME NEW n \in Notes, ~failed', notes'[n].job = "done", ~notes'[n].delivered,
                    NEW c \in known'
             PROVE  Awaits(c, n)'
  BY DEF NothingForgotten
<1> DEFINE Was == notes[n].job = "done" /\ ~notes[n].delivered
           Same == failed' = failed /\ known' \subseteq known
\* The cases in which nobody's waiting ends.
<1>b. ASSUME Was, Same, connections' = connections
      PROVE  Awaits(c, n)'
  BY <1>b, GoOnWaiting DEF Awaits, At
<1>c. ASSUME Was, Same, NEW d \in Clients, NEW k, connections' = [connections EXCEPT ![d] = k],
             c = d /\ Awaits(d, n) => k.at \in {"join", "find"} \/ n \in k.left
      PROVE  Awaits(c, n)'
  <2>1. c \in Clients
    BY <1>a, <1>c
  <2>2. connections'[c] = IF c = d THEN k ELSE connections[c]
    BY <1>a, <1>c, <2>1
  <2>3. Awaits(c, n) => Awaits(c, n)'
    BY <1>c, <2>2 DEF Awaits, At
  <2> QED
    BY <1>c, <2>3, GoOnWaiting
<1> HIDE DEF Was, Same
<1>1. ASSUME NEW m \in Notes, Publish(m) \/ CreateNotification(m) \/ MarkSent(m)
      PROVE  Awaits(c, n)'
  <2>1. Was
    BY <1>1, <1>a DEF Publish, CreateNotification, MarkSent, MarkAsDelivered, Job, Note, Was
  <2> QED
    BY <1>1, <1>b, <2>1 DEF Publish, CreateNotification, MarkSent, redis, Same
<1>2. ASSUME NEW m \in Notes, SendNotification(m)
      PROVE  Awaits(c, n)'
  \* It is done with at once only when Redis knows no socket.
  <2>1. Connected /\ Job(m, "mark")
    BY <1>2 DEF SendNotification, Connected, redis
  <2>2. Was
    BY <1>a, <2>1 DEF Job, Note, Was
  <2> QED
    BY <1>2, <1>b, <2>2 DEF SendNotification, redis, Same
<1>3. ASSUME NEW d \in Clients, Connect(d)
      PROVE  Awaits(c, n)'
  <2>1. CASE c = d
    <3>1. connections'[d].at = "join"
      BY <1>3, <1>a DEF Connect, Goto, Connection
    <3> QED
      BY <2>1, <3>1 DEF Awaits, At
  <2>2. CASE c # d
    <3>1. c \in known /\ connections'[c] = connections[c]
      BY <1>3, <1>a, <2>2 DEF Connect, Goto
    <3>2. Awaits(c, n)
      BY <1>3, <3>1 DEF Connect, NothingForgotten
    <3> QED
      BY <3>1, <3>2 DEF Awaits, At
  <2> QED
    BY <2>1, <2>2
<1>4. ASSUME NEW d \in Clients, JoinRoom(d)
      PROVE  Awaits(c, n)'
  <2> DEFINE k == [connections[d] EXCEPT !.at = "find"]
  <2>1. k.at = "find"
    BY <1>a DEF Connection
  <2>2. connections' = [connections EXCEPT ![d] = k]
    BY <1>4 DEF JoinRoom, Goto
  <2>3. Was /\ Same
    BY <1>4 DEF JoinRoom, redis, Was, Same
  <2> HIDE DEF k
  <2> QED
    BY <1>c, <2>1, <2>2, <2>3
<1>5. ASSUME NEW d \in Clients, FindUndelivered(d)
      PROVE  Awaits(c, n)'
  <2> DEFINE S == {m \in Notes : Saved(m) /\ ~notes[m].delivered}
             k == [at |-> IF S = {} THEN "idle" ELSE "ask", left |-> S]
  <2>1. Was /\ Same
    BY <1>5 DEF FindUndelivered, redis, Was, Same
  <2>2. n \in k.left
    BY <2>1 DEF Saved, Was
  <2>3. connections' = [connections EXCEPT ![d] = k]
    BY <1>5 DEF FindUndelivered, Push
  <2> HIDE DEF k
  <2> QED
    BY <1>c, <2>1, <2>2, <2>3
<1>6. ASSUME NEW d \in Clients, PushNext(d)
      PROVE  Awaits(c, n)'
  <2> DEFINE k == [connections[d] EXCEPT !.at = "mark"]
  <2>1. At(d, "ask") /\ Connected /\ Goto(d, "mark")
    BY <1>6 DEF PushNext, Connected, redis
  <2>2. k.left = connections[d].left
    BY <1>a DEF Connection
  <2>3. connections' = [connections EXCEPT ![d] = k]
    BY <2>1 DEF Goto
  <2>4. Was /\ Same
    BY <1>6 DEF PushNext, redis, Was, Same
  <2>5. Awaits(d, n) => n \in connections[d].left
    BY <2>1 DEF Awaits, At
  <2> HIDE DEF k
  <2> QED
    BY <1>c, <2>2, <2>3, <2>4, <2>5
<1>7. ASSUME NEW d \in Clients, MarkPushed(d)
      PROVE  Awaits(c, n)'
  <2> DEFINE S == Tail(d)
             k == [at |-> IF S = {} THEN "idle" ELSE "ask", left |-> S]
  <2>1. At(d, "mark") /\ notes' = MarkAsDelivered(Head(d))
    BY <1>7 DEF MarkPushed
  <2>2. Head(d) \in Notes
    BY <2>1, HeadType DEF At
  <2>3. Was /\ n # Head(d)
    BY <1>a, <2>1, <2>2 DEF MarkAsDelivered, Note, Was
  <2>4. Same
    BY <1>7 DEF MarkPushed, redis, Same
  <2>5. connections' = [connections EXCEPT ![d] = k]
    BY <1>7 DEF MarkPushed, Push
  <2>6. Awaits(d, n) => n \in k.left
    BY <2>1, <2>3 DEF Awaits, At, Tail
  <2> HIDE DEF k
  <2> QED
    BY <1>c, <2>3, <2>4, <2>5, <2>6
<1>8. ASSUME NEW d \in Clients, HandleDisconnect(d) \/ Drop(d)
      PROVE  Awaits(c, n)'
  BY <1>8, <1>b DEF HandleDisconnect, Drop, redis, Was, Same
<1>9. ASSUME NEW d \in Clients, Forget(d)
      PROVE  Awaits(c, n)'
  <2>1. Was /\ Same /\ c \in sockets
    BY <1>9 DEF Forget, redis, Was, Same, TypeInv, TypeOK
  <2>2. c # d
    BY <1>9, <2>1 DEF Forget
  <2> QED
    BY <1>9, <1>c, <2>1, <2>2 DEF Forget
<1>10. ASSUME NEW S, MarkAsRead(S)
       PROVE  Awaits(c, n)'
  <2>1. Was
    BY <1>10, <1>a DEF MarkAsRead, Note, Was
  <2> QED
    BY <1>10, <1>b, <2>1 DEF MarkAsRead, redis, Same
\* A failure ends the promise, and a restart the sockets.
<1>11. ~ \E m \in Notes : MessageFails(m)
  BY DEF MessageFails
<1>12. ~ \E d \in Clients : ConnectionFails(d)
  BY DEF ConnectionFails
<1>13. ~ Restart
  BY DEF Restart
<1>14. CASE ExpireSockets \/ UNCHANGED vars
  BY <1>14, <1>b DEF ExpireSockets, vars, Was, Same
<1> QED
  BY <1>1, <1>2, <1>3, <1>4, <1>5, <1>6, <1>7, <1>8, <1>9, <1>10, <1>11, <1>12, <1>13, <1>14
  DEF Next, MessageStep, SocketStep, MarkOneRead, MarkAsReadAll

\* The message looks for sockets after it has saved, and the socket looks for
\* notifications after it is known: as long as no query fails, whichever was first,
\* the notification is delivered or every socket that Redis knows has still to push it,
\* across lost connections, restarts and the day that Redis keeps the sockets.
THEOREM ForgottenCorrect == Spec => []NothingForgotten
<1>1. Init => NothingForgotten
  BY DEF Init, NothingForgotten
<1>2. TypeInv /\ NothingForgotten /\ [Next]_vars => NothingForgotten'
  BY NextForgotten
<1> QED
  BY <1>1, <1>2, InitType, NextType, PTL DEF Spec

=============================================================================
