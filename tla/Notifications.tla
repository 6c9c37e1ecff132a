--------------------------- MODULE Notifications ---------------------------
(***************************************************************************)
(* The notifications of one user (apps/notification): messages come from   *)
(* RabbitMQ, are saved, and are pushed over WebSocket to the sockets of    *)
(* the user; what was saved while there was none is pushed when one        *)
(* connects.  There is one instance of the service, and its sockets are    *)
(* known to Redis, which outlives it.                                      *)
(*                                                                         *)
(* One action is one query to MongoDB or Redis with what follows up to the *)
(* next await.  The two parties, the message and the connecting socket,    *)
(* each write first (the notification, the socket) and then look at what   *)
(* the other wrote; that is what keeps a notification from being forgotten *)
(* between them.  Redis forgets the sockets of a user a day after the last *)
(* one was added, whether they are open or not.                            *)
(***************************************************************************)
EXTENDS Integers, FiniteSets

CONSTANTS
  Clients,   \* browsers of the user, each with a socket at a time
  MaxNotes,  \* bound: notifications
  MaxFaults  \* bound: connections lost, failed queries and restarts

Notes == 1..MaxNotes

Jobs == {"none", "queued", "ask", "mark", "done", "lost"}
Stages == {"off", "join", "find", "ask", "mark", "idle"}

\* A notification and the handling of its message.
Note == [job : Jobs, delivered : BOOLEAN, read : BOOLEAN]

\* handleConnection of a socket: what it has found and not pushed yet.
Connection == [at : Stages, left : SUBSET Notes]

ASSUME NotificationsAssumption ==
  /\ MaxNotes \in Nat
  /\ MaxFaults \in Nat

VARIABLES
  notes,        \* RabbitMQ and MongoDB: the notifications
  connections,  \* the server's side of each socket
  online,       \* clients whose end of the socket lives
  sockets,      \* sockets the server holds open
  known,        \* Redis: user_sockets, those of them that sockets has
  stale,        \* Redis: user_sockets has some of no socket of this instance
  room,         \* sockets in the room of the user
  received,     \* notifications that reached a client
  faults,       \* failures so far
  failed        \* history: a query of the delivery has failed

vars == <<notes, connections, online, sockets, known, stale, room, received, faults, failed>>
redis == <<known, stale>>

TypeOK ==
  /\ notes \in [Notes -> Note]
  /\ connections \in [Clients -> Connection]
  /\ online \subseteq Clients
  /\ sockets \subseteq Clients
  /\ known \subseteq sockets
  /\ stale \in BOOLEAN
  /\ room \subseteq Clients
  /\ received \subseteq Notes
  /\ faults \in 0..MaxFaults
  /\ failed \in BOOLEAN

Saved(n) == notes[n].job \in {"ask", "mark", "done"}
At(c, q) == connections[c].at = q
Job(n, j) == notes' = [notes EXCEPT ![n].job = j]
Goto(c, q) == connections' = [connections EXCEPT ![c].at = q]

Off == [at |-> "off", left |-> {}]

Fault == faults < MaxFaults /\ faults' = faults + 1

Init ==
  /\ notes = [n \in Notes |-> [job |-> "none", delivered |-> FALSE, read |-> FALSE]]
  /\ connections = [c \in Clients |-> Off]
  /\ online = {} /\ sockets = {} /\ room = {} /\ received = {}
  /\ known = {}
  /\ stale = FALSE
  /\ faults = 0
  /\ failed = FALSE

-----------------------------------------------------------------------------
(* Pushing *)

\* Faulty: whether the user is connected is not asked.
ConnectedUnasked == TRUE

\* isUserConnected, hasUserSockets.
Connected == stale \/ known # {}

\* The server emits to the room; who is there and lives receives it.
Emit(n) == received' = IF room \cap online # {} THEN received \cup {n} ELSE received

\* Faulty: the document as it was created is saved again.
MarkAsDeliveredWhole(n) == [notes EXCEPT ![n].delivered = TRUE, ![n].read = FALSE]

\* Faulty: the document is replaced by the fields that are set.
MarkAsDeliveredOver(n) == [notes EXCEPT ![n] = [delivered |-> TRUE]]

\* markAsDelivered sets two fields of the document.
MarkAsDelivered(n) == [notes EXCEPT ![n].delivered = TRUE]

-----------------------------------------------------------------------------
(* A message *)

\* Another service emits create_notification; they are numbered as they come.
Publish(n) ==
  /\ notes[n].job = "none"
  /\ \A m \in 1..(n - 1) : notes[m].job # "none"
  /\ Job(n, "queued")
  /\ UNCHANGED <<connections, online, sockets, redis, room, received, faults, failed>>

\* processCreateNotificationRequest.  The message counts as handled once it is
\* delivered, and all are handled at once; to be delivered and to be saved is one
\* step here, for what comes between can only lose it.
CreateNotification(n) ==
  /\ notes[n].job = "queued"
  /\ Job(n, "ask")
  /\ UNCHANGED <<connections, online, sockets, redis, room, received, faults, failed>>

\* sendNotificationToUser.
SendNotification(n) ==
  /\ notes[n].job = "ask"
  /\ \/ ~Connected /\ Job(n, "done") /\ UNCHANGED received
     \/ Connected /\ Emit(n) /\ Job(n, "mark")
  /\ UNCHANGED <<connections, online, sockets, redis, room, faults, failed>>

MarkSent(n) ==
  /\ notes[n].job = "mark"
  /\ notes' = [MarkAsDelivered(n) EXCEPT ![n].job = "done"]
  /\ UNCHANGED <<connections, online, sockets, redis, room, received, faults, failed>>

-----------------------------------------------------------------------------
(* A socket *)

Push(c, left) ==
  connections' = [connections EXCEPT
    ![c] = [at |-> IF left = {} THEN "idle" ELSE "ask", left |-> left]]

\* Faulty: the notifications are looked for before the socket is known.
ConnectAfterFind(c) ==
  /\ At(c, "off")
  /\ c \notin online
  /\ online' = online \cup {c}
  /\ sockets' = sockets \cup {c}
  /\ known' = known \cup {c}
  /\ Push(c, {})
  /\ room' = room \cup {c}
  /\ UNCHANGED <<notes, stale, received, faults, failed>>

\* handleConnection with a valid token issues addUserSocket at once.
Connect(c) ==
  /\ At(c, "off")
  /\ c \notin online
  /\ online' = online \cup {c}
  /\ sockets' = sockets \cup {c}
  /\ known' = known \cup {c}
  /\ Goto(c, "join")
  /\ UNCHANGED <<notes, stale, room, received, faults, failed>>

\* Redis has answered.
JoinRoom(c) ==
  /\ At(c, "join")
  /\ room' = IF c \in sockets THEN room \cup {c} ELSE room
  /\ Goto(c, "find")
  /\ UNCHANGED <<notes, online, sockets, redis, received, faults, failed>>

\* findUndeliveredNotifications.
FindUndelivered(c) ==
  /\ At(c, "find")
  /\ Push(c, {n \in Notes : Saved(n) /\ ~notes[n].delivered})
  /\ UNCHANGED <<notes, online, sockets, redis, room, received, faults, failed>>

\* The one being pushed.
Head(c) == CHOOSE n \in connections[c].left : \A m \in connections[c].left : n <= m
Tail(c) == connections[c].left \ {Head(c)}

\* pushUndeliveredNotifications calls sendNotificationToUser in turn, with the
\* documents it has found; one pushed meanwhile is pushed again.
PushNext(c) ==
  /\ At(c, "ask")
  /\ \/ ~Connected /\ Push(c, Tail(c)) /\ UNCHANGED received
     \/ Connected /\ Emit(Head(c)) /\ Goto(c, "mark")
  /\ UNCHANGED <<notes, online, sockets, redis, room, faults, failed>>

\* Marked in sendNotificationToUser, and then by its caller, which changes nothing.
MarkPushed(c) ==
  /\ At(c, "mark")
  /\ notes' = MarkAsDelivered(Head(c))
  /\ Push(c, Tail(c))
  /\ UNCHANGED <<online, sockets, redis, room, received, faults, failed>>

\* The connection breaks.
Drop(c) ==
  /\ c \in online
  /\ Fault
  /\ online' = online \ {c}
  /\ UNCHANGED <<notes, connections, sockets, redis, room, received, failed>>

\* The server notices, at once or when no answer comes to its pings: the socket
\* leaves its room and Redis, or stays in Redis when removeUserSocket fails.  A push
\* goes on.
HandleDisconnect(c) ==
  /\ c \in sockets \ online
  /\ sockets' = sockets \ {c}
  /\ known' = known \ {c}
  /\ room' = room \ {c}
  /\ \/ UNCHANGED <<stale, faults>>
     \/ Fault /\ stale' = (stale \/ c \in known)
  /\ UNCHANGED <<notes, connections, online, received, failed>>

\* The push of a socket that is gone ends; its client may connect again.
Forget(c) ==
  /\ At(c, "idle")
  /\ c \notin sockets
  /\ connections' = [connections EXCEPT ![c] = Off]
  /\ UNCHANGED <<notes, online, sockets, redis, room, received, faults, failed>>

\* markAsRead, markAsReadAll: by HTTP, or by the socket, from which one must be known.
MarkAsRead(S) ==
  /\ \A n \in S : Saved(n)
  /\ notes' = [n \in Notes |-> IF n \in S THEN [notes[n] EXCEPT !.read = TRUE] ELSE notes[n]]
  /\ UNCHANGED <<connections, online, sockets, redis, room, received, faults, failed>>

MarkOneRead == \E n \in Notes : Saved(n) /\ ~notes[n].read /\ MarkAsRead({n})

MarkAsReadAll ==
  LET S == {n \in Notes : Saved(n)} IN
  (\E n \in S : ~notes[n].read) /\ MarkAsRead(S)

-----------------------------------------------------------------------------
(* Failures *)

\* A failed query: a message that was not saved is lost; one whose user could not be
\* looked up, or that could not be marked, waits for the next socket.
MessageFails(n) ==
  /\ notes[n].job \in {"queued", "ask", "mark"}
  /\ Fault
  /\ Job(n, IF notes[n].job = "queued" THEN "lost" ELSE "done")
  /\ failed' = TRUE
  /\ UNCHANGED <<connections, online, sockets, redis, room, received>>

\* Redis's failure to add the socket, which it may have added, MongoDB's to find, or to
\* mark the second time, disconnect it; a failed look-up, or a failed first mark, leaves
\* one notification out.
ConnectionFails(c) ==
  /\ connections[c].at \notin {"off", "idle"}
  /\ Fault
  /\ failed' = TRUE
  /\ \/ /\ connections[c].at \in {"join", "find", "mark"}
        /\ connections' = [connections EXCEPT ![c] = [at |-> "idle", left |-> {}]]
        /\ online' = online \ {c}
        /\ notes' = IF At(c, "mark") THEN MarkAsDelivered(Head(c)) ELSE notes
        /\ known' \in {known, IF At(c, "join") THEN known \ {c} ELSE known}
     \/ connections[c].at \in {"ask", "mark"} /\ Push(c, Tail(c)) /\ UNCHANGED <<notes, online, known>>
  /\ UNCHANGED <<sockets, stale, room, received>>

\* The instance dies, with the messages it was about to save, and is started again;
\* Redis keeps its sockets for a day.
Restart ==
  /\ Fault
  /\ \E S \in SUBSET {n \in Notes : notes[n].job = "queued"} :
       notes' = [n \in Notes |-> [notes[n] EXCEPT
         !.job = CASE n \in S -> "lost" [] @ \in {"ask", "mark"} -> "done" [] OTHER -> @]]
  /\ connections' = [c \in Clients |-> Off]
  /\ online' = {} /\ room' = {} /\ sockets' = {} /\ known' = {}
  /\ stale' = (stale \/ known # {})
  /\ UNCHANGED <<received, failed>>

\* The day that addUserSocket gives the key is over: all the sockets of the user leave
\* Redis, those that are open too.  Only a socket that is added renews the day.
ExpireSockets ==
  /\ Connected
  /\ known' = {} /\ stale' = FALSE
  /\ UNCHANGED <<notes, connections, online, sockets, room, received, faults, failed>>

MessageStep(n) ==
  \/ CreateNotification(n)
  \/ SendNotification(n)
  \/ MarkSent(n)

SocketStep(c) ==
  \/ JoinRoom(c)
  \/ FindUndelivered(c)
  \/ PushNext(c)
  \/ MarkPushed(c)
  \/ HandleDisconnect(c)
  \/ Forget(c)

Next ==
  \/ \E n \in Notes : Publish(n) \/ MessageStep(n) \/ MessageFails(n)
  \/ \E c \in Clients : Connect(c) \/ SocketStep(c) \/ Drop(c) \/ ConnectionFails(c)
  \/ MarkOneRead
  \/ MarkAsReadAll
  \/ Restart
  \/ ExpireSockets

Spec == Init /\ [][Next]_vars

\* What has been started goes on, and a client that is disconnected connects again.
Fairness ==
  /\ \A n \in Notes : WF_vars(MessageStep(n))
  /\ \A c \in Clients : WF_vars(SocketStep(c)) /\ WF_vars(Connect(c))

FairSpec == Spec /\ Fairness

-----------------------------------------------------------------------------
(* Properties *)

\* A notification that was delivered or read remains so, and none is unsaved,
\* whatever else writes to its document.
FlagsKept ==
  [][\A n \in Notes :
       /\ notes[n].delivered => notes'[n].delivered
       /\ notes[n].read => notes'[n].read
       /\ Saved(n) => Saved(n)']_vars

\* A notification is delivered without a reader only to a socket that Redis knows and
\* that has not joined its room yet or has gone, or to one of no living instance.
DeliveredUnseen ==
  [][\A n \in Notes :
       /\ ~(n \in received)
       /\ notes'[n].job = "mark" /\ notes[n].job # "mark"
       /\ ~(n \in received')
       => stale \/ \E c \in known : At(c, "join") \/ c \notin online]_vars

\* A socket is open that Redis has forgotten.
Overlooked == \E c \in sockets : c \notin known

\* What is saved is delivered in the end, across lost connections and restarts, as
\* long as clients connect again, unless a query failed: if from some time on no open
\* socket is overlooked.  While one is, a message finds nobody and is left to the next
\* socket.
EventuallyDelivered ==
  <>[]~Overlooked => \A n \in Notes : Saved(n) ~> notes[n].delivered \/ failed

=============================================================================
