--------------------------- MODULE SessionsProofs ---------------------------
(***************************************************************************)
(* Proofs about Sessions, for any number of users, devices, sessions,      *)
(* handlers, failures and requests.                                        *)
(***************************************************************************)
EXTENDS Sessions, TLAPS

USE SessionsAssumption

-----------------------------------------------------------------------------
(* Types *)

\* What a request holds at each of its queries.
Typed(r) ==
  /\ r.op = "login" => r.device \in Devices
  /\ r.at \in {"checkDevice", "checkOtp", "deleteSso", "create", "findCreated", "notify",
               "findTrusted", "untrust", "revokeSessions"} => r.device \in Devices
  /\ r.at \in {"create", "findCreated", "notify"} => r.new \in Token
  /\ r.at \in {"validate", "rotate", "findRotated", "revoke", "findRevoked"} => r.old \in Token
  /\ r.at \in {"rotate", "findRotated"} => r.new \in Token

TypeInv ==
  /\ TypeOK
  /\ \A h \in Handlers : Busy(h) => Typed(requests[h])

\* What is minted is a token.
LEMMA MintType ==
  ASSUME now \in 0..MaxTime, NEW u \in Users
  PROVE  Mint(u) \in Token
BY DEF Mint, Token

\* A request moves to a typed request, or ends.
LEMMA BecomesTyped ==
  ASSUME TypeInv, NEW h \in Handlers, NEW r \in Request, Typed(r), Becomes(h, r)
  PROVE  /\ requests' \in [Handlers -> Request \cup {None}]
         /\ \A g \in Handlers : Busy(g)' => Typed(requests[g])'
<1>1. requests' = [requests EXCEPT ![h] = r]
  BY DEF Becomes
<1>2. \A g \in Handlers : requests'[g] = IF g = h THEN r ELSE requests[g]
  BY <1>1 DEF TypeInv, TypeOK
<1>3. \A g \in Handlers : requests'[g] # None => Typed(requests'[g])
  BY <1>2 DEF TypeInv, Busy
<1>4. \A g \in Handlers : Busy(g)' => Typed(requests[g])'
  BY <1>3 DEF Busy, Typed
<1> QED
  BY <1>1, <1>4 DEF TypeInv, TypeOK

\* A request that ends leaves the others typed.
LEMMA ReturnTyped ==
  ASSUME TypeInv, NEW h \in Handlers, Return(h)
  PROVE  /\ requests' \in [Handlers -> Request \cup {None}]
         /\ \A g \in Handlers : Busy(g)' => Typed(requests[g])'
<1>1. requests' = [requests EXCEPT ![h] = None]
  BY DEF Return, Becomes
<1>2. \A g \in Handlers : requests'[g] = IF g = h THEN None ELSE requests[g]
  BY <1>1 DEF TypeInv, TypeOK
<1>3. \A g \in Handlers : requests'[g] # None => Typed(requests'[g])
  BY <1>2 DEF TypeInv, Busy
<1>4. \A g \in Handlers : Busy(g)' => Typed(requests[g])'
  BY <1>3 DEF Busy, Typed
<1> QED
  BY <1>1, <1>4 DEF TypeInv, TypeOK

\* Requests that do not change stay typed.
LEMMA UnchangedTyped ==
  ASSUME TypeInv, UNCHANGED requests
  PROVE  /\ requests' \in [Handlers -> Request \cup {None}]
         /\ \A g \in Handlers : Busy(g)' => Typed(requests[g])'
BY DEF TypeInv, TypeOK, Busy, Typed

\* A request that creates a session.
LEMMA CreateSessionTyped ==
  ASSUME TypeInv, NEW h \in Handlers, Busy(h), requests[h].device \in Devices,
         NEW op \in Operations, CreateSession(h, op)
  PROVE  /\ requests' \in [Handlers -> Request \cup {None}]
         /\ \A g \in Handlers : Busy(g)' => Typed(requests[g])'
<1> DEFINE r == requests[h]
           q == [r EXCEPT !.op = op, !.at = "create", !.new = Mint(Owner[r.device])]
<1>1. r \in Request
  BY DEF TypeInv, TypeOK, Busy
<1>2. Mint(Owner[r.device]) \in Token
  BY MintType DEF TypeInv, TypeOK
<1>3. q \in Request
  BY <1>1, <1>2 DEF Request, Queries
<1>4. q.at = "create" /\ q.device = r.device /\ q.new = Mint(Owner[r.device])
  BY <1>1 DEF Request
<1>5. Typed(q)
  BY <1>2, <1>4 DEF Typed
<1>6. Becomes(h, q)
  BY DEF CreateSession
<1> QED
  BY <1>3, <1>5, <1>6, BecomesTyped

\* A request that goes on to its next query with what it has.
LEMMA GotoTyped ==
  ASSUME TypeInv, NEW h \in Handlers, Busy(h), NEW q \in Queries, Goto(h, q),
         Typed([requests[h] EXCEPT !.at = q])
  PROVE  /\ requests' \in [Handlers -> Request \cup {None}]
         /\ \A g \in Handlers : Busy(g)' => Typed(requests[g])'
<1>1. requests[h] \in Request
  BY DEF TypeInv, TypeOK, Busy
<1>2. [requests[h] EXCEPT !.at = q] \in Request
  BY <1>1 DEF Request
<1> QED
  BY <1>2, BecomesTyped DEF Goto

\* Where a request stands tells which values it holds.
LEMMA Holds ==
  ASSUME TypeInv, NEW h \in Handlers, NEW q \in Queries, At(h, q)
  PROVE  Busy(h) /\ requests[h] \in Request /\ requests[h].at = q /\ Typed(requests[h])
BY DEF TypeInv, TypeOK, At, Busy

\* Types hold at first.
LEMMA TypeInit ==
  ASSUME Init
  PROVE  TypeInv
<1>1. TypeOK
  BY DEF Init, TypeOK
<1>2. \A h \in Handlers : ~Busy(h)
  BY DEF Init, Busy
<1> QED
  BY <1>1, <1>2 DEF TypeInv

\* The queries that only move the request on, and what they move it to.
LEMMA GotoStep ==
  ASSUME TypeInv, NEW h \in Handlers, NEW p \in Queries, NEW q \in Queries,
         At(h, p), Goto(h, q),
         \/ p = "checkDevice" /\ q = "checkOtp"
         \/ p = "create" /\ q = "findCreated"
         \/ p = "findCreated" /\ q = "notify"
         \/ p = "validate" /\ q = "revoke"
         \/ p = "rotate" /\ q = "findRotated"
         \/ p = "revoke" /\ q = "findRevoked"
         \/ p = "findTrusted" /\ q = "untrust"
         \/ p = "untrust" /\ q = "revokeSessions"
  PROVE  /\ requests' \in [Handlers -> Request \cup {None}]
         /\ \A g \in Handlers : Busy(g)' => Typed(requests[g])'
<1> DEFINE r == requests[h]
           n == [r EXCEPT !.at = q]
<1>1. r \in Request /\ r.at = p /\ Typed(r) /\ Busy(h)
  BY Holds
<1>2. n.op = r.op /\ n.at = q /\ n.device = r.device /\ n.old = r.old /\ n.new = r.new
  BY <1>1 DEF Request
<1>3. Typed(n)
  BY <1>1, <1>2 DEF Typed
<1> QED
  BY <1>1, <1>3, GotoTyped

\* A request that begins with a device, or with a token to validate, is typed.
LEMMA BeginTyped ==
  ASSUME TypeInv, NEW h \in Handlers, NEW op \in Operations, NEW q \in Queries,
         NEW d \in Devices \cup {None}, NEW t \in Token \cup {None}, Begin(h, op, q, d, t),
         \/ q \in {"checkDevice", "deleteSso", "findTrusted"} /\ d \in Devices
         \/ q = "validate" /\ t \in Token /\ op # "login"
  PROVE  TypeInv'
<1> DEFINE r == [op |-> op, at |-> q, device |-> d, old |-> t, new |-> None]
<1>1. r \in Request
  BY DEF Request
<1>2. Typed(r)
  BY DEF Typed
<1>3. Becomes(h, r)
  BY DEF Begin
<1>4. begun' \in 0..MaxRequests
  BY DEF Begin, TypeInv, TypeOK
<1> HIDE DEF r
<1>5. /\ requests' \in [Handlers -> Request \cup {None}]
      /\ \A g \in Handlers : Busy(g)' => Typed(requests[g])'
  BY <1>1, <1>2, <1>3, BecomesTyped
<1> QED
  BY <1>4, <1>5 DEF Begin, history, TypeInv, TypeOK

\* Every step keeps types.
LEMMA TypeNext ==
  ASSUME TypeInv, [Next]_vars
  PROVE  TypeInv'
<1> USE DEF history, bounds
<1> DEFINE RequestsTyped == /\ requests' \in [Handlers -> Request \cup {None}]
                            /\ \A g \in Handlers : Busy(g)' => Typed(requests[g])'
<1>1. CASE Tick
  <2>1. RequestsTyped
    BY <1>1, UnchangedTyped DEF Tick
  <2> QED
    BY <1>1, <2>1 DEF Tick, TypeInv, TypeOK
<1>2. ASSUME NEW h \in Handlers, NEW d \in Devices,
             BeginLogin(h, d) \/ BeginSso(h, d) \/ BeginRevokeDevice(h, d)
      PROVE  TypeInv'
  BY <1>2, BeginTyped DEF BeginLogin, BeginSso, BeginRevokeDevice, Operations, Queries
<1>3. ASSUME NEW h \in Handlers, NEW t \in Token, BeginRefresh(h, t) \/ BeginLogout(h, t)
      PROVE  TypeInv'
  BY <1>3, BeginTyped DEF BeginRefresh, BeginLogout, Operations, Queries
<1>4. ASSUME NEW h \in Handlers, CheckDevice(h) PROVE TypeInv'
  <2>1. RequestsTyped
    BY <1>4, ReturnTyped, GotoStep DEF CheckDevice, Queries
  <2> QED
    BY <1>4, <2>1 DEF CheckDevice, TypeInv, TypeOK
<1>5. ASSUME NEW h \in Handlers, CheckOtp(h) PROVE TypeInv'
  <2>1. Busy(h) /\ requests[h].device \in Devices
    BY <1>5, Holds DEF CheckOtp, Queries, Typed
  <2>2. RequestsTyped
    BY <1>5, <2>1, ReturnTyped, CreateSessionTyped DEF CheckOtp, Operations
  <2> QED
    BY <1>5, <2>2 DEF CheckOtp, TypeInv, TypeOK
<1>6. ASSUME NEW h \in Handlers, DeleteSso(h) PROVE TypeInv'
  <2>1. Busy(h) /\ requests[h].device \in Devices /\ requests[h].op \in Operations
    BY <1>6, Holds DEF DeleteSso, Queries, Typed, Request
  <2>2. RequestsTyped
    BY <1>6, <2>1, CreateSessionTyped DEF DeleteSso
  <2> QED
    BY <1>6, <2>2 DEF DeleteSso, TypeInv, TypeOK
<1>7. ASSUME NEW h \in Handlers, Create(h) PROVE TypeInv'
  <2>1. requests[h].device \in Devices /\ requests[h].new \in Token
    BY <1>7, Holds DEF Create, Queries, Typed
  <2>2. RequestsTyped
    BY <1>7, GotoStep DEF Create, Queries
  <2>3. PICK s \in Sids : /\ InsertSession(s, requests[h].device, requests[h].new)
                          /\ carried' = [carried EXCEPT ![s] = {requests[h].new}]
    BY <1>7 DEF Create
  <2>4. requests[h].new.iat + Lifetime \in 0..(MaxTime + Lifetime)
    BY <2>1 DEF Token
  <2>5. [device |-> requests[h].device, token |-> requests[h].new,
         expires |-> requests[h].new.iat + Lifetime, active |-> TRUE] \in Session
    BY <2>1, <2>4 DEF Session
  <2>6. sessions' \in [Sids -> Session \cup {None}]
    BY <2>3, <2>5 DEF InsertSession, TypeInv, TypeOK
  <2>7. carried' \in [Sids -> SUBSET Token]
    BY <2>1, <2>3 DEF TypeInv, TypeOK
  <2> QED
    BY <1>7, <2>1, <2>2, <2>6, <2>7 DEF Create, TypeInv, TypeOK
<1>8. ASSUME NEW h \in Handlers, FindCreated(h) PROVE TypeInv'
  <2>1. Busy(h) /\ requests[h].device \in Devices
    BY <1>8, Holds DEF FindCreated, Queries, Typed
  <2>2. RequestsTyped
    BY <1>8, <2>1, ReturnTyped, GotoStep, CreateSessionTyped DEF FindCreated, Queries, Operations
  <2> QED
    BY <1>8, <2>2 DEF FindCreated, TypeInv, TypeOK
<1>9. ASSUME NEW h \in Handlers, Notify(h) PROVE TypeInv'
  <2>1. requests[h].new \in Token
    BY <1>9, Holds DEF Notify, Queries, Typed
  <2>2. RequestsTyped
    BY <1>9, ReturnTyped DEF Notify
  <2> QED
    BY <1>9, <2>1, <2>2 DEF Notify, TypeInv, TypeOK
<1>10. ASSUME NEW h \in Handlers, ValidateSession(h) PROVE TypeInv'
  <2> DEFINE r == requests[h]
  <2>1. r \in Request /\ r.old \in Token /\ Typed(r) /\ Busy(h) /\ At(h, "validate")
    BY <1>10, Holds DEF ValidateSession, Queries, Typed
  <2>2. ASSUME NEW s \in Sids, Accepts(s, r.old),
               Becomes(h, [r EXCEPT !.at = "rotate", !.new = Mint(Owner[sessions[s].device])])
        PROVE  RequestsTyped
    <3> DEFINE m == Mint(Owner[sessions[s].device])
               n == [r EXCEPT !.at = "rotate", !.new = m]
    <3>1. sessions[s] \in Session
      BY <2>2 DEF Accepts, Live, Carriers, Exists, TypeInv, TypeOK
    <3>2. m \in Token
      BY <3>1, MintType DEF Session, TypeInv, TypeOK
    <3>3. n \in Request
      BY <2>1, <3>2 DEF Request, Queries
    <3>4. n.op = r.op /\ n.device = r.device /\ n.at = "rotate" /\ n.old = r.old /\ n.new = m
      BY <2>1 DEF Request
    <3>5. Typed(n)
      BY <2>1, <3>2, <3>4 DEF Typed
    <3>6. Becomes(h, n)
      BY <2>2
    <3> HIDE DEF n
    <3> QED
      BY <3>3, <3>5, <3>6, BecomesTyped
  <2>3. ASSUME Goto(h, "revoke") PROVE RequestsTyped
    BY <2>1, <2>3, GotoStep DEF Queries
  <2>4. ASSUME Return(h) PROVE RequestsTyped
    BY <2>4, ReturnTyped
  <2>5. RequestsTyped
    BY <1>10, <2>2, <2>3, <2>4 DEF ValidateSession
  <2> QED
    BY <1>10, <2>5 DEF ValidateSession, TypeInv, TypeOK
<1>11. ASSUME NEW h \in Handlers, Rotate(h) PROVE TypeInv'
  <2>1. requests[h].new \in Token
    BY <1>11, Holds DEF Rotate, Queries, Typed
  <2>2. RequestsTyped
    BY <1>11, GotoStep DEF Rotate, Queries
  <2>3. ASSUME NEW s \in Carriers(requests[h].old), SetToken(s, requests[h].new)
        PROVE  /\ sessions' \in [Sids -> Session \cup {None}]
               /\ carried' \in [Sids -> SUBSET Token]
    <3>1. s \in Sids /\ sessions[s] \in Session
      BY DEF Carriers, Exists, TypeInv, TypeOK
    <3>2. [sessions[s] EXCEPT !.token = requests[h].new] \in Session
      BY <2>1, <3>1 DEF Session
    <3> QED
      BY <2>1, <2>3, <3>1, <3>2 DEF SetToken, TypeInv, TypeOK
  <2> QED
    BY <1>11, <2>2, <2>3 DEF Rotate, TypeInv, TypeOK
<1>12. ASSUME NEW h \in Handlers, FindRotated(h) PROVE TypeInv'
  <2>1. requests[h].new \in Token /\ requests[h].old \in Token
    BY <1>12, Holds DEF FindRotated, Queries, Typed
  <2>2. RequestsTyped
    BY <1>12, ReturnTyped DEF FindRotated
  <2> QED
    BY <1>12, <2>1, <2>2 DEF FindRotated, TypeInv, TypeOK
<1>13. ASSUME NEW s \in Sids, Exists(s), SetRevoked(s)
       PROVE  sessions' \in [Sids -> Session \cup {None}] /\ carried' \in [Sids -> SUBSET Token]
  <2>1. sessions[s] \in Session
    BY <1>13 DEF Exists, TypeInv, TypeOK
  <2>2. [sessions[s] EXCEPT !.active = FALSE] \in Session
    BY <2>1 DEF Session
  <2> QED
    BY <1>13, <2>2 DEF SetRevoked, TypeInv, TypeOK
<1>14. ASSUME NEW h \in Handlers, Revoke(h) PROVE TypeInv'
  <2>1. RequestsTyped
    BY <1>14, GotoStep DEF Revoke, Queries
  <2> QED
    BY <1>13, <1>14, <2>1 DEF Revoke, Carriers, TypeInv, TypeOK
<1>15. ASSUME NEW h \in Handlers, FindRevoked(h) PROVE TypeInv'
  <2>1. requests[h].old \in Token
    BY <1>15, Holds DEF FindRevoked, Queries, Typed
  <2>2. RequestsTyped
    BY <1>15, ReturnTyped DEF FindRevoked
  <2> QED
    BY <1>15, <2>1, <2>2 DEF FindRevoked, TypeInv, TypeOK
<1>16. ASSUME NEW h \in Handlers, FindTrusted(h) PROVE TypeInv'
  <2>1. RequestsTyped
    BY <1>16, ReturnTyped, GotoStep DEF FindTrusted, Queries
  <2> QED
    BY <1>16, <2>1 DEF FindTrusted, TypeInv, TypeOK
<1>17. ASSUME NEW h \in Handlers, Untrust(h) PROVE TypeInv'
  <2>1. RequestsTyped
    BY <1>17, GotoStep DEF Untrust, Queries
  <2> QED
    BY <1>17, <2>1 DEF Untrust, TypeInv, TypeOK
<1>18. ASSUME NEW h \in Handlers, RevokeSessionByDeviceFingerprintId(h) PROVE TypeInv'
  <2>1. requests[h].device \in Devices
    BY <1>18, Holds DEF RevokeSessionByDeviceFingerprintId, Queries, Typed
  <2>2. RequestsTyped
    BY <1>18, ReturnTyped DEF RevokeSessionByDeviceFingerprintId
  <2>3. \A s \in Sids : s \in ActiveOn(requests[h].device) =>
          [sessions[s] EXCEPT !.active = FALSE] \in Session
    <3>1. \A s \in Sids : s \in ActiveOn(requests[h].device) => sessions[s] \in Session
      BY DEF ActiveOn, Exists, TypeInv, TypeOK
    <3>2. \A x \in Session : [x EXCEPT !.active = FALSE] \in Session
      BY DEF Session
    <3> QED
      BY <3>1, <3>2
  <2>4. DeactivateAll(requests[h].device) \in [Sids -> Session \cup {None}]
    <3> DEFINE D == ActiveOn(requests[h].device)
    <3> HIDE DEF D
    <3>1. \A s \in Sids : (IF s \in D THEN [sessions[s] EXCEPT !.active = FALSE] ELSE sessions[s])
                            \in Session \cup {None}
      BY <2>3 DEF D, TypeInv, TypeOK
    <3> QED
      BY <3>1 DEF D, DeactivateAll
  <2>5. sessions' \in [Sids -> Session \cup {None}]
    BY <1>18, <2>4 DEF RevokeSessionByDeviceFingerprintId
  <2> QED
    BY <1>18, <2>1, <2>2, <2>5 DEF RevokeSessionByDeviceFingerprintId, TypeInv, TypeOK
<1>19. ASSUME NEW h \in Handlers, QueryFails(h) \/ Crash(h) PROVE TypeInv'
  <2>1. Busy(h) /\ requests[h] \in Request /\ Typed(requests[h])
    BY <1>19 DEF QueryFails, Crash, Busy, TypeInv, TypeOK
  <2>2. RequestsTyped
    BY <1>19, <2>1, ReturnTyped, CreateSessionTyped DEF QueryFails, Crash, Typed, Operations
  <2>3. loose' \subseteq Devices
    BY <1>19, <2>1 DEF QueryFails, Crash, Loosened, At, Typed, TypeInv, TypeOK
  <2> QED
    BY <1>19, <2>2, <2>3 DEF QueryFails, Crash, Fault, TypeInv, TypeOK
<1>20. ASSUME NEW s \in Sids, RevokeSessionBySessionId(s) PROVE TypeInv'
  <2>1. RequestsTyped
    BY <1>20, UnchangedTyped DEF RevokeSessionBySessionId
  <2> QED
    BY <1>13, <1>20, <2>1 DEF RevokeSessionBySessionId, TypeInv, TypeOK
<1>21. ASSUME NEW d \in Devices, TrustDevice(d) \/ CreateSsoToken(d) \/ ExpireSsoToken(d)
       PROVE  TypeInv'
  <2>1. RequestsTyped
    BY <1>21, UnchangedTyped DEF TrustDevice, CreateSsoToken, ExpireSsoToken
  <2> QED
    BY <1>21, <2>1 DEF TrustDevice, CreateSsoToken, ExpireSsoToken, TypeInv, TypeOK
<1>22. CASE UNCHANGED vars
  <2>1. RequestsTyped
    BY <1>22, UnchangedTyped DEF vars
  <2> QED
    BY <1>22, <2>1 DEF vars, TypeInv, TypeOK
<1> QED
  BY <1>1, <1>2, <1>3, <1>4, <1>5, <1>6, <1>7, <1>8, <1>9, <1>10, <1>11, <1>12, <1>14, <1>15,
     <1>16, <1>17, <1>18, <1>19, <1>20, <1>21, <1>22
  DEF Next, HandlerStep

\* The types of Sessions.
THEOREM TypeCorrect == Spec => []TypeOK
<1>1. TypeInv => TypeOK
  BY DEF TypeInv
<1> QED
  BY <1>1, TypeInit, TypeNext, PTL DEF Spec

-----------------------------------------------------------------------------
(* What one step does to a session and to a request *)

Kept(s) == sessions'[s] = sessions[s] /\ carried'[s] = carried[s]

Born(s) ==
  \E h \in Handlers :
    /\ Create(h) /\ ~Exists(s)
    /\ sessions'[s] = [device |-> requests[h].device, token |-> requests[h].new,
                       expires |-> requests[h].new.iat + Lifetime, active |-> TRUE]
    /\ carried'[s] = {requests[h].new}

Rotated(s) ==
  \E h \in Handlers :
    /\ At(h, "rotate") /\ s \in Carriers(requests[h].old)
    /\ sessions'[s] = [sessions[s] EXCEPT !.token = requests[h].new]
    /\ carried'[s] = carried[s] \cup {requests[h].new}

Ended(s) ==
  /\ Exists(s)
  /\ sessions'[s] = [sessions[s] EXCEPT !.active = FALSE]
  /\ carried'[s] = carried[s]

\* A step leaves a session, makes it, gives it another token or ends it.
LEMMA SessionStep ==
  ASSUME TypeInv, [Next]_vars
  PROVE  \A s \in Sids : Kept(s) \/ Born(s) \/ Rotated(s) \/ Ended(s)
<1> USE DEF history, bounds
<1>1. ASSUME UNCHANGED <<sessions, carried>>
      PROVE  \A s \in Sids : Kept(s)
  BY <1>1 DEF Kept
<1>2. ASSUME NEW h \in Handlers, Create(h)
      PROVE  \A s \in Sids : Kept(s) \/ Born(s)
  <2>1. PICK z \in Sids : /\ ~Exists(z)
                          /\ InsertSession(z, requests[h].device, requests[h].new)
                          /\ carried' = [carried EXCEPT ![z] = {requests[h].new}]
    BY <1>2 DEF Create
  <2>2. ASSUME NEW s \in Sids, s # z PROVE Kept(s)
    BY <2>1, <2>2 DEF Kept, InsertSession, TypeInv, TypeOK
  <2>3. Born(z)
    BY <1>2, <2>1 DEF Born, Create, InsertSession, TypeInv, TypeOK
  <2> QED
    BY <2>2, <2>3
<1>3. ASSUME NEW h \in Handlers, Rotate(h)
      PROVE  \A s \in Sids : Kept(s) \/ Rotated(s)
  <2>1. CASE Carriers(requests[h].old) = {}
    BY <1>1, <1>3, <2>1 DEF Rotate
  <2>2. ASSUME NEW z \in Carriers(requests[h].old), SetToken(z, requests[h].new)
        PROVE  \A s \in Sids : Kept(s) \/ Rotated(s)
    <3>1. ASSUME NEW s \in Sids, s # z PROVE Kept(s)
      BY <2>2, <3>1 DEF Kept, SetToken, TypeInv, TypeOK
    <3>2. z \in Sids
      BY DEF Carriers
    <3>3. Rotated(z)
      BY <1>3, <2>2, <3>2 DEF Rotated, Rotate, SetToken, TypeInv, TypeOK
    <3> QED
      BY <3>1, <3>3
  <2> QED
    BY <1>3, <2>1, <2>2 DEF Rotate
<1>4. ASSUME NEW z \in Sids, Exists(z), SetRevoked(z)
      PROVE  \A s \in Sids : Kept(s) \/ Ended(s)
  <2>1. ASSUME NEW s \in Sids, s # z PROVE Kept(s)
    BY <1>4, <2>1 DEF Kept, SetRevoked, TypeInv, TypeOK
  <2>2. Ended(z)
    BY <1>4 DEF Ended, SetRevoked, TypeInv, TypeOK
  <2> QED
    BY <2>1, <2>2
<1>5. ASSUME NEW h \in Handlers, Revoke(h)
      PROVE  \A s \in Sids : Kept(s) \/ Ended(s)
  BY <1>1, <1>4, <1>5 DEF Revoke, Carriers
<1>6. ASSUME NEW h \in Handlers, RevokeSessionByDeviceFingerprintId(h)
      PROVE  \A s \in Sids : Kept(s) \/ Ended(s)
  <2> DEFINE D == ActiveOn(requests[h].device)
  <2>1. sessions' = [s \in Sids |-> IF s \in D THEN [sessions[s] EXCEPT !.active = FALSE]
                                               ELSE sessions[s]]
    BY <1>6 DEF RevokeSessionByDeviceFingerprintId, DeactivateAll
  <2>2. carried' = carried
    BY <1>6 DEF RevokeSessionByDeviceFingerprintId
  <2>3. \A s \in D : Exists(s)
    BY DEF ActiveOn
  <2> HIDE DEF D
  <2>4. ASSUME NEW s \in Sids, s \in D PROVE Ended(s)
    BY <2>1, <2>2, <2>3, <2>4 DEF Ended
  <2>5. ASSUME NEW s \in Sids, s \notin D PROVE Kept(s)
    BY <2>1, <2>2, <2>5 DEF Kept
  <2> QED
    BY <2>4, <2>5
<1>7. CASE Tick \/ UNCHANGED vars
  BY <1>1, <1>7 DEF Tick, vars
<1>8. ASSUME NEW h \in Handlers, NEW op, NEW q, NEW d, NEW t, Begin(h, op, q, d, t)
      PROVE  \A s \in Sids : Kept(s)
  BY <1>1, <1>8 DEF Begin
<1>9. ASSUME NEW h \in Handlers, HandlerStep(h)
      PROVE  \A s \in Sids : Kept(s) \/ Born(s) \/ Rotated(s) \/ Ended(s)
  <2>1. CASE CheckDevice(h) \/ CheckOtp(h) \/ DeleteSso(h) \/ FindCreated(h) \/ Notify(h)
             \/ ValidateSession(h)
    BY <1>1, <2>1 DEF CheckDevice, CheckOtp, DeleteSso, FindCreated, Notify, ValidateSession
  <2>2. CASE FindRotated(h) \/ FindRevoked(h) \/ FindTrusted(h) \/ Untrust(h) \/ QueryFails(h) \/ Crash(h)
    BY <1>1, <2>2 DEF FindRotated, FindRevoked, FindTrusted, Untrust, QueryFails, Crash
  <2> QED
    BY <1>2, <1>3, <1>5, <1>6, <1>9, <2>1, <2>2 DEF HandlerStep
<1>10. ASSUME NEW s \in Sids, RevokeSessionBySessionId(s)
       PROVE  \A z \in Sids : Kept(z) \/ Ended(z)
  BY <1>4, <1>10 DEF RevokeSessionBySessionId
<1>11. ASSUME NEW d \in Devices, TrustDevice(d) \/ CreateSsoToken(d) \/ ExpireSsoToken(d)
       PROVE  \A s \in Sids : Kept(s)
  BY <1>1, <1>11 DEF TrustDevice, CreateSsoToken, ExpireSsoToken
<1> QED
  BY <1>7, <1>8, <1>9, <1>10, <1>11
  DEF Next, BeginLogin, BeginSso, BeginRevokeDevice, BeginRefresh, BeginLogout

\* Where the values of a request come from.
Came(h) ==
  LET r == requests[h]
      n == requests'[h]
  IN
  \/ n = r
  \/ n = None
  \/ n.at \notin {"create", "rotate", "revoke", "findRotated", "findRevoked"}
  \/ n.at = "create" /\ n.new = Mint(Owner[n.device])
  \/ /\ n.at = "rotate" /\ n.old = r.old
     /\ \E s \in Sids : Accepts(s, r.old) /\ n.new = Mint(Owner[sessions[s].device])
  \/ n.at = "revoke" /\ n.old = r.old /\ Live(r.old) # {}
  \/ n.at = "findRotated" /\ Rotate(h) /\ n.old = r.old /\ n.new = r.new
  \/ n.at = "findRevoked" /\ Revoke(h) /\ n.old = r.old

\* A request that comes to a query about a session comes with what the query needs.
LEMMA RequestStep ==
  ASSUME TypeInv, [Next]_vars
  PROVE  \A h \in Handlers : Came(h)
<1> USE DEF history, bounds
<1>1. ASSUME UNCHANGED requests
      PROVE  \A h \in Handlers : Came(h)
  BY <1>1 DEF Came
<1>2. ASSUME NEW h \in Handlers, NEW r, Becomes(h, r), Came(h)
      PROVE  \A g \in Handlers : Came(g)
  BY <1>2 DEF Becomes, Came, TypeInv, TypeOK
<1>3. ASSUME NEW h \in Handlers, NEW r, Becomes(h, r)
      PROVE  requests'[h] = r
  BY <1>3 DEF Becomes, TypeInv, TypeOK
<1>4. ASSUME NEW h \in Handlers, Return(h)
      PROVE  \A g \in Handlers : Came(g)
  BY <1>2, <1>3, <1>4 DEF Return, Came
<1>5. ASSUME NEW h \in Handlers, NEW q \in Queries, Busy(h), Goto(h, q),
             q \notin {"create", "rotate", "revoke", "findRotated", "findRevoked"}
      PROVE  \A g \in Handlers : Came(g)
  <2>1. requests[h] \in Request
    BY <1>5 DEF Busy, TypeInv, TypeOK
  <2>2. requests'[h].at = q
    BY <1>3, <1>5, <2>1 DEF Goto, Request
  <2> QED
    BY <1>2, <1>5, <2>2 DEF Came, Goto
<1>6. ASSUME NEW h \in Handlers, NEW op, Busy(h), CreateSession(h, op)
      PROVE  \A g \in Handlers : Came(g)
  <2>1. requests[h] \in Request
    BY <1>6 DEF Busy, TypeInv, TypeOK
  <2>2. /\ requests'[h].at = "create"
        /\ requests'[h].device = requests[h].device
        /\ requests'[h].new = Mint(Owner[requests[h].device])
    BY <1>3, <1>6, <2>1 DEF CreateSession, Request
  <2> QED
    BY <1>2, <1>6, <2>2 DEF Came, CreateSession
<1>7. ASSUME NEW h \in Handlers, NEW op, NEW q, NEW d, NEW t, Begin(h, op, q, d, t),
             q \in {"checkDevice", "deleteSso", "validate", "findTrusted"}
      PROVE  \A g \in Handlers : Came(g)
  <2>1. requests'[h].at = q
    BY <1>3, <1>7 DEF Begin
  <2> QED
    BY <1>2, <1>7, <2>1 DEF Begin, Came
<1>8. ASSUME NEW h \in Handlers, NEW q \in {"revoke", "findRotated", "findRevoked"}, Busy(h), Goto(h, q)
      PROVE  /\ requests'[h].at = q
             /\ requests'[h].old = requests[h].old
             /\ requests'[h].new = requests[h].new
  <2>1. requests[h] \in Request
    BY <1>8 DEF Busy, TypeInv, TypeOK
  <2> QED
    BY <1>3, <1>8, <2>1 DEF Goto, Request
<1>9. ASSUME NEW h \in Handlers, ValidateSession(h)
      PROVE  \A g \in Handlers : Came(g)
  <2> DEFINE r == requests[h]
  <2>1. Busy(h) /\ r \in Request
    BY <1>9, Holds DEF ValidateSession, Queries
  <2>2. ASSUME NEW s \in Sids, Accepts(s, r.old),
               Becomes(h, [r EXCEPT !.at = "rotate", !.new = Mint(Owner[sessions[s].device])])
        PROVE  \A g \in Handlers : Came(g)
    <3>1. /\ requests'[h].at = "rotate"
          /\ requests'[h].old = r.old
          /\ requests'[h].new = Mint(Owner[sessions[s].device])
      BY <1>3, <2>1, <2>2 DEF Request
    <3>2. Came(h)
      BY <2>2, <3>1 DEF Came
    <3> QED
      BY <1>2, <2>2, <3>2
  <2>3. ASSUME NEW s \in Sids, Accepts(s, r.old), Goto(h, "revoke")
        PROVE  \A g \in Handlers : Came(g)
    <3>1. Live(r.old) # {}
      BY <2>3 DEF Accepts
    <3>2. Came(h)
      BY <1>8, <2>1, <2>3, <3>1 DEF Came
    <3> QED
      BY <1>2, <2>3, <3>2 DEF Goto
  <2> QED
    BY <1>4, <1>9, <2>2, <2>3 DEF ValidateSession
<1>10. ASSUME NEW h \in Handlers, Rotate(h)
       PROVE  \A g \in Handlers : Came(g)
  <2>1. Busy(h) /\ Goto(h, "findRotated")
    BY <1>10 DEF Rotate, At
  <2>2. Came(h)
    BY <1>8, <1>10, <2>1 DEF Came
  <2> QED
    BY <1>2, <2>1, <2>2 DEF Goto
<1>11. ASSUME NEW h \in Handlers, Revoke(h)
       PROVE  \A g \in Handlers : Came(g)
  <2>1. Busy(h) /\ Goto(h, "findRevoked")
    BY <1>11 DEF Revoke, At
  <2>2. Came(h)
    BY <1>8, <1>11, <2>1 DEF Came
  <2> QED
    BY <1>2, <2>1, <2>2 DEF Goto
<1>12. ASSUME NEW h \in Handlers, HandlerStep(h)
       PROVE  \A g \in Handlers : Came(g)
  <2>1. Busy(h)
    BY <1>12 DEF HandlerStep, CheckDevice, CheckOtp, DeleteSso, Create, FindCreated, Notify,
      ValidateSession, Rotate, FindRotated, Revoke, FindRevoked, FindTrusted, Untrust,
      RevokeSessionByDeviceFingerprintId, QueryFails, Crash, At
  <2>2. CASE CheckDevice(h) \/ CheckOtp(h) \/ DeleteSso(h) \/ Create(h) \/ FindCreated(h)
    BY <1>4, <1>5, <1>6, <2>1, <2>2
    DEF CheckDevice, CheckOtp, DeleteSso, Create, FindCreated, Queries
  <2>3. CASE Notify(h) \/ FindRotated(h) \/ FindRevoked(h) \/ FindTrusted(h) \/ Untrust(h)
             \/ RevokeSessionByDeviceFingerprintId(h)
    BY <1>4, <1>5, <2>1, <2>3
    DEF Notify, FindRotated, FindRevoked, FindTrusted, Untrust,
        RevokeSessionByDeviceFingerprintId, Queries
  <2>4. CASE QueryFails(h) \/ Crash(h)
    BY <1>4, <1>6, <2>1, <2>4 DEF QueryFails, Crash
  <2> QED
    BY <1>9, <1>10, <1>11, <1>12, <2>2, <2>3, <2>4 DEF HandlerStep
<1>13. CASE Tick \/ UNCHANGED vars
  BY <1>1, <1>13 DEF Tick, vars
<1>14. ASSUME NEW s \in Sids, RevokeSessionBySessionId(s)
       PROVE  \A h \in Handlers : Came(h)
  BY <1>1, <1>14 DEF RevokeSessionBySessionId
<1>15. ASSUME NEW d \in Devices, TrustDevice(d) \/ CreateSsoToken(d) \/ ExpireSsoToken(d)
       PROVE  \A h \in Handlers : Came(h)
  BY <1>1, <1>15 DEF TrustDevice, CreateSsoToken, ExpireSsoToken
<1> QED
  BY <1>7, <1>12, <1>13, <1>14, <1>15
  DEF Next, BeginLogin, BeginSso, BeginRevokeDevice, BeginRefresh, BeginLogout

-----------------------------------------------------------------------------
(* The inductive invariant *)

\* Session s has carried t, and has gone on to a later token or ended.
GivenUp(s, t) ==
  /\ t \in carried[s]
  /\ sessions[s].token.iat > t.iat \/ ~sessions[s].active

\* A session carries a token of its owner, not minted in the future, and the
\* last of those it has carried.
Ordered(s) ==
  /\ Exists(s) => /\ sessions[s].token.user = Owner[sessions[s].device]
                  /\ sessions[s].token.iat <= now
                  /\ sessions[s].token \in carried[s]
  /\ \A t \in carried[s] :
       Exists(s) /\ t.user = sessions[s].token.user /\ t.iat <= sessions[s].token.iat

\* What a request knows of the token it was given and of the one it has minted.
Dated(r) ==
  /\ r.at = "create" => r.new.user = Owner[r.device] /\ r.new.iat <= now
  /\ r.at \in {"rotate", "findRotated"} =>
       r.new.user = r.old.user /\ r.old.iat <= r.new.iat /\ r.new.iat <= now
  /\ r.at = "rotate" =>
       \E s \in Sids : r.old \in carried[s] /\ r.new.iat <= sessions[s].expires
  /\ r.at = "revoke" => \E s \in Sids : r.old \in carried[s]
  /\ r.at = "findRotated" => r.old = r.new \/ \E s \in Sids : GivenUp(s, r.old)
  /\ r.at = "findRevoked" => \E s \in Sids : GivenUp(s, r.old)

AgeInv ==
  /\ TypeInv
  /\ \A s \in Sids : Ordered(s)
  /\ \A h \in Handlers : Busy(h) => Dated(requests[h])

\* At first there is nothing to date.
LEMMA AgeInit ==
  ASSUME Init
  PROVE  AgeInv
<1>1. \A h \in Handlers : ~Busy(h)
  BY DEF Init, Busy
<1>2. \A s \in Sids : Ordered(s)
  BY DEF Init, Ordered, Exists
<1> QED
  BY <1>1, <1>2, TypeInit DEF AgeInv

\* Time does not go back.
LEMMA Clock ==
  ASSUME TypeInv, [Next]_vars
  PROVE  now \in Nat /\ now' \in Nat /\ now <= now'
<1>1. now' = now \/ now' = now + 1
  BY DEF Next, vars, history, bounds, Tick, BeginLogin, BeginSso, BeginRevokeDevice, BeginRefresh,
    BeginLogout, Begin, HandlerStep, CheckDevice, CheckOtp, DeleteSso, Create, FindCreated, Notify,
    ValidateSession, Rotate, FindRotated, Revoke, FindRevoked, FindTrusted, Untrust,
    RevokeSessionByDeviceFingerprintId, QueryFails, Crash, RevokeSessionBySessionId, TrustDevice,
    CreateSsoToken, ExpireSsoToken
<1> QED
  BY <1>1 DEF TypeInv, TypeOK

\* A session ages: what SessionsOnlyAge says of one session.
Older(s) ==
  /\ Exists(s)'
  /\ sessions'[s].device = sessions[s].device
  /\ sessions'[s].expires = sessions[s].expires
  /\ sessions'[s].active => sessions[s].active
  /\ sessions'[s].token.user = sessions[s].token.user
  /\ sessions'[s].token.iat >= sessions[s].token.iat
  /\ carried[s] \subseteq carried'[s]

\* A session that exists only gets later tokens.
LEMMA Aging ==
  ASSUME AgeInv, [Next]_vars
  PROVE  \A s \in Sids : Exists(s) => Older(s)
<1> SUFFICES ASSUME NEW s \in Sids, Exists(s)
             PROVE  Older(s)
  OBVIOUS
<1>1. sessions[s] \in Session /\ sessions[s].token \in Token /\ sessions[s].token.iat \in Nat
  BY DEF Exists, AgeInv, TypeInv, TypeOK, Session, Token
<1>2. CASE Kept(s)
  BY <1>1, <1>2 DEF Kept, Older, Exists
<1>3. CASE Rotated(s)
  <2>1. PICK h \in Handlers :
          /\ At(h, "rotate") /\ s \in Carriers(requests[h].old)
          /\ sessions'[s] = [sessions[s] EXCEPT !.token = requests[h].new]
          /\ carried'[s] = carried[s] \cup {requests[h].new}
    BY <1>3 DEF Rotated
  <2>2. /\ requests[h].new \in Token
        /\ requests[h].new.user = requests[h].old.user
        /\ requests[h].old.iat <= requests[h].new.iat
    BY <2>1 DEF AgeInv, TypeInv, Typed, Dated, At
  <2>3. sessions[s].token = requests[h].old
    BY <2>1 DEF Carriers
  <2>4. /\ sessions'[s] \in Session
        /\ sessions'[s].token = requests[h].new
        /\ sessions'[s].device = sessions[s].device
        /\ sessions'[s].expires = sessions[s].expires
        /\ sessions'[s].active = sessions[s].active
    BY <1>1, <2>1, <2>2 DEF Session
  <2>5. Exists(s)'
    BY <2>4 DEF Exists
  <2>6. requests[h].new.iat \in Nat
    BY <2>2 DEF Token
  <2> QED
    BY <1>1, <2>1, <2>2, <2>3, <2>4, <2>5, <2>6 DEF Older
<1>4. CASE Ended(s)
  <2>1. /\ sessions'[s] \in Session
        /\ sessions'[s].token = sessions[s].token
        /\ sessions'[s].device = sessions[s].device
        /\ sessions'[s].expires = sessions[s].expires
        /\ sessions'[s].active = FALSE
    BY <1>1, <1>4 DEF Ended, Session
  <2>2. Exists(s)'
    BY <2>1 DEF Exists
  <2> QED
    BY <1>1, <1>4, <2>1, <2>2 DEF Older, Ended
<1>5. ~Born(s)
  BY DEF Born
<1> QED
  BY <1>2, <1>3, <1>4, <1>5, SessionStep DEF AgeInv

\* A token that a session has carried counts for good.
LEMMA CarriedStays ==
  ASSUME AgeInv, [Next]_vars, NEW s \in Sids, NEW t \in carried[s]
  PROVE  Exists(s) /\ t \in carried'[s]
<1>1. Exists(s)
  BY DEF AgeInv, Ordered
<1> QED
  BY <1>1, Aging DEF Older

\* A token that was given up stays so.
LEMMA GivenUpStays ==
  ASSUME AgeInv, [Next]_vars, NEW s \in Sids, NEW t \in Token, GivenUp(s, t)
  PROVE  GivenUp(s, t)'
<1>1. Exists(s) /\ t \in carried'[s]
  BY CarriedStays DEF GivenUp
<1>2. sessions[s] \in Session /\ sessions'[s] \in Session
  BY <1>1, Aging, TypeNext DEF Older, Exists, AgeInv, TypeInv, TypeOK
<1>3. sessions[s].token.iat \in Nat /\ sessions'[s].token.iat \in Nat /\ t.iat \in Nat
  BY <1>2 DEF Session, Token
<1>4. Older(s)
  BY <1>1, Aging
<1> QED
  BY <1>1, <1>3, <1>4 DEF GivenUp, Older

\* The token of a session is the latest it has carried, and no later than now.
LEMMA OrderedNext ==
  ASSUME AgeInv, [Next]_vars
  PROVE  \A s \in Sids : Ordered(s)'
<1> SUFFICES ASSUME NEW s \in Sids
             PROVE  Ordered(s)'
  OBVIOUS
<1> USE DEF AgeInv
<1>1. /\ sessions[s] \in Session \cup {None} /\ carried[s] \subseteq Token
      /\ now \in Nat /\ now' \in Nat /\ now <= now'
  BY Clock DEF TypeInv, TypeOK
<1>2. \A x \in Session : x.token \in Token
  BY DEF Session
<1>3. \A t \in Token : t.iat \in Nat
  BY DEF Token
<1>4. CASE Kept(s)
  BY <1>1, <1>2, <1>3, <1>4 DEF Kept, Ordered, Exists
<1>5. CASE Born(s)
  <2>1. PICK h \in Handlers :
          /\ Create(h) /\ ~Exists(s)
          /\ sessions'[s] = [device |-> requests[h].device, token |-> requests[h].new,
                             expires |-> requests[h].new.iat + Lifetime, active |-> TRUE]
          /\ carried'[s] = {requests[h].new}
    BY <1>5 DEF Born
  <2>2. /\ requests[h].new.user = Owner[requests[h].device]
        /\ requests[h].new.iat <= now
        /\ requests[h].new \in Token
        /\ requests[h].device \in Devices
    BY <2>1 DEF TypeInv, Typed, Dated, Create, At
  <2>3. sessions'[s] # None
    <3>1. requests[h].new.iat + Lifetime \in 0..(MaxTime + Lifetime)
      BY <2>2 DEF Token
    <3>2. sessions'[s] \in Session
      BY <2>1, <2>2, <3>1 DEF Session
    <3> QED
      BY <3>2
  <2>4. sessions'[s].device = requests[h].device /\ sessions'[s].token = requests[h].new
    BY <2>1
  <2> QED
    BY <1>1, <1>3, <2>1, <2>2, <2>3, <2>4 DEF Ordered, Exists
<1>6. CASE Rotated(s)
  <2>1. PICK h \in Handlers :
          /\ At(h, "rotate") /\ s \in Carriers(requests[h].old)
          /\ sessions'[s] = [sessions[s] EXCEPT !.token = requests[h].new]
          /\ carried'[s] = carried[s] \cup {requests[h].new}
    BY <1>6 DEF Rotated
  <2>2. /\ requests[h].new \in Token
        /\ requests[h].new.user = requests[h].old.user
        /\ requests[h].old.iat <= requests[h].new.iat
        /\ requests[h].new.iat <= now
    BY <2>1 DEF TypeInv, Typed, Dated, At
  <2>3. sessions[s] \in Session /\ sessions[s].token = requests[h].old /\ Exists(s)
    BY <1>1, <2>1 DEF Carriers, Exists
  <2>4. /\ sessions'[s].token = requests[h].new
        /\ sessions'[s].device = sessions[s].device
    BY <2>1, <2>3 DEF Session
  <2>5. sessions'[s] # None
    BY <2>3, Aging DEF Older, Exists
  <2>6. \A t \in carried[s] : t.user = requests[h].old.user /\ t.iat <= requests[h].old.iat
    BY <2>3 DEF Ordered
  <2>7. requests[h].old \in Token
    BY <1>2, <2>3
  <2> QED
    BY <1>1, <1>3, <2>1, <2>2, <2>3, <2>4, <2>5, <2>6, <2>7 DEF Ordered, Exists
<1>7. CASE Ended(s)
  <2>1. Exists(s) /\ sessions[s] \in Session
    BY <1>1, <1>7 DEF Ended, Exists
  <2>2. sessions'[s].token = sessions[s].token /\ sessions'[s].device = sessions[s].device
    BY <1>7, <2>1 DEF Ended, Session
  <2>3. sessions'[s] # None
    BY <2>1, Aging DEF Older, Exists
  <2> QED
    BY <1>1, <1>2, <1>3, <1>7, <2>1, <2>2, <2>3 DEF Ordered, Exists, Ended
<1> QED
  BY <1>4, <1>5, <1>6, <1>7, SessionStep

\* A refresh whose update has run has given up its old token.
LEMMA RotateGivesUp ==
  ASSUME AgeInv, [Next]_vars, NEW h \in Handlers, Rotate(h),
         NEW old \in Token, NEW new \in Token, old # new,
         old = requests[h].old, new = requests[h].new
  PROVE  \E s \in Sids : GivenUp(s, old)'
<1>1. /\ old \in Token /\ new \in Token
      /\ new.user = old.user /\ old.iat <= new.iat
      /\ \E s \in Sids : old \in carried[s]
  BY DEF AgeInv, TypeInv, Typed, Dated, Rotate, At
<1>2. old.iat < new.iat
  BY <1>1 DEF Token
<1>3. CASE Carriers(old) = {}
  <2>1. PICK s \in Sids : old \in carried[s]
    BY <1>1
  <2>2. Exists(s) /\ old.user = sessions[s].token.user /\ old.iat <= sessions[s].token.iat
    BY <2>1 DEF AgeInv, Ordered
  <2>3. sessions[s].token \in Token
    BY <2>2 DEF Exists, Session, AgeInv, TypeInv, TypeOK
  <2>4. sessions[s].token # old
    BY <1>3, <2>2 DEF Carriers
  <2>5. sessions[s].token.iat > old.iat
    BY <1>1, <2>2, <2>3, <2>4 DEF Token
  <2>6. GivenUp(s, old)'
    BY <1>1, <2>1, <2>5, GivenUpStays DEF GivenUp
  <2> QED
    BY <2>6
<1>4. ASSUME NEW s \in Carriers(old), SetToken(s, new)
      PROVE  \E z \in Sids : GivenUp(z, old)'
  <2>1. s \in Sids /\ Exists(s) /\ sessions[s].token = old /\ sessions[s] \in Session
    BY DEF Carriers, Exists, AgeInv, TypeInv, TypeOK
  <2>2. sessions'[s] = [sessions[s] EXCEPT !.token = new]
    BY <1>4, <2>1 DEF SetToken, AgeInv, TypeInv, TypeOK
  <2>3. sessions'[s].token.iat > old.iat
    BY <1>1, <1>2, <2>1, <2>2 DEF Session, Token
  <2>4. old \in carried[s]
    BY <2>1 DEF AgeInv, Ordered
  <2>5. old \in carried'[s]
    BY <2>1, <2>4, CarriedStays
  <2>6. GivenUp(s, old)'
    BY <2>3, <2>5 DEF GivenUp
  <2> QED
    BY <2>1, <2>6
<1> QED
  BY <1>3, <1>4 DEF Rotate

\* So has a logout.
LEMMA RevokeGivesUp ==
  ASSUME AgeInv, [Next]_vars, NEW h \in Handlers, Revoke(h),
         NEW old \in Token, old = requests[h].old
  PROVE  \E s \in Sids : GivenUp(s, old)'
<1>1. old \in Token /\ \E s \in Sids : old \in carried[s]
  BY DEF AgeInv, TypeInv, Typed, Dated, Revoke, At
<1>2. CASE Carriers(old) = {}
  <2>1. PICK s \in Sids : old \in carried[s]
    BY <1>1
  <2>2. Exists(s) /\ old.user = sessions[s].token.user /\ old.iat <= sessions[s].token.iat
    BY <2>1 DEF AgeInv, Ordered
  <2>3. sessions[s].token \in Token
    BY <2>2 DEF Exists, Session, AgeInv, TypeInv, TypeOK
  <2>4. sessions[s].token # old
    BY <1>2, <2>2 DEF Carriers
  <2>5. sessions[s].token.iat > old.iat
    BY <1>1, <2>2, <2>3, <2>4 DEF Token
  <2>6. GivenUp(s, old)'
    BY <1>1, <2>1, <2>5, GivenUpStays DEF GivenUp
  <2> QED
    BY <2>6
<1>3. ASSUME NEW s \in Carriers(old), SetRevoked(s)
      PROVE  \E z \in Sids : GivenUp(z, old)'
  <2>1. s \in Sids /\ Exists(s) /\ sessions[s].token = old /\ sessions[s] \in Session
    BY DEF Carriers, Exists, AgeInv, TypeInv, TypeOK
  <2>2. sessions'[s] = [sessions[s] EXCEPT !.active = FALSE]
    BY <1>3, <2>1 DEF SetRevoked, AgeInv, TypeInv, TypeOK
  <2>3. ~sessions'[s].active
    BY <2>1, <2>2 DEF Session
  <2>4. old \in carried'[s]
    BY <2>1, CarriedStays DEF AgeInv, Ordered
  <2>5. GivenUp(s, old)'
    BY <2>3, <2>4 DEF GivenUp
  <2> QED
    BY <2>1, <2>5
<1> QED
  BY <1>2, <1>3 DEF Revoke

\* Tokens that requests have minted are no later than now, nor earlier than those they replace.
LEMMA DatedNext ==
  ASSUME AgeInv, [Next]_vars
  PROVE  \A h \in Handlers : Busy(h)' => Dated(requests[h])'
<1> SUFFICES ASSUME NEW h \in Handlers, requests'[h] # None
             PROVE  Dated(requests[h])'
  BY DEF Busy
<1> DEFINE r == requests[h]
           n == requests'[h]
           GivenUpNow(t) ==
             \E s \in Sids : /\ t \in carried'[s]
                             /\ sessions'[s].token.iat > t.iat \/ ~sessions'[s].active
<1>1. now \in Nat /\ now' \in Nat /\ now <= now'
  BY Clock DEF AgeInv
<1>2. Typed(n) /\ n \in Request
  <2>1. TypeInv'
    BY TypeNext DEF AgeInv
  <2> QED
    BY <2>1 DEF TypeInv, TypeOK, Busy, Typed
<1>3. \A u \in Users : Mint(u).user = u /\ Mint(u).iat = now
  BY DEF Mint
<1>4. \A t \in Token : t.iat \in Nat
  BY DEF Token
<1>5. CASE n = r
  <2>1. Dated(r) /\ Typed(r)
    BY <1>5 DEF AgeInv, TypeInv, Busy
  <2>2. r.at = "rotate" =>
          \E s \in Sids : r.old \in carried'[s] /\ r.new.iat <= sessions'[s].expires
    BY <2>1, CarriedStays, Aging DEF Dated, Older
  <2>3. r.at = "revoke" => \E s \in Sids : r.old \in carried'[s]
    BY <2>1, CarriedStays DEF Dated
  <2>4. \A t \in Token : (\E s \in Sids : GivenUp(s, t)) => GivenUpNow(t)
    BY GivenUpStays DEF GivenUp
  <2>5. r.at = "findRotated" => r.old = r.new \/ GivenUpNow(r.old)
    BY <2>1, <2>4 DEF Dated, Typed
  <2>6. r.at = "findRevoked" => GivenUpNow(r.old)
    BY <2>1, <2>4 DEF Dated, Typed
  <2> QED
    BY <1>1, <1>2, <1>4, <1>5, <2>1, <2>2, <2>3, <2>5, <2>6 DEF Dated, GivenUp, Typed
<1>6. CASE n.at \notin {"create", "rotate", "revoke", "findRotated", "findRevoked"}
  BY <1>6 DEF Dated
<1>7. CASE n.at = "create" /\ n.new = Mint(Owner[n.device])
  BY <1>1, <1>2, <1>3, <1>7 DEF Dated, Typed
<1>8. ASSUME NEW s \in Sids, Accepts(s, r.old), n.at = "rotate", n.old = r.old,
             n.new = Mint(Owner[sessions[s].device])
      PROVE  Dated(requests[h])'
  <2>1. /\ s \in Sids /\ Exists(s) /\ sessions[s].token = r.old /\ now <= sessions[s].expires
        /\ sessions[s] \in Session
    BY <1>8 DEF Accepts, Live, Carriers, Exists, AgeInv, TypeInv, TypeOK
  <2>2. /\ r.old.user = Owner[sessions[s].device] /\ r.old.iat <= now /\ r.old \in carried[s]
    BY <2>1 DEF AgeInv, Ordered
  <2>3. n.new.user = Owner[sessions[s].device] /\ n.new.iat = now
    BY <1>8 DEF Mint
  <2>4. r.old \in carried'[s] /\ sessions'[s].expires = sessions[s].expires
    BY <2>1, <2>2, CarriedStays, Aging DEF Older
  <2> QED
    BY <1>1, <1>8, <2>1, <2>2, <2>3, <2>4 DEF Dated
<1>9. CASE n.at = "revoke" /\ n.old = r.old /\ Live(r.old) # {}
  <2>1. PICK s \in Live(r.old) : TRUE
    BY <1>9
  <2>2. s \in Sids /\ Exists(s) /\ sessions[s].token = r.old
    BY DEF Live, Carriers
  <2>3. r.old \in carried'[s]
    BY <2>2, CarriedStays DEF AgeInv, Ordered
  <2> QED
    BY <1>9, <2>2, <2>3 DEF Dated
<1>10. CASE n.at = "findRotated" /\ Rotate(h) /\ n.old = r.old /\ n.new = r.new
  <2>1. /\ r.new.user = r.old.user /\ r.old.iat <= r.new.iat /\ r.new.iat <= now
        /\ r.old \in Token /\ r.new \in Token
    BY <1>10 DEF AgeInv, TypeInv, Dated, Typed, Rotate, At
  <2>2. ASSUME NEW old \in Token, NEW new \in Token, old # new, old = r.old, new = r.new
        PROVE  GivenUpNow(old)
    BY <1>10, <2>2, RotateGivesUp DEF GivenUp
  <2>3. r.old = r.new \/ GivenUpNow(r.old)
    BY <2>1, <2>2
  <2> QED
    BY <1>1, <1>4, <1>10, <2>1, <2>3 DEF Dated, GivenUp
<1>11. CASE n.at = "findRevoked" /\ Revoke(h) /\ n.old = r.old
  <2>1. r.old \in Token
    BY <1>11 DEF AgeInv, TypeInv, Typed, Revoke, At
  <2>2. ASSUME NEW old \in Token, old = r.old
        PROVE  GivenUpNow(old)
    BY <1>11, <2>2, RevokeGivesUp DEF GivenUp
  <2>3. GivenUpNow(r.old)
    BY <2>1, <2>2
  <2> QED
    BY <1>11, <2>3 DEF Dated, GivenUp
<1> QED
  BY <1>5, <1>6, <1>7, <1>8, <1>9, <1>10, <1>11, RequestStep DEF Came, AgeInv

\* Every step keeps tokens dated.
LEMMA AgeNext ==
  ASSUME AgeInv, [Next]_vars
  PROVE  AgeInv'
BY TypeNext, OrderedNext, DatedNext DEF AgeInv

\* So tokens are always dated.
LEMMA AgeSafe == Spec => []AgeInv
BY AgeInit, AgeNext, PTL DEF Spec

-----------------------------------------------------------------------------
(* Theorems *)

\* Sessions only age: none comes back to life, moves, is prolonged or returns to
\* an older token.
THEOREM SessionsAge == Spec => SessionsOnlyAge
<1>1. ASSUME AgeInv, [Next]_vars
      PROVE  [\A s \in Sids : Exists(s) =>
                /\ sessions'[s].device = sessions[s].device
                /\ sessions'[s].expires = sessions[s].expires
                /\ sessions'[s].active => sessions[s].active
                /\ sessions'[s].token.user = sessions[s].token.user
                /\ sessions'[s].token.iat >= sessions[s].token.iat]_vars
  BY <1>1, Aging DEF Older
<1> QED
  BY <1>1, AgeSafe, PTL DEF Spec, SessionsOnlyAge

\* A token given up by an answered logout or refresh belongs to a session that
\* has gone on or ended.
RetiredInv == \A t \in retired : t \in Token /\ \E s \in Sids : GivenUp(s, t)

\* No step brings back a token that was given up, unless two sessions have shared it.
LEMMA RetiredNext ==
  ASSUME AgeInv, RetiredInv, [Next]_vars
  PROVE  RetiredInv'
<1> SUFFICES ASSUME NEW t \in retired'
             PROVE  t \in Token /\ \E s \in Sids : GivenUp(s, t)'
  BY DEF RetiredInv
<1>1. CASE t \in retired
  BY <1>1, GivenUpStays DEF RetiredInv
<1>2. ASSUME NEW h \in Handlers, FindRotated(h), t = requests[h].old, t # requests[h].new
      PROVE  t \in Token /\ \E s \in Sids : GivenUp(s, t)
  BY <1>2 DEF FindRotated, At, AgeInv, TypeInv, Typed, Dated
<1>3. ASSUME NEW h \in Handlers, FindRevoked(h), t = requests[h].old
      PROVE  t \in Token /\ \E s \in Sids : GivenUp(s, t)
  BY <1>3 DEF FindRevoked, At, AgeInv, TypeInv, Typed, Dated
<1>4. \/ t \in retired
      \/ \E h \in Handlers : FindRotated(h) /\ t = requests[h].old /\ t # requests[h].new
      \/ \E h \in Handlers : FindRevoked(h) /\ t = requests[h].old
  <2> USE DEF history, bounds
  <2>1. CASE UNCHANGED retired
    BY <2>1
  <2>2. ASSUME NEW h \in Handlers, HandlerStep(h)
        PROVE  FindRotated(h) \/ FindRevoked(h) \/ UNCHANGED retired
    BY <2>2 DEF HandlerStep, CheckDevice, CheckOtp, DeleteSso, Create, FindCreated, Notify,
      ValidateSession, Rotate, Revoke, FindTrusted, Untrust,
      RevokeSessionByDeviceFingerprintId, QueryFails, Crash
  <2>3. ASSUME NEW h \in Handlers, FindRotated(h)
        PROVE  t \in retired \/ (t = requests[h].old /\ t # requests[h].new)
    BY <2>3 DEF FindRotated
  <2>4. ASSUME NEW h \in Handlers, FindRevoked(h)
        PROVE  t \in retired \/ t = requests[h].old
    BY <2>4 DEF FindRevoked
  <2>5. (\A h \in Handlers : ~HandlerStep(h)) => UNCHANGED retired
    BY DEF Next, vars, Tick, BeginLogin, BeginSso, BeginRevokeDevice, BeginRefresh,
      BeginLogout, Begin, RevokeSessionBySessionId, TrustDevice, CreateSsoToken, ExpireSsoToken
  <2> QED
    BY <2>1, <2>2, <2>3, <2>4, <2>5
<1> QED
  BY <1>1, <1>2, <1>3, <1>4, GivenUpStays

\* A token that an answered logout or refresh gave up opens no session, unless
\* two sessions have carried it.
THEOREM RetiredCorrect == Spec => []RetiredTokensRefused
<1>1. Init => RetiredInv
  BY DEF Init, RetiredInv
<1>2. AgeInv /\ RetiredInv => RetiredTokensRefused
  <2> SUFFICES ASSUME AgeInv, RetiredInv, NEW t \in retired, ~Shared(t), NEW z \in Live(t)
               PROVE  FALSE
    BY DEF RetiredTokensRefused
  <2>1. PICK s \in Sids : GivenUp(s, t)
    BY DEF RetiredInv
  <2>2. z \in Sids /\ sessions[z].token = t /\ sessions[z].active /\ Exists(z)
    BY DEF Live, Carriers
  <2>3. t \in carried[z]
    BY <2>2 DEF AgeInv, Ordered
  <2>4. s = z
    BY <2>1, <2>2, <2>3 DEF Shared, GivenUp
  <2>5. t.iat \in Nat
    BY DEF RetiredInv, Token
  <2> QED
    BY <2>1, <2>2, <2>4, <2>5 DEF GivenUp
<1> QED
  BY <1>1, <1>2, RetiredNext, AgeSafe, PTL DEF Spec

\* Refreshing does not keep a session past its expiry, unless it has shared a
\* token with another.
THEOREM ExpiryCorrect == Spec => []NotRefreshedPastExpiry
<1>1. Init => NotRefreshedPastExpiry
  BY DEF Init, NotRefreshedPastExpiry, Exists
<1>2. ASSUME AgeInv, NotRefreshedPastExpiry, [Next]_vars
      PROVE  NotRefreshedPastExpiry'
  <2> SUFFICES ASSUME NEW s \in Sids, Exists(s)', sessions'[s].token.iat > sessions'[s].expires
               PROVE  \E t \in carried'[s] : Shared(t)'
    BY DEF NotRefreshedPastExpiry
  <2>1. ASSUME NEW t, NEW z \in Sids, z # s, t \in carried[s], t \in carried[z]
        PROVE  \E x \in carried'[s] : Shared(x)'
    <3>1. t \in carried'[s] /\ t \in carried'[z]
      BY <1>2, <2>1, CarriedStays
    <3> QED
      BY <2>1, <3>1 DEF Shared
  <2>2. ASSUME Exists(s), sessions[s].token.iat > sessions[s].expires
        PROVE  \E x \in carried'[s] : Shared(x)'
    <3>1. PICK t \in carried[s] : Shared(t)
      BY <1>2, <2>2 DEF NotRefreshedPastExpiry
    <3>2. PICK x \in Sids, z \in Sids : x # z /\ t \in carried[x] /\ t \in carried[z]
      BY <3>1 DEF Shared
    <3>3. t \in carried'[s] /\ t \in carried'[x] /\ t \in carried'[z]
      BY <1>2, <3>1, <3>2, CarriedStays
    <3> QED
      BY <3>2, <3>3 DEF Shared
  <2>3. CASE Kept(s)
    BY <2>2, <2>3 DEF Kept, Exists
  <2>4. CASE Born(s)
    <3>1. PICK h \in Handlers :
            /\ Create(h)
            /\ sessions'[s].token = requests[h].new
            /\ sessions'[s].expires = requests[h].new.iat + Lifetime
      BY <2>4 DEF Born
    <3>2. requests[h].new \in Token
      BY <1>2, <3>1 DEF AgeInv, TypeInv, Typed, Create, At
    <3> QED
      BY <3>1, <3>2 DEF Token
  <2>5. CASE Rotated(s)
    <3>1. PICK h \in Handlers :
            /\ At(h, "rotate") /\ s \in Carriers(requests[h].old)
            /\ sessions'[s] = [sessions[s] EXCEPT !.token = requests[h].new]
      BY <2>5 DEF Rotated
    <3>2. Exists(s) /\ sessions[s] \in Session /\ sessions[s].token = requests[h].old
      BY <1>2, <3>1 DEF Carriers, Exists, AgeInv, TypeInv, TypeOK
    <3>3. sessions'[s].token = requests[h].new /\ sessions'[s].expires = sessions[s].expires
      BY <3>1, <3>2 DEF Session
    <3>4. PICK z \in Sids : requests[h].old \in carried[z]
                            /\ requests[h].new.iat <= sessions[z].expires
      BY <1>2, <3>1 DEF AgeInv, Dated, At
    <3>5. requests[h].old \in carried[s] /\ Exists(z)
      BY <1>2, <3>2, <3>4 DEF AgeInv, Ordered
    <3>6. /\ requests[h].new.iat \in Int
          /\ sessions[s].expires \in Int /\ sessions[z].expires \in Int
      BY <1>2, <3>1, <3>2, <3>5 DEF AgeInv, TypeInv, TypeOK, Typed, Exists, Session, Token, At
    <3>7. z # s
      BY <3>3, <3>4, <3>6
    <3> QED
      BY <2>1, <3>4, <3>5, <3>7
  <2>6. CASE Ended(s)
    <3>1. Exists(s) /\ sessions[s] \in Session
      BY <1>2, <2>6 DEF Ended, Exists, AgeInv, TypeInv, TypeOK
    <3>2. sessions'[s].token = sessions[s].token /\ sessions'[s].expires = sessions[s].expires
      BY <2>6, <3>1 DEF Ended, Session
    <3> QED
      BY <2>2, <3>1, <3>2
  <2> QED
    BY <1>2, <2>3, <2>4, <2>5, <2>6, SessionStep DEF AgeInv
<1> QED
  BY <1>1, <1>2, AgeSafe, PTL DEF Spec

-----------------------------------------------------------------------------
(* Devices *)

\* Which steps take the trust of a device, end its being loose, and end a
\* pending revocation.
LEMMA DeviceStep ==
  ASSUME TypeInv, [Next]_vars, NEW d \in Devices
  PROVE  /\ d \in trusted /\ d \notin trusted' =>
              \E h \in Handlers : Untrust(h) /\ requests[h].device = d
         /\ d \in loose /\ d \notin loose' =>
              \E h \in Handlers : RevokeSessionByDeviceFingerprintId(h) /\ requests[h].device = d
<1> USE DEF history, bounds
<1>1. ASSUME NEW h \in Handlers, HandlerStep(h)
      PROVE  /\ d \in trusted /\ d \notin trusted' => Untrust(h) /\ requests[h].device = d
             /\ d \in loose /\ d \notin loose' =>
                  RevokeSessionByDeviceFingerprintId(h) /\ requests[h].device = d
  <2>1. CASE Untrust(h)
    BY <2>1 DEF Untrust
  <2>2. CASE RevokeSessionByDeviceFingerprintId(h)
    BY <2>2 DEF RevokeSessionByDeviceFingerprintId
  <2>3. CASE QueryFails(h) \/ Crash(h)
    BY <2>3 DEF QueryFails, Crash, Loosened
  <2>4. CASE Create(h)
    BY <2>4 DEF Create
  <2> QED
    BY <1>1, <2>1, <2>2, <2>3, <2>4 DEF HandlerStep, CheckDevice, CheckOtp, DeleteSso, FindCreated,
      Notify, ValidateSession, Rotate, FindRotated, Revoke, FindRevoked, FindTrusted
<1>2. (\A h \in Handlers : ~HandlerStep(h)) => trusted \subseteq trusted' /\ UNCHANGED loose
  BY DEF Next, vars, Tick, BeginLogin, BeginSso, BeginRevokeDevice, BeginRefresh, BeginLogout,
    Begin, RevokeSessionBySessionId, TrustDevice, CreateSsoToken, ExpireSsoToken
<1> QED
  BY <1>1, <1>2

\* A revocation that is pending stays so until its own step, or a failure.
LEMMA PendingStep ==
  ASSUME TypeInv, [Next]_vars, NEW g \in Handlers, At(g, "revokeSessions")
  PROVE  \/ At(g, "revokeSessions")' /\ requests'[g].device = requests[g].device
         \/ RevokeSessionByDeviceFingerprintId(g) \/ QueryFails(g) \/ Crash(g)
<1> USE DEF history, bounds
<1>1. ASSUME requests'[g] = requests[g]
      PROVE  At(g, "revokeSessions")' /\ requests'[g].device = requests[g].device
  BY <1>1 DEF At, Busy
<1>2. ASSUME NEW h \in Handlers, NEW r, h # g, Becomes(h, r)
      PROVE  requests'[g] = requests[g]
  BY <1>2 DEF Becomes, TypeInv, TypeOK
<1>3. ASSUME NEW h \in Handlers, HandlerStep(h), h # g
      PROVE  requests'[g] = requests[g]
  <2>1. CASE CheckDevice(h) \/ CheckOtp(h) \/ DeleteSso(h) \/ Create(h) \/ FindCreated(h) \/ Notify(h)
             \/ ValidateSession(h) \/ Rotate(h)
    BY <1>2, <1>3, <2>1 DEF CheckDevice, CheckOtp, DeleteSso, Create, FindCreated, Notify,
      ValidateSession, Rotate, Goto, Return, CreateSession
  <2>2. CASE FindRotated(h) \/ Revoke(h) \/ FindRevoked(h) \/ FindTrusted(h) \/ Untrust(h)
             \/ RevokeSessionByDeviceFingerprintId(h) \/ QueryFails(h) \/ Crash(h)
    BY <1>2, <1>3, <2>2 DEF FindRotated, Revoke, FindRevoked, FindTrusted, Untrust,
      RevokeSessionByDeviceFingerprintId, QueryFails, Crash, Goto, Return, CreateSession
  <2> QED
    BY <1>3, <2>1, <2>2 DEF HandlerStep
<1>4. ASSUME HandlerStep(g)
      PROVE  RevokeSessionByDeviceFingerprintId(g) \/ QueryFails(g) \/ Crash(g)
  BY <1>4 DEF HandlerStep, CheckDevice, CheckOtp, DeleteSso, Create, FindCreated, Notify,
    ValidateSession, Rotate, FindRotated, Revoke, FindRevoked, FindTrusted, Untrust, At
<1>5. ASSUME NEW h \in Handlers, NEW op, NEW q, NEW d, NEW t, Begin(h, op, q, d, t)
      PROVE  requests'[g] = requests[g]
  <2>1. h # g
    BY <1>5 DEF Begin, At
  <2> QED
    BY <1>2, <1>5, <2>1 DEF Begin
<1>6. CASE UNCHANGED requests
  BY <1>1, <1>6
<1> QED
  BY <1>1, <1>3, <1>4, <1>5, <1>6
  DEF Next, vars, Tick, BeginLogin, BeginSso, BeginRevokeDevice, BeginRefresh, BeginLogout,
    RevokeSessionBySessionId, TrustDevice, CreateSsoToken, ExpireSsoToken

\* A revocation leaves no active session on its device.
LEMMA NoneLeft ==
  ASSUME TypeInv, NEW h \in Handlers, RevokeSessionByDeviceFingerprintId(h), NEW d \in Devices,
         requests[h].device = d
  PROVE  ActiveOn(d)' = {}
<1>1. sessions' = DeactivateAll(d)
  BY DEF RevokeSessionByDeviceFingerprintId
<1>2. ASSUME NEW s \in Sids, s \in ActiveOn(d)
      PROVE  ~sessions'[s].active
  <2>1. sessions[s] \in Session
    BY <1>2 DEF ActiveOn, Exists, TypeInv, TypeOK
  <2> QED
    BY <1>1, <1>2, <2>1 DEF DeactivateAll, Session
<1>3. ASSUME NEW s \in Sids, s \notin ActiveOn(d)
      PROVE  s \notin ActiveOn(d)'
  <2>1. sessions'[s] = sessions[s]
    BY <1>1, <1>3 DEF DeactivateAll
  <2> QED
    BY <1>3, <2>1 DEF ActiveOn, Exists
<1> QED
  BY <1>2, <1>3 DEF ActiveOn

\* A device without trust has no active session once its revocation has run,
\* except for a session created without trust or left by a failed revocation.
THEOREM UntrustedCorrect == Spec => []UntrustedHasNoActive
<1>1. Init => UntrustedHasNoActive
  BY DEF Init, UntrustedHasNoActive, ActiveOn, Exists
<1>2. ASSUME TypeInv, UntrustedHasNoActive, [Next]_vars
      PROVE  UntrustedHasNoActive'
  <2> SUFFICES ASSUME NEW d \in Devices, d \notin trusted', d \notin loose',
                      NEW s \in Sids, s \in ActiveOn(d)'
               PROVE  \E h \in Handlers : At(h, "revokeSessions")' /\ requests'[h].device = d
    BY DEF UntrustedHasNoActive, ActiveOn
  <2>1. ~Born(s)
    <3>1. ASSUME NEW h \in Handlers, Create(h), sessions'[s].device = requests[h].device
          PROVE  FALSE
      <4>1. d = requests[h].device
        BY <3>1 DEF ActiveOn
      <4> QED
        BY <3>1, <4>1 DEF Create
    <3>2. ASSUME NEW h \in Handlers, NEW t, NEW e,
                 sessions'[s] = [device |-> requests[h].device, token |-> t,
                                 expires |-> e, active |-> TRUE]
          PROVE  sessions'[s].device = requests[h].device
      BY <3>2
    <3> QED
      BY <3>1, <3>2 DEF Born
  <2>2. s \in ActiveOn(d)
    <3>1. sessions'[s].device = d /\ sessions'[s].active /\ sessions'[s] # None
      BY DEF ActiveOn, Exists
    <3>2. CASE Kept(s)
      BY <3>1, <3>2 DEF Kept, ActiveOn, Exists
    <3>3. CASE Rotated(s)
      <4>1. sessions[s] \in Session /\ Exists(s)
        BY <1>2, <3>3 DEF Rotated, Carriers, Exists, TypeInv, TypeOK
      <4> QED
        BY <3>1, <3>3, <4>1 DEF Rotated, ActiveOn, Session
    <3>4. CASE Ended(s)
      <4>1. sessions[s] \in Session
        BY <1>2, <3>4 DEF Ended, Exists, TypeInv, TypeOK
      <4> QED
        BY <3>1, <3>4, <4>1 DEF Ended, Session
    <3> QED
      BY <1>2, <2>1, <3>2, <3>3, <3>4, SessionStep
  <2>3. CASE d \in trusted
    <3>1. PICK h \in Handlers : Untrust(h) /\ requests[h].device = d
      BY <1>2, <2>3, DeviceStep
    <3>2. requests[h] \in Request
      BY <1>2, <3>1 DEF Untrust, At, Busy, TypeInv, TypeOK
    <3>3. requests'[h] = [requests[h] EXCEPT !.at = "revokeSessions"]
      BY <1>2, <3>1 DEF Untrust, Goto, Becomes, TypeInv, TypeOK
    <3>4. requests'[h] \in Request /\ requests'[h].at = "revokeSessions" /\ requests'[h].device = d
      BY <3>1, <3>2, <3>3 DEF Request, Queries
    <3> QED
      BY <3>4 DEF At, Busy
  <2>4. d \notin loose
    BY <1>2, DeviceStep, NoneLeft DEF ActiveOn
  <2>5. CASE d \notin trusted
    <3>1. PICK g \in Handlers : At(g, "revokeSessions") /\ requests[g].device = d
      BY <1>2, <2>2, <2>4, <2>5 DEF UntrustedHasNoActive
    <3>2. ~RevokeSessionByDeviceFingerprintId(g)
      BY <1>2, <3>1, NoneLeft DEF ActiveOn
    <3>3. ~QueryFails(g) /\ ~Crash(g)
      BY <3>1 DEF QueryFails, Crash, Loosened
    <3> QED
      BY <1>2, <3>1, <3>2, <3>3, PendingStep
  <2> QED
    BY <2>3, <2>5
<1>3. Spec => []TypeInv
  BY TypeInit, TypeNext, PTL DEF Spec
<1> QED
  BY <1>1, <1>2, <1>3, PTL DEF Spec

=============================================================================
