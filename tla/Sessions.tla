------------------------------ MODULE Sessions ------------------------------
(***************************************************************************)
(* Sessions of the auth service (apps/auth): login on a trusted device,    *)
(* login by an SSO token, refresh, logout, revocation of a session and of  *)
(* a device, over the MongoDB collections sessions and device_fingerprints.*)
(*                                                                         *)
(* A session token is a JWT signed over the user and the second it is      *)
(* issued in: two tokens of a user issued in the same second are equal,    *)
(* and no index keeps two sessions from carrying the same token.  Every    *)
(* request is a sequence of queries with an await between any two.         *)
(***************************************************************************)
EXTENDS Integers, FiniteSets

CONSTANTS
  Users,        \* user ids
  Devices,      \* device fingerprints
  Owner,        \* the user of a device fingerprint
  Sids,         \* ids of session documents
  Handlers,     \* requests the service instances can serve at the same time
  None,         \* no session, no request, no device, no token
  Lifetime,     \* of a session and of its token: 30 days
  MaxTime,      \* bound: the last second
  MaxFaults,    \* bound: failed queries and killed instances
  MaxRequests   \* bound: requests begun

Token == [user : Users, iat : 0..MaxTime]

\* is_active and revoked_at are always written together: active stands for both.
Session == [device : Devices, token : Token, expires : 0..(MaxTime + Lifetime), active : BOOLEAN]

\* login tries createSession in checkAndInitOtpLoginSession and, when that
\* fails, once more in trustFingerprintLogin: "loginAgain".
Operations ==
  {"login", "loginAgain", "validateSsoToken", "refresh", "logout", "revokeDevice"}

Queries ==
  {"checkDevice", "checkOtp", "deleteSso", "create", "findCreated", "notify",
   "validate", "rotate", "findRotated", "revoke", "findRevoked",
   "findTrusted", "untrust", "revokeSessions"}

\* old: the token a client presents; new: the token minted for it.
Request ==
  [op : Operations, at : Queries, device : Devices \cup {None},
   old : Token \cup {None}, new : Token \cup {None}]

ASSUME SessionsAssumption ==
  /\ Owner \in [Devices -> Users]
  /\ None \notin Session \cup Request \cup Devices \cup Token
  /\ Lifetime \in Nat
  /\ MaxTime \in Nat
  /\ MaxFaults \in Nat
  /\ MaxRequests \in Nat

VARIABLES
  now,        \* the clock, in seconds
  sessions,   \* session documents
  trusted,    \* device fingerprints with is_trusted
  sso,        \* devices that an SSO token stored in Redis names
  requests,   \* what each handler is doing
  issued,     \* session tokens that an answer gave to a client
  faults,     \* failed queries and killed instances so far
  begun,      \* requests begun so far
  carried,    \* history: the tokens each session has carried
  retired,    \* history: tokens given up by an answered logout or refresh
  revoked,    \* history: devices whose revocation was answered with success,
              \* and that are not trusted again
  loose       \* history: devices that lost their trust without losing their
              \* sessions, or got a session without trust

vars == <<now, sessions, trusted, sso, requests, issued, faults, begun,
          carried, retired, revoked, loose>>

TypeOK ==
  /\ now \in 0..MaxTime
  /\ sessions \in [Sids -> Session \cup {None}]
  /\ trusted \subseteq Devices
  /\ sso \subseteq Devices
  /\ requests \in [Handlers -> Request \cup {None}]
  /\ issued \subseteq Token
  /\ faults \in 0..MaxFaults
  /\ begun \in 0..MaxRequests
  /\ carried \in [Sids -> SUBSET Token]
  /\ retired \subseteq Token
  /\ revoked \subseteq Devices
  /\ loose \subseteq Devices

Exists(s) == sessions[s] # None
Carriers(t) == {s \in Sids : Exists(s) /\ sessions[s].token = t}
Live(t) == {s \in Carriers(t) : sessions[s].active}
ActiveOn(d) == {s \in Sids : Exists(s) /\ sessions[s].device = d /\ sessions[s].active}

Mint(u) == [user |-> u, iat |-> now]

Busy(h) == requests[h] # None
At(h, q) == Busy(h) /\ requests[h].at = q
Becomes(h, r) == requests' = [requests EXCEPT ![h] = r]
Goto(h, q) == Becomes(h, [requests[h] EXCEPT !.at = q])
Return(h) == Becomes(h, None)

history == <<carried, retired, revoked, loose>>
bounds == <<faults, begun>>

-----------------------------------------------------------------------------
(* Requests begin *)

Init ==
  /\ now = 0
  /\ sessions = [s \in Sids |-> None]
  /\ trusted \in SUBSET Devices
  /\ sso = {}
  /\ requests = [h \in Handlers |-> None]
  /\ issued = {}
  /\ faults = 0
  /\ begun = 0
  /\ carried = [s \in Sids |-> {}]
  /\ retired = {}
  /\ revoked = {}
  /\ loose = {}

Tick ==
  /\ now < MaxTime
  /\ now' = now + 1
  /\ UNCHANGED <<sessions, trusted, sso, requests, issued, bounds, history>>

Begin(h, op, q, d, t) ==
  /\ ~Busy(h)
  /\ begun < MaxRequests
  /\ Becomes(h, [op |-> op, at |-> q, device |-> d, old |-> t, new |-> None])
  /\ begun' = begun + 1
  /\ UNCHANGED <<now, sessions, trusted, sso, issued, faults, history>>

\* A login with the right password, from a known device.
BeginLogin(h, d) == Begin(h, "login", "checkDevice", d, None)

\* validateSsoToken reads the token.
BeginSso(h, d) == d \in sso /\ Begin(h, "validateSsoToken", "deleteSso", d, None)

\* A client refreshes or logs out with a token it was given.
BeginRefresh(h, t) == t \in issued /\ Begin(h, "refresh", "validate", None, t)
BeginLogout(h, t) == t \in issued /\ Begin(h, "logout", "validate", None, t)

BeginRevokeDevice(h, d) == Begin(h, "revokeDevice", "findTrusted", d, None)

-----------------------------------------------------------------------------
(* Creating a session *)

\* createSession signs the token and sends the insert.
CreateSession(h, op) ==
  LET r == requests[h] IN
  Becomes(h, [r EXCEPT !.op = op, !.at = "create", !.new = Mint(Owner[r.device])])

\* A device that is not trusted goes the way of the email verification.
CheckDevice(h) ==
  LET r == requests[h] IN
  /\ At(h, "checkDevice")
  /\ \/ r.device \in trusted /\ Goto(h, "checkOtp")
     \/ r.device \notin trusted /\ Return(h)
  /\ UNCHANGED <<now, sessions, trusted, sso, issued, bounds, history>>

\* With 2FA the login ends here, with a login session for loginVerifyOtp.
CheckOtp(h) ==
  /\ At(h, "checkOtp")
  /\ Return(h) \/ CreateSession(h, "login")
  /\ UNCHANGED <<now, sessions, trusted, sso, issued, bounds, history>>

DeleteSso(h) ==
  LET r == requests[h] IN
  /\ At(h, "deleteSso")
  /\ sso' = sso \ {r.device}
  /\ CreateSession(h, r.op)
  /\ UNCHANGED <<now, sessions, trusted, issued, bounds, history>>

\* Faulty: the session outlives its thirty days.
InsertSessionLong(s, d, t) ==
  sessions' = [sessions EXCEPT ![s] =
    [device |-> d, token |-> t, expires |-> t.iat + 2 * Lifetime, active |-> TRUE]]

InsertSession(s, d, t) ==
  sessions' = [sessions EXCEPT ![s] =
    [device |-> d, token |-> t, expires |-> t.iat + Lifetime, active |-> TRUE]]

Create(h) ==
  LET r == requests[h] IN
  /\ At(h, "create")
  /\ \E s \in Sids :
       /\ ~Exists(s)
       /\ InsertSession(s, r.device, r.new)
       /\ carried' = [carried EXCEPT ![s] = {r.new}]
  /\ loose' = IF r.device \in trusted THEN loose ELSE loose \cup {r.device}
  /\ Goto(h, "findCreated")
  /\ UNCHANGED <<now, trusted, sso, issued, bounds, retired, revoked>>

\* findOne by the token: any session that carries it.
FindCreated(h) ==
  /\ At(h, "findCreated")
  /\ \/ Carriers(requests[h].new) # {} /\ Goto(h, "notify")
     \/ Carriers(requests[h].new) = {} /\ requests[h].op # "login" /\ Return(h)
     \/ Carriers(requests[h].new) = {} /\ requests[h].op = "login" /\ CreateSession(h, "loginAgain")
  /\ UNCHANGED <<now, sessions, trusted, sso, issued, bounds, history>>

\* The notification is sent, and the client gets its tokens.
Notify(h) ==
  /\ At(h, "notify")
  /\ issued' = issued \cup {requests[h].new}
  /\ Return(h)
  /\ UNCHANGED <<now, sessions, trusted, sso, bounds, history>>

-----------------------------------------------------------------------------
(* Refresh and logout *)

\* validateRefreshToken, then findOne of an active session with the token, any
\* of them; in the second of expires_at the answer depends on the millisecond.
Accepts(s, t) == s \in Live(t) /\ now < t.iat + Lifetime /\ now <= sessions[s].expires
Refuses(t) ==
  \/ now >= t.iat + Lifetime
  \/ Live(t) = {}
  \/ \E s \in Live(t) : now >= sessions[s].expires

\* Faulty: the expiry of the session document is not looked at.
ValidateSessionForever(h) ==
  LET r == requests[h] IN
  /\ At(h, "validate")
  /\ \/ \E s \in Live(r.old) :
          /\ now < r.old.iat + Lifetime
          /\ \/ /\ r.op = "refresh"
                /\ Becomes(h, [r EXCEPT !.at = "rotate", !.new = Mint(Owner[sessions[s].device])])
             \/ r.op = "logout" /\ Goto(h, "revoke")
     \/ Refuses(r.old) /\ Return(h)
  /\ UNCHANGED <<now, sessions, trusted, sso, issued, bounds, history>>

ValidateSession(h) ==
  LET r == requests[h] IN
  /\ At(h, "validate")
  /\ \/ \E s \in Sids :
          /\ Accepts(s, r.old)
          /\ \/ /\ r.op = "refresh"
                /\ Becomes(h, [r EXCEPT !.at = "rotate", !.new = Mint(Owner[sessions[s].device])])
             \/ r.op = "logout" /\ Goto(h, "revoke")
     \/ Refuses(r.old) /\ Return(h)
  /\ UNCHANGED <<now, sessions, trusted, sso, issued, bounds, history>>

\* Faulty: the session is saved as it was when it was validated.
SetTokenAndState(s, t) ==
  /\ sessions' = [sessions EXCEPT ![s].token = t, ![s].active = TRUE]
  /\ carried' = [carried EXCEPT ![s] = @ \cup {t}]

SetToken(s, t) ==
  /\ sessions' = [sessions EXCEPT ![s].token = t]
  /\ carried' = [carried EXCEPT ![s] = @ \cup {t}]

\* Faulty: revoked_at is set, is_active is not.
SetRevokedAtOnly(s) == UNCHANGED <<sessions, carried>>

SetRevoked(s) ==
  sessions' = [sessions EXCEPT ![s].active = FALSE] /\ UNCHANGED carried

\* updateOne by the token: one of the sessions that carry it, active or not.
Rotate(h) ==
  LET r == requests[h] IN
  /\ At(h, "rotate")
  /\ \/ \E s \in Carriers(r.old) : SetToken(s, r.new)
     \/ Carriers(r.old) = {} /\ UNCHANGED <<sessions, carried>>
  /\ Goto(h, "findRotated")
  /\ UNCHANGED <<now, trusted, sso, issued, bounds, retired, revoked, loose>>

FindRotated(h) ==
  LET r == requests[h] IN
  /\ At(h, "findRotated")
  /\ \/ /\ Carriers(r.new) # {}
        /\ issued' = issued \cup {r.new}
        /\ retired' = retired \cup ({r.old} \ {r.new})
     \/ Carriers(r.new) = {} /\ UNCHANGED <<issued, retired>>
  /\ Return(h)
  /\ UNCHANGED <<now, sessions, trusted, sso, bounds, carried, revoked, loose>>

Revoke(h) ==
  LET r == requests[h] IN
  /\ At(h, "revoke")
  /\ \/ \E s \in Carriers(r.old) : SetRevoked(s)
     \/ Carriers(r.old) = {} /\ UNCHANGED <<sessions, carried>>
  /\ Goto(h, "findRevoked")
  /\ UNCHANGED <<now, trusted, sso, issued, bounds, retired, revoked, loose>>

FindRevoked(h) ==
  LET r == requests[h] IN
  /\ At(h, "findRevoked")
  /\ \/ Carriers(r.old) # {} /\ retired' = retired \cup {r.old}
     \/ Carriers(r.old) = {} /\ UNCHANGED retired
  /\ Return(h)
  /\ UNCHANGED <<now, sessions, trusted, sso, issued, bounds, carried, revoked, loose>>

RevokeSessionBySessionId(s) ==
  /\ Exists(s)
  /\ SetRevoked(s)
  /\ UNCHANGED <<now, trusted, sso, requests, issued, bounds, retired, revoked, loose>>

-----------------------------------------------------------------------------
(* Devices *)

FindTrusted(h) ==
  LET d == requests[h].device IN
  /\ At(h, "findTrusted")
  /\ \/ d \in trusted /\ Goto(h, "untrust")
     \/ d \notin trusted /\ Return(h)
  /\ UNCHANGED <<now, sessions, trusted, sso, issued, bounds, history>>

Untrust(h) ==
  /\ At(h, "untrust")
  /\ trusted' = trusted \ {requests[h].device}
  /\ Goto(h, "revokeSessions")
  /\ UNCHANGED <<now, sessions, sso, issued, bounds, history>>

\* Faulty: updateOne for updateMany.
DeactivateOne(d) ==
  IF ActiveOn(d) = {} THEN sessions
  ELSE [sessions EXCEPT ![CHOOSE s \in ActiveOn(d) : TRUE].active = FALSE]

DeactivateAll(d) ==
  [s \in Sids |-> IF s \in ActiveOn(d) THEN [sessions[s] EXCEPT !.active = FALSE]
                                       ELSE sessions[s]]

RevokeSessionByDeviceFingerprintId(h) ==
  LET d == requests[h].device IN
  /\ At(h, "revokeSessions")
  /\ sessions' = DeactivateAll(d)
  /\ loose' = loose \ {d}
  /\ revoked' = IF d \in trusted THEN revoked ELSE revoked \cup {d}
  /\ Return(h)
  /\ UNCHANGED <<now, trusted, sso, issued, bounds, carried, retired>>

\* The verification of a device by its owner ends in trustDeviceFingerprint.
TrustDevice(d) ==
  /\ d \notin trusted
  /\ trusted' = trusted \cup {d}
  /\ revoked' = revoked \ {d}
  /\ UNCHANGED <<now, sessions, sso, requests, issued, bounds, carried, retired, loose>>

\* Only a user with a session asks for an SSO token; the device it names need
\* not be trusted.
CreateSsoToken(d) ==
  /\ \E t \in issued : t.user = Owner[d] /\ Live(t) # {}
  /\ sso' = sso \cup {d}
  /\ UNCHANGED <<now, sessions, trusted, requests, issued, bounds, history>>

ExpireSsoToken(d) ==
  /\ d \in sso
  /\ sso' = sso \ {d}
  /\ UNCHANGED <<now, sessions, trusted, requests, issued, bounds, history>>

-----------------------------------------------------------------------------
(* Failures *)

Fault == faults < MaxFaults /\ faults' = faults + 1

\* A request that ends between its untrust and its revokeSessions.
Loosened(h) == IF At(h, "revokeSessions") THEN loose \cup {requests[h].device} ELSE loose

\* The query fails, without an effect: the request is answered with an error.
\* (A query that fails with its effect is that query, and a failure of the next.)
\* Only login has another way on: a failed read in checkOtp counts as 2FA not
\* enabled, a failed write of the login session or a failed createSession as a
\* reason to go on to trustFingerprintLogin.
QueryFails(h) ==
  LET r == requests[h] IN
  /\ Busy(h)
  /\ Fault
  /\ \/ r.op = "login" /\ r.at = "checkOtp" /\ CreateSession(h, "login")
     \/ r.op = "login" /\ r.at # "checkDevice" /\ CreateSession(h, "loginAgain")
     \/ (r.op # "login" \/ r.at = "checkDevice") /\ Return(h)
  /\ loose' = Loosened(h)
  /\ UNCHANGED <<now, sessions, trusted, sso, issued, begun, carried, retired, revoked>>

\* The instance that serves h is killed.
Crash(h) ==
  /\ Busy(h)
  /\ Fault
  /\ Return(h)
  /\ loose' = Loosened(h)
  /\ UNCHANGED <<now, sessions, trusted, sso, issued, begun, carried, retired, revoked>>

HandlerStep(h) ==
  \/ CheckDevice(h)
  \/ CheckOtp(h)
  \/ DeleteSso(h)
  \/ Create(h)
  \/ FindCreated(h)
  \/ Notify(h)
  \/ ValidateSession(h)
  \/ Rotate(h)
  \/ FindRotated(h)
  \/ Revoke(h)
  \/ FindRevoked(h)
  \/ FindTrusted(h)
  \/ Untrust(h)
  \/ RevokeSessionByDeviceFingerprintId(h)
  \/ QueryFails(h)
  \/ Crash(h)

Next ==
  \/ Tick
  \/ \E h \in Handlers, d \in Devices :
       BeginLogin(h, d) \/ BeginSso(h, d) \/ BeginRevokeDevice(h, d)
  \/ \E h \in Handlers, t \in Token : BeginRefresh(h, t) \/ BeginLogout(h, t)
  \/ \E h \in Handlers : HandlerStep(h)
  \/ \E s \in Sids : RevokeSessionBySessionId(s)
  \/ \E d \in Devices : TrustDevice(d) \/ CreateSsoToken(d) \/ ExpireSsoToken(d)

Spec == Init /\ [][Next]_vars

-----------------------------------------------------------------------------
(* Properties *)

\* Two sessions have carried this token.
Shared(t) == \E s, z \in Sids : s # z /\ t \in carried[s] \cap carried[z]

\* A session never comes back to life, never moves to another device, is never
\* prolonged and never returns to an older token: a refresh that was validated
\* before a logout or a revocation rotates the token of a session that has ended
\* since (updateOne has no is_active in its filter).
SessionsOnlyAge ==
  [][\A s \in Sids : Exists(s) =>
       /\ sessions'[s].device = sessions[s].device
       /\ sessions'[s].expires = sessions[s].expires
       /\ sessions'[s].active => sessions[s].active
       /\ sessions'[s].token.user = sessions[s].token.user
       /\ sessions'[s].token.iat >= sessions[s].token.iat]_vars

\* Once a logout or a refresh has been answered with success, the token it gave
\* up opens no session, whatever was in flight: unless two sessions carried it.
RetiredTokensRefused ==
  \A t \in retired : ~Shared(t) => Live(t) = {}

\* Refreshing does not keep a session alive past its thirty days: its token was
\* minted no later than expires_at, unless two sessions have shared a token.
NotRefreshedPastExpiry ==
  \A s \in Sids : Exists(s) /\ sessions[s].token.iat > sessions[s].expires =>
    \E t \in carried[s] : Shared(t)

\* A device without trust has no active session, once its revocation has run to
\* the end: except for a session created on it without trust.
UntrustedHasNoActive ==
  \A d \in Devices \ (trusted \cup loose) :
    ActiveOn(d) # {} => \E h \in Handlers : At(h, "revokeSessions") /\ requests[h].device = d

-----------------------------------------------------------------------------
(* What a test says, and the code does not guarantee *)

\* revokeDeviceFingerprint "revokes device fingerprint and sessions": a device
\* whose revocation was answered with success has no active session until it is
\* trusted again.
RevokedDeviceHasNoSession == \A d \in revoked : ActiveOn(d) = {}

=============================================================================
