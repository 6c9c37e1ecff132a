------------------------------ MODULE Gateway ------------------------------
(***************************************************************************)
(* A request's way through the API gateway (apps/api-gateway) to a service:*)
(* the rate limit, the guard of the route, the relay, the service's guard. *)
(* The gateway's guard, and that of every service but auth, keeps the user *)
(* of a token for five minutes after auth has confirmed it.                *)
(*                                                                         *)
(* A guard that calls auth waits five seconds, and the gateway ten for the *)
(* service; auth's own guard reads MongoDB and has no deadline.  A service *)
(* does not notice that the gateway has given up: it goes on.              *)
(*                                                                         *)
(* There is one gateway, with one connection to Redis, so the commands of  *)
(* one check of a limit follow each other.  The limit's guard is global    *)
(* and runs before the route's: request.user is not set yet, and every     *)
(* window is that of an address.                                           *)
(*                                                                         *)
(* Time counts in steps; what an instant of the limiter is (a millisecond) *)
(* and what the guards' times count in only differ by scale.               *)
(***************************************************************************)
EXTENDS Routes, Integers, FiniteSets

CONSTANTS
  Handlers,     \* requests that the gateway has in hand
  Tokens,       \* access tokens, each of a session and user of its own
  None,         \* no token, no entry
  Offered,      \* the kinds of request that clients make
  Max,          \* of a limit: requests per window
  Window,       \* length of a window
  CacheTtl,     \* how long a guard keeps a user: five minutes
  Timeout,      \* of a guard's call of auth: five seconds
  RelayTimeout, \* of the gateway's call of a service: ten seconds
  MaxTime,      \* bound: the last instant
  MaxRequests,  \* bound: requests
  MaxFaults     \* bound: failed calls

Sides == {"gateway", "service"}
RoleNames == {"user", "admin"}
Asking == {"validate", "info", "yes", "no", "fingerprint"}
Outcomes == {"served", "refused", "missing"}
Answers == Outcomes \cup {"none", "failed"}

\* at: on its way to the guard or there, being asked about, or answered by the service;
\* role: what its guard has been told; sent: when its guard asked; relayed: since when the
\* gateway waits for the service, and None when it does not.
Request ==
  [kind : {[k EXCEPT !.limit = "none"] : k \in Offered}, token : Tokens \cup {None},
   side : Sides, at : {"guard"} \cup Asking \cup Outcomes, role : RoleNames,
   sent : 0..MaxTime, relayed : 0..MaxTime \cup {None}]

Entry == [role : RoleNames, expires : 0..(MaxTime + CacheTtl)]

ASSUME GatewayAssumption ==
  /\ Offered \subseteq Kinds
  /\ Max \in [Limits -> Nat]
  /\ {Window, Timeout, RelayTimeout, MaxTime, MaxRequests, MaxFaults} \subseteq Nat
  /\ CacheTtl \in Nat \ {0}
  /\ None \notin Tokens \cup Request \cup Entry \cup Nat

VARIABLES
  now,       \* the clock
  window,    \* Redis: of each limit, the instants of the requests it has counted
  cache,     \* of each guard: the users it keeps
  lost,      \* MongoDB: what a token's user, an admin at first, has lost, and when
  requests,  \* what each handler is doing
  answers,   \* the last answer of each handler
  begun,     \* requests so far
  faults,    \* failed calls so far
  allowed    \* history: of each limit, the instants of requests it let pass of late

vars == <<now, window, cache, lost, requests, answers, begun, faults, allowed>>
limiter == <<window, allowed, begun>>

TypeOK ==
  /\ now \in 0..MaxTime
  /\ window \in [Limits -> SUBSET (0..MaxTime)]
  /\ cache \in [Sides -> [Tokens -> Entry \cup {None}]]
  /\ lost \in [Tokens -> [what : {"session", "role"}, at : 0..MaxTime] \cup {None}]
  /\ requests \in [Handlers -> Request \cup {None}]
  /\ answers \in [Handlers -> Answers]
  /\ begun \in 0..MaxRequests
  /\ faults \in 0..MaxFaults
  /\ allowed \in [Limits -> SUBSET (0..MaxTime)]

Init ==
  /\ now = 0
  /\ window = [l \in Limits |-> {}]
  /\ cache = [s \in Sides |-> [t \in Tokens |-> None]]
  /\ lost = [t \in Tokens |-> None]
  /\ requests = [h \in Handlers |-> None]
  /\ answers = [h \in Handlers |-> "none"]
  /\ begun = 0
  /\ faults = 0
  /\ allowed = [l \in Limits |-> {}]

Has(t, what) == lost[t] = None \/ lost[t].what # what
Role(t) == IF Has(t, "role") THEN "admin" ELSE "user"

Busy(h) == requests[h] # None
At(h, q) == Busy(h) /\ requests[h].at = q

Becomes(h, r) == requests' = [requests EXCEPT ![h] = r] /\ UNCHANGED answers
Call(h, q) == Becomes(h, [requests[h] EXCEPT !.at = q, !.sent = now])

Answer(h, a) ==
  /\ requests' = [requests EXCEPT ![h] = None]
  /\ answers' = [answers EXCEPT ![h] = a]

-----------------------------------------------------------------------------
(* The limit *)

\* The instants that a check at this one still finds.
Counted(l) == {x \in window[l] : x > now - Window}

\* Faulty: the check lets one more pass.
AllowedLoose(l) == Cardinality(Counted(l)) <= Max[l]

\* isAllowed: zremrangebyscore, zcard; zadd takes a refused request in as well, and
\* two of one instant are one member.
Allowed(l) == Cardinality(Counted(l)) < Max[l]

\* Whether a limit could be reached within the bound; a window that could not is not kept.
Binding(l) == l # "none" /\ Max[l] < MaxRequests

\* canActivate of RateLimitGuard; when Redis fails, the request passes.
Limit(l, passes) ==
  \/ /\ ~Binding(l) /\ passes
     /\ UNCHANGED <<window, allowed, faults>>
  \/ /\ Binding(l) /\ passes = Allowed(l)
     /\ window' = [window EXCEPT ![l] = Counted(l) \cup {now}]
     /\ allowed' = IF passes
          THEN [allowed EXCEPT ![l] = {x \in @ : x > now - Window} \cup {now}] ELSE allowed
     /\ UNCHANGED faults
  \/ /\ Binding(l) /\ passes
     /\ faults < MaxFaults
     /\ faults' = faults + 1
     /\ UNCHANGED <<window, allowed>>

\* A request comes with a token or none, and is refused or goes on to its guard.
Arrive(h, k, t) ==
  /\ ~Busy(h)
  /\ begun < MaxRequests
  /\ begun' = begun + 1
  /\ \/ /\ Limit(k.limit, TRUE)
        /\ answers' = [answers EXCEPT ![h] = "none"]
        /\ requests' = [requests EXCEPT ![h] =
             [kind |-> [k EXCEPT !.limit = "none"], token |-> t, side |-> "gateway",
              at |-> "guard", role |-> "user", sent |-> now, relayed |-> None]]
     \/ /\ Limit(k.limit, FALSE)
        /\ Answer(h, "refused")
  /\ UNCHANGED <<now, cache, lost>>

-----------------------------------------------------------------------------
(* The guards *)

\* The token that the guard of a side is shown.
Shown(r) == IF r.side = "gateway" \/ r.kind.carries THEN r.token ELSE None

Guarded(r) ==
  IF r.side = "gateway" THEN r.kind.guard # "none" ELSE r.kind.target \in {"token", "session", "optional"}

\* auth's own guard keeps nothing: it does not call auth.
Keeps(r) == r.side = "gateway" \/ r.kind.target # "session"

\* Faulty: what is kept is never too old.
KnownForever(r) == Keeps(r) /\ cache[r.side][r.token] # None

Known(r) == Keeps(r) /\ cache[r.side][r.token] # None /\ cache[r.side][r.token].expires > now

\* The gateway answers the client, a service the gateway; what the guard knew is forgotten.
Conclude(h, a) ==
  IF requests[h].side = "gateway" THEN Answer(h, a)
  ELSE Becomes(h, [requests[h] EXCEPT !.at = a, !.role = "user", !.sent = 0])

\* What the guard of a side refuses; OptionalAuthGuard refuses nothing.
Deny(h) ==
  Conclude(h, IF requests[h].side = "service" /\ requests[h].kind.target = "optional"
              THEN "served" ELSE "refused")

\* A client of the gateway calls the service.
Relay(h) ==
  Becomes(h, [requests[h] EXCEPT !.side = "service", !.at = "guard", !.role = "user",
                                 !.sent = now, !.relayed = now])

\* The guard lets a request pass: the gateway relays it, the service serves it.
Pass(h) ==
  LET r == requests[h] IN
  CASE r.side = "service" -> Conclude(h, IF r.kind.target = "missing" THEN "missing" ELSE "served")
    [] r.side = "gateway" /\ r.kind.target = "local" -> Answer(h, "served")
    [] OTHER -> Relay(h)

\* checkRoleAccess, with the role that the guard has been told.
PassWithRole(h, role) ==
  IF requests[h].kind.admin /\ role # "admin" THEN Conclude(h, "refused") ELSE Pass(h)

\* The user is known: AuthGuardWithFingerprint goes on to ask about the device.
Identified(h, role) ==
  LET r == requests[h] IN
  IF r.side = "gateway" /\ r.kind.guard = "fingerprint"
  THEN Becomes(h, [r EXCEPT !.role = role, !.at = "fingerprint", !.sent = now])
  ELSE PassWithRole(h, role)

\* canActivate, up to the call of auth; at the service, whenever the request gets there.
Guard(h) ==
  /\ At(h, "guard")
  /\ LET r == requests[h] IN
       \/ ~Guarded(r) /\ Pass(h)
       \/ Guarded(r) /\ Shown(r) = None /\ Deny(h)
       \/ /\ Guarded(r) /\ Shown(r) # None
          /\ IF Known(r) THEN Identified(h, cache[r.side][r.token].role) ELSE Call(h, "validate")
  /\ UNCHANGED <<now, cache, lost, limiter, faults>>

\* auth's validateAccess, or its own guard's validateSession, finds the session.
ValidateAccess(h) ==
  /\ At(h, "validate")
  /\ LET r == requests[h] IN
       Becomes(h, [r EXCEPT !.at =
         IF ~Has(r.token, "session") THEN "no" ELSE IF Keeps(r) THEN "info" ELSE "yes"])
  /\ UNCHANGED <<now, cache, lost, limiter, faults>>

\* getUserInfoByAccessToken asks the user service for the user, with the role.
GetInfo(h) ==
  /\ At(h, "info")
  /\ Becomes(h, [requests[h] EXCEPT !.at = "yes", !.role = Role(requests[h].token)])
  /\ UNCHANGED <<now, cache, lost, limiter, faults>>

\* Faulty: the user is kept without the end of the five minutes.
KeepUser(r) == [cache EXCEPT ![r.side][r.token] = [role |-> r.role]]

Keep(r) == [cache EXCEPT ![r.side][r.token] = [role |-> r.role, expires |-> now + CacheTtl]]

\* The answer is back at the guard, which keeps it.
Validated(h) ==
  /\ At(h, "yes")
  /\ cache' = IF Keeps(requests[h]) THEN Keep(requests[h]) ELSE cache
  /\ Identified(h, requests[h].role)
  /\ UNCHANGED <<now, lost, limiter, faults>>

Invalid(h) ==
  /\ At(h, "no")
  /\ Deny(h)
  /\ UNCHANGED <<now, cache, lost, limiter, faults>>

\* The users of the device are asked for, by getUserInfoByFingerprintHashed; the user
\* of the token has to be one, and not deactivated.  Devices and deactivation are
\* outside of this module: both answers are possible.
CheckFingerprint(h) ==
  /\ At(h, "fingerprint")
  /\ PassWithRole(h, requests[h].role) \/ Answer(h, "refused")
  /\ UNCHANGED <<now, cache, lost, limiter, faults>>

\* A guard's call has waited for its five seconds.
Late(h) ==
  Busy(h) /\ requests[h].at \in Asking /\ Keeps(requests[h]) /\ now >= requests[h].sent + Timeout

\* A guard's call fails, or is given up, or MongoDB fails: the guard refuses, or goes on
\* without.
CallFails(h) ==
  /\ Busy(h) /\ requests[h].at \in Asking
  /\ \/ Late(h) /\ UNCHANGED faults
     \/ faults < MaxFaults /\ faults' = faults + 1
  /\ Deny(h)
  /\ UNCHANGED <<now, cache, lost, limiter>>

-----------------------------------------------------------------------------
(* The relay *)

\* The gateway waits for the service.
Waits(h) == Busy(h) /\ requests[h].relayed # None

\* The service's answer reaches the gateway, which hands it to the client if it has not
\* given up.
Return(h) ==
  /\ Busy(h) /\ requests[h].at \in Outcomes
  /\ requests' = [requests EXCEPT ![h] = None]
  /\ answers' = IF Waits(h) THEN [answers EXCEPT ![h] = requests[h].at] ELSE answers
  /\ UNCHANGED <<now, cache, lost, limiter, faults>>

\* The gateway has waited for its ten seconds.
RelayLate(h) == Waits(h) /\ now >= requests[h].relayed + RelayTimeout

\* The gateway gives up, or the connection fails: an error is the answer, whatever the
\* service does with the request.
RelayFails(h) ==
  /\ Waits(h)
  /\ \/ RelayLate(h) /\ UNCHANGED faults
     \/ faults < MaxFaults /\ faults' = faults + 1
  /\ requests' = [requests EXCEPT ![h].relayed = None]
  /\ answers' = [answers EXCEPT ![h] = "failed"]
  /\ UNCHANGED <<now, cache, lost, limiter>>

-----------------------------------------------------------------------------
(* What happens meanwhile *)

\* The session of a token is revoked, or another admin takes its user's role away.
Lose(t, what) ==
  /\ lost[t] = None
  /\ lost' = [lost EXCEPT ![t] = [what |-> what, at |-> now]]
  /\ UNCHANGED <<now, cache, requests, answers, limiter, faults>>

\* Calls whose deadline has come end first, and the gateway's guard takes no time; nothing
\* makes a request arrive at the service, auth's own guard or an answer return in time.
Tick ==
  /\ now < MaxTime
  /\ \A h \in Handlers : ~Late(h) /\ ~RelayLate(h) /\ ~(At(h, "guard") /\ requests[h].side = "gateway")
  /\ now' = now + 1
  /\ UNCHANGED <<window, cache, lost, requests, answers, begun, faults, allowed>>

Next ==
  \/ \E h \in Handlers :
       \/ \E k \in Offered, t \in Tokens \cup {None} : Arrive(h, k, t)
       \/ Guard(h) \/ ValidateAccess(h) \/ GetInfo(h) \/ Validated(h) \/ Invalid(h)
       \/ CheckFingerprint(h) \/ CallFails(h) \/ Return(h) \/ RelayFails(h)
  \/ \E t \in Tokens, what \in {"session", "role"} : Lose(t, what)
  \/ Tick

Spec == Init /\ [][Next]_vars

-----------------------------------------------------------------------------
(* Properties *)

\* While Redis answers, the requests of one window that a limit lets pass arrive in no
\* more instants than it says: requests of one instant are one.
WithinLimit ==
  \A l \in Limits : Cardinality({x \in allowed[l] : x > now - Window}) <= Max[l]

\* For how long a client may get an answer with rights that are lost.  The session is
\* looked at by auth after the relay; another service's guard was told five minutes ago and
\* less than the time of a call; the gateway's was too, and asks about the device before it
\* answers or relays.
Allowance(target) ==
  CASE target = "session" -> RelayTimeout
    [] target = "token" -> CacheTtl + Timeout - 1 + RelayTimeout
    [] target = "local" -> CacheTtl + 2 * Timeout - 1
    [] OTHER -> CacheTtl + 2 * Timeout - 1 + RelayTimeout

\* The token has lost what the request needs.
Unentitled(r) ==
  /\ r.token # None
  /\ ~Has(r.token, "session") \/ (r.kind.admin /\ ~Has(r.token, "role"))

\* Rights that are lost serve a client only for a while, the allowance of the route; and a
\* service other than auth does not act on them later than its guard's five minutes and
\* call, even when the gateway has given the request up.  What is relayed without a guard
\* to a service without one is nobody's.
ServedInTime ==
  [][\A h \in Handlers :
       LET r == requests[h]
           target == r.kind.target
       IN
       Busy(h) /\ (r.kind.guard # "none" \/ target \in {"token", "session"}) /\ Unentitled(r) =>
         /\ requests'[h] = None /\ answers'[h] = "served" =>
              now <= lost[r.token].at + Allowance(target)
         /\ target = "token" /\ r.at # "served" /\ requests'[h] # None /\ requests'[h].at = "served" =>
              now <= lost[r.token].at + CacheTtl + Timeout - 1]_vars

\* A request that carries a good token, and that the gateway's guard let pass, is not
\* refused by the service's: what the service asks for, the gateway relays.
GoodTokenServed ==
  [][\A h \in Handlers :
       /\ Busy(h) /\ requests[h].side = "service" /\ requests[h].at # "refused"
       /\ requests[h].token # None /\ lost[requests[h].token] = None
       /\ requests'[h] # None /\ requests'[h].at = "refused"
       => faults' # faults \/ Late(h)]_vars

=============================================================================
