--------------------------- MODULE GatewayProofs ---------------------------
(***************************************************************************)
(* Proofs about Gateway, for any number of handlers and tokens, any kinds  *)
(* of request that the gateway offers, any limits and times.               *)
(***************************************************************************)
EXTENDS Gateway, FiniteSetTheorems, TLAPS

USE GatewayAssumption

-----------------------------------------------------------------------------
(* Types *)

\* A guard that has asked has been shown a token; only a service's answer is on its way
\* back, and only from a service does the gateway wait for one.
Held(r) ==
  /\ r.at \in Asking => r.token # None /\ Guarded(r)
  /\ r.at = "fingerprint" => r.side = "gateway"
  /\ r.at \in Outcomes => r.side = "service"
  /\ r.side = "service" => r.kind.target # "local"
  /\ r.side = "gateway" => r.relayed = None

\* Whom the gateway no longer waits for it has answered with an error.
Settled(r, a) == r.side = "service" /\ r.relayed = None => a = "failed"

TypeInv ==
  /\ TypeOK
  /\ \A h \in Handlers : Busy(h) => Held(requests[h]) /\ Settled(requests[h], answers[h])

\* The steps of a request that the gateway has in hand.
Moves(h) ==
  \/ Guard(h) \/ ValidateAccess(h) \/ GetInfo(h) \/ Validated(h) \/ Invalid(h)
  \/ CheckFingerprint(h) \/ CallFails(h) \/ Return(h) \/ RelayFails(h)

\* What a busy handler holds.
LEMMA Holds ==
  ASSUME TypeInv, NEW h \in Handlers, Busy(h)
  PROVE  requests[h] \in Request /\ Held(requests[h]) /\ Settled(requests[h], answers[h])
BY DEF TypeInv, TypeOK, Busy

\* Types hold at first.
LEMMA TypeInit ==
  ASSUME Init
  PROVE  TypeInv
<1>1. TypeOK
  BY DEF Init, TypeOK, Answers
<1>2. \A h \in Handlers : ~Busy(h)
  BY DEF Init, Busy
<1> QED
  BY <1>1, <1>2 DEF TypeInv

RequestsTyped ==
  /\ requests \in [Handlers -> Request \cup {None}]
  /\ answers \in [Handlers -> Answers]
  /\ \A h \in Handlers : Busy(h) => Held(requests[h]) /\ Settled(requests[h], answers[h])

\* One request moves, or is answered.
LEMMA ChangesTyped ==
  ASSUME TypeInv, NEW h \in Handlers, NEW r \in Request \cup {None}, NEW a \in Answers,
         r # None => Held(r) /\ Settled(r, a),
         requests' = [requests EXCEPT ![h] = r], answers' = [answers EXCEPT ![h] = a]
  PROVE  RequestsTyped'
<1>1. \A g \in Handlers : /\ requests'[g] = IF g = h THEN r ELSE requests[g]
                          /\ answers'[g] = IF g = h THEN a ELSE answers[g]
  BY DEF TypeInv, TypeOK
<1>2. \A g \in Handlers : requests'[g] # None => Held(requests'[g]) /\ Settled(requests'[g], answers'[g])
  BY <1>1 DEF TypeInv, Busy
<1>3. \A g \in Handlers : Busy(g)' => Held(requests[g])' /\ Settled(requests[g], answers[g])'
  BY <1>2 DEF Busy, Held, Guarded, Settled
<1>4. requests' \in [Handlers -> Request \cup {None}] /\ answers' \in [Handlers -> Answers]
  BY DEF TypeInv, TypeOK
<1> QED
  BY <1>3, <1>4 DEF RequestsTyped

\* A request that moves keeps its answer, which is settled.
LEMMA MovesTyped ==
  ASSUME TypeInv, NEW h \in Handlers, NEW r \in Request, Held(r), Settled(r, answers[h]), Becomes(h, r)
  PROVE  RequestsTyped'
<1>1. answers' = [answers EXCEPT ![h] = answers[h]] /\ answers[h] \in Answers
  BY DEF Becomes, TypeInv, TypeOK
<1> QED
  BY <1>1, ChangesTyped DEF Becomes

\* A request that is answered leaves the others typed.
LEMMA AnswersTyped ==
  ASSUME TypeInv, NEW h \in Handlers, NEW a \in Answers, Answer(h, a)
  PROVE  RequestsTyped'
BY ChangesTyped DEF Answer

\* What a request becomes: relayed to the service; asked about; its user known and its
\* device next; answered by the service.
Relayed(r) ==
  [r EXCEPT !.side = "service", !.at = "guard", !.role = "user", !.sent = now, !.relayed = now]
Asked(r, q) == [r EXCEPT !.at = q, !.sent = now]
Told(r, role) == [r EXCEPT !.role = role, !.at = "fingerprint", !.sent = now]
Concluded(r, a) == [r EXCEPT !.at = a, !.role = "user", !.sent = 0]

\* A request that is relayed is the same request.
LEMMA RelayedTypes ==
  ASSUME TypeInv, NEW r \in Request
  PROVE  /\ Relayed(r) \in Request
         /\ Relayed(r).kind = r.kind /\ Relayed(r).token = r.token
         /\ Relayed(r).side = "service" /\ Relayed(r).at = "guard"
         /\ Relayed(r).sent = now /\ Relayed(r).role = "user" /\ Relayed(r).relayed = now
<1>1. now \in 0..MaxTime
  BY DEF TypeInv, TypeOK
<1> QED
  BY <1>1 DEF Relayed, Request, Sides, RoleNames

\* So is one that is asked about.
LEMMA AskedTypes ==
  ASSUME TypeInv, NEW r \in Request, NEW q \in Asking
  PROVE  /\ Asked(r, q) \in Request
         /\ Asked(r, q).kind = r.kind /\ Asked(r, q).token = r.token
         /\ Asked(r, q).side = r.side /\ Asked(r, q).at = q /\ Asked(r, q).sent = now
         /\ Asked(r, q).role = r.role /\ Asked(r, q).relayed = r.relayed
<1>1. now \in 0..MaxTime
  BY DEF TypeInv, TypeOK
<1> QED
  BY <1>1 DEF Asked, Request

\* And one whose user is known.
LEMMA ToldTypes ==
  ASSUME TypeInv, NEW r \in Request, NEW role \in RoleNames
  PROVE  /\ Told(r, role) \in Request
         /\ Told(r, role).kind = r.kind /\ Told(r, role).token = r.token
         /\ Told(r, role).side = r.side /\ Told(r, role).at = "fingerprint"
         /\ Told(r, role).sent = now /\ Told(r, role).role = role
         /\ Told(r, role).relayed = r.relayed
<1>1. now \in 0..MaxTime
  BY DEF TypeInv, TypeOK
<1> QED
  BY <1>1 DEF Told, Request, Asking

\* And one that the service answers.
LEMMA ConcludedTypes ==
  ASSUME TypeInv, NEW r \in Request, NEW a \in Outcomes
  PROVE  /\ Concluded(r, a) \in Request
         /\ Concluded(r, a).kind = r.kind /\ Concluded(r, a).token = r.token
         /\ Concluded(r, a).side = r.side /\ Concluded(r, a).at = a
         /\ Concluded(r, a).sent = 0 /\ Concluded(r, a).role = "user"
         /\ Concluded(r, a).relayed = r.relayed
<1>1. 0 \in 0..MaxTime
  BY DEF TypeInv, TypeOK
<1> QED
  BY <1>1 DEF Concluded, Request, RoleNames

\* Where a guard leads that has identified the user: the gateway answers the client or
\* relays, or asks about the device; a service answers the gateway.
LEMMA Ways ==
  ASSUME TypeInv, NEW h \in Handlers, Busy(h), NEW role \in RoleNames
  PROVE  /\ \A a : Conclude(h, a) =>
              \/ requests[h].side = "gateway" /\ Answer(h, a)
              \/ requests[h].side = "service" /\ Becomes(h, Concluded(requests[h], a))
         /\ Pass(h) =>
              \/ /\ requests[h].side = "service"
                 /\ \/ requests[h].kind.target # "missing" /\ Conclude(h, "served")
                    \/ Conclude(h, "missing")
              \/ /\ requests[h].side = "gateway" /\ requests[h].kind.target = "local"
                 /\ Answer(h, "served")
              \/ /\ requests[h].side = "gateway" /\ requests[h].kind.target # "local"
                 /\ Becomes(h, Relayed(requests[h]))
         /\ PassWithRole(h, role) =>
              \/ requests[h].kind.admin /\ role # "admin" /\ Conclude(h, "refused")
              \/ (requests[h].kind.admin => role = "admin") /\ Pass(h)
         /\ Identified(h, role) =>
              \/ requests[h].side = "gateway" /\ Becomes(h, Told(requests[h], role))
              \/ PassWithRole(h, role)
         /\ Deny(h) =>
              \/ Conclude(h, "refused")
              \/ /\ requests[h].side = "service" /\ requests[h].kind.target = "optional"
                 /\ Conclude(h, "served")
<1>1. requests[h].side \in Sides
  BY Holds DEF Request
<1>2. \A a : Conclude(h, a) =>
        \/ requests[h].side = "gateway" /\ Answer(h, a)
        \/ requests[h].side = "service" /\ Becomes(h, Concluded(requests[h], a))
  BY <1>1 DEF Conclude, Sides, Concluded
<1>3. Pass(h) =>
        \/ /\ requests[h].side = "service"
           /\ \/ requests[h].kind.target # "missing" /\ Conclude(h, "served")
              \/ Conclude(h, "missing")
        \/ /\ requests[h].side = "gateway" /\ requests[h].kind.target = "local"
           /\ Answer(h, "served")
        \/ /\ requests[h].side = "gateway" /\ requests[h].kind.target # "local"
           /\ Becomes(h, Relayed(requests[h]))
  BY <1>1 DEF Pass, Sides, Relay, Relayed
<1>4. PassWithRole(h, role) =>
        \/ requests[h].kind.admin /\ role # "admin" /\ Conclude(h, "refused")
        \/ (requests[h].kind.admin => role = "admin") /\ Pass(h)
  BY DEF PassWithRole
<1>5. Identified(h, role) =>
        \/ requests[h].side = "gateway" /\ Becomes(h, Told(requests[h], role))
        \/ PassWithRole(h, role)
  BY DEF Identified, Told
<1>6. Deny(h) =>
        \/ Conclude(h, "refused")
        \/ /\ requests[h].side = "service" /\ requests[h].kind.target = "optional"
           /\ Conclude(h, "served")
  BY DEF Deny
<1> QED
  BY <1>2, <1>3, <1>4, <1>5, <1>6

\* A request that is answered, by the gateway or the service, is typed.
LEMMA ConcludeTyped ==
  ASSUME TypeInv, NEW h \in Handlers, Busy(h), NEW a \in Outcomes, Conclude(h, a)
  PROVE  RequestsTyped'
<1> DEFINE r == requests[h]
<1>1. r \in Request /\ Held(r) /\ Settled(r, answers[h])
  BY Holds
<1>2. CASE r.side = "service" /\ Becomes(h, Concluded(r, a))
  <2>1. PICK e \in Request :
          /\ e = Concluded(r, a) /\ e.kind = r.kind /\ e.side = r.side /\ e.at = a
          /\ e.relayed = r.relayed
    BY <1>1, ConcludedTypes
  <2>2. Held(e) /\ Settled(e, answers[h])
    BY <1>1, <1>2, <2>1 DEF Held, Settled, Outcomes, Asking
  <2> QED
    BY <1>2, <2>1, <2>2, MovesTyped
<1>3. CASE Answer(h, a)
  BY <1>3, AnswersTyped DEF Answers
<1> QED
  BY <1>2, <1>3, Ways DEF RoleNames

\* A request that passes a guard is typed.
LEMMA PassTyped ==
  ASSUME TypeInv, NEW h \in Handlers, Busy(h), NEW role \in RoleNames,
         Pass(h) \/ PassWithRole(h, role)
  PROVE  RequestsTyped'
<1>1. PICK r \in Request : r = requests[h] /\ Held(r)
  BY Holds
<1>2. CASE r.kind.target # "local" /\ Becomes(h, Relayed(r))
  <2>1. PICK e \in Request :
          /\ e = Relayed(r) /\ e.kind = r.kind /\ e.side = "service" /\ e.at = "guard"
          /\ e.relayed = now
    BY RelayedTypes
  <2>2. now # None
    BY DEF TypeInv, TypeOK
  <2>3. Held(e) /\ Settled(e, answers[h])
    BY <1>2, <2>1, <2>2 DEF Held, Settled, Outcomes, Asking
  <2> QED
    BY <1>2, <2>1, <2>3, MovesTyped
<1>3. CASE Answer(h, "served")
  BY <1>3, AnswersTyped DEF Answers, Outcomes
<1>4. CASE \E a \in Outcomes : Conclude(h, a)
  BY <1>4, ConcludeTyped
<1>5. \/ \E a \in Outcomes : Conclude(h, a)
      \/ Answer(h, "served")
      \/ r.kind.target # "local" /\ Becomes(h, Relayed(r))
  BY <1>1, Ways DEF Outcomes
<1> QED
  BY <1>2, <1>3, <1>4, <1>5

\* A request whose token is known goes on to the fingerprint or passes, typed.
LEMMA IdentifiedTyped ==
  ASSUME TypeInv, NEW h \in Handlers, Busy(h), NEW role \in RoleNames, Identified(h, role),
         requests[h].token # None, Guarded(requests[h])
  PROVE  RequestsTyped'
<1>1. PICK r \in Request : r = requests[h] /\ Held(r)
  BY Holds
<1>2. CASE r.side = "gateway" /\ Becomes(h, Told(r, role))
  <2>1. PICK e \in Request :
          /\ e = Told(r, role) /\ e.kind = r.kind /\ e.token = r.token /\ e.side = r.side
          /\ e.at = "fingerprint" /\ e.relayed = r.relayed
    BY ToldTypes
  <2>2. Held(e) /\ Settled(e, answers[h])
    BY <1>1, <1>2, <2>1 DEF Held, Settled, Guarded, Outcomes
  <2> QED
    BY <1>2, <2>1, <2>2, MovesTyped
<1> QED
  BY <1>1, <1>2, Ways, PassTyped

\* A request that a guard denies is answered, and leaves the others typed.
LEMMA DenyTyped ==
  ASSUME TypeInv, NEW h \in Handlers, Busy(h), Deny(h)
  PROVE  RequestsTyped'
BY Ways, ConcludeTyped DEF Outcomes, RoleNames

\* What the steps of a request leave alone.
LEMMA GuardsKeepTypes ==
  ASSUME TypeInv, RequestsTyped', UNCHANGED <<now, cache, lost, limiter>>,
         faults' \in 0..MaxFaults
  PROVE  TypeInv'
<1>1. TypeOK'
  BY DEF TypeInv, TypeOK, RequestsTyped, limiter
<1> QED
  BY <1>1 DEF TypeInv, RequestsTyped

\* A request that arrives is typed.
LEMMA ArriveKeepsTypes ==
  ASSUME TypeInv, NEW h \in Handlers, NEW k \in Offered, NEW t \in Tokens \cup {None}, Arrive(h, k, t)
  PROVE  TypeInv'
<1>1. now \in 0..MaxTime /\ begun' \in 0..MaxRequests
  BY DEF TypeInv, TypeOK, Arrive
<1>2. /\ window' \in [Limits -> SUBSET (0..MaxTime)]
      /\ allowed' \in [Limits -> SUBSET (0..MaxTime)]
      /\ faults' \in 0..MaxFaults
  <2>1. PICK b \in BOOLEAN : Limit(k.limit, b)
    BY DEF Arrive
  <2> DEFINE l == k.limit
  <2>2. Counted(l) \cup {now} \subseteq 0..MaxTime \/ l \notin Limits
    BY <1>1 DEF Counted, TypeInv, TypeOK
  <2>3. window' \in [Limits -> SUBSET (0..MaxTime)]
    BY <2>1, <2>2 DEF Limit, TypeInv, TypeOK
  <2>4. allowed' \in [Limits -> SUBSET (0..MaxTime)]
    <3>1. {x \in allowed[l] : x > now - Window} \cup {now} \subseteq 0..MaxTime \/ l \notin Limits
      BY <1>1 DEF TypeInv, TypeOK
    <3> QED
      BY <2>1, <3>1 DEF Limit, TypeInv, TypeOK
  <2>5. faults' \in 0..MaxFaults
    BY <2>1 DEF Limit, TypeInv, TypeOK
  <2> QED
    BY <2>3, <2>4, <2>5
<1>3. RequestsTyped'
  <2>1. CASE Answer(h, "refused")
    BY <2>1, AnswersTyped DEF Answers, Outcomes
  <2> DEFINE r == [kind |-> [k EXCEPT !.limit = "none"], token |-> t, side |-> "gateway",
                   at |-> "guard", role |-> "user", sent |-> now, relayed |-> None]
  <2>2. CASE requests' = [requests EXCEPT ![h] = r] /\ answers' = [answers EXCEPT ![h] = "none"]
    <3>1. r \in Request /\ Held(r) /\ Settled(r, "none")
      BY <1>1 DEF Request, Sides, RoleNames, Held, Settled, Asking, Outcomes
    <3> HIDE DEF r
    <3> QED
      BY <2>2, <3>1, ChangesTyped DEF Answers
  <2> QED
    BY <2>1, <2>2 DEF Arrive
<1> QED
  BY <1>1, <1>2, <1>3 DEF Arrive, TypeInv, TypeOK, RequestsTyped

\* What a guard does first keeps types.
LEMMA GuardKeepsTypes ==
  ASSUME TypeInv, NEW h \in Handlers, Guard(h)
  PROVE  TypeInv'
<1> DEFINE r == requests[h]
<1>1. Busy(h) /\ UNCHANGED <<now, cache, lost, limiter, faults>>
  BY DEF Guard, At
<1>2. r \in Request /\ Held(r) /\ Settled(r, answers[h])
  BY <1>1, Holds
<1>3. RequestsTyped'
  <2>1. CASE Pass(h)
    BY <1>1, <2>1, PassTyped DEF RoleNames
  <2>2. CASE Deny(h)
    BY <1>1, <2>2, DenyTyped
  <2>3. CASE Guarded(r) /\ Shown(r) # None
    <3>1. r.token # None
      BY <2>3 DEF Shown
    <3>2. CASE Known(r) /\ Identified(h, cache[r.side][r.token].role)
      <4>1. cache[r.side][r.token].role \in RoleNames
        BY <1>2, <3>1, <3>2 DEF Known, Request, Entry, TypeInv, TypeOK
      <4> QED
        BY <1>1, <2>3, <3>1, <3>2, <4>1, IdentifiedTyped
    <3>3. CASE Call(h, "validate")
      <4>1. PICK e \in Request :
              /\ e = Asked(r, "validate") /\ e.kind = r.kind /\ e.token = r.token
              /\ e.side = r.side /\ e.at = "validate" /\ e.relayed = r.relayed
        BY <1>2, AskedTypes DEF Asking
      <4>2. Held(e) /\ Settled(e, answers[h])
        BY <1>2, <2>3, <3>1, <4>1 DEF Held, Guarded, Settled, Outcomes
      <4> QED
        BY <3>3, <4>1, <4>2, MovesTyped DEF Call, Asked
    <3> QED
      BY <2>3, <3>2, <3>3 DEF Guard
  <2> QED
    BY <2>1, <2>2, <2>3 DEF Guard
<1>4. faults' \in 0..MaxFaults
  BY <1>1 DEF TypeInv, TypeOK
<1> QED
  BY <1>1, <1>3, <1>4, GuardsKeepTypes

\* The answers of auth, and how they are taken.
LEMMA CallsKeepTypes ==
  ASSUME TypeInv, NEW h \in Handlers,
         ValidateAccess(h) \/ GetInfo(h) \/ Invalid(h) \/ CheckFingerprint(h) \/ CallFails(h)
  PROVE  TypeInv'
<1> DEFINE r == requests[h]
<1>1. Busy(h) /\ UNCHANGED <<now, cache, lost, limiter>> /\ faults' \in 0..MaxFaults
  BY DEF ValidateAccess, GetInfo, Invalid, CheckFingerprint, CallFails, At, TypeInv, TypeOK
<1>2. r \in Request /\ Held(r) /\ Settled(r, answers[h])
  BY <1>1, Holds
<1>3. RequestsTyped'
  <2>1. CASE ValidateAccess(h)
    <3>1. PICK q \in {"no", "info", "yes"} : Becomes(h, [r EXCEPT !.at = q])
      BY <2>1 DEF ValidateAccess
    <3>2. r.at = "validate"
      BY <2>1 DEF ValidateAccess, At
    <3>3. [r EXCEPT !.at = q] \in Request /\ Held([r EXCEPT !.at = q])
      BY <1>2, <3>2 DEF Request, Asking, Outcomes, Held, Guarded
    <3>4. Settled([r EXCEPT !.at = q], answers[h])
      BY <1>2 DEF Settled, Request
    <3> QED
      BY <3>1, <3>3, <3>4, MovesTyped
  <2>2. CASE GetInfo(h)
    <3> DEFINE e == [r EXCEPT !.at = "yes", !.role = Role(r.token)]
    <3>1. r.at = "info" /\ Becomes(h, e)
      BY <2>2 DEF GetInfo, At
    <3>2. Role(r.token) \in RoleNames
      BY DEF Role, RoleNames
    <3>3. /\ e \in Request /\ e.token = r.token /\ e.side = r.side /\ e.kind = r.kind
          /\ e.at = "yes" /\ e.relayed = r.relayed
      BY <1>2, <3>2 DEF Request, Asking
    <3>4. Held(e) /\ Settled(e, answers[h])
      BY <1>2, <3>1, <3>3 DEF Held, Guarded, Settled, Asking, Outcomes
    <3> QED
      BY <3>1, <3>3, <3>4, MovesTyped
  <2>3. CASE Invalid(h) \/ CallFails(h)
    BY <1>1, <2>3, DenyTyped DEF Invalid, CallFails
  <2>4. CASE CheckFingerprint(h)
    <3>1. r.role \in RoleNames
      BY <1>2 DEF Request
    <3>2. PassWithRole(h, r.role) \/ Answer(h, "refused")
      BY <2>4 DEF CheckFingerprint
    <3> QED
      BY <1>1, <3>1, <3>2, PassTyped, AnswersTyped DEF Answers, Outcomes
  <2> QED
    BY <2>1, <2>2, <2>3, <2>4
<1> QED
  BY <1>1, <1>3, GuardsKeepTypes

\* What a guard keeps of an answer is typed.
LEMMA ValidatedKeepsTypes ==
  ASSUME TypeInv, NEW h \in Handlers, Validated(h)
  PROVE  TypeInv'
<1> DEFINE r == requests[h]
<1>1. Busy(h) /\ r.at = "yes" /\ UNCHANGED <<now, lost, limiter, faults>>
  BY DEF Validated, At
<1>2. r \in Request /\ Held(r) /\ r.token \in Tokens
  BY <1>1, Holds DEF Held, Request, Asking
<1>3. RequestsTyped'
  BY <1>1, <1>2, IdentifiedTyped DEF Validated, Held, Request, Asking
<1>4. cache' \in [Sides -> [Tokens -> Entry \cup {None}]]
  <2>1. [role |-> r.role, expires |-> now + CacheTtl] \in Entry
    BY <1>2 DEF Entry, Request, TypeInv, TypeOK
  <2>2. Keep(r) \in [Sides -> [Tokens -> Entry \cup {None}]]
    BY <1>2, <2>1 DEF Keep, Request, TypeInv, TypeOK
  <2> QED
    BY <2>2 DEF Validated, TypeInv, TypeOK
<1> QED
  BY <1>1, <1>3, <1>4 DEF TypeInv, TypeOK, RequestsTyped, limiter

\* An answer that returns ends its request.
LEMMA ReturnKeepsTypes ==
  ASSUME TypeInv, NEW h \in Handlers, Return(h)
  PROVE  TypeInv'
<1>1. requests[h].at \in Answers /\ answers[h] \in Answers
  BY DEF Return, Answers, TypeInv, TypeOK
<1>2. PICK a \in Answers : answers' = [answers EXCEPT ![h] = a]
  <2>1. answers = [answers EXCEPT ![h] = answers[h]]
    BY DEF TypeInv, TypeOK
  <2> QED
    BY <1>1, <2>1 DEF Return
<1>3. RequestsTyped'
  BY <1>2, ChangesTyped DEF Return
<1> QED
  BY <1>3, GuardsKeepTypes DEF Return, TypeInv, TypeOK

\* What the gateway gives up is answered with an error.
LEMMA RelayFailsKeepsTypes ==
  ASSUME TypeInv, NEW h \in Handlers, RelayFails(h)
  PROVE  TypeInv'
<1>1. PICK r \in Request : r = requests[h] /\ Held(r) /\ r.relayed # None
  BY Holds DEF RelayFails, Waits
<1> DEFINE e == [r EXCEPT !.relayed = None]
<1>2. e \in Request /\ Held(e) /\ Settled(e, "failed")
  BY <1>1 DEF Request, Held, Guarded, Settled
<1>3. requests' = [requests EXCEPT ![h] = e] /\ answers' = [answers EXCEPT ![h] = "failed"]
  BY <1>1 DEF RelayFails
<1> HIDE DEF e
<1>4. RequestsTyped'
  BY <1>2, <1>3, ChangesTyped DEF Answers
<1>5. faults' \in 0..MaxFaults /\ UNCHANGED <<now, cache, lost, limiter>>
  BY DEF RelayFails, TypeInv, TypeOK
<1> QED
  BY <1>4, <1>5, GuardsKeepTypes

\* Every step keeps types.
LEMMA TypeNext ==
  ASSUME TypeInv, [Next]_vars
  PROVE  TypeInv'
<1>1. ASSUME NEW h \in Handlers, NEW k \in Offered, NEW t \in Tokens \cup {None}, Arrive(h, k, t)
      PROVE  TypeInv'
  BY <1>1, ArriveKeepsTypes
<1>2. ASSUME NEW h \in Handlers, Moves(h)
      PROVE  TypeInv'
  BY <1>2, GuardKeepsTypes, CallsKeepTypes, ValidatedKeepsTypes, ReturnKeepsTypes,
     RelayFailsKeepsTypes DEF Moves
<1>3. ASSUME NEW t \in Tokens, NEW what \in {"session", "role"}, Lose(t, what)
      PROVE  TypeInv'
  BY <1>3 DEF Lose, TypeInv, TypeOK, Busy, Held, Guarded, Settled, limiter
<1>4. CASE Tick
  BY <1>4 DEF Tick, TypeInv, TypeOK, Busy, Held, Guarded, Settled
<1>5. CASE UNCHANGED vars
  BY <1>5 DEF vars, TypeInv, TypeOK, Busy, Held, Guarded, Settled
<1> QED
  BY <1>1, <1>2, <1>3, <1>4, <1>5 DEF Next, Moves

\* Types: a guard that has asked has been shown a token.
THEOREM TypeCorrect == Spec => []TypeOK
<1>1. Init => TypeInv
  BY TypeInit
<1>2. TypeInv /\ [Next]_vars => TypeInv'
  BY TypeNext
<1>3. TypeInv => TypeOK
  BY DEF TypeInv
<1> QED
  BY <1>1, <1>2, <1>3, PTL DEF Spec

-----------------------------------------------------------------------------
(* The limit *)

\* The instants of the last window at which a limit let requests pass.
Recent(l) == {x \in allowed[l] : x > now - Window}

\* They are among those that it counts.
LimitInv ==
  \A l \in Limits : Recent(l) \subseteq window[l] /\ Cardinality(Recent(l)) <= Max[l]

\* The instants of a window are finitely many.
LEMMA RecentFinite ==
  ASSUME TypeInv, NEW l \in Limits
  PROVE  /\ IsFiniteSet(Counted(l)) /\ Cardinality(Counted(l)) \in Nat
         /\ IsFiniteSet(Recent(l)) /\ Cardinality(Recent(l)) \in Nat
<1>1. IsFiniteSet(0..MaxTime)
  BY FS_Interval
<1>2. Counted(l) \in SUBSET (0..MaxTime) /\ Recent(l) \in SUBSET (0..MaxTime)
  BY DEF Counted, Recent, TypeInv, TypeOK
<1>3. IsFiniteSet(Counted(l)) /\ IsFiniteSet(Recent(l))
  BY <1>1, <1>2, FS_Subset
<1> QED
  BY <1>3, FS_CardinalityType

\* A request is let pass only while its window has room.
LEMMA ArriveKeepsLimit ==
  ASSUME TypeInv, LimitInv, NEW h \in Handlers, NEW k \in Offered, NEW t \in Tokens \cup {None},
         Arrive(h, k, t)
  PROVE  LimitInv'
<1>1. PICK b \in BOOLEAN : Limit(k.limit, b)
  BY DEF Arrive
<1>2. now' = now
  BY DEF Arrive
<1> SUFFICES ASSUME NEW l \in Limits
             PROVE  Recent(l)' \subseteq window'[l] /\ Cardinality(Recent(l)') <= Max[l]
  BY DEF LimitInv
<1>3. CASE window'[l] = window[l] /\ allowed'[l] = allowed[l]
  <2>1. Recent(l)' = Recent(l)
    BY <1>2, <1>3 DEF Recent
  <2> QED
    BY <1>3, <2>1 DEF LimitInv
<1>4. CASE /\ l = k.limit /\ b = Allowed(l)
           /\ window' = [window EXCEPT ![l] = Counted(l) \cup {now}]
           /\ allowed' = IF b
                THEN [allowed EXCEPT ![l] = {x \in @ : x > now - Window} \cup {now}] ELSE allowed
  <2>1. window'[l] = Counted(l) \cup {now}
    BY <1>4 DEF TypeInv, TypeOK
  <2>2. Recent(l) \subseteq Counted(l)
    BY DEF LimitInv, Recent, Counted
  <2>3. CASE b
    <3>1. allowed'[l] = Recent(l) \cup {now}
      BY <1>4, <2>3 DEF Recent, TypeInv, TypeOK
    <3>2. Recent(l)' \subseteq Recent(l) \cup {now}
      BY <1>2, <3>1 DEF Recent
    <3>3. Cardinality(Recent(l)) < Max[l]
      <4> DEFINE c == Cardinality(Recent(l))
                 d == Cardinality(Counted(l))
                 m == Max[l]
      <4>1. c \in Nat /\ d \in Nat /\ m \in Nat
        BY RecentFinite
      <4>2. c <= d
        BY <2>2, RecentFinite, FS_Subset
      <4>3. d < m
        BY <1>4, <2>3 DEF Allowed
      <4> HIDE DEF c, d, m
      <4>4. c < m
        BY <4>1, <4>2, <4>3
      <4> QED
        BY <4>4 DEF c, m
    <3>4. /\ IsFiniteSet(Recent(l) \cup {now})
          /\ Cardinality(Recent(l) \cup {now}) <= Cardinality(Recent(l)) + 1
      <4> DEFINE c == Cardinality(Recent(l))
                 d == Cardinality(Recent(l) \cup {now})
      <4>1. /\ IsFiniteSet(Recent(l) \cup {now})
            /\ d = IF now \in Recent(l) THEN c ELSE c + 1
        BY RecentFinite, FS_AddElement
      <4>2. c \in Nat
        BY RecentFinite
      <4> HIDE DEF c, d
      <4>3. d <= c + 1
        BY <4>1, <4>2
      <4> QED
        BY <4>1, <4>3 DEF c, d
    <3>5. /\ IsFiniteSet(Recent(l)')
          /\ Cardinality(Recent(l)') <= Cardinality(Recent(l) \cup {now})
      BY <3>2, <3>4, FS_Subset
    <3>6. Cardinality(Recent(l)') \in Nat /\ Cardinality(Recent(l) \cup {now}) \in Nat
      BY <3>4, <3>5, FS_CardinalityType
    <3>7. Cardinality(Recent(l)') <= Max[l]
      <4> DEFINE c == Cardinality(Recent(l))
                 d == Cardinality(Recent(l) \cup {now})
                 e == Cardinality(Recent(l)')
                 m == Max[l]
      <4>1. c \in Nat /\ d \in Nat /\ e \in Nat /\ m \in Nat
        BY <3>6, RecentFinite
      <4>2. c < m /\ d <= c + 1 /\ e <= d
        BY <3>3, <3>4, <3>5
      <4> HIDE DEF c, d, e, m
      <4>3. e <= m
        BY <4>1, <4>2
      <4> QED
        BY <4>3 DEF e, m
    <3> QED
      BY <2>1, <2>2, <3>2, <3>7
  <2>4. CASE ~b
    <3>1. Recent(l)' = Recent(l)
      BY <1>2, <1>4, <2>4 DEF Recent
    <3> QED
      BY <2>1, <2>2, <3>1 DEF LimitInv
  <2> QED
    BY <2>3, <2>4
<1>5. \/ window'[l] = window[l] /\ allowed'[l] = allowed[l]
      \/ /\ l = k.limit /\ b = Allowed(l)
         /\ window' = [window EXCEPT ![l] = Counted(l) \cup {now}]
         /\ allowed' = IF b
              THEN [allowed EXCEPT ![l] = {x \in @ : x > now - Window} \cup {now}] ELSE allowed
  <2>1. CASE l = k.limit
    BY <1>1, <2>1 DEF Limit
  <2>2. CASE l # k.limit
    BY <1>1, <2>2 DEF Limit, TypeInv, TypeOK
  <2> QED
    BY <2>1, <2>2
<1> QED
  BY <1>3, <1>4, <1>5

\* Every step keeps the windows within their limits.
LEMMA LimitNext ==
  ASSUME TypeInv, LimitInv, [Next]_vars
  PROVE  LimitInv'
<1>1. ASSUME NEW h \in Handlers, NEW k \in Offered, NEW t \in Tokens \cup {None}, Arrive(h, k, t)
      PROVE  LimitInv'
  BY <1>1, ArriveKeepsLimit
<1>2. CASE UNCHANGED <<now, window, allowed>>
  <2>1. \A l \in Limits : Recent(l)' = Recent(l)
    BY <1>2 DEF Recent
  <2> QED
    BY <1>2, <2>1 DEF LimitInv
<1>3. CASE Tick
  <2> SUFFICES ASSUME NEW l \in Limits
               PROVE  Recent(l)' \subseteq window'[l] /\ Cardinality(Recent(l)') <= Max[l]
    BY DEF LimitInv
  <2>1. Recent(l)' \subseteq Recent(l)
    BY <1>3 DEF Tick, Recent, TypeInv, TypeOK
  <2>2. /\ IsFiniteSet(Recent(l)') /\ Cardinality(Recent(l)') <= Cardinality(Recent(l))
        /\ Cardinality(Recent(l)) <= Max[l]
    BY <2>1, RecentFinite, FS_Subset DEF LimitInv
  <2>3. Cardinality(Recent(l)') \in Nat /\ Cardinality(Recent(l)) \in Nat /\ Max[l] \in Nat
    BY <2>2, RecentFinite, FS_CardinalityType
  <2>4. Cardinality(Recent(l)') <= Max[l]
    <3> DEFINE c == Cardinality(Recent(l))
               e == Cardinality(Recent(l)')
               m == Max[l]
    <3>1. c \in Nat /\ e \in Nat /\ m \in Nat /\ e <= c /\ c <= m
      BY <2>2, <2>3
    <3> HIDE DEF c, e, m
    <3>2. e <= m
      BY <3>1
    <3> QED
      BY <3>2 DEF e, m
  <2> QED
    BY <1>3, <2>1, <2>4 DEF LimitInv, Tick
<1>4. ASSUME NEW h \in Handlers, Moves(h)
      PROVE  UNCHANGED <<now, window, allowed>>
  BY <1>4 DEF Moves, Guard, ValidateAccess, GetInfo, Validated, Invalid, CheckFingerprint, CallFails,
              Return, RelayFails, limiter
<1>5. ASSUME NEW t \in Tokens, NEW what \in {"session", "role"}, Lose(t, what)
      PROVE  UNCHANGED <<now, window, allowed>>
  BY <1>5 DEF Lose, limiter
<1>6. UNCHANGED vars => UNCHANGED <<now, window, allowed>>
  BY DEF vars
<1> QED
  BY <1>1, <1>2, <1>3, <1>4, <1>5, <1>6 DEF Next, Moves

\* While Redis answers, a limit lets requests pass in no more instants of a window than
\* it says.
THEOREM LimitCorrect == Spec => []WithinLimit
<1>1. Init => TypeInv /\ LimitInv
  <2> SUFFICES ASSUME Init, NEW l \in Limits
               PROVE  Recent(l) \subseteq window[l] /\ Cardinality(Recent(l)) <= Max[l]
    BY TypeInit DEF LimitInv
  <2>1. Recent(l) = {}
    BY DEF Init, Recent
  <2> QED
    BY <2>1, FS_EmptySet
<1>2. TypeInv /\ LimitInv /\ [Next]_vars => (TypeInv /\ LimitInv)'
  BY TypeNext, LimitNext
<1>3. LimitInv => WithinLimit
  BY DEF LimitInv, WithinLimit, Recent
<1> QED
  BY <1>1, <1>2, <1>3, PTL DEF Spec

-----------------------------------------------------------------------------
(* What the routes agree on *)

\* Whatever the services guard, the gateway relays with the token.
LEMMA GuardedCarried ==
  ASSUME NEW n, Target(n) \in {"token", "session"}
  PROVE  Carries(n)
<1>1. n \in UNION {AuthDeviceGuarded, AuthSessionGuarded, AuthGuarded, AuthTwoFactorGuarded,
                   UserGuarded, UserSearchGuarded, WalletGuarded, FollowGuarded, FindGuarded,
                   NotificationGuarded}
  BY DEF Target
<1>2. CASE n \in AuthDeviceGuarded \cup AuthGuarded
  <2>1. n \in InfoRelays \cup SessionRelays \cup PasswordRelays
    BY <1>2 DEF AuthDeviceGuarded, AuthGuarded, InfoRelays, SessionRelays, PasswordRelays
  <2>2. n \in InfoCalls \cup SessionCalls \cup DirectCalls
    BY <1>2 DEF AuthDeviceGuarded, AuthGuarded, InfoCalls, SessionCalls, DirectCalls
  <2> QED
    BY <2>1, <2>2 DEF Carries, Relays, Calls
<1>3. CASE n \in AuthSessionGuarded
  <2>1. n \in SessionRelays \cup LogoutRelays
    BY <1>3 DEF AuthSessionGuarded, SessionRelays, LogoutRelays
  <2>2. n \in SessionCalls \cup DirectCalls
    BY <1>3 DEF AuthSessionGuarded, SessionCalls, DirectCalls
  <2> QED
    BY <2>1, <2>2 DEF Carries, Relays, Calls
<1>4. CASE n \in AuthTwoFactorGuarded
  <2>1. n \in TwoFactorRelays /\ n \in TwoFactorCalls
    BY <1>4 DEF AuthTwoFactorGuarded, TwoFactorRelays, TwoFactorCalls
  <2> QED
    BY <2>1 DEF Carries, Relays, Calls
<1>5. CASE n \in UserGuarded \cup UserSearchGuarded
  <2>1. n \in ProfileRelays \cup UsernameRelays \cup EmailRelays \cup SearchRelays
    BY <1>5 DEF UserGuarded, UserSearchGuarded, ProfileRelays, UsernameRelays, EmailRelays,
                SearchRelays
  <2> QED
    BY <2>1 DEF Carries, Relays, Calls, ProfileCalls, AccountCalls, SearchCalls
<1>6. CASE n \in WalletGuarded
  <2>1. n \in LinkRelays \cup PrimaryRelays
    BY <1>6 DEF WalletGuarded, LinkRelays, PrimaryRelays
  <2> QED
    BY <2>1 DEF Carries, Relays, Calls, WalletCalls
<1>7. CASE n \in FollowGuarded \cup FindGuarded
  <2>1. n \in RelationshipRelays
    BY <1>7 DEF FollowGuarded, FindGuarded, RelationshipRelays
  <2>2. n \in FollowCalls \cup BlockCalls \cup FindCalls
    BY <1>7 DEF FollowGuarded, FindGuarded, FollowCalls, BlockCalls, FindCalls
  <2> QED
    BY <2>1, <2>2 DEF Carries, Relays, Calls
<1>8. CASE n \in NotificationGuarded
  BY <1>8 DEF NotificationGuarded, Carries, Relays, Calls, NotificationCalls
<1> QED
  BY <1>1, <1>2, <1>3, <1>4, <1>5, <1>6, <1>7, <1>8

\* The gateway does not guard what a service looks at optionally.
LEMMA OptionalUnguarded ==
  ASSUME NEW r \in Routes, r.name \in Optional
  PROVE  r.guard = "none"
<1>1. r.name = "getUser"
  BY DEF Optional
<1>2. PICK R \in {LoginRoutes, RegisterRoutes, FingerprintRoutes, RefreshRoutes, SessionRoutes,
         SsoRoutes, PasswordRoutes, ForgotPasswordRoutes, DeviceRoutes, InfoRoutes,
         TwoFactorRoutes, TwoFactorLoginRoutes, AuthHealthRoutes, ProfileRoutes, UsernameRoutes,
         EmailRoutes, SearchRoutes, AccountRoutes, WalletLoginRoutes, LinkRoutes, PrimaryRoutes,
         RelationshipUserRoutes, FollowRoutes, BlockRoutes, FindRoutes, InterestRoutes,
         SnapshotRoutes, NotificationRoutes} : r \in R
  BY DEF Routes
<1>3. CASE R \in {LoginRoutes, RegisterRoutes, FingerprintRoutes, RefreshRoutes, SessionRoutes,
         SsoRoutes, PasswordRoutes, ForgotPasswordRoutes, DeviceRoutes, InfoRoutes}
  BY <1>1, <1>2, <1>3 DEF LoginRoutes, RegisterRoutes, FingerprintRoutes, RefreshRoutes,
     SessionRoutes, SsoRoutes, PasswordRoutes, ForgotPasswordRoutes, DeviceRoutes, InfoRoutes, Offer
<1>4. CASE R \in {TwoFactorRoutes, TwoFactorLoginRoutes, AuthHealthRoutes, ProfileRoutes,
         UsernameRoutes, EmailRoutes, SearchRoutes, AccountRoutes, WalletLoginRoutes}
  BY <1>1, <1>2, <1>4 DEF TwoFactorRoutes, TwoFactorLoginRoutes, AuthHealthRoutes, ProfileRoutes,
     UsernameRoutes, EmailRoutes, SearchRoutes, AccountRoutes, WalletLoginRoutes, Offer
<1>5. CASE R \in {LinkRoutes, PrimaryRoutes, RelationshipUserRoutes, FollowRoutes, BlockRoutes,
         FindRoutes, InterestRoutes, SnapshotRoutes, NotificationRoutes}
  BY <1>1, <1>2, <1>5 DEF LinkRoutes, PrimaryRoutes, RelationshipUserRoutes, FollowRoutes,
     BlockRoutes, FindRoutes, InterestRoutes, SnapshotRoutes, NotificationRoutes, Offer
<1> QED
  BY <1>2, <1>3, <1>4, <1>5

\* What the tables of routes have in common.
LEMMA KindFacts ==
  ASSUME NEW r \in Request
  PROVE  /\ r.kind.target = "optional" => r.kind.guard = "none"
         /\ r.kind.target \in {"token", "session"} => r.kind.carries
         /\ r.kind.admin => r.kind.target # "session"
         /\ r.kind.target \in Targets
<1>1. PICK k \in Kinds : r.kind = [k EXCEPT !.limit = "none"]
  BY DEF Request
<1>2. PICK e \in Routes : k = Kind(e)
  BY DEF Kinds
<1>3. /\ r.kind.target = Target(e.name) /\ r.kind.guard = e.guard
      /\ r.kind.carries = Carries(e.name) /\ r.kind.admin = (e.name \in AdminRoutes)
  BY <1>1, <1>2 DEF Kind
<1>4. Target(e.name) = "optional" => e.name \in Optional
  BY DEF Target
<1>5. e.name \in AdminRoutes => Target(e.name) # "session"
  BY DEF AdminRoutes, Target, LocalRoutes, Missing, Optional, AuthDeviceGuarded,
         AuthSessionGuarded, AuthGuarded, AuthTwoFactorGuarded
<1>6. Target(e.name) \in Targets
  BY DEF Target, Targets
<1>7. r.kind.target = "optional" => r.kind.guard = "none"
  BY <1>3, <1>4, OptionalUnguarded
<1>8. r.kind.target \in {"token", "session"} => Carries(e.name)
  BY <1>3, GuardedCarried
<1>9. r.kind.target \in {"token", "session"} => r.kind.carries
  BY <1>3, <1>8, Zenon
<1>10. r.kind.admin => r.kind.target # "session"
  BY <1>3, <1>5, Zenon
<1> QED
  BY <1>3, <1>6, <1>7, <1>9, <1>10

-----------------------------------------------------------------------------
(* What the guards know *)

\* Token t had what it may lose until x, at least.
Had(t, what, x) == lost[t] = None \/ lost[t].what # what \/ lost[t].at >= x

\* It had what a request needs that passes with this role.
Good(t, role, x) ==
  /\ Had(t, "session", x)
  /\ role = "admin" => Had(t, "role", x)

\* The role that a request asks for.
Needed(r) == IF r.kind.admin THEN "admin" ELSE "user"

\* A request is at the gateway's guard for no time, at the call of a guard for Timeout at
\* most, unless it is auth's own, and waited for RelayTimeout at most.
Timely(r) ==
  /\ r.sent <= now
  /\ r.at \in Asking /\ Keeps(r) => now <= r.sent + Timeout
  /\ r.side = "gateway" /\ r.at = "guard" => r.sent = now
  /\ r.relayed # None => r.relayed <= now /\ now <= r.relayed + RelayTimeout

\* The last instant at which what a guard was told is known to have been true.
Informed(r) ==
  /\ r.at \in {"guard", "validate", "info", "no"} \cup Outcomes => r.role = "user"
  /\ r.at = "info" => Keeps(r) /\ Had(r.token, "session", r.sent)
  /\ r.at = "yes" => /\ Good(r.token, r.role, r.sent)
                     /\ Keeps(r) /\ lost[r.token] = None => r.role = "admin"
  /\ r.at = "no" => lost[r.token] # None
  /\ r.at = "fingerprint" => Good(r.token, r.role, r.sent - CacheTtl - Timeout + 1)

\* And what was true of a request that the gateway waits for, as of when it was relayed:
\* by the gateway's guard, by auth's own, by that of another service.
Vouched(r) ==
  /\ r.kind.guard # "none" =>
       r.token # None /\ Good(r.token, Needed(r), r.relayed - CacheTtl - 2 * Timeout + 1)
  /\ r.kind.target = "session" /\ r.at \in {"yes", "served"} =>
       r.token # None /\ Had(r.token, "session", r.relayed)
  /\ r.kind.target = "token" /\ r.at = "served" =>
       r.token # None /\ Good(r.token, Needed(r), r.relayed - CacheTtl - Timeout + 1)

\* All of it.
Dated(r) == Timely(r) /\ Informed(r) /\ (r.relayed # None => Vouched(r))

\* So of what a guard keeps.
Fresh(t, e) ==
  /\ e.expires <= now + CacheTtl
  /\ Good(t, e.role, e.expires - CacheTtl - Timeout)
  /\ lost[t] = None => e.role = "admin"

GuardInv ==
  /\ \A h \in Handlers : Busy(h) => Dated(requests[h])
  /\ \A s \in Sides, t \in Tokens : cache[s][t] # None => Fresh(t, cache[s][t])

CacheKept ==
  \A s \in Sides, t \in Tokens :
    cache'[s][t] # None => cache'[s][t] = cache[s][t] \/ Fresh(t, cache'[s][t])

\* What a busy handler holds.
LEMMA Knows ==
  ASSUME TypeInv, GuardInv, NEW h \in Handlers, Busy(h)
  PROVE  /\ requests[h] \in Request /\ Held(requests[h]) /\ Dated(requests[h])
         /\ now \in Nat /\ requests[h].sent \in Nat
         /\ requests[h].role \in RoleNames /\ requests[h].side \in Sides
         /\ requests[h].token # None => requests[h].token \in Tokens
         /\ requests[h].relayed # None => requests[h].relayed \in Nat
<1>1. requests[h] \in Request /\ Held(requests[h]) /\ Dated(requests[h])
  BY Holds DEF GuardInv
<1>2. now \in Nat
  BY DEF TypeInv, TypeOK
<1> QED
  BY <1>1, <1>2 DEF Request

\* One request moves, or is answered; nothing is lost and no time passes.
LEMMA MovesKeepGuards ==
  ASSUME TypeInv, GuardInv, NEW h \in Handlers, NEW r \in Request \cup {None},
         requests' = [requests EXCEPT ![h] = r], UNCHANGED <<now, lost>>,
         r # None => Dated(r), CacheKept
  PROVE  GuardInv'
<1>1. \A g \in Handlers : requests'[g] = IF g = h THEN r ELSE requests[g]
  BY DEF TypeInv, TypeOK
<1>2. \A g \in Handlers : requests'[g] # None => Dated(requests'[g])
  BY <1>1 DEF GuardInv, Busy
<1>3. \A g \in Handlers : Busy(g)' => Dated(requests[g])'
  BY <1>2 DEF Busy, Dated, Timely, Informed, Vouched, Needed, Good, Had, Keeps
<1>4. \A s \in Sides, t \in Tokens : cache'[s][t] # None => Fresh(t, cache'[s][t])
  BY DEF GuardInv, CacheKept
<1>5. \A s \in Sides, t \in Tokens : (cache[s][t] # None)' => Fresh(t, cache[s][t])'
  BY <1>4 DEF Fresh, Good, Had
<1> QED
  BY <1>3, <1>5 DEF GuardInv

\* A request that the client is answered leaves what is known as it is.
LEMMA AnswersKeepGuards ==
  ASSUME TypeInv, GuardInv, NEW h \in Handlers, NEW a, Answer(h, a), UNCHANGED <<now, lost>>, CacheKept
  PROVE  GuardInv'
BY MovesKeepGuards DEF Answer

\* A loss: what is known to have been true before is so.
LEMMA LoseKeepsGuards ==
  ASSUME TypeInv, GuardInv, NEW t \in Tokens, NEW what \in {"session", "role"}, Lose(t, what)
  PROVE  GuardInv'
<1>1. /\ lost[t] = None /\ UNCHANGED <<now, cache, requests>>
      /\ lost' = [lost EXCEPT ![t] = [what |-> what, at |-> now]]
  BY DEF Lose
<1>2. \A u \in Tokens : lost'[u] = IF u = t THEN [what |-> what, at |-> now] ELSE lost[u]
  BY <1>1 DEF TypeInv, TypeOK
<1>3. lost'[t].at = now /\ now \in Nat
  BY <1>2 DEF TypeInv, TypeOK
<1>4. ASSUME NEW u \in Tokens, NEW w, NEW x \in Int, x <= now, Had(u, w, x)
      PROVE  Had(u, w, x)'
  BY <1>2, <1>3, <1>4 DEF Had
<1>5. ASSUME NEW u \in Tokens, NEW role, NEW x \in Int, x <= now, Good(u, role, x)
      PROVE  Good(u, role, x)'
  BY <1>4, <1>5 DEF Good
<1>6. \A u \in Tokens : lost'[u] = None => lost[u] = None
  BY <1>1, <1>2
<1>7. ASSUME NEW h \in Handlers, Busy(h)
      PROVE  Dated(requests[h])'
  <2>0. PICK r \in Request : r = requests[h]
    BY <1>7, Holds
  <2>1. Held(r) /\ Timely(r) /\ Informed(r) /\ (r.relayed # None => Vouched(r))
    BY <1>7, <2>0, Knows DEF Dated
  <2>2. /\ r.sent \in Nat /\ r.sent <= now /\ (r.token # None => r.token \in Tokens)
        /\ r.relayed # None => r.relayed \in Nat /\ r.relayed <= now
    BY <2>1 DEF Request, Timely
  <2>3. r.sent - CacheTtl - Timeout + 1 \in Int /\ r.sent - CacheTtl - Timeout + 1 <= now
    BY <1>3, <2>2
  <2>4. r.relayed # None =>
          /\ r.relayed - CacheTtl - 2 * Timeout + 1 \in Int
          /\ r.relayed - CacheTtl - 2 * Timeout + 1 <= now
          /\ r.relayed - CacheTtl - Timeout + 1 \in Int
          /\ r.relayed - CacheTtl - Timeout + 1 <= now
    BY <1>3, <2>2
  <2>5. Timely(r)'
    BY <1>1, <2>1 DEF Timely, Keeps
  <2>6. r.at = "info" => Keeps(r) /\ Had(r.token, "session", r.sent)'
    BY <1>4, <2>1, <2>2 DEF Informed, Held, Asking
  <2>7. r.at = "yes" => /\ Good(r.token, r.role, r.sent)'
                        /\ Keeps(r) /\ lost'[r.token] = None => r.role = "admin"
    BY <1>5, <1>6, <2>1, <2>2 DEF Informed, Held, Asking
  <2>8. r.at = "no" => lost'[r.token] # None
    BY <1>6, <2>1, <2>2 DEF Informed, Held, Asking
  <2>9. r.at = "fingerprint" => Good(r.token, r.role, r.sent - CacheTtl - Timeout + 1)'
    BY <1>5, <2>1, <2>2, <2>3 DEF Informed, Held, Asking
  <2>10. r.at \in {"guard", "validate", "info", "no"} \cup Outcomes => r.role = "user"
    BY <2>1 DEF Informed
  <2>11. Informed(r)'
    BY <2>6, <2>7, <2>8, <2>9, <2>10 DEF Informed, Good, Had, Keeps
  <2>12. ASSUME r.relayed # None, r.kind.guard # "none"
         PROVE  r.token # None /\ Good(r.token, Needed(r), r.relayed - CacheTtl - 2 * Timeout + 1)'
    BY <1>5, <2>1, <2>2, <2>4, <2>12 DEF Vouched, Needed
  <2>13. ASSUME r.relayed # None, r.kind.target = "session", r.at \in {"yes", "served"}
         PROVE  r.token # None /\ Had(r.token, "session", r.relayed)'
    BY <1>4, <2>1, <2>2, <2>13 DEF Vouched
  <2>14. ASSUME r.relayed # None, r.kind.target = "token", r.at = "served"
         PROVE  r.token # None /\ Good(r.token, Needed(r), r.relayed - CacheTtl - Timeout + 1)'
    BY <1>5, <2>1, <2>2, <2>4, <2>14 DEF Vouched, Needed
  <2>15. r.relayed # None => Vouched(r)'
    BY <2>12, <2>13, <2>14 DEF Vouched, Needed, Good, Had
  <2>16. Dated(r)'
    BY <2>5, <2>11, <2>15 DEF Dated
  <2> QED
    BY <1>1, <2>0, <2>16 DEF Dated, Timely, Informed, Vouched, Needed, Good, Had, Keeps
<1>8. ASSUME NEW s \in Sides, NEW u \in Tokens, cache[s][u] # None
      PROVE  Fresh(u, cache[s][u])'
  <2>0. PICK e \in Entry : e = cache[s][u]
    BY <1>8 DEF TypeInv, TypeOK
  <2>1. Fresh(u, e)
    BY <1>8, <2>0 DEF GuardInv
  <2>2. e.expires \in Nat /\ e.expires - CacheTtl - Timeout \in Int
        /\ e.expires - CacheTtl - Timeout <= now
    BY <1>3, <2>1 DEF Entry, Fresh
  <2>3. Good(u, e.role, e.expires - CacheTtl - Timeout)'
    BY <1>5, <2>1, <2>2 DEF Fresh
  <2> QED
    BY <1>1, <1>6, <2>0, <2>1, <2>3 DEF Fresh, Good, Had
<1> QED
  BY <1>1, <1>7, <1>8 DEF GuardInv, Busy

\* What is known is one second older, and calls and relays are given up in time.
LEMMA TickKeepsGuards ==
  ASSUME TypeInv, GuardInv, Tick
  PROVE  GuardInv'
<1>1. /\ now' = now + 1 /\ UNCHANGED <<cache, lost, requests>> /\ now \in Nat
      /\ \A h \in Handlers : /\ ~Late(h) /\ ~RelayLate(h)
                             /\ ~(At(h, "guard") /\ requests[h].side = "gateway")
  BY DEF Tick, TypeInv, TypeOK
<1>2. ASSUME NEW h \in Handlers, Busy(h)
      PROVE  Dated(requests[h])'
  <2>1. PICK r \in Request : r = requests[h] /\ Timely(r) /\ Informed(r) /\ (r.relayed # None => Vouched(r))
    BY <1>2, Knows DEF Dated
  <2>2. r.sent \in Nat /\ (r.relayed # None => r.relayed \in Nat)
    BY DEF Request
  <2>3. /\ r.at \in Asking /\ Keeps(r) => now < r.sent + Timeout
        /\ r.relayed # None => now < r.relayed + RelayTimeout
        /\ ~(r.side = "gateway" /\ r.at = "guard")
    BY <1>1, <1>2, <2>1, <2>2 DEF Late, RelayLate, Waits, At
  <2>4. Timely(r)'
    BY <1>1, <2>1, <2>2, <2>3 DEF Timely, Keeps
  <2> QED
    BY <1>1, <2>1, <2>4 DEF Dated, Timely, Informed, Vouched, Needed, Good, Had, Keeps
<1>3. ASSUME NEW s \in Sides, NEW t \in Tokens, cache[s][t] # None
      PROVE  Fresh(t, cache[s][t])'
  <2>1. cache[s][t] \in Entry /\ Fresh(t, cache[s][t])
    BY <1>3 DEF GuardInv, TypeInv, TypeOK
  <2>2. cache[s][t].expires \in Nat
    BY <2>1 DEF Entry
  <2> QED
    BY <1>1, <2>1, <2>2 DEF Fresh, Good, Had
<1> QED
  BY <1>1, <1>2, <1>3 DEF GuardInv, Busy

\* What was true for longer was true for less.
LEMMA GoodBefore ==
  ASSUME TypeInv, NEW t \in Tokens, NEW role, NEW x \in Int, NEW y \in Int, y <= x, Good(t, role, x)
  PROVE  Good(t, role, y)
<1>1. lost[t] # None => lost[t].at \in Nat
  BY DEF TypeInv, TypeOK
<1> QED
  BY <1>1 DEF Good, Had

\* A service's answer was true, if it served the request, when the bounds say.
LEMMA ConcludeKeepsGuards ==
  ASSUME TypeInv, GuardInv, NEW h \in Handlers, Busy(h), NEW a \in Outcomes, Conclude(h, a),
         UNCHANGED <<now, lost>>, CacheKept,
         requests[h].side = "service" /\ requests[h].relayed # None /\ a = "served" =>
           /\ requests[h].kind.target = "session" =>
                requests[h].token # None /\ Had(requests[h].token, "session", requests[h].relayed)
           /\ requests[h].kind.target = "token" =>
                /\ requests[h].token # None
                /\ Good(requests[h].token, Needed(requests[h]),
                        requests[h].relayed - CacheTtl - Timeout + 1)
  PROVE  GuardInv'
<1>1. PICK r \in Request : r = requests[h] /\ Held(r) /\ Timely(r) /\ (r.relayed # None => Vouched(r))
  BY Knows DEF Dated
<1>2. now \in Nat
  BY DEF TypeInv, TypeOK
<1>3. CASE Answer(h, a)
  BY <1>3, AnswersKeepGuards
<1>4. CASE r.side = "service" /\ Becomes(h, Concluded(r, a))
  <2>1. PICK e \in Request :
          /\ e = Concluded(r, a) /\ e.kind = r.kind /\ e.token = r.token /\ e.side = r.side
          /\ e.at = a /\ e.sent = 0 /\ e.role = "user" /\ e.relayed = r.relayed
    BY ConcludedTypes
  <2>2. Timely(e)
    BY <1>1, <1>2, <1>4, <2>1 DEF Timely, Asking, Outcomes
  <2>3. Informed(e)
    BY <2>1 DEF Informed, Outcomes
  <2>4. e.relayed # None => Vouched(e)
    BY <1>1, <1>4, <2>1 DEF Vouched, Needed, Outcomes
  <2> QED
    BY <1>4, <2>1, <2>2, <2>3, <2>4, MovesKeepGuards DEF Becomes, Dated
<1> QED
  BY <1>1, <1>3, <1>4, Ways DEF RoleNames

\* What passes a guard was true when the bounds say.
LEMMA PassKeepsGuards ==
  ASSUME TypeInv, GuardInv, NEW h \in Handlers, Busy(h), NEW role \in RoleNames,
         PassWithRole(h, role), requests[h].token \in Tokens, UNCHANGED <<now, lost>>, CacheKept,
         Good(requests[h].token, role, now - CacheTtl - 2 * Timeout + 1),
         requests[h].side = "service" => Good(requests[h].token, role, now - CacheTtl - Timeout + 1),
         requests[h].side = "service" /\ requests[h].relayed # None
           /\ requests[h].kind.target = "session" => Had(requests[h].token, "session", requests[h].relayed)
  PROVE  GuardInv'
<1>1. PICK r \in Request : r = requests[h] /\ Held(r) /\ Timely(r)
  BY Knows DEF Dated
<1>2. now \in Nat /\ (r.relayed # None => r.relayed \in Nat) /\ now # None
  BY DEF TypeInv, TypeOK, Request
<1>3. CASE Conclude(h, "refused") \/ Conclude(h, "missing")
  BY <1>3, ConcludeKeepsGuards DEF Outcomes
<1>4. CASE Answer(h, "served")
  BY <1>4, AnswersKeepGuards
<1>5. ASSUME NEW x \in Int, Good(r.token, role, x), r.kind.admin => role = "admin"
      PROVE  Good(r.token, Needed(r), x)
  <2>1. CASE r.kind.admin
    BY <1>5, <2>1, Zenon DEF Needed
  <2>2. CASE ~r.kind.admin
    BY <1>5, <2>2 DEF Needed, Good
  <2> QED
    BY <2>1, <2>2
<1>6. CASE r.side = "service" /\ (r.kind.admin => role = "admin") /\ Conclude(h, "served")
  <2>1. ASSUME r.relayed # None
        PROVE  Good(r.token, Needed(r), r.relayed - CacheTtl - Timeout + 1)
    <3>1. r.relayed \in Nat /\ r.relayed <= now
      BY <1>1, <1>2, <2>1 DEF Timely
    <3>2. Good(r.token, role, r.relayed - CacheTtl - Timeout + 1)
      <4>1. /\ now - CacheTtl - Timeout + 1 \in Int /\ r.relayed - CacheTtl - Timeout + 1 \in Int
            /\ r.relayed - CacheTtl - Timeout + 1 <= now - CacheTtl - Timeout + 1
        BY <1>2, <3>1
      <4> QED
        BY <1>1, <1>6, <4>1, GoodBefore
    <3>3. r.relayed - CacheTtl - Timeout + 1 \in Int
      BY <3>1
    <3> QED
      BY <1>5, <1>6, <3>2, <3>3
  <2>2. r.token # None
    BY <1>1
  <2> QED
    BY <1>1, <1>6, <2>1, <2>2, ConcludeKeepsGuards DEF Outcomes
<1>7. CASE (r.kind.admin => role = "admin") /\ Becomes(h, Relayed(r))
  <2>1. PICK e \in Request :
          /\ e = Relayed(r) /\ e.kind = r.kind /\ e.token = r.token /\ e.side = "service"
          /\ e.at = "guard" /\ e.sent = now /\ e.role = "user" /\ e.relayed = now
    BY RelayedTypes
  <2>2. Timely(e)
    BY <1>2, <2>1 DEF Timely, Asking
  <2>3. Informed(e)
    BY <2>1 DEF Informed
  <2>4. Good(r.token, Needed(r), now - CacheTtl - 2 * Timeout + 1)
    <3>1. now - CacheTtl - 2 * Timeout + 1 \in Int
      BY <1>2
    <3> QED
      BY <1>1, <1>5, <1>7, <3>1
  <2>5. Vouched(e)
    BY <1>1, <2>1, <2>4 DEF Vouched, Needed
  <2> QED
    BY <1>7, <2>1, <2>2, <2>3, <2>5, MovesKeepGuards DEF Becomes, Dated
<1> QED
  BY <1>1, <1>3, <1>4, <1>6, <1>7, Ways

\* What a token stood for was true when the bounds say.
LEMMA IdentifiedKeepsGuards ==
  ASSUME TypeInv, GuardInv, NEW h \in Handlers, Busy(h), NEW role \in RoleNames,
         Identified(h, role), requests[h].token \in Tokens, UNCHANGED <<now, lost>>, CacheKept,
         Good(requests[h].token, role, now - CacheTtl - Timeout + 1),
         requests[h].side = "service" /\ requests[h].relayed # None
           /\ requests[h].kind.target = "session" => Had(requests[h].token, "session", requests[h].relayed)
  PROVE  GuardInv'
<1>1. PICK r \in Request : r = requests[h] /\ Held(r)
  BY Holds
<1>2. now \in Nat
  BY DEF TypeInv, TypeOK
<1>3. CASE r.side = "gateway" /\ Becomes(h, Told(r, role))
  <2>1. PICK e \in Request :
          /\ e = Told(r, role) /\ e.kind = r.kind /\ e.token = r.token /\ e.side = r.side
          /\ e.at = "fingerprint" /\ e.sent = now /\ e.role = role /\ e.relayed = r.relayed
    BY ToldTypes
  <2>2. Timely(e)
    BY <1>1, <1>2, <1>3, <2>1 DEF Timely, Held
  <2>3. Informed(e)
    BY <1>1, <2>1 DEF Informed, Outcomes
  <2>4. e.relayed = None
    BY <1>1, <1>3, <2>1 DEF Held
  <2> QED
    BY <1>3, <2>1, <2>2, <2>3, <2>4, MovesKeepGuards DEF Becomes, Dated
<1>4. CASE PassWithRole(h, role)
  <2>1. Good(r.token, role, now - CacheTtl - 2 * Timeout + 1)
    <3>1. /\ now - CacheTtl - 2 * Timeout + 1 \in Int /\ now - CacheTtl - Timeout + 1 \in Int
          /\ now - CacheTtl - 2 * Timeout + 1 <= now - CacheTtl - Timeout + 1
      BY <1>2
    <3> QED
      BY <1>1, <3>1, GoodBefore
  <2> QED
    BY <1>1, <1>4, <2>1, PassKeepsGuards
<1> QED
  BY <1>1, <1>3, <1>4, Ways

\* A guard that denies tells nothing.
LEMMA DenyKeepsGuards ==
  ASSUME TypeInv, GuardInv, NEW h \in Handlers, Busy(h), Deny(h), UNCHANGED <<now, lost, cache>>
  PROVE  GuardInv'
<1>1. CacheKept
  BY DEF CacheKept
<1>2. CASE Conclude(h, "refused")
  BY <1>1, <1>2, ConcludeKeepsGuards DEF Outcomes
<1>3. CASE requests[h].kind.target = "optional" /\ Conclude(h, "served")
  BY <1>1, <1>3, ConcludeKeepsGuards DEF Outcomes
<1> QED
  BY <1>2, <1>3, Ways DEF RoleNames

\* A request that arrives has been told nothing.
LEMMA ArriveKeepsGuards ==
  ASSUME TypeInv, GuardInv, NEW h \in Handlers, NEW k \in Offered, NEW t \in Tokens \cup {None},
         Arrive(h, k, t)
  PROVE  GuardInv'
<1>1. UNCHANGED <<now, cache, lost>> /\ now \in Nat /\ now \in 0..MaxTime /\ CacheKept
  BY DEF Arrive, TypeInv, TypeOK, CacheKept
<1>2. CASE Answer(h, "refused")
  BY <1>1, <1>2, AnswersKeepGuards
<1> DEFINE r == [kind |-> [k EXCEPT !.limit = "none"], token |-> t, side |-> "gateway",
                 at |-> "guard", role |-> "user", sent |-> now, relayed |-> None]
<1>3. CASE requests' = [requests EXCEPT ![h] = r]
  <2>1. r \in Request
    BY <1>1 DEF Request, Sides, RoleNames
  <2>2. Dated(r)
    BY <1>1 DEF Dated, Timely, Informed, Asking, Outcomes
  <2> HIDE DEF r
  <2> QED
    BY <1>1, <1>3, <2>1, <2>2, MovesKeepGuards
<1> QED
  BY <1>2, <1>3 DEF Arrive

\* A guard uses what it keeps only while that is fresh.
LEMMA GuardKeepsGuards ==
  ASSUME TypeInv, GuardInv, NEW h \in Handlers, Guard(h)
  PROVE  GuardInv'
<1>1. Busy(h) /\ requests[h].at = "guard" /\ UNCHANGED <<now, cache, lost>>
  BY DEF Guard, At
<1>2. PICK r \in Request :
        r = requests[h] /\ Held(r) /\ Timely(r) /\ Informed(r) /\ (r.relayed # None => Vouched(r))
  BY <1>1, Knows DEF Dated
<1>3. now \in Nat /\ CacheKept /\ now # None /\ r.side \in Sides
  BY <1>1 DEF CacheKept, TypeInv, TypeOK, Request
<1>4. CASE ~Guarded(r) /\ Pass(h)
  <2>1. CASE r.side = "service" /\ (Conclude(h, "served") \/ Conclude(h, "missing"))
    <3>1. r.kind.target \notin {"token", "session"}
      BY <1>4, <2>1 DEF Guarded
    <3> QED
      BY <1>1, <1>2, <1>3, <2>1, <3>1, ConcludeKeepsGuards DEF Outcomes
  <2>2. CASE Answer(h, "served")
    BY <1>1, <1>3, <2>2, AnswersKeepGuards
  <2>3. CASE r.side = "gateway" /\ Becomes(h, Relayed(r))
    <3>1. PICK e \in Request :
            /\ e = Relayed(r) /\ e.kind = r.kind /\ e.side = "service"
            /\ e.at = "guard" /\ e.sent = now /\ e.role = "user" /\ e.relayed = now
      BY RelayedTypes
    <3>2. e.kind.guard = "none"
      BY <1>4, <2>3, <3>1 DEF Guarded
    <3>3. Timely(e) /\ Informed(e) /\ Vouched(e)
      BY <1>3, <3>1, <3>2 DEF Timely, Informed, Vouched, Asking
    <3> QED
      BY <1>1, <1>3, <2>3, <3>1, <3>3, MovesKeepGuards DEF Becomes, Dated
  <2> QED
    BY <1>1, <1>2, <1>4, <2>1, <2>2, <2>3, Ways DEF RoleNames
<1>5. CASE Deny(h)
  BY <1>1, <1>5, DenyKeepsGuards
<1>6. CASE Shown(r) # None /\ Known(r) /\ Identified(h, cache[r.side][r.token].role)
  <2>1. r.token \in Tokens /\ ~(r.side = "service" /\ r.kind.target = "session")
    BY <1>6 DEF Shown, Request, Known, Keeps
  <2>2. PICK e \in Entry : e = cache[r.side][r.token] /\ Fresh(r.token, e) /\ e.expires > now
    BY <1>3, <1>6, <2>1 DEF Known, GuardInv, TypeInv, TypeOK
  <2>3. e.role \in RoleNames /\ e.expires \in Nat
    BY DEF Entry
  <2>4. Good(r.token, e.role, now - CacheTtl - Timeout + 1)
    <3>1. Good(r.token, e.role, e.expires - CacheTtl - Timeout)
      BY <2>2 DEF Fresh
    <3> QED
      BY <1>3, <2>1, <2>2, <2>3, <3>1, GoodBefore
  <2> QED
    BY <1>1, <1>2, <1>3, <1>6, <2>1, <2>2, <2>3, <2>4, IdentifiedKeepsGuards
<1>7. CASE Call(h, "validate")
  <2>1. PICK e \in Request :
          /\ e = Asked(r, "validate") /\ e.kind = r.kind /\ e.token = r.token /\ e.side = r.side
          /\ e.at = "validate" /\ e.sent = now /\ e.role = r.role /\ e.relayed = r.relayed
    BY AskedTypes DEF Asking
  <2>2. e.role = "user"
    BY <1>1, <1>2, <2>1 DEF Informed
  <2>3. Timely(e) /\ Informed(e)
    BY <1>2, <1>3, <2>1, <2>2 DEF Timely, Informed, Outcomes
  <2>4. e.relayed # None => Vouched(e)
    BY <1>2, <2>1 DEF Vouched, Needed
  <2> QED
    BY <1>1, <1>2, <1>3, <1>7, <2>1, <2>3, <2>4, MovesKeepGuards DEF Call, Becomes, Asked, Dated
<1> QED
  BY <1>2, <1>4, <1>5, <1>6, <1>7 DEF Guard

\* What a call answers is true when it is sent, at the earliest.
LEMMA CallsKeepGuards ==
  ASSUME TypeInv, GuardInv, NEW h \in Handlers,
         ValidateAccess(h) \/ GetInfo(h) \/ Invalid(h) \/ CheckFingerprint(h) \/ CallFails(h)
  PROVE  GuardInv'
<1>1. Busy(h) /\ UNCHANGED <<now, cache, lost>>
  BY DEF ValidateAccess, GetInfo, Invalid, CheckFingerprint, CallFails, At
<1>2. PICK r \in Request :
        r = requests[h] /\ Held(r) /\ Timely(r) /\ Informed(r) /\ (r.relayed # None => Vouched(r))
  BY <1>1, Knows DEF Dated
<1>3. now \in Nat /\ CacheKept /\ r.sent \in Nat /\ (r.relayed # None => r.relayed \in Nat)
  BY <1>1 DEF CacheKept, TypeInv, TypeOK, Request
<1>4. CASE ValidateAccess(h)
  <2>1. PICK q \in {"no", "info", "yes"} :
          /\ Becomes(h, [r EXCEPT !.at = q])
          /\ q = "no" => ~Has(r.token, "session")
          /\ q # "no" => Has(r.token, "session")
          /\ q = "yes" => ~Keeps(r)
          /\ q = "info" => Keeps(r)
    <3>1. CASE ~Has(r.token, "session")
      BY <1>2, <1>4, <3>1 DEF ValidateAccess
    <3>2. CASE Has(r.token, "session") /\ Keeps(r)
      BY <1>2, <1>4, <3>2 DEF ValidateAccess
    <3>3. CASE Has(r.token, "session") /\ ~Keeps(r)
      BY <1>2, <1>4, <3>3 DEF ValidateAccess
    <3> QED
      BY <3>1, <3>2, <3>3
  <2> DEFINE f == [r EXCEPT !.at = q]
  <2>2. PICK e \in Request :
          /\ e = f /\ e.at = q /\ e.sent = r.sent /\ e.role = r.role /\ e.relayed = r.relayed
          /\ e.token = r.token /\ e.side = r.side /\ e.kind = r.kind
    <3>1. q \in Asking
      BY DEF Asking
    <3>2. f \in Request
      BY <3>1 DEF Request
    <3>3. /\ f.at = q /\ f.sent = r.sent /\ f.role = r.role /\ f.relayed = r.relayed
          /\ f.token = r.token /\ f.side = r.side /\ f.kind = r.kind
      BY DEF Request
    <3> HIDE DEF f
    <3> QED
      BY <3>2, <3>3
  <2>3. r.role = "user" /\ r.at = "validate" /\ r.token # None
    BY <1>2, <1>4 DEF ValidateAccess, At, Informed, Held, Asking
  <2>4. q # "no" => Had(r.token, "session", r.sent) /\ Had(r.token, "session", r.relayed)
    BY <2>1 DEF Has, Had
  <2>5. q = "no" => lost[r.token] # None
    BY <2>1 DEF Has
  <2>6. Keeps(e) <=> Keeps(r)
    BY <2>2 DEF Keeps
  <2>7. Timely(e)
    BY <1>2, <2>2, <2>3, <2>6 DEF Timely, Asking
  <2>8. Informed(e)
    BY <2>1, <2>2, <2>3, <2>4, <2>5, <2>6 DEF Informed, Good, Outcomes
  <2>9. e.relayed # None => Vouched(e)
    BY <1>2, <2>2, <2>3, <2>4 DEF Vouched, Needed
  <2> QED
    BY <1>1, <1>3, <2>1, <2>2, <2>7, <2>8, <2>9, MovesKeepGuards DEF Becomes, Dated
<1>5. CASE GetInfo(h)
  <2>1. r.at = "info" /\ Becomes(h, [r EXCEPT !.at = "yes", !.role = Role(r.token)])
    BY <1>2, <1>5 DEF GetInfo, At
  <2>2. Role(r.token) \in RoleNames
    BY DEF Role, RoleNames
  <2> DEFINE f == [r EXCEPT !.at = "yes", !.role = Role(r.token)]
  <2>3. PICK e \in Request :
          /\ e = f /\ e.at = "yes" /\ e.sent = r.sent /\ e.role = Role(r.token)
          /\ e.token = r.token /\ e.side = r.side /\ e.kind = r.kind /\ e.relayed = r.relayed
    <3>1. f \in Request
      BY <2>2 DEF Request, Asking
    <3>2. /\ f.at = "yes" /\ f.sent = r.sent /\ f.role = Role(r.token) /\ f.token = r.token
          /\ f.side = r.side /\ f.kind = r.kind /\ f.relayed = r.relayed
      BY DEF Request
    <3> HIDE DEF f
    <3> QED
      BY <3>1, <3>2
  <2>4. Good(e.token, e.role, e.sent)
    BY <1>2, <2>1, <2>3 DEF Informed, Good, Role, Has, Had
  <2>5. lost[e.token] = None => e.role = "admin"
    BY <2>3 DEF Role, Has
  <2>6. Keeps(r)
    BY <1>2, <2>1 DEF Informed
  <2>7. Timely(e) /\ Informed(e)
    BY <1>2, <2>1, <2>3, <2>4, <2>5 DEF Timely, Informed, Keeps, Asking, Outcomes
  <2>8. e.relayed # None => Vouched(e)
    BY <1>2, <2>3, <2>6 DEF Vouched, Needed, Keeps, Held
  <2> QED
    BY <1>1, <1>3, <2>1, <2>3, <2>7, <2>8, MovesKeepGuards DEF Becomes, Dated
<1>6. CASE Invalid(h) \/ CallFails(h)
  BY <1>1, <1>6, DenyKeepsGuards DEF Invalid, CallFails
<1>7. CASE CheckFingerprint(h)
  <2>1. CASE Answer(h, "refused")
    BY <1>1, <1>3, <2>1, AnswersKeepGuards
  <2>2. CASE PassWithRole(h, r.role)
    <3>1. /\ r.at = "fingerprint" /\ r.token \in Tokens /\ r.role \in RoleNames
          /\ r.side = "gateway"
      BY <1>2, <1>7 DEF CheckFingerprint, At, Held, Request, Asking
    <3>2. Good(r.token, r.role, r.sent - CacheTtl - Timeout + 1)
      BY <1>2, <3>1 DEF Informed
    <3>3. now <= r.sent + Timeout
      BY <1>2, <3>1 DEF Timely, Asking, Keeps
    <3>4. Good(r.token, r.role, now - CacheTtl - 2 * Timeout + 1)
      <4>1. now - CacheTtl - 2 * Timeout + 1 <= r.sent - CacheTtl - Timeout + 1
        BY <1>3, <3>3
      <4> QED
        BY <1>3, <3>1, <3>2, <4>1, GoodBefore
    <3> QED
      BY <1>1, <1>2, <1>3, <2>2, <3>1, <3>4, PassKeepsGuards
  <2> QED
    BY <1>2, <1>7, <2>1, <2>2 DEF CheckFingerprint
<1> QED
  BY <1>4, <1>5, <1>6, <1>7

\* What a guard keeps was true when its call was sent.
LEMMA ValidatedKeepsGuards ==
  ASSUME TypeInv, GuardInv, NEW h \in Handlers, Validated(h)
  PROVE  GuardInv'
<1>1. Busy(h) /\ requests[h].at = "yes" /\ UNCHANGED <<now, lost>>
  BY DEF Validated, At
<1>2. PICK r \in Request :
        r = requests[h] /\ Held(r) /\ Timely(r) /\ Informed(r) /\ (r.relayed # None => Vouched(r))
  BY <1>1, Knows DEF Dated
<1>3. /\ now \in Nat /\ r.sent \in Nat /\ r.sent <= now /\ r.role \in RoleNames
      /\ Keeps(r) => now <= r.sent + Timeout
  BY <1>1, <1>2 DEF TypeInv, TypeOK, Request, Timely, Asking
<1>4. r.token \in Tokens /\ r.side \in Sides /\ Good(r.token, r.role, r.sent)
  BY <1>1, <1>2 DEF Held, Informed, Request, Asking
<1>5. CacheKept
  <2>1. CASE cache' = cache
    BY <2>1 DEF CacheKept
  <2>2. CASE Keeps(r) /\ cache' = Keep(r)
    <3> DEFINE e == [role |-> r.role, expires |-> now + CacheTtl]
    <3>1. Good(r.token, r.role, now - Timeout)
      BY <1>3, <1>4, <2>2, GoodBefore
    <3>2. e.expires - CacheTtl - Timeout = now - Timeout /\ e.expires <= now + CacheTtl
      BY <1>3
    <3>3. lost[r.token] = None => r.role = "admin"
      BY <1>1, <1>2, <2>2 DEF Informed
    <3>4. Fresh(r.token, e)
      BY <3>1, <3>2, <3>3 DEF Fresh
    <3>5. \A s \in Sides, t \in Tokens :
            cache'[s][t] = IF s = r.side /\ t = r.token THEN e ELSE cache[s][t]
      BY <1>4, <2>2 DEF Keep, TypeInv, TypeOK
    <3> QED
      BY <3>4, <3>5 DEF CacheKept
  <2> QED
    BY <1>2, <2>1, <2>2 DEF Validated
<1>6. CASE Keeps(r)
  <2>1. Good(r.token, r.role, now - CacheTtl - Timeout + 1)
    <3>1. now - CacheTtl - Timeout + 1 <= r.sent
      BY <1>3, <1>6
    <3> QED
      BY <1>3, <1>4, <3>1, GoodBefore
  <2>2. ~(r.side = "service" /\ r.kind.target = "session")
    BY <1>6 DEF Keeps
  <2> QED
    BY <1>1, <1>2, <1>3, <1>4, <1>5, <2>1, <2>2, IdentifiedKeepsGuards DEF Validated
\* auth's own guard: the request asks for no role, and has been relayed, if it has been at
\* all, before the session was looked at.
<1>7. CASE ~Keeps(r)
  <2>1. r.side = "service" /\ r.kind.target = "session" /\ ~r.kind.admin
    BY <1>4, <1>7, KindFacts DEF Keeps, Sides
  <2>2. Conclude(h, "served")
    <3>1. Identified(h, r.role)
      BY <1>2 DEF Validated
    <3>2. PassWithRole(h, r.role)
      BY <1>2, <2>1, <3>1 DEF Identified
    <3>3. Pass(h)
      BY <1>2, <2>1, <3>2 DEF PassWithRole
    <3> QED
      BY <1>2, <2>1, <3>3 DEF Pass
  <2>3. r.relayed # None => r.token # None /\ Had(r.token, "session", r.relayed)
    BY <1>1, <1>2, <2>1 DEF Vouched
  <2> QED
    BY <1>1, <1>2, <1>5, <2>1, <2>2, <2>3, ConcludeKeepsGuards DEF Outcomes
<1> QED
  BY <1>6, <1>7

\* An answer that returns ends what is known of its request.
LEMMA ReturnKeepsGuards ==
  ASSUME TypeInv, GuardInv, NEW h \in Handlers, Return(h)
  PROVE  GuardInv'
BY MovesKeepGuards DEF Return, CacheKept

\* What the gateway gives up it no longer dates.
LEMMA RelayFailsKeepsGuards ==
  ASSUME TypeInv, GuardInv, NEW h \in Handlers, RelayFails(h)
  PROVE  GuardInv'
<1>1. Busy(h) /\ UNCHANGED <<now, lost>> /\ CacheKept
  BY DEF RelayFails, Waits, CacheKept
<1>2. PICK r \in Request : r = requests[h] /\ Timely(r) /\ Informed(r)
  BY <1>1, Knows DEF Dated
<1> DEFINE f == [r EXCEPT !.relayed = None]
<1>3. PICK e \in Request :
        /\ e = f /\ e.kind = r.kind /\ e.token = r.token
        /\ e.side = r.side /\ e.at = r.at /\ e.sent = r.sent /\ e.role = r.role
        /\ e.relayed = None
  <2>1. /\ f \in Request /\ f.kind = r.kind /\ f.token = r.token /\ f.side = r.side
        /\ f.at = r.at /\ f.sent = r.sent /\ f.role = r.role /\ f.relayed = None
    BY DEF Request
  <2> HIDE DEF f
  <2> QED
    BY <2>1
<1>4. Keeps(e) <=> Keeps(r)
  BY <1>3 DEF Keeps
<1>5. Timely(e) /\ Informed(e)
  BY <1>2, <1>3, <1>4 DEF Timely, Informed
<1>6. requests' = [requests EXCEPT ![h] = e]
  BY <1>2, <1>3 DEF RelayFails
<1> QED
  BY <1>1, <1>3, <1>5, <1>6, MovesKeepGuards DEF Dated

\* Every step keeps the dates of what is known.
LEMMA GuardNext ==
  ASSUME TypeInv, GuardInv, [Next]_vars
  PROVE  GuardInv'
<1>1. ASSUME NEW h \in Handlers, NEW k \in Offered, NEW t \in Tokens \cup {None}, Arrive(h, k, t)
      PROVE  GuardInv'
  BY <1>1, ArriveKeepsGuards
<1>2. ASSUME NEW h \in Handlers, Moves(h)
      PROVE  GuardInv'
  BY <1>2, GuardKeepsGuards, CallsKeepGuards, ValidatedKeepsGuards, ReturnKeepsGuards,
     RelayFailsKeepsGuards DEF Moves
<1>3. ASSUME NEW t \in Tokens, NEW what \in {"session", "role"}, Lose(t, what)
      PROVE  GuardInv'
  BY <1>3, LoseKeepsGuards
<1>4. CASE UNCHANGED vars
  BY <1>4 DEF vars, GuardInv, Busy, Dated, Timely, Informed, Vouched, Needed, Fresh, Good, Had, Keeps
<1> QED
  BY <1>1, <1>2, <1>3, <1>4, TickKeepsGuards DEF Next, Moves

GuardSpecInv == TypeInv /\ GuardInv

\* At first nothing is known.
LEMMA GuardInit ==
  ASSUME Init
  PROVE  GuardInv
BY DEF Init, GuardInv, Busy

-----------------------------------------------------------------------------
(* What a request is answered with *)

\* The request that a step changes is the one that the step is of.
LEMMA OneMoves ==
  ASSUME TypeInv, NEW g \in Handlers, Moves(g)
  PROVE  \A h \in Handlers : h # g => requests'[h] = requests[h]
<1>1. Busy(g) /\ requests[g] \in Request
  BY Holds DEF Moves, Guard, ValidateAccess, GetInfo, Validated, Invalid, CheckFingerprint,
               CallFails, Return, RelayFails, Waits, At
<1>2. ASSUME NEW e, requests' = [requests EXCEPT ![g] = e]
      PROVE  \A h \in Handlers : h # g => requests'[h] = requests[h]
  BY <1>2 DEF TypeInv, TypeOK
<1>3. \A e : Becomes(g, e) => \A h \in Handlers : h # g => requests'[h] = requests[h]
  BY <1>2 DEF Becomes
<1>4. \A a : Answer(g, a) => \A h \in Handlers : h # g => requests'[h] = requests[h]
  BY <1>2 DEF Answer
<1>5. \A a : Conclude(g, a) => \A h \in Handlers : h # g => requests'[h] = requests[h]
  BY <1>3, <1>4 DEF Conclude
<1>6. Pass(g) => \A h \in Handlers : h # g => requests'[h] = requests[h]
  BY <1>1, <1>3, <1>4, <1>5, Ways DEF RoleNames
<1>7. \A role : PassWithRole(g, role) => \A h \in Handlers : h # g => requests'[h] = requests[h]
  BY <1>5, <1>6 DEF PassWithRole
<1>8. \A role : Identified(g, role) => \A h \in Handlers : h # g => requests'[h] = requests[h]
  BY <1>3, <1>7 DEF Identified
<1>9. Deny(g) => \A h \in Handlers : h # g => requests'[h] = requests[h]
  BY <1>5 DEF Deny
<1>10. CASE Guard(g)
  BY <1>3, <1>6, <1>8, <1>9, <1>10, Zenon DEF Guard, Call
<1>11. CASE ValidateAccess(g) \/ GetInfo(g)
  BY <1>3, <1>11, Zenon DEF ValidateAccess, GetInfo
<1>12. CASE Validated(g) \/ CheckFingerprint(g)
  BY <1>4, <1>7, <1>8, <1>12, Zenon DEF Validated, CheckFingerprint
<1>13. CASE Invalid(g) \/ CallFails(g)
  BY <1>9, <1>13, Zenon DEF Invalid, CallFails
<1>14. CASE Return(g) \/ RelayFails(g)
  BY <1>14 DEF Return, RelayFails, TypeInv, TypeOK
<1> QED
  BY <1>10, <1>11, <1>12, <1>13, <1>14 DEF Moves

\* So a request changes only by a step of its own.
LEMMA OwnStep ==
  ASSUME TypeInv, [Next]_vars, NEW h \in Handlers, Busy(h), requests'[h] # requests[h]
  PROVE  Moves(h)
<1>1. ASSUME NEW g \in Handlers, NEW k \in Offered, NEW t \in Tokens \cup {None}, Arrive(g, k, t)
      PROVE  FALSE
  <2>1. g # h
    BY <1>1 DEF Arrive
  <2>2. \E e : requests' = [requests EXCEPT ![g] = e]
    BY <1>1 DEF Arrive, Answer
  <2> QED
    BY <2>1, <2>2 DEF TypeInv, TypeOK
<1>2. ASSUME NEW g \in Handlers, Moves(g)
      PROVE  Moves(h)
  BY <1>2, OneMoves
<1>3. ~(\E t \in Tokens, what \in {"session", "role"} : Lose(t, what)) /\ ~Tick /\ ~UNCHANGED vars
  BY DEF Lose, Tick, vars
<1> QED
  BY <1>1, <1>2, <1>3 DEF Next, Moves

\* A request of which the client or the gateway has just been told a.
Ended(h, a) == IF requests'[h] = None THEN answers'[h] = a ELSE requests'[h].at = a

\* What a guard ends a request with.
LEMMA Ends ==
  ASSUME TypeInv, NEW h \in Handlers, Busy(h), NEW a \in {"served", "refused"}, Ended(h, a),
         NEW role \in RoleNames
  PROVE  /\ Pass(h) =>
              a = "served" /\ (requests[h].side = "service" \/ requests[h].kind.target = "local")
         /\ PassWithRole(h, role) =>
              \/ requests[h].kind.admin /\ role # "admin" /\ a = "refused"
              \/ (requests[h].kind.admin => role = "admin") /\ Pass(h)
         /\ Identified(h, role) => PassWithRole(h, role)
         /\ Deny(h) => \/ a = "refused"
                       \/ requests[h].side = "service" /\ requests[h].kind.target = "optional"
         /\ Deny(h) /\ requests[h].side = "service" /\ requests[h].kind.target = "optional" =>
              a = "served"
         /\ ~Call(h, "validate")
<1>1. PICK r \in Request : r = requests[h]
  BY Holds
<1>2. ASSUME NEW b, Answer(h, b)
      PROVE  b = a
  BY <1>2 DEF Answer, Ended, TypeInv, TypeOK
<1>3. ASSUME NEW e \in Request, Becomes(h, e)
      PROVE  e.at = a
  BY <1>3 DEF Becomes, Ended, TypeInv, TypeOK
<1>4. /\ Relayed(r) \in Request /\ Relayed(r).at = "guard"
      /\ Told(r, role) \in Request /\ Told(r, role).at = "fingerprint"
      /\ Asked(r, "validate") \in Request /\ Asked(r, "validate").at = "validate"
      /\ \A b \in Outcomes : Concluded(r, b) \in Request /\ Concluded(r, b).at = b
  BY RelayedTypes, ToldTypes, AskedTypes, ConcludedTypes DEF Asking
<1>5. ~Becomes(h, Relayed(r)) /\ ~Becomes(h, Told(r, role)) /\ ~Becomes(h, Asked(r, "validate"))
  BY <1>3, <1>4
<1>6. ASSUME NEW b \in Outcomes, Conclude(h, b)
      PROVE  b = a
  BY <1>1, <1>2, <1>3, <1>4, <1>6, Ways
<1>7. ~Call(h, "validate")
  BY <1>1, <1>5 DEF Call, Asked
<1>8. Pass(h) => a = "served" /\ (requests[h].side = "service" \/ requests[h].kind.target = "local")
  BY <1>1, <1>2, <1>5, <1>6, Ways DEF Outcomes
<1>9. PassWithRole(h, role) =>
        \/ requests[h].kind.admin /\ role # "admin" /\ a = "refused"
        \/ (requests[h].kind.admin => role = "admin") /\ Pass(h)
  BY <1>6, Ways DEF Outcomes
<1>10. Identified(h, role) => PassWithRole(h, role)
  BY <1>1, <1>5, Ways
<1>11. Deny(h) => \/ a = "refused"
                  \/ requests[h].side = "service" /\ requests[h].kind.target = "optional"
  BY <1>6, Ways DEF Outcomes
<1>12. Deny(h) /\ requests[h].side = "service" /\ requests[h].kind.target = "optional" => a = "served"
  BY <1>6 DEF Deny, Outcomes
<1> QED
  BY <1>7, <1>8, <1>9, <1>10, <1>11, <1>12

\* Rights that a request needs and that were there at x were lost after.
LEMMA LostAfter ==
  ASSUME TypeInv, NEW r \in Request, r.token \in Tokens, NEW role, NEW x \in Int,
         Good(r.token, role, x), r.kind.admin => role = "admin", Unentitled(r)
  PROVE  lost[r.token].at \in Nat /\ lost[r.token].at >= x
<1>1. lost[r.token] # None
  BY DEF Unentitled, Has
<1>2. lost[r.token].at \in Nat
  BY <1>1 DEF TypeInv, TypeOK
<1>3. CASE ~Has(r.token, "session")
  <2>1. Had(r.token, "session", x) /\ lost[r.token].what = "session"
    BY <1>3 DEF Good, Has
  <2> QED
    BY <1>1, <1>2, <2>1 DEF Had
<1>4. CASE r.kind.admin /\ ~Has(r.token, "role")
  <2>1. role = "admin"
    BY <1>4, Zenon
  <2>2. Had(r.token, "role", x) /\ lost[r.token].what = "role"
    BY <1>4, <2>1 DEF Good, Has
  <2> QED
    BY <1>1, <1>2, <2>2 DEF Had
<1> QED
  BY <1>2, <1>3, <1>4 DEF Unentitled

\* Of a request that loses its rights: a guard is on the way.
Protected(r) == r.kind.guard # "none" \/ r.kind.target \in {"token", "session"}

\* How long after the loss a guard still lets pass what it answers itself.
Delay(r) == IF r.kind.target = "local" THEN CacheTtl + 2 * Timeout - 1 ELSE CacheTtl + Timeout - 1

\* The steps of a guard that may end a request.
GuardStep(h) == Guard(h) \/ Validated(h) \/ Invalid(h) \/ CheckFingerprint(h) \/ CallFails(h)

\* The role that a guard keeps, or has been told, is one.
LEMMA KnownRole ==
  ASSUME TypeInv, NEW r \in Request, Known(r), r.token # None
  PROVE  cache[r.side][r.token].role \in RoleNames
<1>1. r.side \in Sides /\ r.token \in Tokens
  BY DEF Request
<1> QED
  BY <1>1 DEF Known, Entry, TypeInv, TypeOK

\* A service's guard does not answer the client.
LEMMA GatewayAnswers ==
  ASSUME TypeInv, NEW h \in Handlers, Busy(h), GuardStep(h), requests'[h] = None
  PROVE  requests[h].side = "gateway"
<1>1. PICK r \in Request : r = requests[h] /\ Held(r) /\ r.side \in Sides /\ r.role \in RoleNames
  BY Holds DEF Request
<1> SUFFICES ASSUME r.side = "service" PROVE FALSE
  BY <1>1 DEF Sides
<1>2. ASSUME NEW e \in Request, Becomes(h, e)
      PROVE  FALSE
  BY <1>2 DEF Becomes, TypeInv, TypeOK
<1>3. /\ ~Becomes(h, Asked(r, "validate"))
      /\ \A b \in Outcomes : ~Becomes(h, Concluded(r, b))
  <2>1. Asked(r, "validate") \in Request /\ \A b \in Outcomes : Concluded(r, b) \in Request
    BY AskedTypes, ConcludedTypes DEF Asking
  <2> QED
    BY <1>2, <2>1
<1>4. \A b \in Outcomes : ~Conclude(h, b)
  BY <1>1, <1>3, Ways DEF RoleNames
<1>5. ~Deny(h) /\ ~Pass(h)
  BY <1>1, <1>4, Ways DEF RoleNames, Outcomes
<1>6. \A role \in RoleNames : ~PassWithRole(h, role) /\ ~Identified(h, role)
  BY <1>1, <1>4, <1>5, Ways DEF Outcomes
<1>7. ~Call(h, "validate")
  BY <1>1, <1>3 DEF Call, Asked
<1>8. ~Guard(h)
  BY <1>1, <1>5, <1>6, <1>7, KnownRole DEF Guard, Shown
<1>9. ~CheckFingerprint(h)
  BY <1>1 DEF CheckFingerprint, At, Held
<1> QED
  BY <1>1, <1>5, <1>6, <1>8, <1>9 DEF GuardStep, Validated, Invalid, CallFails

\* What a guard serves it serves itself.
LEMMA ServesItself ==
  ASSUME TypeInv, NEW h \in Handlers, Busy(h), GuardStep(h), Ended(h, "served"),
         requests[h].side = "gateway"
  PROVE  requests[h].kind.target = "local"
<1>1. PICK r \in Request : r = requests[h] /\ Held(r) /\ r.role \in RoleNames
  BY Holds DEF Request
<1> SUFFICES ASSUME r.kind.target # "local" PROVE FALSE
  BY <1>1
<1>2. ~Deny(h) /\ ~Pass(h) /\ ~Call(h, "validate")
  BY <1>1, Ends DEF RoleNames
<1>3. \A role \in RoleNames : ~PassWithRole(h, role) /\ ~Identified(h, role)
  BY <1>2, Ends
<1>4. ~Guard(h)
  BY <1>1, <1>2, <1>3, KnownRole DEF Guard, Shown
<1>5. ~Answer(h, "refused")
  BY DEF Answer, Ended, TypeInv, TypeOK
<1> QED
  BY <1>1, <1>2, <1>3, <1>4, <1>5 DEF GuardStep, Validated, Invalid, CallFails, CheckFingerprint

\* A guard that serves a request whose rights are lost does so in time.
LEMMA PassesSoon ==
  ASSUME TypeInv, GuardInv, NEW h \in Handlers, Busy(h), GuardStep(h),
         Ended(h, "served"), Protected(requests[h]), Unentitled(requests[h]),
         requests[h].kind.target \in {"token", "local"}
  PROVE  now <= lost[requests[h].token].at + Delay(requests[h])
<1>1. PICK r \in Request : r = requests[h] /\ Held(r) /\ Timely(r) /\ Informed(r)
  BY Knows DEF Dated
<1>2. /\ now \in Nat /\ r.sent \in Nat /\ r.role \in RoleNames /\ r.side \in Sides
      /\ r.token \in Tokens /\ Keeps(r)
  BY <1>1 DEF TypeInv, TypeOK, Request, Unentitled, Keeps
<1>3. ~Deny(h)
  BY <1>1, Ends DEF RoleNames
<1>4. ASSUME NEW role \in RoleNames, PassWithRole(h, role)
      PROVE  r.kind.admin => role = "admin"
  BY <1>1, <1>4, Ends
<1>5. ASSUME NEW role \in RoleNames, PassWithRole(h, role) \/ Pass(h)
      PROVE  r.side = "service" \/ r.kind.target = "local"
  BY <1>1, <1>5, Ends
\* Passed with what was true at x.
<1>6. ASSUME NEW role \in RoleNames, NEW x \in Int, Good(r.token, role, x),
             r.kind.admin => role = "admin", now <= x + Delay(r)
      PROVE  now <= lost[r.token].at + Delay(r)
  <2>1. lost[r.token].at \in Nat /\ lost[r.token].at >= x
    BY <1>1, <1>2, <1>6, LostAfter
  <2>2. Delay(r) \in Int
    BY DEF Delay
  <2> QED
    BY <1>2, <1>6, <2>1, <2>2
<1>7. CASE Guard(h)
  <2>1. ASSUME ~Guarded(r), Pass(h)
        PROVE  FALSE
    <3>1. r.side = "service" \/ r.kind.target = "local"
      BY <1>5, <2>1 DEF RoleNames
    <3> QED
      BY <1>1, <1>2, <2>1, <3>1 DEF Guarded, Protected, Held, Sides
  <2>2. CASE Known(r) /\ Identified(h, cache[r.side][r.token].role)
    <3>1. PICK e \in Entry : e = cache[r.side][r.token] /\ Fresh(r.token, e) /\ e.expires > now
      BY <1>2, <2>2 DEF Known, GuardInv, TypeInv, TypeOK
    <3>2. e.role \in RoleNames /\ e.expires \in Nat
      BY DEF Entry
    <3>3. PassWithRole(h, e.role)
      BY <2>2, <3>1, <3>2, Ends
    <3>4. Good(r.token, e.role, e.expires - CacheTtl - Timeout)
      BY <3>1 DEF Fresh
    <3>5. now <= (e.expires - CacheTtl - Timeout) + Delay(r)
      BY <1>2, <3>1, <3>2 DEF Delay
    <3> QED
      BY <1>1, <1>2, <1>4, <1>6, <3>2, <3>3, <3>4, <3>5
  <2> QED
    BY <1>1, <1>3, <1>7, <2>1, <2>2, Ends DEF Guard, RoleNames
<1>8. CASE Validated(h)
  <2>1. r.at = "yes" /\ PassWithRole(h, r.role)
    BY <1>1, <1>2, <1>8, Ends DEF Validated, At
  <2>2. Good(r.token, r.role, r.sent)
    BY <1>1, <2>1 DEF Informed
  <2>3. now <= r.sent + Delay(r)
    <3>1. now <= r.sent + Timeout
      BY <1>1, <1>2, <2>1 DEF Timely, Asking
    <3> QED
      BY <1>2, <3>1 DEF Delay
  <2> QED
    BY <1>1, <1>2, <1>4, <1>6, <2>1, <2>2, <2>3
<1>9. CASE CheckFingerprint(h)
  <2>0. ~Answer(h, "refused")
    BY DEF Answer, Ended, TypeInv, TypeOK
  <2>1. r.at = "fingerprint" /\ PassWithRole(h, r.role)
    BY <1>1, <1>9, <2>0 DEF CheckFingerprint, At
  <2>2. Good(r.token, r.role, r.sent - CacheTtl - Timeout + 1)
    BY <1>1, <2>1 DEF Informed
  <2>3. r.kind.target = "local"
    BY <1>1, <1>2, <1>5, <2>1 DEF Held
  <2>4. now <= (r.sent - CacheTtl - Timeout + 1) + Delay(r)
    <3>1. now <= r.sent + Timeout
      BY <1>1, <1>2, <2>1 DEF Timely, Asking
    <3> QED
      BY <1>2, <2>3, <3>1 DEF Delay
  <2> QED
    BY <1>1, <1>2, <1>4, <1>6, <2>1, <2>2, <2>4
<1>10. ~Invalid(h) /\ ~CallFails(h)
  BY <1>3 DEF Invalid, CallFails
<1> QED
  BY <1>1, <1>7, <1>8, <1>9, <1>10 DEF GuardStep

\* The client gets a service's answer in time.
LEMMA ReturnsSoon ==
  ASSUME TypeInv, GuardInv, NEW h \in Handlers, Return(h), answers'[h] = "served",
         Protected(requests[h]), Unentitled(requests[h])
  PROVE  now <= lost[requests[h].token].at + Allowance(requests[h].kind.target)
<1>1. Busy(h)
  BY DEF Return
<1>2. PICK r \in Request :
        /\ r = requests[h] /\ Held(r) /\ Timely(r) /\ (r.relayed # None => Vouched(r))
        /\ Settled(r, answers[h]) /\ r.at \in Outcomes
  BY <1>1, Knows, Holds DEF Dated, Return
<1>3. Waits(h) /\ r.relayed # None /\ r.at = "served"
  <2>1. Waits(h)
    <3> SUFFICES ASSUME ~Waits(h) PROVE FALSE
      OBVIOUS
    <3>1. answers[h] = "failed"
      BY <1>1, <1>2 DEF Waits, Settled, Held
    <3> QED
      BY <3>1 DEF Return
  <2> QED
    BY <1>2, <2>1 DEF Return, Waits, TypeInv, TypeOK
<1>4. /\ now \in Nat /\ r.relayed \in Nat /\ now <= r.relayed + RelayTimeout /\ r.token \in Tokens
      /\ r.kind.target # "local"
  BY <1>2, <1>3 DEF TypeInv, TypeOK, Request, Timely, Unentitled, Held
<1>5. r.kind.admin => Needed(r) = "admin"
  BY DEF Needed
<1>6. CASE r.kind.target = "session"
  <2>1. ~r.kind.admin /\ Had(r.token, "session", r.relayed)
    BY <1>2, <1>3, <1>6, KindFacts DEF Vouched
  <2>2. Good(r.token, "user", r.relayed)
    BY <2>1 DEF Good
  <2>3. r.relayed \in Int
    BY <1>4
  <2>4. lost[r.token].at \in Nat /\ lost[r.token].at >= r.relayed
    BY <1>2, <1>4, <2>1, <2>2, <2>3, LostAfter
  <2> QED
    BY <1>2, <1>4, <1>6, <2>4 DEF Allowance
<1>7. CASE r.kind.target = "token"
  <2> DEFINE x == r.relayed - CacheTtl - Timeout + 1
  <2>1. Good(r.token, Needed(r), x) /\ x \in Int
    BY <1>2, <1>3, <1>4, <1>7 DEF Vouched
  <2>2. lost[r.token].at \in Nat /\ lost[r.token].at >= x
    <3> HIDE DEF x
    <3> QED
      BY <1>2, <1>4, <1>5, <2>1, LostAfter
  <2> QED
    BY <1>2, <1>4, <1>7, <2>2 DEF Allowance
<1>8. CASE r.kind.target \notin {"session", "token"}
  <2> DEFINE x == r.relayed - CacheTtl - 2 * Timeout + 1
  <2>1. Good(r.token, Needed(r), x) /\ x \in Int
    BY <1>2, <1>3, <1>4, <1>8 DEF Vouched, Protected
  <2>2. lost[r.token].at \in Nat /\ lost[r.token].at >= x
    <3> HIDE DEF x
    <3> QED
      BY <1>2, <1>4, <1>5, <2>1, LostAfter
  <2>3. Allowance(r.kind.target) = CacheTtl + 2 * Timeout - 1 + RelayTimeout
    BY <1>4, <1>8 DEF Allowance
  <2> QED
    BY <1>2, <1>4, <2>2, <2>3
<1> QED
  BY <1>6, <1>7, <1>8

\* The steps that end a request, at the gateway or at the service.
LEMMA EndsAtGuard ==
  ASSUME TypeInv, [Next]_vars, NEW h \in Handlers, Busy(h), requests'[h] # requests[h],
         NEW a \in {"served", "refused"}, Ended(h, a), requests'[h] # None => requests[h].at # a
  PROVE  GuardStep(h) \/ (requests'[h] = None /\ Return(h))
<1>1. PICK r \in Request : r = requests[h]
  BY Holds
<1>2. ASSUME NEW e \in Request, requests' = [requests EXCEPT ![h] = e]
      PROVE  e.at = a /\ requests'[h] # None
  BY <1>2 DEF Ended, TypeInv, TypeOK
<1>3. ~ValidateAccess(h)
  <2> SUFFICES ASSUME ValidateAccess(h) PROVE FALSE
    OBVIOUS
  <2>1. PICK q \in {"no", "info", "yes"} : Becomes(h, [r EXCEPT !.at = q])
    BY <1>1 DEF ValidateAccess
  <2>2. [r EXCEPT !.at = q] \in Request /\ [r EXCEPT !.at = q].at = q
    BY DEF Request, Asking
  <2> QED
    BY <1>2, <2>1, <2>2 DEF Becomes
<1>4. ~GetInfo(h)
  <2> SUFFICES ASSUME GetInfo(h) PROVE FALSE
    OBVIOUS
  <2>1. PICK role \in RoleNames : Becomes(h, [r EXCEPT !.at = "yes", !.role = role])
    BY <1>1 DEF GetInfo, Role, RoleNames
  <2>2. /\ [r EXCEPT !.at = "yes", !.role = role] \in Request
        /\ [r EXCEPT !.at = "yes", !.role = role].at = "yes"
    BY DEF Request, Asking
  <2> QED
    BY <1>2, <2>1, <2>2 DEF Becomes
<1>5. ~RelayFails(h)
  <2> SUFFICES ASSUME RelayFails(h) PROVE FALSE
    OBVIOUS
  <2>1. requests' = [requests EXCEPT ![h] = [r EXCEPT !.relayed = None]]
    BY <1>1 DEF RelayFails
  <2>2. [r EXCEPT !.relayed = None] \in Request /\ [r EXCEPT !.relayed = None].at = r.at
    BY DEF Request
  <2> QED
    BY <1>1, <1>2, <2>1, <2>2
<1>6. Return(h) => requests'[h] = None
  BY DEF Return, TypeInv, TypeOK
<1> QED
  BY <1>3, <1>4, <1>5, <1>6, OwnStep DEF Moves, GuardStep

\* What ServedInTime says of one request.
LEMMA ServedSoon ==
  ASSUME TypeInv, GuardInv, [Next]_vars, NEW h \in Handlers, Busy(h),
         Protected(requests[h]), Unentitled(requests[h])
  PROVE  /\ requests'[h] = None /\ answers'[h] = "served" =>
              now <= lost[requests[h].token].at + Allowance(requests[h].kind.target)
         /\ /\ requests[h].kind.target = "token" /\ requests[h].at # "served"
            /\ requests'[h] # None /\ requests'[h].at = "served"
            => now <= lost[requests[h].token].at + CacheTtl + Timeout - 1
<1>1. PICK r \in Request : r = requests[h] /\ Held(r) /\ r.side \in Sides
  BY Knows
<1>2. ASSUME requests'[h] = None, answers'[h] = "served"
      PROVE  now <= lost[r.token].at + Allowance(r.kind.target)
  <2>1. requests'[h] # requests[h] /\ Ended(h, "served")
    BY <1>2 DEF Busy, Ended
  <2>2. CASE Return(h)
    BY <1>1, <1>2, <2>2, ReturnsSoon
  <2>3. CASE ~Return(h)
    <3>1. GuardStep(h)
      BY <1>1, <1>2, <2>1, <2>3, EndsAtGuard
    <3>2. r.side = "gateway"
      BY <1>1, <1>2, <3>1, GatewayAnswers
    <3>3. r.kind.target = "local"
      BY <1>1, <2>1, <3>1, <3>2, ServesItself
    <3> QED
      BY <1>1, <2>1, <3>1, <3>3, PassesSoon DEF Delay, Allowance
  <2> QED
    BY <2>2, <2>3
<1>3. ASSUME r.kind.target = "token", r.at # "served", requests'[h] # None, requests'[h].at = "served"
      PROVE  now <= lost[r.token].at + CacheTtl + Timeout - 1
  <2>1. requests'[h] # requests[h] /\ Ended(h, "served")
    BY <1>1, <1>3 DEF Ended
  <2>2. GuardStep(h)
    BY <1>1, <1>3, <2>1, EndsAtGuard
  <2>3. now <= lost[r.token].at + Delay(r)
    BY <1>1, <1>3, <2>1, <2>2, PassesSoon
  <2>4. Delay(r) = CacheTtl + Timeout - 1 /\ r.token \in Tokens
    BY <1>1, <1>3 DEF Delay, Unentitled, Request
  <2>5. lost[r.token].at \in Nat
    BY <1>1, <2>4 DEF Unentitled, Has, TypeInv, TypeOK
  <2> QED
    BY <2>3, <2>4, <2>5
<1> QED
  BY <1>1, <1>2, <1>3

\* ServedInTime: no client is answered with rights that were lost longer ago than the
\* calls, the relay and the five minutes of a guard account for, and no service acts on
\* them later than its own guard's.
THEOREM ServedCorrect == Spec => ServedInTime
<1>1. Init => GuardSpecInv
  BY TypeInit, GuardInit DEF GuardSpecInv
<1>2. GuardSpecInv /\ [Next]_vars => GuardSpecInv'
  BY TypeNext, GuardNext DEF GuardSpecInv
<1>3. GuardSpecInv /\ [Next]_vars =>
        [\A h \in Handlers :
           LET r == requests[h]
               target == r.kind.target
           IN
           Busy(h) /\ (r.kind.guard # "none" \/ target \in {"token", "session"}) /\ Unentitled(r) =>
             /\ requests'[h] = None /\ answers'[h] = "served" =>
                  now <= lost[r.token].at + Allowance(target)
             /\ target = "token" /\ r.at # "served" /\ requests'[h] # None /\ requests'[h].at = "served" =>
                  now <= lost[r.token].at + CacheTtl + Timeout - 1]_vars
  BY ServedSoon DEF GuardSpecInv, Protected
<1> QED
  BY <1>1, <1>2, <1>3, PTL DEF Spec, ServedInTime

\* A service refuses a good token only for a failed or late call.
LEMMA GoodServed ==
  ASSUME TypeInv, GuardInv, [Next]_vars, NEW h \in Handlers, Busy(h),
         requests[h].side = "service", requests[h].at # "refused", requests[h].token # None,
         lost[requests[h].token] = None, requests'[h] # None, requests'[h].at = "refused"
  PROVE  faults' # faults \/ Late(h)
<1>1. PICK r \in Request : r = requests[h] /\ Held(r) /\ Informed(r)
  BY Knows DEF Dated
<1>2. r.token \in Tokens /\ r.role \in RoleNames /\ r.side = "service" /\ Ended(h, "refused")
  BY <1>1 DEF Request, Ended
<1>3. ~Pass(h)
  BY <1>2, Ends DEF RoleNames
<1>4. ASSUME NEW role \in RoleNames, PassWithRole(h, role)
      PROVE  r.kind.admin /\ role # "admin"
  BY <1>1, <1>2, <1>3, <1>4, Ends
<1>5. CASE Guard(h)
  <2>1. Guarded(r)
    BY <1>1, <1>3, <1>5 DEF Guard
  <2>2. CASE Shown(r) = None /\ Deny(h)
    <3>1. ~r.kind.carries
      BY <1>1, <1>2, <2>2 DEF Shown
    <3>2. r.kind.target = "optional"
      BY <1>2, <2>1, <3>1, KindFacts DEF Guarded
    <3> QED
      BY <1>1, <1>2, <2>2, <3>2, Ends DEF RoleNames
  <2>3. CASE Known(r) /\ Identified(h, cache[r.side][r.token].role)
    <3>1. PICK e \in Entry : e = cache[r.side][r.token] /\ Fresh(r.token, e)
      BY <1>2, <2>3 DEF Known, Sides, GuardInv, TypeInv, TypeOK
    <3>2. e.role \in RoleNames /\ e.role = "admin"
      BY <1>1, <3>1 DEF Entry, Fresh
    <3> QED
      BY <1>2, <1>4, <2>3, <3>1, <3>2, Ends
  <2> QED
    BY <1>1, <1>2, <1>5, <2>1, <2>2, <2>3, Ends DEF Guard, RoleNames
<1>6. CASE Validated(h)
  <2>1. r.at = "yes" /\ r.kind.admin /\ r.role # "admin"
    BY <1>1, <1>2, <1>4, <1>6, Ends DEF Validated, At
  <2>2. r.kind.target # "session"
    BY <2>1, KindFacts
  <2> QED
    BY <1>1, <2>1, <2>2 DEF Informed, Keeps
<1>7. ~Invalid(h) /\ ~CheckFingerprint(h)
  BY <1>1, <1>2 DEF Invalid, CheckFingerprint, At, Held, Informed
<1>8. CASE CallFails(h)
  BY <1>8 DEF CallFails, TypeInv, TypeOK
<1>9. GuardStep(h)
  BY <1>1, <1>2, EndsAtGuard
<1> QED
  BY <1>1, <1>5, <1>6, <1>7, <1>8, <1>9 DEF GuardStep

\* GoodTokenServed: a service's guard refuses no request with a good token but for a
\* call that failed or took too long.
THEOREM GoodTokenCorrect == Spec => GoodTokenServed
<1>1. Init => GuardSpecInv
  BY TypeInit, GuardInit DEF GuardSpecInv
<1>2. GuardSpecInv /\ [Next]_vars => GuardSpecInv'
  BY TypeNext, GuardNext DEF GuardSpecInv
<1>3. GuardSpecInv /\ [Next]_vars =>
        [\A h \in Handlers :
           /\ Busy(h) /\ requests[h].side = "service" /\ requests[h].at # "refused"
           /\ requests[h].token # None /\ lost[requests[h].token] = None
           /\ requests'[h] # None /\ requests'[h].at = "refused"
           => faults' # faults \/ Late(h)]_vars
  BY GoodServed DEF GuardSpecInv
<1> QED
  BY <1>1, <1>2, <1>3, PTL DEF Spec, GoodTokenServed

=============================================================================
