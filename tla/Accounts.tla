------------------------------ MODULE Accounts ------------------------------
(***************************************************************************)
(* Accounts and the codes sent by email: registration and passwords        *)
(* (apps/auth), changes of username and of email address, deactivation     *)
(* (apps/user), and the email worker that sends the codes.                 *)
(*                                                                         *)
(* Each change goes through two or three requests joined by a code in      *)
(* Redis.  One action is one query to Redis or MongoDB (HTTP calls between *)
(* the services included) with what follows up to the next await; a        *)
(* request begins at its first query.  Requests refused there are left     *)
(* out.                                                                    *)
(***************************************************************************)
EXTENDS Integers, Sequences, FiniteSets

CONSTANTS
  Handlers,     \* requests that can be in progress at once
  Names,        \* usernames
  Emails,       \* addresses
  None,         \* no request, no registration data
  MaxUsers,     \* bound: users
  MaxRequests,  \* bound: requests begun
  MaxFaults     \* bound: failed queries, killed instances, lost emails

Operations ==
  {"register", "resend", "verifyRegister", "askPassword", "forgotPassword",
   "changePassword", "askUsername", "changeUsername", "askEmail", "newEmail",
   "verifyNewEmail", "setActive"}

Queries ==
  {"existsName", "setInfo", "getInfo", "setCode", "delCode", "exists", "delInfo",
   "create", "getCode", "update", "saveActive"}

Kinds == {"register", "password", "username", "email", "newEmail"}

\* Requests are numbered, and a code has the number of the request that made it;
\* 0 is long ago.
Number == 0..MaxRequests
UserNumber == 0..MaxUsers

\* email: the address in its value, or its user's; to: where it is mailed.
Code == [kind : Kinds, n : Number, user : UserNumber, email : Emails, to : Emails]

User ==
  [name : Names, email : Emails, active : BOOLEAN,
   password : {"registered", "changed"},
   changes : Nat,   \* history: username changes in 30 days
   early : Nat]    \* history: codes asked for before the first of them

Request ==
  [op : Operations, at : Queries, n : Number, user : UserNumber,
   name : Names \cup {None}, email : Emails \cup {None}, code : Code \cup {None},
   info : Names \cup {None}]

ASSUME AccountsAssumption ==
  /\ None \notin Names \cup Emails \cup Code \cup Request
  /\ MaxUsers \in Nat \ {0}
  /\ MaxRequests \in Nat
  /\ MaxFaults \in Nat

VARIABLES
  users,     \* MongoDB: the users, in the order of their creation
  pending,   \* Redis: register_info by email, of which the username matters
  codes,     \* Redis: the codes of all kinds
  outbox,    \* RabbitMQ: codes to be mailed
  inbox,     \* codes that have arrived
  requests,  \* what each handler is doing
  begun,     \* requests begun so far
  faults,    \* failures so far
  uses,      \* history: the changes each code has made
  shared,    \* history: codes that two requests had in hand at once
  verified,  \* history: addresses verified by a registration's code
  excused    \* history: those whose registration expired, failed or lost its name,
             \* and those an account has left

vars == <<users, pending, codes, outbox, inbox, requests, begun, faults,
          uses, shared, verified, excused>>
redis == <<pending, codes>>
mail == <<outbox, inbox>>
history == <<uses, shared, verified, excused>>

TypeOK ==
  /\ users \in Seq(User)
  /\ Len(users) <= MaxUsers
  /\ pending \in [Emails -> Names \cup {None}]
  /\ codes \subseteq Code
  /\ outbox \subseteq Code
  /\ inbox \subseteq Code
  /\ requests \in [Handlers -> Request \cup {None}]
  /\ begun \in 0..MaxRequests
  /\ faults \in 0..MaxFaults
  /\ uses \in [Number -> Nat]
  /\ shared \subseteq Number
  /\ verified \subseteq Emails
  /\ excused \subseteq Emails

Busy(h) == requests[h] # None
At(h, q) == Busy(h) /\ requests[h].at = q
Becomes(h, r) == requests' = [requests EXCEPT ![h] = r]
Goto(h, q) == Becomes(h, [requests[h] EXCEPT !.at = q])
Return(h) == Becomes(h, None)

Fault == faults < MaxFaults /\ faults' = faults + 1
Uid == DOMAIN users

\* MongoDB's unique indexes.
NameTaken(x) == \E u \in Uid : users[u].name = x
EmailTaken(e) == \E u \in Uid : users[u].email = e

NewUser(x, e) ==
  [name |-> x, email |-> e, active |-> TRUE, password |-> "registered",
   changes |-> 0, early |-> 0]

\* No user, or one who registered long ago.
Init ==
  /\ \/ users = <<>> /\ inbox = {}
     \/ \E x \in Names, e \in Emails :
          /\ users = <<NewUser(x, e)>>
          /\ inbox = {[kind |-> "register", n |-> 0, user |-> 0, email |-> e, to |-> e]}
  /\ pending = [e \in Emails |-> None]
  /\ codes = {} /\ outbox = {}
  /\ requests = [h \in Handlers |-> None]
  /\ begun = 0
  /\ faults = 0
  /\ uses = [n \in Number |-> 0]
  /\ shared = {} /\ verified = {} /\ excused = {}

-----------------------------------------------------------------------------
(* Requests begin *)

Blank == [op |-> "resend", at |-> "setCode", n |-> begun + 1, user |-> 0,
          name |-> None, email |-> None, code |-> None, info |-> None]

BeginAs(h, r) ==
  /\ ~Busy(h)
  /\ begun < MaxRequests
  /\ begun' = begun + 1
  /\ Becomes(h, r)
  /\ UNCHANGED <<redis, mail, faults, verified, excused>>

Begin(h, r) == BeginAs(h, r) /\ UNCHANGED <<users, uses, shared>>

\* A request has read code c: do others have it in hand?
Hold(h, c) ==
  shared' = IF \E g \in Handlers \ {h} : Busy(g) /\ requests[g].code = c
                                         /\ ~At(g, "getCode")
            THEN shared \cup {c.n} ELSE shared

\* emailVerificationRegister, registerInfo: the two queries run one after the
\* other.
BeginRegister(h) == \E x \in Names, e \in Emails :
  /\ ~EmailTaken(e)
  /\ Begin(h, [Blank EXCEPT !.op = "register", !.at = "existsName", !.name = x, !.email = e])

\* sendEmailVerification, called again by the client.
BeginResend(h) == \E e \in Emails :
  /\ pending[e] # None
  /\ Begin(h, [Blank EXCEPT !.email = e, !.info = pending[e]])

\* The code is read; requests with a user must be of the user it was made for.
BeginWithCode(h, op, kind, q) == \E c \in inbox \cap codes :
  /\ c.kind = kind
  /\ BeginAs(h, [Blank EXCEPT !.op = op, !.at = q, !.user = c.user, !.code = c, !.email = c.email])
  /\ Hold(h, c)
  /\ UNCHANGED <<users, uses>>

BeginVerifyRegister(h) == BeginWithCode(h, "verifyRegister", "register", "delCode")
BeginVerifyNewEmail(h) == BeginWithCode(h, "verifyNewEmail", "newEmail", "delCode")
BeginForgotPassword(h) == BeginWithCode(h, "forgotPassword", "password", "delCode")

BeginAskPassword(h) == \E u \in Uid :
  Begin(h, [Blank EXCEPT !.op = "askPassword", !.user = u, !.email = users[u].email])

\* changePassword, with the right old password.
BeginChangePassword(h) == \E u \in Uid :
  Begin(h, [Blank EXCEPT !.op = "changePassword", !.at = "update", !.user = u])

AskUsername(h, u) ==
  /\ BeginAs(h, [Blank EXCEPT !.op = "askUsername", !.user = u, !.email = users[u].email])
  /\ users' = [users EXCEPT ![u].early = @ + (IF users[u].changes = 0 THEN 1 ELSE 0)]
  /\ UNCHANGED <<uses, shared>>

\* Faulty: the cooldown is not looked at.
BeginAskUsernameAnytime(h) == \E u \in Uid : AskUsername(h, u)

\* changeUsernameInitiate: not within 30 days of the last change.
BeginAskUsername(h) == \E u \in Uid : users[u].changes = 0 /\ AskUsername(h, u)

\* changeUsername looks at the user first, and not at the cooldown.
BeginChangeUsername(h) == \E u \in Uid, x \in Names, c \in inbox :
  /\ c.kind = "username"
  /\ x # users[u].name
  /\ Begin(h, [Blank EXCEPT !.op = "changeUsername", !.at = "getCode", !.user = u,
                            !.name = x, !.code = c])

BeginAskEmail(h) == \E u \in Uid :
  Begin(h, [Blank EXCEPT !.op = "askEmail", !.user = u, !.email = users[u].email])

BeginNewEmail(h) == \E u \in Uid, e \in Emails, c \in inbox :
  /\ c.kind = "email"
  /\ e # users[u].email
  /\ Begin(h, [Blank EXCEPT !.op = "newEmail", !.at = "exists", !.user = u,
                            !.email = e, !.code = c])

BeginSetActive(h) == \E u \in Uid :
  Begin(h, [Blank EXCEPT !.op = "setActive", !.at = "saveActive", !.user = u])

-----------------------------------------------------------------------------
(* Codes *)

CodeOf(h) ==
  LET r == requests[h]
      kind == CASE r.op \in {"register", "resend"} -> "register"
                [] r.op = "askPassword" -> "password"
                [] r.op = "askUsername" -> "username"
                [] r.op = "askEmail" -> "email"
                [] r.op = "newEmail" -> "newEmail"
  IN [kind |-> kind, n |-> r.n, user |-> r.user, email |-> r.email, to |-> r.email]

Send(h, c) ==
  /\ At(h, "setCode")
  /\ codes' = codes \cup {c}
  /\ outbox' = outbox \cup {c}
  /\ Return(h)
  /\ UNCHANGED <<users, pending, inbox, begun, faults, history>>

\* Faulty: the code for a new address goes to the address the user has.
SetCodeForOld(h) ==
  Send(h, IF requests[h].op = "newEmail"
          THEN [CodeOf(h) EXCEPT !.to = users[requests[h].user].email] ELSE CodeOf(h))

\* sendEmailVerification of either service, sendNewEmailVerification: the code is
\* kept and its mail asked for.
SetCode(h) == Send(h, CodeOf(h))

\* verifyUsernameCode and verifyEmailCode, for changeUsername and
\* sendNewEmailVerify.  The latter then deletes a key that does not exist
\* (NEW_EMAIL_CHANGE for EMAIL_CHANGE): its code remains.  That a code has expired
\* shows when it is read; one that nobody reads again may as well have.
GetCode(h) ==
  LET r == requests[h]
      good == r.code \in codes /\ r.code.user = r.user
      new == r.op = "newEmail"
  IN
  /\ At(h, "getCode")
  /\ \/ ~good /\ Return(h) /\ UNCHANGED <<codes, shared>>
     \/ codes' = codes \ {r.code} /\ Return(h) /\ UNCHANGED shared
     \/ good /\ new /\ Goto(h, "setCode") /\ UNCHANGED <<codes, shared>>
     \/ good /\ ~new /\ Goto(h, "delCode") /\ Hold(h, r.code) /\ UNCHANGED codes
  /\ UNCHANGED <<users, pending, mail, begun, faults, uses, verified, excused>>

AfterDelCode(h) ==
  LET r == requests[h] IN
  /\ \/ r.op = "verifyRegister" /\ Goto(h, "getInfo")
     \/ r.op \in {"changeUsername", "verifyNewEmail", "forgotPassword"} /\ Goto(h, "update")
     \/ r.op = "forgotPassword" /\ Return(h)
  /\ verified' = IF r.op = "verifyRegister" THEN verified \cup {r.email} ELSE verified
  /\ UNCHANGED <<users, mail, begun, faults, uses, shared, excused>>

\* Faulty: the code stays, as that of an email change does.
DelCodeNever(h) == At(h, "delCode") /\ AfterDelCode(h) /\ UNCHANGED redis

\* Faulty: what was registered goes with the code.
DelCodeAndInfo(h) ==
  /\ At(h, "delCode")
  /\ codes' = codes \ {requests[h].code}
  /\ pending' = [pending EXCEPT ![requests[h].email] = None]
  /\ AfterDelCode(h)

\* A new password that is too weak is refused only now: its code is spent.
DelCode(h) ==
  /\ At(h, "delCode")
  /\ codes' = codes \ {requests[h].code}
  /\ AfterDelCode(h)
  /\ UNCHANGED pending

-----------------------------------------------------------------------------
(* Registration *)

ExistsName(h) ==
  /\ At(h, "existsName")
  /\ \/ NameTaken(requests[h].name) /\ Return(h)
     \/ ~NameTaken(requests[h].name) /\ Goto(h, "setInfo")
  /\ UNCHANGED <<users, redis, mail, begun, faults, history>>

Register(h, x) ==
  /\ At(h, "setInfo")
  /\ pending' = [pending EXCEPT ![requests[h].email] = x]
  /\ Goto(h, "getInfo")
  /\ UNCHANGED <<users, codes, mail, begun, faults, history>>

\* Faulty: the address is kept for the name.
SetInfoSwapped(h) == Register(h, requests[h].email)

\* registerInfo: one registration for an address replaces another.
SetInfo(h) == Register(h, requests[h].name)

\* The first query of sendEmailVerification and of createUser; the data may have
\* expired.
GetInfo(h) ==
  LET r == requests[h]
      info == pending[r.email]
      next == IF r.op = "register" THEN "setCode" ELSE "exists"
  IN
  /\ At(h, "getInfo")
  /\ \/ info = None /\ Return(h) /\ UNCHANGED <<pending, excused>>
     \/ info # None /\ Becomes(h, [r EXCEPT !.at = next, !.info = info])
        /\ UNCHANGED <<pending, excused>>
     \/ /\ info # None
        /\ pending' = [pending EXCEPT ![r.email] = None]
        /\ excused' = excused \cup {r.email}
        /\ Return(h)
  /\ UNCHANGED <<users, codes, mail, begun, faults, uses, shared, verified>>

\* createUser and newEmailInitiate: is the address taken?
Exists(h) ==
  LET r == requests[h]
      next == IF r.op = "newEmail" THEN "getCode" ELSE "delInfo"
  IN
  /\ At(h, "exists")
  /\ \/ EmailTaken(r.email) /\ Return(h)
     \/ ~EmailTaken(r.email) /\ Goto(h, next)
  /\ UNCHANGED <<users, redis, mail, begun, faults, history>>

DelInfo(h) ==
  /\ At(h, "delInfo")
  /\ pending' = [pending EXCEPT ![requests[h].email] = None]
  /\ Goto(h, "create")
  /\ UNCHANGED <<users, codes, mail, begun, faults, history>>

Used(h) == uses' = [uses EXCEPT ![requests[h].code.n] = @ + 1]

\* createUser of the user service: refused by an index, the data is gone.
CreateUser(h) ==
  LET r == requests[h] IN
  /\ At(h, "create")
  /\ \/ /\ ~NameTaken(r.info) /\ ~EmailTaken(r.email)
        /\ Len(users) < MaxUsers
        /\ users' = Append(users, NewUser(r.info, r.email))
        /\ Used(h)
        /\ UNCHANGED excused
     \/ /\ NameTaken(r.info) \/ EmailTaken(r.email)
        /\ excused' = excused \cup {r.email}
        /\ UNCHANGED <<users, uses>>
  /\ Return(h)
  /\ UNCHANGED <<redis, mail, begun, faults, shared, verified>>

-----------------------------------------------------------------------------
(* Changes of a user *)

\* changeUsername's update, changePassword's save, and changeEmail: that it was
\* refused by the index verifyNewEmailCode does not notice.
Update(h) ==
  LET r == requests[h]
      u == users[r.user]
      renamed == [u EXCEPT !.name = r.name, !.changes = @ + 1]
      moved == [u EXCEPT !.email = r.email]
  IN
  /\ At(h, "update")
  /\ \/ /\ r.op = "changeUsername"
        /\ IF \E v \in Uid \ {r.user} : users[v].name = r.name THEN UNCHANGED <<users, uses>>
           ELSE users' = [users EXCEPT ![r.user] = renamed] /\ Used(h)
        /\ UNCHANGED excused
     \/ /\ r.op = "verifyNewEmail"
        /\ IF \E v \in Uid \ {r.user} : users[v].email = r.email
           THEN UNCHANGED <<users, uses, excused>>
           ELSE /\ users' = [users EXCEPT ![r.user] = moved]
                /\ excused' = excused \cup {u.email}
                /\ Used(h)
     \/ /\ r.op = "forgotPassword"
        /\ users' = [users EXCEPT ![r.user].password = "changed"]
        /\ Used(h)
        /\ UNCHANGED excused
     \/ /\ r.op = "changePassword"
        /\ users' = [users EXCEPT ![r.user].password = "changed"]
        /\ UNCHANGED <<uses, excused>>
  /\ Return(h)
  /\ UNCHANGED <<redis, mail, begun, faults, shared, verified>>

\* deactivateAccount, reactivateAccount.
SaveActive(h) ==
  /\ At(h, "saveActive")
  /\ \E b \in BOOLEAN : users' = [users EXCEPT ![requests[h].user].active = b]
  /\ Return(h)
  /\ UNCHANGED <<redis, mail, begun, faults, history>>

-----------------------------------------------------------------------------
(* The email worker, time and failures *)

\* handleEmailRequest: the queue counts a message as handled once it is delivered,
\* and any number are handled at once, so a failure loses the email.
HandleEmailRequest(c) ==
  /\ c \in outbox
  /\ outbox' = outbox \ {c}
  /\ \/ inbox' = inbox \cup {c} /\ UNCHANGED faults
     \/ Fault /\ UNCHANGED inbox
  /\ UNCHANGED <<users, redis, requests, begun, history>>

\* Thirty days later.
Rest ==
  /\ requests = [h \in Handlers |-> None]
  /\ \E u \in Uid : users[u].changes + users[u].early > 0
  /\ users' = [u \in Uid |-> [users[u] EXCEPT !.changes = 0, !.early = 0]]
  /\ pending' = [e \in Emails |-> None]
  /\ codes' = {}
  /\ excused' = excused \cup {e \in Emails : pending[e] # None}
  /\ UNCHANGED <<mail, requests, begun, faults, uses, shared, verified>>

\* A query fails, or the instance is killed: no request is taken up again.
Fails(h) ==
  /\ Busy(h)
  /\ Fault
  /\ Return(h)
  /\ excused' = IF requests[h].op = "verifyRegister"
                THEN excused \cup {requests[h].email} ELSE excused
  /\ UNCHANGED <<users, redis, mail, begun, uses, shared, verified>>

BeginSomething(h) ==
  \/ BeginRegister(h)
  \/ BeginResend(h)
  \/ BeginVerifyRegister(h)
  \/ BeginAskPassword(h)
  \/ BeginForgotPassword(h)
  \/ BeginChangePassword(h)
  \/ BeginAskUsername(h)
  \/ BeginChangeUsername(h)
  \/ BeginAskEmail(h)
  \/ BeginNewEmail(h)
  \/ BeginVerifyNewEmail(h)
  \/ BeginSetActive(h)

Step(h) ==
  \/ SetCode(h)
  \/ GetCode(h)
  \/ DelCode(h)
  \/ ExistsName(h)
  \/ SetInfo(h)
  \/ GetInfo(h)
  \/ Exists(h)
  \/ DelInfo(h)
  \/ CreateUser(h)
  \/ Update(h)
  \/ SaveActive(h)

Next ==
  \/ \E h \in Handlers : BeginSomething(h) \/ Step(h) \/ Fails(h)
  \/ \E c \in outbox : HandleEmailRequest(c)
  \/ Rest

Spec == Init /\ [][Next]_vars

-----------------------------------------------------------------------------
(* Properties *)

\* Who holds an address has got a code sent to it, whether the address came by
\* registration or by a change, and whatever two of them did at once.
EmailProven ==
  \A u \in Uid : \E c \in inbox :
    c.kind \in {"register", "newEmail"} /\ c.to = users[u].email

\* A code makes one change (an account, a username, an address, a password), unless
\* two requests had read it before either deleted it.
OneUsePerCode == \A n \in Number : uses[n] > 1 => n \in shared

\* A verified registration leads to an account: its data is deleted before the
\* user is created, so a failure, an expiry or a name taken meanwhile loses it,
\* and nothing else does.
VerifiedHasAccount ==
  \A e \in verified \ excused :
    \/ EmailTaken(e)
    \/ \E h \in Handlers : Busy(h) /\ requests[h].op = "verifyRegister" /\ requests[h].email = e

\* Two changes of username in thirty days take two codes asked for before the first
\* change, or one code read by two requests at once.
UsernameCooldown ==
  \A u \in Uid : users[u].changes > 1 => users[u].early > 1 \/ shared # {}

=============================================================================
