---------------------------- MODULE AccountsProofs ----------------------------
(***************************************************************************)
(* Proofs about Accounts, for any number of handlers, names, addresses,    *)
(* users, requests and failures.                                           *)
(***************************************************************************)
EXTENDS Accounts, FiniteSetTheorems, SequenceTheorems, TLAPS

USE AccountsAssumption

-----------------------------------------------------------------------------
(* Types *)

\* Operations that make a code, and those that a code lets go on to its use, with
\* its kind.
Asking == {"register", "resend", "askPassword", "askUsername", "askEmail", "newEmail"}
Using == {"verifyRegister", "changeUsername", "verifyNewEmail", "forgotPassword"}
KindFor(op) ==
  IF op = "verifyRegister" THEN "register" ELSE IF op = "changeUsername" THEN "username"
  ELSE IF op = "verifyNewEmail" THEN "newEmail" ELSE "password"

\* Operations without a user.
Anonymous == {"register", "resend", "verifyRegister"}

\* A request at each query, when there are n users.
Typed(r, n) ==
  /\ r.at \in {"existsName", "setInfo"} => r.op = "register"
  /\ r.at = "getInfo" => r.op \in {"register", "verifyRegister"}
  /\ r.at = "setCode" => r.op \in Asking
  /\ r.at = "getCode" => r.op \in {"newEmail", "changeUsername"}
  /\ r.at = "delCode" => r.op \in Using
  /\ r.at = "exists" => r.op \in {"newEmail", "verifyRegister"}
  /\ r.at \in {"delInfo", "create"} => r.op = "verifyRegister"
  /\ r.at = "update" => r.op \in {"changeUsername", "verifyNewEmail", "forgotPassword", "changePassword"}
  /\ r.at = "saveActive" => r.op = "setActive"
  /\ r.op \in Asking \cup {"verifyRegister", "verifyNewEmail"} => r.email \in Emails
  /\ r.op \in {"register", "changeUsername"} => r.name \in Names
  /\ r.op \in Using => r.code \in Code /\ r.code.kind = KindFor(r.op)
  /\ r.op = "newEmail" => r.code \in Code /\ r.code.kind = "email"
  /\ r.op \notin Anonymous => r.user \in 1..n
  /\ r.op = "verifyRegister" /\ r.at \in {"exists", "delInfo", "create"} => r.info \in Names

CodesTyped(S, n) == \A c \in S : c.to = c.email /\ (c.kind # "register" => c.user \in 1..n)

TypeInv ==
  /\ TypeOK
  /\ \A h \in Handlers : Busy(h) => Typed(requests[h], Len(users))
  /\ CodesTyped(codes \cup outbox \cup inbox, Len(users))

\* Types hold at first.
LEMMA TypeInit ==
  ASSUME Init
  PROVE  TypeInv
<1>1. users \in Seq(User) /\ Len(users) \in 0..1
  <2>1. CASE users = <<>>
    BY <2>1
  <2>2. CASE \E x \in Names, e \in Emails : users = <<NewUser(x, e)>>
    <3>1. PICK x \in Names, e \in Emails : users = <<NewUser(x, e)>>
      BY <2>2
    <3>2. NewUser(x, e) \in User
      BY DEF NewUser, User
    <3> QED
      BY <3>1, <3>2
  <2> QED
    BY <2>1, <2>2 DEF Init
<1>2. ASSUME NEW c \in codes \cup outbox \cup inbox
      PROVE  c \in Code /\ c.to = c.email /\ c.kind = "register"
  <2>1. PICK e \in Emails : c = [kind |-> "register", n |-> 0, user |-> 0, email |-> e, to |-> e]
    BY <1>2 DEF Init
  <2> QED
    BY <2>1 DEF Code, Kinds, Number, UserNumber
<1>3. TypeOK
  <2>1. inbox \subseteq Code /\ codes \subseteq Code /\ outbox \subseteq Code
    BY <1>2
  <2>2. uses \in [Number -> Nat] /\ pending \in [Emails -> Names \cup {None}]
    BY DEF Init
  <2>3. requests \in [Handlers -> Request \cup {None}]
    BY DEF Init
  <2>4. begun \in 0..MaxRequests /\ faults \in 0..MaxFaults /\ Len(users) <= MaxUsers
    BY <1>1 DEF Init
  <2>5. shared \subseteq Number /\ verified \subseteq Emails /\ excused \subseteq Emails
    BY DEF Init
  <2> QED
    BY <1>1, <2>1, <2>2, <2>3, <2>4, <2>5 DEF TypeOK
<1>4. \A h \in Handlers : ~Busy(h)
  BY DEF Init, Busy
<1> QED
  BY <1>2, <1>3, <1>4 DEF TypeInv, CodesTyped

\* What a busy handler holds.
LEMMA Holds ==
  ASSUME TypeInv, NEW h \in Handlers, Busy(h)
  PROVE  requests[h] \in Request /\ Typed(requests[h], Len(users))
BY DEF TypeInv, TypeOK, Busy

RequestsTyped ==
  /\ requests \in [Handlers -> Request \cup {None}]
  /\ \A h \in Handlers : Busy(h) => Typed(requests[h], Len(users))

\* One request moves, or ends.
LEMMA BecomesTyped ==
  ASSUME TypeInv, NEW h \in Handlers, NEW r \in Request \cup {None}, Becomes(h, r),
         Len(users) \in Nat, Len(users') \in Nat, Len(users) <= Len(users'),
         r # None => Typed(r, Len(users'))
  PROVE  RequestsTyped'
<1>1. \A g \in Handlers : requests'[g] = IF g = h THEN r ELSE requests[g]
  BY DEF TypeInv, TypeOK, Becomes
<1>2. requests' \in [Handlers -> Request \cup {None}]
  BY DEF TypeInv, TypeOK, Becomes
<1>3. \A g \in Handlers : g # h /\ requests'[g] # None => Typed(requests'[g], Len(users'))
  <2> SUFFICES ASSUME NEW g \in Handlers, g # h, requests'[g] # None
               PROVE  Typed(requests'[g], Len(users'))
    OBVIOUS
  <2>1. Busy(g) /\ requests'[g] = requests[g]
    BY <1>1 DEF Busy
  <2>2. Typed(requests[g], Len(users))
    BY <2>1, Holds
  <2> HIDE DEF Asking, Using
  <2>3. Typed(requests[g], Len(users'))
    BY <2>2 DEF Typed
  <2> QED
    BY <2>1, <2>3
<1>4. \A g \in Handlers : requests'[g] # None => Typed(requests'[g], Len(users'))
  BY <1>1, <1>3
<1> QED
  BY <1>2, <1>4 DEF RequestsTyped, Busy, Typed, KindFor

\* Users are numbered from one.
LEMMA UsersLength ==
  ASSUME TypeInv
  PROVE  Len(users) \in Nat /\ Uid = 1..Len(users) /\ users \in [Uid -> User]
<1>1. users \in Seq(User)
  BY DEF TypeInv, TypeOK
<1> QED
  BY <1>1, LenProperties, ElementOfSeq DEF Uid

\* A request and the rest of its record.
Same(e, r) ==
  /\ e.op = r.op /\ e.n = r.n /\ e.user = r.user /\ e.name = r.name
  /\ e.email = r.email /\ e.code = r.code

\* A request that moves on stays the same but for its query.
LEMMA GotoIs ==
  ASSUME TypeInv, NEW h \in Handlers, Busy(h), NEW q \in Queries, Goto(h, q)
  PROVE  \E e \in Request :
           /\ Becomes(h, e) /\ Same(e, requests[h])
           /\ e.at = q /\ e.info = requests[h].info
<1> DEFINE e == [requests[h] EXCEPT !.at = q]
<1>1. requests[h] \in Request
  BY Holds
<1>2. e \in Request
  BY <1>1 DEF Request
<1>3. Same(e, requests[h]) /\ e.at = q /\ e.info = requests[h].info
  BY <1>1 DEF Request, Same
<1>4. Becomes(h, e)
  BY DEF Goto
<1> HIDE DEF e
<1> QED
  BY <1>2, <1>3, <1>4

\* What begins: a request of a user or none; one for a change of username, counted;
\* one with a code that was there; one with a code that has yet to be looked for.
Starts(h, r) ==
  /\ r \in Request /\ Typed(r, Len(users))
  /\ r.n = begun + 1 /\ BeginAs(h, r) /\ UNCHANGED uses
  /\ \/ /\ r.op \in {"register", "resend", "askPassword", "askEmail", "changePassword", "setActive"}
        /\ r.op = "register" => r.at = "existsName"
        /\ r.op = "resend" => pending[r.email] # None
        /\ UNCHANGED <<users, shared>>
     \/ /\ r.op = "askUsername" /\ r.at = "setCode"
        /\ users[r.user].changes = 0
        /\ users' = [users EXCEPT ![r.user].early = @ + 1]
        /\ UNCHANGED shared
     \/ /\ r.op \in Using \ {"changeUsername"} /\ r.at = "delCode"
        /\ r.code \in inbox \cap codes /\ r.email = r.code.email
        /\ Hold(h, r.code) /\ UNCHANGED users
     \/ /\ \/ r.op = "changeUsername" /\ r.at = "getCode"
           \/ r.op = "newEmail" /\ r.at = "exists"
        /\ r.code \in inbox
        /\ UNCHANGED <<users, shared>>

\* A new request knows nothing yet.
LEMMA BlankIs ==
  ASSUME TypeInv, begun < MaxRequests
  PROVE  \E b \in Request :
           /\ b = Blank /\ b.op = "resend" /\ b.at = "setCode" /\ b.n = begun + 1 /\ b.user = 0
           /\ b.name = None /\ b.email = None /\ b.code = None /\ b.info = None
<1>1. begun + 1 \in Number
  BY DEF TypeInv, TypeOK, Number
<1>2. Blank \in Request
  BY <1>1 DEF Blank, Request, Operations, Queries, UserNumber
<1>3. /\ Blank.op = "resend" /\ Blank.at = "setCode" /\ Blank.n = begun + 1 /\ Blank.user = 0
      /\ Blank.name = None /\ Blank.email = None /\ Blank.code = None /\ Blank.info = None
  BY DEF Blank
<1> QED
  BY <1>2, <1>3

\* A request that begins with a code holds it and nothing else.
LEMMA WithCode ==
  ASSUME TypeInv, NEW h \in Handlers,
         NEW op \in {"verifyRegister", "verifyNewEmail", "forgotPassword"},
         BeginWithCode(h, op, KindFor(op), "delCode")
  PROVE  \E r : Starts(h, r)
<1>1. PICK c \in inbox \cap codes :
        /\ c.kind = KindFor(op)
        /\ BeginAs(h, [Blank EXCEPT !.op = op, !.at = "delCode", !.user = c.user,
                                    !.code = c, !.email = c.email])
        /\ Hold(h, c) /\ UNCHANGED <<users, uses>>
  BY DEF BeginWithCode
<1>2. c \in Code /\ begun < MaxRequests
  BY <1>1 DEF TypeInv, TypeOK, BeginAs
<1>3. PICK b \in Request : b = Blank /\ b.n = begun + 1
  BY <1>2, BlankIs
<1> DEFINE r == [b EXCEPT !.op = op, !.at = "delCode", !.user = c.user, !.code = c, !.email = c.email]
<1>4. r \in Request
  BY <1>2 DEF Operations, Queries, Code, Request
<1>5. /\ r.op = op /\ r.at = "delCode" /\ r.n = begun + 1 /\ r.user = c.user
      /\ r.email = c.email /\ r.code = c
  BY <1>3 DEF Request
<1>6. c.kind # "register" => c.user \in 1..Len(users)
  BY DEF TypeInv, CodesTyped
<1>7. BeginAs(h, r)
  BY <1>1, <1>3
<1> HIDE DEF r
<1>8. Typed(r, Len(users))
  BY <1>1, <1>2, <1>5, <1>6 DEF Typed, Using, Asking, Anonymous, KindFor, Code
<1>9. r.op \in Using \ {"changeUsername"}
  BY <1>5 DEF Using
<1> QED
  BY <1>1, <1>3, <1>4, <1>5, <1>7, <1>8, <1>9 DEF Starts

\* The others, for the user u they are of.
LEMMA BeginsAre ==
  ASSUME TypeInv, NEW h \in Handlers, BeginSomething(h)
  PROVE  \E r : Starts(h, r)
<1>1. CASE BeginVerifyRegister(h) \/ BeginVerifyNewEmail(h) \/ BeginForgotPassword(h)
  <2>1. \E op \in {"verifyRegister", "verifyNewEmail", "forgotPassword"} :
          BeginWithCode(h, op, KindFor(op), "delCode")
    BY <1>1 DEF BeginVerifyRegister, BeginVerifyNewEmail, BeginForgotPassword, KindFor
  <2> QED
    BY <2>1, WithCode
<1>2. CASE BeginRegister(h)
  <2>1. PICK x \in Names, e \in Emails :
          Begin(h, [Blank EXCEPT !.op = "register", !.at = "existsName", !.name = x, !.email = e])
    BY <1>2 DEF BeginRegister
  <2>2. PICK b \in Request : b = Blank /\ b.n = begun + 1
    BY <2>1, BlankIs DEF Begin, BeginAs
  <2> DEFINE r == [b EXCEPT !.op = "register", !.at = "existsName", !.name = x, !.email = e]
  <2>3. r \in Request
    BY DEF Operations, Queries, Request
  <2>4. r.op = "register" /\ r.at = "existsName" /\ r.name = x /\ r.email = e /\ r.n = begun + 1
    BY <2>2 DEF Request
  <2>5. Begin(h, r)
    BY <2>1, <2>2
  <2> HIDE DEF r
  <2>6. Typed(r, Len(users))
    BY <2>4 DEF Typed, Asking, Using, Anonymous
  <2> QED
    BY <2>3, <2>4, <2>5, <2>6 DEF Starts, Begin
<1>3. CASE BeginResend(h)
  <2>1. PICK e \in Emails :
          pending[e] # None /\ Begin(h, [Blank EXCEPT !.email = e, !.info = pending[e]])
    BY <1>3 DEF BeginResend
  <2>2. PICK b \in Request : b = Blank /\ b.n = begun + 1 /\ b.op = "resend" /\ b.at = "setCode"
    BY <2>1, BlankIs DEF Begin, BeginAs
  <2> DEFINE r == [b EXCEPT !.email = e, !.info = pending[e]]
  <2>3. r \in Request
    BY DEF Request, TypeInv, TypeOK
  <2>4. r.op = "resend" /\ r.at = "setCode" /\ r.email = e /\ r.n = begun + 1
    BY <2>2 DEF Request
  <2>5. Begin(h, r)
    BY <2>1, <2>2
  <2> HIDE DEF r
  <2>6. Typed(r, Len(users))
    BY <2>4 DEF Typed, Asking, Using, Anonymous
  <2> QED
    BY <2>1, <2>3, <2>4, <2>5, <2>6 DEF Starts, Begin
<1>4. CASE BeginAskPassword(h) \/ BeginAskEmail(h) \/ BeginAskUsername(h)
  <2>1. PICK u \in Uid, op \in {"askPassword", "askEmail", "askUsername"} :
          /\ BeginAs(h, [Blank EXCEPT !.op = op, !.user = u, !.email = users[u].email])
          /\ UNCHANGED <<uses, shared>>
          /\ op # "askUsername" => users' = users
          /\ op = "askUsername" => users[u].changes = 0
                                   /\ users' = [users EXCEPT ![u].early = @ + 1]
    <3>1. CASE BeginAskPassword(h)
      BY <3>1 DEF BeginAskPassword, Begin
    <3>2. CASE BeginAskEmail(h)
      BY <3>2 DEF BeginAskEmail, Begin
    <3>3. CASE BeginAskUsername(h)
      BY <3>3 DEF BeginAskUsername, AskUsername
    <3> QED
      BY <1>4, <3>1, <3>2, <3>3
  <2>2. PICK b \in Request : b = Blank /\ b.n = begun + 1 /\ b.at = "setCode"
    BY <2>1, BlankIs DEF BeginAs
  <2>3. u \in 1..Len(users) /\ u \in UserNumber /\ users[u] \in User
    BY UsersLength DEF TypeInv, TypeOK, UserNumber
  <2>4. users[u].email \in Emails
    BY <2>3 DEF User
  <2> DEFINE r == [b EXCEPT !.op = op, !.user = u, !.email = users[u].email]
  <2>5. r \in Request
    BY <2>3, <2>4 DEF Operations, Request
  <2>6. r.op = op /\ r.at = "setCode" /\ r.user = u /\ r.email = users[u].email /\ r.n = begun + 1
    BY <2>2 DEF Request
  <2>7. BeginAs(h, r)
    BY <2>1, <2>2
  <2> HIDE DEF r
  <2>8. Typed(r, Len(users))
    BY <2>3, <2>4, <2>6 DEF Typed, Asking, Using, Anonymous
  <2> QED
    BY <2>1, <2>5, <2>6, <2>7, <2>8 DEF Starts
<1>5. CASE BeginChangePassword(h) \/ BeginSetActive(h)
  <2>1. PICK u \in Uid, op \in {"changePassword", "setActive"}, q \in {"update", "saveActive"} :
          /\ Begin(h, [Blank EXCEPT !.op = op, !.at = q, !.user = u])
          /\ q = "saveActive" => op = "setActive"
          /\ q = "update" => op = "changePassword"
    BY <1>5 DEF BeginChangePassword, BeginSetActive
  <2>2. PICK b \in Request : b = Blank /\ b.n = begun + 1
    BY <2>1, BlankIs DEF Begin, BeginAs
  <2>3. u \in 1..Len(users) /\ u \in UserNumber
    BY UsersLength DEF TypeInv, TypeOK, UserNumber
  <2> DEFINE r == [b EXCEPT !.op = op, !.at = q, !.user = u]
  <2>4. r \in Request
    BY <2>3 DEF Operations, Queries, Request
  <2>5. r.op = op /\ r.at = q /\ r.user = u /\ r.n = begun + 1
    BY <2>2 DEF Request
  <2>6. Begin(h, r)
    BY <2>1, <2>2
  <2> HIDE DEF r
  <2>7. Typed(r, Len(users))
    BY <2>1, <2>3, <2>5 DEF Typed, Asking, Using, Anonymous
  <2> QED
    BY <2>4, <2>5, <2>6, <2>7 DEF Starts, Begin
<1>6. CASE BeginChangeUsername(h)
  <2>1. PICK u \in Uid, x \in Names, c \in inbox :
          /\ c.kind = "username"
          /\ Begin(h, [Blank EXCEPT !.op = "changeUsername", !.at = "getCode", !.user = u,
                                    !.name = x, !.code = c])
    BY <1>6 DEF BeginChangeUsername
  <2>2. PICK b \in Request : b = Blank /\ b.n = begun + 1
    BY <2>1, BlankIs DEF Begin, BeginAs
  <2>3. u \in 1..Len(users) /\ u \in UserNumber /\ c \in Code
    BY UsersLength DEF TypeInv, TypeOK, UserNumber
  <2> DEFINE r == [b EXCEPT !.op = "changeUsername", !.at = "getCode", !.user = u, !.name = x, !.code = c]
  <2>4. r \in Request
    BY <2>3 DEF Operations, Queries, Request
  <2>5. /\ r.op = "changeUsername" /\ r.at = "getCode" /\ r.user = u /\ r.name = x /\ r.code = c
        /\ r.n = begun + 1
    BY <2>2 DEF Request
  <2>6. Begin(h, r)
    BY <2>1, <2>2
  <2> HIDE DEF r
  <2>7. Typed(r, Len(users))
    BY <2>1, <2>3, <2>5 DEF Typed, Asking, Using, Anonymous, KindFor
  <2>8. BeginAs(h, r) /\ UNCHANGED <<users, uses, shared>> /\ r.code \in inbox
    BY <2>5, <2>6 DEF Begin
  <2> QED
    BY <2>4, <2>5, <2>7, <2>8 DEF Starts
<1>7. CASE BeginNewEmail(h)
  <2>1. PICK u \in Uid, e \in Emails, c \in inbox :
          /\ c.kind = "email"
          /\ Begin(h, [Blank EXCEPT !.op = "newEmail", !.at = "exists", !.user = u,
                                    !.email = e, !.code = c])
    BY <1>7 DEF BeginNewEmail
  <2>2. PICK b \in Request : b = Blank /\ b.n = begun + 1
    BY <2>1, BlankIs DEF Begin, BeginAs
  <2>3. u \in 1..Len(users) /\ u \in UserNumber /\ c \in Code
    BY UsersLength DEF TypeInv, TypeOK, UserNumber
  <2> DEFINE r == [b EXCEPT !.op = "newEmail", !.at = "exists", !.user = u, !.email = e, !.code = c]
  <2>4. r \in Request
    BY <2>3 DEF Operations, Queries, Request
  <2>5. /\ r.op = "newEmail" /\ r.at = "exists" /\ r.user = u /\ r.email = e /\ r.code = c
        /\ r.n = begun + 1
    BY <2>2 DEF Request
  <2>6. Begin(h, r)
    BY <2>1, <2>2
  <2> HIDE DEF r
  <2>7. Typed(r, Len(users))
    BY <2>1, <2>3, <2>5 DEF Typed, Asking, Using, Anonymous, KindFor
  <2> QED
    BY <2>1, <2>4, <2>5, <2>6, <2>7 DEF Starts, Begin
<1> QED
  BY <1>1, <1>2, <1>3, <1>4, <1>5, <1>6, <1>7 DEF BeginSomething

\* What a step does to the rest.
LEMMA RestTyped ==
  ASSUME TypeInv, RequestsTyped',
         users' \in Seq(User), Len(users) <= Len(users'), Len(users') <= MaxUsers,
         pending' \in [Emails -> Names \cup {None}],
         NEW S, codes' \cup outbox' \cup inbox' \subseteq codes \cup outbox \cup inbox \cup S,
         S \subseteq Code, CodesTyped(S, Len(users)),
         begun' \in 0..MaxRequests, faults' \in 0..MaxFaults, uses' \in [Number -> Nat],
         shared' \subseteq Number, verified' \subseteq Emails, excused' \subseteq Emails
  PROVE  TypeInv'
<1>1. codes' \subseteq Code /\ outbox' \subseteq Code /\ inbox' \subseteq Code
  BY DEF TypeInv, TypeOK
<1>2. TypeOK'
  BY <1>1 DEF TypeOK, RequestsTyped
<1>3. ASSUME NEW c \in codes' \cup outbox' \cup inbox'
      PROVE  c.to = c.email /\ (c.kind # "register" => c.user \in 1..Len(users'))
  <2>1. c.to = c.email /\ (c.kind # "register" => c.user \in 1..Len(users))
    BY DEF TypeInv, CodesTyped
  <2>2. Len(users) \in Nat /\ Len(users') \in Nat
    BY UsersLength, LenProperties
  <2> QED
    BY <2>1, <2>2
<1>4. CodesTyped(codes \cup outbox \cup inbox, Len(users))'
  BY <1>3 DEF CodesTyped
<1> QED
  BY <1>2, <1>4 DEF TypeInv, RequestsTyped

\* Codes in two hands are codes that were made.
LEMMA HoldTyped ==
  ASSUME TypeInv, NEW h \in Handlers, NEW c \in Code, Hold(h, c)
  PROVE  shared' \subseteq Number
BY DEF Hold, TypeInv, TypeOK, Code

\* One user changes.
LEMMA UserChanges ==
  ASSUME TypeInv, NEW u \in 1..Len(users), NEW v \in User, users' = [users EXCEPT ![u] = v]
  PROVE  /\ users' \in Seq(User) /\ Len(users') = Len(users) /\ Uid' = Uid
         /\ \A w \in 1..Len(users) : users'[w] = IF w = u THEN v ELSE users[w]
<1>1. users \in Seq(User)
  BY DEF TypeInv, TypeOK
<1>2. /\ users' \in Seq(User) /\ Len(users') = Len(users)
      /\ \A w \in 1..Len(users) : users'[w] = IF w = u THEN v ELSE users[w]
  BY <1>1, ExceptSeq
<1> QED
  BY <1>1, <1>2, LenProperties DEF Uid

\* A request that begins is typed.
LEMMA BeginKeepsTypes ==
  ASSUME TypeInv, NEW h \in Handlers, NEW r, Starts(h, r)
  PROVE  TypeInv'
<1>1. /\ r \in Request /\ Typed(r, Len(users)) /\ Becomes(h, r) /\ uses' = uses
      /\ begun' = begun + 1 /\ begun < MaxRequests
      /\ UNCHANGED <<redis, mail, faults, verified, excused>>
  BY DEF Starts, BeginAs
<1>2. users' \in Seq(User) /\ Len(users') = Len(users)
  <2>1. CASE users' = users
    BY <2>1 DEF TypeInv, TypeOK
  <2>2. CASE users' = [users EXCEPT ![r.user].early = @ + 1]
    <3>1. r.user \in 1..Len(users) \/ r.op # "askUsername"
      BY <1>1 DEF Typed, Anonymous
    <3>2. CASE r.op = "askUsername"
      <4>1. PICK u \in User : u = users[r.user]
        BY <3>1, <3>2, UsersLength
      <4>2. users' = [users EXCEPT ![r.user] = [u EXCEPT !.early = @ + 1]]
        BY <2>2, <4>1
      <4>3. [u EXCEPT !.early = @ + 1] \in User
        BY DEF User
      <4> QED
        BY <3>1, <3>2, <4>2, <4>3, UserChanges
    <3> QED
      BY <2>1, <3>2 DEF Starts
  <2> QED
    BY <2>1, <2>2 DEF Starts
<1>3. shared' \subseteq Number
  <2>1. CASE shared' = shared
    BY <2>1 DEF TypeInv, TypeOK
  <2>2. CASE r.op \in Using /\ Hold(h, r.code)
    BY <1>1, <2>2, HoldTyped DEF Typed
  <2> QED
    BY <2>1, <2>2 DEF Starts
<1>4. Len(users) \in Nat
  BY UsersLength
<1>5. RequestsTyped'
  BY <1>1, <1>2, <1>4, BecomesTyped
<1>6. CodesTyped({}, Len(users)) /\ {} \subseteq Code
  BY DEF CodesTyped
<1>7. /\ codes' \cup outbox' \cup inbox' \subseteq codes \cup outbox \cup inbox \cup {}
      /\ pending' \in [Emails -> Names \cup {None}] /\ begun' \in 0..MaxRequests
      /\ faults' \in 0..MaxFaults /\ uses' \in [Number -> Nat]
      /\ verified' \subseteq Emails /\ excused' \subseteq Emails /\ Len(users') <= MaxUsers
  BY <1>1, <1>2 DEF TypeInv, TypeOK, redis, mail
<1> QED
  BY <1>2, <1>3, <1>4, <1>5, <1>6, <1>7, RestTyped

KindOf(op) ==
  IF op \in {"register", "resend"} THEN "register" ELSE IF op = "askPassword" THEN "password"
  ELSE IF op = "askUsername" THEN "username" ELSE IF op = "askEmail" THEN "email" ELSE "newEmail"

\* The code that a request makes.
LEMMA CodeOfIs ==
  ASSUME TypeInv, NEW h \in Handlers, At(h, "setCode")
  PROVE  \E c \in Code :
           /\ c = CodeOf(h) /\ c.kind = KindOf(requests[h].op) /\ c.n = requests[h].n
           /\ c.user = requests[h].user /\ c.email = requests[h].email /\ c.to = requests[h].email
           /\ c.kind # "register" => c.user \in 1..Len(users)
<1>1. PICK r \in Request : r = requests[h] /\ Typed(r, Len(users)) /\ r.at = "setCode"
  BY Holds DEF At
<1>2. r.op \in Asking /\ r.email \in Emails
  BY <1>1 DEF Typed
<1>3. PICK k \in Kinds : k = KindOf(r.op)
  BY <1>2 DEF KindOf, Asking, Kinds
<1>4. CodeOf(h) = [kind |-> k, n |-> r.n, user |-> r.user, email |-> r.email, to |-> r.email]
  <2>1. CASE r.op \in {"register", "resend"}
    BY <1>1, <1>3, <2>1 DEF CodeOf, KindOf
  <2>2. CASE r.op = "askPassword"
    BY <1>1, <1>3, <2>2 DEF CodeOf, KindOf
  <2>3. CASE r.op = "askUsername"
    BY <1>1, <1>3, <2>3 DEF CodeOf, KindOf
  <2>4. CASE r.op = "askEmail"
    BY <1>1, <1>3, <2>4 DEF CodeOf, KindOf
  <2>5. CASE r.op = "newEmail"
    BY <1>1, <1>3, <2>5 DEF CodeOf, KindOf
  <2> QED
    BY <1>2, <2>1, <2>2, <2>3, <2>4, <2>5 DEF Asking
<1> DEFINE c == [kind |-> k, n |-> r.n, user |-> r.user, email |-> r.email, to |-> r.email]
<1>5. c \in Code
  BY <1>2 DEF Code, Request
<1>6. c.kind # "register" => r.user \in 1..Len(users)
  BY <1>1, <1>2, <1>3 DEF Typed, KindOf, Anonymous, Asking
<1> QED
  BY <1>1, <1>3, <1>4, <1>5, <1>6

\* A step that makes no code.
LEMMA StepTyped ==
  ASSUME TypeInv, RequestsTyped',
         users' \in Seq(User), Len(users) <= Len(users'), Len(users') <= MaxUsers,
         pending' \in [Emails -> Names \cup {None}],
         codes' \subseteq codes, UNCHANGED <<mail, begun>>,
         faults' \in 0..MaxFaults, uses' \in [Number -> Nat],
         shared' \subseteq Number, verified' \subseteq Emails, excused' \subseteq Emails
  PROVE  TypeInv'
<1>1. CodesTyped({}, Len(users)) /\ {} \subseteq Code
  BY DEF CodesTyped
<1>2. codes' \cup outbox' \cup inbox' \subseteq codes \cup outbox \cup inbox \cup {}
  BY DEF mail
<1>3. begun' \in 0..MaxRequests
  BY DEF TypeInv, TypeOK
<1> QED
  BY <1>1, <1>2, <1>3, RestTyped

\* A request that ends leaves the others typed.
LEMMA ReturnTyped ==
  ASSUME TypeInv, NEW h \in Handlers, Return(h), Len(users') \in Nat, Len(users) <= Len(users')
  PROVE  RequestsTyped'
BY BecomesTyped, UsersLength DEF Return

\* Where each step may lead.
LEMMA GotoTyped ==
  ASSUME TypeInv, NEW h \in Handlers, Busy(h), NEW q \in Queries, Goto(h, q), UNCHANGED users,
         LET r == requests[h] IN
         \/ q = "setInfo" /\ r.op = "register"
         \/ q = "getInfo" /\ r.op \in {"register", "verifyRegister"}
         \/ q = "setCode" /\ r.op = "newEmail"
         \/ q = "getCode" /\ r.op = "newEmail"
         \/ q = "delCode" /\ r.op = "changeUsername"
         \/ q \in {"delInfo", "create"} /\ r.op = "verifyRegister" /\ r.info \in Names
         \/ q = "update" /\ r.op \in {"changeUsername", "verifyNewEmail", "forgotPassword"}
  PROVE  RequestsTyped'
<1>1. PICK r \in Request : r = requests[h] /\ Typed(r, Len(users))
  BY Holds
<1>2. PICK e \in Request :
        Becomes(h, e) /\ Same(e, r) /\ e.at = q /\ e.info = r.info
  BY <1>1, GotoIs
<1>3. Typed(e, Len(users))
  BY <1>1, <1>2 DEF Typed, Same, Asking, Using, Anonymous
<1> QED
  BY <1>2, <1>3, BecomesTyped, UsersLength

\* The new code is typed, and of the user who asked for it.
LEMMA SetCodeKeepsTypes ==
  ASSUME TypeInv, NEW h \in Handlers, SetCode(h)
  PROVE  TypeInv'
<1>1. PICK c \in Code :
        /\ c = CodeOf(h) /\ c.to = c.email
        /\ c.kind # "register" => c.user \in 1..Len(users)
  BY CodeOfIs DEF SetCode, Send
<1>2. /\ codes' = codes \cup {c} /\ outbox' = outbox \cup {c} /\ Return(h)
      /\ UNCHANGED <<users, pending, inbox, begun, faults, history>>
  BY <1>1 DEF SetCode, Send
<1>3. RequestsTyped'
  BY <1>2, ReturnTyped, UsersLength
<1>4. CodesTyped({c}, Len(users)) /\ {c} \subseteq Code
  BY <1>1 DEF CodesTyped
<1>5. codes' \cup outbox' \cup inbox' \subseteq codes \cup outbox \cup inbox \cup {c}
  BY <1>2
<1>6. /\ users' \in Seq(User) /\ Len(users') = Len(users) /\ Len(users) \in Nat
      /\ Len(users') <= MaxUsers /\ pending' \in [Emails -> Names \cup {None}]
      /\ begun' \in 0..MaxRequests /\ faults' \in 0..MaxFaults /\ uses' \in [Number -> Nat]
      /\ shared' \subseteq Number /\ verified' \subseteq Emails /\ excused' \subseteq Emails
  BY <1>2, UsersLength DEF TypeInv, TypeOK, history
<1> QED
  BY <1>3, <1>4, <1>5, <1>6, RestTyped

\* Reading a code keeps types.
LEMMA GetCodeKeepsTypes ==
  ASSUME TypeInv, NEW h \in Handlers, GetCode(h)
  PROVE  TypeInv'
<1>1. PICK r \in Request : r = requests[h] /\ Typed(r, Len(users)) /\ r.at = "getCode" /\ Busy(h)
  BY Holds DEF GetCode, At
<1>2. UNCHANGED <<users, pending, mail, begun, faults, uses, verified, excused>>
  BY DEF GetCode
<1>3. codes' \subseteq codes
  BY DEF GetCode
<1>4. shared' \subseteq Number
  <2>1. CASE shared' = shared
    BY <2>1 DEF TypeInv, TypeOK
  <2>2. CASE Hold(h, r.code)
    <3>1. r.code \in Code
      BY <1>1 DEF Typed, Using
    <3> QED
      BY <2>2, <3>1, HoldTyped
  <2> QED
    BY <1>1, <2>1, <2>2 DEF GetCode
<1>5. RequestsTyped'
  <2>1. CASE Return(h)
    BY <1>2, <2>1, ReturnTyped, UsersLength
  <2>2. CASE r.op = "newEmail" /\ Goto(h, "setCode")
    BY <1>1, <1>2, <2>2, GotoTyped DEF Queries
  <2>3. CASE r.op # "newEmail" /\ Goto(h, "delCode")
    <3>1. r.op = "changeUsername"
      BY <1>1, <2>3 DEF Typed
    <3> QED
      BY <1>1, <1>2, <2>3, <3>1, GotoTyped DEF Queries
  <2> QED
    BY <1>1, <2>1, <2>2, <2>3 DEF GetCode
<1>6. /\ users' \in Seq(User) /\ Len(users') = Len(users) /\ Len(users) \in Nat
      /\ Len(users') <= MaxUsers /\ pending' \in [Emails -> Names \cup {None}]
      /\ faults' \in 0..MaxFaults /\ uses' \in [Number -> Nat]
      /\ verified' \subseteq Emails /\ excused' \subseteq Emails
  BY <1>2, UsersLength DEF TypeInv, TypeOK
<1> QED
  BY <1>2, <1>3, <1>4, <1>5, <1>6, StepTyped

\* Deleting a code keeps types.
LEMMA DelCodeKeepsTypes ==
  ASSUME TypeInv, NEW h \in Handlers, DelCode(h)
  PROVE  TypeInv'
<1>1. PICK r \in Request : r = requests[h] /\ Typed(r, Len(users)) /\ r.at = "delCode" /\ Busy(h)
  BY Holds DEF DelCode, At
<1>2. UNCHANGED <<users, pending, mail, begun, faults, uses, shared, excused>>
  BY DEF DelCode, AfterDelCode
<1>3. codes' \subseteq codes
  BY DEF DelCode
<1>4. verified' \subseteq Emails
  BY <1>1 DEF DelCode, AfterDelCode, Typed, TypeInv, TypeOK
<1>5. RequestsTyped'
  <2>1. CASE Return(h)
    BY <1>2, <2>1, ReturnTyped, UsersLength
  <2>2. CASE r.op = "verifyRegister" /\ Goto(h, "getInfo")
    BY <1>1, <1>2, <2>2, GotoTyped DEF Queries
  <2>3. CASE r.op \in {"changeUsername", "verifyNewEmail", "forgotPassword"} /\ Goto(h, "update")
    BY <1>1, <1>2, <2>3, GotoTyped DEF Queries
  <2> QED
    BY <1>1, <2>1, <2>2, <2>3 DEF DelCode, AfterDelCode
<1>6. /\ users' \in Seq(User) /\ Len(users') = Len(users) /\ Len(users) \in Nat
      /\ Len(users') <= MaxUsers /\ pending' \in [Emails -> Names \cup {None}]
      /\ faults' \in 0..MaxFaults /\ uses' \in [Number -> Nat]
      /\ shared' \subseteq Number /\ excused' \subseteq Emails
  BY <1>2, UsersLength DEF TypeInv, TypeOK
<1> QED
  BY <1>2, <1>3, <1>4, <1>5, <1>6, StepTyped

\* The steps that do not touch users or codes.
LEMMA OthersKeepTypes ==
  ASSUME TypeInv, RequestsTyped', UNCHANGED <<users, codes, mail, begun, uses, shared, verified>>,
         faults' \in 0..MaxFaults, pending' \in [Emails -> Names \cup {None}], excused' \subseteq Emails
  PROVE  TypeInv'
<1>1. /\ users' \in Seq(User) /\ Len(users') = Len(users) /\ Len(users) \in Nat
      /\ Len(users') <= MaxUsers /\ uses' \in [Number -> Nat]
      /\ shared' \subseteq Number /\ verified' \subseteq Emails /\ codes' \subseteq codes
  BY UsersLength DEF TypeInv, TypeOK
<1> QED
  BY <1>1, StepTyped

\* The queries of a registration before the account keep types.
LEMMA RegistrationKeepsTypes ==
  ASSUME TypeInv, NEW h \in Handlers,
         ExistsName(h) \/ SetInfo(h) \/ Exists(h) \/ DelInfo(h)
  PROVE  TypeInv'
<1>1. PICK r \in Request : r = requests[h] /\ Typed(r, Len(users)) /\ Busy(h)
  BY Holds DEF ExistsName, SetInfo, Register, Exists, DelInfo, At
<1>2. UNCHANGED <<users, codes, mail, begun, faults, uses, shared, verified, excused>>
  BY DEF ExistsName, SetInfo, Register, Exists, DelInfo, history, redis
<1>3. CASE ExistsName(h)
  <2>1. r.op = "register" /\ pending' = pending
    BY <1>1, <1>3 DEF ExistsName, At, Typed, redis
  <2>2. RequestsTyped'
    BY <1>1, <1>2, <1>3, <2>1, ReturnTyped, GotoTyped, UsersLength DEF ExistsName, Queries
  <2> QED
    BY <1>2, <2>1, <2>2, OthersKeepTypes DEF TypeInv, TypeOK
<1>4. CASE SetInfo(h)
  <2>1. r.op = "register" /\ r.name \in Names
    BY <1>1, <1>4 DEF SetInfo, Register, At, Typed
  <2>2. RequestsTyped'
    BY <1>1, <1>2, <1>4, <2>1, GotoTyped DEF SetInfo, Register, Queries
  <2>3. pending' \in [Emails -> Names \cup {None}]
    BY <1>1, <1>4, <2>1 DEF SetInfo, Register, TypeInv, TypeOK
  <2> QED
    BY <1>2, <2>2, <2>3, OthersKeepTypes DEF TypeInv, TypeOK
<1>5. CASE Exists(h)
  <2>1. r.op = "newEmail" \/ (r.op = "verifyRegister" /\ r.info \in Names)
    BY <1>1, <1>5 DEF Exists, At, Typed
  <2>2. RequestsTyped'
    BY <1>1, <1>2, <1>5, <2>1, ReturnTyped, GotoTyped, UsersLength DEF Exists, Queries
  <2> QED
    BY <1>2, <1>5, <2>2, OthersKeepTypes DEF Exists, redis, TypeInv, TypeOK
<1>6. CASE DelInfo(h)
  <2>1. r.op = "verifyRegister" /\ r.info \in Names
    BY <1>1, <1>6 DEF DelInfo, At, Typed
  <2>2. RequestsTyped'
    BY <1>1, <1>2, <1>6, <2>1, GotoTyped DEF DelInfo, Queries
  <2>3. pending' \in [Emails -> Names \cup {None}]
    BY <1>6 DEF DelInfo, TypeInv, TypeOK
  <2> QED
    BY <1>2, <2>2, <2>3, OthersKeepTypes DEF TypeInv, TypeOK
<1> QED
  BY <1>3, <1>4, <1>5, <1>6

\* The registration data that a request has read.
LEMMA GetInfoIs ==
  ASSUME TypeInv, NEW h \in Handlers, GetInfo(h)
  PROVE  /\ UNCHANGED <<users, codes, mail, begun, faults, uses, shared, verified>>
         /\ \/ /\ pending[requests[h].email] = None
               /\ Return(h) /\ UNCHANGED <<pending, excused>>
            \/ /\ \E e \in Request :
                    /\ Becomes(h, e) /\ Same(e, requests[h]) /\ e.info \in Names
                    /\ e.at = IF requests[h].op = "register" THEN "setCode" ELSE "exists"
               /\ pending[requests[h].email] # None
               /\ UNCHANGED <<pending, excused>>
            \/ /\ pending' = [pending EXCEPT ![requests[h].email] = None]
               /\ excused' = excused \cup {requests[h].email}
               /\ Return(h)
<1>1. PICK r \in Request : r = requests[h] /\ Typed(r, Len(users)) /\ Busy(h) /\ r.at = "getInfo"
  BY Holds DEF GetInfo, At
<1>2. r.email \in Emails
  BY <1>1 DEF Typed, Asking
<1>3. PICK info \in Names \cup {None} : info = pending[r.email]
  BY <1>2 DEF TypeInv, TypeOK
<1>4. PICK q \in Queries : q = IF r.op = "register" THEN "setCode" ELSE "exists"
  BY DEF Queries
<1> DEFINE e == [r EXCEPT !.at = q, !.info = info]
<1>5. e \in Request
  BY DEF Request
<1>6. Same(e, r) /\ e.at = q /\ e.info = info
  BY DEF Same, Request
<1>7. \/ /\ info = None /\ Return(h) /\ UNCHANGED <<pending, excused>>
      \/ info # None /\ Becomes(h, e) /\ UNCHANGED <<pending, excused>>
      \/ /\ pending' = [pending EXCEPT ![r.email] = None]
         /\ excused' = excused \cup {r.email}
         /\ Return(h)
  BY <1>1, <1>3, <1>4 DEF GetInfo
<1>8. UNCHANGED <<users, codes, mail, begun, faults, uses, shared, verified>>
  BY DEF GetInfo
<1> HIDE DEF e
<1> QED
  BY <1>1, <1>3, <1>4, <1>5, <1>6, <1>7, <1>8

\* The data of a registration that was found is typed.
LEMMA GetInfoKeepsTypes ==
  ASSUME TypeInv, NEW h \in Handlers, GetInfo(h)
  PROVE  TypeInv'
<1>1. PICK r \in Request : r = requests[h] /\ Typed(r, Len(users)) /\ r.at = "getInfo"
  BY Holds DEF GetInfo, At
<1>2. UNCHANGED <<users, codes, mail, begun, faults, uses, shared, verified>>
  BY GetInfoIs
<1>3. r.email \in Emails /\ r.op \in {"register", "verifyRegister"}
  BY <1>1 DEF Typed, Asking
<1>4. RequestsTyped'
  <2>1. CASE Return(h)
    BY <1>2, <2>1, ReturnTyped, UsersLength
  <2>2. ASSUME NEW e \in Request, Becomes(h, e), Same(e, r), e.info \in Names,
               e.at = IF r.op = "register" THEN "setCode" ELSE "exists"
        PROVE  RequestsTyped'
    <3>1. Typed(e, Len(users))
      BY <1>1, <1>3, <2>2 DEF Typed, Same, Asking, Using, Anonymous
    <3> QED
      BY <1>2, <2>2, <3>1, BecomesTyped, UsersLength
  <2> QED
    BY <1>1, <2>1, <2>2, GetInfoIs
<1>5. faults' \in 0..MaxFaults /\ pending' \in [Emails -> Names \cup {None}] /\ excused' \subseteq Emails
  BY <1>1, <1>2, <1>3, GetInfoIs DEF TypeInv, TypeOK
<1> QED
  BY <1>2, <1>4, <1>5, OthersKeepTypes

\* One more use is counted, of the request's code.
LEMMA UsedTyped ==
  ASSUME TypeInv, NEW h \in Handlers, requests[h].code \in Code, Used(h)
  PROVE  /\ uses' \in [Number -> Nat] /\ requests[h].code.n \in Number
         /\ \A n \in Number :
              uses'[n] = IF n = requests[h].code.n THEN uses[n] + 1 ELSE uses[n]
BY DEF Used, TypeInv, TypeOK, Code

\* The user that a registration makes.
LEMMA CreateUserIs ==
  ASSUME TypeInv, NEW h \in Handlers, CreateUser(h)
  PROVE  /\ Return(h) /\ UNCHANGED <<redis, mail, begun, faults, shared, verified>>
         /\ requests[h].email \in Emails
         /\ \/ /\ ~EmailTaken(requests[h].email)
               /\ users' \in Seq(User) /\ Len(users') = Len(users) + 1 /\ Len(users') <= MaxUsers
               /\ \A u \in 1..Len(users) : users'[u] = users[u]
               /\ \E v \in User :
                    /\ users'[Len(users) + 1] = v
                    /\ v.email = requests[h].email /\ v.changes = 0
               /\ Used(h)
               /\ UNCHANGED excused
            \/ /\ excused' = excused \cup {requests[h].email}
               /\ UNCHANGED <<users, uses>>
<1>1. PICK r \in Request : r = requests[h] /\ Typed(r, Len(users)) /\ r.at = "create"
  BY Holds DEF CreateUser, At
<1>2. r.email \in Emails /\ r.info \in Names
  BY <1>1 DEF Typed, Asking
<1>3. PICK v \in User : v = NewUser(r.info, r.email) /\ v.email = r.email /\ v.changes = 0
  <2>1. NewUser(r.info, r.email) \in User
    BY <1>2 DEF NewUser, User
  <2>2. NewUser(r.info, r.email).email = r.email /\ NewUser(r.info, r.email).changes = 0
    BY DEF NewUser
  <2> QED
    BY <2>1, <2>2
<1>4. CASE /\ ~EmailTaken(r.email) /\ Len(users) < MaxUsers /\ users' = Append(users, v)
           /\ Used(h) /\ UNCHANGED excused
  <2>1. users \in Seq(User) /\ Len(users) \in Nat /\ MaxUsers \in Nat
    BY UsersLength DEF TypeInv, TypeOK
  <2>2. /\ users' \in Seq(User) /\ Len(users') = Len(users) + 1
        /\ \A u \in 1..Len(users) : users'[u] = users[u]
        /\ users'[Len(users) + 1] = v
    BY <1>4, <2>1, AppendProperties
  <2>3. Len(users') <= MaxUsers
    BY <1>4, <2>1, <2>2
  <2> QED
    BY <1>1, <1>2, <1>3, <1>4, <2>2, <2>3 DEF CreateUser
<1> QED
  BY <1>1, <1>2, <1>3, <1>4 DEF CreateUser

\* A new user is typed, and has the next number.
LEMMA CreateUserKeepsTypes ==
  ASSUME TypeInv, NEW h \in Handlers, CreateUser(h)
  PROVE  TypeInv'
<1>1. PICK r \in Request : r = requests[h] /\ Typed(r, Len(users)) /\ r.at = "create"
  BY Holds DEF CreateUser, At
<1>2. r.code \in Code
  BY <1>1 DEF Typed, Using
<1>3. users' \in Seq(User) /\ Len(users) <= Len(users') /\ Len(users') \in Nat /\ Len(users') <= MaxUsers
  <2>1. CASE users' = users
    BY <2>1, UsersLength DEF TypeInv, TypeOK
  <2> QED
    BY <2>1, CreateUserIs, UsersLength
<1>4. uses' \in [Number -> Nat]
  BY <1>1, <1>2, CreateUserIs, UsedTyped DEF TypeInv, TypeOK
<1>5. RequestsTyped'
  BY <1>3, CreateUserIs, ReturnTyped
<1>6. /\ pending' \in [Emails -> Names \cup {None}] /\ codes' \subseteq codes
      /\ faults' \in 0..MaxFaults /\ shared' \subseteq Number
      /\ verified' \subseteq Emails /\ excused' \subseteq Emails /\ UNCHANGED <<mail, begun>>
  BY CreateUserIs DEF redis, TypeInv, TypeOK
<1> QED
  BY <1>3, <1>4, <1>5, <1>6, StepTyped

\* One user, before and after an update.
Renamed(u, v, x) ==
  /\ v.name = x /\ v.email = u.email /\ v.changes = u.changes + 1 /\ v.early = u.early
Moved(u, v, e) ==
  /\ v.email = e /\ v.changes = u.changes /\ v.early = u.early
Alike(u, v) ==
  /\ v.email = u.email /\ v.changes = u.changes /\ v.early = u.early

\* What an update does to the one user it changes.
LEMMA UpdateIs ==
  ASSUME TypeInv, NEW h \in Handlers, Update(h)
  PROVE  /\ Return(h) /\ UNCHANGED <<redis, mail, begun, faults, shared, verified>>
         /\ requests[h].user \in 1..Len(users)
         /\ \/ UNCHANGED <<users, uses, excused>>
            \/ \E v \in User :
                 /\ users' = [users EXCEPT ![requests[h].user] = v]
                 /\ \/ /\ requests[h].op = "changeUsername"
                       /\ Renamed(users[requests[h].user], v, requests[h].name)
                       /\ Used(h) /\ UNCHANGED excused
                    \/ /\ requests[h].op = "verifyNewEmail"
                       /\ Moved(users[requests[h].user], v, requests[h].email)
                       /\ Used(h) /\ excused' = excused \cup {users[requests[h].user].email}
                    \/ /\ requests[h].op = "forgotPassword"
                       /\ Alike(users[requests[h].user], v)
                       /\ Used(h) /\ UNCHANGED excused
                    \/ /\ requests[h].op = "changePassword"
                       /\ Alike(users[requests[h].user], v)
                       /\ UNCHANGED <<uses, excused>>
<1>1. PICK r \in Request : r = requests[h] /\ Typed(r, Len(users)) /\ r.at = "update"
  BY Holds DEF Update, At
<1>2. r.user \in 1..Len(users)
  BY <1>1 DEF Typed, Anonymous
<1>3. PICK u \in User : u = users[r.user]
  BY <1>2, UsersLength
<1>4. Return(h) /\ UNCHANGED <<redis, mail, begun, faults, shared, verified>>
  BY DEF Update
<1>5. CASE r.op = "changeUsername"
  <2>1. r.name \in Names
    BY <1>1, <1>5 DEF Typed
  <2> DEFINE v == [u EXCEPT !.name = r.name, !.changes = @ + 1]
  <2>2. v \in User /\ Renamed(u, v, r.name)
    <3>1. v \in User
      <4>1. PICK w \in User : w = [u EXCEPT !.name = r.name]
        BY <2>1 DEF User
      <4>2. [w EXCEPT !.changes = @ + 1] \in User
        BY DEF User
      <4> QED
        BY <4>1, <4>2
    <3>2. v.name = r.name /\ v.email = u.email /\ v.early = u.early
      BY DEF User
    <3>3. v.changes = u.changes + 1
      BY DEF User
    <3> QED
      BY <3>1, <3>2, <3>3 DEF Renamed
  <2>3. \/ UNCHANGED <<users, uses, excused>>
        \/ users' = [users EXCEPT ![r.user] = v] /\ Used(h) /\ UNCHANGED excused
    BY <1>1, <1>3, <1>5 DEF Update
  <2> HIDE DEF v
  <2> QED
    BY <1>1, <1>2, <1>3, <1>4, <1>5, <2>2, <2>3
<1>6. CASE r.op = "verifyNewEmail"
  <2>1. r.email \in Emails
    BY <1>1, <1>6 DEF Typed, Asking
  <2> DEFINE v == [u EXCEPT !.email = r.email]
  <2>2. v \in User /\ Moved(u, v, r.email)
    BY <2>1 DEF User, Moved
  <2>3. \/ UNCHANGED <<users, uses, excused>>
        \/ users' = [users EXCEPT ![r.user] = v] /\ Used(h) /\ excused' = excused \cup {u.email}
    BY <1>1, <1>3, <1>6 DEF Update
  <2> HIDE DEF v
  <2> QED
    BY <1>1, <1>2, <1>3, <1>4, <1>6, <2>2, <2>3
<1>7. CASE r.op \in {"forgotPassword", "changePassword"}
  <2> DEFINE v == [u EXCEPT !.password = "changed"]
  <2>1. v \in User /\ Alike(u, v)
    BY DEF User, Alike
  <2>2. users' = [users EXCEPT ![r.user] = v] /\ UNCHANGED excused
    BY <1>1, <1>3, <1>7 DEF Update
  <2>3. IF r.op = "forgotPassword" THEN Used(h) ELSE UNCHANGED uses
    BY <1>1, <1>7 DEF Update
  <2> HIDE DEF v
  <2> QED
    BY <1>1, <1>2, <1>3, <1>4, <1>7, <2>1, <2>2, <2>3
<1> QED
  BY <1>1, <1>5, <1>6, <1>7 DEF Typed

\* An update keeps types.
LEMMA UpdateKeepsTypes ==
  ASSUME TypeInv, NEW h \in Handlers, Update(h)
  PROVE  TypeInv'
<1>1. PICK r \in Request : r = requests[h] /\ Typed(r, Len(users)) /\ r.at = "update"
  BY Holds DEF Update, At
<1>2. users' \in Seq(User) /\ Len(users') = Len(users)
  <2>1. CASE users' = users
    BY <2>1 DEF TypeInv, TypeOK
  <2>2. CASE \E v \in User : users' = [users EXCEPT ![r.user] = v]
    BY <1>1, <2>2, UpdateIs, UserChanges
  <2> QED
    BY <1>1, <2>1, <2>2, UpdateIs
<1>3. uses' \in [Number -> Nat]
  <2>1. CASE uses' = uses
    BY <2>1 DEF TypeInv, TypeOK
  <2>2. CASE r.op \in Using /\ Used(h)
    BY <1>1, <2>2, UsedTyped DEF Typed
  <2> QED
    BY <1>1, <2>1, <2>2, UpdateIs DEF Using
<1>4. excused' \subseteq Emails
  <2>1. users[r.user].email \in Emails
    BY <1>1, UpdateIs, UsersLength DEF User
  <2> QED
    BY <1>1, <2>1, UpdateIs DEF TypeInv, TypeOK
<1>5. Len(users) \in Nat /\ Len(users') <= MaxUsers
  BY <1>2, UsersLength DEF TypeInv, TypeOK
<1>6. RequestsTyped'
  BY <1>2, <1>5, UpdateIs, ReturnTyped
<1>7. /\ pending' \in [Emails -> Names \cup {None}] /\ codes' \subseteq codes
      /\ faults' \in 0..MaxFaults /\ shared' \subseteq Number
      /\ verified' \subseteq Emails /\ UNCHANGED <<mail, begun>>
  BY UpdateIs DEF redis, TypeInv, TypeOK
<1> QED
  BY <1>2, <1>3, <1>4, <1>5, <1>6, <1>7, StepTyped

\* The user whose account is turned off or on.
LEMMA SaveActiveIs ==
  ASSUME TypeInv, NEW h \in Handlers, SaveActive(h)
  PROVE  /\ Return(h) /\ UNCHANGED <<redis, mail, begun, faults, history>>
         /\ requests[h].user \in 1..Len(users)
         /\ \E v \in User :
              users' = [users EXCEPT ![requests[h].user] = v] /\ Alike(users[requests[h].user], v)
<1>1. PICK r \in Request : r = requests[h] /\ Typed(r, Len(users)) /\ r.at = "saveActive"
  BY Holds DEF SaveActive, At
<1>2. r.user \in 1..Len(users)
  BY <1>1 DEF Typed, Anonymous
<1>3. PICK u \in User : u = users[r.user]
  BY <1>2, UsersLength
<1>4. PICK b \in BOOLEAN : users' = [users EXCEPT ![r.user].active = b]
  BY <1>1 DEF SaveActive
<1> DEFINE v == [u EXCEPT !.active = b]
<1>5. v \in User /\ Alike(u, v)
  BY DEF User, Alike
<1>6. users' = [users EXCEPT ![r.user] = v]
  BY <1>3, <1>4
<1> HIDE DEF v
<1> QED
  BY <1>1, <1>2, <1>3, <1>5, <1>6 DEF SaveActive

\* Activating an account keeps types.
LEMMA SaveActiveKeepsTypes ==
  ASSUME TypeInv, NEW h \in Handlers, SaveActive(h)
  PROVE  TypeInv'
<1>1. users' \in Seq(User) /\ Len(users') = Len(users)
  BY SaveActiveIs, UserChanges
<1>2. Len(users) \in Nat /\ Len(users') <= MaxUsers
  BY <1>1, UsersLength DEF TypeInv, TypeOK
<1>3. RequestsTyped'
  BY <1>1, <1>2, SaveActiveIs, ReturnTyped
<1>4. /\ pending' \in [Emails -> Names \cup {None}] /\ codes' \subseteq codes
      /\ faults' \in 0..MaxFaults /\ shared' \subseteq Number /\ uses' \in [Number -> Nat]
      /\ verified' \subseteq Emails /\ excused' \subseteq Emails /\ UNCHANGED <<mail, begun>>
  BY SaveActiveIs DEF redis, history, TypeInv, TypeOK
<1> QED
  BY <1>1, <1>2, <1>3, <1>4, StepTyped

\* Sending an email keeps types.
LEMMA HandleEmailKeepsTypes ==
  ASSUME TypeInv, NEW c \in outbox, HandleEmailRequest(c)
  PROVE  TypeInv'
<1>1. UNCHANGED <<users, redis, requests, begun, history>> /\ faults' \in 0..MaxFaults
  BY DEF HandleEmailRequest, Fault, TypeInv, TypeOK
<1>2. codes' \cup outbox' \cup inbox' \subseteq codes \cup outbox \cup inbox \cup {}
  BY <1>1 DEF HandleEmailRequest, redis
<1>3. CodesTyped({}, Len(users)) /\ {} \subseteq Code
  BY DEF CodesTyped
<1>4. RequestsTyped'
  BY <1>1 DEF TypeInv, TypeOK, RequestsTyped, Busy, Typed, KindFor
<1>5. /\ users' \in Seq(User) /\ Len(users') = Len(users) /\ Len(users) \in Nat
      /\ Len(users') <= MaxUsers /\ pending' \in [Emails -> Names \cup {None}]
      /\ begun' \in 0..MaxRequests /\ uses' \in [Number -> Nat]
      /\ shared' \subseteq Number /\ verified' \subseteq Emails /\ excused' \subseteq Emails
  BY <1>1, UsersLength DEF TypeInv, TypeOK, redis, history
<1> QED
  BY <1>1, <1>2, <1>3, <1>4, <1>5, RestTyped

\* Thirty days later.
LEMMA RestIs ==
  ASSUME TypeInv, Rest
  PROVE  /\ users' \in Seq(User) /\ Len(users') = Len(users)
         /\ \A u \in 1..Len(users) :
              users'[u].changes = 0 /\ users'[u].early = 0 /\ users'[u].email = users[u].email
<1>1. users \in [1..Len(users) -> User] /\ Len(users) \in Nat
  BY UsersLength
<1>2. users' = [u \in 1..Len(users) |-> [users[u] EXCEPT !.changes = 0, !.early = 0]]
  BY UsersLength DEF Rest
<1>3. ASSUME NEW v \in User
      PROVE  /\ [v EXCEPT !.changes = 0, !.early = 0] \in User
             /\ [v EXCEPT !.changes = 0, !.early = 0].changes = 0
             /\ [v EXCEPT !.changes = 0, !.early = 0].early = 0
             /\ [v EXCEPT !.changes = 0, !.early = 0].email = v.email
  <2> DEFINE w == [v EXCEPT !.changes = 0, !.early = 0]
  <2>1. w \in User
    BY DEF User
  <2>2. w.changes = 0 /\ w.early = 0 /\ w.email = v.email
    BY DEF User
  <2> QED
    BY <2>1, <2>2
<1>4. \A u \in 1..Len(users) :
        /\ users'[u] \in User /\ users'[u].changes = 0 /\ users'[u].early = 0
        /\ users'[u].email = users[u].email
  BY <1>1, <1>2, <1>3
<1>5. users' \in [1..Len(users) -> User]
  BY <1>1, <1>2, <1>4
<1>6. users' \in Seq(User)
  BY <1>1, <1>5, SeqDef
<1>7. Len(users') = Len(users)
  BY <1>1, <1>5, <1>6, LenProperties
<1> QED
  BY <1>4, <1>6, <1>7

\* Expiry, lost emails and time keep types.
LEMMA RestKeepsTypes ==
  ASSUME TypeInv, Rest
  PROVE  TypeInv'
<1>1. users' \in Seq(User) /\ Len(users') = Len(users) /\ Len(users) \in Nat /\ Len(users') <= MaxUsers
  BY RestIs, UsersLength DEF TypeInv, TypeOK
<1>2. RequestsTyped'
  BY DEF Rest, RequestsTyped, Busy
<1>3. /\ pending' \in [Emails -> Names \cup {None}] /\ codes' \subseteq codes
      /\ faults' \in 0..MaxFaults /\ shared' \subseteq Number /\ uses' \in [Number -> Nat]
      /\ verified' \subseteq Emails /\ excused' \subseteq Emails /\ UNCHANGED <<mail, begun>>
  BY DEF Rest, TypeInv, TypeOK
<1> QED
  BY <1>1, <1>2, <1>3, StepTyped

\* A failed query keeps types.
LEMMA FailsKeepsTypes ==
  ASSUME TypeInv, NEW h \in Handlers, Fails(h)
  PROVE  TypeInv'
<1>1. PICK r \in Request : r = requests[h] /\ Typed(r, Len(users)) /\ Busy(h)
  BY Holds DEF Fails
<1>2. /\ UNCHANGED <<users, redis, mail, begun, uses, shared, verified>> /\ Return(h)
      /\ faults' \in 0..MaxFaults
  BY DEF Fails, Fault, TypeInv, TypeOK
<1>3. excused' \subseteq Emails
  BY <1>1 DEF Fails, Typed, TypeInv, TypeOK
<1>4. RequestsTyped'
  BY <1>2, ReturnTyped, UsersLength
<1>5. pending' \in [Emails -> Names \cup {None}]
  BY <1>2 DEF redis, TypeInv, TypeOK
<1> QED
  BY <1>2, <1>3, <1>4, <1>5, OthersKeepTypes DEF redis

\* Every step keeps types.
LEMMA TypeNext ==
  ASSUME TypeInv, [Next]_vars
  PROVE  TypeInv'
<1>1. ASSUME NEW h \in Handlers, BeginSomething(h)
      PROVE  TypeInv'
  BY <1>1, BeginsAre, BeginKeepsTypes
<1>2. ASSUME NEW h \in Handlers, Step(h)
      PROVE  TypeInv'
  BY <1>2, SetCodeKeepsTypes, GetCodeKeepsTypes, DelCodeKeepsTypes, RegistrationKeepsTypes,
     GetInfoKeepsTypes, CreateUserKeepsTypes, UpdateKeepsTypes, SaveActiveKeepsTypes DEF Step
<1>3. ASSUME NEW h \in Handlers, Fails(h)
      PROVE  TypeInv'
  BY <1>3, FailsKeepsTypes
<1>4. CASE UNCHANGED vars
  BY <1>4 DEF vars, TypeInv, TypeOK, Busy, Typed, CodesTyped, KindFor
<1> QED
  BY <1>1, <1>2, <1>3, <1>4, HandleEmailKeepsTypes, RestKeepsTypes DEF Next

\* TypeOK: among others, the counters of a user stay natural numbers and every list of
\* codes holds codes.
THEOREM TypeCorrect == Spec => []TypeOK
<1>1. Init => TypeInv
  BY TypeInit
<1>2. TypeInv /\ [Next]_vars => TypeInv'
  BY TypeNext
<1>3. TypeInv => TypeOK
  BY DEF TypeInv
<1> QED
  BY <1>1, <1>2, <1>3, PTL DEF Spec

-----------------------------------------------------------------------------
(* Addresses *)

\* What a request of each step becomes: it goes on as it is, or ends.
Goes(h) ==
  \/ Return(h)
  \/ \E e \in Request : Becomes(h, e) /\ Same(e, requests[h])

\* A step of a request ends it or moves it on, and begins none.
LEMMA StepGoes ==
  ASSUME TypeInv, NEW h \in Handlers, Step(h)
  PROVE  Busy(h) /\ Goes(h) /\ begun' = begun /\ inbox' = inbox
<1>1. Busy(h)
  BY DEF Step, SetCode, Send, GetCode, DelCode, ExistsName, SetInfo, Register, GetInfo, Exists,
     DelInfo, CreateUser, Update, SaveActive, At
<1>2. ASSUME NEW q \in Queries, Goto(h, q)
      PROVE  Goes(h)
  BY <1>1, <1>2, GotoIs DEF Goes
<1>3. begun' = begun /\ inbox' = inbox
  BY DEF Step, SetCode, Send, GetCode, DelCode, AfterDelCode, ExistsName, SetInfo, Register, GetInfo,
     Exists, DelInfo, CreateUser, Update, SaveActive, mail
<1>4. ASSUME Return(h)
      PROVE  Goes(h)
  BY <1>4 DEF Goes
<1>5. CASE SetCode(h) \/ CreateUser(h) \/ Update(h) \/ SaveActive(h)
  <2>1. Return(h)
    BY <1>5, UpdateIs, SaveActiveIs, CreateUserIs DEF SetCode, Send
  <2> QED
    BY <1>1, <1>3, <1>4, <2>1
<1>6. CASE GetCode(h) \/ DelCode(h)
  <2>1. \E q \in Queries : Goto(h, q) \/ Return(h)
    BY <1>6 DEF GetCode, DelCode, AfterDelCode, Queries
  <2> QED
    BY <1>1, <1>2, <1>3, <1>4, <2>1
<1>7. CASE ExistsName(h) \/ SetInfo(h) \/ Exists(h) \/ DelInfo(h)
  <2>1. \E q \in Queries : Goto(h, q) \/ Return(h)
    BY <1>7 DEF ExistsName, SetInfo, Register, Exists, DelInfo, Queries
  <2> QED
    BY <1>1, <1>2, <1>3, <1>4, <2>1
<1>8. CASE GetInfo(h)
  <2>1. Return(h) \/ \E e \in Request : Becomes(h, e) /\ Same(e, requests[h])
    BY <1>8, GetInfoIs
  <2> QED
    BY <1>1, <1>3, <2>1 DEF Goes
<1> QED
  BY <1>1, <1>3, <1>5, <1>6, <1>7, <1>8 DEF Step

Proven(e) == \E c \in inbox : c.kind \in {"register", "newEmail"} /\ c.to = e
Proving == {"verifyRegister", "verifyNewEmail"}

\* A request that may give an address to a user has had a code that was sent there.
EmailInv ==
  /\ \A h \in Handlers : Busy(h) /\ requests[h].op \in Proving => Proven(requests[h].email)
  /\ EmailProven

\* An address that was proven stays so: emails are not taken back.
LEMMA ProvenKept ==
  ASSUME inbox \subseteq inbox', NEW e, Proven(e)
  PROVE  Proven(e)'
BY DEF Proven

\* What a step owes: the request and the users it leaves have proven addresses.
LEMMA EmailKept ==
  ASSUME TypeInv, EmailInv, NEW h \in Handlers, inbox \subseteq inbox',
         NEW r \in Request \cup {None}, Becomes(h, r),
         r # None /\ r.op \in Proving => Proven(r.email),
         Uid' \in SUBSET Nat, \A u \in Uid' : Proven(users'[u].email)
  PROVE  EmailInv'
<1>1. \A g \in Handlers : requests'[g] = IF g = h THEN r ELSE requests[g]
  BY DEF TypeInv, TypeOK, Becomes
<1>2. \A g \in Handlers : requests'[g] # None /\ requests'[g].op \in Proving => Proven(requests'[g].email)
  BY <1>1 DEF EmailInv, Busy
<1>3. \A g \in Handlers : (Busy(g) /\ requests[g].op \in Proving => Proven(requests[g].email))'
  BY <1>2, ProvenKept DEF Busy
<1>4. \A u \in Uid' : Proven(users[u].email)'
  BY ProvenKept
<1> QED
  BY <1>3, <1>4 DEF EmailInv, EmailProven, Proven

\* Of steps that give no address to a user.
LEMMA SameAddresses ==
  ASSUME TypeInv, EmailInv, NEW u \in Uid
  PROVE  Proven(users[u].email)
BY DEF EmailInv, EmailProven, Proven

\* Every query of a request keeps addresses proven.
LEMMA EmailStep ==
  ASSUME TypeInv, EmailInv, NEW h \in Handlers, Step(h)
  PROVE  EmailInv'
<1>1. Busy(h) /\ Goes(h) /\ inbox' = inbox
  BY StepGoes
<1>2. PICK r \in Request \cup {None} :
        Becomes(h, r) /\ (r # None => Same(r, requests[h]))
  BY <1>1 DEF Goes, Return
<1>3. r # None /\ r.op \in Proving => Proven(r.email)
  BY <1>1, <1>2 DEF Same, EmailInv
<1>4. Uid' \in SUBSET Nat
  BY TypeNext, LenProperties DEF Next, TypeInv, TypeOK, Uid
<1>5. CASE users' = users
  BY <1>1, <1>2, <1>3, <1>4, <1>5, EmailKept, SameAddresses DEF Uid
<1>6. CASE CreateUser(h)
  <2>1. requests[h].op = "verifyRegister"
    BY <1>6, Holds DEF CreateUser, At, Typed
  <2>2. Proven(requests[h].email)
    BY <1>1, <2>1 DEF EmailInv, Proving
  <2>3. CASE users' # users
    <3>1. /\ users' \in Seq(User) /\ Len(users') = Len(users) + 1
          /\ \A u \in 1..Len(users) : users'[u] = users[u]
          /\ users'[Len(users) + 1].email = requests[h].email
      BY <1>6, <2>3, CreateUserIs
    <3>2. Uid' = 1..(Len(users) + 1) /\ Uid = 1..Len(users) /\ Len(users) \in Nat
      BY <3>1, UsersLength, LenProperties DEF Uid
    <3>3. \A u \in Uid' : Proven(users'[u].email)
      BY <2>2, <3>1, <3>2, SameAddresses
    <3> QED
      BY <1>1, <1>2, <1>3, <1>4, <3>3, EmailKept
  <2> QED
    BY <1>5, <2>3
<1>7. CASE Update(h) \/ SaveActive(h)
  <2>1. PICK v \in User :
          /\ users' = [users EXCEPT ![requests[h].user] = v] /\ requests[h].user \in 1..Len(users)
          /\ \/ v.email = users[requests[h].user].email
             \/ requests[h].op = "verifyNewEmail" /\ v.email = requests[h].email
          \/ users' = users
    <3>1. CASE Update(h)
      BY <3>1, UpdateIs, UsersLength DEF Renamed, Moved, Alike
    <3>2. CASE SaveActive(h)
      BY <3>2, SaveActiveIs DEF Alike
    <3> QED
      BY <1>7, <3>1, <3>2
  <2>2. CASE users' # users
    <3>1. Uid' = Uid /\ Uid = 1..Len(users)
          /\ \A w \in Uid : users'[w] = IF w = requests[h].user THEN v ELSE users[w]
      BY <2>1, <2>2, UserChanges, UsersLength
    <3>2. Proven(v.email)
      BY <1>1, <2>1, <2>2, <3>1, SameAddresses DEF EmailInv, Proving
    <3>3. \A u \in Uid' : Proven(users'[u].email)
      BY <3>1, <3>2, SameAddresses
    <3> QED
      BY <1>1, <1>2, <1>3, <1>4, <3>3, EmailKept
  <2> QED
    BY <1>5, <2>2
<1>8. CASE ~CreateUser(h) /\ ~Update(h) /\ ~SaveActive(h)
  BY <1>5, <1>8 DEF Step, SetCode, Send, GetCode, DelCode, AfterDelCode, ExistsName, SetInfo,
     Register, GetInfo, Exists, DelInfo
<1> QED
  BY <1>6, <1>7, <1>8

\* What a new request does to the users.
LEMMA BeginUsers ==
  ASSUME TypeInv, NEW h \in Handlers, NEW r, Starts(h, r)
  PROVE  /\ users' \in Seq(User) /\ Len(users') = Len(users) /\ Uid' = Uid
         /\ \A u \in Uid :
              /\ users'[u].email = users[u].email /\ users'[u].changes = users[u].changes
              /\ users'[u].early =
                   IF r.op = "askUsername" /\ r.user = u THEN users[u].early + 1 ELSE users[u].early
<1>1. users \in Seq(User) /\ Uid = 1..Len(users)
  BY UsersLength DEF TypeInv, TypeOK
<1>2. CASE r.op # "askUsername"
  BY <1>1, <1>2 DEF Starts, Uid
<1>3. CASE r.op = "askUsername"
  <2>1. r.user \in 1..Len(users)
    BY <1>3 DEF Starts, Typed, Anonymous
  <2>2. PICK u \in User : u = users[r.user]
    BY <2>1, UsersLength
  <2> DEFINE v == [u EXCEPT !.early = @ + 1]
  <2>3. users' = [users EXCEPT ![r.user] = v]
    BY <1>3, <2>2 DEF Starts, Using
  <2>4. v \in User
    BY DEF User
  <2>5. v.email = u.email /\ v.changes = u.changes
    BY DEF User
  <2>6. v.early = u.early + 1
    BY DEF User
  <2> HIDE DEF v
  <2>7. /\ users' \in Seq(User) /\ Len(users') = Len(users) /\ Uid' = Uid
        /\ \A w \in Uid : users'[w] = IF w = r.user THEN v ELSE users[w]
    BY <1>1, <2>1, <2>3, <2>4, UserChanges
  <2> QED
    BY <1>3, <2>2, <2>5, <2>6, <2>7
<1> QED
  BY <1>2, <1>3

\* A request that begins with a code has it from the mail.
LEMMA EmailBegin ==
  ASSUME TypeInv, EmailInv, NEW h \in Handlers, BeginSomething(h)
  PROVE  EmailInv'
<1>1. PICK r : Starts(h, r)
  BY BeginsAre
<1>2. r \in Request /\ Typed(r, Len(users)) /\ Becomes(h, r) /\ inbox' = inbox
  BY <1>1 DEF Starts, BeginAs, mail
<1>3. ASSUME r.op \in Proving
      PROVE  Proven(r.email)
  <2>1. r.code \in inbox /\ r.email = r.code.email
    BY <1>1, <1>3 DEF Starts, Proving
  <2>2. r.code.kind \in {"register", "newEmail"}
    BY <1>2, <1>3 DEF Typed, Using, Proving, KindFor
  <2>3. r.code.to = r.code.email
    BY <2>1 DEF TypeInv, CodesTyped
  <2> QED
    BY <2>1, <2>2, <2>3 DEF Proven
<1>4. Uid' \in SUBSET Nat /\ \A u \in Uid' : Proven(users'[u].email)
  BY <1>1, BeginUsers, SameAddresses, UsersLength
<1> QED
  BY <1>2, <1>3, <1>4, EmailKept

\* Every step keeps addresses proven.
LEMMA EmailNext ==
  ASSUME TypeInv, EmailInv, [Next]_vars
  PROVE  EmailInv'
<1>1. ASSUME NEW h \in Handlers, Fails(h)
      PROVE  EmailInv'
  <2>1. Becomes(h, None) /\ inbox' = inbox /\ users' = users
    BY <1>1 DEF Fails, Return, mail
  <2>2. Uid' \in SUBSET Nat /\ \A u \in Uid' : Proven(users'[u].email)
    BY <2>1, SameAddresses, UsersLength DEF Uid
  <2> QED
    BY <2>1, <2>2, EmailKept
<1>2. ASSUME NEW c \in outbox, HandleEmailRequest(c)
      PROVE  EmailInv'
  <2>1. inbox \subseteq inbox' /\ UNCHANGED <<users, requests>>
    BY <1>2 DEF HandleEmailRequest
  <2> QED
    BY <2>1, ProvenKept, SameAddresses DEF EmailInv, EmailProven, Proven, Busy, Uid
<1>3. CASE Rest
  <2>1. /\ UNCHANGED <<inbox, requests>> /\ \A h \in Handlers : ~Busy(h)'
    BY <1>3 DEF Rest, mail, Busy
  <2>2. Uid' = Uid /\ \A u \in Uid : users'[u].email = users[u].email
    BY <1>3, RestIs, UsersLength, LenProperties DEF Uid
  <2> QED
    BY <2>1, <2>2 DEF EmailInv, EmailProven
<1>4. CASE UNCHANGED vars
  BY <1>4 DEF vars, EmailInv, EmailProven, Proven, Busy, Uid
<1> QED
  BY <1>1, <1>2, <1>3, <1>4, EmailStep, EmailBegin DEF Next

\* EmailProven: whoever holds an address has had a code sent there.
THEOREM EmailCorrect == Spec => []EmailProven
<1>1. Init => TypeInv /\ EmailInv
  <2> SUFFICES ASSUME Init
               PROVE  EmailInv
    BY TypeInit
  <2>1. \A h \in Handlers : ~Busy(h)
    BY DEF Init, Busy
  <2>2. ASSUME NEW u \in Uid
        PROVE  Proven(users[u].email)
    <3>1. PICK x \in Names, e \in Emails :
            /\ users = <<NewUser(x, e)>>
            /\ inbox = {[kind |-> "register", n |-> 0, user |-> 0, email |-> e, to |-> e]}
      BY <2>2 DEF Init, Uid
    <3>2. users[u].email = e
      BY <2>2, <3>1 DEF Uid, NewUser
    <3> QED
      BY <3>1, <3>2 DEF Proven
  <2> QED
    BY <2>1, <2>2 DEF EmailInv, EmailProven, Proven
<1>2. TypeInv /\ EmailInv /\ [Next]_vars => (TypeInv /\ EmailInv)'
  BY TypeNext, EmailNext
<1>3. EmailInv => EmailProven
  BY DEF EmailInv
<1> QED
  BY <1>1, <1>2, <1>3, PTL DEF Spec

-----------------------------------------------------------------------------
(* Registrations *)

\* Request r has to do with the registration of e, which has not been used.
Wants(r, e) ==
  /\ r.email = e
  /\ \/ r.op \in {"register", "resend"} /\ r.at = "setCode"
     \/ r.op = "verifyRegister" /\ r.at \in {"delCode", "getInfo"}

RegisterCode(c, e) == c.kind = "register" /\ c.email = e

Waits(e) ==
  \/ \E c \in codes : RegisterCode(c, e)
  \/ \E h \in Handlers : Busy(h) /\ Wants(requests[h], e)

Creating(e) == \E h \in Handlers : At(h, "create") /\ requests[h].email = e

\* When the data of such a registration is gone, a request that took it is about to
\* make the account, or has.
RegisterInv ==
  /\ \A e \in Emails \ excused : Waits(e) /\ pending[e] = None => EmailTaken(e) \/ Creating(e)
  /\ VerifiedHasAccount

Verifies(h) == Busy(h) /\ requests[h].op = "verifyRegister"

\* A request goes on, or ends: where the codes, the data, the addresses come from.
LEMMA RegisterKept ==
  ASSUME TypeInv, TypeInv', RegisterInv, NEW h \in Handlers, NEW r \in Request \cup {None}, Becomes(h, r),
         excused \subseteq excused',
         \A c \in codes' : \A e \in Emails :
           RegisterCode(c, e) => c \in codes \/ (Busy(h) /\ Wants(requests[h], e)),
         \A e \in Emails :
           pending'[e] = None =>
             pending[e] = None \/ e \in excused' \/ (r # None /\ r.at = "create" /\ r.email = e),
         \A e \in Emails : EmailTaken(e) => EmailTaken(e)' \/ e \in excused',
         \A e \in Emails :
           r # None /\ Wants(r, e) =>
             \/ pending'[e] # None
             \/ Busy(h) /\ Wants(requests[h], e)
             \/ \E c \in codes : RegisterCode(c, e),
         \A e \in Emails :
           At(h, "create") /\ requests[h].email = e => EmailTaken(e)' \/ e \in excused',
         \A e \in Emails :
           Verifies(h) /\ requests[h].email = e =>
             \/ r # None /\ Same(r, requests[h])
             \/ EmailTaken(e)' \/ e \in excused'
             \/ requests[h].at = "getInfo" /\ pending[e] = None,
         \A e \in verified' :
           e \in verified \/ (Verifies(h) /\ requests[h].email = e /\ r # None /\ Same(r, requests[h]))
  PROVE  RegisterInv'
<1>1. \A g \in Handlers : requests'[g] = IF g = h THEN r ELSE requests[g]
  BY DEF TypeInv, TypeOK, Becomes
<1>2. ASSUME NEW e \in Emails, e \notin excused', Creating(e)
      PROVE  EmailTaken(e)' \/ Creating(e)'
  <2>1. PICK g \in Handlers : At(g, "create") /\ requests[g].email = e
    BY <1>2 DEF Creating
  <2>2. CASE g = h
    BY <1>2, <2>1, <2>2
  <2>3. CASE g # h
    <3>1. At(g, "create")' /\ requests'[g].email = e
      BY <1>1, <2>1, <2>3 DEF At, Busy
    <3> QED
      BY <3>1 DEF Creating
  <2> QED
    BY <2>2, <2>3
<1>3. ASSUME NEW e \in Emails, e \notin excused', Waits(e)', pending'[e] = None
      PROVE  EmailTaken(e)' \/ Creating(e)'
  <2>1. CASE r # None /\ r.at = "create" /\ r.email = e
    <3>1. At(h, "create")' /\ requests'[h].email = e
      BY <1>1, <2>1 DEF At, Busy
    <3> QED
      BY <3>1 DEF Creating
  <2>2. CASE pending[e] = None
    <3>1. Waits(e)
      <4>1. ASSUME NEW c \in codes', RegisterCode(c, e)
            PROVE  Waits(e)
        BY <4>1 DEF Waits
      <4>2. ASSUME NEW g \in Handlers, requests'[g] # None, Wants(requests'[g], e)
            PROVE  Waits(e)
        <5>1. CASE g = h
          BY <1>1, <1>3, <4>2, <5>1 DEF Waits
        <5>2. CASE g # h
          BY <1>1, <4>2, <5>2 DEF Waits, Busy
        <5> QED
          BY <5>1, <5>2
      <4> QED
        BY <1>3, <4>1, <4>2 DEF Waits, RegisterCode, Busy, Wants
    <3>2. EmailTaken(e) \/ Creating(e)
      BY <1>3, <2>2, <3>1 DEF RegisterInv
    <3> QED
      BY <1>2, <1>3, <3>2
  <2> QED
    BY <1>3, <2>1, <2>2
<1>4. ASSUME NEW e \in verified', e \notin excused'
      PROVE  \/ EmailTaken(e)'
             \/ \E g \in Handlers : Verifies(g)' /\ requests'[g].email = e
  <2>0. e \in Emails
    BY DEF TypeInv, TypeOK
  <2>1. ASSUME r # None, Verifies(h), requests[h].email = e, Same(r, requests[h])
        PROVE  Verifies(h)' /\ requests'[h].email = e
    BY <1>1, <2>1 DEF Verifies, Busy, Same
  <2>2. ASSUME NEW g \in Handlers, g # h, Verifies(g), requests[g].email = e
        PROVE  Verifies(g)' /\ requests'[g].email = e
    BY <1>1, <2>2 DEF Verifies, Busy
  <2>3. CASE EmailTaken(e)
    BY <1>4, <2>0, <2>3
  <2>4. ASSUME Verifies(h), requests[h].email = e, requests[h].at = "getInfo", pending[e] = None
        PROVE  \/ EmailTaken(e)'
               \/ \E g \in Handlers : Verifies(g)' /\ requests'[g].email = e
    <3>1. Waits(e)
      BY <2>4 DEF Waits, Wants, Verifies
    <3>2. EmailTaken(e) \/ Creating(e)
      BY <1>4, <2>0, <2>4, <3>1 DEF RegisterInv
    <3>3. ASSUME Creating(e)
          PROVE  \E g \in Handlers : Verifies(g)' /\ requests'[g].email = e
      <4>1. PICK g \in Handlers : At(g, "create") /\ requests[g].email = e
        BY <3>3 DEF Creating
      <4>2. g # h /\ Verifies(g)
        BY <2>4, <4>1, Holds DEF Verifies, At, Typed
      <4> QED
        BY <2>2, <4>1, <4>2
    <3> QED
      BY <2>3, <3>2, <3>3
  <2>5. CASE e \in verified /\ ~EmailTaken(e)
    <3>1. PICK g \in Handlers : Verifies(g) /\ requests[g].email = e
      BY <1>4, <2>5 DEF RegisterInv, VerifiedHasAccount, Verifies
    <3>2. CASE g # h
      BY <2>2, <3>1, <3>2
    <3>3. CASE g = h
      BY <1>4, <2>0, <2>1, <2>4, <3>1, <3>3
    <3> QED
      BY <3>2, <3>3
  <2> QED
    BY <2>1, <2>3, <2>5
<1>5. VerifiedHasAccount'
  BY <1>4 DEF VerifiedHasAccount, Verifies
<1>6. \A e \in Emails \ excused' : Waits(e)' /\ pending'[e] = None => EmailTaken(e)' \/ Creating(e)'
  BY <1>3
<1> QED
  BY <1>5, <1>6 DEF RegisterInv

\* An address that is taken stays so, unless its user leaves it.
LEMMA TakenKept ==
  ASSUME TypeInv, NEW h \in Handlers, Step(h)
  PROVE  /\ excused \subseteq excused'
         /\ \A e \in Emails : EmailTaken(e) => EmailTaken(e)' \/ e \in excused'
<1>1. excused \subseteq excused'
  BY GetInfoIs, CreateUserIs, UpdateIs
     DEF Step, SetCode, Send, GetCode, DelCode, AfterDelCode, ExistsName, SetInfo, Register, Exists,
         DelInfo, SaveActive, history
<1>2. ASSUME UNCHANGED users
      PROVE  \A e \in Emails : EmailTaken(e) => EmailTaken(e)'
  BY <1>2 DEF EmailTaken, Uid
<1>3. CASE CreateUser(h)
  <2>1. CASE UNCHANGED users
    BY <1>1, <1>2, <2>1
  <2>2. CASE users' # users
    <3>1. users' \in Seq(User) /\ Len(users') = Len(users) + 1 /\ \A u \in 1..Len(users) : users'[u] = users[u]
      BY <1>3, <2>2, CreateUserIs
    <3>2. Uid \subseteq Uid' /\ \A u \in Uid : users'[u] = users[u]
      BY <3>1, UsersLength, LenProperties DEF Uid
    <3> QED
      BY <1>1, <3>2 DEF EmailTaken
  <2> QED
    BY <2>1, <2>2
<1>4. CASE Update(h) \/ SaveActive(h)
  <2>1. PICK v \in User :
          \/ UNCHANGED users
          \/ /\ users' = [users EXCEPT ![requests[h].user] = v] /\ requests[h].user \in 1..Len(users)
             /\ v.email = users[requests[h].user].email \/ users[requests[h].user].email \in excused'
    <3>1. CASE Update(h)
      BY <3>1, UpdateIs, UsersLength DEF Renamed, Moved, Alike
    <3>2. CASE SaveActive(h)
      BY <3>2, SaveActiveIs DEF Alike
    <3> QED
      BY <1>4, <3>1, <3>2
  <2>2. CASE UNCHANGED users
    BY <1>1, <1>2, <2>2
  <2>3. CASE ~UNCHANGED users
    <3>1. Uid' = Uid /\ Uid = 1..Len(users)
          /\ \A w \in Uid : users'[w] = IF w = requests[h].user THEN v ELSE users[w]
      BY <2>1, <2>3, UserChanges, UsersLength
    <3> QED
      BY <1>1, <2>1, <2>3, <3>1 DEF EmailTaken
  <2> QED
    BY <2>2, <2>3
<1>5. CASE ~CreateUser(h) /\ ~Update(h) /\ ~SaveActive(h)
  <2>1. UNCHANGED users
    BY <1>5 DEF Step, SetCode, Send, GetCode, DelCode, AfterDelCode, ExistsName, SetInfo,
       Register, GetInfo, Exists, DelInfo
  <2> QED
    BY <1>1, <1>2, <2>1
<1> QED
  BY <1>3, <1>4, <1>5

\* The steps that are neither part of a verification nor make a code or data.
LEMMA RegisterOther ==
  ASSUME TypeInv, TypeInv', RegisterInv, NEW h \in Handlers, NEW r \in Request \cup {None},
         Becomes(h, r), Step(h), ~Verifies(h),
         r # None => Same(r, requests[h]) /\ (r.op \in {"register", "resend"} => r.at # "setCode"),
         codes' \subseteq codes, verified' = verified,
         \A e \in Emails : pending'[e] = None => pending[e] = None \/ e \in excused'
  PROVE  RegisterInv'
<1>1. Busy(h) /\ (r # None => r.op = requests[h].op)
  BY StepGoes DEF Same
<1>2. requests[h].op # "verifyRegister" /\ requests[h].at # "create"
  BY <1>1, Holds DEF Verifies, Typed
<1>3. \A e \in Emails : ~(r # None /\ Wants(r, e))
  BY <1>1, <1>2 DEF Wants
<1>4. ~At(h, "create")
  BY <1>2 DEF At
<1> QED
  BY <1>3, <1>4, TakenKept, RegisterKept

\* A new code for a registration has its data beside it.
LEMMA RegisterSetCode ==
  ASSUME TypeInv, TypeInv', RegisterInv, NEW h \in Handlers, SetCode(h)
  PROVE  RegisterInv'
<1>1. PICK c \in Code :
        c = CodeOf(h) /\ c.kind = KindOf(requests[h].op) /\ c.email = requests[h].email
  BY CodeOfIs DEF SetCode, Send
<1>2. Becomes(h, None) /\ codes' = codes \cup {c} /\ UNCHANGED <<users, pending, history>> /\ Step(h)
  BY <1>1 DEF SetCode, Send, Return, Step
<1>3. Busy(h) /\ requests[h].at = "setCode"
  BY DEF SetCode, Send, At
<1>4. requests[h].op # "verifyRegister" /\ ~At(h, "create")
  BY <1>3, Holds DEF Typed, Asking, At
<1>5. ASSUME NEW d \in codes', NEW e \in Emails, RegisterCode(d, e)
      PROVE  d \in codes \/ (Busy(h) /\ Wants(requests[h], e))
  BY <1>1, <1>2, <1>3, <1>4, <1>5, Holds DEF RegisterCode, Wants, KindOf, Typed, Asking
<1> QED
  BY <1>2, <1>4, <1>5, TakenKept, RegisterKept DEF Verifies, history

\* The request that deletes a registration's code goes on to its data.
LEMMA RegisterDelCode ==
  ASSUME TypeInv, TypeInv', RegisterInv, NEW h \in Handlers, DelCode(h), Verifies(h)
  PROVE  RegisterInv'
<1>1. Goto(h, "getInfo") /\ verified' = verified \cup {requests[h].email}
  BY DEF DelCode, AfterDelCode, Verifies
<1>2. PICK r \in Request : Becomes(h, r) /\ Same(r, requests[h]) /\ r.at = "getInfo"
  BY <1>1, GotoIs DEF Verifies, Queries
<1>3. codes' \subseteq codes /\ UNCHANGED <<pending, excused>> /\ Step(h) /\ At(h, "delCode")
  BY DEF DelCode, AfterDelCode, Step
<1>4. \A e \in Emails : Wants(r, e) => Wants(requests[h], e)
  BY <1>2, <1>3 DEF Wants, Same, Verifies, At
<1> QED
  BY <1>1, <1>2, <1>3, <1>4, TakenKept, RegisterKept DEF Verifies, At

\* The rest of a verification, and the data of a registration.
LEMMA RegisterGetInfo ==
  ASSUME TypeInv, TypeInv', RegisterInv, NEW h \in Handlers, GetInfo(h)
  PROVE  RegisterInv'
<1>1. Busy(h) /\ requests[h].at = "getInfo" /\ requests[h].email \in Emails /\ ~At(h, "create")
  BY Holds DEF GetInfo, At, Typed, Asking
<1>2. UNCHANGED <<codes, verified>> /\ Step(h)
  BY GetInfoIs DEF Step
<1>3. CASE Return(h)
  <2>1. Becomes(h, None)
    BY <1>3 DEF Return
  <2>2. \/ pending[requests[h].email] = None
        \/ requests[h].email \in excused'
    BY <1>1, <1>3, GetInfoIs DEF GetInfo, Return, Becomes, TypeInv, TypeOK, Busy
  <2>3. \A e \in Emails : pending'[e] = None => pending[e] = None \/ e \in excused'
    BY <1>1, GetInfoIs DEF TypeInv, TypeOK
  <2> QED
    BY <1>1, <1>2, <2>1, <2>2, <2>3, TakenKept, RegisterKept
<1>4. CASE ~Return(h)
  <2>1. PICK r \in Request :
          /\ Becomes(h, r) /\ Same(r, requests[h])
          /\ r.at = IF requests[h].op = "register" THEN "setCode" ELSE "exists"
    BY <1>4, GetInfoIs
  <2>2. pending' = pending /\ pending[requests[h].email] # None
    BY <1>4, GetInfoIs
  <2>3. \A e \in Emails : Wants(r, e) => pending'[e] # None
    BY <2>1, <2>2 DEF Wants, Same
  <2> QED
    BY <1>1, <1>2, <2>1, <2>2, <2>3, TakenKept, RegisterKept DEF Verifies
<1> QED
  BY <1>3, <1>4

\* The request that has deleted the data makes the account, or is excused.
LEMMA RegisterCreates ==
  ASSUME TypeInv, TypeInv', RegisterInv, NEW h \in Handlers,
         Exists(h) \/ DelInfo(h) \/ CreateUser(h), Verifies(h)
  PROVE  RegisterInv'
<1>1. requests[h].email \in Emails /\ Step(h) /\ codes' = codes /\ verified' = verified
  BY Holds, CreateUserIs DEF Verifies, Typed, Asking, Step, Exists, DelInfo, history, redis
<1>2. CASE Exists(h)
  <2>1. ~At(h, "create") /\ pending' = pending /\ UNCHANGED <<users, excused>>
    BY <1>2 DEF Exists, At, redis, history
  <2>2. CASE Return(h)
    <3>1. Becomes(h, None)
      BY <2>2 DEF Return
    <3>2. EmailTaken(requests[h].email) \/ \E q \in Queries : Goto(h, q)
      BY <1>2 DEF Exists, Queries
    <3>3. ASSUME NEW q \in Queries, Goto(h, q)
          PROVE  FALSE
      <4>1. PICK r \in Request : Becomes(h, r)
        BY <3>3, GotoIs DEF Verifies
      <4> QED
        BY <3>1, <4>1 DEF Becomes, TypeInv, TypeOK
    <3>4. EmailTaken(requests[h].email)
      BY <3>2, <3>3
    <3>5. \A e \in Emails : EmailTaken(e) => EmailTaken(e)'
      BY <2>1 DEF EmailTaken, Uid
    <3>6. \A e \in Emails : requests[h].email = e => EmailTaken(e)'
      BY <3>4, <3>5
    <3> QED
      BY <1>1, <2>1, <3>1, <3>6, TakenKept, RegisterKept
  <2>3. CASE ~Return(h)
    <3>1. Goto(h, "delInfo")
      BY <1>2, <2>3 DEF Exists, Verifies
    <3>2. PICK r \in Request : Becomes(h, r) /\ Same(r, requests[h]) /\ r.at = "delInfo"
      BY <3>1, GotoIs DEF Verifies, Queries
    <3>3. \A e \in Emails : ~Wants(r, e)
      BY <3>2 DEF Wants
    <3> QED
      BY <1>1, <2>1, <3>2, <3>3, TakenKept, RegisterKept
  <2> QED
    BY <2>2, <2>3
<1>3. CASE DelInfo(h)
  <2>1. Goto(h, "create") /\ pending' = [pending EXCEPT ![requests[h].email] = None] /\ ~At(h, "create")
    BY <1>3 DEF DelInfo, At
  <2>2. PICK r \in Request : Becomes(h, r) /\ Same(r, requests[h]) /\ r.at = "create"
    BY <2>1, GotoIs DEF Verifies, Queries
  <2>3. \A e \in Emails : ~Wants(r, e)
    BY <2>2 DEF Wants
  <2>4. \A e \in Emails : pending'[e] = None => pending[e] = None \/ r.email = e
    BY <2>1, <2>2 DEF Same, TypeInv, TypeOK
  <2> QED
    BY <1>1, <2>1, <2>2, <2>3, <2>4, TakenKept, RegisterKept
<1>4. CASE CreateUser(h)
  <2>1. Becomes(h, None) /\ pending' = pending
    BY <1>4, CreateUserIs DEF Return, redis
  <2>2. \A e \in Emails : requests[h].email = e => EmailTaken(e)' \/ e \in excused'
    <3>1. CASE UNCHANGED users
      BY <1>4, <3>1, CreateUserIs
    <3>2. CASE users' # users
      <4>1. /\ users' \in Seq(User) /\ Len(users') = Len(users) + 1
            /\ users'[Len(users) + 1].email = requests[h].email
        BY <1>4, <3>2, CreateUserIs
      <4>2. Len(users) + 1 \in Uid'
        BY <4>1, UsersLength, LenProperties DEF Uid
      <4> QED
        BY <4>1, <4>2 DEF EmailTaken
    <3> QED
      BY <3>1, <3>2
  <2> QED
    BY <1>1, <2>1, <2>2, TakenKept, RegisterKept
<1> QED
  BY <1>2, <1>3, <1>4

\* Every query of a request keeps the registrations accounted for.
LEMMA RegisterStep ==
  ASSUME TypeInv, TypeInv', RegisterInv, NEW h \in Handlers, Step(h)
  PROVE  RegisterInv'
<1>1. CASE SetCode(h) \/ GetInfo(h)
  BY <1>1, RegisterSetCode, RegisterGetInfo
<1>2. CASE DelCode(h) /\ Verifies(h)
  BY <1>2, RegisterDelCode
<1>3. CASE Exists(h) \/ DelInfo(h) \/ CreateUser(h)
  <2>1. CASE Verifies(h)
    BY <1>3, <2>1, RegisterCreates
  <2>2. CASE ~Verifies(h)
    <3>1. Exists(h)
      BY <1>3, <2>2, Holds DEF Verifies, DelInfo, CreateUser, At, Typed
    <3>2. PICK q \in {"getCode", "delInfo"} : Return(h) \/ Goto(h, q)
      BY <3>1 DEF Exists
    <3>3. PICK r \in Request \cup {None} :
            Becomes(h, r) /\ (r # None => Same(r, requests[h]) /\ r.at = q)
      BY <3>1, <3>2, GotoIs DEF Return, Exists, At, Queries
    <3>4. codes' = codes /\ pending' = pending /\ verified' = verified
      BY <3>1 DEF Exists, redis, history
    <3> QED
      BY <2>2, <3>3, <3>4, RegisterOther
  <2> QED
    BY <2>1, <2>2
<1>4. CASE (DelCode(h) /\ ~Verifies(h)) \/ GetCode(h)
  <2>1. PICK q \in Queries : Return(h) \/ Goto(h, q)
    BY <1>4 DEF DelCode, AfterDelCode, GetCode, Queries
  <2>2. Busy(h)
    BY StepGoes
  <2>3. PICK r \in Request \cup {None} : Becomes(h, r) /\ (r # None => Same(r, requests[h]))
    BY <2>1, <2>2, GotoIs DEF Return
  <2>4. requests[h].op \notin {"register", "resend", "verifyRegister"}
    BY <1>4, <2>2, Holds DEF DelCode, GetCode, At, Typed, Using, Verifies
  <2>5. codes' \subseteq codes /\ pending' = pending /\ verified' = verified
    BY <1>4, <2>4 DEF DelCode, AfterDelCode, GetCode
  <2>6. r # None => r.op \notin {"register", "resend"}
    BY <2>3, <2>4 DEF Same
  <2> QED
    BY <2>3, <2>4, <2>5, <2>6, RegisterOther DEF Verifies
<1>5. CASE ExistsName(h) \/ SetInfo(h)
  <2>1. PICK q \in {"setInfo", "getInfo"} : Return(h) \/ Goto(h, q)
    BY <1>5 DEF ExistsName, SetInfo, Register
  <2>2. Busy(h) /\ requests[h].op = "register"
    BY <1>5, StepGoes, Holds DEF ExistsName, SetInfo, Register, At, Typed
  <2>3. PICK r \in Request \cup {None} :
          Becomes(h, r) /\ (r # None => Same(r, requests[h]) /\ r.at = q)
    BY <2>1, <2>2, GotoIs DEF Return, Queries
  <2>4. requests[h].name \in Names /\ requests[h].email \in Emails
    BY <2>2, Holds DEF Typed, Asking
  <2>5. codes' = codes /\ verified' = verified
        /\ \A e \in Emails : pending'[e] = None => pending[e] = None
    BY <1>5, <2>4 DEF ExistsName, SetInfo, Register, redis, history, TypeInv, TypeOK
  <2> QED
    BY <2>2, <2>3, <2>5, RegisterOther DEF Verifies
<1>6. CASE Update(h) \/ SaveActive(h)
  <2>1. Becomes(h, None) /\ codes' = codes /\ pending' = pending /\ verified' = verified
    BY <1>6, UpdateIs, SaveActiveIs DEF Return, redis, history
  <2>2. ~Verifies(h)
    BY <1>6, Holds DEF Verifies, Update, SaveActive, At, Typed
  <2> QED
    BY <2>1, <2>2, RegisterOther
<1> QED
  BY <1>1, <1>2, <1>3, <1>4, <1>5, <1>6 DEF Step

\* A request that begins takes nothing from a registration.
LEMMA RegisterBegin ==
  ASSUME TypeInv, TypeInv', RegisterInv, NEW h \in Handlers, BeginSomething(h)
  PROVE  RegisterInv'
<1>1. PICK r : Starts(h, r)
  BY BeginsAre
<1>2. r \in Request /\ Becomes(h, r) /\ ~Busy(h) /\ UNCHANGED <<pending, codes, verified, excused>>
  BY <1>1 DEF Starts, BeginAs, redis
<1>3. \A e \in Emails : EmailTaken(e) => EmailTaken(e)'
  BY <1>1, BeginUsers DEF EmailTaken
<1>4. ASSUME NEW e \in Emails, Wants(r, e)
      PROVE  pending[e] # None \/ \E c \in codes : RegisterCode(c, e)
  <2>1. CASE r.op \in {"register", "resend"}
    BY <1>1, <1>4, <2>1 DEF Starts, Wants, Using
  <2>2. CASE r.op = "verifyRegister"
    <3>1. r.code \in codes /\ r.email = r.code.email
      BY <1>1, <2>2 DEF Starts
    <3>2. r.code.kind = "register"
      BY <1>1, <2>2 DEF Starts, Typed, Using, KindFor
    <3> QED
      BY <1>4, <3>1, <3>2 DEF RegisterCode, Wants
  <2> QED
    BY <1>4, <2>1, <2>2 DEF Wants
<1> QED
  BY <1>2, <1>3, <1>4, RegisterKept DEF Verifies, At

\* Every step keeps the registrations accounted for.
LEMMA RegisterNext ==
  ASSUME TypeInv, TypeInv', RegisterInv, [Next]_vars
  PROVE  RegisterInv'
<1>1. ASSUME NEW h \in Handlers, Fails(h)
      PROVE  RegisterInv'
  <2>1. /\ Busy(h) /\ Becomes(h, None) /\ UNCHANGED <<users, pending, codes, verified>>
        /\ excused \subseteq excused' /\ (Verifies(h) => requests[h].email \in excused')
    BY <1>1 DEF Fails, Return, redis, Verifies
  <2>2. \A e \in Emails : EmailTaken(e) => EmailTaken(e)'
    BY <2>1 DEF EmailTaken, Uid
  <2>3. At(h, "create") => Verifies(h)
    BY <2>1, Holds DEF At, Typed, Verifies
  <2> QED
    BY <2>1, <2>2, <2>3, RegisterKept
<1>2. ASSUME NEW c \in outbox, HandleEmailRequest(c)
      PROVE  RegisterInv'
  BY <1>2 DEF HandleEmailRequest, redis, history, RegisterInv, VerifiedHasAccount, Waits, Creating,
     Busy, At, EmailTaken, Uid
<1>3. CASE Rest
  <2>1. \A h \in Handlers : ~Busy(h)
    BY <1>3 DEF Rest, Busy
  <2>2. UNCHANGED <<requests, verified>> /\ excused \subseteq excused' /\ codes' = {}
    BY <1>3 DEF Rest
  <2>3. \A e \in Emails : ~Waits(e)'
    BY <2>1, <2>2 DEF Waits, Busy
  <2>4. \A e \in Emails : EmailTaken(e) => EmailTaken(e)'
    <3>1. Uid' = Uid /\ \A u \in Uid : users'[u].email = users[u].email
      BY <1>3, RestIs, UsersLength, LenProperties DEF Uid
    <3> QED
      BY <3>1 DEF EmailTaken
  <2>5. verified \subseteq Emails
    BY DEF TypeInv, TypeOK
  <2>6. VerifiedHasAccount'
    BY <2>1, <2>2, <2>4, <2>5 DEF RegisterInv, VerifiedHasAccount, Busy
  <2> QED
    BY <2>3, <2>6 DEF RegisterInv
<1>4. CASE UNCHANGED vars
  BY <1>4 DEF vars, RegisterInv, VerifiedHasAccount, Waits, Creating, Busy, At, EmailTaken, Uid
<1> QED
  BY <1>1, <1>2, <1>3, <1>4, RegisterStep, RegisterBegin DEF Next

\* VerifiedHasAccount: the data of a verified registration is deleted before its user
\* is made, and yet nothing but a failure, an expiry or a name taken loses it.
THEOREM RegisterCorrect == Spec => []VerifiedHasAccount
<1>1. Init => TypeInv /\ RegisterInv
  <2> SUFFICES ASSUME Init
               PROVE  RegisterInv
    BY TypeInit
  <2>1. codes = {} /\ verified = {} /\ \A h \in Handlers : ~Busy(h)
    BY DEF Init, Busy
  <2> QED
    BY <2>1 DEF RegisterInv, VerifiedHasAccount, Waits
<1>2. TypeInv /\ RegisterInv /\ [Next]_vars => (TypeInv /\ RegisterInv)'
  BY TypeNext, RegisterNext
<1>3. RegisterInv => VerifiedHasAccount
  BY DEF RegisterInv
<1> QED
  BY <1>1, <1>2, <1>3, PTL DEF Spec

-----------------------------------------------------------------------------
(* Codes *)

\* The codes that there are, or have been; requests that are yet to make one; requests
\* that have read code number n, to use it.
Known == codes \cup outbox \cup inbox
Asks(h) == Busy(h) /\ requests[h].op \in Asking
InHand(h, n) ==
  /\ Busy(h) /\ requests[h].op \in Using /\ requests[h].at # "getCode"
  /\ requests[h].code.n = n

\* Numbers are given once.
NumbersInv ==
  /\ \A h \in Handlers : Busy(h) => requests[h].n \in 1..begun
  /\ \A g, h \in Handlers : Busy(g) /\ Busy(h) /\ requests[g].n = requests[h].n => g = h
  /\ \A c \in Known : c.n \in 0..begun
  /\ \A c, d \in Known : c.n = d.n => c = d
  /\ \A h \in Handlers : \A c \in Known : Asks(h) => c.n # requests[h].n
  /\ \A h \in Handlers : Busy(h) /\ requests[h].op \in Using => requests[h].code \in inbox

\* Of a code that was never read by two: one at most has it in hand; from its deletion
\* on it is not there to be read; once it has been used, nobody has it.
OnceInv ==
  /\ \A n \in Number : uses[n] > 0 => \E c \in inbox : c.n = n
  /\ \A n \in Number \ shared :
       /\ \A g, h \in Handlers : InHand(g, n) /\ InHand(h, n) => g = h
       /\ \A h \in Handlers : \A c \in codes :
            InHand(h, n) /\ requests[h].at # "delCode" => c.n # n
       /\ uses[n] > 0 => (\A h \in Handlers : ~InHand(h, n)) /\ \A c \in codes : c.n # n
       /\ uses[n] <= 1

\* A request goes on, or ends, or begins: its number and its code stay what they are.
LEMMA NumbersKept ==
  ASSUME TypeInv, TypeInv', NumbersInv, NEW h \in Handlers, NEW r \in Request \cup {None}, Becomes(h, r),
         begun <= begun', inbox \subseteq inbox',
         r # None => \/ Busy(h) /\ Same(r, requests[h])
                     \/ ~Busy(h) /\ begun < begun' /\ r.n = begun' /\ (r.op \in Using => r.code \in inbox),
         \A c \in Known' : c \in Known \/ (r = None /\ Asks(h) /\ c = CodeOf(h) /\ c.n = requests[h].n)
  PROVE  NumbersInv'
<1>1. \A g \in Handlers : requests'[g] = IF g = h THEN r ELSE requests[g]
  BY DEF TypeInv, TypeOK, Becomes
<1>2. begun \in Nat /\ begun' \in Nat
  BY DEF TypeInv, TypeOK
<1>3. \A g \in Handlers : Busy(g)' => requests'[g].n \in 1..begun'
  BY <1>1, <1>2 DEF NumbersInv, Busy, Same
<1>4. ASSUME NEW g \in Handlers, NEW f \in Handlers, Busy(g)', Busy(f)', requests'[g].n = requests'[f].n
      PROVE  g = f
  <2>1. \A k \in Handlers : k # h /\ Busy(k)' =>
          Busy(k) /\ requests'[k].n = requests[k].n /\ requests[k].n \in 1..begun
    BY <1>1 DEF NumbersInv, Busy
  <2>2. Busy(h)' => r # None /\ requests'[h].n = r.n
    BY <1>1 DEF Busy
  <2> QED
    BY <1>2, <1>4, <2>1, <2>2 DEF NumbersInv, Same
<1>5. ASSUME NEW c \in Known'
      PROVE  c.n \in 0..begun'
  BY <1>2, <1>5 DEF NumbersInv, Asks
<1>6. ASSUME NEW c \in Known', NEW d \in Known', c.n = d.n
      PROVE  c = d
  BY <1>6 DEF NumbersInv
<1>7. ASSUME NEW g \in Handlers, NEW c \in Known', Asks(g)'
      PROVE  c.n # requests'[g].n
  <2>1. CASE g = h
    <3>1. r # None /\ requests'[g] = r /\ c \in Known /\ r.op \in Asking
      BY <1>1, <1>7, <2>1 DEF Asks, Busy
    <3>2. c.n \in 0..begun
      BY <3>1 DEF NumbersInv
    <3> QED
      BY <1>2, <3>1, <3>2, <2>1 DEF NumbersInv, Same, Asks
  <2>2. CASE g # h
    <3>1. Asks(g) /\ Busy(g) /\ requests'[g] = requests[g]
      BY <1>1, <1>7, <2>2 DEF Asks, Busy
    <3> QED
      BY <2>2, <3>1 DEF NumbersInv, Asks
  <2> QED
    BY <2>1, <2>2
<1>8. ASSUME NEW g \in Handlers, Busy(g)', requests'[g].op \in Using
      PROVE  requests'[g].code \in inbox'
  BY <1>1, <1>8 DEF NumbersInv, Busy, Same
<1> QED
  BY <1>3, <1>4, <1>5, <1>6, <1>7, <1>8 DEF NumbersInv

\* The codes after a step.
LEMMA StepCodes ==
  ASSUME TypeInv, NEW h \in Handlers, Step(h)
  PROVE  \/ SetCode(h)
         \/ codes' \subseteq codes /\ outbox' = outbox /\ inbox' = inbox
<1>1. CASE GetInfo(h) \/ CreateUser(h) \/ Update(h) \/ SaveActive(h)
  BY <1>1, GetInfoIs, CreateUserIs, UpdateIs, SaveActiveIs DEF redis, mail
<1>2. CASE GetCode(h) \/ DelCode(h)
  BY <1>2 DEF GetCode, DelCode, AfterDelCode, mail
<1>3. CASE ExistsName(h) \/ SetInfo(h) \/ Exists(h) \/ DelInfo(h)
  BY <1>3 DEF ExistsName, SetInfo, Register, Exists, DelInfo, redis, mail
<1> QED
  BY <1>1, <1>2, <1>3 DEF Step

\* Numbers of codes are given once.
LEMMA NumbersNext ==
  ASSUME TypeInv, TypeInv', NumbersInv, [Next]_vars
  PROVE  NumbersInv'
<1>1. ASSUME NEW h \in Handlers, BeginSomething(h)
      PROVE  NumbersInv'
  <2>1. PICK r : Starts(h, r)
    BY <1>1, BeginsAre
  <2>2. /\ r \in Request /\ Becomes(h, r) /\ ~Busy(h) /\ UNCHANGED <<codes, outbox, inbox>>
        /\ begun' = begun + 1 /\ r.n = begun + 1
    BY <2>1 DEF Starts, BeginAs, redis, mail
  <2>3. r.op \in Using => r.code \in inbox
    BY <2>1 DEF Starts, Using
  <2>4. begun <= begun' /\ begun < begun'
    BY <2>2 DEF TypeInv, TypeOK
  <2> QED
    BY <2>2, <2>3, <2>4, NumbersKept DEF Known
<1>2. ASSUME NEW h \in Handlers, Step(h)
      PROVE  NumbersInv'
  <2>1. Busy(h) /\ Goes(h) /\ begun' = begun /\ inbox' = inbox
    BY <1>2, StepGoes
  <2>2. begun <= begun'
    BY <2>1 DEF TypeInv, TypeOK
  <2>3. CASE SetCode(h)
    <3>1. Becomes(h, None) /\ codes' = codes \cup {CodeOf(h)} /\ outbox' = outbox \cup {CodeOf(h)}
      BY <2>3 DEF SetCode, Send, Return
    <3>2. CodeOf(h).n = requests[h].n
      BY <2>3, CodeOfIs DEF SetCode, Send
    <3>3. Asks(h)
      BY <2>3, Holds DEF Asks, SetCode, Send, At, Typed
    <3> QED
      BY <2>1, <2>2, <3>1, <3>2, <3>3, NumbersKept DEF Known
  <2>4. CASE codes' \subseteq codes /\ outbox' = outbox
    <3>1. PICK r \in Request \cup {None} : Becomes(h, r) /\ (r # None => Same(r, requests[h]))
      BY <2>1 DEF Goes, Return
    <3> QED
      BY <2>1, <2>2, <2>4, <3>1, NumbersKept DEF Known
  <2> QED
    BY <1>2, <2>3, <2>4, StepCodes
<1>3. ASSUME NEW h \in Handlers, Fails(h)
      PROVE  NumbersInv'
  <2>1. Becomes(h, None) /\ UNCHANGED <<codes, outbox, inbox, begun>>
    BY <1>3 DEF Fails, Return, redis, mail
  <2>2. begun <= begun'
    BY <2>1 DEF TypeInv, TypeOK
  <2> QED
    BY <2>1, <2>2, NumbersKept DEF Known
<1>4. ASSUME UNCHANGED <<requests, begun>>, Known' \subseteq Known, inbox \subseteq inbox'
      PROVE  NumbersInv'
  BY <1>4 DEF NumbersInv, Busy, Asks
<1>5. ASSUME NEW c \in outbox, HandleEmailRequest(c)
      PROVE  NumbersInv'
  BY <1>4, <1>5 DEF HandleEmailRequest, redis, Known
<1>6. CASE Rest
  BY <1>4, <1>6 DEF Rest, mail, Known
<1>7. CASE UNCHANGED vars
  BY <1>4, <1>7 DEF vars, Known
<1> QED
  BY <1>1, <1>2, <1>3, <1>5, <1>6, <1>7 DEF Next

\* A request goes on, or ends, or begins: what it has in hand it had, or has just read;
\* what it uses it had in hand, deleted.
LEMMA OnceKept ==
  ASSUME TypeInv, TypeInv', NumbersInv, NumbersInv', OnceInv,
         NEW h \in Handlers, NEW r \in Request \cup {None}, Becomes(h, r),
         shared \subseteq shared', inbox \subseteq inbox',
         \A c \in codes' : c \in codes \/ (Asks(h) /\ c.n = requests[h].n),
         r # None /\ r.op \in Using /\ r.at # "getCode" =>
           \/ /\ Busy(h) /\ Same(r, requests[h]) /\ requests[h].at # "getCode"
              /\ r.at # "delCode" => requests[h].at # "delCode" \/ r.code \notin codes'
           \/ r.code \in inbox \cap codes /\ r.at = "delCode" /\ Hold(h, r.code),
         \/ uses' = uses
         \/ /\ Busy(h) /\ requests[h].op \in Using /\ requests[h].at \notin {"getCode", "delCode"}
            /\ Used(h) /\ r = None
  PROVE  OnceInv'
<1>1. \A g \in Handlers : requests'[g] = IF g = h THEN r ELSE requests[g]
  BY DEF TypeInv, TypeOK, Becomes
<1>2. \A n \in Number : \A g \in Handlers : g # h => InHand(g, n)' = InHand(g, n)
  BY <1>1 DEF InHand, Busy
<1>3. ASSUME NEW g \in Handlers, NEW n \in Number, InHand(g, n)
      PROVE  \E c \in inbox : c.n = n /\ c = requests[g].code
  BY <1>3 DEF InHand, NumbersInv
<1>4. ASSUME NEW n \in Number, NEW c \in codes', c.n = n, c \notin codes
      PROVE  (\A g \in Handlers : ~InHand(g, n)) /\ uses[n] = 0 /\ uses' = uses
  <2>1. Asks(h) /\ n = requests[h].n
    BY <1>4
  <2>2. \A d \in inbox : d.n # n
    BY <2>1 DEF NumbersInv, Known
  <2>3. uses[n] = 0
    BY <2>2 DEF OnceInv, TypeInv, TypeOK
  <2> QED
    BY <1>3, <2>1, <2>2, <2>3 DEF Asks, Asking, Using
<1> DEFINE New == r # None /\ r.op \in Using /\ r.code \in inbox \cap codes /\ r.at = "delCode" /\ Hold(h, r.code)
<1>5. ASSUME NEW n \in Number, InHand(h, n)'
      PROVE  /\ r # None /\ requests'[h] = r /\ r.code.n = n /\ r.op \in Using /\ r.at # "getCode"
             /\ uses' = uses
             /\ \/ InHand(h, n) /\ (r.at # "delCode" => requests[h].at # "delCode" \/ r.code \notin codes')
                \/ New
  BY <1>1, <1>5 DEF InHand, Busy, Same
<1>6. ASSUME NEW n \in Number \ shared', InHand(h, n)', NEW g \in Handlers, g # h, InHand(g, n)
      PROVE  FALSE
  <2>1. CASE InHand(h, n)
    BY <1>6, <2>1 DEF OnceInv
  <2>2. CASE New
    <3>1. r.code \in inbox /\ r.code.n = n
      BY <1>5, <1>6, <2>2
    <3>2. requests[g].code = r.code
      BY <1>3, <1>6, <3>1 DEF NumbersInv, Known
    <3>3. Busy(g) /\ ~At(g, "getCode")
      BY <1>6 DEF InHand, At
    <3> QED
      BY <1>6, <2>2, <3>1, <3>2, <3>3 DEF Hold
  <2> QED
    BY <1>5, <1>6, <2>1, <2>2
<1>7. \A n \in Number \ shared' : \A g, f \in Handlers : InHand(g, n)' /\ InHand(f, n)' => g = f
  BY <1>2, <1>6 DEF OnceInv
<1>8. ASSUME NEW n \in Number \ shared', NEW g \in Handlers, NEW c \in codes', InHand(g, n)',
             requests'[g].at # "delCode", c.n = n
      PROVE  FALSE
  <2>1. CASE g # h
    <3>1. InHand(g, n) /\ requests'[g] = requests[g]
      BY <1>1, <1>2, <1>8, <2>1
    <3> QED
      BY <1>4, <1>8, <3>1 DEF OnceInv
  <2>2. CASE g = h
    <3>1. InHand(h, n) /\ (requests[h].at # "delCode" \/ r.code \notin codes') /\ r.code.n = n
      BY <1>5, <1>8, <2>2
    <3>2. c \in codes
      BY <1>4, <1>8, <3>1
    <3>3. r.code = requests[h].code
      BY <1>5, <1>8, <2>2, <3>1 DEF Same
    <3>4. c = r.code
      BY <1>3, <1>8, <3>1, <3>2, <3>3 DEF NumbersInv, Known
    <3> QED
      BY <1>8, <3>1, <3>2, <3>4 DEF OnceInv
  <2> QED
    BY <2>1, <2>2
<1>9. \A n \in Number : uses'[n] = uses[n] \/ (uses'[n] = uses[n] + 1 /\ InHand(h, n) /\ r = None
                                            /\ requests[h].at # "delCode")
  <2>1. CASE Busy(h) /\ requests[h].op \in Using /\ requests[h].at \notin {"getCode", "delCode"}
             /\ Used(h) /\ r = None
    <3>1. requests[h].code \in Code
      BY <2>1, Holds DEF Typed
    <3> QED
      BY <2>1, <3>1, UsedTyped DEF InHand
  <2> QED
    BY <2>1
<1>10. ASSUME NEW n \in Number, uses'[n] > 0
       PROVE  \E c \in inbox' : c.n = n
  BY <1>3, <1>9, <1>10 DEF OnceInv
<1>11. ASSUME NEW n \in Number \ shared', uses'[n] > 0
       PROVE  (\A g \in Handlers : ~InHand(g, n)') /\ (\A c \in codes' : c.n # n) /\ uses'[n] <= 1
  <2>1. CASE uses'[n] = uses[n]
    <3>1. (\A g \in Handlers : ~InHand(g, n)) /\ (\A c \in codes : c.n # n) /\ uses[n] <= 1
      BY <1>11, <2>1 DEF OnceInv
    <3>2. \A c \in codes' : c.n # n
      BY <1>4, <1>11, <2>1, <3>1
    <3>3. ~InHand(h, n)'
      BY <1>5, <3>1
    <3> QED
      BY <1>2, <2>1, <3>1, <3>2, <3>3
  <2>2. CASE uses'[n] = uses[n] + 1 /\ InHand(h, n) /\ r = None /\ requests[h].at # "delCode"
    <3>1. uses[n] \in Nat /\ ~(uses[n] > 0)
      BY <2>2 DEF OnceInv, TypeInv, TypeOK
    <3>2. \A g \in Handlers : ~InHand(g, n)'
      BY <1>2, <1>5, <2>2 DEF OnceInv
    <3>3. \A c \in codes' : c.n # n
      BY <1>4, <2>2 DEF OnceInv
    <3> QED
      BY <2>2, <3>1, <3>2, <3>3
  <2> QED
    BY <1>9, <2>1, <2>2
<1>12. \A n \in Number \ shared' : uses'[n] <= 1
  BY <1>11 DEF TypeInv, TypeOK
<1> QED
  BY <1>7, <1>8, <1>10, <1>11, <1>12 DEF OnceInv

\* A code once in two hands stays counted so.
LEMMA HoldGrows ==
  ASSUME NEW h, NEW c, Hold(h, c)
  PROVE  shared \subseteq shared'
BY DEF Hold

\* Steps after a code has been read and deleted, or of requests that have none.
LEMMA OnceOther ==
  ASSUME TypeInv, TypeInv', NumbersInv, NumbersInv', OnceInv, NEW h \in Handlers, Step(h),
         requests[h].at \notin {"getCode", "delCode"}, UNCHANGED shared,
         \A c \in codes' : c \in codes \/ (Asks(h) /\ c.n = requests[h].n),
         \/ uses' = uses
         \/ requests[h].op \in Using /\ Used(h) /\ Return(h)
  PROVE  OnceInv'
<1>1. Busy(h) /\ inbox' = inbox /\ Goes(h)
  BY StepGoes
<1>2. CASE Return(h)
  BY <1>1, <1>2, OnceKept DEF Return
<1>3. CASE ~Return(h)
  <2>1. PICK r \in Request : Becomes(h, r) /\ Same(r, requests[h])
    BY <1>1, <1>3 DEF Goes
  <2> QED
    BY <1>1, <1>3, <2>1, OnceKept
<1> QED
  BY <1>2, <1>3

\* Every query keeps an unshared code in one hand.
LEMMA OnceStep ==
  ASSUME TypeInv, TypeInv', NumbersInv, NumbersInv', OnceInv, NEW h \in Handlers, Step(h)
  PROVE  OnceInv'
<1>1. Busy(h) /\ inbox' = inbox
  BY StepGoes
<1>2. CASE SetCode(h)
  <2>1. requests[h].at = "setCode" /\ codes' = codes \cup {CodeOf(h)} /\ UNCHANGED <<uses, shared>>
    BY <1>2 DEF SetCode, Send, At, history
  <2>2. CodeOf(h).n = requests[h].n /\ Asks(h)
    BY <1>1, <1>2, CodeOfIs, Holds DEF SetCode, Send, At, Asks, Typed
  <2> QED
    BY <2>1, <2>2, OnceOther
<1>3. CASE GetCode(h)
  <2>1. /\ codes' \subseteq codes /\ uses' = uses
        /\ \/ Return(h) /\ UNCHANGED shared
           \/ requests[h].op = "newEmail" /\ Goto(h, "setCode") /\ UNCHANGED shared
           \/ /\ requests[h].op # "newEmail" /\ requests[h].code \in codes
              /\ Goto(h, "delCode") /\ Hold(h, requests[h].code)
    BY <1>3 DEF GetCode
  <2>2. CASE Return(h) /\ UNCHANGED shared
    BY <1>1, <2>1, <2>2, OnceKept DEF Return
  <2>3. CASE requests[h].op = "newEmail" /\ Goto(h, "setCode") /\ UNCHANGED shared
    <3>1. PICK r \in Request : Becomes(h, r) /\ Same(r, requests[h])
      BY <1>1, <2>3, GotoIs DEF Queries
    <3>2. r.op \notin Using
      BY <2>3, <3>1 DEF Same, Using
    <3> QED
      BY <1>1, <2>1, <2>3, <3>1, <3>2, OnceKept
  <2>4. CASE /\ requests[h].op # "newEmail" /\ requests[h].code \in codes
             /\ Goto(h, "delCode") /\ Hold(h, requests[h].code)
    <3>1. PICK r \in Request : Becomes(h, r) /\ Same(r, requests[h]) /\ r.at = "delCode"
      BY <1>1, <2>4, GotoIs DEF Queries
    <3>2. requests[h].op \in Using
      BY <1>1, <1>3, <2>4, Holds DEF GetCode, At, Typed, Using
    <3>3. r.code \in inbox \cap codes /\ Hold(h, r.code)
      BY <1>1, <2>4, <3>1, <3>2 DEF Same, NumbersInv
    <3>4. shared \subseteq shared'
      BY <3>3, HoldGrows
    <3> QED
      BY <1>1, <2>1, <3>1, <3>3, <3>4, OnceKept
  <2> QED
    BY <2>1, <2>2, <2>3, <2>4
<1>4. CASE DelCode(h)
  <2>1. /\ codes' = codes \ {requests[h].code} /\ UNCHANGED <<uses, shared>> /\ requests[h].at = "delCode"
        /\ Return(h) \/ \E q \in Queries : Goto(h, q)
    BY <1>4 DEF DelCode, AfterDelCode, At, Queries
  <2>2. CASE Return(h)
    BY <1>1, <2>1, <2>2, OnceKept DEF Return
  <2>3. CASE \E q \in Queries : Goto(h, q)
    <3>1. PICK r \in Request : Becomes(h, r) /\ Same(r, requests[h])
      BY <1>1, <2>3, GotoIs
    <3>2. r.code \notin codes'
      BY <2>1, <3>1 DEF Same
    <3> QED
      BY <1>1, <2>1, <3>1, <3>2, OnceKept
  <2> QED
    BY <2>1, <2>2, <2>3
<1>5. CASE ExistsName(h) \/ SetInfo(h) \/ Exists(h) \/ DelInfo(h) \/ SaveActive(h)
  <2>1. codes' = codes /\ UNCHANGED <<uses, shared>> /\ requests[h].at \notin {"getCode", "delCode"}
    BY <1>5 DEF ExistsName, SetInfo, Register, Exists, DelInfo, SaveActive, redis, history, At
  <2> QED
    BY <2>1, OnceOther
<1>6. CASE GetInfo(h)
  <2>1. codes' = codes /\ UNCHANGED <<uses, shared>> /\ requests[h].at \notin {"getCode", "delCode"}
    BY <1>6, GetInfoIs DEF GetInfo, At
  <2> QED
    BY <2>1, OnceOther
<1>7. CASE CreateUser(h)
  <2>1. requests[h].at = "create" /\ requests[h].op \in Using
    BY <1>1, <1>7, Holds DEF CreateUser, At, Typed, Using
  <2>2. codes' = codes /\ UNCHANGED shared /\ Return(h) /\ (uses' = uses \/ Used(h))
    BY <1>7, CreateUserIs DEF redis
  <2> QED
    BY <2>1, <2>2, OnceOther
<1>8. CASE Update(h)
  <2>1. requests[h].at = "update"
    BY <1>8 DEF Update, At
  <2>2. codes' = codes /\ UNCHANGED shared /\ Return(h)
        /\ (uses' = uses \/ (Used(h) /\ requests[h].op \in Using))
    BY <1>8, UpdateIs DEF redis, Using
  <2> QED
    BY <2>1, <2>2, OnceOther
<1> QED
  BY <1>2, <1>3, <1>4, <1>5, <1>6, <1>7, <1>8 DEF Step

\* Every step keeps an unshared code in one hand.
LEMMA OnceNext ==
  ASSUME TypeInv, TypeInv', NumbersInv, NumbersInv', OnceInv, [Next]_vars
  PROVE  OnceInv'
<1>1. ASSUME NEW h \in Handlers, BeginSomething(h)
      PROVE  OnceInv'
  <2>1. PICK r : Starts(h, r)
    BY <1>1, BeginsAre
  <2>2. r \in Request /\ Becomes(h, r) /\ UNCHANGED <<codes, inbox, uses>>
    BY <2>1 DEF Starts, BeginAs, redis, mail
  <2>3. shared \subseteq shared'
    BY <2>1, HoldGrows DEF Starts
  <2>4. r.op \in Using /\ r.at # "getCode" =>
          r.code \in inbox \cap codes /\ r.at = "delCode" /\ Hold(h, r.code)
    BY <2>1 DEF Starts, Using
  <2> QED
    BY <2>2, <2>3, <2>4, OnceKept
<1>2. ASSUME NEW h \in Handlers, Fails(h)
      PROVE  OnceInv'
  <2>1. Becomes(h, None) /\ UNCHANGED <<codes, inbox, uses, shared>>
    BY <1>2 DEF Fails, Return, redis, mail
  <2> QED
    BY <2>1, OnceKept
<1>3. ASSUME UNCHANGED <<requests, uses, shared>>, codes' \subseteq codes, inbox \subseteq inbox'
      PROVE  OnceInv'
  BY <1>3 DEF OnceInv, InHand, Busy
<1>4. ASSUME NEW c \in outbox, HandleEmailRequest(c)
      PROVE  OnceInv'
  BY <1>3, <1>4 DEF HandleEmailRequest, redis, history
<1>5. CASE Rest
  BY <1>3, <1>5 DEF Rest, mail
<1>6. CASE UNCHANGED vars
  BY <1>3, <1>6 DEF vars
<1> QED
  BY <1>1, <1>2, <1>4, <1>5, <1>6, OnceStep DEF Next

\* At first there is no code.
LEMMA CodesInit ==
  ASSUME Init
  PROVE  NumbersInv /\ OnceInv
<1>1. \A h \in Handlers : ~Busy(h)
  BY DEF Init, Busy
<1>2. /\ codes = {} /\ outbox = {} /\ uses = [n \in Number |-> 0]
      /\ inbox = {} \/ \E e \in Emails :
           inbox = {[kind |-> "register", n |-> 0, user |-> 0, email |-> e, to |-> e]}
  BY DEF Init
<1>3. begun = 0
  BY DEF Init
<1>4. \A c \in Known : c.n = 0
  BY <1>2 DEF Known
<1>5. \A c, d \in Known : c = d
  BY <1>2 DEF Known
<1> QED
  BY <1>1, <1>2, <1>3, <1>4, <1>5 DEF NumbersInv, OnceInv, Asks, InHand

\* OneUsePerCode: reading a code and deleting it are two queries, and a code makes two
\* changes only if two requests were between them.
THEOREM CodeCorrect == Spec => []OneUsePerCode
<1>1. Init => TypeInv /\ NumbersInv /\ OnceInv
  BY TypeInit, CodesInit
<1>2. TypeInv /\ NumbersInv /\ OnceInv /\ [Next]_vars => (TypeInv /\ NumbersInv /\ OnceInv)'
  BY TypeNext, NumbersNext, OnceNext
<1>3. TypeInv /\ OnceInv => OneUsePerCode
  BY DEF TypeInv, TypeOK, OnceInv, OneUsePerCode
<1> QED
  BY <1>1, <1>2, <1>3, PTL DEF Spec

-----------------------------------------------------------------------------
(* The cooldown of usernames *)

\* A code for a change of u's username that may yet be used.
Live(u, n) ==
  \/ \E c \in codes : c.kind = "username" /\ c.user = u /\ c.n = n
  \/ \E h \in Handlers :
       Busy(h) /\ requests[h].op = "askUsername" /\ requests[h].user = u /\ requests[h].n = n
  \/ \E h \in Handlers : InHand(h, n) /\ requests[h].op = "changeUsername" /\ requests[h].user = u
LiveNumbers(u) == {n \in Number : Live(u, n)}

\* Each change since the last Rest, and each still to come, has been asked for before
\* the first of them.
CooldownInv ==
  shared = {} =>
    \A u \in Uid : users[u].changes + Cardinality(LiveNumbers(u)) <= users[u].early

\* The codes of a user that may still be used are finitely many.
LEMMA LiveFinite ==
  ASSUME NEW u
  PROVE  IsFiniteSet(LiveNumbers(u)) /\ Cardinality(LiveNumbers(u)) \in Nat
<1>1. IsFiniteSet(Number)
  BY FS_Interval DEF Number
<1> QED
  BY <1>1, FS_Subset, FS_CardinalityType DEF LiveNumbers

\* A request goes on, or ends, or begins.
LEMMA LiveKept ==
  ASSUME TypeInv, TypeInv', NEW h \in Handlers, NEW r \in Request \cup {None}, Becomes(h, r),
         \A c \in codes' :
           \/ c \in codes
           \/ /\ Busy(h) /\ c.n = requests[h].n /\ c.user = requests[h].user
              /\ c.kind = "username" => requests[h].op = "askUsername",
         r # None /\ r.op = "askUsername" => ~Busy(h) \/ Same(r, requests[h]),
         r # None /\ r.op = "changeUsername" /\ r.at # "getCode" =>
           \/ Busy(h) /\ Same(r, requests[h]) /\ requests[h].at # "getCode"
           \/ r.code \in codes /\ r.code.user = r.user,
         NEW u, NEW n \in Number, Live(u, n)'
  PROVE  \/ Live(u, n)
         \/ ~Busy(h) /\ r # None /\ r.op = "askUsername" /\ r.user = u /\ r.n = n
<1>1. \A g \in Handlers : requests'[g] = IF g = h THEN r ELSE requests[g]
  BY DEF TypeInv, TypeOK, Becomes
<1>2. CASE \E c \in codes' : c.kind = "username" /\ c.user = u /\ c.n = n
  BY <1>2 DEF Live
<1>3. ASSUME NEW g \in Handlers, Busy(g)', requests'[g].op = "askUsername", requests'[g].user = u,
             requests'[g].n = n
      PROVE  \/ Live(u, n)
             \/ ~Busy(h) /\ r # None /\ r.op = "askUsername" /\ r.user = u /\ r.n = n
  <2>1. CASE g # h
    BY <1>1, <1>3, <2>1 DEF Live, Busy
  <2>2. CASE g = h
    <3>1. r # None /\ r.op = "askUsername" /\ r.user = u /\ r.n = n
      BY <1>1, <1>3, <2>2 DEF Busy
    <3> QED
      BY <3>1 DEF Live, Same
  <2> QED
    BY <2>1, <2>2
<1>4. ASSUME NEW g \in Handlers, InHand(g, n)', requests'[g].op = "changeUsername", requests'[g].user = u
      PROVE  Live(u, n)
  <2>1. CASE g # h
    BY <1>1, <1>4, <2>1 DEF Live, InHand, Busy
  <2>2. CASE g = h
    <3>1. /\ r # None /\ r.op = "changeUsername" /\ r.op \in Using /\ r.user = u
          /\ r.at # "getCode" /\ r.code.n = n
      BY <1>1, <1>4, <2>2 DEF InHand, Busy
    <3>2. CASE Busy(h) /\ Same(r, requests[h]) /\ requests[h].at # "getCode"
      BY <3>1, <3>2 DEF Live, InHand, Same
    <3>3. CASE r.code \in codes /\ r.code.user = r.user
      <4>1. Typed(r, Len(users'))
        BY <1>1, <3>1 DEF TypeInv, Busy
      <4>2. r.code.kind = "username"
        BY <3>1, <4>1 DEF Typed, KindFor
      <4> QED
        BY <3>1, <3>3, <4>2 DEF Live
    <3> QED
      BY <3>1, <3>2, <3>3
  <2> QED
    BY <2>1, <2>2
<1> QED
  BY <1>2, <1>3, <1>4 DEF Live

\* What may become of a user: nothing; a code is asked for; a code is used; a new user,
\* or thirty days.
LEMMA CooldownKept ==
  ASSUME TypeInv, TypeInv', CooldownInv, shared' = {} => shared = {},
         \A u \in Uid' :
           \/ /\ u \in Uid /\ users'[u].changes = users[u].changes /\ users'[u].early = users[u].early
              /\ \A n \in Number : Live(u, n)' => Live(u, n)
           \/ /\ u \in Uid /\ users'[u].changes = users[u].changes /\ users'[u].early = users[u].early + 1
              /\ \E k : \A n \in Number : Live(u, n)' => Live(u, n) \/ n = k
           \/ /\ u \in Uid /\ users'[u].changes = users[u].changes + 1 /\ users'[u].early = users[u].early
              /\ \E k \in Number : Live(u, k) /\ \A n \in Number : Live(u, n)' => Live(u, n) /\ n # k
           \/ users'[u].changes = 0 /\ \A n \in Number : ~Live(u, n)'
  PROVE  CooldownInv'
<1> SUFFICES ASSUME shared' = {}, NEW u \in Uid'
             PROVE  users'[u].changes + Cardinality(LiveNumbers(u)') <= users'[u].early
  BY DEF CooldownInv
<1>1. users'[u].changes \in Nat /\ users'[u].early \in Nat
  <2>1. users' \in Seq(User)
    BY DEF TypeInv, TypeOK
  <2>2. users'[u] \in User
    BY <2>1, ElementOfSeq, LenProperties DEF Uid
  <2> QED
    BY <2>2 DEF User
<1>2. u \in Uid => /\ users[u].changes \in Nat /\ users[u].early \in Nat
                   /\ users[u].changes + Cardinality(LiveNumbers(u)) <= users[u].early
  BY UsersLength DEF CooldownInv, User
<1> DEFINE S == LiveNumbers(u)
           T == LiveNumbers(u)'
<1>3. IsFiniteSet(S) /\ Cardinality(S) \in Nat /\ T = {n \in Number : Live(u, n)'}
  BY LiveFinite DEF LiveNumbers
<1>4. S = {n \in Number : Live(u, n)}
  BY DEF LiveNumbers
<1> HIDE DEF S, T
<1>5. CASE /\ u \in Uid /\ users'[u].changes = users[u].changes /\ users'[u].early = users[u].early
           /\ \A n \in Number : Live(u, n)' => Live(u, n)
  <2>1. T \subseteq S
    BY <1>3, <1>4, <1>5
  <2>2. Cardinality(T) <= Cardinality(S) /\ Cardinality(T) \in Nat
    BY <1>3, <2>1, FS_Subset, FS_CardinalityType
  <2> QED
    BY <1>2, <1>3, <1>5, <2>2 DEF S, T
<1>6. CASE /\ u \in Uid /\ users'[u].changes = users[u].changes /\ users'[u].early = users[u].early + 1
           /\ \E k : \A n \in Number : Live(u, n)' => Live(u, n) \/ n = k
  <2>1. PICK k : T \subseteq S \cup {k}
    BY <1>3, <1>4, <1>6
  <2>2. IsFiniteSet(S \cup {k}) /\ Cardinality(S \cup {k}) <= Cardinality(S) + 1
    <3>1. /\ IsFiniteSet(S \cup {k})
          /\ Cardinality(S \cup {k}) = IF k \in S THEN Cardinality(S) ELSE Cardinality(S) + 1
      BY <1>3, FS_AddElement
    <3> QED
      BY <1>3, <3>1
  <2>3. Cardinality(T) <= Cardinality(S) + 1 /\ Cardinality(T) \in Nat
    BY <1>3, <2>1, <2>2, FS_Subset, FS_CardinalityType
  <2> QED
    BY <1>2, <1>3, <1>6, <2>3 DEF S, T
<1>7. CASE /\ u \in Uid /\ users'[u].changes = users[u].changes + 1 /\ users'[u].early = users[u].early
           /\ \E k \in Number : Live(u, k) /\ \A n \in Number : Live(u, n)' => Live(u, n) /\ n # k
  <2>1. PICK k \in S : T \subseteq S \ {k}
    BY <1>3, <1>4, <1>7
  <2>2. IsFiniteSet(S \ {k}) /\ Cardinality(S \ {k}) = Cardinality(S) - 1
    BY <1>3, FS_RemoveElement
  <2>3. Cardinality(T) <= Cardinality(S) - 1 /\ Cardinality(T) \in Nat
    BY <1>3, <2>1, <2>2, FS_Subset, FS_CardinalityType
  <2> QED
    BY <1>2, <1>3, <1>7, <2>3 DEF S, T
<1>8. CASE users'[u].changes = 0 /\ \A n \in Number : ~Live(u, n)'
  <2>1. T = {}
    BY <1>3, <1>8
  <2>2. Cardinality(T) = 0
    BY <2>1, FS_EmptySet
  <2> QED
    BY <1>1, <1>8, <2>2 DEF T
<1> QED
  BY <1>5, <1>6, <1>7, <1>8

\* Every step of a request in progress, but its changes of a user.
LEMMA LiveStep ==
  ASSUME TypeInv, TypeInv', NEW h \in Handlers, Step(h), NEW u, NEW n \in Number, Live(u, n)'
  PROVE  Live(u, n)
<1>1. Busy(h)
  BY StepGoes
<1>2. PICK r \in Request \cup {None} : Becomes(h, r) /\ (r # None => Same(r, requests[h]))
  BY StepGoes DEF Goes, Return
<1>3. \A c \in codes' :
        \/ c \in codes
        \/ /\ c.n = requests[h].n /\ c.user = requests[h].user
           /\ c.kind = "username" => requests[h].op = "askUsername"
  <2>1. CASE SetCode(h)
    <3>1. /\ CodeOf(h).n = requests[h].n /\ CodeOf(h).user = requests[h].user
          /\ CodeOf(h).kind = KindOf(requests[h].op) /\ requests[h].op \in Asking
      BY <1>1, <2>1, CodeOfIs, Holds DEF SetCode, Send, At, Typed
    <3>2. CodeOf(h).kind = "username" => requests[h].op = "askUsername"
      BY <3>1 DEF KindOf, Asking
    <3> QED
      BY <2>1, <3>1, <3>2 DEF SetCode, Send
  <2> QED
    BY <2>1, StepCodes
<1>4. CASE requests[h].at # "getCode"
  BY <1>1, <1>2, <1>3, <1>4, LiveKept
<1>5. CASE requests[h].at = "getCode" /\ requests[h].op = "changeUsername"
  <2>1. GetCode(h)
    BY <1>1, <1>5 DEF Step, SetCode, Send, DelCode, ExistsName, SetInfo, Register, GetInfo, Exists,
       DelInfo, CreateUser, Update, SaveActive, At
  <2>2. Return(h) \/ (requests[h].code \in codes /\ requests[h].code.user = requests[h].user)
    BY <1>5, <2>1 DEF GetCode
  <2>3. CASE Return(h)
    BY <1>1, <1>3, <2>3, LiveKept DEF Return
  <2>4. CASE requests[h].code \in codes /\ requests[h].code.user = requests[h].user
    <3>1. r # None => r.code \in codes /\ r.code.user = r.user
      BY <1>2, <2>4 DEF Same
    <3> QED
      BY <1>1, <1>2, <1>3, <3>1, LiveKept
  <2> QED
    BY <2>2, <2>3, <2>4
<1>6. CASE requests[h].op # "changeUsername"
  <2>1. r # None => r.op # "changeUsername"
    BY <1>2, <1>6 DEF Same
  <2> QED
    BY <1>1, <1>2, <1>3, <2>1, LiveKept
<1> QED
  BY <1>4, <1>5, <1>6

\* A change of the username takes its code from those that may still be used.
LEMMA CooldownUpdate ==
  ASSUME TypeInv, TypeInv', NumbersInv, OnceInv, CooldownInv, NEW h \in Handlers, Update(h)
  PROVE  CooldownInv'
<1>1. Step(h) /\ shared' = shared /\ Return(h) /\ codes' = codes /\ Busy(h) /\ requests[h].at = "update"
  BY UpdateIs DEF Step, redis, Update, At
<1>2. \A u : \A n \in Number : Live(u, n)' => Live(u, n)
  BY <1>1, LiveStep
<1>3. CASE \A u \in Uid' :
             u \in Uid /\ users'[u].changes = users[u].changes /\ users'[u].early = users[u].early
  BY <1>1, <1>2, <1>3, CooldownKept
<1>4. CASE UNCHANGED users
  BY <1>3, <1>4 DEF Uid
<1>5. PICK w \in 1..Len(users) : w = requests[h].user
  BY UpdateIs
<1>6. ASSUME NEW v \in User, users' = [users EXCEPT ![w] = v], Alike(users[w], v) \/ Moved(users[w], v, requests[h].email)
      PROVE  CooldownInv'
  <2>1. Uid' = Uid /\ Uid = 1..Len(users) /\ \A u \in Uid : users'[u] = IF u = w THEN v ELSE users[u]
    BY <1>6, UserChanges, UsersLength
  <2> QED
    BY <1>3, <1>6, <2>1 DEF Alike, Moved
<1>7. ASSUME NEW v \in User, users' = [users EXCEPT ![w] = v], requests[h].op = "changeUsername",
             Renamed(users[w], v, requests[h].name), shared = {}
      PROVE  CooldownInv'
  <2>1. Uid' = Uid /\ Uid = 1..Len(users) /\ \A u \in Uid : users'[u] = IF u = w THEN v ELSE users[u]
    BY <1>7, UserChanges, UsersLength
  <2>2. requests[h].op \in Using /\ requests[h].code \in Code
    BY <1>1, <1>7, Holds DEF Typed, Using
  <2>3. PICK k \in Number : k = requests[h].code.n
    BY <2>2 DEF Code
  <2>4. InHand(h, k) /\ Live(w, k)
    BY <1>5, <1>1, <1>7, <2>2, <2>3 DEF InHand, Live
  <2>5. ~Live(w, k)'
    <3>1. \A g \in Handlers : requests'[g] = IF g = h THEN None ELSE requests[g]
      BY <1>1 DEF Return, Becomes, TypeInv, TypeOK
    <3>2. \A c \in codes' : c.n # k
      BY <1>1, <1>7, <2>3, <2>4 DEF OnceInv
    <3>3. \A g \in Handlers : ~InHand(g, k)'
      <4>1. \A g \in Handlers : InHand(g, k) => g = h
        BY <1>7, <2>3, <2>4 DEF OnceInv
      <4> QED
        BY <3>1, <4>1 DEF InHand, Busy
    <3>4. requests[h].code \in Known
      BY <1>1, <2>2 DEF NumbersInv, Known
    <3>5. \A g \in Handlers : Busy(g)' /\ requests'[g].op = "askUsername" => requests'[g].n # k
      BY <2>3, <3>1, <3>4 DEF NumbersInv, Asks, Asking, Busy
    <3> QED
      BY <3>2, <3>3, <3>5 DEF Live
  <2>6. \A u \in Uid' :
          \/ u # w /\ u \in Uid /\ users'[u].changes = users[u].changes /\ users'[u].early = users[u].early
          \/ u = w /\ u \in Uid /\ users'[u].changes = users[u].changes + 1 /\ users'[u].early = users[u].early
    BY <1>7, <2>1 DEF Renamed
  <2>7. \A n \in Number : Live(w, n)' => Live(w, n) /\ n # k
    BY <1>2, <2>5
  <2> QED
    BY <1>1, <1>2, <2>4, <2>6, <2>7, CooldownKept
<1>8. CASE shared # {}
  BY <1>1, <1>8 DEF CooldownInv
<1> QED
  BY <1>5, <1>4, <1>6, <1>7, <1>8, UpdateIs

\* Every query keeps changes and codes within what was asked for.
LEMMA CooldownStep ==
  ASSUME TypeInv, TypeInv', NumbersInv, OnceInv, CooldownInv, NEW h \in Handlers, Step(h)
  PROVE  CooldownInv'
<1>1. \A u : \A n \in Number : Live(u, n)' => Live(u, n)
  BY LiveStep
<1>2. shared \subseteq shared'
  BY GetInfoIs, CreateUserIs, UpdateIs, HoldGrows
     DEF Step, SetCode, Send, GetCode, DelCode, AfterDelCode, ExistsName, SetInfo, Register, Exists,
         DelInfo, SaveActive, history
<1>3. CASE UNCHANGED users
  BY <1>1, <1>2, <1>3, CooldownKept DEF Uid
<1>4. CASE CreateUser(h)
  <2>1. CASE users' # users
    <3>1. /\ users' \in Seq(User) /\ Len(users') = Len(users) + 1
          /\ \A u \in 1..Len(users) : users'[u] = users[u]
          /\ users'[Len(users) + 1].changes = 0
      BY <1>4, <2>1, CreateUserIs
    <3>2. Uid' = 1..(Len(users) + 1) /\ Uid = 1..Len(users) /\ Len(users) \in Nat
      BY <3>1, UsersLength, LenProperties DEF Uid
    <3>3. \A n \in Number : ~Live(Len(users) + 1, n)
      <4>1. \A c \in codes : c.kind = "username" => c.user # Len(users) + 1
        BY <3>2 DEF TypeInv, CodesTyped
      <4>2. \A g \in Handlers :
              Busy(g) /\ requests[g].op \in {"askUsername", "changeUsername"} => requests[g].user # Len(users) + 1
        BY <3>2, Holds DEF Typed, Anonymous
      <4> QED
        BY <4>1, <4>2 DEF Live, InHand
    <3> QED
      BY <1>1, <1>2, <3>1, <3>2, <3>3, CooldownKept
  <2> QED
    BY <1>3, <2>1
<1>5. CASE SaveActive(h)
  <2>1. requests[h].user \in 1..Len(users)
    BY <1>5, SaveActiveIs
  <2>2. PICK v \in User :
          users' = [users EXCEPT ![requests[h].user] = v] /\ Alike(users[requests[h].user], v)
    BY <1>5, SaveActiveIs
  <2>3. Uid' = Uid /\ Uid = 1..Len(users)
        /\ \A u \in Uid : users'[u] = IF u = requests[h].user THEN v ELSE users[u]
    BY <2>1, <2>2, UserChanges, UsersLength
  <2>4. \A u \in Uid' :
          u \in Uid /\ users'[u].changes = users[u].changes /\ users'[u].early = users[u].early
    BY <2>2, <2>3 DEF Alike
  <2> QED
    BY <1>1, <1>2, <2>4, CooldownKept
<1>6. CASE ~CreateUser(h) /\ ~Update(h) /\ ~SaveActive(h)
  BY <1>3, <1>6 DEF Step, SetCode, Send, GetCode, DelCode, AfterDelCode, ExistsName, SetInfo,
     Register, GetInfo, Exists, DelInfo
<1> QED
  BY <1>4, <1>5, <1>6, CooldownUpdate

\* Every step keeps changes and codes within what was asked for.
LEMMA CooldownNext ==
  ASSUME TypeInv, TypeInv', NumbersInv, OnceInv, CooldownInv, [Next]_vars
  PROVE  CooldownInv'
<1>1. ASSUME NEW h \in Handlers, BeginSomething(h)
      PROVE  CooldownInv'
  <2>1. PICK r : Starts(h, r)
    BY <1>1, BeginsAre
  <2>2. r \in Request /\ Becomes(h, r) /\ UNCHANGED codes /\ ~Busy(h)
    BY <2>1 DEF Starts, BeginAs, redis
  <2>3. shared \subseteq shared'
    BY <2>1, HoldGrows DEF Starts
  <2>4. r.op = "changeUsername" => r.at = "getCode" \/ (r.code \in codes /\ r.code.user = r.user)
    BY <2>1 DEF Starts, Using
  <2>5. \A u : \A n \in Number :
          Live(u, n)' => Live(u, n) \/ (r.op = "askUsername" /\ r.user = u /\ r.n = n)
    BY <2>2, <2>4, LiveKept
  <2>6. /\ Uid' = Uid
        /\ \A u \in Uid :
             /\ users'[u].changes = users[u].changes
             /\ users'[u].early =
                  IF r.op = "askUsername" /\ r.user = u THEN users[u].early + 1 ELSE users[u].early
    BY <2>1, BeginUsers
  <2> QED
    BY <2>3, <2>5, <2>6, CooldownKept
<1>2. ASSUME NEW h \in Handlers, Fails(h)
      PROVE  CooldownInv'
  <2>1. Busy(h) /\ Becomes(h, None) /\ UNCHANGED <<users, codes, shared>>
    BY <1>2 DEF Fails, Return, redis
  <2>2. \A u : \A n \in Number : Live(u, n)' => Live(u, n)
    BY <2>1, LiveKept
  <2> QED
    BY <2>1, <2>2, CooldownKept DEF Uid
<1>3. ASSUME UNCHANGED <<users, requests, codes, shared>>
      PROVE  CooldownInv'
  BY <1>3 DEF CooldownInv, LiveNumbers, Live, InHand, Busy, Uid
<1>4. ASSUME NEW c \in outbox, HandleEmailRequest(c)
      PROVE  CooldownInv'
  BY <1>3, <1>4 DEF HandleEmailRequest, redis, history
<1>5. CASE Rest
  <2>1. shared' = shared /\ \A u \in Uid' : users'[u].changes = 0
    <3>1. shared' = shared
      BY <1>5 DEF Rest
    <3>2. /\ users' \in Seq(User) /\ Len(users') = Len(users)
          /\ \A u \in 1..Len(users) : users'[u].changes = 0
      BY <1>5, RestIs
    <3>3. Uid' = 1..Len(users)
      BY <3>2, LenProperties DEF Uid
    <3> QED
      BY <3>1, <3>2, <3>3
  <2>2. \A h \in Handlers : ~Busy(h)'
    BY <1>5 DEF Rest, Busy
  <2>3. \A u : \A n \in Number : ~Live(u, n)'
    BY <1>5, <2>2 DEF Rest, Live, InHand
  <2> QED
    BY <2>1, <2>3, CooldownKept
<1>6. CASE UNCHANGED vars
  BY <1>3, <1>6 DEF vars
<1> QED
  BY <1>1, <1>2, <1>4, <1>5, <1>6, CooldownStep DEF Next

\* UsernameCooldown: the 30 days are looked at when a code is asked for and not when it
\* is used, and what gets past them was asked for before the first change.
THEOREM CooldownCorrect == Spec => []UsernameCooldown
<1>1. Init => TypeInv /\ NumbersInv /\ OnceInv /\ CooldownInv
  <2> SUFFICES ASSUME Init
               PROVE  CooldownInv
    BY TypeInit, CodesInit
  <2>1. \A h \in Handlers : ~Busy(h)
    BY DEF Init, Busy
  <2>2. \A u : LiveNumbers(u) = {}
    BY <2>1 DEF Init, LiveNumbers, Live, InHand
  <2>3. \A u \in Uid : users[u].changes = 0 /\ users[u].early = 0
    BY DEF Init, Uid, NewUser
  <2> QED
    BY <2>2, <2>3, FS_EmptySet DEF CooldownInv
<1>2. /\ TypeInv /\ NumbersInv /\ OnceInv /\ CooldownInv /\ [Next]_vars
      => (TypeInv /\ NumbersInv /\ OnceInv /\ CooldownInv)'
  BY TypeNext, NumbersNext, OnceNext, CooldownNext
<1>3. TypeInv /\ CooldownInv => UsernameCooldown
  <2> SUFFICES ASSUME TypeInv, CooldownInv, NEW u \in Uid, shared = {}
               PROVE  users[u].changes > 1 => users[u].early > 1
    BY DEF UsernameCooldown
  <2>1. users[u].changes \in Nat /\ users[u].early \in Nat
    BY UsersLength DEF User
  <2>2. users[u].changes + Cardinality(LiveNumbers(u)) <= users[u].early
    BY DEF CooldownInv
  <2> QED
    BY <2>1, <2>2, LiveFinite
<1> QED
  BY <1>1, <1>2, <1>3, PTL DEF Spec

=============================================================================
