------------------------- MODULE DeviceLoginProofs -------------------------
(***************************************************************************)
(* Proofs about DeviceLogin, for any number of handlers, documents,        *)
(* requests and failures.                                                  *)
(***************************************************************************)
EXTENDS DeviceLogin, SequenceTheorems, WellFoundedInduction, TLAPS

USE DeviceLoginAssumption

-----------------------------------------------------------------------------
(* Types *)

\* Queries of a request that holds a document.
Holding ==
  {"askOtp", "setLogin", "verifyOtp", "saveTrust", "findTrusted", "create",
   "createAgain", "untrust", "deactivate"}

\* Queries that need some document of the fingerprint.
Needing == {"setCode", "askOtpVerify", "setVerify"}

\* A request at each query, when there are n documents.
Typed(r, n) ==
  /\ r.at \in Holding => r.doc \in 1..n
  /\ r.at \in Needing => n > 0

TypeInv ==
  /\ TypeOK
  /\ \A h \in Handlers : Busy(h) => Typed(requests[h], Len(docs))
  /\ \A c \in challenges : c.kind # "mail" => c.doc \in 1..Len(docs)
  /\ \A s \in sessions : s.doc \in 1..Len(docs)

\* findOne takes one of those that match.
LEMMA FirstIn ==
  ASSUME NEW S \in SUBSET Nat, S # {}
  PROVE  First(S) \in S
<1> DEFINE R == OpToRel(<, Nat)
<1>1. IsWellFoundedOn(R, Nat)
  BY NatLessThanWellFounded
<1> HIDE DEF R
<1>2. PICK i \in S : \A j \in S : ~ (<<j, i>> \in R)
  BY <1>1, WFMin
<1>3. \A j \in S : ~ (j < i)
  BY <1>2 DEF R, OpToRel
<1>4. \E k \in S : \A j \in S : k <= j
  BY <1>3
<1> QED
  BY <1>4 DEF First

\* Types hold at first.
LEMMA TypeInit ==
  ASSUME Init
  PROVE  TypeInv
BY DEF Init, TypeInv, TypeOK, Busy

\* What a busy handler holds.
LEMMA Holds ==
  ASSUME TypeInv, NEW h \in Handlers, Busy(h)
  PROVE  requests[h] \in Request /\ Typed(requests[h], Len(docs))
BY DEF TypeInv, TypeOK, Busy

\* A request moves, and documents may be added.
LEMMA BecomesTyped ==
  ASSUME TypeInv, NEW h \in Handlers, NEW r \in Request \cup {None}, Becomes(h, r),
         Len(docs) \in Nat, Len(docs') \in Nat, Len(docs) <= Len(docs'),
         r # None => Typed(r, Len(docs'))
  PROVE  /\ requests' \in [Handlers -> Request \cup {None}]
         /\ \A g \in Handlers : Busy(g)' => Typed(requests[g], Len(docs))'
<1>1. \A g \in Handlers : requests'[g] = IF g = h THEN r ELSE requests[g]
  BY DEF TypeInv, TypeOK, Becomes
<1>2. requests' \in [Handlers -> Request \cup {None}]
  BY DEF TypeInv, TypeOK, Becomes
<1>3. \A g \in Handlers : g # h /\ requests'[g] # None => Typed(requests[g], Len(docs'))
  <2> SUFFICES ASSUME NEW g \in Handlers, g # h, requests'[g] # None
               PROVE  Typed(requests[g], Len(docs'))
    OBVIOUS
  <2>1. Busy(g)
    BY <1>1 DEF Busy
  <2> QED
    BY <2>1, Holds DEF Typed
<1>4. \A g \in Handlers : requests'[g] # None => Typed(requests'[g], Len(docs'))
  BY <1>1, <1>3
<1> QED
  BY <1>2, <1>4 DEF Busy, Typed

\* A request that moves on is typed, if it holds the document that its query needs.
LEMMA GotoTyped ==
  ASSUME TypeInv, NEW h \in Handlers, Busy(h), NEW q \in Queries, Goto(h, q), UNCHANGED docs,
         q \in Holding => requests[h].doc \in 1..Len(docs),
         q \in Needing => Len(docs) > 0
  PROVE  /\ requests' \in [Handlers -> Request \cup {None}]
         /\ \A g \in Handlers : Busy(g)' => Typed(requests[g], Len(docs))'
<1> DEFINE r == [requests[h] EXCEPT !.at = q]
<1>1. r \in Request /\ Typed(r, Len(docs))
  BY Holds DEF Request, Typed
<1>2. Len(docs) \in Nat
  BY DEF TypeInv, TypeOK
<1> QED
  BY <1>1, <1>2, BecomesTyped DEF Goto

\* A request that takes a document is typed.
LEMMA TakeTyped ==
  ASSUME TypeInv, NEW h \in Handlers, Busy(h), NEW q \in Queries, NEW d, Take(h, q, d),
         docs' \in Seq(BOOLEAN), Len(docs) <= Len(docs'), Len(docs') <= MaxDocs,
         d \in 1..Len(docs')
  PROVE  /\ requests' \in [Handlers -> Request \cup {None}]
         /\ \A g \in Handlers : Busy(g)' => Typed(requests[g], Len(docs))'
<1> DEFINE r == [requests[h] EXCEPT !.at = q, !.doc = d, !.late = FALSE]
<1>1. Len(docs) \in Nat /\ Len(docs') \in Nat
  BY DEF TypeInv, TypeOK
<1>2. d \in DocNumber
  BY <1>1 DEF DocNumber
<1>3. requests[h] \in Request
  BY Holds
<1>4. r \in Request /\ r.doc = d
  BY <1>2, <1>3 DEF Request
<1>5. Typed(r, Len(docs'))
  BY <1>1, <1>4 DEF Typed
<1> QED
  BY <1>1, <1>4, <1>5, BecomesTyped DEF Take

\* A request that ends leaves the others typed.
LEMMA ReturnTyped ==
  ASSUME TypeInv, NEW h \in Handlers, Return(h), UNCHANGED docs
  PROVE  /\ requests' \in [Handlers -> Request \cup {None}]
         /\ \A g \in Handlers : Busy(g)' => Typed(requests[g], Len(docs))'
<1>1. Len(docs) \in Nat
  BY DEF TypeInv, TypeOK
<1> QED
  BY <1>1, BecomesTyped DEF Return

\* A request that begins.
LEMMA BeginTyped ==
  ASSUME TypeInv, NEW h \in Handlers, NEW op \in Operations, NEW q \in Queries,
         NEW d \in DocNumber, NEW late \in BOOLEAN, Begin(h, op, q, d, late),
         q \in Holding => d \in 1..Len(docs),
         q \in Needing => Len(docs) > 0
  PROVE  TypeInv'
<1> DEFINE r == [op |-> op, at |-> q, doc |-> d, on |-> otp = "on", failed |-> FALSE, late |-> late]
<1>1. r \in Request /\ Typed(r, Len(docs))
  BY DEF Request, Typed
<1>2. Becomes(h, r) /\ begun' \in 0..MaxRequests
  BY DEF Begin, TypeInv, TypeOK
<1>3. Len(docs) \in Nat /\ docs' = docs
  BY DEF TypeInv, TypeOK, Begin
<1>4. /\ requests' \in [Handlers -> Request \cup {None}]
      /\ \A g \in Handlers : Busy(g)' => Typed(requests[g], Len(docs))'
  BY <1>1, <1>2, <1>3, BecomesTyped
<1> QED
  BY <1>2, <1>4 DEF TypeInv, TypeOK, Begin

\* A request that begins is typed.
LEMMA BeginKeepsTypes ==
  ASSUME TypeInv, NEW h \in Handlers, BeginSomething(h)
  PROVE  TypeInv'
<1>0. 0 \in DocNumber /\ Len(docs) \in Nat /\ Len(docs) <= MaxDocs
  BY DEF DocNumber, TypeInv, TypeOK
<1>1. CASE BeginLogin(h) \/ BeginWallet(h)
  BY <1>0, <1>1, BeginTyped DEF BeginLogin, BeginWallet, Operations, Queries, Holding, Needing
<1>2. CASE BeginResend(h)
  <2>1. Len(docs) > 0
    BY <1>2, <1>0, EmptySeq DEF BeginResend, TypeInv, TypeOK
  <2> QED
    BY <1>0, <1>2, <2>1, BeginTyped DEF BeginResend, Operations, Queries, Holding, Needing
<1>3. CASE BeginMailCode(h)
  BY <1>0, <1>3, BeginTyped DEF BeginMailCode, Operations, Queries, Holding, Needing
<1>4. CASE BeginLoginOtp(h) \/ BeginTrustOtp(h)
  <2>1. PICK c \in challenges :
          \/ c.kind = "login" /\ Begin(h, "loginOtp", "verifyOtp", c.doc, c.late)
          \/ c.kind = "verify" /\ Begin(h, "trustOtp", "verifyOtp", c.doc, c.late)
    BY <1>4 DEF BeginLoginOtp, BeginTrustOtp
  <2>2. c.doc \in 1..Len(docs) /\ c.doc \in DocNumber /\ c.late \in BOOLEAN
    BY <2>1 DEF TypeInv, TypeOK, Challenge
  <2> QED
    BY <2>1, <2>2, BeginTyped DEF Operations, Queries, Needing
<1>5. CASE BeginRevoke(h)
  <2>1. PICK d \in 1..Len(docs) : Begin(h, "revoke", "untrust", d, FALSE)
    BY <1>5 DEF BeginRevoke, Marked
  <2>2. d \in DocNumber
    BY <1>0 DEF DocNumber
  <2> QED
    BY <2>1, <2>2, BeginTyped DEF Operations, Queries, Needing
<1>6. CASE BeginOtp(h)
  BY <1>0, <1>6, BeginTyped DEF BeginOtp, Operations, Queries, Holding, Needing
<1> QED
  BY <1>1, <1>2, <1>3, <1>4, <1>5, <1>6 DEF BeginSomething

\* What a query finds among the documents is one of them.
LEMMA MarkedIn ==
  ASSUME TypeInv, NEW b \in BOOLEAN, NEW S, S \subseteq Marked(b) \/ S \subseteq 1..Len(docs), S # {}
  PROVE  First(S) \in 1..Len(docs) /\ First(S) \in S
<1>1. S \in SUBSET Nat /\ S \subseteq 1..Len(docs)
  BY DEF Marked, TypeInv, TypeOK
<1> QED
  BY <1>1, FirstIn

\* A step that moves one request, and adds documents at most.
LEMMA MovesKeepTypes ==
  ASSUME TypeInv,
         docs' \in Seq(BOOLEAN), Len(docs) <= Len(docs'), Len(docs') <= MaxDocs,
         /\ requests' \in [Handlers -> Request \cup {None}]
         /\ \A g \in Handlers : Busy(g)' => Typed(requests[g], Len(docs))',
         UNCHANGED <<otp, challenges, sessions, begun, faults>>
  PROVE  TypeInv'
<1>1. Len(docs) \in Nat /\ Len(docs') \in Nat
  BY DEF TypeInv, TypeOK
<1>2. TypeOK'
  BY <1>1 DEF TypeInv, TypeOK
<1>3. /\ \A c \in challenges' : c.kind # "mail" => c.doc \in 1..Len(docs')
      /\ \A s \in sessions' : s.doc \in 1..Len(docs')
  BY <1>1 DEF TypeInv
<1> QED
  BY <1>2, <1>3 DEF TypeInv

\* A change of trust is one of one document.
LEMMA TrustChanged ==
  ASSUME TypeInv, NEW d \in 1..Len(docs), NEW b \in BOOLEAN, SetTrust(d, b)
  PROVE  /\ docs' \in Seq(BOOLEAN) /\ Len(docs') = Len(docs)
         /\ \A i \in 1..Len(docs) : docs'[i] = IF i = d THEN b ELSE docs[i]
BY ExceptSeq DEF TypeInv, TypeOK, SetTrust

\* The fingerprint's queries.
LEMMA FingerprintKeepsTypes ==
  ASSUME TypeInv, NEW h \in Handlers,
         \/ CheckDeviceFingerprint(h)
         \/ FindDeviceFingerprint(h)
         \/ CreateDeviceFingerprint(h)
         \/ FindUntrusted(h)
         \/ SaveTrust(h)
         \/ FindTrusted(h)
  PROVE  TypeInv'
<1>0. docs \in Seq(BOOLEAN) /\ Len(docs) \in Nat /\ Len(docs) <= MaxDocs
  BY DEF TypeInv, TypeOK
<1>1. CASE CheckDeviceFingerprint(h)
  <2>1. Busy(h) /\ UNCHANGED <<docs, otp, challenges, sessions, begun, faults>>
    BY <1>1 DEF CheckDeviceFingerprint, CheckIf, At
  <2>2. CASE Goto(h, "findDoc")
    BY <1>0, <2>1, <2>2, GotoTyped, MovesKeepTypes DEF Queries, Holding, Needing
  <2>3. CASE docs # <<>> /\ (Take(h, "askOtp", 1) \/ Take(h, "create", 1))
    <3>1. 1 \in 1..Len(docs)
      BY <1>0, <2>3, EmptySeq
    <3> QED
      BY <1>0, <2>1, <2>3, <3>1, TakeTyped, MovesKeepTypes DEF Queries
  <2> QED
    BY <1>1, <2>2, <2>3 DEF CheckDeviceFingerprint, CheckIf
<1>2. CASE FindDeviceFingerprint(h)
  <2>1. Busy(h) /\ UNCHANGED <<docs, otp, challenges, sessions, begun, faults>>
    BY <1>2 DEF FindDeviceFingerprint, At
  <2>2. CASE Goto(h, "createDoc")
    BY <1>0, <2>1, <2>2, GotoTyped, MovesKeepTypes DEF Queries, Holding, Needing
  <2>3. CASE 1..Len(docs) # {} /\ Goto(h, "setCode")
    <3>1. Len(docs) > 0
      BY <1>0, <2>3
    <3> QED
      BY <1>0, <2>1, <2>3, <3>1, GotoTyped, MovesKeepTypes DEF Queries, Holding
  <2>4. CASE Marked(FALSE) # {} /\ Take(h, "saveTrust", First(Marked(FALSE)))
    <3>1. PICK d \in 1..Len(docs) : Take(h, "saveTrust", d)
      BY <2>4, MarkedIn
    <3> QED
      BY <1>0, <2>1, <3>1, TakeTyped, MovesKeepTypes DEF Queries
  <2> QED
    BY <1>2, <2>2, <2>3, <2>4 DEF FindDeviceFingerprint
<1>3. CASE CreateDeviceFingerprint(h)
  <2> DEFINE wallet == requests[h].op = "wallet"
  <2>1. /\ Busy(h) /\ UNCHANGED <<otp, challenges, sessions, begun, faults>>
        /\ docs' = Append(docs, wallet) /\ Len(docs) < MaxDocs
    BY <1>3 DEF CreateDeviceFingerprint, At
  <2>2. wallet \in BOOLEAN
    OBVIOUS
  <2>3. docs' \in Seq(BOOLEAN) /\ Len(docs') = Len(docs) + 1
    <3> HIDE DEF wallet
    <3> QED
      BY <1>0, <2>1, <2>2, AppendProperties
  <2>4. CASE Take(h, "create", Len(docs) + 1)
    BY <1>0, <2>1, <2>3, <2>4, TakeTyped, MovesKeepTypes DEF Queries
  <2>5. CASE Goto(h, "setCode")
    <3> DEFINE r == [requests[h] EXCEPT !.at = "setCode"]
    <3>1. r \in Request /\ r.at = "setCode"
      BY <2>1, Holds DEF Request, Queries
    <3>2. Typed(r, Len(docs'))
      BY <1>0, <2>3, <3>1 DEF Typed, Holding
    <3>3. /\ requests' \in [Handlers -> Request \cup {None}]
          /\ \A g \in Handlers : Busy(g)' => Typed(requests[g], Len(docs))'
      BY <1>0, <2>3, <2>5, <3>1, <3>2, BecomesTyped DEF Goto
    <3> QED
      BY <1>0, <2>1, <2>3, <3>3, MovesKeepTypes
  <2> QED
    BY <1>3, <2>4, <2>5 DEF CreateDeviceFingerprint
<1>4. CASE FindUntrusted(h)
  <2>1. Busy(h) /\ UNCHANGED <<docs, otp, challenges, sessions, begun, faults>>
    BY <1>4 DEF FindUntrusted, At
  <2>2. CASE Return(h)
    BY <1>0, <2>1, <2>2, ReturnTyped, MovesKeepTypes
  <2>3. CASE \E S \in SUBSET Marked(FALSE) : S # {} /\ Take(h, "saveTrust", First(S))
    <3>1. PICK S \in SUBSET Marked(FALSE) : S # {} /\ Take(h, "saveTrust", First(S))
      BY <2>3
    <3>2. First(S) \in 1..Len(docs)
      BY <3>1, MarkedIn
    <3> QED
      BY <1>0, <2>1, <3>1, <3>2, TakeTyped, MovesKeepTypes DEF Queries
  <2> QED
    BY <1>4, <2>2, <2>3 DEF FindUntrusted
<1>5. CASE SaveTrust(h)
  <2> DEFINE d == requests[h].doc
  <2>1. /\ Busy(h) /\ UNCHANGED <<otp, challenges, sessions, begun, faults>>
        /\ SetTrust(d, TRUE) /\ requests[h].at = "saveTrust"
    BY <1>5 DEF SaveTrust, At
  <2>2. d \in 1..Len(docs)
    BY <2>1, Holds DEF Typed, Holding
  <2>3. docs' \in Seq(BOOLEAN) /\ Len(docs') = Len(docs)
    <3> HIDE DEF d
    <3> QED
      BY <2>1, <2>2, TrustChanged
  <2>4. Take(h, "create", d) \/ Take(h, "findTrusted", d)
    BY <1>5 DEF SaveTrust
  <2> QED
    BY <1>0, <2>1, <2>2, <2>3, <2>4, TakeTyped, MovesKeepTypes DEF Queries
<1>6. CASE FindTrusted(h)
  <2>1. Busy(h) /\ UNCHANGED <<docs, otp, challenges, sessions, begun, faults>>
    BY <1>6 DEF FindTrusted, At
  <2>2. CASE Return(h)
    BY <1>0, <2>1, <2>2, ReturnTyped, MovesKeepTypes
  <2>3. CASE \E S \in SUBSET Marked(TRUE) :
               S # {} /\ (Take(h, "create", First(S)) \/ Take(h, "askOtp", First(S)))
    <3>1. PICK S \in SUBSET Marked(TRUE) :
            S # {} /\ (Take(h, "create", First(S)) \/ Take(h, "askOtp", First(S)))
      BY <2>3
    <3>2. First(S) \in 1..Len(docs)
      BY <3>1, MarkedIn
    <3> QED
      BY <1>0, <2>1, <3>1, <3>2, TakeTyped, MovesKeepTypes DEF Queries
  <2> QED
    BY <1>6, <2>2, <2>3 DEF FindTrusted
<1> QED
  BY <1>1, <1>2, <1>3, <1>4, <1>5, <1>6

\* The queries for codes, tokens and the second factor.
LEMMA CodesKeepTypes ==
  ASSUME TypeInv, NEW h \in Handlers,
         \/ SetCode(h)
         \/ AskOtpVerify(h)
         \/ SetVerify(h)
         \/ AskOtp(h)
         \/ SetLogin(h)
         \/ VerifyOtp(h)
         \/ CreateOtp(h)
  PROVE  TypeInv'
<1>0. docs \in Seq(BOOLEAN) /\ Len(docs) \in Nat /\ Len(docs) <= MaxDocs
  BY DEF TypeInv, TypeOK
<1>1. CASE SetCode(h) \/ SetVerify(h) \/ SetLogin(h)
  <2>1. Busy(h) /\ UNCHANGED <<docs, otp, sessions, begun, faults>>
    BY <1>1 DEF SetCode, SetVerify, SetLogin, At
  <2>2. /\ requests' \in [Handlers -> Request \cup {None}]
        /\ \A g \in Handlers : Busy(g)' => Typed(requests[g], Len(docs))'
    <3>1. CASE Return(h)
      BY <2>1, <3>1, ReturnTyped
    <3>2. CASE requests[h].at = "setCode" /\ Goto(h, "askOtpVerify")
      <4>1. Len(docs) > 0
        BY <2>1, <3>2, Holds DEF Typed, Needing
      <4> QED
        BY <2>1, <3>2, <4>1, GotoTyped DEF Queries, Holding
    <3> QED
      BY <1>1, <3>1, <3>2 DEF SetCode, SetVerify, SetLogin, At
  <2>3. PICK c \in Challenge :
          challenges' = challenges \cup {c} /\ (c.kind # "mail" => c.doc \in 1..Len(docs))
    <3>1. CASE SetCode(h)
      <4> DEFINE c == [kind |-> "mail", doc |-> 0, late |-> FALSE]
      <4>1. c \in Challenge /\ challenges' = challenges \cup {c}
        BY <3>1 DEF SetCode, Challenge, DocNumber
      <4> QED
        BY <4>1
    <3>2. CASE SetVerify(h)
      <4> DEFINE c == [kind |-> "verify", doc |-> 1, late |-> FALSE]
      <4>1. Len(docs) > 0
        BY <3>2, Holds DEF SetVerify, At, Typed, Needing
      <4>2. c \in Challenge /\ challenges' = challenges \cup {c}
        BY <1>0, <3>2, <4>1 DEF SetVerify, Challenge, DocNumber
      <4>3. c.doc \in 1..Len(docs)
        BY <1>0, <4>1
      <4> QED
        BY <4>2, <4>3
    <3>3. CASE SetLogin(h)
      <4> DEFINE r == requests[h]
                 c == [kind |-> "login", doc |-> r.doc, late |-> r.late]
      <4>1. r \in Request /\ r.doc \in 1..Len(docs)
        BY <3>3, Holds DEF SetLogin, At, Typed, Holding
      <4>2. c \in Challenge /\ challenges' = challenges \cup {c}
        BY <3>3, <4>1 DEF SetLogin, Challenge, Request
      <4>3. c.doc \in 1..Len(docs)
        BY <4>1
      <4> QED
        BY <4>2, <4>3
    <3> QED
      BY <1>1, <3>1, <3>2, <3>3
  <2>4. challenges' \subseteq Challenge
    BY <2>3 DEF TypeInv, TypeOK
  <2>5. \A e \in challenges' : e.kind # "mail" => e.doc \in 1..Len(docs)
    BY <2>3 DEF TypeInv
  <2> QED
    BY <2>1, <2>2, <2>4, <2>5 DEF TypeInv, TypeOK
<1>2. CASE AskOtpVerify(h) \/ AskOtp(h) \/ VerifyOtp(h)
  <2>1. Busy(h) /\ UNCHANGED <<docs, otp, challenges, sessions, begun, faults>>
    BY <1>2 DEF AskOtpVerify, AskOtp, VerifyOtp, At
  <2>2. CASE Return(h)
    BY <1>0, <2>1, <2>2, ReturnTyped, MovesKeepTypes
  <2>3. CASE Goto(h, "findUntrusted")
    BY <1>0, <2>1, <2>3, GotoTyped, MovesKeepTypes DEF Queries, Holding, Needing
  <2>4. CASE requests[h].at = "askOtpVerify" /\ Goto(h, "setVerify")
    <3>1. Len(docs) > 0
      BY <2>1, <2>4, Holds DEF Typed, Needing
    <3> QED
      BY <1>0, <2>1, <2>4, <3>1, GotoTyped, MovesKeepTypes DEF Queries, Holding
  <2>5. CASE requests[h].at \in {"askOtp", "verifyOtp"} /\ (Goto(h, "setLogin") \/ Goto(h, "create"))
    <3>1. requests[h].doc \in 1..Len(docs)
      BY <2>1, <2>5, Holds DEF Typed, Holding
    <3> QED
      BY <1>0, <2>1, <2>5, <3>1, GotoTyped, MovesKeepTypes DEF Queries, Needing
  <2> QED
    BY <1>2, <2>2, <2>3, <2>4, <2>5 DEF AskOtpVerify, AskOtp, VerifyOtp, At
<1>3. CASE CreateOtp(h)
  <2>1. /\ requests' \in [Handlers -> Request \cup {None}]
        /\ \A g \in Handlers : Busy(g)' => Typed(requests[g], Len(docs))'
    BY <1>3, ReturnTyped DEF CreateOtp
  <2> QED
    BY <1>3, <2>1 DEF CreateOtp, TypeInv, TypeOK
<1> QED
  BY <1>1, <1>2, <1>3

\* The queries that change several things at once.
LEMMA OthersKeepTypes ==
  ASSUME TypeInv, NEW h \in Handlers,
         Untrust(h) \/ Deactivate(h) \/ CreateSession(h) \/ SaveOtp(h)
  PROVE  TypeInv'
<1>0. docs \in Seq(BOOLEAN) /\ Len(docs) \in Nat /\ Len(docs) <= MaxDocs
  BY DEF TypeInv, TypeOK
<1>1. CASE Untrust(h)
  <2> DEFINE d == requests[h].doc
  <2>1. /\ Busy(h) /\ requests[h].at = "untrust" /\ SetTrust(d, FALSE)
        /\ UNCHANGED <<otp, sessions, begun, faults>>
        /\ challenges' = {IF c.doc = d THEN [c EXCEPT !.late = TRUE] ELSE c : c \in challenges}
    BY <1>1 DEF Untrust, At
  <2>2. d \in 1..Len(docs)
    BY <2>1, Holds DEF Typed, Holding
  <2>3. docs' \in Seq(BOOLEAN) /\ Len(docs') = Len(docs)
    <3> HIDE DEF d
    <3> QED
      BY <2>1, <2>2, TrustChanged
  <2>4. \A g \in Handlers : requests'[g] # None =>
          /\ requests'[g] \in Request
          /\ Typed(requests'[g], Len(docs))
    <3> SUFFICES ASSUME NEW g \in Handlers, requests'[g] # None
                 PROVE  requests'[g] \in Request /\ Typed(requests'[g], Len(docs))
      OBVIOUS
    <3>1. requests'[g] = IF g = h THEN [requests[g] EXCEPT !.at = "deactivate"]
                         ELSE IF Busy(g) /\ requests[g].doc = d THEN [requests[g] EXCEPT !.late = TRUE]
                         ELSE requests[g]
      BY <1>1 DEF Untrust
    <3>2. requests[g] \in Request /\ Typed(requests[g], Len(docs))
      BY <2>1, <3>1, Holds DEF Busy
    <3>3. CASE g = h
      BY <2>2, <3>1, <3>2, <3>3 DEF Request, Queries, Typed, Holding, Needing
    <3>4. CASE g # h
      BY <3>1, <3>2, <3>4 DEF Request, Typed
    <3> QED
      BY <3>3, <3>4
  <2>5. requests' \in [Handlers -> Request \cup {None}]
    BY <1>1, <2>4 DEF Untrust
  <2>6. challenges' \subseteq Challenge /\ \A c \in challenges' : c.kind # "mail" => c.doc \in 1..Len(docs)
    BY <2>1 DEF TypeInv, TypeOK, Challenge
  <2>7. TypeOK'
    BY <1>0, <2>1, <2>3, <2>5, <2>6 DEF TypeInv, TypeOK
  <2> QED
    BY <2>1, <2>3, <2>4, <2>6, <2>7 DEF TypeInv, Busy, Typed
<1>2. CASE Deactivate(h)
  <2>1. /\ requests' \in [Handlers -> Request \cup {None}]
        /\ \A g \in Handlers : Busy(g)' => Typed(requests[g], Len(docs))'
    BY <1>2, ReturnTyped DEF Deactivate
  <2>2. sessions' \subseteq Session /\ \A s \in sessions' : s.doc \in 1..Len(docs)
    BY <1>2 DEF Deactivate, TypeInv, TypeOK, Session
  <2> QED
    BY <1>2, <2>1, <2>2 DEF Deactivate, TypeInv, TypeOK
<1>3. CASE CreateSession(h)
  <2> DEFINE r == requests[h]
             s == [doc |-> r.doc, op |-> r.op, active |-> TRUE,
                   on |-> r.on, failed |-> r.failed, late |-> r.late]
  <2>1. /\ Busy(h) /\ UNCHANGED <<docs, otp, challenges, begun>>
        /\ sessions' = sessions \cup {s}
    BY <1>3 DEF CreateSession, At
  <2>2. r \in Request /\ r.doc \in 1..Len(docs)
    BY <1>3, Holds DEF CreateSession, At, Busy, Typed, Holding
  <2>3. s \in Session /\ s.doc \in 1..Len(docs)
    BY <1>0, <2>2 DEF Session, Request, DocNumber
  <2>4. sessions' \subseteq Session /\ \A t \in sessions' : t.doc \in 1..Len(docs)
    BY <2>1, <2>3 DEF TypeInv, TypeOK
  <2>5. /\ requests' \in [Handlers -> Request \cup {None}]
        /\ \A g \in Handlers : Busy(g)' => Typed(requests[g], Len(docs))'
    <3>1. CASE Return(h)
      BY <2>1, <3>1, ReturnTyped
    <3>2. CASE Goto(h, "createAgain")
      BY <2>1, <2>2, <3>2, GotoTyped DEF Queries, Needing
    <3> QED
      BY <1>3, <3>1, <3>2 DEF CreateSession
  <2>6. faults' \in 0..MaxFaults
    BY <1>3 DEF CreateSession, Fault, TypeInv, TypeOK
  <2> QED
    BY <2>1, <2>4, <2>5, <2>6 DEF TypeInv, TypeOK
<1>4. CASE SaveOtp(h)
  <2>1. otp' \in {"off", "on"} /\ UNCHANGED <<docs, challenges, sessions, begun, faults>>
    BY <1>4 DEF SaveOtp
  <2>2. PICK b \in BOOLEAN : requests' = [g \in Handlers |->
          IF g = h THEN None
          ELSE IF Busy(g) THEN [requests[g] EXCEPT !.on = @ /\ b]
          ELSE None]
    BY <1>4 DEF SaveOtp
  <2>3. \A g \in Handlers : requests'[g] # None =>
          /\ requests'[g] \in Request
          /\ Typed(requests'[g], Len(docs))
    <3> SUFFICES ASSUME NEW g \in Handlers, requests'[g] # None
                 PROVE  requests'[g] \in Request /\ Typed(requests'[g], Len(docs))
      OBVIOUS
    <3>1. Busy(g) /\ requests'[g] = [requests[g] EXCEPT !.on = @ /\ b]
      BY <2>2
    <3>2. requests[g] \in Request /\ Typed(requests[g], Len(docs))
      BY <3>1, Holds
    <3>3. (requests[g].on /\ b) \in BOOLEAN
      OBVIOUS
    <3> QED
      BY <3>1, <3>2, <3>3 DEF Request, Typed
  <2>4. requests' \in [Handlers -> Request \cup {None}]
    BY <2>2, <2>3
  <2>5. \A g \in Handlers : Busy(g)' => Typed(requests[g], Len(docs))'
    BY <2>1, <2>3 DEF Busy, Typed
  <2> QED
    BY <2>1, <2>4, <2>5 DEF TypeInv, TypeOK
<1> QED
  BY <1>1, <1>2, <1>3, <1>4

\* A failed query keeps types.
LEMMA FailsKeepsTypes ==
  ASSUME TypeInv, NEW h \in Handlers, Fails(h)
  PROVE  TypeInv'
<1>1. Busy(h) /\ UNCHANGED <<docs, otp, challenges, begun>> /\ faults' \in 0..MaxFaults
  BY DEF Fails, Fault, TypeInv, TypeOK
<1>2. sessions' \subseteq Session /\ \A s \in sessions' : s.doc \in 1..Len(docs)
  BY DEF Fails, TypeInv, TypeOK, Session
<1>3. requests[h] \in Request /\ Typed(requests[h], Len(docs))
  BY <1>1, Holds
<1>4. /\ requests' \in [Handlers -> Request \cup {None}]
      /\ \A g \in Handlers : Busy(g)' => Typed(requests[g], Len(docs))'
  <2>1. CASE Return(h)
    BY <1>1, <2>1, ReturnTyped
  <2>2. CASE Onward(h)
    <3>1. PICK q \in {"create", "createAgain"} :
            /\ requests[h].at \in Holding
            /\ Becomes(h, [requests[h] EXCEPT !.at = q, !.failed = TRUE])
      BY <2>2 DEF Onward, Holding
    <3> DEFINE r == [requests[h] EXCEPT !.at = q, !.failed = TRUE]
    <3>2. r \in Request /\ r.at = q /\ r.doc = requests[h].doc
      BY <1>3 DEF Request, Queries
    <3>3. Typed(r, Len(docs))
      BY <1>3, <3>1, <3>2 DEF Typed, Needing
    <3>4. Len(docs) \in Nat
      BY DEF TypeInv, TypeOK
    <3> QED
      BY <1>1, <3>1, <3>2, <3>3, <3>4, BecomesTyped
  <2> QED
    BY <2>1, <2>2 DEF Fails
<1> QED
  BY <1>1, <1>2, <1>4 DEF TypeInv, TypeOK

\* Every step keeps types.
LEMMA TypeNext ==
  ASSUME TypeInv, [Next]_vars
  PROVE  TypeInv'
<1>1. ASSUME NEW h \in Handlers, BeginSomething(h)
      PROVE  TypeInv'
  BY <1>1, BeginKeepsTypes
<1>2. ASSUME NEW h \in Handlers, Step(h)
      PROVE  TypeInv'
  BY <1>2, FingerprintKeepsTypes, CodesKeepTypes, OthersKeepTypes DEF Step
<1>3. ASSUME NEW h \in Handlers, Fails(h)
      PROVE  TypeInv'
  BY <1>3, FailsKeepsTypes
<1>4. CASE Expire
  BY <1>4 DEF Expire, TypeInv, TypeOK, Busy, Typed
<1>5. CASE UNCHANGED vars
  BY <1>5 DEF vars, TypeInv, TypeOK, Busy, Typed
<1> QED
  BY <1>1, <1>2, <1>3, <1>4, <1>5 DEF Next

\* Types: a session, and a request that acts on one, name a document that exists.
THEOREM TypeCorrect == Spec => []TypeOK
<1>1. Init => TypeInv
  BY TypeInit
<1>2. TypeInv /\ [Next]_vars => TypeInv'
  BY TypeNext
<1>3. TypeInv => TypeOK
  BY DEF TypeInv
<1> QED
  BY <1>1, <1>2, <1>3, PTL DEF Spec

-----------------------------------------------------------------------------
(* The second factor *)

\* A request that has had the second factor enabled all along is still in a state
\* where it is; where it makes a session, it has been through the one-time password,
\* a wallet or a failure.
Checked(r) ==
  /\ r.on => otp = "on"
  /\ r.at \in {"create", "createAgain"} /\ r.on /\ ~r.failed /\ r.op # "wallet" => r.op \in Verified

SecondInv ==
  /\ \A h \in Handlers : Busy(h) => Checked(requests[h])
  /\ SecondFactor

\* One request moves and the second factor stays as it is.
LEMMA MovesKeepSecond ==
  ASSUME TypeInv, SecondInv, NEW h \in Handlers, NEW r \in Request \cup {None}, Becomes(h, r),
         UNCHANGED otp, r # None => Checked(r),
         \A s \in sessions' : \E t \in sessions :
           s.on = t.on /\ s.failed = t.failed /\ s.op = t.op
  PROVE  SecondInv'
<1>1. \A g \in Handlers : requests'[g] = IF g = h THEN r ELSE requests[g]
  BY DEF TypeInv, TypeOK, Becomes
<1>2. \A g \in Handlers : Busy(g)' => Checked(requests[g])'
  BY <1>1 DEF SecondInv, Busy, Checked
<1>3. SecondFactor'
  BY DEF SecondInv, SecondFactor
<1> QED
  BY <1>2, <1>3 DEF SecondInv

\* A request of the same operation, with what it has of its history.
LEMMA GoesOnSecond ==
  ASSUME TypeInv, SecondInv, NEW h \in Handlers, Busy(h), NEW q \in Queries,
         \/ Goto(h, q)
         \/ \E d \in DocNumber : Take(h, q, d),
         UNCHANGED <<otp, sessions>>,
         \/ q \notin {"create", "createAgain"}
         \/ otp # "on"
         \/ requests[h].op \in Verified \cup {"wallet"}
  PROVE  SecondInv'
<1>1. requests[h] \in Request /\ Checked(requests[h])
  BY Holds DEF SecondInv
<1>2. PICK r \in Request :
        /\ Becomes(h, r)
        /\ r.at = q /\ r.on = requests[h].on /\ r.failed = requests[h].failed
        /\ r.op = requests[h].op
  <2>1. CASE Goto(h, q)
    <3> DEFINE r == [requests[h] EXCEPT !.at = q]
    <3>1. r \in Request /\ Becomes(h, r)
      BY <1>1, <2>1 DEF Goto, Request
    <3>2. r.at = q /\ r.on = requests[h].on /\ r.failed = requests[h].failed /\ r.op = requests[h].op
      BY <1>1 DEF Request
    <3> QED
      BY <3>1, <3>2
  <2>2. CASE \E d \in DocNumber : Take(h, q, d)
    <3>1. PICK d \in DocNumber : Take(h, q, d)
      BY <2>2
    <3> DEFINE r == [requests[h] EXCEPT !.at = q, !.doc = d, !.late = FALSE]
    <3>2. r \in Request /\ Becomes(h, r)
      BY <1>1, <3>1 DEF Take, Request
    <3>3. r.at = q /\ r.on = requests[h].on /\ r.failed = requests[h].failed /\ r.op = requests[h].op
      BY <1>1 DEF Request
    <3> QED
      BY <3>2, <3>3
  <2> QED
    BY <2>1, <2>2
<1>3. Checked(r)
  BY <1>1, <1>2 DEF Checked
<1> QED
  BY <1>2, <1>3, MovesKeepSecond

\* A request that ends without a session owes no second factor.
LEMMA ReturnSecond ==
  ASSUME TypeInv, SecondInv, NEW h \in Handlers, Return(h), UNCHANGED <<otp, sessions>>
  PROVE  SecondInv'
BY MovesKeepSecond DEF Return

\* A request that begins owes the second factor from then on.
LEMMA BeginKeepsSecond ==
  ASSUME TypeInv, SecondInv, NEW h \in Handlers, BeginSomething(h)
  PROVE  SecondInv'
<1>1. PICK r \in Request :
        /\ Becomes(h, r) /\ UNCHANGED <<otp, sessions>>
        /\ r.at \notin {"create", "createAgain"} /\ r.on = (otp = "on")
  <2>1. ASSUME NEW op \in Operations, NEW q \in Queries \ {"create", "createAgain"},
               NEW d \in DocNumber, NEW late \in BOOLEAN, Begin(h, op, q, d, late)
        PROVE  \E r \in Request :
                 /\ Becomes(h, r) /\ UNCHANGED <<otp, sessions>>
                 /\ r.at \notin {"create", "createAgain"} /\ r.on = (otp = "on")
    <3> DEFINE r == [op |-> op, at |-> q, doc |-> d, on |-> otp = "on", failed |-> FALSE, late |-> late]
    <3>1. r \in Request
      BY DEF Request
    <3>2. Becomes(h, r) /\ UNCHANGED <<otp, sessions>>
      BY <2>1 DEF Begin
    <3>3. r.at \notin {"create", "createAgain"} /\ r.on = (otp = "on")
      OBVIOUS
    <3> QED
      BY <3>1, <3>2, <3>3
  <2>2. 0 \in DocNumber /\ FALSE \in BOOLEAN
    BY DEF DocNumber
  <2>3. \A c \in challenges : c.doc \in DocNumber /\ c.late \in BOOLEAN
    BY DEF TypeInv, TypeOK, Challenge
  <2>4. \A d \in Marked(TRUE) : d \in DocNumber
    BY DEF Marked, DocNumber, TypeInv, TypeOK
  <2>5. CASE BeginLogin(h) \/ BeginResend(h) \/ BeginWallet(h) \/ BeginMailCode(h)
    BY <2>1, <2>2, <2>5 DEF BeginLogin, BeginResend, BeginWallet, BeginMailCode, Operations, Queries
  <2>6. CASE BeginLoginOtp(h) \/ BeginTrustOtp(h)
    BY <2>1, <2>3, <2>6 DEF BeginLoginOtp, BeginTrustOtp, Operations, Queries
  <2>7. CASE BeginRevoke(h)
    BY <2>1, <2>2, <2>4, <2>7 DEF BeginRevoke, Operations, Queries
  <2>8. CASE BeginOtp(h)
    BY <2>1, <2>2, <2>8 DEF BeginOtp, Operations, Queries
  <2> QED
    BY <2>5, <2>6, <2>7, <2>8 DEF BeginSomething
<1>2. Checked(r)
  BY <1>1 DEF Checked
<1> QED
  BY <1>1, <1>2, MovesKeepSecond

\* The queries about a document keep the second factor.
LEMMA FingerprintKeepsSecond ==
  ASSUME TypeInv, SecondInv, NEW h \in Handlers,
         \/ CheckDeviceFingerprint(h)
         \/ FindDeviceFingerprint(h)
         \/ CreateDeviceFingerprint(h)
         \/ FindUntrusted(h)
         \/ SaveTrust(h)
         \/ FindTrusted(h)
  PROVE  SecondInv'
<1> DEFINE op == requests[h].op
<1>0. /\ Busy(h) /\ UNCHANGED <<otp, sessions>>
      /\ Len(docs) \in Nat /\ Len(docs) <= MaxDocs
  <2>1. Busy(h)
    BY DEF CheckDeviceFingerprint, CheckIf, FindDeviceFingerprint, CreateDeviceFingerprint,
           FindUntrusted, SaveTrust, FindTrusted, At
  <2>2. UNCHANGED <<otp, sessions>>
    BY DEF CheckDeviceFingerprint, CheckIf, FindDeviceFingerprint, CreateDeviceFingerprint,
           FindUntrusted, SaveTrust, FindTrusted
  <2> QED
    BY <2>1, <2>2 DEF TypeInv, TypeOK
<1>1. \A b \in BOOLEAN : \A S \in SUBSET Marked(b) : S # {} => First(S) \in DocNumber
  BY <1>0, MarkedIn DEF DocNumber
<1>2. CASE CheckDeviceFingerprint(h)
  <2>1. docs # <<>> => 1 \in DocNumber
    BY <1>0, EmptySeq DEF DocNumber, TypeInv, TypeOK
  <2>2. \/ Goto(h, "findDoc")
        \/ 1 \in DocNumber /\ Take(h, "askOtp", 1)
        \/ 1 \in DocNumber /\ op = "wallet" /\ Take(h, "create", 1)
    BY <1>2, <2>1 DEF CheckDeviceFingerprint, CheckIf
  <2> QED
    BY <1>0, <2>2, GoesOnSecond DEF Queries
<1>3. CASE FindDeviceFingerprint(h)
  <2>1. \/ Goto(h, "createDoc")
        \/ Goto(h, "setCode")
        \/ \E d \in DocNumber : Take(h, "saveTrust", d)
    BY <1>1, <1>3 DEF FindDeviceFingerprint
  <2> QED
    BY <1>0, <2>1, GoesOnSecond DEF Queries
<1>4. CASE CreateDeviceFingerprint(h)
  <2>1. Len(docs) + 1 \in DocNumber
    BY <1>0, <1>4 DEF CreateDeviceFingerprint, DocNumber
  <2>2. \/ Goto(h, "setCode")
        \/ op = "wallet" /\ \E d \in DocNumber : Take(h, "create", d)
    BY <1>4, <2>1 DEF CreateDeviceFingerprint
  <2> QED
    BY <1>0, <2>2, GoesOnSecond DEF Queries
<1>5. CASE FindUntrusted(h)
  <2>1. Return(h) \/ \E d \in DocNumber : Take(h, "saveTrust", d)
    BY <1>1, <1>5 DEF FindUntrusted
  <2> QED
    BY <1>0, <2>1, GoesOnSecond, ReturnSecond DEF Queries
<1>6. CASE SaveTrust(h)
  <2>1. requests[h].doc \in DocNumber
    BY <1>0, Holds DEF Request
  <2>2. \/ op = "wallet" /\ \E d \in DocNumber : Take(h, "create", d)
        \/ \E d \in DocNumber : Take(h, "findTrusted", d)
    BY <1>6, <2>1 DEF SaveTrust
  <2> QED
    BY <1>0, <2>2, GoesOnSecond DEF Queries
<1>7. CASE FindTrusted(h)
  <2>1. \/ Return(h)
        \/ op = "trustOtp" /\ \E d \in DocNumber : Take(h, "create", d)
        \/ \E d \in DocNumber : Take(h, "askOtp", d)
    BY <1>1, <1>7 DEF FindTrusted
  <2> QED
    BY <1>0, <2>1, GoesOnSecond, ReturnSecond DEF Queries, Verified
<1> QED
  BY <1>2, <1>3, <1>4, <1>5, <1>6, <1>7

\* The queries about codes keep the second factor.
LEMMA CodesKeepSecond ==
  ASSUME TypeInv, SecondInv, NEW h \in Handlers,
         \/ SetCode(h)
         \/ AskOtpVerify(h)
         \/ SetVerify(h)
         \/ AskOtp(h)
         \/ SetLogin(h)
         \/ VerifyOtp(h)
  PROVE  SecondInv'
<1> DEFINE op == requests[h].op
<1>1. Busy(h) /\ UNCHANGED <<otp, sessions>>
  BY DEF SetCode, AskOtpVerify, SetVerify, AskOtp, SetLogin, VerifyOtp, At
<1>2. \/ Return(h)
      \/ \E q \in {"askOtpVerify", "setVerify", "setLogin", "findUntrusted"} : Goto(h, q)
      \/ (otp # "on" \/ op = "loginOtp") /\ Goto(h, "create")
  BY DEF SetCode, AskOtpVerify, SetVerify, AskOtp, SetLogin, VerifyOtp
<1> QED
  BY <1>1, <1>2, GoesOnSecond, ReturnSecond DEF Queries, Verified

\* The steps that change the second factor, and those about sessions.
LEMMA OthersKeepSecond ==
  ASSUME TypeInv, SecondInv, NEW h \in Handlers,
         Untrust(h) \/ Deactivate(h) \/ CreateSession(h) \/ CreateOtp(h) \/ SaveOtp(h)
  PROVE  SecondInv'
<1>1. CASE Untrust(h)
  <2>1. \A g \in Handlers : requests'[g] # None =>
          /\ Busy(g)
          /\ requests'[g].at \in {"deactivate", requests[g].at}
          /\ requests'[g].op = requests[g].op
          /\ requests'[g].on = requests[g].on
          /\ requests'[g].failed = requests[g].failed
    <3> SUFFICES ASSUME NEW g \in Handlers, requests'[g] # None
                 PROVE  /\ Busy(g)
                        /\ requests'[g].at \in {"deactivate", requests[g].at}
                        /\ requests'[g].op = requests[g].op
                        /\ requests'[g].on = requests[g].on
                        /\ requests'[g].failed = requests[g].failed
      OBVIOUS
    <3>1. /\ Busy(g)
          /\ \/ requests'[g] = [requests[g] EXCEPT !.at = "deactivate"]
             \/ requests'[g] = [requests[g] EXCEPT !.late = TRUE]
             \/ requests'[g] = requests[g]
      BY <1>1 DEF Untrust, At, Busy
    <3>2. requests[g] \in Request
      BY <3>1, Holds
    <3> QED
      BY <3>1, <3>2 DEF Request
  <2>2. UNCHANGED <<otp, sessions>>
    BY <1>1 DEF Untrust
  <2>3. \A g \in Handlers : Busy(g)' => Checked(requests[g])'
    BY <2>1, <2>2 DEF SecondInv, Busy, Checked
  <2> QED
    BY <2>2, <2>3 DEF SecondInv, SecondFactor
<1>2. CASE Deactivate(h)
  <2>1. \A s \in sessions' : \E t \in sessions :
          s.on = t.on /\ s.failed = t.failed /\ s.op = t.op
    BY <1>2 DEF Deactivate, TypeInv, TypeOK, Session
  <2> QED
    BY <1>2, <2>1, MovesKeepSecond DEF Deactivate, Return
<1>3. CASE CreateSession(h)
  <2> DEFINE r == requests[h]
             s == [doc |-> r.doc, op |-> r.op, active |-> TRUE,
                   on |-> r.on, failed |-> r.failed, late |-> r.late]
  <2>1. /\ Busy(h) /\ UNCHANGED otp /\ sessions' = sessions \cup {s}
        /\ r.at \in {"create", "createAgain"}
    BY <1>3 DEF CreateSession, At
  <2>2. Checked(r) /\ r \in Request
    BY <2>1, Holds DEF SecondInv
  <2>3. SecondFactor'
    BY <2>1, <2>2 DEF SecondInv, SecondFactor, Checked
  <2>4. PICK e \in Request \cup {None} : Becomes(h, e) /\ (e # None => Checked(e))
    <3>1. CASE Return(h)
      BY <3>1 DEF Return
    <3>2. CASE Goto(h, "createAgain")
      <4> DEFINE e == [r EXCEPT !.at = "createAgain"]
      <4>1. e \in Request /\ e.on = r.on /\ e.failed = r.failed /\ e.op = r.op
        BY <2>2 DEF Request, Queries
      <4>2. Checked(e)
        BY <2>1, <2>2, <4>1 DEF Checked
      <4> QED
        BY <3>2, <4>1, <4>2 DEF Goto
    <3> QED
      BY <1>3, <3>1, <3>2 DEF CreateSession
  <2>5. \A g \in Handlers : requests'[g] = IF g = h THEN e ELSE requests[g]
    BY <2>4 DEF TypeInv, TypeOK, Becomes
  <2>6. \A g \in Handlers : Busy(g)' => Checked(requests[g])'
    BY <2>1, <2>4, <2>5 DEF SecondInv, Busy, Checked
  <2> QED
    BY <2>3, <2>6 DEF SecondInv
<1>4. CASE CreateOtp(h)
  <2>1. \A g \in Handlers : requests'[g] = IF g = h THEN None ELSE requests[g]
    BY <1>4 DEF CreateOtp, Return, Becomes, TypeInv, TypeOK
  <2>2. UNCHANGED sessions /\ (otp = "on" => otp' = "on")
    BY <1>4 DEF CreateOtp
  <2>3. \A g \in Handlers : Busy(g)' => Checked(requests[g])'
    BY <2>1, <2>2 DEF SecondInv, Busy, Checked
  <2> QED
    BY <2>2, <2>3 DEF SecondInv, SecondFactor
<1>5. CASE SaveOtp(h)
  <2>1. PICK b \in BOOLEAN :
          /\ b => otp' = "on"
          /\ requests' = [g \in Handlers |->
               IF g = h THEN None
               ELSE IF Busy(g) THEN [requests[g] EXCEPT !.on = @ /\ b]
               ELSE None]
    BY <1>5 DEF SaveOtp
  <2>2. UNCHANGED sessions
    BY <1>5 DEF SaveOtp
  <2>3. \A g \in Handlers : requests'[g] # None =>
          /\ Busy(g)
          /\ requests'[g].at = requests[g].at
          /\ requests'[g].op = requests[g].op
          /\ requests'[g].on = (requests[g].on /\ b)
          /\ requests'[g].failed = requests[g].failed
    <3> SUFFICES ASSUME NEW g \in Handlers, requests'[g] # None
                 PROVE  /\ Busy(g)
                        /\ requests'[g].at = requests[g].at
                        /\ requests'[g].op = requests[g].op
                        /\ requests'[g].on = (requests[g].on /\ b)
                        /\ requests'[g].failed = requests[g].failed
      OBVIOUS
    <3>1. Busy(g) /\ requests'[g] = [requests[g] EXCEPT !.on = @ /\ b]
      BY <2>1
    <3>2. requests[g] \in Request
      BY <3>1, Holds
    <3> QED
      BY <3>1, <3>2 DEF Request
  <2>4. \A g \in Handlers : Busy(g)' => Checked(requests[g])'
    BY <2>1, <2>3 DEF SecondInv, Busy, Checked
  <2> QED
    BY <2>2, <2>4 DEF SecondInv, SecondFactor
<1> QED
  BY <1>1, <1>2, <1>3, <1>4, <1>5

\* A request that goes on after a failed query is marked failed.
LEMMA FailsKeepsSecond ==
  ASSUME TypeInv, SecondInv, NEW h \in Handlers, Fails(h)
  PROVE  SecondInv'
<1>1. Busy(h) /\ UNCHANGED otp
  BY DEF Fails
<1>2. requests[h] \in Request /\ Checked(requests[h])
  BY <1>1, Holds DEF SecondInv
<1>3. PICK r \in Request \cup {None} : Becomes(h, r) /\ (r # None => Checked(r))
  <2>1. CASE Return(h)
    BY <2>1 DEF Return
  <2>2. CASE Onward(h)
    <3>1. PICK q \in Queries : Becomes(h, [requests[h] EXCEPT !.at = q, !.failed = TRUE])
      BY <2>2 DEF Onward, Queries
    <3> DEFINE r == [requests[h] EXCEPT !.at = q, !.failed = TRUE]
    <3>2. r \in Request /\ r.failed /\ r.on = requests[h].on
      BY <1>2 DEF Request
    <3>3. Checked(r)
      BY <1>2, <3>2 DEF Checked
    <3> QED
      BY <3>1, <3>2, <3>3
  <2> QED
    BY <2>1, <2>2 DEF Fails
<1>4. \A s \in sessions' : \E t \in sessions :
        s.on = t.on /\ s.failed = t.failed /\ s.op = t.op
  BY DEF Fails, TypeInv, TypeOK, Session
<1> QED
  BY <1>1, <1>3, <1>4, MovesKeepSecond

\* Every step keeps the second factor on the way to a session.
LEMMA SecondNext ==
  ASSUME TypeInv, SecondInv, [Next]_vars
  PROVE  SecondInv'
<1>1. ASSUME NEW h \in Handlers, BeginSomething(h)
      PROVE  SecondInv'
  BY <1>1, BeginKeepsSecond
<1>2. ASSUME NEW h \in Handlers, Step(h)
      PROVE  SecondInv'
  BY <1>2, FingerprintKeepsSecond, CodesKeepSecond, OthersKeepSecond DEF Step
<1>3. ASSUME NEW h \in Handlers, Fails(h)
      PROVE  SecondInv'
  BY <1>3, FailsKeepsSecond
<1>4. CASE Expire
  BY <1>4 DEF Expire, SecondInv, SecondFactor, Busy, Checked
<1>5. CASE UNCHANGED vars
  BY <1>5 DEF vars, SecondInv, SecondFactor, Busy, Checked
<1> QED
  BY <1>1, <1>2, <1>3, <1>4, <1>5 DEF Next

\* A login begun with the second factor enabled, and not disabled since, gives no
\* session without it, unless a query failed or a wallet was used.
THEOREM SecondCorrect == Spec => []SecondFactor
<1>1. Init => TypeInv /\ SecondInv
  BY TypeInit DEF Init, SecondInv, SecondFactor, Busy
<1>2. TypeInv /\ SecondInv /\ [Next]_vars => (TypeInv /\ SecondInv)'
  BY TypeNext, SecondNext
<1>3. SecondInv => SecondFactor
  BY DEF SecondInv
<1> QED
  BY <1>1, <1>2, <1>3, PTL DEF Spec

-----------------------------------------------------------------------------
(* Revoked trust *)

\* Queries at which the document in hand has been found trusted.
Trusting == {"askOtp", "setLogin", "create", "createAgain"}

\* There, and in a login brought back by its token, the document is trusted in d, or
\* is known to have lost its trust.
Sound(r, d) ==
  /\ ~r.late
  /\ r.at \in Trusting \/ (r.at = "verifyOtp" /\ r.op = "loginOtp")
  => d[r.doc]

TrustInv ==
  /\ \A h \in Handlers : Busy(h) => Sound(requests[h], docs)
  /\ \A c \in challenges : c.kind = "login" /\ ~c.late => docs[c.doc]
  /\ UntrustedHasNoActive

\* No document loses its trust.
TrustKept == \A i \in 1..Len(docs) : docs[i] => docs'[i]

\* What a request relies on stays, if documents keep their trust.
LEMMA SoundKept ==
  ASSUME TypeInv, TrustInv, TrustKept, NEW g \in Handlers, Busy(g)
  PROVE  Sound(requests[g], docs')
<1>1. Sound(requests[g], docs) /\ Typed(requests[g], Len(docs))
  BY Holds DEF TrustInv
<1>2. CASE requests[g].at \in Trusting \cup {"verifyOtp"}
  <2>1. requests[g].doc \in 1..Len(docs)
    BY <1>1, <1>2 DEF Typed, Holding, Trusting
  <2> QED
    BY <1>1, <2>1 DEF TrustKept, Sound
<1>3. CASE requests[g].at \notin Trusting \cup {"verifyOtp"}
  BY <1>3 DEF Sound
<1> QED
  BY <1>2, <1>3

\* One request moves, which was not about to deactivate sessions; one challenge may be
\* added, or one taken.
LEMMA MovesKeepTrust ==
  ASSUME TypeInv, TrustInv, TrustKept, NEW h \in Handlers, NEW r \in Request \cup {None},
         Becomes(h, r), r # None => Sound(r, docs'),
         ~At(h, "deactivate"), UNCHANGED sessions,
         \A c \in challenges' :
           c \in challenges \/ (c.kind = "login" /\ ~c.late => docs'[c.doc])
  PROVE  TrustInv'
<1>1. \A g \in Handlers : requests'[g] = IF g = h THEN r ELSE requests[g]
  BY DEF TypeInv, TypeOK, Becomes
<1>2. \A g \in Handlers : requests'[g] # None => Sound(requests'[g], docs')
  BY <1>1, SoundKept DEF Busy
<1>3. \A c \in challenges' : c.kind = "login" /\ ~c.late => docs'[c.doc]
  BY DEF TypeInv, TrustInv, TrustKept
<1>4. UntrustedHasNoActive'
  <2> SUFFICES ASSUME NEW s \in sessions, s.active, ~s.late
               PROVE  docs'[s.doc] \/ \E g \in Handlers : At(g, "deactivate")' /\ requests'[g].doc = s.doc
    BY DEF UntrustedHasNoActive
  <2>1. s.doc \in 1..Len(docs)
    BY DEF TypeInv
  <2>2. CASE docs[s.doc]
    BY <2>1, <2>2 DEF TrustKept
  <2>3. CASE \E g \in Handlers : At(g, "deactivate") /\ requests[g].doc = s.doc
    <3>1. PICK g \in Handlers : At(g, "deactivate") /\ requests[g].doc = s.doc
      BY <2>3
    <3>2. requests'[g] = requests[g]
      BY <1>1, <3>1
    <3> QED
      BY <3>1, <3>2 DEF At, Busy
  <2> QED
    BY <2>2, <2>3 DEF TrustInv, UntrustedHasNoActive
<1>5. \A g \in Handlers : Busy(g)' => Sound(requests[g], docs)'
  BY <1>2 DEF Busy, Sound
<1> QED
  BY <1>3, <1>4, <1>5 DEF TrustInv

\* Documents that do not change keep their trust.
LEMMA DocsKept ==
  ASSUME UNCHANGED docs
  PROVE  TrustKept
BY DEF TrustKept

\* A request goes on with what it holds.
LEMMA GotoTrust ==
  ASSUME TypeInv, TrustInv, NEW h \in Handlers, Busy(h), NEW q \in Queries, Goto(h, q),
         TrustKept, ~At(h, "deactivate"), UNCHANGED <<challenges, sessions>>,
         \/ q \notin Trusting \cup {"verifyOtp"}
         \/ requests[h].at \in Trusting
         \/ requests[h].at = "verifyOtp" /\ requests[h].op = "loginOtp"
  PROVE  TrustInv'
<1> DEFINE r == [requests[h] EXCEPT !.at = q]
<1>1. requests[h] \in Request /\ Sound(requests[h], docs')
  BY Holds, SoundKept
<1>2. r \in Request /\ r.at = q /\ r.doc = requests[h].doc /\ r.late = requests[h].late
  BY <1>1 DEF Request
<1>3. CASE q \in Trusting
  BY <1>1, <1>2, <1>3, MovesKeepTrust DEF Goto, Sound, Trusting
<1>4. CASE q \notin Trusting \cup {"verifyOtp"}
  BY <1>1, <1>2, <1>4, MovesKeepTrust DEF Goto, Sound
<1>5. CASE q = "verifyOtp"
  BY <1>1, <1>2, <1>5, MovesKeepTrust DEF Goto, Sound
<1> QED
  BY <1>3, <1>4, <1>5

\* A request takes a document, which is trusted if that matters.
LEMMA TakeTrust ==
  ASSUME TypeInv, TrustInv, NEW h \in Handlers, Busy(h), NEW q \in Queries,
         NEW d \in DocNumber, Take(h, q, d), TrustKept, q # "verifyOtp",
         ~At(h, "deactivate"), UNCHANGED <<challenges, sessions>>,
         q \in Trusting => docs'[d]
  PROVE  TrustInv'
<1> DEFINE r == [requests[h] EXCEPT !.at = q, !.doc = d, !.late = FALSE]
<1>1. requests[h] \in Request
  BY Holds
<1>2. r \in Request /\ r.at = q /\ r.doc = d
  BY <1>1 DEF Request
<1>3. Sound(r, docs')
  BY <1>2 DEF Sound
<1>4. Becomes(h, r)
  BY DEF Take
<1> QED
  BY <1>2, <1>3, <1>4, MovesKeepTrust

\* A request that ends relies on no document.
LEMMA ReturnTrust ==
  ASSUME TypeInv, TrustInv, NEW h \in Handlers, Return(h), TrustKept,
         ~At(h, "deactivate"), UNCHANGED <<challenges, sessions>>
  PROVE  TrustInv'
BY MovesKeepTrust DEF Return

\* A request that begins relies on trust only as far as its challenge does.
LEMMA BeginKeepsTrust ==
  ASSUME TypeInv, TrustInv, NEW h \in Handlers, BeginSomething(h)
  PROVE  TrustInv'
<1>1. ~Busy(h) /\ UNCHANGED <<docs, challenges, sessions>>
  BY DEF BeginSomething, BeginLogin, BeginResend, BeginWallet, BeginMailCode, BeginLoginOtp,
         BeginTrustOtp, BeginRevoke, BeginOtp, Begin
<1>2. PICK op \in Operations, q \in Queries, d \in DocNumber, late \in BOOLEAN :
        /\ Begin(h, op, q, d, late)
        /\ q \notin Trusting
        /\ q = "verifyOtp" /\ op = "loginOtp" /\ ~late => docs[d]
  <2>1. 0 \in DocNumber /\ FALSE \in BOOLEAN
    BY DEF DocNumber
  <2>2. \A c \in challenges : c.doc \in DocNumber /\ c.late \in BOOLEAN
    BY DEF TypeInv, TypeOK, Challenge
  <2>3. \A d \in Marked(TRUE) : d \in DocNumber
    BY DEF Marked, DocNumber, TypeInv, TypeOK
  <2>4. CASE BeginLogin(h) \/ BeginResend(h) \/ BeginWallet(h) \/ BeginMailCode(h)
    BY <2>1, <2>4 DEF BeginLogin, BeginResend, BeginWallet, BeginMailCode, Operations, Queries, Trusting
  <2>5. CASE BeginLoginOtp(h)
    <3>1. PICK c \in challenges : c.kind = "login" /\ Begin(h, "loginOtp", "verifyOtp", c.doc, c.late)
      BY <2>5 DEF BeginLoginOtp
    <3>2. ~c.late => docs[c.doc]
      BY <3>1 DEF TrustInv
    <3>3. "loginOtp" \in Operations /\ "verifyOtp" \in Queries \ Trusting
      BY DEF Operations, Queries, Trusting
    <3> QED
      BY <2>2, <3>1, <3>2, <3>3
  <2>6. CASE BeginTrustOtp(h)
    BY <2>2, <2>6 DEF BeginTrustOtp, Operations, Queries, Trusting
  <2>7. CASE BeginRevoke(h)
    BY <2>1, <2>3, <2>7 DEF BeginRevoke, Operations, Queries, Trusting
  <2>8. CASE BeginOtp(h)
    BY <2>1, <2>8 DEF BeginOtp, Operations, Queries, Trusting
  <2> QED
    BY <2>4, <2>5, <2>6, <2>7, <2>8 DEF BeginSomething
<1> DEFINE r == [op |-> op, at |-> q, doc |-> d, on |-> otp = "on", failed |-> FALSE, late |-> late]
<1>3. r \in Request
  BY DEF Request
<1>4. Sound(r, docs')
  BY <1>1, <1>2 DEF Sound
<1>5. Becomes(h, r)
  BY <1>2 DEF Begin
<1>6. ~At(h, "deactivate") /\ TrustKept
  BY <1>1, DocsKept DEF At
<1> QED
  BY <1>1, <1>3, <1>4, <1>5, <1>6, MovesKeepTrust

\* The queries about a document take no trust away.
LEMMA FingerprintKeepsTrust ==
  ASSUME TypeInv, TrustInv, NEW h \in Handlers,
         \/ CheckDeviceFingerprint(h)
         \/ FindDeviceFingerprint(h)
         \/ CreateDeviceFingerprint(h)
         \/ FindUntrusted(h)
         \/ SaveTrust(h)
         \/ FindTrusted(h)
  PROVE  TrustInv'
<1>0. docs \in Seq(BOOLEAN) /\ Len(docs) \in Nat /\ Len(docs) <= MaxDocs
  BY DEF TypeInv, TypeOK
<1>1. Busy(h) /\ ~At(h, "deactivate") /\ UNCHANGED <<challenges, sessions>>
  <2>1. Busy(h) /\ ~At(h, "deactivate")
    BY DEF CheckDeviceFingerprint, CheckIf, FindDeviceFingerprint, CreateDeviceFingerprint,
           FindUntrusted, SaveTrust, FindTrusted, At
  <2>2. UNCHANGED <<challenges, sessions>>
    BY DEF CheckDeviceFingerprint, CheckIf, FindDeviceFingerprint, CreateDeviceFingerprint,
           FindUntrusted, SaveTrust, FindTrusted
  <2> QED
    BY <2>1, <2>2
<1>2. \A b \in BOOLEAN : \A S \in SUBSET Marked(b) :
        S # {} => First(S) \in DocNumber /\ docs[First(S)] = b
  <2> SUFFICES ASSUME NEW b \in BOOLEAN, NEW S \in SUBSET Marked(b), S # {}
               PROVE  First(S) \in DocNumber /\ docs[First(S)] = b
    OBVIOUS
  <2>1. First(S) \in 1..Len(docs) /\ First(S) \in S
    BY MarkedIn
  <2>2. First(S) \in DocNumber
    BY <1>0, <2>1 DEF DocNumber
  <2> QED
    BY <2>1, <2>2 DEF Marked
<1>3. CASE CheckDeviceFingerprint(h)
  <2>1. docs # <<>> => 1 \in DocNumber
    BY <1>0, EmptySeq DEF DocNumber
  <2>2. \/ Goto(h, "findDoc")
        \/ 1 \in DocNumber /\ docs[1] /\ (Take(h, "askOtp", 1) \/ Take(h, "create", 1))
    BY <1>3, <2>1 DEF CheckDeviceFingerprint, CheckIf
  <2>3. UNCHANGED docs
    BY <1>3 DEF CheckDeviceFingerprint, CheckIf
  <2> QED
    BY <1>1, <2>2, <2>3, DocsKept, GotoTrust, TakeTrust DEF Queries, Trusting
<1>4. CASE FindDeviceFingerprint(h)
  <2>1. \/ Goto(h, "createDoc")
        \/ Goto(h, "setCode")
        \/ \E d \in DocNumber : Take(h, "saveTrust", d)
    BY <1>2, <1>4 DEF FindDeviceFingerprint
  <2>2. UNCHANGED docs
    BY <1>4 DEF FindDeviceFingerprint
  <2> QED
    BY <1>1, <2>1, <2>2, DocsKept, GotoTrust, TakeTrust DEF Queries, Trusting
<1>5. CASE CreateDeviceFingerprint(h)
  <2> DEFINE wallet == requests[h].op = "wallet"
             n == Len(docs) + 1
  <2>1. docs' = Append(docs, wallet) /\ Len(docs) < MaxDocs
    BY <1>5 DEF CreateDeviceFingerprint
  <2>2. wallet \in BOOLEAN
    OBVIOUS
  <2>3. (\A i \in 1..Len(docs) : docs'[i] = docs[i]) /\ docs'[n] = wallet
    <3> HIDE DEF wallet
    <3> QED
      BY <1>0, <2>1, <2>2, AppendProperties
  <2>4. TrustKept
    BY <2>3 DEF TrustKept
  <2>5. \/ Goto(h, "setCode")
        \/ n \in DocNumber /\ docs'[n] /\ Take(h, "create", n)
    <3>1. n \in DocNumber
      BY <1>0, <2>1 DEF DocNumber
    <3>2. Goto(h, "setCode") \/ (wallet /\ Take(h, "create", n))
      BY <1>5 DEF CreateDeviceFingerprint
    <3> QED
      BY <2>3, <3>1, <3>2
  <2> QED
    BY <1>1, <2>4, <2>5, GotoTrust, TakeTrust DEF Queries, Trusting
<1>6. CASE FindUntrusted(h)
  <2>1. Return(h) \/ \E d \in DocNumber : Take(h, "saveTrust", d)
    BY <1>2, <1>6 DEF FindUntrusted
  <2>2. UNCHANGED docs
    BY <1>6 DEF FindUntrusted
  <2> QED
    BY <1>1, <2>1, <2>2, DocsKept, TakeTrust, ReturnTrust DEF Queries, Trusting
<1>7. CASE SaveTrust(h)
  <2> DEFINE d == requests[h].doc
  <2>1. SetTrust(d, TRUE) /\ requests[h].at = "saveTrust"
    BY <1>7 DEF SaveTrust, At
  <2>2. d \in 1..Len(docs) /\ d \in DocNumber
    BY <1>0, <1>1, <2>1, Holds DEF Typed, Holding, DocNumber
  <2>3. \A i \in 1..Len(docs) : docs'[i] = IF i = d THEN TRUE ELSE docs[i]
    <3> HIDE DEF d
    <3> QED
      BY <2>1, <2>2, TrustChanged
  <2>4. TrustKept /\ docs'[d]
    BY <2>2, <2>3 DEF TrustKept
  <2>5. Take(h, "create", d) \/ Take(h, "findTrusted", d)
    BY <1>7 DEF SaveTrust
  <2> QED
    BY <1>1, <2>2, <2>4, <2>5, TakeTrust DEF Queries
<1>8. CASE FindTrusted(h)
  <2>1. \/ Return(h)
        \/ \E d \in DocNumber : docs[d] /\ (Take(h, "create", d) \/ Take(h, "askOtp", d))
    BY <1>2, <1>8 DEF FindTrusted
  <2>2. UNCHANGED docs
    BY <1>8 DEF FindTrusted
  <2> QED
    BY <1>1, <2>1, <2>2, DocsKept, TakeTrust, ReturnTrust DEF Queries
<1> QED
  BY <1>3, <1>4, <1>5, <1>6, <1>7, <1>8

\* The queries about codes take no trust away.
LEMMA CodesKeepTrust ==
  ASSUME TypeInv, TrustInv, NEW h \in Handlers,
         \/ SetCode(h)
         \/ AskOtpVerify(h)
         \/ SetVerify(h)
         \/ AskOtp(h)
         \/ SetLogin(h)
         \/ VerifyOtp(h)
         \/ CreateOtp(h)
  PROVE  TrustInv'
<1> DEFINE r == requests[h]
<1>1. Busy(h) /\ ~At(h, "deactivate")
  BY DEF SetCode, AskOtpVerify, SetVerify, AskOtp, SetLogin, VerifyOtp, CreateOtp, At
<1>2. UNCHANGED <<docs, sessions>>
  BY DEF SetCode, AskOtpVerify, SetVerify, AskOtp, SetLogin, VerifyOtp, CreateOtp
<1>3. TrustKept
  BY <1>2, DocsKept
<1>4. CASE SetCode(h) \/ SetVerify(h) \/ SetLogin(h)
  <2>1. \A c \in challenges' :
          c \in challenges \/ (c.kind = "login" /\ ~c.late => docs'[c.doc])
    <3>1. CASE SetCode(h) \/ SetVerify(h)
      BY <3>1 DEF SetCode, SetVerify
    <3>2. CASE SetLogin(h)
      <4>1. ~r.late => docs'[r.doc]
        BY <1>1, <1>3, <3>2, SoundKept DEF SetLogin, At, Sound, Trusting
      <4> QED
        BY <3>2, <4>1 DEF SetLogin
    <3> QED
      BY <1>4, <3>1, <3>2
  <2>2. CASE Return(h)
    BY <1>1, <1>2, <1>3, <2>1, <2>2, MovesKeepTrust DEF Return
  <2>3. CASE Goto(h, "askOtpVerify")
    <3> DEFINE e == [r EXCEPT !.at = "askOtpVerify"]
    <3>1. e \in Request /\ e.at = "askOtpVerify"
      BY <1>1, Holds DEF Request, Queries
    <3>2. Sound(e, docs')
      BY <3>1 DEF Sound, Trusting
    <3>3. Becomes(h, e)
      BY <2>3 DEF Goto
    <3> QED
      BY <1>1, <1>2, <1>3, <2>1, <3>1, <3>2, <3>3, MovesKeepTrust
  <2> QED
    BY <1>4, <2>2, <2>3 DEF SetCode, SetVerify, SetLogin
<1>5. CASE AskOtpVerify(h) \/ AskOtp(h) \/ VerifyOtp(h) \/ CreateOtp(h)
  <2>1. UNCHANGED challenges
    BY <1>5 DEF AskOtpVerify, AskOtp, VerifyOtp, CreateOtp
  <2>2. \/ Return(h)
        \/ Goto(h, "setVerify")
        \/ Goto(h, "findUntrusted")
        \/ r.at = "askOtp" /\ (Goto(h, "setLogin") \/ Goto(h, "create"))
        \/ r.at = "verifyOtp" /\ r.op = "loginOtp" /\ Goto(h, "create")
    BY <1>5 DEF AskOtpVerify, AskOtp, VerifyOtp, CreateOtp, At
  <2> QED
    BY <1>1, <1>2, <1>3, <2>1, <2>2, GotoTrust, ReturnTrust DEF Queries, Trusting
<1> QED
  BY <1>4, <1>5

\* A device loses its trust: what holds its document is marked, and its sessions are
\* next.
LEMMA UntrustKeepsTrust ==
  ASSUME TypeInv, TrustInv, NEW h \in Handlers, Untrust(h)
  PROVE  TrustInv'
<1> DEFINE d == requests[h].doc
<1>1. /\ Busy(h) /\ requests[h].at = "untrust" /\ SetTrust(d, FALSE)
      /\ UNCHANGED sessions
      /\ challenges' = {IF c.doc = d THEN [c EXCEPT !.late = TRUE] ELSE c : c \in challenges}
  BY DEF Untrust, At
<1>2. requests[h] \in Request /\ d \in 1..Len(docs)
  BY <1>1, Holds DEF Typed, Holding
<1>3. \A i \in 1..Len(docs) : docs'[i] = IF i = d THEN FALSE ELSE docs[i]
  <2> HIDE DEF d
  <2> QED
    BY <1>1, <1>2, TrustChanged
<1>4. \A g \in Handlers : requests'[g] # None => Sound(requests'[g], docs')
  <2> SUFFICES ASSUME NEW g \in Handlers, requests'[g] # None
               PROVE  Sound(requests'[g], docs')
    OBVIOUS
  <2>1. requests'[g] = IF g = h THEN [requests[g] EXCEPT !.at = "deactivate"]
                       ELSE IF Busy(g) /\ requests[g].doc = d THEN [requests[g] EXCEPT !.late = TRUE]
                       ELSE requests[g]
    BY DEF Untrust
  <2>2. /\ requests[g] \in Request /\ Typed(requests[g], Len(docs)) /\ Busy(g)
        /\ Sound(requests[g], docs)
    BY <1>1, <2>1, Holds DEF Busy, TrustInv
  <2>3. CASE g = h
    <3>1. requests'[g].at = "deactivate"
      BY <2>1, <2>2, <2>3 DEF Request
    <3> QED
      BY <3>1 DEF Sound, Trusting
  <2>4. CASE g # h /\ requests[g].doc = d
    <3>1. requests'[g].late
      BY <2>1, <2>2, <2>4 DEF Request
    <3> QED
      BY <3>1 DEF Sound
  <2>5. CASE g # h /\ requests[g].doc # d
    <3>1. requests'[g] = requests[g]
      BY <2>1, <2>5
    <3>2. requests[g].at \in Trusting \cup {"verifyOtp"} => requests[g].doc \in 1..Len(docs)
      BY <2>2 DEF Typed, Holding, Trusting
    <3> QED
      BY <1>3, <2>2, <2>5, <3>1, <3>2 DEF Sound
  <2> QED
    BY <2>3, <2>4, <2>5
<1>5. \A c \in challenges' : c.kind = "login" /\ ~c.late => docs'[c.doc]
  <2> SUFFICES ASSUME NEW c \in challenges', c.kind = "login", ~c.late
               PROVE  docs'[c.doc]
    OBVIOUS
  <2>1. PICK e \in challenges : c = IF e.doc = d THEN [e EXCEPT !.late = TRUE] ELSE e
    BY <1>1
  <2>2. e.doc # d /\ c = e
    BY <2>1 DEF TypeInv, TypeOK, Challenge
  <2>3. c.doc \in 1..Len(docs) /\ docs[c.doc]
    BY <2>1, <2>2 DEF TypeInv, TrustInv
  <2> QED
    BY <1>3, <2>2, <2>3
<1>6. At(h, "deactivate")' /\ requests'[h].doc = d
  <2>1. requests'[h] = [requests[h] EXCEPT !.at = "deactivate"]
    BY DEF Untrust
  <2>2. requests'[h] \in Request /\ requests'[h].at = "deactivate" /\ requests'[h].doc = d
    BY <1>2, <2>1 DEF Request, Queries
  <2> QED
    BY <2>2 DEF At, Busy
<1>7. UntrustedHasNoActive'
  <2> SUFFICES ASSUME NEW s \in sessions, s.active, ~s.late
               PROVE  docs'[s.doc] \/ \E g \in Handlers : At(g, "deactivate")' /\ requests'[g].doc = s.doc
    BY <1>1 DEF UntrustedHasNoActive
  <2>1. CASE s.doc = d
    BY <1>6, <2>1
  <2>2. CASE s.doc # d /\ docs[s.doc]
    BY <1>3, <2>2 DEF TypeInv
  <2>3. CASE s.doc # d /\ \E g \in Handlers : At(g, "deactivate") /\ requests[g].doc = s.doc
    <3>1. PICK g \in Handlers : At(g, "deactivate") /\ requests[g].doc = s.doc
      BY <2>3
    <3>2. requests'[g] = requests[g]
      BY <1>1, <2>3, <3>1 DEF Untrust, At
    <3> QED
      BY <3>1, <3>2 DEF At, Busy
  <2> QED
    BY <2>1, <2>2, <2>3 DEF TrustInv, UntrustedHasNoActive
<1>8. \A g \in Handlers : Busy(g)' => Sound(requests[g], docs)'
  BY <1>4 DEF Busy, Sound
<1> QED
  BY <1>5, <1>7, <1>8 DEF TrustInv

\* The sessions of a document follow: deactivated, or marked when the query fails.
LEMMA DeactivateKeepsTrust ==
  ASSUME TypeInv, TrustInv, NEW h \in Handlers, At(h, "deactivate"), Return(h),
         UNCHANGED <<docs, challenges>>,
         \/ sessions' = {IF s.doc = requests[h].doc THEN [s EXCEPT !.active = FALSE] ELSE s : s \in sessions}
         \/ sessions' = {IF s.doc = requests[h].doc THEN [s EXCEPT !.late = TRUE] ELSE s : s \in sessions}
  PROVE  TrustInv'
<1>1. \A g \in Handlers : requests'[g] = IF g = h THEN None ELSE requests[g]
  BY DEF Return, Becomes, TypeInv, TypeOK
<1>2. \A g \in Handlers : Busy(g)' => Sound(requests[g], docs)'
  BY <1>1 DEF TrustInv, Busy, Sound
<1>3. UntrustedHasNoActive'
  <2> SUFFICES ASSUME NEW t \in sessions', t.active, ~t.late
               PROVE  docs[t.doc] \/ \E g \in Handlers : At(g, "deactivate")' /\ requests'[g].doc = t.doc
    BY DEF UntrustedHasNoActive
  <2>1. t \in sessions /\ t.doc # requests[h].doc
    BY DEF TypeInv, TypeOK, Session
  <2>2. CASE docs[t.doc]
    BY <2>2
  <2>3. CASE \E g \in Handlers : At(g, "deactivate") /\ requests[g].doc = t.doc
    <3>1. PICK g \in Handlers : At(g, "deactivate") /\ requests[g].doc = t.doc
      BY <2>3
    <3>2. requests'[g] = requests[g]
      BY <1>1, <2>1, <3>1
    <3> QED
      BY <3>1, <3>2 DEF At, Busy
  <2> QED
    BY <2>1, <2>2, <2>3 DEF TrustInv, UntrustedHasNoActive
<1> QED
  BY <1>2, <1>3 DEF TrustInv

\* A session is made of a trusted document, or its maker knows better.
LEMMA CreateKeepsTrust ==
  ASSUME TypeInv, TrustInv, NEW h \in Handlers, CreateSession(h)
  PROVE  TrustInv'
<1> DEFINE r == requests[h]
           s == [doc |-> r.doc, op |-> r.op, active |-> TRUE,
                 on |-> r.on, failed |-> r.failed, late |-> r.late]
<1>1. /\ Busy(h) /\ r.at \in {"create", "createAgain"} /\ UNCHANGED <<docs, challenges>>
      /\ sessions' = sessions \cup {s}
  BY DEF CreateSession, At
<1>2. r \in Request /\ (r.late \/ docs[r.doc])
  BY <1>1, Holds DEF TrustInv, Sound, Trusting
<1>3. PICK e \in Request \cup {None} : Becomes(h, e) /\ (e # None => Sound(e, docs))
  <2>1. CASE Return(h)
    BY <2>1 DEF Return
  <2>2. CASE Goto(h, "createAgain")
    <3> DEFINE e == [r EXCEPT !.at = "createAgain"]
    <3>1. e \in Request /\ e.doc = r.doc /\ e.late = r.late
      BY <1>2 DEF Request, Queries
    <3>2. Sound(e, docs)
      BY <1>2, <3>1 DEF Sound
    <3> QED
      BY <2>2, <3>1, <3>2 DEF Goto
  <2> QED
    BY <2>1, <2>2 DEF CreateSession
<1>4. \A g \in Handlers : requests'[g] = IF g = h THEN e ELSE requests[g]
  BY <1>3 DEF Becomes, TypeInv, TypeOK
<1>5. \A g \in Handlers : Busy(g)' => Sound(requests[g], docs)'
  BY <1>1, <1>3, <1>4 DEF TrustInv, Busy, Sound
<1>6. UntrustedHasNoActive'
  <2> SUFFICES ASSUME NEW t \in sessions', t.active, ~t.late
               PROVE  docs[t.doc] \/ \E g \in Handlers : At(g, "deactivate")' /\ requests'[g].doc = t.doc
    BY <1>1 DEF UntrustedHasNoActive
  <2>1. CASE t = s
    BY <1>2, <2>1
  <2>2. CASE t \in sessions /\ ~docs[t.doc]
    <3>1. PICK g \in Handlers : At(g, "deactivate") /\ requests[g].doc = t.doc
      BY <2>2 DEF TrustInv, UntrustedHasNoActive
    <3>2. requests'[g] = requests[g]
      BY <1>1, <1>4, <3>1 DEF At
    <3> QED
      BY <3>1, <3>2 DEF At, Busy
  <2> QED
    BY <1>1, <2>1, <2>2
<1> QED
  BY <1>1, <1>5, <1>6 DEF TrustInv

\* Saving a one-time password takes no trust away.
LEMMA SaveOtpKeepsTrust ==
  ASSUME TypeInv, TrustInv, NEW h \in Handlers, SaveOtp(h)
  PROVE  TrustInv'
<1>1. PICK b \in BOOLEAN : requests' = [g \in Handlers |->
        IF g = h THEN None
        ELSE IF Busy(g) THEN [requests[g] EXCEPT !.on = @ /\ b]
        ELSE None]
  BY DEF SaveOtp
<1>2. UNCHANGED <<docs, challenges, sessions>> /\ ~At(h, "deactivate")
  BY DEF SaveOtp, At
<1>3. \A g \in Handlers : g # h /\ Busy(g) =>
        /\ requests'[g] \in Request /\ requests'[g].at = requests[g].at
        /\ requests'[g].op = requests[g].op /\ requests'[g].doc = requests[g].doc
        /\ requests'[g].late = requests[g].late
  <2> SUFFICES ASSUME NEW g \in Handlers, g # h, Busy(g)
               PROVE  /\ requests'[g] \in Request /\ requests'[g].at = requests[g].at
                      /\ requests'[g].op = requests[g].op /\ requests'[g].doc = requests[g].doc
                      /\ requests'[g].late = requests[g].late
    OBVIOUS
  <2>1. requests'[g] = [requests[g] EXCEPT !.on = @ /\ b]
    BY <1>1
  <2>2. requests[g] \in Request /\ (requests[g].on /\ b) \in BOOLEAN
    BY Holds
  <2> QED
    BY <2>1, <2>2 DEF Request
<1>4. \A g \in Handlers : requests'[g] # None => g # h /\ Busy(g)
  BY <1>1
<1>5. \A g \in Handlers : Busy(g)' => Sound(requests[g], docs)'
  BY <1>2, <1>3, <1>4 DEF TrustInv, Busy, Sound
<1>6. UntrustedHasNoActive'
  <2> SUFFICES ASSUME NEW s \in sessions, s.active, ~s.late, ~docs[s.doc]
               PROVE  \E g \in Handlers : At(g, "deactivate")' /\ requests'[g].doc = s.doc
    BY <1>2 DEF UntrustedHasNoActive
  <2>1. PICK g \in Handlers : At(g, "deactivate") /\ requests[g].doc = s.doc
    BY DEF TrustInv, UntrustedHasNoActive
  <2>2. g # h /\ Busy(g)
    BY <1>2, <2>1 DEF At
  <2> QED
    BY <1>3, <2>1, <2>2 DEF At, Busy
<1> QED
  BY <1>2, <1>5, <1>6 DEF TrustInv

\* A failed query takes no trust away.
LEMMA FailsKeepsTrust ==
  ASSUME TypeInv, TrustInv, NEW h \in Handlers, Fails(h)
  PROVE  TrustInv'
<1>1. Busy(h) /\ UNCHANGED <<docs, challenges>>
  BY DEF Fails
<1>2. CASE At(h, "deactivate")
  <2>1. Return(h)
    BY <1>2 DEF Fails, Onward, At
  <2> QED
    BY <1>1, <1>2, <2>1, DeactivateKeepsTrust DEF Fails
<1>3. CASE ~At(h, "deactivate")
  <2>1. UNCHANGED sessions /\ TrustKept
    BY <1>1, <1>3, DocsKept DEF Fails
  <2>2. CASE Return(h)
    BY <1>1, <1>3, <2>1, <2>2, ReturnTrust
  <2>3. CASE Onward(h)
    <3>1. PICK q \in Queries :
            /\ requests[h].at \in Trusting
            /\ Becomes(h, [requests[h] EXCEPT !.at = q, !.failed = TRUE])
      BY <2>3 DEF Onward, Queries, Trusting
    <3> DEFINE r == [requests[h] EXCEPT !.at = q, !.failed = TRUE]
    <3>2. requests[h] \in Request /\ Sound(requests[h], docs')
      BY <1>1, <2>1, Holds, SoundKept
    <3>3. r \in Request /\ r.doc = requests[h].doc /\ r.late = requests[h].late
      BY <3>2 DEF Request
    <3>4. Sound(r, docs')
      BY <3>1, <3>2, <3>3 DEF Sound
    <3> QED
      BY <1>1, <1>3, <2>1, <3>1, <3>3, <3>4, MovesKeepTrust
  <2> QED
    BY <2>2, <2>3 DEF Fails
<1> QED
  BY <1>2, <1>3

\* Every step keeps the documents trusted that requests rely on, or marks them late.
LEMMA TrustNext ==
  ASSUME TypeInv, TrustInv, [Next]_vars
  PROVE  TrustInv'
<1>1. ASSUME NEW h \in Handlers, BeginSomething(h)
      PROVE  TrustInv'
  BY <1>1, BeginKeepsTrust
<1>2. ASSUME NEW h \in Handlers, Step(h)
      PROVE  TrustInv'
  <2>1. CASE Deactivate(h)
    BY <2>1, DeactivateKeepsTrust DEF Deactivate
  <2> QED
    BY <1>2, <2>1, FingerprintKeepsTrust, CodesKeepTrust, UntrustKeepsTrust,
       CreateKeepsTrust, SaveOtpKeepsTrust DEF Step
<1>3. ASSUME NEW h \in Handlers, Fails(h)
      PROVE  TrustInv'
  BY <1>3, FailsKeepsTrust
<1>4. CASE Expire
  BY <1>4 DEF Expire, TrustInv, UntrustedHasNoActive, Busy, At, Sound
<1>5. CASE UNCHANGED vars
  BY <1>5 DEF vars, TrustInv, UntrustedHasNoActive, Busy, At, Sound
<1> QED
  BY <1>1, <1>2, <1>3, <1>4, <1>5 DEF Next

\* An active session's device is trusted or being revoked, unless its revocation was cut
\* short or came while the session was on its way.
THEOREM UntrustedCorrect == Spec => []UntrustedHasNoActive
<1>1. Init => TypeInv /\ TrustInv
  BY TypeInit DEF Init, TrustInv, UntrustedHasNoActive, Busy
<1>2. TypeInv /\ TrustInv /\ [Next]_vars => (TypeInv /\ TrustInv)'
  BY TypeNext, TrustNext
<1>3. TrustInv => UntrustedHasNoActive
  BY DEF TrustInv
<1> QED
  BY <1>1, <1>2, <1>3, PTL DEF Spec

=============================================================================
