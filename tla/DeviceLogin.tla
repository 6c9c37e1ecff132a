---------------------------- MODULE DeviceLogin ----------------------------
(***************************************************************************)
(* Logging in to one account from one browser (apps/auth): the trust in    *)
(* its device fingerprint, won by a code sent by email, a one-time         *)
(* password or a wallet, and the second factor.  Sessions says what        *)
(* becomes of a session; here the question is who gets one.                *)
(*                                                                         *)
(* A session is made at the end of a chain of queries and of answers       *)
(* brought back later (a code, a token), and nothing is checked again on   *)
(* the way.  One action is one query to MongoDB or Redis with what follows *)
(* up to the next await.                                                   *)
(***************************************************************************)
EXTENDS Integers, Sequences, FiniteSets

CONSTANTS
  Handlers,     \* requests that can be in progress at once
  None,         \* no request
  MaxDocs,      \* bound: documents of the fingerprint
  MaxRequests,  \* bound: requests begun
  MaxFaults     \* bound: failed queries and killed instances

Operations ==
  {"login", "resend", "mailCode", "loginOtp", "trustOtp", "wallet", "revoke",
   "setUp", "enable", "disable"}

Queries ==
  {"check", "findDoc", "createDoc", "setCode", "askOtpVerify", "setVerify",
   "askOtp", "setLogin", "verifyOtp", "findUntrusted", "saveTrust", "findTrusted",
   "create", "createAgain", "untrust", "deactivate", "createOtp", "saveOtp"}

Verified == {"loginOtp", "trustOtp"}

DocNumber == 0..MaxDocs

\* What waits in Redis: a code sent by email, the token of a login that lacks the
\* second factor, the token to trust a device by it.  Keys are random; only
\* what they stand for matters.
Challenge == [kind : {"mail", "login", "verify"}, doc : DocNumber, late : BOOLEAN]

\* doc: the document in hand, 0 when there is none yet.  History: the second
\* factor was enabled all along (on), the request passed a failed query (failed),
\* its document has lost its trust since it was checked (late).
Request ==
  [op : Operations, at : Queries, doc : DocNumber,
   on : BOOLEAN, failed : BOOLEAN, late : BOOLEAN]

\* A session, and how it was come by.
Session ==
  [doc : DocNumber \ {0}, op : Operations, active : BOOLEAN,
   on : BOOLEAN, failed : BOOLEAN, late : BOOLEAN]

ASSUME DeviceLoginAssumption ==
  /\ None \notin Request
  /\ MaxDocs \in Nat
  /\ MaxRequests \in Nat
  /\ MaxFaults \in Nat

VARIABLES
  docs,        \* is_trusted of the documents of this user and fingerprint, the
               \* oldest first: findOne takes the first that matches
  otp,         \* the OTP document: none, disabled, enabled
  challenges,  \* what waits in Redis
  sessions,    \* the sessions made
  requests,    \* what each handler is doing
  begun,       \* requests begun so far
  faults       \* failures so far

vars == <<docs, otp, challenges, sessions, requests, begun, faults>>

TypeOK ==
  /\ docs \in Seq(BOOLEAN)
  /\ Len(docs) <= MaxDocs
  /\ otp \in {"none", "off", "on"}
  /\ challenges \subseteq Challenge
  /\ sessions \subseteq Session
  /\ requests \in [Handlers -> Request \cup {None}]
  /\ begun \in 0..MaxRequests
  /\ faults \in 0..MaxFaults

Busy(h) == requests[h] # None
At(h, q) == Busy(h) /\ requests[h].at = q
Becomes(h, r) == requests' = [requests EXCEPT ![h] = r]
Goto(h, q) == Becomes(h, [requests[h] EXCEPT !.at = q])
Return(h) == Becomes(h, None)

\* The document in hand was found trusted, or made so, just now.
Take(h, q, d) == Becomes(h, [requests[h] EXCEPT !.at = q, !.doc = d, !.late = FALSE])

Fault == faults < MaxFaults /\ faults' = faults + 1

Marked(d) == {i \in 1..Len(docs) : docs[i] = d}
First(S) == CHOOSE i \in S : \A j \in S : i <= j
SetTrust(d, b) == docs' = [docs EXCEPT ![d] = b]

Init ==
  /\ docs = <<>>
  /\ otp = "none"
  /\ challenges = {}
  /\ sessions = {}
  /\ requests = [h \in Handlers |-> None]
  /\ begun = 0
  /\ faults = 0

-----------------------------------------------------------------------------
(* Requests; one that is refused at once is left out *)

Begin(h, op, q, d, late) ==
  /\ ~Busy(h)
  /\ begun < MaxRequests
  /\ begun' = begun + 1
  /\ Becomes(h, [op |-> op, at |-> q, doc |-> d, on |-> otp = "on",
                 failed |-> FALSE, late |-> late])
  /\ UNCHANGED <<docs, otp, challenges, sessions, faults>>

\* The password is right.
BeginLogin(h) == Begin(h, "login", "check", 0, FALSE)

\* resendDeviceFingerprintEmailVerification of a known fingerprint.
BeginResend(h) == docs # <<>> /\ Begin(h, "resend", "setCode", 0, FALSE)

\* createWalletSession, asked by the wallet service.
BeginWallet(h) == Begin(h, "wallet", "check", 0, FALSE)

\* The code or the token is read from Redis, and stays there.
BeginMailCode(h) ==
  /\ \E c \in challenges : c.kind = "mail"
  /\ Begin(h, "mailCode", "findUntrusted", 0, FALSE)

BeginLoginOtp(h) ==
  \E c \in challenges : c.kind = "login" /\ Begin(h, "loginOtp", "verifyOtp", c.doc, c.late)

BeginTrustOtp(h) ==
  \E c \in challenges : c.kind = "verify" /\ Begin(h, "trustOtp", "verifyOtp", c.doc, c.late)

BeginRevoke(h) == \E d \in Marked(TRUE) : Begin(h, "revoke", "untrust", d, FALSE)

\* setUpOtp, enableOtp with the right password, disableOtp.
BeginOtp(h) ==
  \/ otp = "none" /\ Begin(h, "setUp", "createOtp", 0, FALSE)
  \/ otp = "off" /\ Begin(h, "enable", "saveOtp", 0, FALSE)
  \/ otp = "on" /\ Begin(h, "disable", "saveOtp", 0, FALSE)

-----------------------------------------------------------------------------
(* The fingerprint *)

CheckIf(h, trusted) ==
  LET op == requests[h].op IN
  /\ At(h, "check")
  /\ \/ trusted /\ op = "login" /\ Take(h, "askOtp", 1)
     \/ trusted /\ op = "wallet" /\ Take(h, "create", 1)
     \/ ~trusted /\ Goto(h, "findDoc")
  /\ UNCHANGED <<docs, otp, challenges, sessions, begun, faults>>

\* Faulty: a known device counts as a trusted one.
CheckKnown(h) == CheckIf(h, docs # <<>>)

\* checkDeviceFingerprint.
CheckDeviceFingerprint(h) == CheckIf(h, docs # <<>> /\ docs[1])

\* The first query of createDeviceFingerprint, for a login, and of
\* createTrustedDeviceFingerprint, for a wallet, which trusts what it finds.
FindDeviceFingerprint(h) ==
  LET wallet == requests[h].op = "wallet"
      found == IF wallet THEN Marked(FALSE) ELSE 1..Len(docs)
  IN
  /\ At(h, "findDoc")
  /\ \/ found = {} /\ Goto(h, "createDoc")
     \/ found # {} /\ wallet /\ Take(h, "saveTrust", First(found))
     \/ found # {} /\ ~wallet /\ Goto(h, "setCode")
  /\ UNCHANGED <<docs, otp, challenges, sessions, begun, faults>>

\* Faulty: the trusted document is not handed on.
CreateUnnamed(h) ==
  /\ At(h, "createDoc")
  /\ Len(docs) < MaxDocs
  /\ docs' = Append(docs, requests[h].op = "wallet")
  /\ Goto(h, IF requests[h].op = "wallet" THEN "create" ELSE "setCode")
  /\ UNCHANGED <<otp, challenges, sessions, begun, faults>>

\* Their second query.  getDeviceFingerprint and the first query of
\* sendDeviceFingerprintEmailVerification then find the document: none is deleted.
CreateDeviceFingerprint(h) ==
  LET wallet == requests[h].op = "wallet" IN
  /\ At(h, "createDoc")
  /\ Len(docs) < MaxDocs
  /\ docs' = Append(docs, wallet)
  /\ \/ wallet /\ Take(h, "create", Len(docs) + 1)
     \/ ~wallet /\ Goto(h, "setCode")
  /\ UNCHANGED <<otp, challenges, sessions, begun, faults>>

\* trustDeviceFingerprint: by its number for trustOtp, else any.
FindUntrusted(h) ==
  LET r == requests[h]
      found == IF r.op = "trustOtp" THEN Marked(FALSE) \cap {r.doc} ELSE Marked(FALSE)
  IN
  /\ At(h, "findUntrusted")
  /\ \/ found # {} /\ Take(h, "saveTrust", First(found))
     \/ found = {} /\ Return(h)
  /\ UNCHANGED <<docs, otp, challenges, sessions, begun, faults>>

SaveTrust(h) ==
  LET r == requests[h] IN
  /\ At(h, "saveTrust")
  /\ SetTrust(r.doc, TRUE)
  /\ \/ r.op = "wallet" /\ Take(h, "create", r.doc)
     \/ r.op # "wallet" /\ Take(h, "findTrusted", r.doc)
  /\ UNCHANGED <<otp, challenges, sessions, begun, faults>>

FindTrusted(h) ==
  LET r == requests[h]
      found == IF r.op = "trustOtp" THEN Marked(TRUE) \cap {r.doc} ELSE Marked(TRUE)
  IN
  /\ At(h, "findTrusted")
  /\ \/ found = {} /\ Return(h)
     \/ found # {} /\ r.op = "trustOtp" /\ Take(h, "create", First(found))
     \/ found # {} /\ r.op = "mailCode" /\ Take(h, "askOtp", First(found))
  /\ UNCHANGED <<docs, otp, challenges, sessions, begun, faults>>

\* revokeDeviceFingerprint: the document, then its sessions.
Untrust(h) ==
  LET d == requests[h].doc IN
  /\ At(h, "untrust")
  /\ SetTrust(d, FALSE)
  /\ requests' = [g \in Handlers |->
       IF g = h THEN [requests[g] EXCEPT !.at = "deactivate"]
       ELSE IF Busy(g) /\ requests[g].doc = d THEN [requests[g] EXCEPT !.late = TRUE]
       ELSE requests[g]]
  /\ challenges' = {IF c.doc = d THEN [c EXCEPT !.late = TRUE] ELSE c : c \in challenges}
  /\ UNCHANGED <<otp, sessions, begun, faults>>

Deactivate(h) ==
  LET d == requests[h].doc IN
  /\ At(h, "deactivate")
  /\ sessions' = {IF s.doc = d THEN [s EXCEPT !.active = FALSE] ELSE s : s \in sessions}
  /\ Return(h)
  /\ UNCHANGED <<docs, otp, challenges, begun, faults>>

-----------------------------------------------------------------------------
(* Codes, tokens and the second factor *)

\* sendDeviceFingerprintEmailVerification; the email is Accounts' matter.
SetCode(h) ==
  /\ At(h, "setCode")
  /\ challenges' = challenges \cup {[kind |-> "mail", doc |-> 0, late |-> FALSE]}
  /\ \/ requests[h].op = "login" /\ Goto(h, "askOtpVerify")
     \/ requests[h].op = "resend" /\ Return(h)
  /\ UNCHANGED <<docs, otp, sessions, begun, faults>>

\* checkAndInitOtpVerifyDeviceFingerprint, for the oldest document.
AskOtpVerify(h) ==
  /\ At(h, "askOtpVerify")
  /\ \/ otp = "on" /\ Goto(h, "setVerify")
     \/ otp # "on" /\ Return(h)
  /\ UNCHANGED <<docs, otp, challenges, sessions, begun, faults>>

SetVerify(h) ==
  /\ At(h, "setVerify")
  /\ challenges' = challenges \cup {[kind |-> "verify", doc |-> 1, late |-> FALSE]}
  /\ Return(h)
  /\ UNCHANGED <<docs, otp, sessions, begun, faults>>

\* Faulty: a code sent by email is taken for a second factor.
AskOtpOfLogin(h) ==
  /\ At(h, "askOtp")
  /\ \/ otp = "on" /\ requests[h].op = "login" /\ Goto(h, "setLogin")
     \/ (otp # "on" \/ requests[h].op = "mailCode") /\ Goto(h, "create")
  /\ UNCHANGED <<docs, otp, challenges, sessions, begun, faults>>

\* checkAndInitOtpLoginSession.
AskOtp(h) ==
  /\ At(h, "askOtp")
  /\ \/ otp = "on" /\ Goto(h, "setLogin")
     \/ otp # "on" /\ Goto(h, "create")
  /\ UNCHANGED <<docs, otp, challenges, sessions, begun, faults>>

SetLogin(h) ==
  LET r == requests[h] IN
  /\ At(h, "setLogin")
  /\ challenges' = challenges \cup {[kind |-> "login", doc |-> r.doc, late |-> r.late]}
  /\ Return(h)
  /\ UNCHANGED <<docs, otp, sessions, begun, faults>>

\* loginVerifyOtp and fingerprintTrustVerifyOtp, with the right password.
VerifyOtp(h) ==
  LET op == requests[h].op IN
  /\ At(h, "verifyOtp")
  /\ \/ otp # "on" /\ Return(h)
     \/ otp = "on" /\ op = "loginOtp" /\ Goto(h, "create")
     \/ otp = "on" /\ op = "trustOtp" /\ Goto(h, "findUntrusted")
  /\ UNCHANGED <<docs, otp, challenges, sessions, begun, faults>>

\* createSession, as one query; login and the code's verification try it again
\* when it fails, though the session may be there.
CreateSession(h) ==
  LET r == requests[h]
      again == r.op \in {"login", "mailCode"} /\ At(h, "create")
  IN
  /\ At(h, "create") \/ At(h, "createAgain")
  /\ sessions' = sessions \cup
       {[doc |-> r.doc, op |-> r.op, active |-> TRUE,
         on |-> r.on, failed |-> r.failed, late |-> r.late]}
  /\ \/ Return(h) /\ UNCHANGED faults
     \/ again /\ Goto(h, "createAgain") /\ Fault
  /\ UNCHANGED <<docs, otp, challenges, begun>>

\* The second document of two setUpOtp at once is never read: findOne takes the
\* first.
CreateOtp(h) ==
  /\ At(h, "createOtp")
  /\ \/ otp = "none" /\ otp' = "off"
     \/ otp # "none" /\ UNCHANGED otp
  /\ Return(h)
  /\ UNCHANGED <<docs, challenges, sessions, begun, faults>>

SaveOtp(h) ==
  LET on == requests[h].op = "enable" IN
  /\ At(h, "saveOtp")
  /\ otp' = IF on THEN "on" ELSE "off"
  /\ requests' = [g \in Handlers |->
       IF g = h THEN None
       ELSE IF Busy(g) THEN [requests[g] EXCEPT !.on = @ /\ on]
       ELSE None]
  /\ UNCHANGED <<docs, challenges, sessions, begun, faults>>

-----------------------------------------------------------------------------
(* Time and failures *)

Expire ==
  /\ \E c \in challenges : challenges' = challenges \ {c}
  /\ UNCHANGED <<docs, otp, sessions, requests, begun, faults>>

\* A failed read of the OTP document counts as a second factor not enabled, and
\* login goes on to trustFingerprintLogin when checkAndInitOtpLoginSession fails;
\* so does the verification of a code.
Onward(h) ==
  LET r == requests[h] IN
  \/ r.at = "askOtp" /\ Becomes(h, [r EXCEPT !.at = "create", !.failed = TRUE])
  \/ /\ r.at \in {"setLogin", "create"}
     /\ r.op \in {"login", "mailCode"}
     /\ Becomes(h, [r EXCEPT !.at = "createAgain", !.failed = TRUE])

\* Anything else ends the request, as does the end of its instance.
Fails(h) ==
  /\ Busy(h)
  /\ Fault
  /\ Onward(h) \/ Return(h)
  /\ sessions' = IF At(h, "deactivate")
                 THEN {IF s.doc = requests[h].doc THEN [s EXCEPT !.late = TRUE] ELSE s : s \in sessions}
                 ELSE sessions
  /\ UNCHANGED <<docs, otp, challenges, begun>>

BeginSomething(h) ==
  \/ BeginLogin(h)
  \/ BeginResend(h)
  \/ BeginWallet(h)
  \/ BeginMailCode(h)
  \/ BeginLoginOtp(h)
  \/ BeginTrustOtp(h)
  \/ BeginRevoke(h)
  \/ BeginOtp(h)

Step(h) ==
  \/ CheckDeviceFingerprint(h)
  \/ FindDeviceFingerprint(h)
  \/ CreateDeviceFingerprint(h)
  \/ FindUntrusted(h)
  \/ SaveTrust(h)
  \/ FindTrusted(h)
  \/ Untrust(h)
  \/ Deactivate(h)
  \/ SetCode(h)
  \/ AskOtpVerify(h)
  \/ SetVerify(h)
  \/ AskOtp(h)
  \/ SetLogin(h)
  \/ VerifyOtp(h)
  \/ CreateSession(h)
  \/ CreateOtp(h)
  \/ SaveOtp(h)

Next ==
  \/ \E h \in Handlers : BeginSomething(h) \/ Step(h) \/ Fails(h)
  \/ Expire

Spec == Init /\ [][Next]_vars

-----------------------------------------------------------------------------
(* Properties *)

\* Who had the second factor enabled when a login began, and did not disable it,
\* gets no session out of that login without it: whether the device was
\* trusted or became so by a code, whatever else went on, unless a query failed.
\* A wallet needs no second factor.
SecondFactor ==
  \A s \in sessions : s.on /\ ~s.failed /\ s.op # "wallet" => s.op \in Verified

\* An active session's device is trusted, or is just being revoked; or the
\* revocation was cut short, or came between the check (perhaps that of a login
\* whose token was brought back later) and the session.
UntrustedHasNoActive ==
  \A s \in sessions :
    s.active /\ ~s.late =>
      docs[s.doc] \/ \E h \in Handlers : At(h, "deactivate") /\ requests[h].doc = s.doc

=============================================================================
