--------------------------- MODULE WalletsProofs ---------------------------
(***************************************************************************)
(* Proofs about Wallets, for any number of handlers, users, addresses,     *)
(* requests and failures.                                                  *)
(***************************************************************************)
EXTENDS Wallets, FiniteSetTheorems, TLAPS

USE WalletsAssumption

-----------------------------------------------------------------------------
(* Types *)

Signing == {"link", "setPrimary", "login"}

\* Queries before the nonce is verified, at its deletion, and after.
Verified == {"existsAgain", "create", "getWallet", "anyPrimary", "isPrimaryAgain", "set"}

\* What a request is, and holds, at each of its queries.
Typed(r) ==
  /\ r.op \in Signing => r.nonce \in Number
  /\ r.op \in {"link", "setPrimary"} => r.user \in Users
  /\ r.at \in {"getNonce", "delNonce"} \cup Verified => r.op \in Signing
  /\ r.at \in {"exists", "existsAgain", "create"} => r.op = "link"
  /\ r.at \in {"anyPrimary", "isPrimaryAgain", "set"} => r.op = "setPrimary"
  /\ r.at = "isPrimary" => r.op \in {"challenge", "setPrimary", "unsetPrimary"}
  /\ r.at = "setNonce" => r.op = "challenge"
  /\ r.at = "unset" => r.op = "unsetPrimary"

TypeInv ==
  /\ TypeOK
  /\ \A h \in Handlers : Busy(h) => Typed(requests[h])

\* A handler that is at a query, and what it holds there.
LEMMA Holds ==
  ASSUME TypeInv, NEW h \in Handlers, NEW q \in Queries, At(h, q)
  PROVE  Busy(h) /\ requests[h] \in Request /\ requests[h].at = q /\ Typed(requests[h])
BY DEF TypeInv, TypeOK, At, Busy

\* A request moves to a typed request, or ends.
LEMMA BecomesTyped ==
  ASSUME TypeInv, NEW h \in Handlers, NEW r \in Request, Typed(r), Becomes(h, r)
  PROVE  /\ requests' \in [Handlers -> Request \cup {None}]
         /\ \A g \in Handlers : Busy(g)' => Typed(requests[g])'
<1>1. requests' = [requests EXCEPT ![h] = r]
  BY DEF Becomes
<1>2. \A g \in Handlers : requests'[g] = IF g = h THEN r ELSE requests[g]
  BY <1>1 DEF TypeInv, TypeOK
<1>3. \A g \in Handlers : requests'[g] # None => Typed(requests'[g])
  BY <1>2 DEF TypeInv, Busy
<1>4. \A g \in Handlers : Busy(g)' => Typed(requests[g])'
  BY <1>3 DEF Busy, Typed
<1> QED
  BY <1>1, <1>4 DEF TypeInv, TypeOK

\* A request that moves on is typed, if it has what its query needs.
LEMMA GotoTyped ==
  ASSUME TypeInv, NEW h \in Handlers, Busy(h), NEW q \in Queries, Goto(h, q),
         Typed([requests[h] EXCEPT !.at = q])
  PROVE  /\ requests' \in [Handlers -> Request \cup {None}]
         /\ \A g \in Handlers : Busy(g)' => Typed(requests[g])'
<1>1. requests[h] \in Request
  BY DEF TypeInv, TypeOK, Busy
<1>2. [requests[h] EXCEPT !.at = q] \in Request
  BY <1>1 DEF Request
<1> QED
  BY <1>2, BecomesTyped DEF Goto

\* A request that ends leaves the others typed.
LEMMA ReturnTyped ==
  ASSUME TypeInv, NEW h \in Handlers, Return(h)
  PROVE  /\ requests' \in [Handlers -> Request \cup {None}]
         /\ \A g \in Handlers : Busy(g)' => Typed(requests[g])'
<1>1. requests' = [requests EXCEPT ![h] = None]
  BY DEF Return, Becomes
<1>2. \A g \in Handlers : requests'[g] = IF g = h THEN None ELSE requests[g]
  BY <1>1 DEF TypeInv, TypeOK
<1>3. \A g \in Handlers : requests'[g] # None => Typed(requests'[g])
  BY <1>2 DEF TypeInv, Busy
<1>4. \A g \in Handlers : Busy(g)' => Typed(requests[g])'
  BY <1>3 DEF Busy, Typed
<1> QED
  BY <1>1, <1>4 DEF TypeInv, TypeOK

\* A request begins: n is not above begun, so the new number is one.
LEMMA BeginTyped ==
  ASSUME TypeInv, NEW h \in Handlers, NEW op \in Operations, NEW q \in Queries,
         NEW u \in Users \cup {None}, NEW a \in Addresses, NEW n \in Number \cup {None},
         Typed([op |-> op, at |-> q, n |-> begun + 1, user |-> u, address |-> a, nonce |-> n]),
         Begin(h, op, q, u, a, n), faults' \in 0..MaxFaults
  PROVE  TypeInv'
<1> DEFINE r == [op |-> op, at |-> q, n |-> begun + 1, user |-> u, address |-> a, nonce |-> n]
<1>1. begun + 1 \in Number /\ begun' \in 0..MaxRequests
  BY DEF TypeInv, TypeOK, Begin, Number
<1>2. r \in Request
  BY <1>1 DEF Request
<1>3. Becomes(h, r)
  BY DEF Begin
<1>4. /\ requests' \in [Handlers -> Request \cup {None}]
      /\ \A g \in Handlers : Busy(g)' => Typed(requests[g])'
  BY <1>2, <1>3, BecomesTyped
<1> QED
  BY <1>1, <1>4 DEF TypeInv, TypeOK, Begin, history

\* Failures are counted up to their bound.
LEMMA FaultTyped ==
  ASSUME faults \in 0..MaxFaults, Fault
  PROVE  faults' \in 0..MaxFaults
BY DEF Fault

\* Whether a user has a primary wallet is asked with or without a failure.
LEMMA PrimaryTyped ==
  ASSUME TypeOK, NEW u, NoPrimary(u) \/ SomePrimary(u)
  PROVE  faults' \in 0..MaxFaults
BY FaultTyped DEF TypeOK, NoPrimary, SomePrimary

\* Types hold at first.
LEMMA TypeInit ==
  ASSUME Init
  PROVE  TypeInv
<1>1. wallets \in [Addresses -> Wallet \cup {None}]
  BY DEF Init, Wallet
<1>2. nonces \in [Addresses -> Number \cup {None}] /\ uses \in [Number -> Nat]
  BY DEF Init
<1>3. signed \subseteq Number \X Addresses /\ shared \subseteq Number
  BY DEF Init
<1>4. begun \in 0..MaxRequests /\ faults \in 0..MaxFaults
  BY DEF Init
<1>5. requests \in [Handlers -> Request \cup {None}]
  BY DEF Init
<1>6. TypeOK
  BY <1>1, <1>2, <1>3, <1>4, <1>5 DEF TypeOK
<1>7. \A h \in Handlers : ~Busy(h)
  BY DEF Init, Busy
<1> QED
  BY <1>6, <1>7 DEF TypeInv

\* Requests begin.
LEMMA BeginSomethingTyped ==
  ASSUME TypeInv, NEW h \in Handlers, BeginSomething(h)
  PROVE  TypeInv'
<1>0. /\ \A a \in Addresses : Linked(a) => wallets[a].user \in Users
      /\ \A s \in signed : s[1] \in Number /\ s[2] \in Addresses
  BY DEF TypeInv, TypeOK, Linked, Wallet
<1>f. faults' \in 0..MaxFaults
  BY PrimaryTyped
  DEF TypeInv, TypeOK, BeginSomething, BeginLinkChallenge, BeginLoginChallenge,
      BeginPrimaryChallenge, BeginLink, LinkIf, BeginUnlink, BeginSetPrimary,
      BeginUnsetPrimary, BeginLogin
<1>1. CASE BeginLinkChallenge(h)
  BY <1>1, <1>f, BeginTyped DEF BeginLinkChallenge, Operations, Queries, Typed, Verified, Signing
<1>2. CASE BeginLoginChallenge(h)
  BY <1>2, <1>f, BeginTyped DEF BeginLoginChallenge, Operations, Queries, Typed, Verified, Signing
<1>3. CASE BeginPrimaryChallenge(h)
  <2>1. PICK u \in Users, a \in Addresses :
          \/ Begin(h, "challenge", "setNonce", u, a, None)
          \/ Begin(h, "challenge", "isPrimary", u, a, None)
    BY <1>3 DEF BeginPrimaryChallenge
  <2> QED
    BY <2>1, <1>f, BeginTyped DEF Operations, Queries, Typed, Verified, Signing
<1>4. CASE BeginLink(h)
  <2>1. PICK u \in Users, s \in signed : Begin(h, "link", "exists", u, s[2], s[1])
    BY <1>4 DEF BeginLink, LinkIf
  <2> QED
    BY <1>0, <2>1, <1>f, BeginTyped DEF Operations, Queries, Typed, Verified, Signing
<1>5. CASE BeginUnlink(h)
  BY <1>0, <1>5, <1>f, BeginTyped DEF BeginUnlink, Operations, Queries, Typed, Verified, Signing
<1>6. CASE BeginSetPrimary(h)
  <2>1. PICK u \in Users, s \in signed :
          \/ Begin(h, "setPrimary", "getNonce", u, s[2], s[1])
          \/ Begin(h, "setPrimary", "isPrimary", u, s[2], s[1])
    BY <1>6 DEF BeginSetPrimary
  <2> QED
    BY <1>0, <2>1, <1>f, BeginTyped DEF Operations, Queries, Typed, Verified, Signing
<1>7. CASE BeginUnsetPrimary(h)
  BY <1>7, <1>f, BeginTyped DEF BeginUnsetPrimary, Operations, Queries, Typed, Verified, Signing
<1>8. CASE BeginLogin(h)
  <2>1. PICK s \in signed : Begin(h, "login", "getNonce", None, s[2], s[1])
    BY <1>8 DEF BeginLogin
  <2> QED
    BY <1>0, <2>1, <1>f, BeginTyped DEF Operations, Queries, Typed, Verified, Signing
<1> QED
  BY <1>1, <1>2, <1>3, <1>4, <1>5, <1>6, <1>7, <1>8 DEF BeginSomething

\* A query of a typed request, of which only at changes, keeps it typed.
LEMMA AtTyped ==
  ASSUME TypeInv, NEW h \in Handlers, Busy(h), NEW q \in Queries
  PROVE  LET r == [requests[h] EXCEPT !.at = q] IN
         /\ r.at = q /\ r.op = requests[h].op /\ r.n = requests[h].n
         /\ r.user = requests[h].user /\ r.address = requests[h].address
         /\ r.nonce = requests[h].nonce
BY DEF TypeInv, TypeOK, Busy, Request

\* A step of a request keeps requests typed.
LEMMA StepTyped ==
  ASSUME TypeInv, NEW h \in Handlers, Step(h)
  PROVE  /\ requests' \in [Handlers -> Request \cup {None}]
         /\ \A g \in Handlers : Busy(g)' => Typed(requests[g])'
<1> DEFINE Done == /\ requests' \in [Handlers -> Request \cup {None}]
                   /\ \A g \in Handlers : Busy(g)' => Typed(requests[g])'
           r == requests[h]
<1> SUFFICES Done
  OBVIOUS
<1> HIDE DEF Done
<1>r. Return(h) => Done
  BY ReturnTyped DEF Done
<1>g. ASSUME NEW q \in Queries, Busy(h), Goto(h, q), Typed([r EXCEPT !.at = q])
      PROVE  Done
  BY <1>g, GotoTyped DEF Done
<1>1. CASE SetNonce(h)
  BY <1>r, <1>1 DEF SetNonce
<1>2. CASE GetNonce(h)
  <2>1. At(h, "getNonce") /\ (Return(h) \/ Goto(h, "delNonce"))
    BY <1>2 DEF GetNonce, Verify
  <2>2. Busy(h) /\ r.at = "getNonce" /\ Typed(r)
    BY <2>1, Holds DEF Queries
  <2>3. Typed([r EXCEPT !.at = "delNonce"])
    BY <2>2, AtTyped DEF Typed, Verified, Queries
  <2> QED
    BY <1>r, <1>g, <2>1, <2>2, <2>3 DEF Queries
<1>3. CASE DelNonce(h)
  <2>1. At(h, "delNonce") /\ AfterDelNonce(h)
    BY <1>3 DEF DelNonce
  <2>2. Busy(h) /\ r.at = "delNonce" /\ Typed(r)
    BY <2>1, Holds DEF Queries
  <2>3. CASE r.op = "link" /\ Goto(h, "existsAgain")
    <3>1. Typed([r EXCEPT !.at = "existsAgain"])
      BY <2>2, <2>3, AtTyped DEF Typed, Verified, Signing, Queries
    <3> QED
      BY <1>g, <2>2, <2>3, <3>1 DEF Queries
  <2>4. CASE r.op = "setPrimary" /\ Goto(h, "anyPrimary")
    <3>1. Typed([r EXCEPT !.at = "anyPrimary"])
      BY <2>2, <2>4, AtTyped DEF Typed, Verified, Signing, Queries
    <3> QED
      BY <1>g, <2>2, <2>4, <3>1 DEF Queries
  <2>5. CASE r.op = "login" /\ Goto(h, "getWallet")
    <3>1. Typed([r EXCEPT !.at = "getWallet"])
      BY <2>2, <2>5, AtTyped DEF Typed, Verified, Signing, Queries
    <3> QED
      BY <1>g, <2>2, <2>5, <3>1 DEF Queries
  <2> QED
    BY <2>1, <2>3, <2>4, <2>5 DEF AfterDelNonce
<1>4. CASE WalletExists(h)
  <2>1. /\ At(h, "exists") \/ At(h, "existsAgain")
        /\ Return(h) \/ Goto(h, IF r.at = "exists" THEN "getNonce" ELSE "create")
    BY <1>4 DEF WalletExists
  <2>2. Busy(h) /\ r.op = "link" /\ Typed(r)
    BY <2>1, Holds DEF Queries, Typed
  <2>3. Typed([r EXCEPT !.at = "getNonce"]) /\ Typed([r EXCEPT !.at = "create"])
    BY <2>2, AtTyped DEF Typed, Verified, Signing, Queries
  <2> QED
    BY <1>r, <1>g, <2>1, <2>2, <2>3 DEF Queries
<1>5. CASE LinkWallet(h)
  BY <1>r, <1>5 DEF LinkWallet
<1>6. CASE DeleteWallet(h)
  BY <1>r, <1>6 DEF DeleteWallet
<1>7. CASE AnyPrimary(h)
  <2>1. At(h, "anyPrimary") /\ (Goto(h, "set") \/ Goto(h, "isPrimaryAgain"))
    BY <1>7 DEF AnyPrimary
  <2>2. Busy(h) /\ r.op = "setPrimary" /\ Typed(r)
    BY <2>1, Holds DEF Queries, Typed
  <2>3. Typed([r EXCEPT !.at = "set"]) /\ Typed([r EXCEPT !.at = "isPrimaryAgain"])
    BY <2>2, AtTyped DEF Typed, Verified, Signing, Queries
  <2> QED
    BY <1>g, <2>1, <2>2, <2>3 DEF Queries
<1>8. CASE IsPrimary(h)
  <2>1. /\ At(h, "isPrimary") \/ At(h, "isPrimaryAgain")
        /\ \/ Return(h)
           \/ Goto(h, CASE r.op = "unsetPrimary" -> "unset"
                        [] r.op = "challenge" -> "setNonce"
                        [] r.op = "setPrimary" -> IF r.at = "isPrimary" THEN "getNonce" ELSE "set")
    BY <1>8 DEF IsPrimary
  <2>2. Busy(h) /\ r.op \in {"challenge", "setPrimary", "unsetPrimary"} /\ Typed(r)
    BY <2>1, Holds DEF Queries, Typed
  <2>3. CASE Return(h)
    BY <1>r, <2>3
  <2>4. CASE r.op = "unsetPrimary" /\ Goto(h, "unset")
    <3>1. Typed([r EXCEPT !.at = "unset"])
      BY <2>2, <2>4, AtTyped DEF Typed, Verified, Signing, Queries
    <3> QED
      BY <1>g, <2>2, <2>4, <3>1 DEF Queries
  <2>5. CASE r.op = "challenge" /\ Goto(h, "setNonce")
    <3>1. Typed([r EXCEPT !.at = "setNonce"])
      BY <2>2, <2>5, AtTyped DEF Typed, Verified, Signing, Queries
    <3> QED
      BY <1>g, <2>2, <2>5, <3>1 DEF Queries
  <2>6. CASE r.op = "setPrimary" /\ (Goto(h, "getNonce") \/ Goto(h, "set"))
    <3>1. Typed([r EXCEPT !.at = "getNonce"]) /\ Typed([r EXCEPT !.at = "set"])
      BY <2>2, <2>6, AtTyped DEF Typed, Verified, Signing, Queries
    <3> QED
      BY <1>g, <2>2, <2>6, <3>1 DEF Queries
  <2> QED
    BY <2>1, <2>2, <2>3, <2>4, <2>5, <2>6
<1>9. CASE SetPrimary(h)
  BY <1>r, <1>9 DEF SetPrimary
<1>10. CASE UnsetPrimary(h)
  BY <1>r, <1>10 DEF UnsetPrimary
<1>11. CASE GetWallet(h)
  BY <1>r, <1>11 DEF GetWallet
<1> QED
  BY <1>1, <1>2, <1>3, <1>4, <1>5, <1>6, <1>7, <1>8, <1>9, <1>10, <1>11 DEF Step

\* The request that uses its nonce holds one.
LEMMA UsedTyped ==
  ASSUME TypeInv, NEW h \in Handlers, NEW q \in Verified, At(h, q), Used(h)
  PROVE  uses' \in [Number -> Nat]
<1>1. requests[h].nonce \in Number
  BY Holds DEF Queries, Verified, Typed
<1> QED
  BY <1>1 DEF TypeInv, TypeOK, Used

\* A step of a request keeps wallets and nonces typed.
LEMMA DataTyped ==
  ASSUME TypeInv, NEW h \in Handlers, Step(h)
  PROVE  /\ wallets' \in [Addresses -> Wallet \cup {None}]
         /\ nonces' \in [Addresses -> Number \cup {None}]
         /\ uses' \in [Number -> Nat]
         /\ shared' \subseteq Number
         /\ signed' = signed /\ begun' = begun /\ faults' \in 0..MaxFaults
<1> DEFINE r == requests[h]
<1>0. /\ wallets \in [Addresses -> Wallet \cup {None}]
      /\ nonces \in [Addresses -> Number \cup {None}]
      /\ uses \in [Number -> Nat]
      /\ shared \subseteq Number
      /\ faults \in 0..MaxFaults
      /\ Busy(h) => r \in Request
  BY DEF TypeInv, TypeOK, Busy
<1>1. CASE SetNonce(h)
  <2>1. r.n \in Number
    BY <1>0, <1>1 DEF SetNonce, At, Request
  <2> QED
    BY <1>0, <1>1, <2>1 DEF SetNonce, history
<1>2. CASE GetNonce(h)
  <2>1. r.nonce \in Number
    BY <1>2, Holds DEF GetNonce, Verify, Queries, Typed
  <2>2. shared' \in {shared, shared \cup {r.nonce}}
    BY <1>2 DEF GetNonce, Verify
  <2> QED
    BY <1>0, <1>2, <2>1, <2>2 DEF GetNonce, Verify
<1>3. CASE DelNonce(h)
  BY <1>0, <1>3 DEF DelNonce, AfterDelNonce, history
<1>4. CASE WalletExists(h)
  BY <1>0, <1>4 DEF WalletExists, history
<1>5. CASE LinkWallet(h)
  <2>1. At(h, "create") /\ r.user \in Users
    BY <1>5, Holds DEF LinkWallet, Queries, Typed
  <2>2. [user |-> r.user, primary |-> FALSE] \in Wallet
    BY <2>1 DEF Wallet
  <2>3. wallets' \in [Addresses -> Wallet \cup {None}]
    BY <1>0, <1>5, <2>2 DEF LinkWallet
  <2>4. uses' \in [Number -> Nat]
    BY <1>0, <1>5, <2>1, UsedTyped DEF LinkWallet, Verified
  <2> QED
    BY <1>0, <1>5, <2>3, <2>4 DEF LinkWallet
<1>6. CASE DeleteWallet(h)
  BY <1>0, <1>6 DEF DeleteWallet
<1>7. CASE AnyPrimary(h)
  BY <1>0, <1>7, PrimaryTyped DEF AnyPrimary, history, TypeInv
<1>8. CASE IsPrimary(h)
  BY <1>0, <1>8 DEF IsPrimary, history
<1>9. CASE SetPrimary(h)
  <2>1. At(h, "set")
    BY <1>9 DEF SetPrimary
  <2>2. wallets' \in [Addresses -> Wallet \cup {None}]
    <3>1. CASE wallets' = wallets
      BY <1>0, <3>1
    <3>2. CASE r.address \in Of(r.user) /\ wallets' = [wallets EXCEPT ![r.address].primary = TRUE]
      <4>1. wallets[r.address] \in Wallet
        BY <1>0, <3>2 DEF Of, Linked
      <4> QED
        BY <1>0, <3>2, <4>1 DEF Wallet
    <3> QED
      BY <1>9, <3>1, <3>2 DEF SetPrimary
  <2>3. uses' \in [Number -> Nat]
    BY <1>0, <1>9, <2>1, UsedTyped DEF SetPrimary, Verified
  <2> QED
    BY <1>0, <1>9, <2>2, <2>3 DEF SetPrimary
<1>10. CASE UnsetPrimary(h)
  <2>1. CASE r.address \in Of(r.user)
    <3>1. wallets[r.address] \in Wallet
      BY <1>0, <2>1 DEF Of, Linked
    <3> QED
      BY <1>0, <1>10, <2>1, <3>1 DEF UnsetPrimary, history, Wallet
  <2>2. CASE r.address \notin Of(r.user)
    BY <1>0, <1>10, <2>2 DEF UnsetPrimary, history
  <2> QED
    BY <2>1, <2>2
<1>11. CASE GetWallet(h)
  <2>1. At(h, "getWallet")
    BY <1>11 DEF GetWallet
  <2>2. uses' \in [Number -> Nat]
    BY <1>0, <1>11, <2>1, UsedTyped DEF GetWallet, Verified
  <2> QED
    BY <1>0, <1>11, <2>2 DEF GetWallet
<1> QED
  BY <1>1, <1>2, <1>3, <1>4, <1>5, <1>6, <1>7, <1>8, <1>9, <1>10, <1>11 DEF Step

\* Every step keeps types.
LEMMA TypeNext ==
  ASSUME TypeInv, [Next]_vars
  PROVE  TypeInv'
<1>1. ASSUME NEW h \in Handlers, BeginSomething(h)
      PROVE  TypeInv'
  BY <1>1, BeginSomethingTyped
<1>2. ASSUME NEW h \in Handlers, Step(h)
      PROVE  TypeInv'
  BY <1>2, StepTyped, DataTyped DEF TypeInv, TypeOK
<1>3. ASSUME NEW h \in Handlers, Fails(h)
      PROVE  TypeInv'
  <2>1. /\ requests' \in [Handlers -> Request \cup {None}]
        /\ \A g \in Handlers : Busy(g)' => Typed(requests[g])'
    BY <1>3, ReturnTyped DEF Fails
  <2>2. faults' \in 0..MaxFaults
    BY <1>3 DEF Fails, Fault, TypeInv, TypeOK
  <2> QED
    BY <1>3, <2>1, <2>2 DEF Fails, TypeInv, TypeOK, history
<1>4. ASSUME NEW a \in Addresses, Sign(a)
      PROVE  TypeInv'
  <2>1. signed' \subseteq Number \X Addresses
    BY <1>4 DEF Sign, TypeInv, TypeOK
  <2> QED
    BY <1>4, <2>1 DEF Sign, TypeInv, TypeOK, Busy, Typed, history
<1>5. CASE UNCHANGED vars
  BY <1>5 DEF vars, TypeInv, TypeOK, Busy, Typed
<1> QED
  BY <1>1, <1>2, <1>3, <1>4, <1>5 DEF Next

\* Types.
THEOREM TypeCorrect == Spec => []TypeOK
<1>1. Init => TypeInv
  BY TypeInit
<1>2. TypeInv /\ [Next]_vars => TypeInv'
  BY TypeNext
<1>3. TypeInv => TypeOK
  BY DEF TypeInv
<1> QED
  BY <1>1, <1>2, <1>3, PTL DEF Spec

-----------------------------------------------------------------------------
(* Who an address belongs to *)

\* A step that leaves an address linked leaves it to its user.
LEMMA AddressStep ==
  ASSUME TypeInv, Next, NEW a \in Addresses, Linked(a), Linked(a)'
  PROVE  wallets[a].user = wallets'[a].user
<1>0. wallets \in [Addresses -> Wallet \cup {None}]
  BY DEF TypeInv, TypeOK
<1>1. ASSUME NEW h \in Handlers, Step(h)
      PROVE  wallets[a].user = wallets'[a].user
  <2> DEFINE r == requests[h]
  <2>1. CASE LinkWallet(h)
    BY <1>0, <2>1 DEF LinkWallet, Linked
  <2>2. CASE DeleteWallet(h)
    BY <1>0, <2>2 DEF DeleteWallet, Linked
  <2>3. CASE SetPrimary(h)
    BY <1>0, <2>3 DEF SetPrimary, Linked, Wallet
  <2>4. CASE UnsetPrimary(h)
    BY <1>0, <2>4 DEF UnsetPrimary, Linked, Wallet
  <2>5. CASE UNCHANGED wallets
    BY <2>5
  <2> QED
    BY <1>1, <2>1, <2>2, <2>3, <2>4, <2>5
    DEF Step, SetNonce, GetNonce, Verify, DelNonce, AfterDelNonce, WalletExists, AnyPrimary,
        IsPrimary, GetWallet
<1>2. ASSUME NEW h \in Handlers, BeginSomething(h) \/ Fails(h)
      PROVE  wallets[a].user = wallets'[a].user
  BY <1>2 DEF BeginSomething, BeginLinkChallenge, BeginLoginChallenge, BeginPrimaryChallenge,
              BeginLink, LinkIf, BeginUnlink, BeginSetPrimary, BeginUnsetPrimary, BeginLogin,
              Begin, Fails
<1>3. ASSUME NEW b \in Addresses, Sign(b)
      PROVE  wallets[a].user = wallets'[a].user
  BY <1>3 DEF Sign
<1> QED
  BY <1>1, <1>2, <1>3 DEF Next

\* An address is unlinked before another user has it.
THEOREM AddressCorrect == Spec => AddressKept
<1>1. Init => TypeInv
  BY TypeInit
<1>2. TypeInv /\ [Next]_vars => TypeInv'
  BY TypeNext
<1>3. TypeInv /\ [Next]_vars =>
        [\A a \in Addresses : Linked(a) /\ Linked(a)' => wallets[a].user = wallets'[a].user]_vars
  BY AddressStep
<1> QED
  BY <1>1, <1>2, <1>3, PTL DEF Spec, AddressKept

-----------------------------------------------------------------------------
(* Nonces *)

\* Nonce n is still to be put into Redis.
ToBeSet(n) == \E h \in Handlers : Busy(h) /\ requests[h].op = "challenge" /\ requests[h].n = n

\* Each nonce is made once, for one address, and signed by that address only.
NonceInv ==
  /\ \A h \in Handlers : Busy(h) => requests[h].n <= begun
  /\ \A g, h \in Handlers : Busy(g) /\ Busy(h) /\ g # h => requests[g].n # requests[h].n
  /\ \A a \in Addresses : nonces[a] # None => nonces[a] <= begun /\ ~ToBeSet(nonces[a])
  /\ \A a, b \in Addresses : nonces[a] # None /\ nonces[a] = nonces[b] => a = b
  /\ \A s \in signed : s[1] <= begun /\ ~ToBeSet(s[1])
  /\ \A s \in signed, a \in Addresses : nonces[a] = s[1] => a = s[2]
  /\ \A s, t \in signed : s[1] = t[1] => s = t
  /\ \A h \in Handlers : Busy(h) /\ requests[h].op \in Signing =>
       <<requests[h].nonce, requests[h].address>> \in signed

\* Requests that have verified nonce n.
Has(h, n) == Busy(h) /\ requests[h].at \in {"delNonce"} \cup Verified /\ requests[h].nonce = n

\* A nonce is gone when one that has verified it goes on, and has been used once.
OnceInv ==
  /\ \A h \in Handlers : Busy(h) /\ requests[h].at \in Verified =>
       nonces[requests[h].address] # requests[h].nonce
  /\ \A n \in Number : uses[n] > 0 => \E a \in Addresses : <<n, a>> \in signed /\ nonces[a] # n
  /\ \A n \in Number \ shared :
       /\ uses[n] <= 1
       /\ \A g, h \in Handlers : Has(g, n) /\ Has(h, n) => g = h
       /\ \A h \in Handlers : Has(h, n) => uses[n] = 0

\* Requests of the next state are of this one, and only where they are changes.
Older ==
  \A g \in Handlers : Busy(g)' =>
    /\ Busy(g)
    /\ requests'[g].op = requests[g].op
    /\ requests'[g].n = requests[g].n
    /\ requests'[g].user = requests[g].user
    /\ requests'[g].address = requests[g].address
    /\ requests'[g].nonce = requests[g].nonce

\* A request that moves on or ends leaves the others, and is the same request still.
LEMMA Moves ==
  ASSUME TypeInv, NEW h \in Handlers, Busy(h), NEW q \in Queries, Return(h) \/ Goto(h, q)
  PROVE  /\ Older
         /\ \A g \in Handlers \ {h} : requests'[g] = requests[g]
         /\ Return(h) => ~Busy(h)'
         /\ Goto(h, q) => Busy(h)' /\ requests'[h].at = q
<1>1. requests \in [Handlers -> Request \cup {None}] /\ requests[h] \in Request
  BY DEF TypeInv, TypeOK, Busy
<1>2. CASE Return(h)
  <2>1. requests' = [requests EXCEPT ![h] = None]
    BY <1>2 DEF Return, Becomes
  <2>2. \A g \in Handlers : requests'[g] = IF g = h THEN None ELSE requests[g]
    BY <1>1, <2>1
  <2>3. requests'[h] # [requests[h] EXCEPT !.at = q]
    BY <1>1, <2>2 DEF Request
  <2>4. ~Goto(h, q)
    BY <1>1, <2>1, <2>3 DEF Goto, Becomes
  <2> QED
    BY <2>2, <2>4 DEF Older, Busy
<1>3. CASE Goto(h, q)
  <2>1. requests' = [requests EXCEPT ![h] = [requests[h] EXCEPT !.at = q]]
    BY <1>3 DEF Goto, Becomes
  <2>2. \A g \in Handlers : requests'[g] = IF g = h THEN [requests[h] EXCEPT !.at = q] ELSE requests[g]
    BY <1>1, <2>1
  <2>3. requests'[h] # None
    BY <1>1, <2>2 DEF Request
  <2>4. ~Return(h)
    BY <1>1, <2>3 DEF Return, Becomes
  <2>5. /\ requests'[h].at = q /\ requests'[h].op = requests[h].op /\ requests'[h].n = requests[h].n
        /\ requests'[h].user = requests[h].user /\ requests'[h].address = requests[h].address
        /\ requests'[h].nonce = requests[h].nonce
    BY <1>1, <2>2 DEF Request
  <2> QED
    BY <2>2, <2>3, <2>4, <2>5 DEF Older, Busy
<1> QED
  BY <1>2, <1>3

\* Every step is one of these, and DelNonce alone makes a request verified.
LEMMA StepMoves ==
  ASSUME TypeInv, NEW h \in Handlers, Step(h)
  PROVE  /\ Busy(h)
         /\ \E q \in Queries :
              /\ Return(h) \/ Goto(h, q)
              /\ Goto(h, q) /\ q = "delNonce" => GetNonce(h)
              /\ Goto(h, q) /\ q \in Verified => DelNonce(h) \/ requests[h].at \in Verified
<1> DEFINE r == requests[h]
           Moved(q) == /\ Return(h) \/ Goto(h, q)
                       /\ Goto(h, q) /\ q = "delNonce" => GetNonce(h)
                       /\ Goto(h, q) /\ q \in Verified => DelNonce(h) \/ requests[h].at \in Verified
<1>b. Busy(h)
  BY DEF Step, SetNonce, GetNonce, Verify, DelNonce, WalletExists, LinkWallet, DeleteWallet,
         AnyPrimary, IsPrimary, SetPrimary, UnsetPrimary, GetWallet, At
<1>1. CASE Return(h)
  <2>1. ~Goto(h, "unset")
    BY <1>b, <1>1, Moves DEF Queries
  <2>2. Moved("unset")
    BY <1>1, <2>1
  <2> QED
    BY <1>b, <2>2 DEF Queries
<1>2. CASE GetNonce(h) /\ Goto(h, "delNonce")
  <2>1. Moved("delNonce")
    BY <1>2 DEF Verified
  <2> QED
    BY <1>b, <2>1 DEF Queries
<1>3. CASE DelNonce(h)
  <2>1. \E q \in {"existsAgain", "anyPrimary", "getWallet"} : Goto(h, q)
    BY <1>3 DEF DelNonce, AfterDelNonce
  <2>2. \E q \in {"existsAgain", "anyPrimary", "getWallet"} : Moved(q)
    BY <1>3, <2>1
  <2> QED
    BY <1>b, <2>2 DEF Queries
<1>4. CASE WalletExists(h) /\ Goto(h, IF r.at = "exists" THEN "getNonce" ELSE "create")
  <2>1. CASE r.at = "exists"
    <3>1. Moved("getNonce")
      BY <1>4, <2>1 DEF Verified
    <3> QED
      BY <1>b, <3>1 DEF Queries
  <2>2. CASE r.at = "existsAgain"
    <3>1. Moved("create")
      BY <1>4, <2>2 DEF Verified
    <3> QED
      BY <1>b, <3>1 DEF Queries
  <2> QED
    BY <1>4, <2>1, <2>2 DEF WalletExists, At
<1>5. CASE AnyPrimary(h)
  <2>1. r.at = "anyPrimary" /\ \E q \in {"set", "isPrimaryAgain"} : Goto(h, q)
    BY <1>5 DEF AnyPrimary, At
  <2>2. \E q \in {"set", "isPrimaryAgain"} : Moved(q)
    BY <2>1 DEF Verified
  <2> QED
    BY <1>b, <2>2 DEF Queries
<1>6. CASE IsPrimary(h) /\ ~Return(h)
  <2>1. CASE r.at = "isPrimaryAgain"
    <3>1. r.op = "setPrimary"
      BY <1>b, <2>1 DEF TypeInv, Typed
    <3>2. Moved("set")
      BY <1>6, <2>1, <3>1 DEF IsPrimary, Verified
    <3> QED
      BY <1>b, <3>2 DEF Queries
  <2>2. CASE r.at = "isPrimary"
    <3>1. r.op \in {"challenge", "setPrimary", "unsetPrimary"}
      BY <1>b, <2>2 DEF TypeInv, Typed
    <3>2. \E q \in {"unset", "setNonce", "getNonce"} : Goto(h, q)
      BY <1>6, <2>2, <3>1 DEF IsPrimary
    <3>3. \E q \in {"unset", "setNonce", "getNonce"} : Moved(q)
      BY <3>2 DEF Verified
    <3> QED
      BY <1>b, <3>3 DEF Queries
  <2> QED
    BY <1>6, <2>1, <2>2 DEF IsPrimary, At
<1> QED
  BY <1>1, <1>2, <1>3, <1>4, <1>5, <1>6
  DEF Step, SetNonce, GetNonce, Verify, WalletExists, LinkWallet, DeleteWallet, SetPrimary,
      UnsetPrimary, GetWallet

\* What Step and Fails do to nonces, but for a new one.
LEMMA NonceKept ==
  ASSUME TypeInv, NonceInv, Older, signed' = signed, begun' = begun,
         \A a \in Addresses : nonces'[a] \in {nonces[a], None}
  PROVE  NonceInv'
<1>1. \A n : ToBeSet(n)' => ToBeSet(n)
  BY DEF ToBeSet, Older
<1>2. \A h \in Handlers : Busy(h)' => requests'[h].n <= begun'
  BY DEF NonceInv, Older
<1>3. \A g, h \in Handlers : Busy(g)' /\ Busy(h)' /\ g # h => requests'[g].n # requests'[h].n
  BY DEF NonceInv, Older
<1>4. \A a \in Addresses : nonces'[a] # None =>
        nonces'[a] <= begun' /\ ~ToBeSet(nonces[a]) /\ nonces'[a] = nonces[a]
  BY DEF NonceInv
<1>5. \A a \in Addresses : nonces'[a] # None => nonces'[a] <= begun' /\ ~ToBeSet(nonces[a])'
  BY <1>1, <1>4 DEF ToBeSet
<1>6. \A a, b \in Addresses : nonces'[a] # None /\ nonces'[a] = nonces'[b] => a = b
  BY <1>4 DEF NonceInv
<1>7. \A s \in signed' : s[1] <= begun' /\ ~ToBeSet(s[1])'
  BY <1>1 DEF NonceInv
<1>8. \A s \in signed', a \in Addresses : nonces'[a] = s[1] => a = s[2]
  BY DEF NonceInv, TypeInv, TypeOK
<1>9. \A h \in Handlers : Busy(h)' /\ requests'[h].op \in Signing =>
        <<requests'[h].nonce, requests'[h].address>> \in signed'
  BY DEF NonceInv, Older
<1> QED
  BY <1>2, <1>3, <1>5, <1>6, <1>7, <1>8, <1>9 DEF NonceInv

\* How requests begin: with a signed nonce or none, and a link below the limit.
LEMMA Begins ==
  ASSUME TypeInv, NEW h \in Handlers, BeginSomething(h)
  PROVE  \E op \in Operations, q \in Queries \ ({"delNonce"} \cup Verified),
            u \in Users \cup {None}, a \in Addresses, n \in Number \cup {None} :
              /\ Begin(h, op, q, u, a, n)
              /\ op \in Signing => <<n, a>> \in signed
              /\ op = "link" => u \in Users /\ Cardinality(Of(u)) < MaxWallets
<1> DEFINE How(op, q, u, a, n) ==
             /\ Begin(h, op, q, u, a, n)
             /\ op \in Signing => <<n, a>> \in signed
             /\ op = "link" => u \in Users /\ Cardinality(Of(u)) < MaxWallets
<1> HIDE DEF How
<1>0. /\ \A a \in Addresses : Linked(a) => wallets[a].user \in Users
      /\ \A s \in signed : s[1] \in Number /\ s[2] \in Addresses /\ <<s[1], s[2]>> \in signed
  BY DEF TypeInv, TypeOK, Linked, Wallet
<1>q. \A q \in {"setNonce", "isPrimary", "exists", "delete", "getNonce"} :
        q \in Queries \ ({"delNonce"} \cup Verified)
  BY DEF Queries, Verified
<1>o. \A op \in {"challenge", "link", "unlink", "setPrimary", "unsetPrimary", "login"} : op \in Operations
  BY DEF Operations
<1>s. SUFFICES \E op \in Operations, q \in Queries \ ({"delNonce"} \cup Verified),
                 u \in Users \cup {None}, a \in Addresses, n \in Number \cup {None} : How(op, q, u, a, n)
  BY DEF How
<1>1. CASE BeginLinkChallenge(h)
  <2>1. PICK a \in Addresses : How("challenge", "setNonce", None, a, None)
    BY <1>1 DEF BeginLinkChallenge, How, Signing
  <2> QED
    BY <2>1, <1>q, <1>o
<1>2. CASE BeginLoginChallenge(h)
  <2>1. PICK a \in Addresses : How("challenge", "setNonce", None, a, None)
    BY <1>2 DEF BeginLoginChallenge, How, Signing
  <2> QED
    BY <2>1, <1>q, <1>o
<1>3. CASE BeginPrimaryChallenge(h)
  <2>1. PICK u \in Users, a \in Addresses, q \in {"setNonce", "isPrimary"} :
          How("challenge", q, u, a, None)
    BY <1>3 DEF BeginPrimaryChallenge, How, Signing
  <2> QED
    BY <2>1, <1>q, <1>o
<1>4. CASE BeginLink(h)
  <2>1. PICK u \in Users, s \in signed :
          Cardinality(Of(u)) < MaxWallets /\ Begin(h, "link", "exists", u, s[2], s[1])
    BY <1>4 DEF BeginLink, LinkIf
  <2>2. How("link", "exists", u, s[2], s[1])
    BY <1>0, <2>1 DEF How
  <2> QED
    BY <1>0, <2>2, <1>q, <1>o
<1>5. CASE BeginUnlink(h)
  <2>1. PICK a \in Addresses : wallets[a].user \in Users /\ How("unlink", "delete", wallets[a].user, a, None)
    BY <1>0, <1>5 DEF BeginUnlink, How, Signing
  <2> QED
    BY <2>1, <1>q, <1>o
<1>6. CASE BeginSetPrimary(h)
  <2>1. PICK u \in Users, s \in signed, q \in {"getNonce", "isPrimary"} :
          Begin(h, "setPrimary", q, u, s[2], s[1])
    BY <1>6 DEF BeginSetPrimary
  <2>2. How("setPrimary", q, u, s[2], s[1])
    BY <1>0, <2>1 DEF How
  <2> QED
    BY <1>0, <2>2, <1>q, <1>o
<1>7. CASE BeginUnsetPrimary(h)
  <2>1. PICK u \in Users, a \in Addresses : How("unsetPrimary", "isPrimary", u, a, None)
    BY <1>7 DEF BeginUnsetPrimary, How, Signing
  <2> QED
    BY <2>1, <1>q, <1>o
<1>8. CASE BeginLogin(h)
  <2>1. PICK s \in signed : Begin(h, "login", "getNonce", None, s[2], s[1])
    BY <1>8 DEF BeginLogin
  <2>2. How("login", "getNonce", None, s[2], s[1])
    BY <1>0, <2>1 DEF How
  <2> QED
    BY <1>0, <2>2, <1>q, <1>o
<1> QED
  BY <1>1, <1>2, <1>3, <1>4, <1>5, <1>6, <1>7, <1>8 DEF BeginSomething

\* The request that begins, and the others.
LEMMA BeginMoves ==
  ASSUME TypeInv, NEW h \in Handlers, NEW op \in Operations, NEW q \in Queries,
         NEW u \in Users \cup {None}, NEW a \in Addresses, NEW n \in Number \cup {None},
         Begin(h, op, q, u, a, n)
  PROVE  /\ ~Busy(h) /\ Busy(h)'
         /\ requests'[h] = [op |-> op, at |-> q, n |-> begun + 1, user |-> u, address |-> a, nonce |-> n]
         /\ \A g \in Handlers \ {h} : requests'[g] = requests[g]
<1> DEFINE r == [op |-> op, at |-> q, n |-> begun + 1, user |-> u, address |-> a, nonce |-> n]
<1>1. begun + 1 \in Number
  BY DEF TypeInv, TypeOK, Begin, Number
<1>2. r \in Request
  BY <1>1 DEF Request
<1>3. r # None
  BY <1>2
<1>4. requests' = [requests EXCEPT ![h] = r]
  BY DEF Begin, Becomes
<1> QED
  BY <1>3, <1>4 DEF TypeInv, TypeOK, Begin, Busy

\* A request that begins keeps each nonce to its address.
LEMMA NonceBegin ==
  ASSUME TypeInv, NonceInv, NEW h \in Handlers, BeginSomething(h)
  PROVE  NonceInv'
<1>1. PICK op \in Operations, q \in Queries, u \in Users \cup {None}, a \in Addresses,
           n \in Number \cup {None} :
             /\ Begin(h, op, q, u, a, n)
             /\ op \in Signing => <<n, a>> \in signed
  BY Begins
<1>2. /\ requests'[h] = [op |-> op, at |-> q, n |-> begun + 1, user |-> u, address |-> a, nonce |-> n]
      /\ \A g \in Handlers \ {h} : requests'[g] = requests[g]
      /\ nonces' = nonces /\ signed' = signed /\ begun' = begun + 1
  BY <1>1, BeginMoves DEF Begin
<1>3. begun \in Nat /\ nonces \in [Addresses -> Number \cup {None}] /\ signed \subseteq Number \X Addresses
      /\ Number \subseteq Nat /\ \A g \in Handlers : Busy(g) => requests[g].n \in Nat
  BY DEF TypeInv, TypeOK, Number, Busy, Request
<1>4. \A m : ToBeSet(m)' => ToBeSet(m) \/ m = begun + 1
  BY <1>2 DEF ToBeSet, Busy
<1>5. \A g \in Handlers : Busy(g)' => requests'[g].n <= begun'
  BY <1>2, <1>3 DEF NonceInv, Busy
<1>6. \A g, k \in Handlers : Busy(g)' /\ Busy(k)' /\ g # k => requests'[g].n # requests'[k].n
  BY <1>2, <1>3 DEF NonceInv, Busy
<1>7. \A b \in Addresses : nonces[b] # None => nonces[b] <= begun /\ nonces[b] \in Nat /\ ~ToBeSet(nonces[b])
  <2>1. \A b \in Addresses : nonces[b] # None => nonces[b] <= begun /\ ~ToBeSet(nonces[b])
    BY DEF NonceInv
  <2>2. \A b \in Addresses : nonces[b] # None => nonces[b] \in Nat
    BY <1>3
  <2> QED
    BY <2>1, <2>2
<1>8. \A b \in Addresses : nonces'[b] # None => nonces'[b] <= begun' /\ ~ToBeSet(nonces[b])'
  <2> SUFFICES ASSUME NEW b \in Addresses, nonces[b] # None
               PROVE  nonces[b] <= begun + 1 /\ ~ToBeSet(nonces[b])'
    BY <1>2
  <2>1. nonces[b] <= begun + 1 /\ nonces[b] # begun + 1
    BY <1>3, <1>7
  <2>2. nonces'[b] = nonces[b]
    BY <1>2
  <2> QED
    BY <1>4, <1>7, <2>1, <2>2
<1>9. \A s \in signed : s[1] <= begun /\ s[1] \in Nat /\ ~ToBeSet(s[1])
  BY <1>3 DEF NonceInv
<1>10. \A s \in signed' : s[1] <= begun' /\ ~ToBeSet(s[1])'
  <2> SUFFICES ASSUME NEW s \in signed
               PROVE  s[1] <= begun + 1 /\ ~ToBeSet(s[1])'
    BY <1>2
  <2>1. s[1] <= begun + 1 /\ s[1] # begun + 1
    BY <1>3, <1>9
  <2> QED
    BY <1>4, <1>9, <2>1
<1>11. \A g \in Handlers : Busy(g)' /\ requests'[g].op \in Signing =>
         <<requests'[g].nonce, requests'[g].address>> \in signed'
  BY <1>1, <1>2 DEF NonceInv, Busy
<1> QED
  BY <1>2, <1>5, <1>6, <1>8, <1>10, <1>11 DEF NonceInv

\* The nonce that is put into Redis is new, and no other challenge puts it there.
LEMMA NonceSet ==
  ASSUME TypeInv, NonceInv, NEW h \in Handlers, SetNonce(h)
  PROVE  NonceInv'
<1> DEFINE r == requests[h]
<1>0. /\ nonces \in [Addresses -> Number \cup {None}] /\ signed \subseteq Number \X Addresses
      /\ Number \subseteq Nat
  BY DEF TypeInv, TypeOK, Number
<1>1. Busy(h) /\ r \in Request /\ r.op = "challenge" /\ ToBeSet(r.n)
  <2>1. Busy(h) /\ r \in Request /\ r.op = "challenge"
    BY Holds DEF SetNonce, Queries, Typed
  <2> QED
    BY <2>1 DEF ToBeSet
<1>2. r.n \in Number /\ r.address \in Addresses /\ r.n <= begun
  BY <1>1 DEF Request, NonceInv
<1>3. /\ signed' = signed /\ begun' = begun /\ Return(h)
      /\ \A a \in Addresses : nonces'[a] = IF a = r.address THEN r.n ELSE nonces[a]
  BY <1>0 DEF SetNonce
<1>4. Older /\ ~Busy(h)' /\ \A g \in Handlers \ {h} : requests'[g] = requests[g]
  BY <1>1, <1>3, Moves DEF Queries
<1>5. \A m : ToBeSet(m)' => ToBeSet(m) /\ m # r.n
  BY <1>1, <1>4 DEF ToBeSet, NonceInv, Busy
<1>6. \A a \in Addresses : nonces[a] # r.n
  BY <1>1, <1>2 DEF NonceInv
<1>7. \A s \in signed : s[1] # r.n
  BY <1>1 DEF NonceInv
<1>8. \A g \in Handlers : Busy(g)' => requests'[g].n <= begun'
  BY <1>3, <1>4 DEF NonceInv, Older
<1>9. \A g, k \in Handlers : Busy(g)' /\ Busy(k)' /\ g # k => requests'[g].n # requests'[k].n
  BY <1>4 DEF NonceInv, Older
<1>10. \A a \in Addresses : nonces'[a] # None => nonces'[a] <= begun' /\ ~ToBeSet(nonces[a])'
  <2> SUFFICES ASSUME NEW a \in Addresses, nonces'[a] # None
               PROVE  nonces'[a] <= begun' /\ ~ToBeSet(nonces[a])'
    OBVIOUS
  <2>1. CASE a = r.address
    <3>1. nonces'[a] = r.n
      BY <1>3, <2>1
    <3> QED
      BY <1>2, <1>3, <1>5, <3>1
  <2>2. CASE a # r.address
    <3>1. nonces'[a] = nonces[a]
      BY <1>3, <2>2
    <3>2. nonces[a] <= begun /\ ~ToBeSet(nonces[a])
      BY <3>1 DEF NonceInv
    <3> QED
      BY <1>3, <1>5, <3>1, <3>2
  <2> QED
    BY <2>1, <2>2
<1>11. \A a, b \in Addresses : nonces'[a] # None /\ nonces'[a] = nonces'[b] => a = b
  BY <1>3, <1>6 DEF NonceInv
<1>12. \A s \in signed' : s[1] <= begun' /\ ~ToBeSet(s[1])'
  BY <1>3, <1>5 DEF NonceInv
<1>13. \A s \in signed', a \in Addresses : nonces'[a] = s[1] => a = s[2]
  BY <1>3, <1>7 DEF NonceInv
<1>14. \A s, t \in signed' : s[1] = t[1] => s = t
  BY <1>3 DEF NonceInv
<1>15. \A g \in Handlers : Busy(g)' /\ requests'[g].op \in Signing =>
         <<requests'[g].nonce, requests'[g].address>> \in signed'
  BY <1>3, <1>4 DEF NonceInv, Older
<1> QED
  BY <1>8, <1>9, <1>10, <1>11, <1>12, <1>13, <1>14, <1>15 DEF NonceInv

\* Only the nonce of an address is signed by it.
LEMMA NonceSigned ==
  ASSUME TypeInv, NonceInv, NEW a \in Addresses, Sign(a)
  PROVE  NonceInv'
<1>0. /\ nonces \in [Addresses -> Number \cup {None}] /\ signed \subseteq Number \X Addresses
  BY DEF TypeInv, TypeOK
<1>1. /\ signed' = signed \cup {<<nonces[a], a>>} /\ nonces[a] # None
      /\ nonces' = nonces /\ requests' = requests /\ begun' = begun
  BY DEF Sign
<1>2. \A n : ToBeSet(n)' <=> ToBeSet(n)
  BY <1>1 DEF ToBeSet, Busy
<1>3. nonces[a] <= begun /\ ~ToBeSet(nonces[a])
  BY <1>1 DEF NonceInv
<1>4. \A s \in signed' : s[1] <= begun' /\ ~ToBeSet(s[1])'
  BY <1>1, <1>2, <1>3 DEF NonceInv
<1>5. \A s \in signed', b \in Addresses : nonces'[b] = s[1] => b = s[2]
  BY <1>0, <1>1 DEF NonceInv
<1>6. \A s, t \in signed' : s[1] = t[1] => s = t
  <2>1. \A s \in signed : s = <<s[1], s[2]>>
    BY <1>0
  <2>2. \A s \in signed : s[1] = nonces[a] => s[2] = a
    BY DEF NonceInv
  <2> QED
    BY <1>1, <2>1, <2>2 DEF NonceInv
<1>7. \A b \in Addresses : nonces'[b] # None => nonces'[b] <= begun' /\ ~ToBeSet(nonces[b])'
  <2>1. \A b \in Addresses : nonces[b] # None => nonces[b] <= begun /\ ~ToBeSet(nonces[b])
    BY DEF NonceInv
  <2>2. \A b \in Addresses : ToBeSet(nonces[b])' <=> ToBeSet(nonces[b])
    BY <1>1 DEF ToBeSet, Busy
  <2> QED
    BY <1>1, <2>1, <2>2
<1>8. \A g \in Handlers : Busy(g)' => requests'[g].n <= begun'
  BY <1>1 DEF NonceInv, Busy
<1>9. \A g, k \in Handlers : Busy(g)' /\ Busy(k)' /\ g # k => requests'[g].n # requests'[k].n
  BY <1>1 DEF NonceInv, Busy
<1>10. \A b, c \in Addresses : nonces'[b] # None /\ nonces'[b] = nonces'[c] => b = c
  BY <1>1 DEF NonceInv
<1>11. \A g \in Handlers : Busy(g)' /\ requests'[g].op \in Signing =>
         <<requests'[g].nonce, requests'[g].address>> \in signed'
  BY <1>1 DEF NonceInv, Busy
<1> QED
  BY <1>4, <1>5, <1>6, <1>7, <1>8, <1>9, <1>10, <1>11 DEF NonceInv

\* Every step keeps a nonce to its address.
LEMMA NonceNext ==
  ASSUME TypeInv, NonceInv, [Next]_vars
  PROVE  NonceInv'
<1>1. ASSUME NEW h \in Handlers, BeginSomething(h)
      PROVE  NonceInv'
  BY <1>1, NonceBegin
<1>2. ASSUME NEW h \in Handlers, Step(h)
      PROVE  NonceInv'
  <2>1. CASE SetNonce(h)
    BY <2>1, NonceSet
  <2>2. CASE ~SetNonce(h)
    <3>1. Older
      BY <1>2, StepMoves, Moves
    <3>2. signed' = signed /\ begun' = begun
      BY <1>2, DataTyped
    <3>3. \A a \in Addresses : nonces'[a] \in {nonces[a], None}
      BY <1>2, <2>2
      DEF Step, GetNonce, Verify, DelNonce, WalletExists, LinkWallet, DeleteWallet, AnyPrimary,
          IsPrimary, SetPrimary, UnsetPrimary, GetWallet, TypeInv, TypeOK
    <3> QED
      BY <3>1, <3>2, <3>3, NonceKept
  <2> QED
    BY <2>1, <2>2
<1>3. ASSUME NEW h \in Handlers, Fails(h)
      PROVE  NonceInv'
  <2>1. Older
    BY <1>3, Moves DEF Fails, Queries
  <2> QED
    BY <1>3, <2>1, NonceKept DEF Fails
<1>4. ASSUME NEW a \in Addresses, Sign(a)
      PROVE  NonceInv'
  BY <1>4, NonceSigned
<1>5. CASE UNCHANGED vars
  <2>1. Older
    BY <1>5 DEF vars, Older, Busy
  <2> QED
    BY <1>5, <2>1, NonceKept DEF vars
<1> QED
  BY <1>1, <1>2, <1>3, <1>4, <1>5 DEF Next

\* Past their nonce's verification.
Past == {"delNonce"} \cup Verified

\* A request that has verified its nonce holds one that its address has signed.
LEMMA PastHolds ==
  ASSUME TypeInv, NonceInv, NEW h \in Handlers, Busy(h), requests[h].at \in Past
  PROVE  /\ requests[h].nonce \in Number /\ requests[h].address \in Addresses
         /\ <<requests[h].nonce, requests[h].address>> \in signed
<1>1. requests[h] \in Request /\ requests[h].op \in Signing /\ requests[h].nonce \in Number
  BY DEF TypeInv, TypeOK, Busy, Typed, Past
<1> QED
  BY <1>1 DEF Request, NonceInv

\* No request gets past the verification, and no signed nonce comes back.
LEMMA OnceKept ==
  ASSUME TypeInv, NonceInv, OnceInv,
         \A g \in Handlers : Busy(g)' /\ requests'[g].at \in Past =>
           /\ Busy(g) /\ requests[g].at \in Past
           /\ requests'[g].nonce = requests[g].nonce
           /\ requests'[g].address = requests[g].address
           /\ requests'[g].at \in Verified =>
                requests[g].at \in Verified \/ nonces'[requests[g].address] # requests[g].nonce,
         \A n \in Number, a \in Addresses :
           <<n, a>> \in signed /\ nonces[a] # n => nonces'[a] # n,
         signed \subseteq signed', uses' = uses, shared \subseteq shared'
  PROVE  OnceInv'
<1>1. ASSUME NEW g \in Handlers, Busy(g)', requests'[g].at \in Verified
      PROVE  nonces'[requests'[g].address] # requests'[g].nonce
  <2>1. /\ Busy(g) /\ requests[g].at \in Past
        /\ requests'[g].nonce = requests[g].nonce
        /\ requests'[g].address = requests[g].address
        /\ requests[g].at \in Verified \/ nonces'[requests[g].address] # requests[g].nonce
    BY <1>1 DEF Past
  <2>2. CASE requests[g].at \in Verified
    <3>1. nonces[requests[g].address] # requests[g].nonce
      BY <2>1, <2>2 DEF OnceInv
    <3> QED
      BY <2>1, <3>1, PastHolds
  <2> QED
    BY <2>1, <2>2
<1>2. ASSUME NEW n \in Number, uses'[n] > 0
      PROVE  \E a \in Addresses : <<n, a>> \in signed' /\ nonces'[a] # n
  <2>1. PICK a \in Addresses : <<n, a>> \in signed /\ nonces[a] # n
    BY <1>2 DEF OnceInv
  <2> QED
    BY <2>1
<1>3. \A n \in Number, g \in Handlers : Has(g, n)' => Has(g, n)
  BY DEF Has, Past
<1>4. \A n \in Number \ shared' :
        /\ uses'[n] <= 1
        /\ \A g, h \in Handlers : Has(g, n)' /\ Has(h, n)' => g = h
        /\ \A h \in Handlers : Has(h, n)' => uses'[n] = 0
  BY <1>3 DEF OnceInv
<1> QED
  BY <1>1, <1>2, <1>4 DEF OnceInv

\* Its nonce is the one that waits, so nobody has used it, or has it in hand unshared.
LEMMA OnceVerified ==
  ASSUME TypeInv, NonceInv, OnceInv, NEW h \in Handlers, GetNonce(h), Goto(h, "delNonce")
  PROVE  OnceInv'
<1> DEFINE n == requests[h].nonce
           a == requests[h].address
<1>1. /\ Busy(h) /\ requests[h].at = "getNonce" /\ a \in Addresses /\ n \in Number
      /\ requests[h].op \in Signing
  <2>1. At(h, "getNonce")
    BY DEF GetNonce, Verify
  <2>2. Busy(h) /\ requests[h] \in Request /\ requests[h].at = "getNonce" /\ Typed(requests[h])
    BY <2>1, Holds DEF Queries
  <2> QED
    BY <2>2 DEF Typed, Request
<1>2. /\ Older /\ \A g \in Handlers \ {h} : requests'[g] = requests[g]
      /\ Busy(h)' /\ requests'[h].at = "delNonce" /\ ~Return(h)
  BY <1>1, Moves DEF Queries
<1>3. /\ nonces[a] = n /\ nonces' = nonces /\ signed' = signed /\ uses' = uses
      /\ shared \subseteq shared'
      /\ n \notin shared' => ~ \E g \in Handlers \ {h} : At(g, "delNonce") /\ requests[g].nonce = n
  BY <1>2 DEF GetNonce, Verify
<1>4. <<n, a>> \in signed
  BY <1>1 DEF NonceInv
<1>5. uses[n] = 0
  <2>1. ~(uses[n] > 0)
    BY <1>3, <1>4, <1>1 DEF OnceInv, NonceInv
  <2> QED
    BY <1>1, <2>1 DEF TypeInv, TypeOK
<1>6. ASSUME NEW g \in Handlers \ {h}, Has(g, n), n \notin shared'
      PROVE  FALSE
  <2>1. Busy(g) /\ requests[g].at \in Past /\ requests[g].nonce = n
    BY <1>6 DEF Has, Past
  <2>2. requests[g].at # "delNonce"
    BY <1>3, <1>6, <2>1 DEF At
  <2>3. nonces[requests[g].address] # n
    BY <2>1, <2>2 DEF OnceInv, Past
  <2>4. <<n, requests[g].address>> \in signed
    BY <2>1, PastHolds
  <2>5. requests[g].address = a
    BY <1>1, <1>3, <2>4 DEF NonceInv
  <2> QED
    BY <1>3, <2>3, <2>5
<1>7. \A g \in Handlers \ {h}, m \in Number : Has(g, m)' <=> Has(g, m)
  BY <1>2 DEF Has, Busy
<1>8. \A m \in Number : Has(h, m)' => m = n
  BY <1>1, <1>2 DEF Has, Older
<1>9. \A g \in Handlers : Busy(g)' /\ requests'[g].at \in Verified =>
        nonces'[requests'[g].address] # requests'[g].nonce
  BY <1>2, <1>3 DEF OnceInv, Busy, Verified
<1>10. \A m \in Number \ shared' :
         /\ uses'[m] <= 1
         /\ \A f, g \in Handlers : Has(f, m)' /\ Has(g, m)' => f = g
         /\ \A g \in Handlers : Has(g, m)' => uses'[m] = 0
  <2> TAKE m \in Number \ shared'
  <2>1. CASE m = n
    <3>1. \A g \in Handlers : Has(g, m)' => g = h
      BY <1>6, <1>7, <2>1
    <3> QED
      BY <1>3, <1>5, <2>1, <3>1
  <2>2. CASE m # n
    <3>1. \A g \in Handlers : Has(g, m)' => Has(g, m)
      BY <1>7, <1>8, <2>2
    <3> QED
      BY <1>3, <3>1 DEF OnceInv
  <2> QED
    BY <2>1, <2>2
<1>11. \A m \in Number : uses'[m] > 0 => \E b \in Addresses : <<m, b>> \in signed' /\ nonces'[b] # m
  BY <1>3 DEF OnceInv
<1> QED
  BY <1>9, <1>10, <1>11 DEF OnceInv

\* The request that uses a nonce was the only one to have it, unless it is shared.
LEMMA OnceUsed ==
  ASSUME TypeInv, NonceInv, OnceInv, NEW h \in Handlers, Busy(h), requests[h].at \in Verified,
         Return(h), Used(h), UNCHANGED <<nonces, signed, shared>>
  PROVE  OnceInv'
<1> DEFINE n == requests[h].nonce
           a == requests[h].address
<1>1. n \in Number /\ a \in Addresses /\ <<n, a>> \in signed
  BY PastHolds DEF Past
<1>2. /\ Older /\ \A g \in Handlers \ {h} : requests'[g] = requests[g]
      /\ ~Busy(h)'
  BY Moves DEF Queries
<1>3. nonces[a] # n /\ Has(h, n)
  BY DEF OnceInv, Has
<1>4. \A m \in Number : uses'[m] = IF m = n THEN uses[n] + 1 ELSE uses[m]
  BY DEF Used, TypeInv, TypeOK
<1>5. \A g \in Handlers, m \in Number : Has(g, m)' => g # h /\ Has(g, m)
  BY <1>2 DEF Has, Busy
<1>6. \A g \in Handlers : Busy(g)' /\ requests'[g].at \in Verified =>
        nonces'[requests'[g].address] # requests'[g].nonce
  BY <1>2 DEF OnceInv, Busy
<1>7. \A m \in Number : uses'[m] > 0 => \E b \in Addresses : <<m, b>> \in signed' /\ nonces'[b] # m
  BY <1>1, <1>3, <1>4 DEF OnceInv
<1>8. \A m \in Number \ shared' :
        /\ uses'[m] <= 1
        /\ \A f, g \in Handlers : Has(f, m)' /\ Has(g, m)' => f = g
        /\ \A g \in Handlers : Has(g, m)' => uses'[m] = 0
  <2> TAKE m \in Number \ shared'
  <2>1. CASE m = n
    <3>1. uses'[m] = 1
      BY <1>3, <1>4, <2>1 DEF OnceInv
    <3>2. \A g \in Handlers : ~Has(g, m)'
      BY <1>3, <1>5, <2>1 DEF OnceInv
    <3> QED
      BY <3>1, <3>2
  <2>2. CASE m # n
    BY <1>4, <1>5, <2>2 DEF OnceInv
  <2> QED
    BY <2>1, <2>2
<1> QED
  BY <1>6, <1>7, <1>8 DEF OnceInv

\* A nonce that has been signed does not come back.
LEMMA NotAgain ==
  ASSUME TypeInv, NonceInv, NEW h \in Handlers, Step(h), NEW n \in Number, NEW a \in Addresses,
         <<n, a>> \in signed, nonces[a] # n
  PROVE  nonces'[a] # n
<1>1. CASE SetNonce(h)
  <2>1. Busy(h) /\ requests[h].op = "challenge"
    BY <1>1, Holds DEF SetNonce, Queries, Typed
  <2>2. requests[h].n # n
    BY <2>1 DEF NonceInv, ToBeSet
  <2> QED
    BY <1>1, <2>2 DEF SetNonce, TypeInv, TypeOK
<1>2. CASE ~SetNonce(h)
  <2>1. nonces'[a] \in {nonces[a], None}
    BY <1>2
    DEF Step, GetNonce, Verify, DelNonce, WalletExists, LinkWallet, DeleteWallet, AnyPrimary,
        IsPrimary, SetPrimary, UnsetPrimary, GetWallet, TypeInv, TypeOK
  <2> QED
    BY <2>1
<1> QED
  BY <1>1, <1>2

\* A step that verifies no nonce and uses none.
LEMMA OnceStep ==
  ASSUME TypeInv, NonceInv, OnceInv, NEW h \in Handlers, Step(h), uses' = uses,
         ~(GetNonce(h) /\ Goto(h, "delNonce"))
  PROVE  OnceInv'
<1>1. PICK q \in Queries :
        /\ Return(h) \/ Goto(h, q)
        /\ Goto(h, q) /\ q = "delNonce" => GetNonce(h)
        /\ Goto(h, q) /\ q \in Verified => DelNonce(h) \/ requests[h].at \in Verified
  BY StepMoves
<1>2. Busy(h)
  BY StepMoves
<1>3. /\ Older
      /\ \A g \in Handlers \ {h} : requests'[g] = requests[g]
      /\ Return(h) => ~Busy(h)'
      /\ Goto(h, q) => requests'[h].at = q
  BY <1>1, <1>2, Moves
<1>4. ASSUME DelNonce(h)
      PROVE  requests[h].at \in Past /\ nonces'[requests[h].address] # requests[h].nonce
  <2>1. requests[h].at = "delNonce"
    BY <1>4 DEF DelNonce, At
  <2>2. requests[h].nonce \in Number /\ requests[h].address \in Addresses
    BY <1>2, <2>1, PastHolds DEF Past
  <2> QED
    BY <1>4, <2>1, <2>2 DEF DelNonce, Past, TypeInv, TypeOK
<1>5. ASSUME NEW g \in Handlers, Busy(g)', requests'[g].at \in Past
      PROVE  /\ Busy(g) /\ requests[g].at \in Past
             /\ requests'[g].nonce = requests[g].nonce
             /\ requests'[g].address = requests[g].address
             /\ requests'[g].at \in Verified =>
                  requests[g].at \in Verified \/ nonces'[requests[g].address] # requests[g].nonce
  <2>1. CASE g # h
    BY <1>3, <1>5, <2>1 DEF Older
  <2>2. CASE g = h
    <3>1. Goto(h, q) /\ q \in Past /\ requests'[h].at = q
      BY <1>1, <1>3, <1>5, <2>2
    <3>2. q \in Verified
      BY <1>1, <3>1 DEF Past
    <3>3. DelNonce(h) \/ requests[h].at \in Verified
      BY <1>1, <3>1, <3>2
    <3> QED
      BY <1>2, <1>3, <1>4, <1>5, <2>2, <3>3 DEF Older, Past
  <2> QED
    BY <2>1, <2>2
<1>6. signed' = signed
  BY DataTyped
<1>7. shared \subseteq shared'
  BY DEF Step, SetNonce, GetNonce, Verify, DelNonce, AfterDelNonce, WalletExists, LinkWallet,
         DeleteWallet, AnyPrimary, IsPrimary, SetPrimary, UnsetPrimary, GetWallet, history
<1>8. \A n \in Number, a \in Addresses : <<n, a>> \in signed /\ nonces[a] # n => nonces'[a] # n
  BY NotAgain
<1> QED
  BY <1>5, <1>6, <1>7, <1>8, OnceKept

\* Every step keeps an unshared nonce to one request past its verification.
LEMMA OnceNext ==
  ASSUME TypeInv, NonceInv, OnceInv, [Next]_vars
  PROVE  OnceInv'
<1>1. ASSUME NEW h \in Handlers, BeginSomething(h)
      PROVE  OnceInv'
  <2>1. PICK op \in Operations, q \in Queries \ Past, u \in Users \cup {None}, a \in Addresses,
             n \in Number \cup {None} : Begin(h, op, q, u, a, n)
    BY <1>1, Begins DEF Past
  <2>2. /\ requests'[h] = [op |-> op, at |-> q, n |-> begun + 1, user |-> u, address |-> a, nonce |-> n]
        /\ \A g \in Handlers \ {h} : requests'[g] = requests[g]
    BY <2>1, BeginMoves
  <2>3. \A g \in Handlers : Busy(g)' /\ requests'[g].at \in Past => g # h
    BY <2>1, <2>2
  <2> QED
    BY <2>1, <2>2, <2>3, OnceKept DEF Begin, history, Busy
<1>2. ASSUME NEW h \in Handlers, Step(h)
      PROVE  OnceInv'
  <2>1. CASE GetNonce(h) /\ Goto(h, "delNonce")
    BY <2>1, OnceVerified
  <2>2. CASE Return(h) /\ Used(h) /\ (LinkWallet(h) \/ SetPrimary(h) \/ GetWallet(h))
    <3>1. Busy(h) /\ requests[h].at \in Verified
      BY <2>2 DEF LinkWallet, SetPrimary, GetWallet, At, Verified
    <3>2. UNCHANGED <<nonces, signed, shared>>
      BY <2>2 DEF LinkWallet, SetPrimary, GetWallet
    <3> QED
      BY <2>2, <3>1, <3>2, OnceUsed
  <2>3. CASE uses' = uses /\ ~(GetNonce(h) /\ Goto(h, "delNonce"))
    BY <1>2, <2>3, OnceStep
  <2> QED
    BY <1>2, <2>1, <2>2, <2>3
    DEF Step, SetNonce, GetNonce, Verify, DelNonce, AfterDelNonce, WalletExists, LinkWallet,
        DeleteWallet, AnyPrimary, IsPrimary, SetPrimary, UnsetPrimary, GetWallet, history
<1>3. ASSUME NEW h \in Handlers, Fails(h)
      PROVE  OnceInv'
  <2>1. Older /\ ~Busy(h)' /\ \A g \in Handlers \ {h} : requests'[g] = requests[g]
    BY <1>3, Moves DEF Fails, Queries
  <2> QED
    BY <1>3, <2>1, OnceKept DEF Fails, history, Older
<1>4. ASSUME NEW a \in Addresses, Sign(a)
      PROVE  OnceInv'
  BY <1>4, OnceKept DEF Sign, history, Busy
<1>5. CASE UNCHANGED vars
  BY <1>5, OnceKept DEF vars, Busy
<1> QED
  BY <1>1, <1>2, <1>3, <1>4, <1>5 DEF Next

\* A signature serves once, whatever it was asked for, unless two requests had verified
\* its nonce at once.
THEOREM OnceCorrect == Spec => []OneUsePerNonce
<1>1. Init => TypeInv
  BY TypeInit
<1>2. Init => NonceInv
  BY DEF Init, NonceInv, Busy
<1>3. Init => OnceInv
  BY DEF Init, OnceInv, Busy, Has
<1>4. TypeInv /\ NonceInv /\ OnceInv /\ [Next]_vars => (TypeInv /\ NonceInv /\ OnceInv)'
  BY TypeNext, NonceNext, OnceNext
<1>5. TypeInv /\ OnceInv => OneUsePerNonce
  BY DEF TypeInv, TypeOK, OnceInv, OneUsePerNonce
<1> QED
  BY <1>1, <1>2, <1>3, <1>4, <1>5, PTL DEF Spec

-----------------------------------------------------------------------------
(* The limit *)

\* Requests that may still link a wallet for u.
Linking(u) == {h \in Handlers : Busy(h) /\ requests[h].op = "link" /\ requests[h].user = u}

LimitInv ==
  \A u \in Users : Cardinality(Of(u)) + Cardinality(Linking(u)) < MaxWallets + Cardinality(Handlers)

\* The wallets of a user, and the requests about to add one, are finitely many.
LEMMA LimitFinite ==
  ASSUME NEW u
  PROVE  /\ IsFiniteSet(Of(u)) /\ Cardinality(Of(u)) \in Nat
         /\ IsFiniteSet(Linking(u)) /\ Cardinality(Linking(u)) \in Nat
         /\ Cardinality(Linking(u)) <= Cardinality(Handlers)
         /\ Cardinality(Handlers) \in Nat /\ Cardinality(Handlers) > 0
<1>1. Of(u) \in SUBSET Addresses /\ Linking(u) \in SUBSET Handlers
  BY DEF Of, Linking
<1>2. /\ IsFiniteSet(Of(u)) /\ IsFiniteSet(Linking(u))
      /\ Cardinality(Linking(u)) <= Cardinality(Handlers)
  BY <1>1, FS_Subset
<1>3. Cardinality(Of(u)) \in Nat /\ Cardinality(Linking(u)) \in Nat /\ Cardinality(Handlers) \in Nat
  BY <1>2, FS_CardinalityType
<1>4. Cardinality(Handlers) # 0
  BY FS_EmptySet
<1> QED
  BY <1>2, <1>3, <1>4

\* A user's wallets, and the requests that may add one, become no more.
LEMMA LimitKept ==
  ASSUME LimitInv,
         \A u \in Users : Of(u)' \subseteq Of(u) /\ Linking(u)' \subseteq Linking(u)
  PROVE  LimitInv'
<1> SUFFICES ASSUME NEW u \in Users
             PROVE  Cardinality(Of(u)') + Cardinality(Linking(u)') < MaxWallets + Cardinality(Handlers)
  BY DEF LimitInv
<1>1. /\ Cardinality(Of(u)') <= Cardinality(Of(u)) /\ IsFiniteSet(Of(u)')
      /\ Cardinality(Linking(u)') <= Cardinality(Linking(u)) /\ IsFiniteSet(Linking(u)')
  BY LimitFinite, FS_Subset
<1>2. Cardinality(Of(u)') \in Nat /\ Cardinality(Linking(u)') \in Nat
  BY <1>1, FS_CardinalityType
<1> QED
  BY <1>1, <1>2, LimitFinite DEF LimitInv

\* A request that begins has not counted yet.
LEMMA LimitBegin ==
  ASSUME TypeInv, LimitInv, NEW h \in Handlers, BeginSomething(h)
  PROVE  LimitInv'
<1>1. PICK op \in Operations, q \in Queries, u \in Users \cup {None}, a \in Addresses,
           n \in Number \cup {None} :
             /\ Begin(h, op, q, u, a, n)
             /\ op = "link" => u \in Users /\ Cardinality(Of(u)) < MaxWallets
  BY Begins
<1>2. /\ requests'[h] = [op |-> op, at |-> q, n |-> begun + 1, user |-> u, address |-> a, nonce |-> n]
      /\ \A g \in Handlers \ {h} : requests'[g] = requests[g]
      /\ wallets' = wallets
  BY <1>1, BeginMoves DEF Begin
<1>3. \A v \in Users : Of(v)' = Of(v)
  BY <1>2 DEF Of, Linked
<1>4. \A v \in Users : (op = "link" /\ v = u) \/ Linking(v)' \subseteq Linking(v)
  BY <1>2 DEF Linking, Busy
<1> SUFFICES ASSUME NEW v \in Users
             PROVE  Cardinality(Of(v)') + Cardinality(Linking(v)') < MaxWallets + Cardinality(Handlers)
  BY DEF LimitInv
<1>5. CASE op = "link" /\ v = u
  <2>1. Linking(v)' \in SUBSET Handlers
    BY DEF Linking
  <2>2. Cardinality(Linking(v)') <= Cardinality(Handlers) /\ Cardinality(Linking(v)') \in Nat
    BY <2>1, FS_Subset, FS_CardinalityType
  <2> QED
    BY <1>1, <1>3, <1>5, <2>2, LimitFinite
<1>6. CASE Linking(v)' \subseteq Linking(v)
  <2>1. Cardinality(Linking(v)') <= Cardinality(Linking(v)) /\ Cardinality(Linking(v)') \in Nat
    BY <1>6, LimitFinite, FS_Subset, FS_CardinalityType
  <2> QED
    BY <1>3, <2>1, LimitFinite DEF LimitInv
<1> QED
  BY <1>4, <1>5, <1>6

\* The wallet that is linked takes the place of its request.
LEMMA LimitLink ==
  ASSUME TypeInv, LimitInv, NEW h \in Handlers, LinkWallet(h)
  PROVE  LimitInv'
<1> DEFINE r == requests[h]
<1>1. At(h, "create") /\ Busy(h) /\ r \in Request /\ r.op = "link" /\ r.user \in Users
  <2>1. At(h, "create")
    BY DEF LinkWallet
  <2> QED
    BY <2>1, Holds DEF Queries, Typed
<1>2. Older /\ ~Busy(h)' /\ \A g \in Handlers \ {h} : requests'[g] = requests[g]
  BY <1>1, Moves DEF LinkWallet, Queries
<1>3. \A v \in Users : Linking(v)' = Linking(v) \ {h}
  BY <1>2 DEF Linking, Busy
<1>4. h \in Linking(r.user)
  BY <1>1 DEF Linking
<1>5. wallets \in [Addresses -> Wallet \cup {None}] /\ r.address \in Addresses
  BY <1>1 DEF TypeInv, TypeOK, Request
<1>6. \A v \in Users : Of(v)' = Of(v) \/ (v = r.user /\ Of(v)' = Of(v) \cup {r.address})
  <2>1. CASE wallets' = wallets
    BY <2>1 DEF Of, Linked
  <2>2. CASE /\ ~Linked(r.address)
             /\ wallets' = [wallets EXCEPT ![r.address] = [user |-> r.user, primary |-> FALSE]]
    <3>1. [user |-> r.user, primary |-> FALSE] \in Wallet
      BY <1>1 DEF Wallet
    <3>2. /\ wallets'[r.address] # None /\ wallets'[r.address].user = r.user
          /\ \A b \in Addresses \ {r.address} : wallets'[b] = wallets[b]
      BY <1>5, <2>2, <3>1 DEF Linked
    <3> QED
      BY <1>5, <2>2, <3>2 DEF Of, Linked
  <2> QED
    BY <2>1, <2>2 DEF LinkWallet
<1> SUFFICES ASSUME NEW v \in Users
             PROVE  Cardinality(Of(v)') + Cardinality(Linking(v)') < MaxWallets + Cardinality(Handlers)
  BY DEF LimitInv
<1>7. CASE v = r.user
  <2>1. Cardinality(Linking(v)') = Cardinality(Linking(v)) - 1
    BY <1>3, <1>4, <1>7, LimitFinite, FS_RemoveElement
  <2>2. Cardinality(Of(v)') <= Cardinality(Of(v)) + 1 /\ Cardinality(Of(v)') \in Nat
    <3>1. CASE Of(v)' = Of(v)
      BY <3>1, LimitFinite
    <3>2. CASE Of(v)' = Of(v) \cup {r.address}
      <4>1. IsFiniteSet(Of(v)) /\ Cardinality(Of(v)) \in Nat
        BY LimitFinite
      <4>2. Cardinality(Of(v) \cup {r.address}) \in {Cardinality(Of(v)), Cardinality(Of(v)) + 1}
        BY <4>1, FS_AddElement
      <4> QED
        BY <3>2, <4>1, <4>2
    <3> QED
      BY <1>6, <3>1, <3>2
  <2> QED
    BY <2>1, <2>2, LimitFinite DEF LimitInv
<1>8. CASE v # r.user
  <2>1. Of(v)' = Of(v) /\ Linking(v)' \subseteq Linking(v)
    BY <1>3, <1>6, <1>8
  <2>2. Cardinality(Linking(v)') <= Cardinality(Linking(v)) /\ Cardinality(Linking(v)') \in Nat
    BY <2>1, LimitFinite, FS_Subset, FS_CardinalityType
  <2> QED
    BY <2>1, <2>2, LimitFinite DEF LimitInv
<1> QED
  BY <1>7, <1>8

\* Every step keeps wallets and links under way below the limit and the handlers.
LEMMA LimitNext ==
  ASSUME TypeInv, LimitInv, [Next]_vars
  PROVE  LimitInv'
<1>0. wallets \in [Addresses -> Wallet \cup {None}]
  BY DEF TypeInv, TypeOK
<1>1. ASSUME NEW h \in Handlers, BeginSomething(h)
      PROVE  LimitInv'
  BY <1>1, LimitBegin
<1>2. ASSUME NEW h \in Handlers, Step(h)
      PROVE  LimitInv'
  <2> DEFINE a == requests[h].address
  <2>1. CASE LinkWallet(h)
    BY <2>1, LimitLink
  <2>2. CASE ~LinkWallet(h)
    <3>1. Older
      BY <1>2, StepMoves, Moves
    <3>2. \A u \in Users : Linking(u)' \subseteq Linking(u)
      BY <3>1 DEF Older, Linking
    <3>3. CASE DeleteWallet(h)
      <4>1. \A b \in Addresses : wallets'[b] = wallets[b] \/ wallets'[b] = None
        BY <1>0, <3>3 DEF DeleteWallet
      <4>2. \A u \in Users : Of(u)' \subseteq Of(u)
        BY <4>1 DEF Of, Linked
      <4> QED
        BY <3>2, <4>2, LimitKept
    <3>4. CASE SetPrimary(h) \/ UnsetPrimary(h)
      <4>1. \A b \in Addresses :
              wallets'[b] = wallets[b] \/ (Linked(b) /\ wallets'[b].user = wallets[b].user)
        BY <1>0, <3>4 DEF SetPrimary, UnsetPrimary, Linked, Wallet, Of
      <4>2. \A u \in Users : Of(u)' \subseteq Of(u)
        BY <4>1 DEF Of, Linked
      <4> QED
        BY <3>2, <4>2, LimitKept
    <3>5. CASE wallets' = wallets
      <4>1. \A u \in Users : Of(u)' \subseteq Of(u)
        BY <3>5 DEF Of, Linked
      <4> QED
        BY <3>2, <4>1, LimitKept
    <3> QED
      BY <1>2, <2>2, <3>3, <3>4, <3>5
      DEF Step, SetNonce, GetNonce, Verify, DelNonce, AfterDelNonce, WalletExists, AnyPrimary,
          IsPrimary, GetWallet
  <2> QED
    BY <2>1, <2>2
<1>3. ASSUME NEW h \in Handlers, Fails(h)
      PROVE  LimitInv'
  <2>1. Older /\ wallets' = wallets
    BY <1>3, Moves DEF Fails, Queries
  <2>2. \A u \in Users : Of(u)' \subseteq Of(u) /\ Linking(u)' \subseteq Linking(u)
    BY <2>1 DEF Older, Of, Linked, Linking
  <2> QED
    BY <2>2, LimitKept
<1>4. CASE (\E a \in Addresses : Sign(a)) \/ UNCHANGED vars
  <2>1. \A u \in Users : Of(u)' \subseteq Of(u) /\ Linking(u)' \subseteq Linking(u)
    BY <1>4 DEF Sign, vars, Of, Linked, Linking, Busy
  <2> QED
    BY <2>1, LimitKept
<1> QED
  BY <1>1, <1>2, <1>3, <1>4 DEF Next

\* At first there is no wallet.
LEMMA LimitInit ==
  ASSUME Init
  PROVE  LimitInv
<1> SUFFICES ASSUME NEW v \in Users
             PROVE  Cardinality(Of(v)) + Cardinality(Linking(v)) < MaxWallets + Cardinality(Handlers)
  BY DEF LimitInv
<1>1. Linking(v) = {}
  BY DEF Init, Linking, Busy
<1>2. PICK u \in Users, S \in SUBSET Addresses :
        /\ Cardinality(S) <= MaxWallets
        /\ wallets = [a \in Addresses |-> IF a \in S THEN [user |-> u, primary |-> FALSE] ELSE None]
  BY DEF Init
<1>3. Of(v) \subseteq S
  BY <1>2 DEF Of, Linked
<1>4. IsFiniteSet(S) /\ Cardinality(S) \in Nat
  BY FS_Subset, FS_CardinalityType
<1>5. Cardinality(Of(v)) <= Cardinality(S)
  BY <1>3, <1>4, FS_Subset
<1>6. Cardinality(Linking(v)) = 0
  BY <1>1, FS_EmptySet
<1> QED
  BY <1>2, <1>4, <1>5, <1>6, LimitFinite

\* A user has fewer wallets than the limit and the requests at once, together.
THEOREM LimitCorrect == Spec => []WalletLimit
<1>1. Init => TypeInv /\ LimitInv
  BY TypeInit, LimitInit
<1>2. TypeInv /\ LimitInv /\ [Next]_vars => (TypeInv /\ LimitInv)'
  BY TypeNext, LimitNext
<1>3. LimitInv => WalletLimit
  <2> SUFFICES ASSUME LimitInv, NEW u \in Users
               PROVE  Cardinality(Of(u)) < MaxWallets + Cardinality(Handlers)
    BY DEF WalletLimit
  <2> QED
    BY LimitFinite DEF LimitInv
<1> QED
  BY <1>1, <1>2, <1>3, PTL DEF Spec

=============================================================================
