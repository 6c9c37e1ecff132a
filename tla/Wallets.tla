------------------------------ MODULE Wallets ------------------------------
(***************************************************************************)
(* The wallets linked to accounts (apps/wallet): linking, unlinking, the   *)
(* primary wallet, and login with it.  Who proves an address signs a       *)
(* message whose nonce waits in Redis under the address, whatever it was   *)
(* made for; all that a request finds is forgotten by its next query.      *)
(*                                                                         *)
(* One action is one query to MongoDB or Redis with what follows up to the *)
(* next await; a request begins at its first query, and one refused there  *)
(* is left out.                                                            *)
(***************************************************************************)
EXTENDS Integers, FiniteSets

CONSTANTS
  Handlers,     \* requests that can be in progress at once
  Users,
  Addresses,
  None,         \* no request, no wallet, no nonce
  MaxWallets,   \* MAX_WALLETS_PER_USER
  MaxRequests,  \* bound: requests begun
  MaxFaults     \* bound: failed queries and killed instances

Operations ==
  {"challenge", "link", "unlink", "setPrimary", "unsetPrimary", "login"}

Queries ==
  {"setNonce", "exists", "getNonce", "delNonce", "existsAgain", "create", "delete",
   "getWallet", "anyPrimary", "isPrimary", "isPrimaryAgain", "set", "unset"}

\* A nonce has the number of the request that made it.
Number == 1..MaxRequests

Wallet == [user : Users, primary : BOOLEAN]

\* nonce: the one that was signed.
Request ==
  [op : Operations, at : Queries, n : Number, user : Users \cup {None},
   address : Addresses, nonce : Number \cup {None}]

ASSUME WalletsAssumption ==
  /\ IsFiniteSet(Handlers) /\ Handlers # {}
  /\ IsFiniteSet(Addresses)
  /\ None \notin Users \cup Number \cup Wallet \cup Request
  /\ MaxWallets \in Nat
  /\ MaxRequests \in Nat
  /\ MaxFaults \in Nat

VARIABLES
  wallets,   \* MongoDB: by address, which is unique
  nonces,    \* Redis: verify_nonce by address
  signed,    \* the messages signed by those who hold the addresses
  requests,  \* what each handler is doing
  begun,     \* requests begun so far
  faults,    \* failures so far
  uses,      \* history: what each nonce was accepted for, how often
  shared     \* history: nonces that two requests had verified at once

vars == <<wallets, nonces, signed, requests, begun, faults, uses, shared>>
history == <<uses, shared>>

TypeOK ==
  /\ wallets \in [Addresses -> Wallet \cup {None}]
  /\ nonces \in [Addresses -> Number \cup {None}]
  /\ signed \subseteq Number \X Addresses
  /\ requests \in [Handlers -> Request \cup {None}]
  /\ begun \in 0..MaxRequests
  /\ faults \in 0..MaxFaults
  /\ uses \in [Number -> Nat]
  /\ shared \subseteq Number

Busy(h) == requests[h] # None
At(h, q) == Busy(h) /\ requests[h].at = q
Becomes(h, r) == requests' = [requests EXCEPT ![h] = r]
Goto(h, q) == Becomes(h, [requests[h] EXCEPT !.at = q])
Return(h) == Becomes(h, None)

Fault == faults < MaxFaults /\ faults' = faults + 1

Linked(a) == wallets[a] # None
Of(u) == {a \in Addresses : Linked(a) /\ wallets[a].user = u}
Primaries(u) == {a \in Of(u) : wallets[a].primary}

\* One user may have linked some wallets.
Init ==
  /\ \E u \in Users, S \in SUBSET Addresses :
       /\ Cardinality(S) <= MaxWallets
       /\ wallets = [a \in Addresses |-> IF a \in S THEN [user |-> u, primary |-> FALSE] ELSE None]
  /\ nonces = [a \in Addresses |-> None]
  /\ signed = {}
  /\ requests = [h \in Handlers |-> None]
  /\ begun = 0
  /\ faults = 0
  /\ uses = [n \in Number |-> 0]
  /\ shared = {}

-----------------------------------------------------------------------------
(* Challenges *)

Begin(h, op, q, u, a, n) ==
  /\ ~Busy(h)
  /\ begun < MaxRequests
  /\ begun' = begun + 1
  /\ Becomes(h, [op |-> op, at |-> q, n |-> begun + 1, user |-> u, address |-> a,
                 nonce |-> n])
  /\ UNCHANGED <<wallets, nonces, signed, history>>

\* userPrimaryWallet: a query that fails is answered like one that finds none.
NoPrimary(u) == (Primaries(u) = {} /\ UNCHANGED faults) \/ Fault
SomePrimary(u) == Primaries(u) # {} /\ UNCHANGED faults

\* generateLinkChallenge: the address must be new.
BeginLinkChallenge(h) == \E a \in Addresses :
  ~Linked(a) /\ Begin(h, "challenge", "setNonce", None, a, None) /\ UNCHANGED faults

\* generateLoginChallenge: the wallet must be primary.
BeginLoginChallenge(h) == \E a \in Addresses :
  /\ Linked(a)
  /\ wallets[a].primary
  /\ Begin(h, "challenge", "setNonce", None, a, None)
  /\ UNCHANGED faults

\* generatePrimaryWalletChallenge, whose check takes one or two queries and refuses
\* only the wallet that is primary already.
BeginPrimaryChallenge(h) == \E u \in Users, a \in Addresses :
  \/ NoPrimary(u) /\ Begin(h, "challenge", "setNonce", u, a, None)
  \/ SomePrimary(u) /\ Begin(h, "challenge", "isPrimary", u, a, None)

\* generateNonceMessage: the new nonce replaces any other of the address.
SetNonce(h) ==
  LET r == requests[h] IN
  /\ At(h, "setNonce")
  /\ nonces' = [nonces EXCEPT ![r.address] = r.n]
  /\ Return(h)
  /\ UNCHANGED <<wallets, signed, begun, faults, history>>

Sign(a) ==
  /\ nonces[a] # None
  /\ <<nonces[a], a>> \notin signed
  /\ signed' = signed \cup {<<nonces[a], a>>}
  /\ UNCHANGED <<wallets, nonces, requests, begun, faults, history>>

Verify(h, good) ==
  LET r == requests[h] IN
  /\ At(h, "getNonce")
  /\ \/ ~good /\ Return(h) /\ UNCHANGED <<nonces, shared>>
     \/ /\ good
        /\ Goto(h, "delNonce")
        /\ shared' = IF \E g \in Handlers \ {h} : At(g, "delNonce") /\ requests[g].nonce = r.nonce
                     THEN shared \cup {r.nonce} ELSE shared
        /\ UNCHANGED nonces
     \/ nonces' = [nonces EXCEPT ![r.address] = None] /\ Return(h) /\ UNCHANGED shared
  /\ UNCHANGED <<wallets, signed, begun, faults, uses>>

\* validateNonceMessage reads the nonce and recovers the signer; that the nonce has
\* expired shows when it is read.
GetNonce(h) == Verify(h, nonces[requests[h].address] = requests[h].nonce)

AfterDelNonce(h) ==
  LET r == requests[h] IN
  /\ \/ r.op = "link" /\ Goto(h, "existsAgain")
     \/ r.op = "setPrimary" /\ Goto(h, "anyPrimary")
     \/ r.op = "login" /\ Goto(h, "getWallet")
  /\ UNCHANGED <<wallets, signed, begun, faults, history>>

\* Faulty: the nonce is left to expire.
DelNonceNever(h) == At(h, "delNonce") /\ AfterDelNonce(h) /\ UNCHANGED nonces

\* Whatever nonce the address has by now.
DelNonce(h) ==
  /\ At(h, "delNonce")
  /\ nonces' = [nonces EXCEPT ![requests[h].address] = None]
  /\ AfterDelNonce(h)

Used(h) == uses' = [uses EXCEPT ![requests[h].nonce] = @ + 1]

-----------------------------------------------------------------------------
(* Linking *)

LinkIf(h, room) ==
  \E u \in Users, s \in signed :
    room[u] /\ Begin(h, "link", "exists", u, s[2], s[1]) /\ UNCHANGED faults

\* Faulty: one too many.
BeginLinkOneMore(h) == LinkIf(h, [u \in Users |-> Cardinality(Of(u)) <= MaxWallets])

\* validateLinkChallenge counts first.
BeginLink(h) == LinkIf(h, [u \in Users |-> Cardinality(Of(u)) < MaxWallets])

\* walletExists, in validateLinkChallenge and again in linkWallet.
WalletExists(h) ==
  LET r == requests[h]
      next == IF r.at = "exists" THEN "getNonce" ELSE "create"
  IN
  /\ At(h, "exists") \/ At(h, "existsAgain")
  /\ \/ Linked(r.address) /\ Return(h)
     \/ ~Linked(r.address) /\ Goto(h, next)
  /\ UNCHANGED <<wallets, nonces, signed, begun, faults, history>>

\* Faulty: the wallet is written over what the address has.
LinkWalletOver(h) ==
  LET r == requests[h] IN
  /\ At(h, "create")
  /\ wallets' = [wallets EXCEPT ![r.address] = [user |-> r.user, primary |-> FALSE]]
  /\ Used(h)
  /\ Return(h)
  /\ UNCHANGED <<nonces, signed, begun, faults, shared>>

\* The unique index refuses a second wallet of the address.
LinkWallet(h) ==
  LET r == requests[h] IN
  /\ At(h, "create")
  /\ \/ Linked(r.address) /\ UNCHANGED <<wallets, uses>>
     \/ /\ ~Linked(r.address)
        /\ wallets' = [wallets EXCEPT ![r.address] = [user |-> r.user, primary |-> FALSE]]
        /\ Used(h)
  /\ Return(h)
  /\ UNCHANGED <<nonces, signed, begun, faults, shared>>

\* unlinkWallet, validUnlinkWallet: not a primary wallet.
BeginUnlink(h) == \E a \in Addresses :
  /\ Linked(a)
  /\ ~wallets[a].primary
  /\ Begin(h, "unlink", "delete", wallets[a].user, a, None)
  /\ UNCHANGED faults

\* Of this user and address, primary or not.
DeleteWallet(h) ==
  LET r == requests[h]
      mine == r.address \in Of(r.user)
  IN
  /\ At(h, "delete")
  /\ wallets' = IF mine THEN [wallets EXCEPT ![r.address] = None] ELSE wallets
  /\ Return(h)
  /\ UNCHANGED <<nonces, signed, begun, faults, uses, shared>>

-----------------------------------------------------------------------------
(* The primary wallet *)

\* checkValidPrimaryWallet of validatePrimaryWalletChallenge.
BeginSetPrimary(h) == \E u \in Users, s \in signed :
  \/ NoPrimary(u) /\ Begin(h, "setPrimary", "getNonce", u, s[2], s[1])
  \/ SomePrimary(u) /\ Begin(h, "setPrimary", "isPrimary", u, s[2], s[1])

\* unsetPrimaryWallet.
BeginUnsetPrimary(h) == \E u \in Users, a \in Addresses :
  SomePrimary(u) /\ Begin(h, "unsetPrimary", "isPrimary", u, a, None)

\* checkValidPrimaryWallet again, in setPrimaryWallet: its first query ...
AnyPrimary(h) ==
  /\ At(h, "anyPrimary")
  /\ \/ NoPrimary(requests[h].user) /\ Goto(h, "set")
     \/ SomePrimary(requests[h].user) /\ Goto(h, "isPrimaryAgain")
  /\ UNCHANGED <<wallets, nonces, signed, begun, history>>

\* ... and its second, wherever it is called: unsetPrimaryWallet goes on when the
\* wallet is the user's primary one, the others when it is not.
IsPrimary(h) ==
  LET r == requests[h]
      good == (r.address \in Primaries(r.user)) <=> r.op = "unsetPrimary"
      next == CASE r.op = "unsetPrimary" -> "unset"
                [] r.op = "challenge" -> "setNonce"
                [] r.op = "setPrimary" -> IF r.at = "isPrimary" THEN "getNonce" ELSE "set"
  IN
  /\ At(h, "isPrimary") \/ At(h, "isPrimaryAgain")
  /\ \/ good /\ Goto(h, next)
     \/ ~good /\ Return(h)
  /\ UNCHANGED <<wallets, nonces, signed, begun, faults, history>>

\* Faulty: the wallet is kept as belonging to nobody.
SetPrimaryOfNobody(h) ==
  LET r == requests[h] IN
  /\ At(h, "set")
  /\ wallets' = [wallets EXCEPT ![r.address] = [user |-> None, primary |-> TRUE]]
  /\ Return(h)
  /\ UNCHANGED <<nonces, signed, begun, faults, history>>

\* setPrimaryWallet's update: no other wallet is looked at.
SetPrimary(h) ==
  LET r == requests[h]
      mine == r.address \in Of(r.user)
  IN
  /\ At(h, "set")
  /\ \/ ~mine /\ Return(h) /\ UNCHANGED <<wallets, uses>>
     \/ /\ mine
        /\ wallets' = [wallets EXCEPT ![r.address].primary = TRUE]
        /\ Used(h)
        /\ Return(h)
  /\ UNCHANGED <<nonces, signed, begun, faults, shared>>

UnsetPrimary(h) ==
  LET r == requests[h] IN
  /\ At(h, "unset")
  /\ wallets' = IF r.address \in Of(r.user)
                THEN [wallets EXCEPT ![r.address].primary = FALSE] ELSE wallets
  /\ Return(h)
  /\ UNCHANGED <<nonces, signed, begun, faults, history>>

-----------------------------------------------------------------------------
(* Login *)

BeginLogin(h) == \E s \in signed :
  Begin(h, "login", "getNonce", None, s[2], s[1]) /\ UNCHANGED faults

\* validateLoginChallenge, after the nonce: the wallet must be primary; its user gets
\* a session (createWalletSession is DeviceLogin's).
GetWallet(h) ==
  LET a == requests[h].address IN
  /\ At(h, "getWallet")
  /\ IF Linked(a) /\ wallets[a].primary THEN Used(h) ELSE UNCHANGED uses
  /\ Return(h)
  /\ UNCHANGED <<wallets, nonces, signed, begun, faults, shared>>

-----------------------------------------------------------------------------

\* A query fails, other than those of NoPrimary, or the instance is killed.
Fails(h) ==
  /\ Busy(h)
  /\ Fault
  /\ Return(h)
  /\ UNCHANGED <<wallets, nonces, signed, begun, history>>

BeginSomething(h) ==
  \/ BeginLinkChallenge(h)
  \/ BeginLoginChallenge(h)
  \/ BeginPrimaryChallenge(h)
  \/ BeginLink(h)
  \/ BeginUnlink(h)
  \/ BeginSetPrimary(h)
  \/ BeginUnsetPrimary(h)
  \/ BeginLogin(h)

Step(h) ==
  \/ SetNonce(h)
  \/ GetNonce(h)
  \/ DelNonce(h)
  \/ WalletExists(h)
  \/ LinkWallet(h)
  \/ DeleteWallet(h)
  \/ AnyPrimary(h)
  \/ IsPrimary(h)
  \/ SetPrimary(h)
  \/ UnsetPrimary(h)
  \/ GetWallet(h)

Next ==
  \/ \E h \in Handlers : BeginSomething(h) \/ Step(h) \/ Fails(h)
  \/ \E a \in Addresses : Sign(a)

Spec == Init /\ [][Next]_vars

-----------------------------------------------------------------------------
(* Properties *)

\* A signature serves once, whatever it was asked for (the three challenges share
\* a key), unless two requests had verified it before either deleted the nonce.
OneUsePerNonce == \A n \in Number : uses[n] > 1 => n \in shared

\* Links count first and create last, so a user may have more wallets than the limit:
\* by one for each further request that can be in progress, and no more.
WalletLimit == \A u \in Users : Cardinality(Of(u)) < MaxWallets + Cardinality(Handlers)

\* An address does not pass from one user to another without being unlinked.
AddressKept ==
  [][\A a \in Addresses :
       Linked(a) /\ Linked(a)' => wallets[a].user = wallets'[a].user]_vars

\* WALLET_CONSTANTS.PRIMARY.MAX_PER_USER: what the constants promise, and the code
\* does not look after.
OnePrimary == \A u \in Users : Cardinality(Primaries(u)) <= 1

=============================================================================
