# A TLA+ model of Decode Backend v2

This directory keeps TLA+ specifications of the services under `src/apps`, the
TLC configurations that check them on small instances, and theorems about them
that TLAPS proves for all instances. It is written from the code; where a doc,
an API description or a test says something else, a run shows the difference
(see *Where the code and its description differ*).

## 1. The system

Eight NestJS services. Requests come through the API gateway over HTTP; services
send one another messages over RabbitMQ; every service may run several
instances, and within an instance requests interleave at every `await`. Nothing
in the code opens a database transaction or takes a lock over more than one
query, and what keeps state consistent across queries is only the order of the
queries and a few unique indexes.

| Component | State it keeps | Operations that change it | What is hard | What makes it correct | Module |
|---|---|---|---|---|---|
| Relationship: follow and block (`relationship/src/services/{follow,block}.service.ts`) | Neo4j: `User` nodes with `following_number`, `followers_number`; `FOLLOWING`, `BLOCKED` relationships | followingUser, unfollowingUser, removeFollower, blockUser, unblockUser | checks several awaits before the write; ignored results of sub-calls; failed reads answered as `false` | counters equal the graph; a block excludes following; no parallel relationships | `SocialGraph` |
| Relationship: lists, search, suggestions, interests | Neo4j; Redis: users already suggested | createUserInterests; pages change only Redis | pages at an offset while rows come and go; a total from a query of its own; a set read and written whole | who reads to the last page has seen everybody | `Listings` |
| Auth: sessions (`auth/src/services/session.service.ts`) | MongoDB `sessions` | createSession, refreshSession, logout, revoke by id, revoke by device | tokens equal within a second; updates by token without `is_active`; retry of createSession | a given-up token opens nothing; sessions only age | `Sessions` |
| Auth: login, devices, 2FA, SSO (`login`, `device-fingerprint`, `two-factor-auth`, `sso`) | MongoDB `device_fingerprints`, `otps`; Redis codes and tokens | login, trust, revoke, set up, enable, disable, verify, SSO create and validate | trust checked long before the session is made; revocation in two writes; failures read as "not enabled" | no session without the second factor when it is enabled; a device without trust has no session | `DeviceLogin`, `Sessions` |
| Auth: registration, passwords (`register`, `password`) | Redis registration data and codes | register, resend, verify, change | data deleted before the user is created; parallel verifications | one user per email; a code works once | `Accounts` |
| User (`user/src/services`) | MongoDB `users`; Redis codes | email and username changes, profile, deactivation | checks made at initiation only; ignored results | an address was proved by a code sent to it | `Accounts`, `UserSync` |
| Wallet (`wallet/src/services`) | MongoDB `wallets`; Redis nonces | link, unlink, primary, login | count then create; one nonce key per address | limit per user; a signature serves once; one primary | `Wallets` |
| Notification (`notification/src`) | MongoDB `notifications`; Redis socket sets; sockets | create, push, mark read, connect, disconnect | push races with connect; `delivered` set after the emit; Redis outlives the instance | every saved notification is delivered in the end | `Notifications` |
| Email worker (`email-worker/src`) | the queue | consume and send | acknowledged on receipt | at most once | in `Accounts` |
| Neo4j DB sync (`neo4jdb-sync/src`) | Neo4j `User` nodes | create, update | lookup then create; errors swallowed; reordering | one node per user, with its latest data | `UserSync`, `Mirror` |
| API gateway: profiles (`api-gateway/src/modules/users`, `infrastructure/cache`) | Redis copies of users, five minutes | view, change, comparison with Neo4j | copies stale when stored, compared or sent | the copy is MongoDB's; a difference is repaired | `UserSync` |
| API gateway: routes, limits, guards (`api-gateway/src`) | Redis windows; a cache of tokens in memory, and another in each service | rate limiting, token validation, relay | two caches in a row, filled from answers that are old; four lists of routes in as many files | at most the limit per window; a revoked session stops; a good token opens its route | `Routes`, `Gateway` |
| Follower snapshots, metrics, logging | documents nobody else reads | | | | none |

Interactions: auth tells Neo4j DB sync of a new user (`create_user_request`) and
the user service of changed ones (`update_user_request`), and so does the gateway
when a view finds Neo4j different, so the relationship service works on nodes that
another service makes; auth and relationship emit
`create_notification`; auth and user emit `email_request`; the gateway and the
guards of the other services ask auth to validate access tokens and cache the
answer; login asks the user service for the account, the device service for its
trust, 2FA and then sessions; the wallet service asks auth for a session of its own
kind. `PROJECT.json` lists the hazards of each part at its lines.

The modules meet at these seams. `DeviceLogin` says who gets a session, `Sessions`
what becomes of it; both have `createSession`, the first as one query. `Accounts`
ends where a user is created or renamed, `UserSync` begins there. `Wallets` ends a
login at `createWalletSession`, which is an operation of `DeviceLogin`.
`SocialGraph` takes nodes as they come from `UserSync` (`SyncUser`), and `Listings`
reads the graph that `SocialGraph` writes, with each follow as one step.
`Gateway` knows of a session only whether it is revoked.

## 2. What is modelled

### Relationships and SocialGraph: the social graph

`Relationships` states the promise: `following` and `blocked` are relations on
users that change by one atomic Follow, Unfollow, Block or Unblock at a time and
exclude each other. `spoiled` names the pairs about which nothing is promised.

`SocialGraph` is the service. `requests[h]` is what handler `h` is doing: the
endpoint (`op`), the method running now (`call`; blockUser calls unfollowingUser
and removeFollower), the next query (`at`) and the answer of the first of
checkIfUserBlocked's two queries (`seen`). One action is one Neo4j query with
all that follows it up to the next `await`:

| Action | Code |
|---|---|
| `BeginRequest` | a controller method, with the refusal of oneself |
| `UserExists`, `CheckIfUserFollowing`, `CheckIfUserFollower`, `CheckIfBlocked`, `CheckIfBlockedBy` | the checks; each branch is an early return or the next query of its caller |
| `CreateFollowing`, `DeleteFollowing`, `CreateBlocked`, `DeleteBlocked` | the four Cypher writes of `neo4j.infrastructure.ts`, with their counters |
| `Notify` | getUser and the emit of `create_notification` |
| `SyncUser` | Neo4j DB sync adds the node of a user |
| `Crash` | the instance dies, the request stops where it is |

Relationships have identities, because Neo4j keeps parallel ones: two overlapping
follows leave two, and one unfollow deletes both and decrements twice. A query
can fail: a read that fails is answered `FALSE` (the services catch and log), a
write that fails may have been made or not. `CREATE` after a `MATCH` of a missing
node creates nothing and does not fail.

`tainted` is a history variable: the pairs of users on which two requests were in
flight at once, or on which a failed query let a request take a decision. It does
not restrict the behaviour. `CountersMatchEdges` holds on all pairs; the other
properties on the pairs that are not tainted, and *Where the code and its
description differ* says what happens on the others. A crash taints nothing:
stopping in the middle of blockUser leaves a state that the service promises. A
failed write taints only when later steps of the same request build on it.

### Sessions: sessions, devices, login, SSO

A token is `[user, iat]`, because `createRefreshToken` signs a payload of which
only the user and the second it is issued in vary: two tokens of a user from one
second are the same string, and no unique index keeps two session documents from
carrying it. All of the service's lookups are by token; which of several carriers
`findOne` and `updateOne` take is a choice. Time (`now`) counts in seconds, and in
the very second of `expires_at` both answers are possible, as the code compares
milliseconds.

| Action | Code |
|---|---|
| `BeginLogin`, `CheckDevice`, `CheckOtp` | login with a known device, up to the decision to create a session |
| `BeginSso`, `DeleteSso`, `CreateSsoToken`, `ExpireSsoToken` | SSO tokens in Redis |
| `Create`, `FindCreated`, `Notify` | createSession: insert, findOne, notification and answer; `CreateSession` is the signing of the token before |
| `BeginRefresh`, `BeginLogout`, `ValidateSession`, `Rotate`, `FindRotated`, `Revoke`, `FindRevoked` | refreshSession and logout |
| `RevokeSessionBySessionId` | one query |
| `BeginRevokeDevice`, `FindTrusted`, `Untrust`, `RevokeSessionByDeviceFingerprintId` | revokeDeviceFingerprint |
| `TrustDevice` | the end of a device's verification |
| `QueryFails`, `Crash` | a query that fails, an instance that dies |

login has a second try: `checkAndInitOtpLoginSession` calls createSession, and when
that fails login goes on to trustFingerprintLogin, which calls it again
(`loginAgain`). A query that is executed though its answer is lost is the query
followed by a failure of the next one.

`carried`, `retired`, `revoked` and `loose` are history variables: tokens each
session has carried; tokens an *answered* logout or refresh gave up; devices whose
revocation was answered with success; devices that lost their trust but not
their sessions (a revocation cut short), or got a session without trust.

### Mirror and UserSync: one user in MongoDB, in the gateway's cache and in Neo4j

`Mirror` states the promise of keeping a document in a second store: one copy of it
is made, which may lag behind but only catches up; it never has what the document
has not had, never goes back, and is neither lost nor doubled, until it is spoiled.
`UserSync` implements it with `doc` as the original, `nodes` as the copies, and
`raced` as what spoils.

`doc` is the user's document, `cache` the gateway's copy, `nodes` the `User` nodes
with its `user_id`, `queue` is `neo4j_sync_queue`. A document is the number of the
change that made each of its fields, which is all that comparing needs; display
name and avatar are one field, as no code tells them apart. A request keeps in
`copy` what it read, and is at its next await:

| Action | Code |
|---|---|
| `Register`, `BeginEdit`, `Save`, `Reread` | the user service creates the document (asked by auth's createUser), or changes display name, avatar, role or username; only changeUsername reads again |
| `Emit` (`Sent`, `AfterEmit`, `EmitFails`) | `create_user_request` or `update_user_request` is sent, by auth, the user service or the gateway |
| `Invalidate` | the gateway's userChangedData |
| `GetUserProfile`, `ReadUser`, `SetCache`, `GetMyProfile`, `GetNode` | views in the gateway; `Compare` is syncNeo4jUser over the relationship service's getUser |
| `ExpireCache` | Redis, after five minutes |
| `Receive`, `FindUserNode`, `CreateUserNode`, `UpdateUserNode` | Neo4j DB sync |
| `CrashClient`, `CrashWorker`, `RestartBroker` | instances die; the queue is durable, its messages are not |

The consumer has no `noAck: false`, so a message is gone when it is delivered, and
no prefetch limit, so any number is handled at once (`Workers`). A failed lookup is
answered "not found". updateUser of a missing node calls createUser, which looks
again and gives up when a node has appeared. createUserNode's own check asks for a
property `id` that nodes do not have; it is a query that finds nothing, and left out.

`raced` is a history variable: two changes overlapped, two messages were handled at
once, a view cached or sent a copy that was out of date, or something failed.

### DeviceLogin: who gets a session

One user, one browser. `docs` are the trust flags of the documents of its
fingerprint (parallel logins make two), `otp` the second factor, `challenges` what
waits in Redis for an answer: a code sent by email, the token of a login or of a
device that lacks the one-time password. A request keeps its document and next query.

| Action | Code |
|---|---|
| `BeginLogin`, `CheckDeviceFingerprint`, `AskOtp`, `CreateSession` | login on a trusted device; `Onward` and `CreateSession` have its second try |
| `FindDeviceFingerprint`, `CreateDeviceFingerprint`, `SetCode`, `AskOtpVerify`, `SetVerify` | login on another one: the document, the email, the token for a one-time password |
| `BeginResend`, `BeginMailCode`, `FindUntrusted`, `SaveTrust`, `FindTrusted` | the code resent, brought back, and trustDeviceFingerprint |
| `BeginLoginOtp`, `BeginTrustOtp`, `VerifyOtp`, `SetLogin` | loginVerifyOtp, fingerprintTrustVerifyOtp |
| `BeginWallet` | createWalletSession, which trusts the device it finds or makes |
| `BeginRevoke`, `Untrust`, `Deactivate` | revokeDeviceFingerprint |
| `BeginOtp`, `CreateOtp`, `SaveOtp` | setUpOtp, enableOtp, disableOtp |
| `Expire`, `Fails` | Redis; a failed query or killed instance |

A failed read of the OTP document counts as a second factor that is not enabled,
and a failed write of the login session sends login on to make the session anyway:
`failed` marks the requests this has happened to, and `SecondFactor` is about the
others. `on` marks requests whose user had the factor enabled throughout, `late`
those whose device lost its trust after they checked it. All three are history.

### Accounts: registration, codes, email, username, password

`users`, `pending` (registration data by email) and `codes` are what MongoDB and
Redis keep, `outbox` and `inbox` the email queue and the mail that arrived. A code
is known by the request that made it, its kind, its user and the address it was
mailed to. Each change is a chain of requests joined by a code:

| Action | Code |
|---|---|
| `BeginRegister`, `ExistsName`, `SetInfo`, `GetInfo`, `SetCode`, `BeginResend` | registerInfo and sendEmailVerification |
| `BeginVerifyRegister`, `DelCode`, `GetInfo`, `Exists`, `DelInfo`, `CreateUser` | verifyRegisterEmail and createUser in auth, create in user |
| `BeginAskPassword`, `BeginForgotPassword`, `BeginChangePassword`, `Update` | passwords |
| `BeginAskUsername`, `BeginChangeUsername`, `GetCode`, `DelCode`, `Update` | changeUsername and its initiation |
| `BeginAskEmail`, `BeginNewEmail`, `Exists`, `GetCode`, `BeginVerifyNewEmail`, `Update` | the change of email, from the old address to the new one |
| `BeginSetActive`, `SaveActive` | deactivation, reactivation |
| `HandleEmailRequest` | the email worker, which loses what it fails to send |
| `Rest`, `Fails` | thirty days pass; failures |

Codes have no timer of their own: wherever one is read it may be found expired.
The cooldown of a username is looked at when the code is asked for and not when it
is used, and `users[u].early` counts the codes from before. `uses`, `shared`,
`verified` and `excused` are history: how often a code served, codes two requests
held at once, addresses verified by a registration, and those whose registration
was lost in a way that is named.

### Wallets: nonces, links and the primary wallet

`wallets` by address (a unique index), `nonces` by address (one Redis key for all
three challenges), `signed` the messages their holders have signed.

| Action | Code |
|---|---|
| `BeginLinkChallenge`, `BeginLoginChallenge`, `BeginPrimaryChallenge`, `SetNonce` | the three challenges |
| `Sign` | the wallet |
| `GetNonce`, `DelNonce` | validateNonceMessage: read, verify, delete |
| `BeginLink` (the count), `WalletExists`, `LinkWallet` | validateLinkChallenge, linkWallet |
| `BeginUnlink`, `DeleteWallet` | unlinkWallet |
| `BeginSetPrimary`, `AnyPrimary`, `IsPrimary`, `SetPrimary`, `BeginUnsetPrimary`, `UnsetPrimary` | the primary wallet, with checkValidPrimaryWallet's one or two queries |
| `BeginLogin`, `GetWallet` | validateLoginChallenge |
| `Fails` | a failed query is an error |

The query of userPrimaryWallet is the exception: when it fails, the service goes on as if
it had found no primary wallet (`NoPrimary`).

### Notifications: saved, pushed, delivered

One user, several browsers. A message (`notes[n].job`) and a connecting socket
(`connections[c].at`) each write first and look afterwards: the message saves the
notification and asks Redis for sockets, the socket adds itself to Redis and looks
for undelivered notifications. `EventuallyDelivered` depends on this order, and on
connections that come back.

What Redis has in `user_sockets` is `known`, those of the sockets the server holds open
(`sockets`), and `stale`, whether there are any of no living instance. The key lives for
a day: addUserSocket sets the day when it adds a socket, and nothing renews it while the
socket stays open. `ExpireSockets` may therefore come at any time and takes all of the
user's sockets, open ones too. A message then finds nobody and is left, while a socket
is there to take it, until another one connects.

| Action | Code |
|---|---|
| `Publish`, `CreateNotification`, `SendNotification`, `MarkSent` | processCreateNotificationRequest, sendNotificationToUser, markAsDelivered |
| `Connect`, `JoinRoom`, `FindUndelivered`, `PushNext`, `MarkPushed` | handleConnection, pushUndeliveredNotifications |
| `Drop`, `HandleDisconnect`, `Forget` | a connection breaks, the server notices, its push ends |
| `MarkOneRead`, `MarkAsReadAll` | reading, by HTTP or by socket |
| `MessageFails`, `ConnectionFails`, `Restart`, `ExpireSockets` | failed queries; the instance dies and leaves its sockets in Redis (`stale`); the day is over |

### Routes and Gateway: a request's way to a service

`Routes` is what the controllers, services and clients of the gateway, and the
controllers of the services, declare of each of the gateway's operations, file by
file: guard, limit, whether the token is handed on (by the gateway's service, and
by its client), guard at the other end. They reduce to 28 kinds of request.

`Gateway` takes requests of each kind with a good, a lost or no token through
them. `window` is Redis's sorted set per limit, `cache` the users the guards of the
two sides keep, `lost` when the session or the role of a token was taken away.

| Action | Code |
|---|---|
| `Arrive` | RateLimitGuard, isAllowed |
| `Guard` (with `Relay`), `Validated`, `Invalid`, `CheckFingerprint` | AuthGuard and AuthGuardWithFingerprint of the gateway, the guards of the services |
| `ValidateAccess`, `GetInfo` | auth's side of a guard's call; auth's own guard reading the session |
| `CallFails` | a guard's call has had its five seconds (`Late`), or fails |
| `Return`, `RelayFails` | BaseHttpClient of the gateway: the service's answer, or ten seconds without one (`RelayLate`), or a failed connection |
| `Lose`, `Tick` | a revocation elsewhere; time |

A request is at one of the two sides: with the gateway's guard, then, once relayed, with
the service. `sent` is when its guard asked, `relayed` since when the gateway waits.
There are two deadlines, and one that is missing. A guard that calls auth gives up after
five seconds (`Timeout`), the gateway's relay after ten (`RelayTimeout`); auth's own guard
reads MongoDB itself, keeps nothing and has no deadline. The deadlines are the callers':
a service does not notice that the gateway has given its request up, and serves it all the
same (`relayed = None`). Time passes before a service gets to a relayed request, while its
guard waits, and while its answer is on the way back.

The bounds of `ServedInTime` add these up. A guard's five minutes begin when the answer is
back, and auth may have looked almost a timeout before that: a guard that keeps users
lets a token pass for less than `CacheTtl + Timeout` after its loss. The guard of the
routes that look at the device asks once more, a timeout later at most, before it relays,
and the client has its answer at most `RelayTimeout` after the relay. So a client is
answered with lost rights

* for `RelayTimeout` at most where auth's own guard looks, which does so after the relay;
* for less than `CacheTtl + Timeout + RelayTimeout` where another service's guard does;
* for less than `CacheTtl + 2 * Timeout` where the gateway answers itself;
* for less than `CacheTtl + 2 * Timeout + RelayTimeout` where the service asks nobody;

and a service other than auth does not act on them later than `CacheTtl + Timeout` even
when nobody waits for it. No such bound holds for auth or for a service without a guard:
they may get to a request that was given up at any later time, auth with an answer of
that moment, the other with none. That is why the second part of the property is about
the targets it names.

### Listings: pages of a changing graph

`readings[d]` is a client that asks page after page of one of six lists until one
is said to be the last. Rows are computed from the graph (`following`) and the nodes of
the users (`users`: their names and interests) as the Cypher queries do,
with their quirks: a suggestion can be two rows, both kinds of suggestions must
match for any to be found, the total is counted by a query of its own, and
searchFollowers returns the user it was asked by.

| Action | Code |
|---|---|
| `Begin`, `Ask` | the client |
| `Clear`, `Count`, `ReadPage` | the cached set is dropped at page 0; the total; the page |
| `Seen`, `MergeGet`, `MergeSet` | users suggested before are left out; the set is read and written whole |
| `Filter`, `Forget` | how the reader is related to each; what interests suggested is forgotten again |
| `Expire`, `Follow`, `Unfollow`, `CreateUserInterests`, `Rename` | Redis; the graph changes |

`stable`, `with` and `met` are history: whom the list had from beginning to end,
which readings went on at once, and what disturbed this one.

A row is what the query orders it by and its user, and a page is the set of rows at the
offsets of `SKIP` and `LIMIT`: `Offset` counts the rows before a row, which says what
sorting and cutting do without a sequence. Suggestions by interest are ordered by how
many interests are shared (`Lacking` counts those that are not) and by name; the tiers of
friends of friends come one after the other; all else is unordered. `Order` is Neo4j's own
order among equal rows, a number for each user. Names that `SocialGraph` has too are prefixed or other
here (`LTypeOK`, `LSpec`), since `RelationshipProofs` extends both.

The order of rows changes while a client reads. With one user per page and two interests
of the reader's, of which a and b have one each, page 0 gives a. Then b adds the second,
the order is b, a, page 1 gives a again and is the last: b was on the list all along and
is never shown. The service does nothing against it, nor against a row that goes and
makes the ones behind it move up; `Complete` excepts the readings this happened to by name
(`moved`), as it does those whose total was less than their rows (`short`), which ends
them early. It holds for every other change: a new row anywhere, a new name or interest
that leaves the rows of the list in their places. A failed read of the reader's interests
is not an error: the answer is a page that is empty and the last.

`Complete` speaks of any readings of suggestions that have known of no others: one of
them at least gives whoever is on the list all along. It may not be said of a reading
and those it has met. Of three, A reads from Redis a user that B has shown, to merge a
page of its own; B ends; C begins and clears the set; A writes back what it read, and
C leaves the user out. C has met A only, and neither has given the user: B has, whom A
has met. TLC finds such a behaviour of 43 states.

## 3. What TLC checks

| Run | Instance | Shows |
|---|---|---|
| `social` | 2 users, 2 handlers, 3 relationship ids, 4 requests, 1 failed query; 149,528 states | types, `CountersMatchEdges`, `ChecksStillHold`, `BlockExcludesFollow`, `NoParallelEdges`; `RefinesRelationships` (refinement of `Relationships`) |
| `sessions` | 1 user, 1 device, 2 session documents, 2 handlers, 4 requests, times 0..3 with a lifetime of 2, 1 failure; 816,804 states | types, `RetiredTokensRefused`, `NotRefreshedPastExpiry`, `UntrustedHasNoActive`; the action property `SessionsOnlyAge` |
| `usersync` | 2 clients, 1 worker, 2 nodes, 1 change, a queue of 1, 1 failure; 365,721 states | types, `QuietSynced`, `CacheFollowsUser`; `ViewsHeal`, under fairness |
| `usersync_overtaking` | 1 client, 2 workers, 2 nodes, 1 change, a queue of 2, 1 failure; 406,550 states | `MirrorsUser` (refinement of `Mirror`), and `ViewsHeal` when messages overtake each other |
| `devicelogin` | 2 handlers, 2 documents, 6 requests, 1 failure; 727,310 states | types, `SecondFactor`, `UntrustedHasNoActive` over all ways to log in |
| `accounts` | 2 handlers, 2 names, 2 addresses, 2 users, 4 requests, 1 failure; 691,736 states | types, `EmailProven`, `OneUsePerCode`, `VerifiedHasAccount`, `UsernameCooldown` |
| `wallets` | 2 handlers, 2 users, 3 addresses, a limit of 1, 4 requests, 1 failure; 144,951 states | types, `OneUsePerNonce`, `WalletLimit`; the action property `AddressKept` |
| `notifications` | 2 clients, 2 notifications, 1 failure; 465,254 states | types, the action properties `FlagsKept` and `DeliveredUnseen`; `EventuallyDelivered`, under fairness |
| `gateway` | 2 handlers, 1 token, all 28 kinds of request, a limit of 1, times 0..6 with a window of 3, caches of 2, a timeout of 1 and of 2 for the relay, 2 requests, 1 failure, `Bounded`; 1,527,685 states | types, `WithinLimit`; the action properties `ServedInTime`, `GoodTokenServed` |
| `listings` | 4 users, 2 readings of one list, 2 names, 2 interests, 1 user per page, 1 change, 1 failure; 1,627,078 states | types (`LTypeOK`), `Complete`, `PagesDisjoint` |
| `sessions_revoked`, `wallets_primary` | smaller | the two violations below |

Why the bounds are enough.

* `SocialGraph`: every guard and every property is about one pair of users, in two
  directions; two users are one pair, a third would add pairs that do not interact
  except in the counters, about which the proofs are general. Two handlers make
  every overlap of two requests, four requests let two such overlaps follow each
  other, and three relationship ids allow parallel relationships beyond a pair.
* `Sessions`: two documents are what it takes for two sessions to share a token; a
  lifetime of 2 within 4 seconds makes a token expire before, with and after the
  document it is on, and lets the second in which a refresh mints the same token,
  and the next one, both occur; four requests are a login, a logout or refresh, and
  two that race with it.
* `UserSync`: one change of any field makes a copy stale, two clients let it happen
  between a read and its use, two workers let a message overtake another, and a
  second node is all that twins take. The two kinds of disorder, of requests and of
  messages, are separate runs.
* `DeviceLogin`: two documents of one fingerprint are the two that parallel logins
  make. The longest way to a session is the second factor set up and enabled, a
  login that makes the document, the code that trusts it, a second login and its
  one-time password: six requests.
* `Accounts`: a code that two requests hold, or two registrations of one name or
  address, take two users and two requests at once; a change of email takes three
  requests, and a fourth can come between. The initial states have a user already
  or none.
* `Wallets`: with a limit of 1, two parallel links exceed it and a third address is
  there to go further. Four requests are a challenge, the use of its signature, and
  two that race with it.
* `Notifications`: two notifications let one wait while the other is pushed, two
  clients let one socket be there while the other joins or goes. One failure is a
  restart in the worst place, or a break of one connection. The day of Redis is no
  failure and may end at any time, any number of times.
* `Gateway`: kinds of request differ in what they meet, and there are all of them. A
  second token would meet another cache entry, and the limits do not look at it. A limit
  of 1 is reached by the second request. Caches of 2, timeouts of 1 and 2 and six steps
  let an answer be kept late, be used at its end, be kept again by the second guard, and
  be on its way until the relay's deadline: `ServedInTime` fails when any of its five
  bounds is one less. `Bounded` leaves out what adds nothing or little: time before the
  first request, which is only a shift; two requests at once, where they touch one
  another (through what the guards keep), but on guarded routes, one kind for each
  target; and a failed call when requests overlap, or late. A call that fails only ends a
  request before its time. The proofs have none of these bounds.
* `Listings`: one user per page makes every row a page; four users are a reader, a
  user who is followed, one suggested in each of the two ways. Two interests and two
  names are what it takes to order two users anew, either way. Both readings are of one
  list (`OneList`): readings of different lists share nothing but the graph, which
  neither changes. A third reading is beyond these bounds with everything else that
  goes on; with suggestions only, no changes and no failures, TLC went through three
  readings as well.

The mutants in `PROJECT.json` show that each property can fail on these instances: each
is a plausible bug in a definition, kept beside it and marked *Faulty*. `MaxFaults`,
`MaxFailures`, `MaxRequests`, `MaxTime`, `MaxChanges` and the numbers of ids only cut
behaviours short. At their ends the models stop, hence `CHECK_DEADLOCK FALSE` in all but
the two runs of `UserSync`, which goes on for ever and is checked for deadlock; the
services have no locks and wait for nothing but the answers of calls. Symmetry is taken
over handlers, ids, users and the like, which no definition tells apart, and only in
runs without liveness.

Fairness is assumed in two modules, as `FairSpec`. In `UserSync`: weak fairness of
each request's and each worker's next step (an await of a query or call returns, or
fails, or its instance dies, which is the next step's failure or a crash; the
gateway's HTTP calls have a timeout), of `Receive` (the consumer stays subscribed,
or is started again), of `ExpireCache` (Redis expires the key), and of *some* view
of the profile. The last is an assumption about people, not code: nothing in the
system compares MongoDB and Neo4j on its own, so an unviewed profile stays wrong,
and this is what the property says. In `Notifications`: weak fairness of each
message's and each socket's next step (what runs in the one instance goes on until
it dies, and the server's pings end dead sockets), and of a client connecting
again, which is what socket.io clients do and nothing the service can bring about;
without it a notification waits, as it should. `EventuallyDelivered` moreover assumes in
its statement that from some time on no open socket is one that Redis has forgotten
(`<>[]~Overlooked`): while a socket stays open for more than a day, what comes finds
nobody and waits, perhaps for ever. Expiry before that, between any two steps, is covered:
what was left meanwhile is delivered by the connection that ends the state. The other modules state no
liveness: a request is a chain of awaits that nothing resumes when its instance
dies. `Listings` relies on one thing the queries do not ask for, that Neo4j returns
equal rows in the same order while nothing changes.

### Where the code and its description differ

* **`RevokedDeviceHasNoSession`** (`sessions_revoked`). "revokes device fingerprint and
  sessions": a login that checked the trust before the revocation creates its
  session after it.
* **`OnePrimary`** (`wallets_primary`). `MAX_PER_USER: 1` primary wallets per user:
  setPrimaryWallet refuses only the wallet that is primary already and unsets no
  other, so that two made primary in turn both are.

Other differences met on the way, visible in the modules and without a run:

* A follow and a block of the same caller, both past their checks, leave both
  relationships; the tests of blockUser say it "unfollows user when blocking someone
  you follow". `BlockExcludesFollow` is what holds, without overlap.
* checkIfUserBlocked is symmetric, so the blocked user may call unblock: nothing is
  deleted and success is answered.
* After a login whose first createSession failed late there are two sessions with one
  token, and logout revokes one (`RetiredTokensRefused` is about unshared tokens).
* createUserNode checks for a property `id` that no node has: two messages handled
  at once make two nodes (`MirrorsUser` promises one until then).
* updateUserRole deletes the admin's cached copy and not the user's, therefore
  `CacheFollowsUser` leaves the role out.
* The code of a change of email is not deleted when the new address is given: the
  service deletes another key. `OneUsePerCode` counts what codes change, and this one
  changes nothing by itself.
* The cooldown of an email change has a message, and no check.
* CAN_UNLINK says a primary wallet cannot be unlinked: unlinkWallet checks, and
  deletes whatever the wallet has become.
* hasUserSockets is to tell "if user has active sockets". The set it counts expires a day
  after the last socket was added, whatever is still open; after that it answers no of
  a user with a living socket, and what is sent is left (`Overlooked`).
* `delivered` is set after an emit, whoever receives it; `DeliveredUnseen` lists the
  cases in which nobody does.
* The gateway relays revokeAllSessions and the relationship service's health to
  routes that no service has.
* The total of suggestions counts users and the pages have rows, of which one user
  may be two, so that a reading may end early; both are empty when one of the two kinds
  finds nobody. searchFollowers returns the reader. A failed query looks like a last page.
  A page of suggestions by interest is cut from an order that changes between pages.

## 4. What is proved

`RelationshipProofs` (about `SocialGraph` and `Listings`), `SessionsProofs`,
`UserSyncProofs`, `AccountsProofs`, `WalletsProofs`, `DeviceLoginProofs`,
`NotificationsProofs` and `GatewayProofs` prove, for any sets of users, handlers,
readings, workers, nodes, sockets, names, email and wallet addresses, devices, session
ids and tokens (finite where something is counted), any names, interests and order among equal rows, any of the
gateway's routes, and any bounds, limits, page sizes, deadlines and times:

| Theorem | Statement |
|---|---|
| `RelationshipProofs!TypeCorrect`, `CountersCorrect`, `ChecksCorrect`, `BlockCorrect`, `EdgesCorrect` | `Spec => []P` for every invariant of the run `social` |
| `RelationshipProofs!Refinement` | `Spec => Abstract!Spec` |
| `RelationshipProofs!ListingsTyped`, `ListsComplete`, `PagesApart` | `LSpec => []P` for every invariant of the run `listings` |
| `SessionsProofs!TypeCorrect`, `RetiredCorrect`, `ExpiryCorrect`, `UntrustedCorrect` | `Spec => []P` for every invariant of the run `sessions` |
| `SessionsProofs!SessionsAge` | `Spec => SessionsOnlyAge` |
| `UserSyncProofs!TypeCorrect`, `QuietCorrect`, `CacheCorrect` | `Spec => []P` for every invariant of the run `usersync` |
| `UserSyncProofs!MirrorCorrect` | `Spec => Graph!Spec`, the refinement of the run `usersync_overtaking` |
| `UserSyncProofs!InvCorrect` | `Spec => []Inv`, the invariant the three others rest on |
| `AccountsProofs!TypeCorrect`, `EmailCorrect`, `RegisterCorrect`, `CodeCorrect`, `CooldownCorrect` | `Spec => []P` for every invariant of the run `accounts` |
| `WalletsProofs!TypeCorrect`, `OnceCorrect`, `LimitCorrect` | `Spec => []P` for every invariant of the run `wallets` |
| `WalletsProofs!AddressCorrect` | `Spec => AddressKept` |
| `DeviceLoginProofs!TypeCorrect`, `SecondCorrect`, `UntrustedCorrect` | `Spec => []P` for every invariant of the run `devicelogin` |
| `NotificationsProofs!TypeCorrect` | `Spec => []TypeOK` |
| `NotificationsProofs!FlagsCorrect`, `UnseenCorrect` | `Spec => P` for the action properties of the run `notifications` |
| `NotificationsProofs!ForgottenCorrect` | `Spec => []NothingForgotten`, the safety half of `EventuallyDelivered` |
| `GatewayProofs!TypeCorrect`, `LimitCorrect` | `Spec => []P` for every invariant of the run `gateway` |
| `GatewayProofs!ServedCorrect`, `GoodTokenCorrect` | `Spec => P` for its action properties |

The argument for the social graph. `TypeOK` alone is not inductive: that a counter
stays a natural number needs that it equals the number of relationships, so types
and counters are one invariant, over finite sets of relationships; lemmas compute
the cardinalities after a creation and a deletion of parallel relationships. The
pair properties rest on `ChecksStillHold`: at most one request is in flight on an
untainted pair, thus no other step changes what it has read, and what it writes
keeps the relations disjoint. That one-request fact is the strengthening. The
refinement follows from these: each write is the abstract operation when its pair
is untainted, tainting is `Spoil`, and all else stutters.

The argument for sessions. Every session document changes only by insertion, a
new token of the same user that is not older, or deactivation
(lemma `SessionStep`); from that and the typing of the requests (`AgeInv`: tokens
minted by a request are no later than the clock, no earlier than the token they
replace) follows `SessionsOnlyAge`. For retired tokens, `RetiredInv` relates
requests to documents: once a request is past its rotation or its revocation, no
active session carries the token it gave up, unless it is shared; only an
insertion or a rotation could bring it back, both mint at the present second, and
two documents then share it. `UntrustedHasNoActive` uses that the device of a
pending revocation is the one its action clears.

The argument for the sync. `QuietSynced` speaks of a state in which nothing is under
way, and says nothing of the steps that lead there; the invariant follows a change all
the way, and has five parts, which hold until something races. `RequestInv`: one change
is in progress at most, and it holds the document as it is, but for the field it
changes. `CacheInv`: a field of the gateway's copy is that of the document, or the
change that made it otherwise is on its way to deleting the copy. `GraphInv`: one
message is handled at a time, so that what was found about the node is still true when
it is acted upon. `Outcome`: the document is what the messages lead to, or a request is
about to send it. What they lead to (`Ends`) is a fact about the whole queue: the last
update decides, whatever comes before or after; without one, the node that is there or
will be written by the message in hand; without that, the first creation. The lemmas
about `Ends` say that an update that is appended is the outcome, that a creation
appended to messages that have an outcome does not change it, and that it stays when the
worker takes the first message, writes the node, or drops a creation. With the queue
empty and nobody at work, `Outcome` is `QuietSynced`. `OrderInv`: nothing is ahead of
the document, and what an update will replace (the node, the message in hand, the
messages before it) is not ahead of the update; this is what the refinement needs
besides `GraphInv`, for a write of the node to be a `CatchUp`. Registration is `Make`, a
saved change is `Change`, what races is `Spoil`, and all else stutters.

The argument for notifications. What a step writes to a notification is one of four
things (lemma `StepKeeps`), none of which takes a flag back: the two queries that mark
set one field of the document. `DeliveredUnseen` needs `RoomInv`: a socket that Redis
knows and whose client lives is in the room or about to join; that Redis forgets takes
nothing from that. `NothingForgotten` is
the bargain between the message and the socket: a notification that has been handled
without being delivered is awaited by every known socket, which has still to look for
notifications, or has found this one and not pushed it yet. The message gives up only
when Redis knows no socket, thus nobody waits at that moment; a socket comes with its
search before it; a push takes from the list only what it has delivered, or finds that
Redis knows no socket any more; and a socket that is forgotten is not spoken of. Numbers being well founded, there is a first to push (`HeadType`).

The argument for accounts. `TypeInv` says what a request holds at each query and of
whom every code is. `EmailInv`: a request that may give an address to a user has had a
code that was sent there. `RegisterInv` is what makes the deletion of the data before
the user harmless: when a code or a request still wants to register an address and its
data is gone, a request that took it is about to make the account, or has. For codes,
`NumbersInv` says that numbers are given once, and `OnceInv`, of a code that was never
in two hands, that one request at most has it, that from its deletion on nobody can
read it, and that once used nobody has it. `CooldownInv` counts, while no code was
shared: a user's changes and the codes for further ones (asked for, kept in Redis or in
hand) together are no more than the codes asked for before the first change. A change
moves one unit from the second to the first, since by `OnceInv` its code is gone.

The argument for wallets. `OneUsePerNonce` counts uses, which no single step
decides. `NonceInv` first fixes what a nonce is: made once, for one address, signed
by that address only, and, once signed, no challenge still has it to set. `OnceInv`
then says that a nonce is gone from Redis when a request that has verified it goes
on, and that of an unshared nonce at most one request is past its verification, with
no use counted while there is one; a use is then the first. `LimitInv` counts for each
user the wallets and the requests that have passed the count and may still create one:
fewer than the limit and the handlers together. A link moves one unit from the second
to the first, and a new request finds fewer wallets than the limit.

The argument for device login. A request spans up to eight queries, and what it found
at one may be undone before the next; `SecondFactor` and `UntrustedHasNoActive` speak
of the session at its end. `SecondInv` says for each query what the request has been
through: if the second factor was on since the request began, then where the code
goes on to make a session the request has given a one-time password, or a read of
it has failed, or it is a wallet login. `TrustInv` says that the document a request
holds is trusted still, or the request is marked late: every step that takes trust
away marks all requests past their check of it. `TypeInv` is needed for both: a
request at a query about a document holds one that exists.

The argument for the gateway. `LimitInv` adds to `WithinLimit` that the instants let
pass of late are in the window that is counted; the window only forgets what is too
old. `GuardInv` dates what is known of each request. `Timely`: it was sent to a guard that
keeps users at most `Timeout` ago, and is waited for since `RelayTimeout` at most; nothing
is said of how long a service or auth's own guard takes. `Informed`: what a guard was told
was true when it asked. `Vouched`, of a request that the gateway still waits for: what
each guard it has passed let pass was true when it was relayed, or so long before as that
guard's cache and calls account for. `Fresh`: what a guard keeps was true
`CacheTtl + Timeout` before it expires. As a client is answered only while the gateway
waits, the time since the relay is bounded, and nothing else of what a service does.
`ServedInTime` and `GoodTokenServed` are read off from that, and from facts of the
routes that follow from their lists (`KindFacts`): a service asks for a token on no
route on which the gateway does not hand it on, and no route for admins is guarded by
auth itself, whose guard is not told a role.

The argument for the lists. What a page is comes first: of finitely many rows in one
order, the offsets are pairwise different and are all the numbers below how many rows
there are (`OffsetInjective`, `OffsetOnto`), so that a page with fewer rows than the
limit is the last, and one that is not the last is full (`PageLast`, `PageFull`).
A change after which every row is still there, in its place in the order, moves no row to
a lower offset (`OffsetMonotone`); a row that is ordered anew is a row that goes and another
that comes, since a row has in it what it is ordered by. On
this rest four invariants, inductive together.
`ReadingInv`: a request is where its list takes it, readings of the same suggestions
that have not ended know of each other, and a total covers the rows until its page is
read, unless something disturbed it; this is also why a client never asks beyond twice
the users, which `LTypeOK` needs. `ForgetInv`: without a failure, the set of interests
is empty whenever nobody reads them. `CoverInv`: of readings that know of no others and
whom nothing has disturbed, one has given the user who is on the list all along, or has
the user on the page it is about to give, or else the user is still ahead of *all* of
them, and is neither in Redis nor in what a merge has read from it. It must be all: the
user can be hidden from one only by what another has shown, which is then the one that
gives. `ApartInv`: what a reading of suggestions on its own has given is in Redis, from
its first page on, and on no page that it has filtered. A step of a request is first
reduced to what it does to the record of its reading and to Redis (the lemmas `AskStep`
to `ForgetStep`), and each invariant is then shown of that. `Complete` is `CoverInv` of
readings that have ended, which have nobody ahead.

Assumptions: the named `ASSUME`s of the nine modules (finite users, handlers and
addresses where they are counted, an order in which no two users are equal, `None`
distinct from other values, natural bounds, room for a user, a cache that keeps a user
for some time; TLC evaluates them in every run), and what the modelling itself assumes:
one Neo4j query or one MongoDB operation is atomic, a user has one node in the social
graph, and the instances share a clock. The last is generous to the code when hosts
drift.

Each inductive invariant was first checked by TLC, on instances of the size of the runs
or smaller, before it was proved. For the sync, whose unraced histories are few among
all, TLC went through these alone with 2 changes and a queue of 2 (1,386,106 states),
and `NothingForgotten` was checked with 2 failures (953,594 states). The four of the
lists were checked on the instance of the run, and with three readings of suggestions.

Out of the prover's reach, and left to TLC: liveness under fairness (`ViewsHeal`,
`EventuallyDelivered`), `ENABLED`, and what recursive definitions compute. Every
invariant, every action property and every refinement that the passing runs check is
also proved; no module with a theorem declares a recursive operator.

## 5. What is not modelled, and why

* The atomicity inside a Cypher query: under read-committed isolation two deletes
  of one relationship might both decrement. The database decides, not this code.
* Duplicate `User` nodes in the social graph: `UserSync` shows they can come to be,
  `SocialGraph` assumes they have not.
* Passwords, emails, hashes, signatures and tokens as data: only whether they match.
* Reads that are a single query and feed nothing: mutual followers, the interests of
  a user, user search, session, device and wallet lists, counts. The list of blocked
  users is one more list of the shape of `following`.
* What orders friends of friends inside a tier: the query leaves it to Neo4j.
* The bio of a profile, which is in MongoDB only.
* Follower snapshots: a cron that appends, and two listings.
* `cleanupExpiredSessions`, which nothing calls; the limits on sessions and devices per
  user, which nothing enforces (`auth.constants.ts`); the deletion of users
  deactivated for long.
* Bodies and their validation, templates, metrics, Swagger, health checks: no state.

## 6. Plan

Done, with proofs: **SocialGraph** with its promise **Relationships**, **Sessions**,
**UserSync** with its promise **Mirror**, **Accounts**, **Wallets**, **DeviceLogin**,
**Notifications**, **Routes**, **Gateway** and **Listings**.

Next, in this order:

1. **Notifications**: an abstract specification (saved, then delivered), with
   `NothingForgotten` as the invariant of its refinement.
2. **Wallets** and **Accounts**: the use of a nonce or a code as an abstract
   specification that both implement.
