------------------------------- MODULE Routes -------------------------------
(***************************************************************************)
(* What the API gateway and the services declare about each operation that *)
(* the gateway offers (apps/api-gateway/src/modules): its guard and its    *)
(* limit, whether the gateway relays it with the token of the client, and  *)
(* what guard the service has on the route it is relayed to.  The four     *)
(* lists are written in different files, of different programs, and have   *)
(* to agree.                                                               *)
(*                                                                         *)
(* An operation has the name of the gateway's method.                      *)
(***************************************************************************)

\* Key prefixes of the windows.  A limit "none" is no decorator.
Limits ==
  {"auth:login", "auth:register", "auth:sendEmailVerification", "auth:forgot",
   "auth:verify", "user", "user:strict", "user:burst", "admin", "ip", "ip:strict", "none"}

Offer(guard, limit, names) == {[name |-> n, guard |-> guard, limit |-> limit] : n \in names}

-----------------------------------------------------------------------------
(* The gateway's controllers *)

LoginRoutes == Offer("none", "auth:login", {"login"})

RegisterRoutes ==
  Offer("none", "auth:register", {"register"})
    \cup Offer("none", "auth:verify", {"verifyEmail"})
    \cup Offer("none", "auth:sendEmailVerification", {"sendEmailVerification"})

FingerprintRoutes ==
  Offer("none", "auth:sendEmailVerification",
        {"verifyFingerprint", "resendDeviceFingerprintEmailVerification"})

RefreshRoutes == Offer("none", "user:burst", {"refreshSession", "logout"})

SessionRoutes ==
  Offer("fingerprint", "user:strict", {"revokeSession"})
    \cup Offer("fingerprint", "user", {"getCurrentUser", "getActiveSessions"})
    \cup Offer("fingerprint", "user:burst", {"revokeAllSessions"})
    \cup Offer("none", "user", {"validateAccess"})

SsoRoutes ==
  Offer("fingerprint", "user", {"createSsoToken"}) \cup Offer("none", "user", {"validateSsoToken"})

PasswordRoutes == Offer("fingerprint", "user:strict", {"changePassword"})

\* The upper one of two limits holds: decorators apply from below.
ForgotPasswordRoutes ==
  Offer("none", "auth:forgot", {"initiateForgotPassword"})
    \cup Offer("none", "user:strict", {"verifyEmailForgotPassword", "changeForgotPassword"})

DeviceRoutes ==
  Offer("fingerprint", "user", {"getDeviceFingerprints"})
    \cup Offer("fingerprint", "user:strict", {"revokeDeviceFingerprint"})

InfoRoutes ==
  Offer("none", "user", {"existUserByEmailOrUsername", "getUserInfoByAccessToken"})
    \cup Offer("fingerprint", "user", {"getUserInfoByUserId", "getUserInfoByEmailOrUsername"})

TwoFactorRoutes ==
  Offer("fingerprint", "user", {"statusOtp"})
    \cup Offer("fingerprint", "user:strict", {"setupOtp", "enableOtp", "disableOtp"})

TwoFactorLoginRoutes ==
  Offer("none", "user:strict", {"loginVerifyOtp", "fingerprintTrustVerifyOtp"})

AuthHealthRoutes == Offer("none", "user", {"authHealth"})

ProfileRoutes ==
  Offer("fingerprint", "user", {"getMyProfile"})
    \cup Offer("none", "none", {"getUserProfile"})
    \cup Offer("fingerprint", "user:strict", {"updateDisplayName", "updateBio", "updateAvatar"})
    \cup Offer("fingerprint", "admin", {"updateRole"})

UsernameRoutes ==
  Offer("fingerprint", "user:strict",
        {"changeUsernameInitiate", "changeUsernameVerifyEmail", "changeUsername"})

EmailRoutes ==
  Offer("fingerprint", "user:strict",
        {"changeEmailInitiate", "changeEmailVerifyEmail", "newEmailInitiate", "newEmailVerify"})

SearchRoutes ==
  Offer("token", "user", {"search"})
    \cup Offer("fingerprint", "user", {"searchExistingUsername", "searchExistingEmail"})

AccountRoutes ==
  Offer("fingerprint", "user:strict", {"deactivateAccount"})
    \cup Offer("token", "user:strict", {"reactivateAccount"})

WalletLoginRoutes ==
  Offer("none", "ip:strict", {"generateLoginChallenge", "validateLoginChallenge"})

LinkRoutes ==
  Offer("fingerprint", "user:strict",
        {"generateLinkChallenge", "validateLinkChallenge", "unlinkWallet"})
    \cup Offer("fingerprint", "user", {"getWallets", "getWalletsByUserId"})

PrimaryRoutes ==
  Offer("fingerprint", "user:strict",
        {"generatePrimaryWalletChallenge", "validatePrimaryWalletChallenge", "unsetPrimaryWallet"})
    \cup Offer("fingerprint", "user", {"getPrimaryWallet", "getPrimaryWalletByUserId"})

RelationshipUserRoutes ==
  Offer("none", "none", {"relationshipHealth"}) \cup Offer("none", "ip", {"getUser"})

FollowRoutes ==
  Offer("fingerprint", "user",
        {"follow", "unfollow", "removeFollower", "getFollowing", "getFollowingByUserId",
         "getFollowers", "getFollowersByUserId"})

BlockRoutes == Offer("fingerprint", "user", {"block", "unblock", "getBlockedUsers"})

FindRoutes ==
  Offer("fingerprint", "user",
        {"getMutualFollowers", "searchFollowers", "searchFollowing", "getSuggestions"})

InterestRoutes ==
  Offer("fingerprint", "user", {"createUserInterests", "getUserInterests", "getInterestSuggestUser"})

SnapshotRoutes ==
  Offer("fingerprint", "user", {"triggerSnapshot"})
    \cup Offer("none", "ip", {"getFollowersSnapshotLastMonth"})

\* The guard is on the class; "Public" is not asked for by this one.
NotificationRoutes ==
  Offer("fingerprint", "none", {"notificationHealth"})
    \cup Offer("fingerprint", "user",
               {"getUserNotifications", "markAsRead", "markAsReadAll", "getUnreadCount"})

Routes ==
  UNION {LoginRoutes, RegisterRoutes, FingerprintRoutes, RefreshRoutes, SessionRoutes, SsoRoutes,
         PasswordRoutes, ForgotPasswordRoutes, DeviceRoutes, InfoRoutes, TwoFactorRoutes,
         TwoFactorLoginRoutes, AuthHealthRoutes, ProfileRoutes, UsernameRoutes, EmailRoutes,
         SearchRoutes, AccountRoutes, WalletLoginRoutes, LinkRoutes, PrimaryRoutes,
         RelationshipUserRoutes, FollowRoutes, BlockRoutes, FindRoutes, InterestRoutes,
         SnapshotRoutes, NotificationRoutes}

\* Roles("admin").
AdminRoutes == {"updateRole", "triggerSnapshot"}

\* Answered by the gateway alone.
LocalRoutes == {"getCurrentUser"}

-----------------------------------------------------------------------------
(* The gateway's services: the operations they relay with the client's token *)

SignInRelays == {}

LogoutRelays == {"logout", "revokeSession"}

SessionRelays == {"getActiveSessions", "revokeAllSessions", "validateAccess", "createSsoToken"}

PasswordRelays == {"changePassword"}

InfoRelays ==
  {"getDeviceFingerprints", "revokeDeviceFingerprint", "getUserInfoByAccessToken",
   "getUserInfoByUserId", "getUserInfoByEmailOrUsername"}

TwoFactorRelays == {"statusOtp", "setupOtp", "enableOtp", "disableOtp"}

ProfileRelays ==
  {"getMyProfile", "getUserProfile", "updateDisplayName", "updateBio", "updateAvatar", "updateRole"}

UsernameRelays == {"changeUsernameInitiate", "changeUsernameVerifyEmail", "changeUsername"}

EmailRelays ==
  {"changeEmailInitiate", "changeEmailVerifyEmail", "newEmailInitiate", "newEmailVerify"}

SearchRelays ==
  {"search", "searchExistingUsername", "searchExistingEmail", "deactivateAccount", "reactivateAccount"}

LinkRelays ==
  {"generateLoginChallenge", "validateLoginChallenge", "generateLinkChallenge",
   "validateLinkChallenge", "unlinkWallet", "getWallets"}

PrimaryRelays ==
  {"generatePrimaryWalletChallenge", "validatePrimaryWalletChallenge", "unsetPrimaryWallet",
   "getPrimaryWallet", "getPrimaryWalletByUserId"}

RelationshipRelays ==
  {"getUser", "follow", "unfollow", "removeFollower", "getFollowing", "getFollowingByUserId",
   "getFollowers", "getFollowersByUserId", "block", "unblock", "getBlockedUsers",
   "getMutualFollowers", "searchFollowers", "searchFollowing", "getSuggestions",
   "createUserInterests", "getUserInterests", "getInterestSuggestUser", "triggerSnapshot",
   "getFollowersSnapshotLastMonth"}

NotificationRelays == {"getUserNotifications", "markAsRead", "markAsReadAll", "getUnreadCount"}

Relays ==
  UNION {SignInRelays, LogoutRelays, SessionRelays, PasswordRelays, InfoRelays, TwoFactorRelays,
         ProfileRelays, UsernameRelays, EmailRelays, SearchRelays, LinkRelays, PrimaryRelays,
         RelationshipRelays, NotificationRelays}

-----------------------------------------------------------------------------
(* The gateway's clients: the calls that carry the token they are given *)

\* By the client's post, with a configuration of the caller's.
DirectCalls == {"logout", "revokeSession", "revokeAllSessions", "changePassword"}

SessionCalls == {"getActiveSessions", "validateAccess", "createSsoToken"}

InfoCalls ==
  {"getUserInfoByAccessToken", "getUserInfoByUserId", "getUserInfoByEmailOrUsername",
   "getDeviceFingerprints", "revokeDeviceFingerprint"}

\* Faulty: a call without its headers.
TwoFactorCallsBare == {"statusOtp", "setupOtp", "disableOtp"}

TwoFactorCalls == {"statusOtp", "setupOtp", "enableOtp", "disableOtp"}

ProfileCalls == ProfileRelays

AccountCalls == UsernameRelays \cup EmailRelays

SearchCalls == SearchRelays

WalletCalls == LinkRelays \cup PrimaryRelays

FollowCalls ==
  {"getUser", "follow", "unfollow", "removeFollower", "getFollowing", "getFollowingByUserId",
   "getFollowers", "getFollowersByUserId"}

BlockCalls == {"block", "unblock", "getBlockedUsers", "getMutualFollowers"}

FindCalls ==
  {"searchFollowers", "searchFollowing", "getSuggestions", "createUserInterests",
   "getUserInterests", "getInterestSuggestUser", "triggerSnapshot", "getFollowersSnapshotLastMonth"}

NotificationCalls == NotificationRelays

Calls ==
  UNION {DirectCalls, SessionCalls, InfoCalls, TwoFactorCalls, ProfileCalls, AccountCalls,
         SearchCalls, WalletCalls, FollowCalls, BlockCalls, FindCalls, NotificationCalls}

Carries(n) == n \in Relays \cap Calls

-----------------------------------------------------------------------------
(* The services' controllers: who asks for a token *)

\* Guarded by the auth service, which looks at the session each time.
AuthDeviceGuarded == {"getDeviceFingerprints", "revokeDeviceFingerprint"}

AuthSessionGuarded == {"getActiveSessions", "revokeSession"}

AuthGuarded ==
  {"createSsoToken", "changePassword", "getUserInfoByUserId", "getUserInfoByEmailOrUsername"}

AuthTwoFactorGuarded == {"statusOtp", "setupOtp", "enableOtp", "disableOtp"}

\* Guarded by the other services, which keep a token's user for five minutes.
UserGuarded ==
  {"getMyProfile", "updateDisplayName", "updateBio", "updateAvatar", "changeUsernameInitiate",
   "changeUsernameVerifyEmail", "changeUsername", "changeEmailInitiate", "changeEmailVerifyEmail",
   "newEmailInitiate", "newEmailVerify"}

UserSearchGuarded ==
  {"search", "searchExistingUsername", "searchExistingEmail", "deactivateAccount", "reactivateAccount"}

WalletGuarded ==
  {"generateLinkChallenge", "validateLinkChallenge", "unlinkWallet", "getWallets",
   "generatePrimaryWalletChallenge", "validatePrimaryWalletChallenge", "unsetPrimaryWallet",
   "getPrimaryWallet"}

FollowGuarded ==
  {"follow", "unfollow", "removeFollower", "getFollowing", "getFollowingByUserId",
   "getFollowers", "getFollowersByUserId", "block", "unblock", "getBlockedUsers"}

FindGuarded ==
  {"getMutualFollowers", "searchFollowers", "searchFollowing", "getSuggestions",
   "createUserInterests", "getUserInterests", "getInterestSuggestUser", "triggerSnapshot"}

NotificationGuarded == NotificationRelays

\* The service looks at a token that comes, and goes on without.
Optional == {"getUser"}

\* No service has the route.
Missing == {"revokeAllSessions", "relationshipHealth"}

Target(n) ==
  CASE n \in LocalRoutes -> "local"
    [] n \in Missing -> "missing"
    [] n \in Optional -> "optional"
    [] n \in UNION {AuthDeviceGuarded, AuthSessionGuarded, AuthGuarded, AuthTwoFactorGuarded}
         -> "session"
    [] n \in UNION {UserGuarded, UserSearchGuarded, WalletGuarded, FollowGuarded, FindGuarded,
                    NotificationGuarded} -> "token"
    [] OTHER -> "open"

Targets == {"local", "missing", "optional", "session", "token", "open"}

\* What becomes of a request depends on this only.
Kind(r) ==
  [limit |-> r.limit, guard |-> r.guard, admin |-> r.name \in AdminRoutes,
   target |-> Target(r.name), carries |-> Carries(r.name)]

Kinds == {Kind(r) : r \in Routes}

=============================================================================
