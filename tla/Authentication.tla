--------------------------- MODULE Authentication ---------------------------
(****************************************************************************)
(* How users of the applications authenticate.                              *)
(****************************************************************************)
EXTENDS Integers, Sequences, FiniteSets, SequencesExt, FiniteSetsExt

(****************************************************************************)
(* The sessions of a user of the accounts application: the refresh tokens   *)
(* of its user record (users/user.js, the callbacks of app.js), the access  *)
(* tokens of session/server.js, the limit on failed logins (rate_limit.js)  *)
(* and the tabs of one browser that share its cookies (token/client.js).    *)
(* A step ends where the code awaits.  An update of a record of the store   *)
(* is atomic here, as key_value_store.js says of it (KeyValueStoreDisk      *)
(* shows the store on disk, which is not).  A reply may be lost.            *)
(****************************************************************************)
CONSTANTS
  Tabs,                \* tabs of the browser
  MaxSessionsPerUser,  \* options.maxSessionsPerUser
  AccessLifetime,      \* options.tokenAccessExpiresIn
  ReuseLifetime,       \* options.tokenAccessExpiresInReuse
  RefreshLifetime,     \* options.tokenRefreshLongTermExpiresIn
  Threshold, Window,   \* of the rate limiter
  AuthCalls,           \* bounds on the calls of a kind, one of these mixes
  MaxAuthTime          \* bound on the time

ASSUME SessionsAssumption ==
  /\ {MaxSessionsPerUser, Threshold, Window} \subseteq Nat \ {0}
  /\ {AccessLifetime, ReuseLifetime, RefreshLifetime, MaxAuthTime} \subseteq Nat
  /\ AuthCalls \subseteq [{"login", "refresh", "logout", "lost"} -> Nat]

VARIABLES
  userTokens,  \* tokens of the user: hash, expiration and, to tell them apart, the login
  accessList,  \* data.sessions, in the order of insertion
  failures,    \* timestamps of the rate limiter
  wrong,       \* times of the wrong passwords since a good one
  jar,         \* the cookies of the browser: hashes, 0 for none
  tab,         \* of a tab: whether it shows a session
  authCall,    \* of a tab: its refresh, login and logout under way
  replyLost,   \* a reply was lost
  authTime, authLeft, nextHash

sessionsVars == <<userTokens, accessList, failures, wrong, jar, tab, authCall, replyLost, authTime, authLeft, nextHash>>

Ops == {"refresh", "login", "logout"}
NoAuthCall == [pc |-> "idle", access |-> 0, refresh |-> 0, issued |-> 0, rolled |-> 0]

SessionsInit ==
  /\ userTokens = {} /\ accessList = <<>> /\ failures = <<>> /\ wrong = <<>>
  /\ jar = [access |-> 0, refresh |-> 0] /\ tab = [t \in Tabs |-> FALSE]
  /\ authCall = [t \in Tabs |-> [o \in Ops |-> NoAuthCall]]
  /\ authTime = 0 /\ authLeft \in AuthCalls /\ replyLost = FALSE /\ nextHash = 1

Go(t, o, call) == authCall' = [authCall EXCEPT ![t][o] = call]
GoTo(t, o, pc) == authCall' = [authCall EXCEPT ![t][o].pc = pc]
At(t, o, pc) == authCall[t][o].pc = pc
Count(o) == authLeft[o] > 0 /\ authLeft' = [authLeft EXCEPT ![o] = @ - 1]
Send(t, o, pc) ==
  /\ At(t, o, "idle") /\ Count(o)
  /\ Go(t, o, [NoAuthCall EXCEPT !.pc = pc, !.access = jar.access, !.refresh = jar.refresh])
  /\ UNCHANGED <<userTokens, accessList, failures, wrong, jar, tab, replyLost, authTime, nextHash>>

-----------------------------------------------------------------------------
\* The rate limiter.  isOverLimit(): entries of the window.
Recent(times, now) == SelectSeq(times, LAMBDA x : x > now - Window)
\* Mutant: one attempt more than the threshold.
OverLimitAbove == Len(Recent(failures, authTime)) > Threshold
OverLimit == Len(Recent(failures, authTime)) >= Threshold
\* record(): only the last entries up to the threshold are kept.
Recorded ==
  LET all == Append(Recent(failures, authTime), authTime)
  IN SubSeq(all, Max({1, Len(all) - Threshold + 1}), Len(all))

\* refresh(): the access token of the cookie is good for a while, or the refresh token is needed.
Verified(hash, least) ==
  \E i \in DOMAIN accessList : accessList[i].hash = hash /\ accessList[i].expires >= authTime + least
RefreshVerify(t) ==
  LET call == authCall[t]["refresh"] IN
  /\ At(t, "refresh", "verify")
  /\ Go(t, "refresh",
        IF Verified(call.access, ReuseLifetime) THEN [call EXCEPT !.pc = "reply", !.issued = call.access]
        ELSE [call EXCEPT !.pc = IF call.refresh = 0 THEN "refused" ELSE "user"])
  /\ UNCHANGED <<userTokens, accessList, failures, wrong, jar, tab, replyLost, authTime, authLeft, nextHash>>

TokenOf(hash) == {x \in userTokens : x.hash = hash}
\* refreshToken() of app.js: the user as it was read.
RefreshUser(t) ==
  /\ At(t, "refresh", "user")
  /\ GoTo(t, "refresh", IF \E x \in TokenOf(authCall[t]["refresh"].refresh) : authTime <= x.expires
                        THEN "roll" ELSE "refused")
  /\ UNCHANGED <<userTokens, accessList, failures, wrong, jar, tab, replyLost, authTime, authLeft, nextHash>>

\* rollToken(): within the update; an assertion fails when the hash is gone meanwhile.
\* Mutant: the assertion is not made, the token was read before.
MayRollAsRead(hash) == TRUE
MayRoll(hash) == TokenOf(hash) # {}
LoginOf(hash) == IF TokenOf(hash) = {} THEN 1 ELSE (CHOOSE x \in TokenOf(hash) : TRUE).login
ExpiryOf(hash) == IF TokenOf(hash) = {} THEN authTime ELSE (CHOOSE x \in TokenOf(hash) : TRUE).expires
Rolled(hash, hashNext) ==
  (userTokens \ TokenOf(hash)) \cup
  {[hash |-> hashNext, login |-> LoginOf(hash), expires |-> Max({ExpiryOf(hash), authTime + AccessLifetime})]}
\* Mutant: the reply names the token that was presented.
RepliedHashOld(hash, hashNext) == hash
RepliedHash(hash, hashNext) == hashNext
RefreshRoll(t) ==
  LET call == authCall[t]["refresh"] IN
  /\ At(t, "refresh", "roll")
  /\ IF MayRoll(call.refresh)
     THEN /\ userTokens' = Rolled(call.refresh, nextHash) /\ nextHash' = nextHash + 1
          /\ Go(t, "refresh", [call EXCEPT !.pc = "access", !.rolled = RepliedHash(call.refresh, nextHash)])
     ELSE GoTo(t, "refresh", "refused") /\ UNCHANGED <<userTokens, nextHash>>
  /\ UNCHANGED <<accessList, failures, wrong, jar, tab, replyLost, authTime, authLeft>>

-----------------------------------------------------------------------------
\* _makeAccessToken(): the first token that lasts long enough is used again ...
MakeAccess(t, o) ==
  LET good == {i \in DOMAIN accessList : accessList[i].expires - authTime >= ReuseLifetime} IN
  /\ At(t, o, "access")
  /\ IF good = {} THEN GoTo(t, o, "insert")
     ELSE Go(t, o, [authCall[t][o] EXCEPT !.pc = "reply", !.issued = accessList[Min(good)].hash])
  /\ UNCHANGED <<userTokens, accessList, failures, wrong, jar, tab, replyLost, authTime, authLeft, nextHash>>

\* ... or a new one is inserted.  The entries are compared by a field they do not have, so that
\* the sort keeps the order of insertion and the last ones are dropped.
\* Mutant: one entry too many.
EvictedLate == IF Len(accessList) > MaxSessionsPerUser THEN SubSeq(accessList, 1, MaxSessionsPerUser - 1) ELSE accessList
Evicted == IF Len(accessList) >= MaxSessionsPerUser THEN SubSeq(accessList, 1, MaxSessionsPerUser - 1) ELSE accessList
InsertAccess(t, o) ==
  /\ At(t, o, "insert")
  /\ accessList' = Append(Evicted, [hash |-> nextHash, expires |-> authTime + AccessLifetime])
  /\ nextHash' = nextHash + 1
  /\ Go(t, o, [authCall[t][o] EXCEPT !.pc = "reply", !.issued = nextHash])
  /\ UNCHANGED <<userTokens, failures, wrong, jar, tab, replyLost, authTime, authLeft>>

-----------------------------------------------------------------------------
\* verifyIdentity() and _login().
LoginLimit(t) ==
  /\ At(t, "login", "limit") /\ GoTo(t, "login", IF OverLimit THEN "refused" ELSE "check")
  /\ UNCHANGED <<userTokens, accessList, failures, wrong, jar, tab, replyLost, authTime, authLeft, nextHash>>
LoginWrong(t) ==
  /\ At(t, "login", "check") /\ GoTo(t, "login", "refused")
  /\ failures' = Recorded /\ wrong' = Append(wrong, authTime)
  /\ UNCHANGED <<userTokens, accessList, jar, tab, replyLost, authTime, authLeft, nextHash>>
LoginRight(t) ==
  /\ At(t, "login", "check") /\ GoTo(t, "login", "save")
  /\ failures' = <<>> /\ wrong' = <<>>
  /\ UNCHANGED <<userTokens, accessList, jar, tab, replyLost, authTime, authLeft, nextHash>>
\* saveRefreshToken(): the new token is added, expired ones are removed.
LoginSave(t) ==
  /\ At(t, "login", "save")
  /\ userTokens' = {x \in userTokens : authTime <= x.expires} \cup
                   {[hash |-> nextHash, login |-> nextHash, expires |-> authTime + RefreshLifetime]}
  /\ nextHash' = nextHash + 1
  /\ Go(t, "login", [authCall[t]["login"] EXCEPT !.pc = "access", !.rolled = nextHash])
  /\ UNCHANGED <<accessList, failures, wrong, jar, tab, replyLost, authTime, authLeft>>

\* The reply: its cookies, and setSession() or clearSession() of the tab.  The login sets no
\* cookie for the access token.
Reply(t, o) ==
  LET call == authCall[t][o] IN
  /\ call.pc \in {"reply", "refused"} /\ Go(t, o, NoAuthCall)
  /\ jar' = [access |-> IF call.pc = "reply" /\ o = "refresh" THEN call.issued ELSE jar.access,
             refresh |-> IF call.pc = "reply" /\ call.rolled # 0 THEN call.rolled ELSE jar.refresh]
  /\ tab' = [tab EXCEPT ![t] = IF o = "login" /\ call.pc = "refused" THEN @ ELSE call.pc = "reply"]
  /\ UNCHANGED <<userTokens, accessList, failures, wrong, replyLost, authTime, authLeft, nextHash>>
ReplyLost(t) ==
  /\ authCall[t]["refresh"].pc \in {"reply", "refused"} /\ Go(t, "refresh", NoAuthCall)
  /\ Count("lost") /\ replyLost' = TRUE /\ tab' = [tab EXCEPT ![t] = FALSE]
  /\ UNCHANGED <<userTokens, accessList, failures, wrong, jar, authTime, nextHash>>

-----------------------------------------------------------------------------
\* The logout is answered, with the cookies deleted, before clearSession() of the server has
\* removed the access token and then the refresh token.
LogoutReply(t) ==
  /\ At(t, "logout", "reply") /\ GoTo(t, "logout", "clearAccess")
  /\ jar' = [access |-> 0, refresh |-> 0] /\ tab' = [tab EXCEPT ![t] = FALSE]
  /\ UNCHANGED <<userTokens, accessList, failures, wrong, replyLost, authTime, authLeft, nextHash>>
LogoutAccess(t) ==
  /\ At(t, "logout", "clearAccess") /\ GoTo(t, "logout", "clearRefresh")
  /\ accessList' = SelectSeq(accessList, LAMBDA x : x.hash # authCall[t]["logout"].access)
  /\ UNCHANGED <<userTokens, failures, wrong, jar, tab, replyLost, authTime, authLeft, nextHash>>
LogoutRefresh(t) ==
  /\ At(t, "logout", "clearRefresh") /\ Go(t, "logout", NoAuthCall)
  /\ userTokens' = userTokens \ TokenOf(authCall[t]["logout"].refresh)
  /\ UNCHANGED <<accessList, failures, wrong, jar, tab, replyLost, authTime, authLeft, nextHash>>

TimePasses ==
  /\ authTime < MaxAuthTime /\ authTime' = authTime + 1
  /\ UNCHANGED <<userTokens, accessList, failures, wrong, jar, tab, replyLost, authCall, authLeft, nextHash>>

SessionsNext ==
  \/ TimePasses
  \/ \E t \in Tabs :
       \/ Send(t, "refresh", "verify") \/ Send(t, "login", "limit") \/ Send(t, "logout", "reply")
       \/ RefreshVerify(t) \/ RefreshUser(t) \/ RefreshRoll(t) \/ ReplyLost(t)
       \/ LoginLimit(t) \/ LoginWrong(t) \/ LoginRight(t) \/ LoginSave(t)
       \/ LogoutReply(t) \/ LogoutAccess(t) \/ LogoutRefresh(t)
       \/ \E o \in {"refresh", "login"} : MakeAccess(t, o) \/ InsertAccess(t, o) \/ Reply(t, o)

-----------------------------------------------------------------------------
\* However many refreshes of a token run at once, a login has one refresh token: the others
\* fail in rollToken() (user.js:332).
OneTokenPerLogin == \A x, y \in userTokens : x.login = y.login => x = y

\* The browser does not lose its session: the refresh token of its cookie is known to the
\* server, or expired, whatever the order of the replies, unless one was lost.
BrowserKeepsSession ==
  (~replyLost /\ \A t \in Tabs : At(t, "logout", "idle")) =>
    \/ jar.refresh = 0 \/ TokenOf(jar.refresh) # {}
    \/ \E t \in Tabs : authCall[t]["refresh"].rolled # 0 \/ authCall[t]["login"].rolled # 0
    \/ authTime > RefreshLifetime

\* The access tokens of a user are bounded (server.js:278), also by logins at the same time.
SessionsBounded == Len(accessList) <= MaxSessionsPerUser

\* "Remove the sessions that will expire the first if too many." (server.js:276)
\* Not satisfied: the sort compares the expirations of pairs, which have none, so that the
\* order of insertion stays and the newest go.
FirstToExpireEvicted ==
  [][\A t \in Tabs, o \in {"refresh", "login"} : InsertAccess(t, o) =>
       \A x \in Range(accessList) \ Range(accessList'), y \in Range(accessList) \cap Range(accessList') :
         x.expires <= y.expires]_sessionsVars

\* The wrong passwords tried within a window: the limit is looked at before the password is,
\* so that each other login under way adds at most one to the threshold (app.js:105-133).
AttemptsBounded == Len(Recent(wrong, authTime)) <= Threshold + Cardinality(Tabs) - 1

-----------------------------------------------------------------------------
(****************************************************************************)
(* The authentication by signed tokens (core/authentication/token/          *)
(* server.js) and the scopes of a session (core/authentication/scopes.js,   *)
(* server.js).  One user, whose sessions the application may end: it is     *)
(* asked by options.refreshToken() (external) each time tokens are made.    *)
(* A scope is a sequence of characters, "/" separates its parts.            *)
(****************************************************************************)
CONSTANTS
  TokenCalls,        \* requests
  MaxJwtTime,        \* bound: time
  AccessExpiresIn,   \* tokenAccessExpiresIn
  ShortExpiresIn,    \* tokenRefreshShortTermExpiresIn
  LongExpiresIn,     \* tokenRefreshLongTermExpiresIn
  ScopeTexts,        \* scopes
  ScopeKeys          \* keys of a dictionary that is guarded by scopes

VARIABLES
  jwtTime,
  loggedIn,       \* sessions that were made: when they began; when the application ended them, or -1
  refreshCookie,  \* the cookie of the browser: the session, persistent, when it expires; session 0 is none
  accessTokens,   \* access tokens given: the session and when they expire
  tokenCalls,     \* request -> its step and what it knows
  scopeCase       \* scopes of a session, scopes asked for, a dictionary and its guards

jwtVars == <<jwtTime, loggedIn, refreshCookie, accessTokens, tokenCalls>>
tokenServerVars == <<jwtVars, scopeCase>>

NoCookie == [session |-> 0, persistent |-> FALSE, expires |-> 0]
NoTokenCall == [at |-> "none", token |-> NoCookie]

-----------------------------------------------------------------------------
(* Tokens.                                                                  *)

RefreshExpiresIn(persistent) == IF persistent THEN LongExpiresIn ELSE ShortExpiresIn
\* generateRefreshToken(): signed before the application is asked.
RefreshToken(session, persistent) == [session |-> session, persistent |-> persistent, expires |-> jwtTime + RefreshExpiresIn(persistent)]
\* /auth/login: a user whose identity is verified begins a session.
JwtLogin(c, persistent) ==
  /\ tokenCalls[c].at = "none"
  /\ loggedIn' = Append(loggedIn, -1)
  /\ tokenCalls' = [tokenCalls EXCEPT ![c] = [at |-> "ask", token |-> RefreshToken(Len(loggedIn) + 1, persistent)]]
  /\ UNCHANGED <<jwtTime, refreshCookie, accessTokens>>
\* Identity refused, or too many attempts.
JwtLoginRefused(c) ==
  /\ tokenCalls[c].at = "none" /\ tokenCalls' = [tokenCalls EXCEPT ![c].at = "refused"]
  /\ UNCHANGED <<jwtTime, loggedIn, refreshCookie, accessTokens>>
\* /auth/refresh: the token of the cookie must be valid.
JwtRefresh(c) ==
  /\ tokenCalls[c].at = "none"
  /\ tokenCalls' = [tokenCalls EXCEPT ![c] =
       IF refreshCookie.session = 0 \/ refreshCookie.expires <= jwtTime THEN [NoTokenCall EXCEPT !.at = "refused"]
       ELSE [at |-> "ask", token |-> RefreshToken(refreshCookie.session, refreshCookie.persistent)]]
  /\ UNCHANGED <<jwtTime, loggedIn, refreshCookie, accessTokens>>
\* generateTokens(): options.refreshToken() refuses a session that was ended; then the cookie is set.
\* Mutant: the application is only told.
MayHaveTokensTold(session) == TRUE
MayHaveTokens(session) == loggedIn[session] = -1
JwtAsked(c) ==
  /\ tokenCalls[c].at = "ask"
  /\ LET t == tokenCalls[c].token
     IN  IF MayHaveTokens(t.session)
           THEN tokenCalls' = [tokenCalls EXCEPT ![c].at = "access"] /\ refreshCookie' = t
           ELSE tokenCalls' = [tokenCalls EXCEPT ![c].at = "refused"] /\ UNCHANGED refreshCookie
  /\ UNCHANGED <<jwtTime, loggedIn, accessTokens>>
\* generateAccessToken().
JwtAccess(c) ==
  /\ tokenCalls[c].at = "access" /\ tokenCalls' = [tokenCalls EXCEPT ![c].at = "answered"]
  /\ accessTokens' = accessTokens \cup {[session |-> tokenCalls[c].token.session, expires |-> jwtTime + AccessExpiresIn]}
  /\ UNCHANGED <<jwtTime, loggedIn, refreshCookie>>
\* /auth/logout: the cookie only.
JwtLogout(c) ==
  /\ tokenCalls[c].at = "none" /\ tokenCalls' = [tokenCalls EXCEPT ![c].at = "answered"]
  /\ refreshCookie' = NoCookie
  /\ UNCHANGED <<jwtTime, loggedIn, accessTokens>>
SessionEnded(s) ==
  /\ loggedIn[s] = -1 /\ loggedIn' = [loggedIn EXCEPT ![s] = jwtTime]
  /\ UNCHANGED <<jwtTime, refreshCookie, accessTokens, tokenCalls>>
\* Signing takes no time at the scale of the lifetimes.
JwtTick ==
  /\ jwtTime < MaxJwtTime /\ jwtTime' = jwtTime + 1 /\ \A c \in TokenCalls : tokenCalls[c].at # "access"
  /\ UNCHANGED <<loggedIn, refreshCookie, accessTokens, tokenCalls>>

-----------------------------------------------------------------------------
(* Scopes.                                                                  *)

\* contains(): a scope of the list is the beginning, up to the end of a part.
\* Mutant: a scope of the list is the beginning.
CoversText(o, scope) == IsPrefix(o, scope)
Covers(o, scope) ==
  /\ IsPrefix(o, scope)
  /\ Last(o) = "/" \/ Len(scope) = Len(o) \/ scope[Len(o) + 1] = "/"
ScopesContain(scopes, scope) == \E o \in scopes : o # <<>> /\ Covers(o, scope)
MatchAny(scopes, any) == \E scope \in any : ScopesContain(scopes, scope)
\* checkValid(), the condition of makeSSOToken().
\* Mutant: what a scope of the list begins with is valid as well.
CheckValidEither(scopes, asked) == \A scope \in asked : ScopesContain(scopes, scope) \/ \E o \in scopes : IsPrefix(scope, o)
CheckValid(scopes, asked) == \A scope \in asked : ScopesContain(scopes, scope)
\* filterDictionary() and checkDictionary(): the keys that are kept, and whether all of them may be set.
FilterDictionary(scopes, keys, guards) == {k \in DOMAIN guards : MatchAny(scopes, guards[k])} \cap keys
\* Mutant: a key without a guard may be set.
CheckDictionaryGuarded(scopes, keys, guards) == \A k \in keys \cap DOMAIN guards : MatchAny(scopes, guards[k])
CheckDictionary(scopes, keys, guards) == \A k \in keys : k \in DOMAIN guards /\ MatchAny(scopes, guards[k])

ScopeAsked(has, asked, guarded) ==
  /\ scopeCase.at = "none"
  /\ scopeCase' = [at |-> "asked", has |-> has, asked |-> asked, guarded |-> guarded]

-----------------------------------------------------------------------------
TokenServerInit ==
  /\ jwtTime = 0 /\ loggedIn = <<>> /\ refreshCookie = NoCookie /\ accessTokens = {}
  /\ tokenCalls = [c \in TokenCalls |-> NoTokenCall]
  /\ scopeCase = [at |-> "none", has |-> {}, asked |-> {}, guarded |-> {}]
TokenServerNext ==
  \/ /\ scopeCase.at = "none" /\ UNCHANGED scopeCase
     /\ \/ \E c \in TokenCalls : \/ \E p \in BOOLEAN : JwtLogin(c, p)
                                 \/ JwtLoginRefused(c) \/ JwtRefresh(c) \/ JwtAsked(c) \/ JwtAccess(c) \/ JwtLogout(c)
        \/ \E s \in DOMAIN loggedIn : SessionEnded(s)
        \/ JwtTick
  \* The scopes are looked at on their own.
  \/ /\ jwtTime = 0 /\ loggedIn = <<>> /\ tokenCalls = [c \in TokenCalls |-> NoTokenCall] /\ UNCHANGED jwtVars
     /\ \E o, q \in ScopeTexts, guarded \in SUBSET ScopeKeys : ScopeAsked({o}, {q}, guarded)

-----------------------------------------------------------------------------
\* Once the application has ended a session, whatever was under way, an access token of it lives no longer than the
\* lifetime of one token.
EndedSessionExpires ==
  \A t \in accessTokens : loggedIn[t.session] # -1 => t.expires <= loggedIn[t.session] + AccessExpiresIn

\* The parts of a scope.
PartsOf(s) ==
  LET cuts == SetToSortSeq({0, Len(s) + 1} \cup {i \in DOMAIN s : s[i] = "/"}, <)
  IN  [i \in 1 .. Len(cuts) - 1 |-> SubSeq(s, cuts[i] + 1, cuts[i + 1] - 1)]
\* A scope covers the paths below it, part by part: "/a" covers "/a/b" but not "/ab"; one that ends with "/" covers
\* only what is below.
ScopesByPart ==
  scopeCase.at = "asked" =>
    \A o \in scopeCase.has \ {<<>>}, q \in scopeCase.asked :
      Covers(o, q) <=> IF Last(o) = "/" THEN IsPrefix(Front(PartsOf(o)), PartsOf(q)) /\ Len(PartsOf(q)) >= Len(PartsOf(o))
                                        ELSE IsPrefix(PartsOf(o), PartsOf(q))

\* The session that makeSSOToken() makes for scopes that are valid contains nothing that the session has not.
NoWiderScopes ==
  scopeCase.at = "asked" /\ CheckValid(scopeCase.has, scopeCase.asked) =>
    \A scope \in ScopeTexts : ScopesContain(scopeCase.asked, scope) => ScopesContain(scopeCase.has, scope)

\* What checkDictionary() lets through is what filterDictionary() keeps.
CheckedIsKept ==
  scopeCase.at = "asked" =>
    LET guards == [k \in scopeCase.guarded |-> scopeCase.asked]
    IN  CheckDictionary(scopeCase.has, ScopeKeys, guards) => FilterDictionary(scopeCase.has, ScopeKeys, guards) = ScopeKeys


-----------------------------------------------------------------------------
\* The sessions and tokens of a user: logins, refreshes and logouts of several tabs, lost replies,
\* the limits on sessions and attempts, and the scopes that guard a dictionary.
AuthenticationSafe ==
  /\ OneTokenPerLogin
  /\ BrowserKeepsSession
  /\ SessionsBounded
  /\ AttemptsBounded
  /\ EndedSessionExpires
  /\ ScopesByPart
  /\ NoWiderScopes
  /\ CheckedIsKept
=============================================================================
