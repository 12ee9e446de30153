------------------------------ MODULE Accounts ------------------------------
(****************************************************************************)
(* The users of the accounts application, the actions they confirm by       *)
(* mail, and the pages of the administrator.                                *)
(****************************************************************************)
EXTENDS Integers, FiniteSets, SequencesExt, FiniteSetsExt

(****************************************************************************)
(* The account of one email address in the accounts application: creation,  *)
(* deletion, change and reset of the password (users/users.js, users/user.js*)
(* and the REST handlers of app.js).  Handlers overlap; each request to the *)
(* store is a step.  users.update() is one step as well: the store calls    *)
(* the modifier again when the document changed (Databases).                *)
(****************************************************************************)
CONSTANTS
  UserCalls,        \* calls of the handlers
  Passwords,        \* passwords; a password stands for its hash
  ResetWindow,      \* one hour, between two resets and as the life of a token
  MaxUserTime       \* bound: the clock

ASSUME UsersAssumption == ResetWindow \in Nat \ {0} /\ MaxUserTime \in Nat

VARIABLES
  account,      \* the document, or NoUser
  userCalls,    \* call -> its handler, where it is and what it read
  userClock,
  issued,       \* reset tokens that were sent: their number and time
  uses          \* token -> number of password changes it allowed

usersVars == <<account, userCalls, userClock, issued, uses>>

NoUser == [password |-> "none", token |-> 0, expiration |-> 0, lastReset |-> -1, role |-> FALSE, exists |-> FALSE]
\* create() of user.js.
NewUser == [NoUser EXCEPT !.exists = TRUE]
IdleCall == [pc |-> "idle", token |-> 0, password |-> "none"]

UsersInit ==
  /\ account = NoUser /\ userCalls = [c \in UserCalls |-> IdleCall] /\ userClock = 0
  /\ issued = {} /\ uses = [t \in 1 .. Cardinality(UserCalls) |-> 0]

Ended(c) == [userCalls EXCEPT ![c].pc = "ended"]
Goes(c, pc) == [userCalls EXCEPT ![c].pc = pc]

-----------------------------------------------------------------------------
(* Creation: the user must not exist, is stored, and gets its role.         *)

CreateReads(c) ==
  /\ userCalls[c].pc = "idle" /\ userCalls' = IF account.exists THEN Ended(c) ELSE Goes(c, "create")
  /\ UNCHANGED <<account, userClock, issued, uses>>
CreateStores(c) ==
  /\ userCalls[c].pc = "create" /\ account' = NewUser /\ userCalls' = Goes(c, "role") /\ UNCHANGED <<userClock, issued, uses>>

\* users.update(): without a user the modifier throws, and the handler ends.
\* Mutant: a missing user is updated as an empty one.
UpdatedMissing(value) == [value EXCEPT !.exists = TRUE]
Updated(value) == IF account.exists THEN value ELSE account
CreateAddsRole(c) ==
  /\ userCalls[c].pc = "role" /\ account' = Updated([account EXCEPT !.role = TRUE]) /\ userCalls' = Ended(c)
  /\ UNCHANGED <<userClock, issued, uses>>

-----------------------------------------------------------------------------
(* Deletion, by an administrator or by the user with the password.          *)

DeleteByAdmin(c) ==
  /\ userCalls[c].pc = "idle" /\ account.exists /\ account' = NoUser /\ userCalls' = Ended(c)
  /\ UNCHANGED <<userClock, issued, uses>>
DeleteReads(c, p) ==
  /\ userCalls[c].pc = "idle" /\ account.exists
  /\ userCalls' = IF account.password = p THEN [userCalls EXCEPT ![c].pc = "delete", ![c].password = p] ELSE Ended(c)
  /\ UNCHANGED <<account, userClock, issued, uses>>
DeleteRemoves(c) ==
  /\ userCalls[c].pc = "delete" /\ account' = NoUser /\ userCalls' = Ended(c) /\ UNCHANGED <<userClock, issued, uses>>

-----------------------------------------------------------------------------
\* put /user with the old and the new password, both handled in the modifier.
PutPassword(c, old, new) ==
  /\ userCalls[c].pc = "idle" /\ userCalls' = Ended(c)
  /\ account' = IF account.password = old THEN Updated([account EXCEPT !.password = new]) ELSE account
  /\ UNCHANGED <<userClock, issued, uses>>

\* /password-reset: the limit is checked on the user as read; then a new token replaces the former one and is sent.
ResetReads(c) ==
  /\ userCalls[c].pc = "idle"
  /\ userCalls' = IF ~account.exists \/ (account.lastReset >= 0 /\ account.lastReset + ResetWindow > userClock)
                  THEN Ended(c) ELSE Goes(c, "reset")
  /\ UNCHANGED <<account, userClock, issued, uses>>
ResetStores(c) ==
  LET token == Cardinality(issued) + 1 IN
  /\ userCalls[c].pc = "reset" /\ userCalls' = Ended(c)
  /\ account' = Updated([account EXCEPT !.token = token, !.expiration = userClock + ResetWindow, !.lastReset = userClock])
  /\ issued' = IF account.exists THEN issued \cup {<<token, userClock>>} ELSE issued
  /\ UNCHANGED <<userClock, uses>>

\* checkPasswordResetToken() of the user that the modifier is given.
TokenValid(user, token) == token # 0 /\ user.token = token /\ user.expiration >= userClock
\* /password-change: the user is read, only to see that it exists; the token is checked and removed in the modifier.
ChangeReads(c, token) ==
  /\ userCalls[c].pc = "idle" /\ account.exists
  /\ userCalls' = [userCalls EXCEPT ![c].pc = "change", ![c].token = token, ![c].password = account.password]
  /\ UNCHANGED <<account, userClock, issued, uses>>
\* Mutant: the token stays.
ChangedKeepsToken(user, new) == [user EXCEPT !.password = new]
Changed(user, new) == [user EXCEPT !.password = new, !.token = 0]
ChangeStores(c, new) ==
  LET token == userCalls[c].token IN
  /\ userCalls[c].pc = "change" /\ userCalls' = Ended(c)
  /\ IF TokenValid(account, token) THEN account' = Changed(account, new) /\ uses' = [uses EXCEPT ![token] = @ + 1]
     ELSE UNCHANGED <<account, uses>>
  /\ UNCHANGED <<userClock, issued>>

UserTick == userClock < MaxUserTime /\ userClock' = userClock + 1 /\ UNCHANGED <<account, userCalls, issued, uses>>

UsersNext ==
  \/ UserTick
  \/ \E c \in UserCalls :
       \/ CreateReads(c) \/ CreateStores(c) \/ CreateAddsRole(c) \/ DeleteByAdmin(c) \/ DeleteRemoves(c)
       \/ ResetReads(c) \/ ResetStores(c)
       \/ \E t \in issued : ChangeReads(c, t[1])
       \/ \E p \in Passwords : DeleteReads(c, p) \/ ChangeStores(c, p) \/ \E q \in Passwords : PutPassword(c, p, q)

-----------------------------------------------------------------------------
\* "Remove the password reset token, making it single use." (user.js:129): of two changes with one link at most one succeeds.
TokenSingleUse == \A t \in DOMAIN uses : uses[t] <= 1

\* Once no handler is under way a user that exists has its role: no update brings back a user that was deleted.
UsersHaveRole == account.exists /\ (\A c \in UserCalls : userCalls[c].pc \in {"idle", "ended"}) => account.role

-----------------------------------------------------------------------------
(****************************************************************************)
(* An action of the accounts application that waits for a code              *)
(* (pending_actions/pending_actions.js): it is created with a time limit,   *)
(* run with the code, given up after too many wrong ones and collected when *)
(* it is too old.  Every request to the store is a step of its own.         *)
(****************************************************************************)
CONSTANTS
  CodeCalls,      \* calls of run()
  MaxAttempts,    \* maxAttempts
  ActionTimeout,  \* timeoutS
  MaxActions,     \* bound: calls of create()
  MaxCollections, \* bound: runs of the garbage collector
  MaxActionTime   \* bound: the clock

ASSUME PendingActionsAssumption ==
  MaxAttempts \in Nat \ {0} /\ {ActionTimeout, MaxActions, MaxCollections, MaxActionTime} \subseteq Nat

VARIABLES
  pending,      \* the entry of the store; its number stands for its code
  codeCalls,    \* calls of run(): what they read and whether the code they send is right
  actionCollector,    \* the entry the garbage collector is looking at
  pendingClock,
  actionRuns,   \* number of the action -> how often it ran
  attempts,     \* number of the action -> wrong codes that were answered with "invalid" or "delete"
  overlapped,   \* two calls of run() were under way at the same time
  collections

pendingVars == <<pending, codeCalls, actionCollector, pendingClock, actionRuns, attempts, overlapped, collections>>

NoAction == [id |-> 0, timeout |-> 0, attempt |-> 0]
NoCodeCall == [pc |-> "idle", right |-> FALSE, data |-> NoAction]

PendingInit ==
  /\ pending = NoAction /\ codeCalls = [c \in CodeCalls |-> NoCodeCall] /\ actionCollector = NoAction /\ pendingClock = 0
  /\ actionRuns = [i \in 1 .. MaxActions |-> 0] /\ attempts = [i \in 1 .. MaxActions |-> 0]
  /\ overlapped = FALSE /\ collections = [created |-> 0, collected |-> 0]

CreateAction ==
  /\ collections.created < MaxActions /\ collections' = [collections EXCEPT !.created = @ + 1]
  /\ pending' = [id |-> collections.created + 1, timeout |-> pendingClock + ActionTimeout, attempt |-> 0]
  /\ UNCHANGED <<codeCalls, actionCollector, pendingClock, actionRuns, attempts, overlapped>>

\* What run() does with what it read.
\* Mutant: the last attempt is allowed once more.
OutcomeLate(data, right) ==
  CASE data = NoAction -> "ended" [] data # NoAction /\ pendingClock > data.timeout -> "delete"
    [] OTHER -> IF right THEN "run" ELSE IF data.attempt + 1 > MaxAttempts THEN "delete" ELSE "count"
Outcome(data, right) ==
  CASE data = NoAction -> "ended" [] data # NoAction /\ pendingClock > data.timeout -> "delete"
    [] OTHER -> IF right THEN "run" ELSE IF data.attempt + 1 >= MaxAttempts THEN "delete" ELSE "count"
RunCall(c, isRight) ==
  LET outcome == Outcome(pending, isRight) IN
  /\ codeCalls[c].pc = "idle"
  /\ codeCalls' = [codeCalls EXCEPT ![c] = [pc |-> outcome, right |-> isRight, data |-> pending]]
  /\ attempts' = IF outcome \in {"count", "delete"} /\ pendingClock <= pending.timeout
                 THEN [attempts EXCEPT ![pending.id] = @ + 1] ELSE attempts
  /\ overlapped' = (overlapped \/ \E d \in CodeCalls : codeCalls[d].pc \notin {"idle", "ended"})
  /\ UNCHANGED <<pending, actionCollector, pendingClock, actionRuns, collections>>
\* The action itself, and after it the entry is deleted.
RunAction(c) ==
  /\ codeCalls[c].pc = "run" /\ actionRuns' = [actionRuns EXCEPT ![codeCalls[c].data.id] = @ + 1]
  /\ codeCalls' = [codeCalls EXCEPT ![c].pc = "delete"]
  /\ UNCHANGED <<pending, actionCollector, pendingClock, attempts, overlapped, collections>>
\* Mutant: an action that ran is not deleted.
RemovedUnlessRun(c) == IF codeCalls[c].right THEN pending ELSE NoAction
Removed(c) == NoAction
RunDeletes(c) ==
  /\ codeCalls[c].pc = "delete" /\ pending' = Removed(c) /\ codeCalls' = [codeCalls EXCEPT ![c].pc = "ended"]
  /\ UNCHANGED <<actionCollector, pendingClock, actionRuns, attempts, overlapped, collections>>
\* The entry as it was read is stored again, with one attempt more.
RunCounts(c) ==
  /\ codeCalls[c].pc = "count" /\ pending' = [codeCalls[c].data EXCEPT !.attempt = @ + 1]
  /\ codeCalls' = [codeCalls EXCEPT ![c].pc = "ended"]
  /\ UNCHANGED <<actionCollector, pendingClock, actionRuns, attempts, overlapped, collections>>

\* The garbage collector: a page of entries is read, and the expired ones of it are deleted by their name.
CollectReads ==
  /\ actionCollector = NoAction /\ pending # NoAction /\ collections.collected < MaxCollections
  /\ collections' = [collections EXCEPT !.collected = @ + 1] /\ actionCollector' = pending
  /\ UNCHANGED <<pending, codeCalls, pendingClock, actionRuns, attempts, overlapped>>
CollectDeletes ==
  /\ actionCollector # NoAction /\ actionCollector' = NoAction
  /\ pending' = IF pendingClock > actionCollector.timeout THEN NoAction ELSE pending
  /\ UNCHANGED <<codeCalls, pendingClock, actionRuns, attempts, overlapped, collections>>
PendingTick ==
  /\ pendingClock < MaxActionTime /\ pendingClock' = pendingClock + 1
  /\ UNCHANGED <<pending, codeCalls, actionCollector, actionRuns, attempts, overlapped, collections>>

PendingNext ==
  \/ CreateAction \/ CollectReads \/ CollectDeletes \/ PendingTick
  \/ \E c \in CodeCalls : (\E b \in BOOLEAN : RunCall(c, b)) \/ RunAction(c) \/ RunDeletes(c) \/ RunCounts(c)

-----------------------------------------------------------------------------
\* Calls of run() that do not overlap run an action once, whatever the collector and create() do meanwhile.
ActionRunsOnce == ~overlapped => \A i \in 1 .. MaxActions : actionRuns[i] <= 1

\* ... and no action accepts more than maxAttempts wrong codes.
AttemptsLimited == ~overlapped => \A i \in 1 .. MaxActions : attempts[i] <= MaxAttempts

-----------------------------------------------------------------------------
(****************************************************************************)
(* The pages of an administrator of the accounts application: the table of  *)
(* users, whose changes wait in the page until "Apply" sends them one by    *)
(* one (users.vue), the page of one user below it (user.vue) and the table  *)
(* of applications (applications.vue).  Requests are made by handleSubmit() *)
(* of component.vue, which tells of an error and goes on.  The columns of   *)
(* the tables are one value that can be changed.                            *)
(****************************************************************************)
CONSTANTS
  AdminUids,     \* the users, in the order in which the server lists them
  ApplyClicks,   \* clicks on "Apply" of the table of users
  MaxAdminFails, \* requests that fail
  MaxAdminEdits  \* changes of a row

NoUid == "undefined"  \* the uid of a row that handleCreate() adds
MaxViews == 2         \* bound: users that are viewed
NoApply == [pc |-> "none", uid |-> NoUid, roles |-> ""]

VARIABLES
  table,      \* what the administrator works with: "users", "user" or "applications"
  admins,     \* the server: what it has for every user, "gone": deleted
  tokensOf,   \* the server: whose tokens every user has, and their version
  page,       \* the table of users: rows, updates and deletions that wait
  fetchAt,    \* the page of users that is fetched, -1: all are
  applies,    \* handleApply() of every click
  created,    \* handleCreate(): "no", "asked", "done"
  view,       \* the page of a user: its uid, whose data it displays, and what it does
  apps,       \* the server and the table of applications
  adminFails, edits,
  asked,      \* history: the users and applications whose row "Delete" was clicked for
  apart       \* history: the users whose request failed or who were changed while it was made

adminVars == <<table, admins, tokensOf, page, fetchAt, applies, created, view, apps, adminFails, edits, asked, apart>>
AdminSet == ToSet(AdminUids)

\* The server lists a user once; what is asked for is told apart by its name.
ASSUME AdminAssumption ==
  /\ AdminUids \in Seq(AdminSet) /\ IsInjective(AdminUids) /\ AdminSet \cap {NoUid, "a1", "a2"} = {}
  /\ MaxAdminFails \in Nat /\ MaxAdminEdits \in Nat

AdminInit ==
  /\ table \in {"users", "user", "applications"} /\ edits = 0
  /\ admins = [u \in AdminSet |-> "old"] /\ tokensOf = [u \in AdminSet \cup {"me"} |-> <<u, 0>>]
  /\ page = [rows |-> <<>>, updates |-> <<>>, deletions |-> <<>>] /\ fetchAt = 0
  /\ applies = [k \in ApplyClicks |-> NoApply] /\ created = "no"
  /\ view = [uid |-> NoUid, of |-> NoUid, version |-> 0, changed |-> FALSE, pc |-> "none", views |-> 0]
  /\ apps = [stored |-> {"a1", "a2"}, rows |-> <<"a1", "a2">>, deletions |-> <<>>, pc |-> "none"]
  /\ adminFails = 0 /\ asked = {} /\ apart = {}

\* handleSubmit(): the request is made, or its error is told; what follows is done in both cases.
HandleSubmit(failed, made) ==
  IF failed THEN adminFails < MaxAdminFails /\ adminFails' = adminFails + 1
  ELSE made /\ UNCHANGED adminFails

-----------------------------------------------------------------------------
(* The table of users.                                                      *)

HasUpdates(p) == p.updates # <<>>
HasDeletions(p) == p.deletions # <<>>
HasChanges(p) == HasUpdates(p) \/ HasDeletions(p)

\* The users that the server lists, up to the n-th of all.
ListedUpTo(n) == {m \in 1 .. n : admins[AdminUids[m]] # "gone"}
\* handleFetch(): a page of one user, until there is no next one.
HandleFetch ==
  LET listed == Cardinality(ListedUpTo(Len(AdminUids))) IN
  /\ fetchAt >= 0
  /\ \/ \E n \in ListedUpTo(Len(AdminUids)) :
          /\ Cardinality(ListedUpTo(n)) = fetchAt + 1
          /\ page' = [page EXCEPT !.rows = Append(@, [uid |-> AdminUids[n], roles |-> admins[AdminUids[n]]])]
          /\ fetchAt' = IF fetchAt + 1 < listed THEN fetchAt + 1 ELSE -1
     \/ fetchAt >= listed /\ fetchAt' = -1 /\ UNCHANGED page
  /\ UNCHANGED <<table, edits, admins, tokensOf, applies, created, view, apps, adminFails, asked, apart>>
\* handleCreate(): the row that is added has what was typed, which is no uid.
HandleCreate ==
  /\ \/ created = "no" /\ created' = "asked" /\ UNCHANGED <<page, adminFails>>
     \/ /\ created = "asked" /\ created' = "done"
        /\ \E failed \in BOOLEAN :
             HandleSubmit(failed, page' = [page EXCEPT !.rows = Append(@, [uid |-> NoUid, roles |-> "old"])]) /\ (failed => UNCHANGED page)
  /\ UNCHANGED <<table, edits, admins, tokensOf, fetchAt, applies, view, apps, asked, apart>>

\* onchange(): the column of the row that was changed is added to the updates of its user.
WithUpdate(updates, u, v) ==
  IF \E i \in DOMAIN updates : updates[i][1] = u
  THEN [i \in DOMAIN updates |-> IF updates[i][1] = u THEN <<u, v>> ELSE updates[i]]
  ELSE Append(updates, <<u, v>>)
WithoutUpdate(updates, u) ==
  LET at == {i \in DOMAIN updates : updates[i][1] = u}
  IN  IF at = {} THEN updates ELSE RemoveAt(updates, Min(at))
Onchange(i, v) ==
  LET u == page.rows[i].uid IN
  /\ i \in DOMAIN page.rows /\ page.rows[i].roles # v
  /\ page' = [page EXCEPT !.rows[i].roles = v, !.updates = WithUpdate(@, u, v)]
  /\ apart' = IF \E k \in ApplyClicks : applies[k].pc = "put" /\ applies[k].uid = u THEN apart \cup {u} ELSE apart
  /\ edits < MaxAdminEdits /\ edits' = edits + 1
  /\ UNCHANGED <<table, admins, tokensOf, fetchAt, applies, created, view, apps, adminFails, asked>>

\* handleDelete(): what was changed in the row is forgotten.
\* Mutant: the row is taken out first.
HandleDeleteRowFirst(i) ==
  LET rows == RemoveAt(page.rows, i)
      u == IF i \in DOMAIN rows THEN rows[i].uid ELSE NoUid IN
  /\ i \in DOMAIN page.rows
  /\ page' = [rows |-> rows, updates |-> WithoutUpdate(page.updates, u), deletions |-> Append(page.deletions, u)]
  /\ asked' = asked \cup {page.rows[i].uid}
  /\ UNCHANGED <<table, edits, admins, tokensOf, fetchAt, applies, created, view, apps, adminFails, apart>>
HandleDelete(i) ==
  LET u == page.rows[i].uid IN
  /\ i \in DOMAIN page.rows
  /\ page' = [rows |-> RemoveAt(page.rows, i), updates |-> WithoutUpdate(page.updates, u), deletions |-> Append(page.deletions, u)]
  /\ asked' = asked \cup {u}
  /\ UNCHANGED <<table, edits, admins, tokensOf, fetchAt, applies, created, view, apps, adminFails, apart>>

\* handleApply(): the requests of the updates, then those of the deletions.
NextRequest(p) ==
  CASE HasUpdates(p) -> [pc |-> "put", uid |-> p.updates[1][1], roles |-> p.updates[1][2]]
    [] ~HasUpdates(p) /\ HasDeletions(p) -> [pc |-> "delete", uid |-> p.deletions[1], roles |-> ""]
    [] OTHER -> NoApply
HandleApply(k) ==
  /\ applies[k].pc = "none" /\ HasChanges(page)
  /\ applies' = [applies EXCEPT ![k] = NextRequest(page)]
  /\ apart' = IF \E other \in ApplyClicks : applies[other].pc # "none" THEN apart \cup AdminSet ELSE apart
  /\ UNCHANGED <<table, edits, admins, tokensOf, page, fetchAt, created, view, apps, adminFails, asked>>
\* The answer: the update, or the first of the deletions, does not wait any more.
\* Mutant: no update does.
AfterRequestAll(p, call) ==
  IF call.pc = "put" THEN [p EXCEPT !.updates = <<>>]
  ELSE [p EXCEPT !.deletions = IF @ = <<>> THEN @ ELSE Tail(@)]
AfterRequest(p, call) ==
  IF call.pc = "put" THEN [p EXCEPT !.updates = WithoutUpdate(@, call.uid)]
  ELSE [p EXCEPT !.deletions = IF @ = <<>> THEN @ ELSE Tail(@)]
HandleApplied(k) ==
  LET call == applies[k] IN
  /\ call.pc # "none"
  /\ \E failed \in {call.uid = NoUid, TRUE} :
       /\ HandleSubmit(failed /\ call.uid # NoUid, IF call.uid = NoUid THEN UNCHANGED admins
            ELSE admins' = [admins EXCEPT ![call.uid] = IF call.pc = "delete" \/ @ = "gone" THEN "gone" ELSE call.roles])
       /\ failed => UNCHANGED admins
       /\ apart' = IF failed THEN apart \cup {call.uid} ELSE apart
  /\ page' = AfterRequest(page, call) /\ applies' = [applies EXCEPT ![k] = NextRequest(AfterRequest(page, call))]
  /\ UNCHANGED <<table, edits, tokensOf, fetchAt, created, view, apps, asked>>

-----------------------------------------------------------------------------
(* The page of a user: it fetches when it is mounted, and stays when another*)
(* user is viewed.                                                          *)

HandleView(i) ==
  /\ i \in DOMAIN page.rows /\ page.rows[i].uid \notin {NoUid, view.uid} /\ view.views < MaxViews
  /\ view' = [view EXCEPT !.uid = page.rows[i].uid, !.views = @ + 1, !.pc = IF view.uid = NoUid THEN "fetch" ELSE @]
  /\ UNCHANGED <<table, edits, admins, tokensOf, page, fetchAt, applies, created, apps, adminFails, asked, apart>>
UserFetched ==
  /\ view.pc = "fetch" /\ view' = [view EXCEPT !.pc = "shown", !.of = tokensOf[view.uid][1], !.version = tokensOf[view.uid][2]]
  /\ UNCHANGED <<table, edits, admins, tokensOf, page, fetchAt, applies, created, apps, adminFails, asked, apart>>
HandleChange ==
  /\ view.pc \in {"shown", "put"} /\ view.version = 0
  /\ view' = [view EXCEPT !.version = 1, !.changed = TRUE]
  /\ UNCHANGED <<table, edits, admins, tokensOf, page, fetchAt, applies, created, apps, adminFails, asked, apart>>
\* handleApply() of the page of a user, and its answer.
\* Mutant: without the uid, which is a request for the own account.
PutUidOwn == "me"
PutUid == IF view.uid = NoUid THEN "me" ELSE view.uid
UserApply ==
  /\ view.pc = "shown" /\ view.changed /\ view' = [view EXCEPT !.pc = "put"]
  /\ tokensOf' = [tokensOf EXCEPT ![PutUid] = <<view.of, view.version>>]
  /\ UNCHANGED <<table, edits, admins, page, fetchAt, applies, created, apps, adminFails, asked, apart>>
UserApplied ==
  /\ view.pc = "put" /\ view' = [view EXCEPT !.pc = "shown", !.changed = FALSE]
  /\ UNCHANGED <<table, edits, admins, tokensOf, page, fetchAt, applies, created, apps, adminFails, asked, apart>>

-----------------------------------------------------------------------------
(* The table of applications: deletions only.                               *)

DeleteApplication(i) ==
  /\ i \in DOMAIN apps.rows /\ asked' = asked \cup {apps.rows[i]}
  /\ apps' = [apps EXCEPT !.rows = RemoveAt(@, i), !.deletions = Append(@, apps.rows[i])]
  /\ UNCHANGED <<table, edits, admins, tokensOf, page, fetchAt, applies, created, view, adminFails, apart>>
ApplyApplications ==
  /\ apps.deletions # <<>>
  /\ \/ apps.pc = "none" /\ apps' = [apps EXCEPT !.pc = "delete"] /\ UNCHANGED adminFails
     \/ /\ apps.pc = "delete"
        /\ \E failed \in BOOLEAN :
             /\ HandleSubmit(failed, TRUE)
             /\ apps' = [apps EXCEPT !.stored = IF failed THEN @ ELSE @ \ {apps.deletions[1]},
                           !.deletions = Tail(@), !.pc = IF Len(apps.deletions) = 1 THEN "none" ELSE @]
  /\ UNCHANGED <<table, edits, admins, tokensOf, page, fetchAt, applies, created, view, asked, apart>>

AdminNext ==
  \/ table \in {"users", "user"} /\ HandleFetch
  \/ /\ table = "users"
     /\ \/ HandleCreate
        \/ \E i \in DOMAIN page.rows : HandleDelete(i) \/ (\E v \in {"old", "new"} : Onchange(i, v))
        \/ \E k \in ApplyClicks : HandleApply(k) \/ HandleApplied(k)
  \/ table = "user" /\ (UserFetched \/ HandleChange \/ UserApply \/ UserApplied \/ \E i \in DOMAIN page.rows : HandleView(i))
  \/ table = "applications" /\ (ApplyApplications \/ \E i \in DOMAIN apps.rows : DeleteApplication(i))

-----------------------------------------------------------------------------
\* When no change waits and no request is made, the server has what the table displays and has not
\* what was deleted in it; this is not so for a user whose request failed, who was changed while it
\* was made, or when "Apply" was clicked again while it was at work (users.vue:215-234).
AppliedIsStored ==
  (~HasChanges(page) /\ \A k \in ApplyClicks : applies[k].pc = "none") =>
    /\ \A i \in DOMAIN page.rows : LET u == page.rows[i].uid IN
         u \in AdminSet \ (apart \cup asked) => admins[u] = page.rows[i].roles
    /\ \A u \in (asked \cap AdminSet) \ apart : admins[u] = "gone"

\* Nothing is deleted whose row "Delete" was not clicked for, whatever fails and however often
\* "Apply" is clicked (users.vue:198-208, applications.vue:166-171).
DeletedAsAsked == {u \in AdminSet : admins[u] = "gone"} \cup ({"a1", "a2"} \ apps.stored) \subseteq asked

\* While one user only has been viewed, the tokens that the page writes are those of the user
\* (user.vue:181, 188-196).
PageWritesItsUser == view.views <= 1 => \A u \in DOMAIN tokensOf : tokensOf[u][1] = u


-----------------------------------------------------------------------------
\* Accounts: a reset token works once and a user keeps a role, a pending action runs once and within
\* its attempts, and the pages write what the administrator changed, to the user it was changed of.
AccountsSafe ==
  /\ TokenSingleUse
  /\ UsersHaveRole
  /\ ActionRunsOnce
  /\ AttemptsLimited
  /\ AppliedIsStored
  /\ DeletedAsAsked
  /\ PageWritesItsUser
=============================================================================
