------------------------------ MODULE Payments ------------------------------
(****************************************************************************)
(* Payments and the subscriptions they pay for.                             *)
(****************************************************************************)
EXTENDS Integers, FiniteSets

(****************************************************************************)
(* Payments of one customer: the events of Stripe, delivered at least once, *)
(* and the periodic sync that looks for payments that were missed           *)
(* (payment/stripe/webhook.js), both of which call the callback of the      *)
(* accounts application that creates the user and registers the payment     *)
(* (apps/accounts/backend/app.js, users.js, user.js, subscription.js).      *)
(* A step ends where the code awaits; an update of a user is atomic, its    *)
(* creation is a read and a write.  The time of a subscription is counted   *)
(* in payments.                                                             *)
(****************************************************************************)
CONSTANTS
  PaymentIds,      \* payment intents of Stripe
  Hooks,           \* requests of the webhook under way at the same time
  MaxEvents,       \* bounds on the events delivered,
  MaxStripeFails,  \* on the calls of Stripe or of the mail server that fail,
  MaxSyncs,        \* on the periods of sync
  MaxPayRestarts   \* and on the restarts

ASSUME PaymentsAssumption == {MaxEvents, MaxStripeFails, MaxSyncs, MaxPayRestarts} \subseteq Nat

VARIABLES
  paid,          \* payments made
  payer,       \* the user: exists, registered payments, payments added to the subscription
  processed,     \* processedPayments, in memory
  payWorker,     \* the requests and the sync: what they do with which payment
  sync,          \* the sync: payments to look at, listed ones, an error was met
  synced,        \* payments listed by a sync that ended without an error
  cancelled,     \* a recurring subscription was cancelled
  createdTwice,  \* two payments created the user
  payLeft

paymentsVars == <<paid, payer, processed, payWorker, sync, synced, cancelled, createdTwice, payLeft>>

PayWorkers == Hooks \cup {"sync"}
NoPayWork == [pc |-> "idle", pay |-> "none"]
NewPayer == [exists |-> TRUE, payments |-> {}, granted |-> 0]
NoSync == [on |-> FALSE, todo |-> {}, listed |-> {}, failed |-> FALSE]

PaymentsInit ==
  /\ paid = {} /\ payer = [NewPayer EXCEPT !.exists = FALSE] /\ processed = {}
  /\ payWorker = [w \in PayWorkers |-> NoPayWork] /\ sync = NoSync /\ synced = {}
  /\ cancelled = FALSE /\ createdTwice = FALSE
  /\ payLeft = [events |-> MaxEvents, fails |-> MaxStripeFails, syncs |-> MaxSyncs, restarts |-> MaxPayRestarts]

PaySpend(k) == payLeft[k] > 0 /\ payLeft' = [payLeft EXCEPT ![k] = @ - 1]
PayGo(w, pc) == payWorker' = [payWorker EXCEPT ![w].pc = pc]
PayAt(w, pc) == payWorker[w].pc = pc

Pay(p) ==
  /\ p \notin paid /\ paid' = paid \cup {p}
  /\ UNCHANGED <<payer, processed, payWorker, sync, synced, cancelled, createdTwice, payLeft>>
CancelRecurring ==
  /\ ~cancelled /\ cancelled' = TRUE
  /\ UNCHANGED <<paid, payer, processed, payWorker, sync, synced, createdTwice, payLeft>>

-----------------------------------------------------------------------------
\* processCheckoutSession(), processInvoice(): nothing to do when it is known to be processed.
Taken(p) == [pc |-> IF p \in processed THEN "idle" ELSE "stripe", pay |-> p]
Deliver(w, p) ==
  /\ w \in Hooks /\ PayAt(w, "idle") /\ p \in paid /\ PaySpend("events")
  /\ payWorker' = [payWorker EXCEPT ![w] = Taken(p)]
  /\ UNCHANGED <<paid, payer, processed, sync, synced, cancelled, createdTwice>>
\* sync(): all that was paid is looked at, one after the other.
SyncStart ==
  /\ ~sync.on /\ PaySpend("syncs") /\ sync' = [on |-> TRUE, todo |-> paid, listed |-> paid, failed |-> FALSE]
  /\ UNCHANGED <<paid, payer, processed, payWorker, synced, cancelled, createdTwice>>
SyncTake(p) ==
  /\ sync.on /\ PayAt("sync", "idle") /\ p \in sync.todo /\ sync' = [sync EXCEPT !.todo = @ \ {p}]
  /\ payWorker' = [payWorker EXCEPT !["sync"] = Taken(p)]
  /\ UNCHANGED <<paid, payer, processed, synced, cancelled, createdTwice, payLeft>>
\* The last part is about cancelled subscriptions, and fails when there is one:
\* getCustomerEmail() reads its own result before it has it.
SyncEnd ==
  /\ sync.on /\ PayAt("sync", "idle") /\ sync.todo = {} /\ sync' = NoSync
  /\ synced' = IF sync.failed \/ cancelled THEN synced ELSE synced \cup sync.listed
  /\ UNCHANGED <<paid, payer, processed, payWorker, cancelled, createdTwice, payLeft>>

\* Whoever met an error is done with this payment, and it is not processed; _forEachSearch()
\* and _forEachList() keep the error for the end.
\* Mutant: an error of one payment is logged only.
ErrorKeptNot(w) == sync
ErrorKept(w) == IF w = "sync" THEN [sync EXCEPT !.failed = TRUE] ELSE sync
\* Mutant: it is marked as processed also when the callback failed.
ProcessedAfterErrorToo(w) == processed \cup {payWorker[w].pay}
ProcessedAfterError(w) == processed
PayFails(w) ==
  PayGo(w, "idle") /\ sync' = ErrorKept(w) /\ processed' = ProcessedAfterError(w)

StripeAnswers(w) ==
  /\ PayAt(w, "stripe") /\ PayGo(w, "user")
  /\ UNCHANGED <<paid, payer, processed, sync, synced, cancelled, createdTwice, payLeft>>
StripeFails(w) ==
  /\ PayAt(w, "stripe") /\ PaySpend("fails") /\ PayFails(w)
  /\ UNCHANGED <<paid, payer, synced, cancelled, createdTwice>>

-----------------------------------------------------------------------------
\* The callback: the user as it is read, which tells whether the payment is registered.
AfterUser(w) == IF ~payer.exists THEN "create"
                ELSE IF payWorker[w].pay \in payer.payments THEN "confirm" ELSE "register"
ReadUser(w) ==
  /\ PayAt(w, "user") /\ PayGo(w, AfterUser(w))
  /\ UNCHANGED <<paid, payer, processed, sync, synced, cancelled, createdTwice, payLeft>>
\* Users.create(): reads again, and then writes.
PayerCreateReads(w) ==
  /\ PayAt(w, "create")
  /\ IF payer.exists THEN PayFails(w) ELSE PayGo(w, "set") /\ UNCHANGED <<sync, processed>>
  /\ UNCHANGED <<paid, payer, synced, cancelled, createdTwice, payLeft>>
CreateWrites(w) ==
  /\ PayAt(w, "set") /\ payer' = NewPayer /\ createdTwice' = (createdTwice \/ payer.exists)
  /\ PayGo(w, "welcome")
  /\ UNCHANGED <<paid, processed, sync, synced, cancelled, payLeft>>
\* Its role, the link of the password and the mail; the user is the one the update returned.
Welcome(w) ==
  /\ PayAt(w, "welcome") /\ PayGo(w, AfterUser(w))
  /\ UNCHANGED <<paid, payer, processed, sync, synced, cancelled, createdTwice, payLeft>>
MailFails(w) ==
  /\ PayAt(w, "welcome") /\ PaySpend("fails") /\ PayFails(w)
  /\ UNCHANGED <<paid, payer, synced, cancelled, createdTwice>>
\* The update: addSubscription(), start() and registerPayment(), whose assertion discards it all.
\* Mutant: the assertion is left to the check that was made before.
MayRegisterAsRead(p) == TRUE
MayRegister(p) == p \notin payer.payments
Register(w) ==
  LET p == payWorker[w].pay IN
  /\ PayAt(w, "register")
  /\ IF MayRegister(p)
     THEN /\ payer' = [payer EXCEPT !.payments = @ \cup {p}, !.granted = @ + 1]
          /\ PayGo(w, "confirm") /\ UNCHANGED <<sync, processed>>
     ELSE PayFails(w) /\ UNCHANGED payer
  /\ UNCHANGED <<paid, synced, cancelled, createdTwice, payLeft>>
Confirm(w) ==
  /\ PayAt(w, "confirm") /\ PayGo(w, "idle") /\ processed' = processed \cup {payWorker[w].pay}
  /\ UNCHANGED <<paid, payer, sync, synced, cancelled, createdTwice, payLeft>>

PayRestart ==
  /\ PaySpend("restarts") /\ processed' = {} /\ sync' = NoSync
  /\ payWorker' = [w \in PayWorkers |-> NoPayWork]
  /\ UNCHANGED <<paid, payer, synced, cancelled, createdTwice>>

PaymentsNext ==
  \/ \E p \in PaymentIds : Pay(p) \/ SyncTake(p) \/ \E w \in Hooks : Deliver(w, p)
  \/ CancelRecurring \/ SyncStart \/ SyncEnd \/ PayRestart
  \/ \E w \in PayWorkers : \/ StripeAnswers(w) \/ StripeFails(w) \/ ReadUser(w) \/ PayerCreateReads(w)
                           \/ CreateWrites(w) \/ Welcome(w) \/ MailFails(w) \/ Register(w) \/ Confirm(w)

-----------------------------------------------------------------------------
\* A payment adds to the subscription once, although its event comes again and the sync
\* looks at it meanwhile: registerPayment() is in the update of the user (app.js:279).
PaymentOnce == payer.granted = Cardinality(payer.payments)

\* What is marked as processed, and never looked at again, is registered for the user,
\* unless two payments of a new customer created it at once (users.js:40-47).
PaymentsKept == processed \subseteq payer.payments \/ createdTwice

\* A sync that reports no error has left no payment behind, whatever the requests of the
\* webhook do at the same time (webhook.js:267-338).
SyncCatchesUp == synced \subseteq payer.payments \/ createdTwice

-----------------------------------------------------------------------------
(****************************************************************************)
(* The subscription of a user to an application (users/subscription.js):    *)
(* time that was paid for, as a duration while it is stopped and as an end  *)
(* while it runs, and the recurring payments that extend it.                *)
(****************************************************************************)
CONSTANTS
  Durations,       \* durations of the products
  Recurrences,     \* recurring payments
  MaxPaid,         \* bound: payments
  MaxSubTime       \* bound: the clock

ASSUME SubscriptionsAssumption == Durations \subseteq Nat \ {0} /\ MaxPaid \in Nat /\ MaxSubTime \in Nat

Never == -1

VARIABLES
  subscription,   \* end or duration (the other is Never), and recurring: payment -> end or Never
  subClock,
  paidTime,           \* the time all payments are worth
  used,           \* the time the subscription was active
  lapsed,         \* it was extended after it had run out
  paidCount

subVars == <<subscription, subClock, paidTime, used, lapsed, paidCount>>

NotRecurring == [r \in Recurrences |-> Never]
SubInit ==
  /\ subscription = [end |-> Never, duration |-> 0, recurring |-> NotRecurring]
  /\ subClock = 0 /\ paidTime = 0 /\ used = 0 /\ lapsed = FALSE /\ paidCount = 0

IsStarted(s) == s.end # Never
\* Mutant: the time left of a subscription that has run out is negative.
GetDurationBelow0(s) == IF IsStarted(s) THEN s.end - subClock ELSE s.duration
GetDuration(s) == IF IsStarted(s) THEN (IF s.end > subClock THEN s.end - subClock ELSE 0) ELSE s.duration
IsActive(s) == IsStarted(s) /\ GetDuration(s) # 0
Start(s) == IF IsStarted(s) THEN s ELSE [s EXCEPT !.end = subClock + s.duration, !.duration = Never]
Stop(s) == IF IsStarted(s) THEN [s EXCEPT !.duration = GetDuration(s), !.end = Never] ELSE s
Sanitize(recurring) == [r \in Recurrences |-> IF recurring[r] > subClock THEN recurring[r] ELSE Never]
Merge(a, b) == [r \in Recurrences |-> IF b[r] # Never THEN b[r] ELSE a[r]]
\* Mutant: a subscription that runs is not extended.
AddOnlyStopped(s, t) ==
  [s EXCEPT !.duration = IF IsStarted(s) THEN @ ELSE @ + GetDuration(t), !.recurring = Sanitize(Merge(s.recurring, t.recurring))]
Add(s, t) ==
  LET longer == IF IsStarted(s) THEN [s EXCEPT !.end = @ + GetDuration(t)] ELSE [s EXCEPT !.duration = @ + GetDuration(t)]
  IN  [longer EXCEPT !.recurring = Sanitize(Merge(s.recurring, t.recurring))]

\* A payment: added to the subscription, which is started (addSubscription(), and the callback of app.js).
Pays(t) ==
  /\ paidCount < MaxPaid /\ paidCount' = paidCount + 1 /\ subscription' = Start(Add(subscription, t))
  /\ paidTime' = paidTime + GetDuration(t) /\ lapsed' = (lapsed \/ (IsStarted(subscription) /\ subscription.end < subClock))
  /\ UNCHANGED <<subClock, used>>
PayOnce(d) == Pays([end |-> Never, duration |-> d, recurring |-> NotRecurring])
\* A recurring payment gives the end of its period.
PayRecurring(r, d) == Pays([end |-> subClock + d, duration |-> Never, recurring |-> [NotRecurring EXCEPT ![r] = subClock + d]])
Cancel(r) ==
  /\ subscription.recurring[r] # Never /\ subscription' = [subscription EXCEPT !.recurring[r] = Never]
  /\ UNCHANGED <<subClock, paidTime, used, lapsed, paidCount>>
Pause ==
  /\ IsStarted(subscription) /\ subscription' = Stop(subscription)
  /\ UNCHANGED <<subClock, paidTime, used, lapsed, paidCount>>
Resume ==
  /\ ~IsStarted(subscription) /\ subscription' = Start(subscription)
  /\ UNCHANGED <<subClock, paidTime, used, lapsed, paidCount>>
SubTick ==
  /\ subClock < MaxSubTime /\ subClock' = subClock + 1 /\ used' = IF IsActive(subscription) THEN used + 1 ELSE used
  /\ UNCHANGED <<subscription, paidTime, lapsed, paidCount>>

SubNext ==
  \/ SubTick \/ Pause \/ Resume \/ \E d \in Durations : PayOnce(d) \/ \E r \in Recurrences : PayRecurring(r, d)
  \/ \E r \in Recurrences : Cancel(r)

-----------------------------------------------------------------------------
\* What was paid is what was used and what is left, through pauses and extensions, unless it was extended after it ran out.
PaidTimeKept == ~lapsed => used + GetDuration(subscription) = paidTime

\* A recurring payment that is known will still extend the subscription or has just ended: none outlives the subscription it
\* paid for, unless the subscription was extended after it ran out.
RecurringWithinSubscription ==
  ~lapsed /\ IsStarted(subscription) => \A r \in Recurrences : subscription.recurring[r] <= subscription.end


-----------------------------------------------------------------------------
\* A payment counts once, is kept and found again by the synchronization, and what was paid for is
\* granted.
PaymentsSafe ==
  /\ PaymentOnce
  /\ PaymentsKept
  /\ SyncCatchesUp
  /\ PaidTimeKept
  /\ RecurringWithinSubscription
=============================================================================
