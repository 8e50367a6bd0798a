------------------------------ MODULE Payments ------------------------------
(***************************************************************************)
(* The payment of one job: apps/api/src/modules/payments.  HTTP requests   *)
(* and finance workers read the payment, talk to the gateway, and write the    *)
(* payment later, each write guarded, or not, as in the code.              *)
(* The gateway and its webhooks are external: it may charge, decline, ask  *)
(* for an action, or fail with or without effect, and it may report what   *)
(* happened at any later time and in any order.  The process may die       *)
(* between any two operations.                                             *)
(***************************************************************************)
EXTENDS Integers, FiniteSets

CONSTANTS
  Requests,     \* HTTP requests in flight
  Workers,      \* workers of the finance queue
  Methods,      \* payment methods considered: "CASH", "WALLET", "CARD"
  Due,          \* the total of the job, which a capture asks for
  Settles,      \* has the job anything to settle: a total, a discount or a cancellation fee?
  Amounts,      \* the amounts a captured event may report
  Refunds,      \* how many rows the refunds table may get
  Events,       \* webhook events the provider may send
  Nobody,       \* not an event
  Tries,        \* attempts the queue gives an event
  MaxVersion,   \* bound: nothing new begins once the payment has this version
  Crashes       \* bound: how many times a process may die

ASSUME PaymentsAssumption ==
  /\ Methods \subseteq {"CASH", "WALLET", "CARD"}
  /\ Due \in Nat
  /\ Settles \in BOOLEAN /\ (Due > 0 => Settles)
  /\ Amounts \subseteq Nat
  /\ Refunds \in Nat
  /\ Nobody \notin Events
  /\ Tries \in Nat \ {0}
  /\ MaxVersion \in Nat
  /\ Crashes \in Nat

VARIABLES
  method,     \* how the job is paid
  payment,    \* the payments row
  refunds,    \* the refunds rows, by order of creation
  settled,    \* the ledger has a transaction with key settle:<jobId>; what it moves comes
              \* from the job (module Settlement), not from the capture
  receipt,    \* the job has a receipt
  posted,     \* refunds the ledger has a transaction for, key refund:<refundId>
  expense,    \* what they come to, the balance of PLATFORM_REFUND_EXPENSE
  gateway,    \* what the provider was asked, did, and gave back
  events,     \* webhook_events with their queue entries
  act,        \* what each process is doing
  crashes

Procs == Requests \cup Workers

vars == <<method, payment, refunds, settled, receipt, posted, expense, gateway, events, act, crashes>>

Paid == {"CAPTURED", "PARTIALLY_REFUNDED", "REFUNDED"}
PaymentStatus == {"PENDING", "FAILED"} \cup Paid
RefundStatus == {"NONE", "PENDING", "PROCESSED", "FAILED"}
EventTypes == {"payment.captured", "payment.failed", "refund.processed", "refund.failed"}

Payment == [status : PaymentStatus, version : Nat, captured : Nat, refunded : Nat, ref : BOOLEAN]
Refund == [status : RefundStatus, amount : Nat, ref : BOOLEAN]
Event == [type : EventTypes \cup {"none"}, amount : Nat,
          state : {"unsent", "stored", "queued", "done", "dead"}, tries : Nat]
Gateway == [asked : BOOLEAN, action : BOOLEAN, charged : BOOLEAN, returned : Nat]
Steps == {"idle", "afford", "authorize", "capture", "pend", "complete", "fail",
          "row", "giveBack", "post", "enqueue", "mark", "refundEvent"}
Act == [step : Steps, seen : Payment, amount : Nat, refund : 0..Refunds, event : Events \cup {Nobody}]

Created == [status |-> "PENDING", version |-> 0, captured |-> 0, refunded |-> 0, ref |-> FALSE]
Idle == [step |-> "idle", seen |-> Created, amount |-> 0, refund |-> 0, event |-> Nobody]

Init ==
  /\ method \in Methods
  /\ payment = Created
  /\ refunds = [r \in 1..Refunds |-> [status |-> "NONE", amount |-> 0, ref |-> FALSE]]
  /\ settled = FALSE
  /\ receipt = FALSE
  /\ posted = {}
  /\ expense = 0
  /\ gateway = [asked |-> FALSE, action |-> FALSE, charged |-> FALSE, returned |-> 0]
  /\ events = [e \in Events |-> [type |-> "none", amount |-> Due, state |-> "unsent", tries |-> 0]]
  /\ act = [p \in Procs |-> Idle]
  /\ crashes = 0

At(p, step) == act[p].step = step
Goto(p, step) == act' = [act EXCEPT ![p].step = step]
Done(p) == act' = [act EXCEPT ![p] = Idle]

\* A request ends in its answer; an event is still to be marked as processed.
Leave(p) == IF act[p].event = Nobody THEN Done(p) ELSE Goto(p, "mark")

\* Fault: an exception counts as the end of the event.
ThrowAway(p) ==
  /\ Done(p)
  /\ events' = IF act[p].event = Nobody THEN events ELSE [events EXCEPT ![act[p].event].state = "done"]

\* An exception: the request fails, the event is counted and left to the queue's next attempt.
Throw(p) ==
  /\ Done(p)
  /\ IF act[p].event = Nobody
       THEN UNCHANGED events
       ELSE LET e == act[p].event
                n == events[e].tries + 1
            IN  events' = [events EXCEPT ![e].tries = n, ![e].state = IF n < Tries THEN "queued" ELSE "dead"]

MayStart(p) == At(p, "idle") /\ payment.version < MaxVersion

-----------------------------------------------------------------------------
(* Capture *)

\* A captured payment is returned as it is and a refunded one refused.
StartCapture(p) ==
  /\ MayStart(p)
  /\ payment.status \notin Paid
  /\ act' = [act EXCEPT ![p] = [Idle EXCEPT !.seen = payment, !.amount = Due, !.step =
       CASE method = "CASH" -> "complete" [] method = "WALLET" -> "afford" [] OTHER -> "authorize"]]
  /\ UNCHANGED <<method, payment, refunds, settled, receipt, posted, expense, gateway, events, crashes>>

\* The cached balance of the customer's wallet, which other jobs spend as well, decides.
CheckBalance(p) ==
  /\ At(p, "afford")
  /\ \E enough \in BOOLEAN : Goto(p, IF enough THEN "complete" ELSE "fail")
  /\ UNCHANGED <<method, payment, refunds, settled, receipt, posted, expense, gateway, events, crashes>>

\* The answer of the provider to AUTHORIZE, or an exception ("idle") with or without effect.
\* The idempotency key is the payment and the amount: it charges once however often asked.
Authorize(p) ==
  /\ At(p, "authorize")
  /\ \/ \E step \in {"complete", "idle"} :
          /\ gateway' = [gateway EXCEPT !.asked = TRUE, !.charged = TRUE]
          /\ IF step = "idle" THEN Done(p) ELSE Goto(p, step)
     \/ \E step \in {"capture", "pend", "fail", "idle"} :
          /\ ~gateway.charged
          /\ gateway' = [gateway EXCEPT !.asked = TRUE, !.action = (@ \/ step = "pend")]
          /\ IF step = "idle" THEN Done(p) ELSE Goto(p, step)
  /\ UNCHANGED <<method, payment, refunds, settled, receipt, posted, expense, events, crashes>>

CaptureAuthorized(p) ==
  /\ At(p, "capture")
  /\ \/ \E step \in {"complete", "idle"} :
          /\ gateway' = [gateway EXCEPT !.charged = TRUE]
          /\ IF step = "idle" THEN Done(p) ELSE Goto(p, step)
     \/ \E step \in {"fail", "idle"} :
          /\ ~gateway.charged
          /\ IF step = "idle" THEN Done(p) ELSE Goto(p, step)
          /\ UNCHANGED gateway
  /\ UNCHANGED <<method, payment, refunds, settled, receipt, posted, expense, events, crashes>>

\* The provider asked for an action of the customer: the row is updated by id alone.
AwaitCustomer(p) ==
  /\ At(p, "pend")
  /\ payment' = [payment EXCEPT !.status = "PENDING", !.ref = TRUE, !.version = @ + 1]
  /\ Done(p)
  /\ UNCHANGED <<method, refunds, settled, receipt, posted, expense, gateway, events, crashes>>

\* The amount is the handler's: the total of the job, or what an event reported.
Captured(p) ==
  [payment EXCEPT !.status = "CAPTURED", !.captured = act[p].amount, !.version = @ + 1,
                  !.ref = (method = "CARD")]

\* Fault: the payment is captured, its settlement left to another transaction.
CompleteWithoutSettlement(p) ==
  /\ At(p, "complete")
  /\ payment.version = act[p].seen.version
  /\ payment' = Captured(p)
  /\ receipt' = TRUE
  /\ Leave(p)
  /\ UNCHANGED <<method, refunds, settled, posted, expense, gateway, events, crashes>>

\* One transaction: the row if its version is the one read, the settlement, the receipt.
CompleteCapture(p) ==
  /\ At(p, "complete")
  /\ IF payment.version = act[p].seen.version /\ payment.status # "CAPTURED"
       THEN /\ payment' = Captured(p)
            /\ settled' = (settled \/ Settles)
            /\ receipt' = TRUE
            /\ Leave(p)
            /\ UNCHANGED events
       ELSE /\ IF payment.status = "CAPTURED" THEN Leave(p) /\ UNCHANGED events ELSE Throw(p)
            /\ UNCHANGED <<payment, settled, receipt>>
  /\ UNCHANGED <<method, refunds, posted, expense, gateway, crashes>>

\* A failure is never written over a captured or refunded payment.  An answer that names no
\* reference leaves the one that was read, which may be older than the one in the row; an
\* event always names one.
MarkFailed(p) ==
  /\ At(p, "fail")
  /\ \E named \in BOOLEAN :
       /\ named => method = "CARD"
       /\ act[p].event # Nobody => named
       /\ payment' = IF payment.status \in Paid
                       THEN payment
                       ELSE [payment EXCEPT !.status = "FAILED", !.version = @ + 1,
                               !.ref = (named \/ act[p].seen.ref)]
  /\ Leave(p)
  /\ UNCHANGED <<method, refunds, settled, receipt, posted, expense, gateway, events, crashes>>

-----------------------------------------------------------------------------
(* Refunds *)

\* What may be refunded is decided on the payment as it is read here.
StartRefund(p, amount) ==
  /\ MayStart(p)
  /\ payment.status \in {"CAPTURED", "PARTIALLY_REFUNDED"}
  /\ amount <= payment.captured - payment.refunded
  /\ act' = [act EXCEPT ![p] = [Idle EXCEPT !.seen = payment, !.step = "row", !.amount = amount]]
  /\ UNCHANGED <<method, payment, refunds, settled, receipt, posted, expense, gateway, events, crashes>>

CreateRefund(p) ==
  /\ At(p, "row")
  /\ \E r \in 1..Refunds :
       /\ refunds[r].status = "NONE"
       /\ \A q \in 1..Refunds : q < r => refunds[q].status # "NONE"
       /\ refunds' = [refunds EXCEPT ![r] = [status |-> "PENDING", amount |-> act[p].amount, ref |-> FALSE]]
       /\ act' = [act EXCEPT ![p].refund = r, ![p].step = IF method = "CARD" THEN "giveBack" ELSE "post"]
  /\ UNCHANGED <<method, payment, settled, receipt, posted, expense, gateway, events, crashes>>

\* Fault: the answer of the provider is not looked at.
GiveBackAnyway(p) ==
  /\ At(p, "giveBack")
  /\ \E effect \in {0, act[p].amount} : gateway' = [gateway EXCEPT !.returned = @ + effect]
  /\ Goto(p, "post")
  /\ UNCHANGED <<method, payment, refunds, settled, receipt, posted, expense, events, crashes>>

\* An exception, with or without effect at the provider, leaves the row PENDING for ever.
GiveBack(p) ==
  /\ At(p, "giveBack")
  /\ \/ /\ gateway' = [gateway EXCEPT !.returned = @ + act[p].amount]
        /\ \/ Goto(p, "post")
           \/ Done(p)
        /\ UNCHANGED refunds
     \/ /\ refunds' = [refunds EXCEPT ![act[p].refund].status = "FAILED"]
        /\ Done(p)
        /\ UNCHANGED gateway
     \/ Done(p) /\ UNCHANGED <<gateway, refunds>>
  /\ UNCHANGED <<method, payment, settled, receipt, posted, expense, events, crashes>>

Refunded(p) ==
  LET total == act[p].seen.refunded + act[p].amount
  IN  [payment EXCEPT !.refunded = total, !.version = @ + 1,
         !.status = IF total >= act[p].seen.captured THEN "REFUNDED" ELSE "PARTIALLY_REFUNDED"]

\* Fault: the refund is booked on the payment before the ledger has it.
PostWithoutLedger(p) ==
  /\ At(p, "post")
  /\ payment' = Refunded(p)
  /\ refunds' = [refunds EXCEPT ![act[p].refund].status = "PROCESSED", ![act[p].refund].ref = (method = "CARD")]
  /\ Done(p)
  /\ UNCHANGED <<method, settled, receipt, posted, expense, gateway, events, crashes>>

\* One transaction: the ledger, the payment with the total computed from what was read, the row.
PostRefund(p) ==
  /\ At(p, "post")
  /\ posted' = posted \cup {act[p].refund}
  /\ expense' = expense + act[p].amount
  /\ payment' = Refunded(p)
  /\ refunds' = [refunds EXCEPT ![act[p].refund].status = "PROCESSED", ![act[p].refund].ref = (method = "CARD")]
  /\ Done(p)
  /\ UNCHANGED <<method, settled, receipt, gateway, events, crashes>>

-----------------------------------------------------------------------------
(* Webhooks *)

\* What the provider may report, as late as it likes.
Reports ==
  (IF gateway.charged THEN {"payment.captured"} ELSE {})
    \cup (IF gateway.asked THEN {"payment.failed"} ELSE {})
    \cup (IF gateway.returned > 0 THEN {"refund.processed", "refund.failed"} ELSE {})

\* The customer completes, at the provider, what REQUIRES_ACTION asked for.
CustomerActs ==
  /\ gateway.action /\ ~gateway.charged
  /\ gateway' = [gateway EXCEPT !.charged = TRUE]
  /\ UNCHANGED <<method, payment, refunds, settled, receipt, posted, expense, events, act, crashes>>

\* The event is stored; a repeated delivery finds the row and changes nothing.
StoreEvent(p, e) ==
  /\ MayStart(p)
  /\ events[e].state = "unsent"
  /\ \E type \in Reports :
       \E amount \in IF type = "payment.captured" THEN Amounts ELSE {Due} :
         events' = [events EXCEPT ![e].type = type, ![e].amount = amount, ![e].state = "stored"]
  /\ act' = [act EXCEPT ![p] = [Idle EXCEPT !.step = "enqueue", !.event = e]]
  /\ UNCHANGED <<method, payment, refunds, settled, receipt, posted, expense, gateway, crashes>>

EnqueueEvent(p) ==
  /\ At(p, "enqueue")
  /\ events' = [events EXCEPT ![act[p].event].state = "queued"]
  /\ Done(p)
  /\ UNCHANGED <<method, payment, refunds, settled, receipt, posted, expense, gateway, crashes>>

\* The worker reads the event and the payment its reference names, if one does.
NextStep(type) ==
  CASE type = "payment.captured" /\ payment.ref /\ payment.status # "CAPTURED" -> "complete"
    [] type = "payment.failed" /\ payment.ref /\ payment.status # "CAPTURED" -> "fail"
    [] type \in {"refund.processed", "refund.failed"} -> "refundEvent"
    [] OTHER -> "mark"

ProcessWebhook(p, e) ==
  /\ At(p, "idle")
  /\ events[e].state = "queued"
  /\ \A q \in Workers : act[q].event # e
  /\ act' = [act EXCEPT ![p] = [Idle EXCEPT !.seen = payment, !.event = e, !.amount = events[e].amount,
                                              !.step = NextStep(events[e].type)]]
  /\ UNCHANGED <<method, payment, refunds, settled, receipt, posted, expense, gateway, events, crashes>>

\* Fault: the last refund is meant, whether the provider has named it or not.
LastCreated(r) == refunds[r].status # "NONE" /\ \A q \in 1..Refunds : q > r => refunds[q].status = "NONE"

\* Every refund of a payment has the same reference: the last one that has it is meant.
LastWithRef(r) == refunds[r].ref /\ \A q \in 1..Refunds : refunds[q].ref => q <= r

\* Fault: the type of the event is stored for the status.
ReportedAsSent(type) == type

Reported(type) == IF type = "refund.processed" THEN "PROCESSED" ELSE "FAILED"

ApplyRefundWebhook(p) ==
  /\ At(p, "refundEvent")
  /\ refunds' = [r \in 1..Refunds |->
       IF LastWithRef(r) THEN [refunds[r] EXCEPT !.status = Reported(events[act[p].event].type)] ELSE refunds[r]]
  /\ Goto(p, "mark")
  /\ UNCHANGED <<method, payment, settled, receipt, posted, expense, gateway, events, crashes>>

MarkProcessed(p) ==
  /\ At(p, "mark")
  /\ events' = [events EXCEPT ![act[p].event].state = "done"]
  /\ Done(p)
  /\ UNCHANGED <<method, payment, refunds, settled, receipt, posted, expense, gateway, crashes>>

\* The process dies: its requests are lost, the queue gives the event to a worker again.
Crash(p) ==
  /\ ~At(p, "idle") /\ crashes < Crashes
  /\ crashes' = crashes + 1
  /\ Done(p)
  /\ UNCHANGED <<method, payment, refunds, settled, receipt, posted, expense, gateway, events>>

Proceed(p) ==
  \/ CheckBalance(p) \/ Authorize(p) \/ CaptureAuthorized(p) \/ AwaitCustomer(p)
  \/ CompleteCapture(p) \/ MarkFailed(p)
  \/ CreateRefund(p) \/ GiveBack(p) \/ PostRefund(p)
  \/ EnqueueEvent(p) \/ ApplyRefundWebhook(p) \/ MarkProcessed(p)

Next ==
  \/ CustomerActs
  \/ \E p \in Requests :
       \/ StartCapture(p)
       \/ \E amount \in 1..payment.captured : StartRefund(p, amount)
       \/ \E e \in Events : StoreEvent(p, e)
  \/ \E p \in Workers, e \in Events : ProcessWebhook(p, e)
  \/ \E p \in Procs : Proceed(p) \/ Crash(p)

Spec == Init /\ [][Next]_vars

\* Node runs what it has begun, and the queue hands every event to a worker.
Fairness ==
  /\ \A p \in Procs : WF_vars(Proceed(p))
  /\ \A e \in Events : WF_vars(\E p \in Workers : ProcessWebhook(p, e))

FairSpec == Spec /\ Fairness

-----------------------------------------------------------------------------
(* Properties *)

\* Every row and every handler keeps its type.
TypeOK ==
  /\ method \in Methods
  /\ payment \in Payment
  /\ refunds \in [1..Refunds -> Refund]
  /\ settled \in BOOLEAN /\ receipt \in BOOLEAN
  /\ posted \subseteq 1..Refunds
  /\ expense \in Nat
  /\ gateway \in Gateway
  /\ events \in [Events -> Event]
  /\ act \in [Procs -> Act]
  /\ crashes \in 0..Crashes

\* What a capture may have written: the total of the job, or what an event reported.
CapturedAs(amount) ==
  amount = Due \/ \E e \in Events : events[e].type = "payment.captured" /\ events[e].amount = amount

\* payments.service.ts:377: capture, settlement and receipt are one transaction, "so money
\* and paperwork can never diverge".  Whoever writes the status, and whatever the row has
\* become since it was read, a captured or refunded payment has its receipt and, when the job
\* has anything to settle, its settlement; what was captured is what the job asked for or a
\* provider reported; and nothing is settled, or captured, without the receipt.  That the
\* amounts of the capture and of the settlement agree is not said: the settlement follows the
\* job, whatever the provider reports, and adds the fee of a cancelled one to its total.
PaperworkAgrees ==
  /\ payment.status \in Paid => receipt
  /\ receipt => (Settles => settled) /\ CapturedAs(payment.captured)
  /\ ~receipt => ~settled /\ payment.captured = 0

\* The ledger settles a card payment only when the provider has taken the money, and never
\* posts more refunds than the provider has given back, whatever the answers that were lost,
\* the events that came late and the processes that died.
LedgerIsBacked ==
  method = "CARD" => (settled => gateway.charged) /\ expense <= gateway.returned

\* A refund that its row calls PROCESSED has been posted, and one posted is not left PENDING.
\* The rows are written by refund, by id, and by the webhooks, through a reference that all refunds of the payment share.
ProcessedIsPosted ==
  \A r \in 1..Refunds :
    /\ refunds[r].status = "PROCESSED" => r \in posted
    /\ r \in posted => refunds[r].status \in {"PROCESSED", "FAILED"}

\* A provider reported another amount than the total of the job.
Misreported == \E e \in Events : events[e].amount # Due

\* payment.refunded is written from a read that may be old: it may forget a refund, but it
\* never claims one that the ledger has not posted.  It stays within what was captured as long
\* as every event reports the total of the job: one that reports less captures a refunded
\* payment a second time, for less than was refunded.
RefundedIsPosted ==
  /\ payment.refunded <= expense
  /\ payment.refunded <= payment.captured \/ Misreported

\* A captured event that waits in the queue while the reference of the payment is stored
\* ends in a captured payment with its receipt: version conflicts with other writers use up
\* attempts, and workers die with it in their hands, but neither loses it.  Only a failed
\* answer without a reference does, which puts back the row as it was before the reference.
QueuedIsSettled ==
  \A e \in Events :
    /\ events[e].state = "queued" /\ events[e].type = "payment.captured"
    /\ payment.ref /\ \A w \in Workers : act[w].event # e
    ~> receipt \/ ~payment.ref

=============================================================================
