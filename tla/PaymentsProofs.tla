--------------------------- MODULE PaymentsProofs ---------------------------
(***************************************************************************)
(* What holds of a job's payment for any requests, workers and webhook     *)
(* events, any total, any number of refunds, attempts and crashes: money   *)
(* and paperwork agree, and so do the refunds and the ledger.              *)
(***************************************************************************)
EXTENDS Payments, FiniteSetTheorems, TLAPS

-----------------------------------------------------------------------------
(* The inductive invariant.                                                  *)

EventSteps == {"enqueue", "refundEvent", "mark"}
Capturing == {"afford", "authorize", "capture", "complete"}
RefundSteps == {"row", "giveBack", "post"}

\* A refund whose row was created and that is not decided: no webhook can name it yet.
Open(r) ==
  /\ r \in 1..Refunds
  /\ refunds[r].status = "PENDING" /\ ~refunds[r].ref
  /\ r \notin posted

\* A handler in state a carries out a refund that has its row.
Carries(a) == a.step \in {"giveBack", "post"}

\* What a handler in state a may rely on: its event exists; what it captures was asked for or
\* reported; what it refunds was captured and fits what it read; its refund is open.
HandlerOK(a) ==
  /\ a.step \in EventSteps => a.event \in Events
  /\ a.step \in Capturing => CapturedAs(a.amount)
  /\ a.step \in RefundSteps =>
       /\ receipt
       /\ a.seen.captured = Due \/ Misreported
       /\ a.seen.refunded + a.amount <= a.seen.captured
       /\ a.seen.refunded <= expense
  /\ Carries(a) => Open(a.refund)

\* Captures, settlement and receipt go together, and the payment claims no more refunds than
\* the ledger has posted or the capture allows.
Money ==
  /\ receipt => (Settles => settled) /\ CapturedAs(payment.captured)
  /\ ~receipt => ~settled /\ payment.captured = 0 /\ payment.status \notin Paid
  /\ RefundedIsPosted

\* An event the provider has not sent reports nothing.
Unsent == \A e \in Events : events[e].state = "unsent" => events[e].type = "none" /\ events[e].amount = Due

\* The provider's reference is on the rows that are posted only.
Rows == ProcessedIsPosted /\ \A r \in 1..Refunds : refunds[r].ref => r \in posted

\* No two handlers carry out the same refund.
Distinct ==
  \A p, q \in Procs : Carries(act[p]) /\ Carries(act[q]) /\ act[p].refund = act[q].refund => p = q

Inv == TypeOK /\ (\A p \in Procs : HandlerOK(act[p])) /\ Money /\ Rows /\ Distinct /\ Unsent

\* Idle is a handler's state.
LEMMA IdleTyped ==
  /\ Idle \in Act /\ Idle.step = "idle" /\ ~Carries(Idle) /\ HandlerOK(Idle)
  /\ Created \in Payment
<1>1. 0 \in 0..Refunds /\ Created \in Payment
  BY PaymentsAssumption DEF Created, Payment, PaymentStatus
<1> QED
  BY <1>1 DEF Idle, Act, Steps, Carries, HandlerOK, EventSteps, RefundSteps, Capturing

\* The initial state satisfies it.
LEMMA InitInv == Init => Inv
<1> SUFFICES ASSUME Init PROVE Inv
  OBVIOUS
<1>1. Idle \in Act /\ ~Carries(Idle) /\ HandlerOK(Idle) /\ Created \in Payment
  BY IdleTyped
<1>2. TypeOK
  <2>1. /\ payment \in Payment /\ refunds \in [1..Refunds -> Refund]
        /\ events \in [Events -> Event] /\ act \in [Procs -> Act]
    BY <1>1, PaymentsAssumption DEF Init, Refund, RefundStatus, Event
  <2>2. gateway \in Gateway
    BY DEF Init, Gateway
  <2>3. settled \in BOOLEAN /\ receipt \in BOOLEAN
    BY DEF Init
  <2>4. method \in Methods /\ posted \subseteq 1..Refunds /\ expense \in Nat /\ crashes \in 0..Crashes
    BY PaymentsAssumption DEF Init
  <2> QED
    BY <2>1, <2>2, <2>3, <2>4 DEF TypeOK
<1>3. (\A p \in Procs : HandlerOK(act[p])) /\ Distinct
  BY <1>1 DEF Init, Distinct
<1>4. Money /\ Rows /\ Unsent
  BY DEF Init, Money, Rows, RefundedIsPosted, ProcessedIsPosted, Created, Paid, Unsent
<1> QED
  BY <1>2, <1>3, <1>4 DEF Inv

-----------------------------------------------------------------------------
(* Steps of one handler.                                                     *)

\* What an event reports is settled once it is sent: later steps change its state only.
EventsKept ==
  /\ events' \in [Events -> Event] /\ Unsent'
  /\ \A e \in Events : events[e].state # "unsent" =>
       events'[e].type = events[e].type /\ events'[e].amount = events[e].amount

LEMMA SameEvents == Inv /\ UNCHANGED events => EventsKept
BY DEF Inv, TypeOK, EventsKept, Unsent

\* So what was reported stays reported.
LEMMA StillReported ==
  ASSUME Inv, EventsKept
  PROVE  (\A n : CapturedAs(n) => CapturedAs(n)') /\ (Misreported => Misreported')
<1>1. \A e \in Events : events[e].type = "payment.captured" \/ events[e].amount # Due =>
        events'[e].type = events[e].type /\ events'[e].amount = events[e].amount
  BY DEF Inv, Unsent, EventsKept
<1> QED
  BY <1>1 DEF CapturedAs, Misreported

\* Without a false report every capture is for the total of the job.
LEMMA AsAsked == ~Misreported => \A n : CapturedAs(n) => n = Due
BY DEF Misreported, CapturedAs

\* A step of handler p to state a keeps the invariant when it keeps money and rows, closes no
\* refund but its own, and carries out one that is its own or nobody's.
LEMMA HandlerStep ==
  ASSUME Inv, NEW p \in Procs, NEW a \in Act, act' = [act EXCEPT ![p] = a], TypeOK',
         Money', Rows', EventsKept, receipt => receipt', expense' >= expense,
         \A r : Open(r) /\ ~(Carries(act[p]) /\ act[p].refund = r) => Open(r)',
         HandlerOK(a)',
         Carries(a) => \/ Carries(act[p]) /\ a.refund = act[p].refund
                       \/ \A q \in Procs : Carries(act[q]) => act[q].refund # a.refund
  PROVE  Inv'
<1>1. act \in [Procs -> Act] /\ act'[p] = a /\ \A q \in Procs \ {p} : act'[q] = act[q]
  BY DEF Inv, TypeOK
<1>2. ASSUME NEW q \in Procs PROVE HandlerOK(act[q])'
  <2>1. CASE q = p
    BY <2>1, <1>1 DEF HandlerOK, Carries
  <2>2. CASE q # p
    <3>1. PICK b \in Act : b = act[q]
      BY DEF Inv, TypeOK
    <3>2. HandlerOK(b) /\ act'[q] = b
      BY <1>1, <2>2, <3>1 DEF Inv
    <3>3. Carries(b) => Open(b.refund)'
      BY <2>2, <3>1, <3>2 DEF Inv, Distinct, HandlerOK, Carries
    <3>4. b.seen.refunded \in Nat /\ expense \in Nat /\ expense' \in Nat
      BY DEF Act, Payment, Inv, TypeOK
    <3>5. b.seen.refunded <= expense => b.seen.refunded <= expense'
      BY <3>4
    <3>6. HandlerOK(b)'
      BY <3>2, <3>3, <3>5, StillReported DEF HandlerOK, Carries
    <3> QED
      BY <3>2, <3>6 DEF HandlerOK, Carries
  <2> QED
    BY <2>1, <2>2
<1>3. Distinct'
  BY <1>1 DEF Inv, Distinct
<1> QED
  BY <1>2, <1>3 DEF Inv, EventsKept

\* A step that writes no row of the payment, its refunds or the ledger.
LEMMA QuietStep ==
  ASSUME Inv, NEW p \in Procs, NEW a \in Act, act' = [act EXCEPT ![p] = a],
         UNCHANGED <<method, payment, refunds, settled, receipt, posted, expense>>,
         gateway' \in Gateway, EventsKept, crashes' \in 0..Crashes,
         HandlerOK(a),
         Carries(a) => Carries(act[p]) /\ a.refund = act[p].refund
  PROVE  Inv'
<1>1. TypeOK'
  BY DEF Inv, TypeOK, EventsKept
<1>2. Money' /\ Rows'
  BY StillReported DEF Inv, Money, Rows, RefundedIsPosted, ProcessedIsPosted
<1>3. expense' >= expense
  BY DEF Inv, TypeOK
<1>4. HandlerOK(a)' /\ \A r : Open(r) => Open(r)'
  BY StillReported DEF HandlerOK, Open
<1> QED
  BY <1>1, <1>2, <1>3, <1>4, HandlerStep

\* One that captures the payment or moves it along, and settles what it captures.
LEMMA PaymentStep ==
  ASSUME Inv, NEW p \in Procs, NEW a \in Act, act' = [act EXCEPT ![p] = a],
         UNCHANGED <<method, refunds, posted, expense, gateway, crashes>>,
         payment' \in Payment, payment'.refunded = payment.refunded,
         EventsKept,
         \/ settled' = (settled \/ Settles) /\ receipt' = TRUE /\ CapturedAs(payment'.captured)
         \/ /\ UNCHANGED <<settled, receipt>> /\ payment'.captured = payment.captured
            /\ payment'.status \in Paid => payment.status \in Paid,
         a.step \notin RefundSteps, HandlerOK(a)
  PROVE  Inv'
<1>1. settled' \in BOOLEAN /\ receipt' \in BOOLEAN /\ (receipt => receipt')
  BY PaymentsAssumption DEF Inv, TypeOK
<1>2. TypeOK'
  BY <1>1 DEF Inv, TypeOK, EventsKept
<1>3. /\ payment.captured \in Nat /\ payment.refunded \in Nat /\ expense \in Nat /\ Due \in Nat
      /\ payment'.captured \in Nat
      /\ ~Misreported => payment.captured \in {0, Due} /\ payment'.captured \in {payment.captured, Due}
  BY PaymentsAssumption, AsAsked DEF Inv, TypeOK, Payment, Money
<1>4. Money'
  <2>1. RefundedIsPosted'
    BY <1>3, StillReported DEF Inv, Money, RefundedIsPosted
  <2>2. (receipt => (Settles => settled) /\ CapturedAs(payment.captured))'
    BY <1>1, StillReported DEF Inv, Money
  <2>3. (~receipt => ~settled /\ payment.captured = 0 /\ payment.status \notin Paid)'
    BY <1>1 DEF Inv, Money
  <2> QED
    BY <2>1, <2>2, <2>3 DEF Money
<1>5. Rows' /\ expense' >= expense
  BY <1>3 DEF Inv, Rows, ProcessedIsPosted
<1>6. HandlerOK(a)' /\ ~Carries(a) /\ \A r : Open(r) => Open(r)'
  BY StillReported DEF HandlerOK, Open, Carries, RefundSteps
<1> QED
  BY <1>1, <1>2, <1>4, <1>5, <1>6, HandlerStep

\* Where a handler goes.
LEMMA Going ==
  ASSUME Inv, NEW p \in Procs
  PROVE  /\ act[p] \in Act /\ HandlerOK(act[p])
         /\ \A step \in Steps : Goto(p, step) =>
              \E a \in Act : /\ act' = [act EXCEPT ![p] = a]
                             /\ a = [act[p] EXCEPT !.step = step]
                             /\ a.step = step /\ a.event = act[p].event /\ a.seen = act[p].seen
                             /\ a.amount = act[p].amount /\ a.refund = act[p].refund
         /\ Done(p) => act' = [act EXCEPT ![p] = Idle]
<1>1. act[p] \in Act /\ HandlerOK(act[p])
  BY DEF Inv, TypeOK
<1>2. ASSUME NEW step \in Steps, Goto(p, step)
      PROVE  \E a \in Act : /\ act' = [act EXCEPT ![p] = a]
                            /\ a = [act[p] EXCEPT !.step = step]
                            /\ a.step = step /\ a.event = act[p].event /\ a.seen = act[p].seen
                            /\ a.amount = act[p].amount /\ a.refund = act[p].refund
  <2> DEFINE a == [act[p] EXCEPT !.step = step]
  <2>1. /\ a \in Act /\ a.step = step /\ a.event = act[p].event /\ a.seen = act[p].seen
        /\ a.amount = act[p].amount /\ a.refund = act[p].refund
    BY <1>1 DEF Act
  <2>2. act' = [act EXCEPT ![p] = a]
    BY <1>2 DEF Goto
  <2> QED
    BY <2>1, <2>2
<1> QED
  BY <1>1, <1>2 DEF Done

\* A handler that ends without writing a row.
LEMMA DoneStep ==
  ASSUME Inv, NEW p \in Procs, Done(p),
         UNCHANGED <<method, payment, refunds, settled, receipt, posted, expense>>,
         gateway' \in Gateway, EventsKept, crashes' \in 0..Crashes
  PROVE  Inv'
BY Going, IdleTyped, QuietStep

PlainSteps == {"idle", "afford", "authorize", "capture", "pend", "complete", "fail"}

\* A handler that goes on without writing a row, to a step that relies on nothing.
LEMMA GotoStep ==
  ASSUME Inv, NEW p \in Procs, NEW step \in PlainSteps, Goto(p, step), CapturedAs(act[p].amount),
         UNCHANGED <<method, payment, refunds, settled, receipt, posted, expense>>,
         gateway' \in Gateway, EventsKept, crashes' \in 0..Crashes
  PROVE  Inv'
<1>1. step \in Steps
  BY DEF PlainSteps, Steps
<1>2. PICK a \in Act : act' = [act EXCEPT ![p] = a] /\ a.step = step /\ a.amount = act[p].amount
  BY <1>1, Going
<1>3. HandlerOK(a) /\ ~Carries(a)
  BY <1>2 DEF HandlerOK, Carries, EventSteps, RefundSteps, PlainSteps
<1> QED
  BY <1>2, <1>3, QuietStep

\* What a handler leaves behind is typed: it is idle, or marks an event that exists.
LEMMA Leaving ==
  ASSUME Inv, NEW p \in Procs, Leave(p)
  PROVE  \E a \in Act : act' = [act EXCEPT ![p] = a] /\ a.step \notin RefundSteps /\ HandlerOK(a)
<1>1. CASE act[p].event = Nobody
  <2>1. Idle.step \notin RefundSteps
    BY IdleTyped DEF RefundSteps
  <2> QED
    BY <1>1, <2>1, Going, IdleTyped DEF Leave
<1>2. CASE act[p].event # Nobody
  <2>1. PICK a \in Act : act' = [act EXCEPT ![p] = a] /\ a.step = "mark" /\ a.event = act[p].event
    BY <1>2, Going DEF Leave, Steps
  <2>2. a.event \in Events
    BY <1>2, <2>1 DEF Act
  <2> QED
    BY <2>1, <2>2 DEF HandlerOK, Carries, RefundSteps, Capturing
<1> QED
  BY <1>1, <1>2

\* So is what an exception does to the event.
LEMMA Throwing ==
  ASSUME Inv, NEW p \in Procs, Throw(p)
  PROVE  EventsKept /\ act' = [act EXCEPT ![p] = Idle]
<1>1. CASE act[p].event = Nobody
  BY <1>1, SameEvents DEF Throw, Done
<1>2. CASE act[p].event # Nobody
  <2> DEFINE e == act[p].event  n == events[e].tries + 1
             s == IF n < Tries THEN "queued" ELSE "dead"
             f == [[events[e] EXCEPT !.tries = n] EXCEPT !.state = s]
  <2>1. e \in Events /\ events[e] \in Event
    BY <1>2, Going DEF Act, Inv, TypeOK
  <2>2. f \in Event /\ f.type = events[e].type /\ f.amount = events[e].amount /\ f.state # "unsent"
    <3>1. n \in Nat /\ s \in {"queued", "dead"}
      BY <2>1 DEF Event
    <3> HIDE DEF n, s
    <3> QED
      BY <2>1, <3>1 DEF Event
  <2>3. events' = [events EXCEPT ![e] = f]
    BY <1>2, <2>1 DEF Throw, Inv, TypeOK
  <2>4. EventsKept
    BY <2>1, <2>2, <2>3 DEF Inv, TypeOK, EventsKept, Unsent
  <2> QED
    BY <2>4 DEF Throw, Done
<1> QED
  BY <1>1, <1>2

-----------------------------------------------------------------------------
(* Every step keeps the invariant.                                           *)

\* What a step that leaves them alone keeps.
LEMMA Kept ==
  Inv => /\ gateway \in Gateway /\ events \in [Events -> Event] /\ crashes \in 0..Crashes
         /\ (UNCHANGED events => EventsKept)
         /\ payment \in Payment /\ act \in [Procs -> Act] /\ refunds \in [1..Refunds -> Refund]
BY SameEvents DEF Inv, TypeOK

\* Rewriting the columns of the payments row.
LEMMA RowTyped ==
  ASSUME NEW row \in Payment, NEW s \in PaymentStatus, NEW n \in Nat, NEW b \in BOOLEAN
  PROVE  /\ row.version + 1 \in Nat
         /\ [row EXCEPT !.status = s] \in Payment
         /\ [row EXCEPT !.version = n] \in Payment
         /\ [row EXCEPT !.captured = n] \in Payment
         /\ [row EXCEPT !.refunded = n] \in Payment
         /\ [row EXCEPT !.ref = b] \in Payment
BY DEF Payment

\* The capture of a payment.
LEMMA CaptureSteps ==
  ASSUME Inv, NEW p \in Procs,
         \/ StartCapture(p) \/ CheckBalance(p) \/ Authorize(p) \/ CaptureAuthorized(p)
         \/ AwaitCustomer(p) \/ CompleteCapture(p) \/ MarkFailed(p)
  PROVE  Inv'
<1> USE Kept
<1>1. CASE StartCapture(p)
  <2> DEFINE s == CASE method = "CASH" -> "complete" [] method = "WALLET" -> "afford"
                    [] OTHER -> "authorize"
             a == [Idle EXCEPT !.seen = payment, !.amount = Due, !.step = s]
  <2>1. s \in PlainSteps /\ s \in Steps
    BY DEF PlainSteps, Steps
  <2>2. act' = [act EXCEPT ![p] = a]
    BY <1>1 DEF StartCapture
  <2> HIDE DEF s
  <2>3. a \in Act /\ a.step = s /\ a.amount = Due
    BY <2>1, IdleTyped, PaymentsAssumption DEF Act, Idle
  <2>4. HandlerOK(a) /\ ~Carries(a)
    BY <2>1, <2>3 DEF HandlerOK, Carries, EventSteps, RefundSteps, PlainSteps, CapturedAs
  <2> HIDE DEF a
  <2> QED
    BY <1>1, <2>2, <2>3, <2>4, QuietStep DEF StartCapture
<1>2. CASE CheckBalance(p)
  <2>1. PICK step \in PlainSteps : Goto(p, step)
    BY <1>2 DEF CheckBalance, PlainSteps
  <2>2. CapturedAs(act[p].amount)
    BY <1>2 DEF CheckBalance, At, Inv, HandlerOK, Capturing
  <2> QED
    BY <1>2, <2>1, <2>2, GotoStep DEF CheckBalance
<1>3. CASE Authorize(p)
  <2>1. gateway' \in Gateway
    BY <1>3 DEF Authorize, Gateway
  <2>2. Done(p) \/ \E step \in PlainSteps : Goto(p, step)
    BY <1>3 DEF Authorize, PlainSteps
  <2>3. CapturedAs(act[p].amount)
    BY <1>3 DEF Authorize, At, Inv, HandlerOK, Capturing
  <2> QED
    BY <1>3, <2>1, <2>2, <2>3, GotoStep, DoneStep DEF Authorize
<1>4. CASE CaptureAuthorized(p)
  <2>1. gateway' \in Gateway
    BY <1>4 DEF CaptureAuthorized, Gateway
  <2>2. Done(p) \/ \E step \in PlainSteps : Goto(p, step)
    BY <1>4 DEF CaptureAuthorized, PlainSteps
  <2>3. CapturedAs(act[p].amount)
    BY <1>4 DEF CaptureAuthorized, At, Inv, HandlerOK, Capturing
  <2> QED
    BY <1>4, <2>1, <2>2, <2>3, GotoStep, DoneStep DEF CaptureAuthorized
<1>5. CASE AwaitCustomer(p)
  <2>1. /\ payment' \in Payment /\ payment'.refunded = payment.refunded
        /\ payment'.captured = payment.captured /\ payment'.status = "PENDING"
    <3>1. payment' = [[[payment EXCEPT !.status = "PENDING"] EXCEPT !.ref = TRUE]
                        EXCEPT !.version = payment.version + 1]
      BY <1>5 DEF AwaitCustomer, Payment
    <3>2. payment' \in Payment
      BY <3>1, RowTyped DEF PaymentStatus
    <3> QED
      BY <3>1, <3>2 DEF Payment
  <2>2. act' = [act EXCEPT ![p] = Idle] /\ Idle \in Act /\ HandlerOK(Idle)
        /\ Idle.step \notin RefundSteps
    BY <1>5, Going, IdleTyped DEF AwaitCustomer, RefundSteps
  <2> QED
    BY <1>5, <2>1, <2>2, PaymentStep DEF AwaitCustomer, Paid
<1>6. CASE CompleteCapture(p)
  <2>1. UNCHANGED <<method, refunds, posted, expense, gateway, crashes>>
    BY <1>6 DEF CompleteCapture
  <2>2. ASSUME payment' = Captured(p), settled' = (settled \/ Settles), receipt' = TRUE, Leave(p),
               UNCHANGED events
        PROVE  Inv'
    <3>1. /\ payment' \in Payment /\ payment'.refunded = payment.refunded
          /\ payment'.captured = act[p].amount
      <4> DEFINE b == method = "CARD"  n == act[p].amount
      <4>1. payment' = [[[[payment EXCEPT !.status = "CAPTURED"] EXCEPT !.captured = n]
                           EXCEPT !.version = payment.version + 1] EXCEPT !.ref = b]
        BY <2>2 DEF Captured, Payment
      <4>2. b \in BOOLEAN /\ n \in Nat /\ "CAPTURED" \in PaymentStatus
        BY DEF PaymentStatus, Paid, Act
      <4> HIDE DEF b, n
      <4>3. payment' \in Payment
        BY <4>1, <4>2, RowTyped
      <4> QED
        BY <4>1, <4>3 DEF Payment, n
    <3>2. PICK a \in Act : act' = [act EXCEPT ![p] = a] /\ a.step \notin RefundSteps /\ HandlerOK(a)
      BY <2>2, Leaving
    <3>3. CapturedAs(payment'.captured)
      BY <1>6, <3>1 DEF CompleteCapture, At, Inv, HandlerOK, Capturing
    <3> QED
      BY <2>1, <2>2, <3>1, <3>2, <3>3, PaymentStep
  <2>3. ASSUME (Leave(p) /\ UNCHANGED events) \/ Throw(p), UNCHANGED <<payment, settled, receipt>>
        PROVE  Inv'
    <3>1. Idle.step \notin RefundSteps /\ Idle \in Act /\ HandlerOK(Idle)
      BY IdleTyped DEF RefundSteps
    <3>2. /\ EventsKept
          /\ \E a \in Act : act' = [act EXCEPT ![p] = a] /\ a.step \notin RefundSteps /\ HandlerOK(a)
      BY <2>3, <3>1, Leaving, Throwing
    <3>3. PICK a \in Act : act' = [act EXCEPT ![p] = a] /\ a.step \notin RefundSteps /\ HandlerOK(a)
      BY <3>2
    <3> QED
      BY <2>1, <2>3, <3>2, <3>3, PaymentStep
  <2> QED
    BY <1>6, <2>2, <2>3 DEF CompleteCapture
<1>7. CASE MarkFailed(p)
  <2>1. /\ payment' \in Payment /\ payment'.refunded = payment.refunded
        /\ payment'.captured = payment.captured
        /\ payment'.status \in Paid => payment.status \in Paid
    <3>1. CASE payment.status \in Paid
      BY <1>7, <3>1 DEF MarkFailed
    <3>2. CASE payment.status \notin Paid
      <4>1. PICK named \in BOOLEAN :
              payment' = [[[payment EXCEPT !.status = "FAILED"] EXCEPT !.version = payment.version + 1]
                            EXCEPT !.ref = (named \/ act[p].seen.ref)]
        BY <1>7, <3>2 DEF MarkFailed, Payment
      <4>2. (named \/ act[p].seen.ref) \in BOOLEAN /\ "FAILED" \in PaymentStatus
        BY DEF PaymentStatus
      <4>3. payment' \in Payment
        BY <4>1, <4>2, RowTyped
      <4> QED
        BY <4>1, <4>3 DEF Payment, Paid
    <3> QED
      BY <3>1, <3>2
  <2>2. PICK a \in Act : act' = [act EXCEPT ![p] = a] /\ a.step \notin RefundSteps /\ HandlerOK(a)
    BY <1>7, Leaving DEF MarkFailed
  <2> QED
    BY <1>7, <2>1, <2>2, PaymentStep DEF MarkFailed
<1> QED
  BY <1>1, <1>2, <1>3, <1>4, <1>5, <1>6, <1>7

\* A request for a refund reads a payment that has been captured, and asks for what is left.
LEMMA StartRefundStep ==
  ASSUME Inv, NEW p \in Procs, NEW amount \in 1..payment.captured, StartRefund(p, amount)
  PROVE  Inv'
<1> DEFINE a == [Idle EXCEPT !.seen = payment, !.step = "row", !.amount = amount]
<1>1. /\ amount \in Nat /\ Due \in Nat
      /\ payment.captured \in Nat /\ payment.refunded \in Nat /\ expense \in Nat
  BY PaymentsAssumption DEF Inv, TypeOK, Payment
<1>2. receipt /\ (payment.captured = Due \/ Misreported) /\ payment.refunded <= expense
  BY AsAsked DEF StartRefund, Inv, Money, RefundedIsPosted, Paid
<1>3. payment.refunded + amount <= payment.captured
  BY <1>1 DEF StartRefund
<1>4. a \in Act /\ a.step = "row" /\ a.seen = payment /\ a.amount = amount
  BY <1>1, Kept, IdleTyped DEF Act, Idle, Steps
<1>5. act' = [act EXCEPT ![p] = a]
  BY DEF StartRefund
<1> HIDE DEF a
<1>6. HandlerOK(a) /\ ~Carries(a)
  BY <1>2, <1>3, <1>4 DEF HandlerOK, Carries, EventSteps, Capturing
<1> QED
  BY <1>4, <1>5, <1>6, Kept, QuietStep DEF StartRefund

\* Its row is a new one, which nobody else carries out.
LEMMA CreateRefundStep == ASSUME Inv, NEW p \in Procs, CreateRefund(p) PROVE Inv'
<1>1. PICK r \in 1..Refunds :
        /\ refunds[r].status = "NONE"
        /\ refunds' = [refunds EXCEPT ![r] = [status |-> "PENDING", amount |-> act[p].amount,
                                              ref |-> FALSE]]
        /\ act' = [act EXCEPT ![p].refund = r,
                              ![p].step = IF method = "CARD" THEN "giveBack" ELSE "post"]
  BY DEF CreateRefund
<1>2. /\ act[p] \in Act /\ HandlerOK(act[p]) /\ act[p].step = "row"
      /\ act \in [Procs -> Act] /\ refunds \in [1..Refunds -> Refund]
      /\ UNCHANGED <<method, payment, settled, receipt, posted, expense, gateway, events, crashes>>
  BY Going, Kept DEF CreateRefund, At
<1>3. r \in 0..Refunds /\ act[p].amount \in Nat
  BY <1>2, PaymentsAssumption DEF Act
<1>4. PICK a \in Act : /\ act' = [act EXCEPT ![p] = a] /\ a.step \in {"giveBack", "post"}
                       /\ a.refund = r /\ a.seen = act[p].seen /\ a.amount = act[p].amount
  <2> DEFINE s == IF method = "CARD" THEN "giveBack" ELSE "post"
             b == [[act[p] EXCEPT !.refund = r] EXCEPT !.step = s]
  <2>1. s \in {"giveBack", "post"}
    OBVIOUS
  <2>2. act' = [act EXCEPT ![p] = b]
    BY <1>1, <1>2
  <2> HIDE DEF s
  <2>3. b \in Act /\ b.step = s /\ b.refund = r /\ b.seen = act[p].seen /\ b.amount = act[p].amount
    BY <1>2, <1>3, <2>1 DEF Act, Steps
  <2> QED
    BY <2>1, <2>2, <2>3
<1>5. [status |-> "PENDING", amount |-> act[p].amount, ref |-> FALSE] \in Refund
  BY <1>3 DEF Refund, RefundStatus
<1>6. refunds' \in [1..Refunds -> Refund]
  BY <1>1, <1>2, <1>5
<1>7. act' \in [Procs -> Act]
  BY <1>2, <1>4
<1>8. TypeOK'
  BY <1>2, <1>6, <1>7 DEF Inv, TypeOK
<1>9. r \notin posted
  BY <1>1 DEF Inv, Rows, ProcessedIsPosted
<1>10. /\ refunds'[r].status = "PENDING" /\ ~refunds'[r].ref
       /\ \A x \in 1..Refunds : x # r => refunds'[x] = refunds[x]
  BY <1>1, <1>2
<1>11. Money' /\ EventsKept
  BY <1>2, SameEvents, StillReported DEF Inv, Money, RefundedIsPosted
<1>12. Rows'
  BY <1>2, <1>9, <1>10 DEF Inv, Rows, ProcessedIsPosted
<1>13. Open(r)' /\ \A x : Open(x) => Open(x)' /\ x # r
  BY <1>1, <1>2, <1>9, <1>10 DEF Open
<1>14. HandlerOK(a)'
  <2>1. a.step \in RefundSteps \ {"row"} /\ a.step \notin EventSteps /\ act[p].step \in RefundSteps
    BY <1>2, <1>4 DEF RefundSteps, EventSteps
  <2>2. /\ receipt' /\ (a.seen.captured = Due \/ Misreported')
        /\ a.seen.refunded + a.amount <= a.seen.captured /\ a.seen.refunded <= expense'
    BY <1>2, <1>4, <1>11, <2>1, StillReported DEF HandlerOK
  <2>3. Open(a.refund)'
    BY <1>4, <1>13 DEF Open
  <2> QED
    BY <2>1, <2>2, <2>3 DEF HandlerOK, RefundSteps, Capturing
<1>15. \A q \in Procs : Carries(act[q]) => act[q].refund # a.refund
  BY <1>4, <1>13 DEF Inv, HandlerOK
<1>16. expense' >= expense /\ (receipt => receipt')
  BY <1>2 DEF Inv, TypeOK
<1> QED
  BY <1>4, <1>8, <1>11, <1>12, <1>13, <1>14, <1>15, <1>16, HandlerStep

\* The provider's answer: given back and to be posted, refused, or lost.
LEMMA GiveBackStep == ASSUME Inv, NEW p \in Procs, GiveBack(p) PROVE Inv'
<1>1. /\ act[p] \in Act /\ HandlerOK(act[p]) /\ act[p].step = "giveBack" /\ Open(act[p].refund)
      /\ UNCHANGED <<method, payment, settled, receipt, posted, expense, events, crashes>>
  BY Going DEF GiveBack, At, HandlerOK, Carries
<1>2. ASSUME gateway' = [gateway EXCEPT !.returned = @ + act[p].amount], Goto(p, "post") \/ Done(p),
             UNCHANGED refunds
      PROVE  Inv'
  <2>1. gateway' \in Gateway
    <3>1. gateway \in Gateway /\ gateway.returned \in Nat /\ act[p].amount \in Nat
      BY <1>1, Kept DEF Gateway, Act
    <3>2. gateway' = [gateway EXCEPT !.returned = gateway.returned + act[p].amount]
      BY <1>2, <3>1 DEF Gateway
    <3>3. gateway.returned + act[p].amount \in Nat
      BY <3>1
    <3> QED
      BY <3>1, <3>2, <3>3 DEF Gateway
  <2>2. CASE Done(p)
    BY <1>1, <1>2, <2>1, <2>2, Kept, DoneStep
  <2>3. CASE Goto(p, "post")
    <3>1. PICK a \in Act : /\ act' = [act EXCEPT ![p] = a] /\ a.step = "post"
                           /\ a.seen = act[p].seen /\ a.amount = act[p].amount
                           /\ a.refund = act[p].refund
      BY <2>3, Going DEF Steps
    <3>2. HandlerOK(a) /\ Carries(act[p])
      BY <1>1, <3>1 DEF HandlerOK, Carries, EventSteps, RefundSteps, Capturing
    <3> QED
      BY <1>1, <1>2, <2>1, <3>1, <3>2, Kept, QuietStep
  <2> QED
    BY <1>2, <2>2, <2>3
<1>3. ASSUME refunds' = [refunds EXCEPT ![act[p].refund].status = "FAILED"], Done(p), UNCHANGED gateway
      PROVE  Inv'
  <2> DEFINE r == act[p].refund
  <2>1. r \in 1..Refunds /\ r \notin posted /\ ~refunds[r].ref
    BY <1>1 DEF Open
  <2>2. act' = [act EXCEPT ![p] = Idle] /\ Idle \in Act /\ ~Carries(Idle) /\ act' \in [Procs -> Act]
    BY <1>3, Going, IdleTyped, Kept
  <2>3. HandlerOK(Idle)'
    BY IdleTyped DEF HandlerOK, Carries, EventSteps, RefundSteps, Capturing
  <2>4. /\ refunds' \in [1..Refunds -> Refund] /\ refunds'[r].status = "FAILED"
        /\ refunds'[r].ref = refunds[r].ref
        /\ \A x \in 1..Refunds : x # r => refunds'[x] = refunds[x]
    BY <1>3, <2>1, Kept DEF Refund, RefundStatus
  <2>5. TypeOK'
    BY <1>1, <1>3, <2>2, <2>4 DEF Inv, TypeOK
  <2>6. Money' /\ EventsKept
    BY <1>1, SameEvents, StillReported DEF Inv, Money, RefundedIsPosted
  <2>7. Rows'
    BY <1>1, <2>1, <2>4 DEF Inv, Rows, ProcessedIsPosted
  <2>8. \A x : Open(x) /\ ~(Carries(act[p]) /\ act[p].refund = x) => Open(x)'
    BY <1>1, <2>4 DEF Open, Carries
  <2>9. expense' >= expense /\ (receipt => receipt')
    BY <1>1 DEF Inv, TypeOK
  <2> QED
    BY <2>2, <2>3, <2>5, <2>6, <2>7, <2>8, <2>9, HandlerStep
<1>4. CASE Done(p) /\ UNCHANGED <<gateway, refunds>>
  BY <1>1, <1>4, Kept, DoneStep
<1> QED
  BY <1>2, <1>3, <1>4 DEF GiveBack

\* Posting books the refund in the ledger, on the payment and on its row at once.
LEMMA PostRefundStep == ASSUME Inv, NEW p \in Procs, PostRefund(p) PROVE Inv'
<1> DEFINE r == act[p].refund  amount == act[p].amount  seen == act[p].seen
           total == seen.refunded + amount
<1>1. /\ act[p] \in Act /\ HandlerOK(act[p]) /\ act[p].step = "post"
      /\ posted' = posted \cup {r} /\ expense' = expense + amount /\ payment' = Refunded(p)
      /\ refunds' = [refunds EXCEPT ![r].status = "PROCESSED", ![r].ref = (method = "CARD")]
      /\ Done(p)
      /\ UNCHANGED <<method, settled, receipt, gateway, events, crashes>>
  BY Going DEF PostRefund, At
<1>2. /\ receipt /\ (seen.captured = Due \/ Misreported) /\ total <= seen.captured
      /\ seen.refunded <= expense
      /\ Open(r) /\ r \in 1..Refunds
  BY <1>1 DEF HandlerOK, Carries, RefundSteps, Open
<1>3. /\ seen.refunded \in Nat /\ seen.captured \in Nat /\ amount \in Nat /\ expense \in Nat
      /\ total \in Nat /\ payment.version \in Nat
  <2>1. seen \in Payment /\ amount \in Nat /\ expense \in Nat /\ payment.version \in Nat
    BY <1>1, Kept DEF Act, Payment, Inv, TypeOK
  <2> QED
    BY <2>1 DEF Payment
<1>4. act' = [act EXCEPT ![p] = Idle] /\ Idle \in Act /\ ~Carries(Idle) /\ act' \in [Procs -> Act]
  BY <1>1, Going, IdleTyped, Kept
<1>5. HandlerOK(Idle)'
  BY IdleTyped DEF HandlerOK, Carries, EventSteps, RefundSteps, Capturing
<1>6. /\ payment' \in Payment /\ payment'.refunded = total /\ payment'.captured = payment.captured
  <2> DEFINE s == IF total >= seen.captured THEN "REFUNDED" ELSE "PARTIALLY_REFUNDED"
  <2>1. s \in PaymentStatus
    BY DEF PaymentStatus, Paid
  <2>2. payment' = [[[payment EXCEPT !.refunded = total] EXCEPT !.version = payment.version + 1]
                      EXCEPT !.status = s]
    BY <1>1, Kept DEF Refunded, Payment
  <2> HIDE DEF s, total
  <2>3. payment' \in Payment
    BY <1>3, <2>1, <2>2, Kept, RowTyped
  <2> QED
    BY <2>2, <2>3 DEF Payment
<1>7. /\ refunds' \in [1..Refunds -> Refund] /\ refunds'[r].status = "PROCESSED"
      /\ \A x \in 1..Refunds : x # r => refunds'[x] = refunds[x]
  BY <1>1, <1>2, Kept DEF Refund, RefundStatus
<1>8. posted' \subseteq 1..Refunds /\ expense' \in Nat
  BY <1>1, <1>2, <1>3 DEF Inv, TypeOK
<1>9. TypeOK'
  BY <1>1, <1>4, <1>6, <1>7, <1>8 DEF Inv, TypeOK
<1>10. /\ EventsKept /\ receipt' /\ (Settles => settled') /\ CapturedAs(payment.captured)'
       /\ ~Misreported' => payment'.captured = Due /\ seen.captured = Due
  <2>1. EventsKept /\ (Misreported => Misreported')
    BY <1>1, SameEvents, StillReported
  <2>2. PICK n : n = payment.captured /\ n = payment'.captured
    BY <1>6
  <2>3. CapturedAs(n)
    BY <1>2, <2>2 DEF Inv, Money
  <2>4. CapturedAs(n)' /\ (~Misreported => n = Due)
    BY <2>1, <2>3, StillReported, AsAsked
  <2>5. CapturedAs(payment.captured)'
    BY <2>2, <2>4 DEF CapturedAs
  <2>6. receipt' /\ (Settles => settled')
    BY <1>1, <1>2 DEF Inv, Money
  <2> QED
    BY <1>2, <2>1, <2>2, <2>4, <2>5, <2>6
<1>11. total <= expense'
  BY <1>1, <1>2, <1>3
<1>12. Money'
  <2>1. RefundedIsPosted'
    BY <1>2, <1>6, <1>10, <1>11 DEF RefundedIsPosted
  <2> QED
    BY <1>10, <2>1 DEF Money
<1>13. Rows'
  BY <1>1, <1>7 DEF Inv, Rows, ProcessedIsPosted
<1>14. \A x : Open(x) /\ ~(Carries(act[p]) /\ act[p].refund = x) => Open(x)'
  BY <1>1, <1>7 DEF Open, Carries
<1>15. expense' >= expense
  BY <1>1, <1>3
<1> QED
  BY <1>4, <1>5, <1>9, <1>10, <1>12, <1>13, <1>14, <1>15, HandlerStep

\* Storing, taking and marking webhook events.
LEMMA EventStep ==
  ASSUME Inv, NEW p \in Procs,
         \/ \E e \in Events : StoreEvent(p, e) \/ ProcessWebhook(p, e)
         \/ EnqueueEvent(p) \/ MarkProcessed(p)
  PROVE  Inv'
<1> USE Kept
<1>1. ASSUME NEW e \in Events, StoreEvent(p, e) PROVE Inv'
  <2> DEFINE a == [Idle EXCEPT !.step = "enqueue", !.event = e]
  <2>1. PICK type \in Reports, amount \in Amounts \cup {Due} :
          events' = [events EXCEPT ![e].type = type, ![e].amount = amount, ![e].state = "stored"]
    BY <1>1 DEF StoreEvent
  <2>2. type \in EventTypes /\ amount \in Nat /\ events[e].state = "unsent"
    BY <1>1, PaymentsAssumption DEF Reports, EventTypes, StoreEvent
  <2>3. EventsKept
    <3> DEFINE f == [[[events[e] EXCEPT !.type = type] EXCEPT !.amount = amount] EXCEPT !.state = "stored"]
    <3>1. f \in Event /\ f.state # "unsent"
      BY <2>2 DEF Event
    <3>2. events' = [events EXCEPT ![e] = f]
      BY <2>1 DEF Event
    <3> QED
      BY <2>2, <3>1, <3>2 DEF EventsKept, Unsent, Inv
  <2>4. a \in Act /\ a.step = "enqueue" /\ a.event = e /\ act' = [act EXCEPT ![p] = a]
    BY <1>1, IdleTyped DEF StoreEvent, Act, Idle, Steps
  <2> HIDE DEF a
  <2>5. HandlerOK(a) /\ ~Carries(a)
    BY <2>4 DEF HandlerOK, Carries, RefundSteps, Capturing
  <2> QED
    BY <1>1, <2>3, <2>4, <2>5, QuietStep DEF StoreEvent
<1>2. ASSUME NEW e \in Events, ProcessWebhook(p, e) PROVE Inv'
  <2> DEFINE s == NextStep(events[e].type)
             a == [Idle EXCEPT !.seen = payment, !.event = e, !.amount = events[e].amount, !.step = s]
  <2>1. /\ s \in {"complete", "fail", "refundEvent", "mark"}
        /\ s = "complete" => CapturedAs(events[e].amount)
    BY DEF NextStep, CapturedAs
  <2>2. act' = [act EXCEPT ![p] = a]
    BY <1>2 DEF ProcessWebhook
  <2> HIDE DEF s
  <2>3. a \in Act /\ a.step = s /\ a.event = e /\ a.amount = events[e].amount
    BY <2>1, IdleTyped DEF Act, Idle, Steps, Event
  <2> HIDE DEF a
  <2>4. HandlerOK(a) /\ ~Carries(a)
    BY <2>1, <2>3 DEF HandlerOK, Carries, RefundSteps, Capturing
  <2> QED
    BY <1>2, <2>2, <2>3, <2>4, QuietStep DEF ProcessWebhook
<1>3. CASE EnqueueEvent(p) \/ MarkProcessed(p)
  <2>1. act[p].step \in EventSteps
    BY <1>3 DEF EnqueueEvent, MarkProcessed, At, EventSteps
  <2>2. act[p].event \in Events
    BY <2>1, Going DEF HandlerOK
  <2>3. EventsKept
    <3> DEFINE e == act[p].event
    <3>1. PICK s \in {"queued", "done"} : events' = [events EXCEPT ![e].state = s]
      BY <1>3 DEF EnqueueEvent, MarkProcessed
    <3> DEFINE f == [events[e] EXCEPT !.state = s]
    <3>2. /\ f \in Event /\ f.state # "unsent"
          /\ f.type = events[e].type /\ f.amount = events[e].amount
      BY <2>2 DEF Event
    <3>3. events' = [events EXCEPT ![e] = f]
      BY <3>1
    <3> QED
      BY <2>2, <3>2, <3>3 DEF EventsKept, Unsent, Inv
  <2> QED
    BY <1>3, <2>3, DoneStep DEF EnqueueEvent, MarkProcessed
<1> QED
  BY <1>1, <1>2, <1>3

\* A refund event writes the status of a refund that is posted.
LEMMA RefundEventStep == ASSUME Inv, NEW p \in Procs, ApplyRefundWebhook(p) PROVE Inv'
<1> DEFINE status == Reported(events[act[p].event].type)
<1>1. /\ act[p] \in Act /\ HandlerOK(act[p]) /\ act[p].step = "refundEvent"
      /\ Goto(p, "mark")
      /\ UNCHANGED <<method, payment, settled, receipt, posted, expense, gateway, events, crashes>>
  BY Going DEF ApplyRefundWebhook, At
<1>2. status \in {"PROCESSED", "FAILED"}
  BY DEF Reported
<1>3. refunds' = [r \in 1..Refunds |->
                    IF LastWithRef(r) THEN [refunds[r] EXCEPT !.status = status] ELSE refunds[r]]
  BY DEF ApplyRefundWebhook
<1> HIDE DEF status
<1>4. /\ refunds' \in [1..Refunds -> Refund]
      /\ \A r \in 1..Refunds : /\ ~refunds[r].ref => refunds'[r] = refunds[r]
                               /\ refunds'[r].ref = refunds[r].ref
                               /\ refunds'[r].status \in {refunds[r].status, "PROCESSED", "FAILED"}
  BY <1>2, <1>3, Kept DEF LastWithRef, Refund, RefundStatus
<1>5. PICK a \in Act : act' = [act EXCEPT ![p] = a] /\ a.step = "mark" /\ a.event = act[p].event
  BY <1>1, Going DEF Steps
<1>6. act' \in [Procs -> Act]
  BY <1>5, Kept
<1>7. HandlerOK(a)' /\ ~Carries(a)
  BY <1>1, <1>5 DEF HandlerOK, Carries, RefundSteps, EventSteps, Capturing
<1>8. TypeOK'
  BY <1>1, <1>4, <1>6 DEF Inv, TypeOK
<1>9. Money' /\ EventsKept /\ expense' >= expense /\ (receipt => receipt')
  BY <1>1, SameEvents, StillReported DEF Inv, Money, RefundedIsPosted, TypeOK
<1>10. Rows'
  BY <1>1, <1>4 DEF Inv, Rows, ProcessedIsPosted
<1>11. \A r : Open(r) => Open(r)'
  BY <1>1, <1>4 DEF Open
<1> QED
  BY <1>5, <1>7, <1>8, <1>9, <1>10, <1>11, HandlerStep

\* Every step keeps the invariant.
LEMMA NextInv == Inv /\ [Next]_vars => Inv'
<1> SUFFICES ASSUME Inv, [Next]_vars PROVE Inv'
  OBVIOUS
<1>1. CASE CustomerActs
  <2>1. gateway' \in Gateway
    BY <1>1, Kept DEF CustomerActs, Gateway
  <2>2. UNCHANGED <<method, payment, refunds, settled, receipt, posted, expense, events, act, crashes>>
    BY <1>1 DEF CustomerActs
  <2> QED
    BY <2>1, <2>2 DEF Inv, TypeOK, HandlerOK, Open, Money, Rows, RefundedIsPosted,
                      ProcessedIsPosted, Distinct, Carries, Unsent, CapturedAs, Misreported
<1>2. ASSUME NEW p \in Procs, Crash(p) PROVE Inv'
  <2>1. crashes' \in 0..Crashes
    BY <1>2, PaymentsAssumption, Kept DEF Crash
  <2> QED
    BY <1>2, <2>1, Kept, DoneStep DEF Crash
<1>3. ASSUME NEW p \in Procs, Proceed(p) PROVE Inv'
  BY <1>3, CaptureSteps, CreateRefundStep, GiveBackStep, PostRefundStep, EventStep, RefundEventStep
     DEF Proceed
<1>4. CASE UNCHANGED vars
  BY <1>4 DEF vars, Inv, TypeOK, HandlerOK, Open, Money, Rows, RefundedIsPosted,
              ProcessedIsPosted, Distinct, Carries, Unsent, CapturedAs, Misreported
<1> QED
  BY <1>1, <1>2, <1>3, <1>4, CaptureSteps, StartRefundStep, EventStep DEF Next, Procs

\* The invariant holds in every state the specification reaches.
LEMMA Invariant == Spec => []Inv
BY InitInv, NextInv, PTL DEF Spec

-----------------------------------------------------------------------------
(* The ledger and the provider.                                              *)

\* What handlers in flight have given back and not posted yet, one element per unit of money:
\* its cardinality is their sum.
InHand == UNION {{p} \X (1..act[p].amount) : p \in {q \in Procs : At(q, "post")}}

\* The provider has charged what is settled, what a handler is about to settle, and what an
\* event reports; a card payment does not look at a wallet.
Charges ==
  /\ settled => gateway.charged
  /\ \A p \in Procs : (At(p, "complete") => gateway.charged) /\ ~At(p, "afford")
  /\ \A e \in Events : events[e].type = "payment.captured" => gateway.charged

\* What is posted and what is about to be posted have been given back.
Returns == IsFiniteSet(InHand) /\ expense + Cardinality(InHand) <= gateway.returned

Backed == method = "CARD" => Charges /\ Returns

LEMMA InitBacked == Init => Backed
<1> SUFFICES ASSUME Init PROVE Backed
  OBVIOUS
<1>1. Charges
  BY DEF Init, Charges, At, Idle
<1>2. InHand = {}
  BY DEF Init, InHand, At, Idle
<1>3. Returns
  BY <1>2, FS_EmptySet DEF Init, Returns
<1> QED
  BY <1>1, <1>3 DEF Backed

\* The units of money in hand belong to handlers that are about to post.
LEMMA InHandUnits ==
  /\ \A x \in InHand : x = <<x[1], x[2]>> /\ x[1] \in Procs
  /\ \A p, k : <<p, k>> \in InHand <=> p \in Procs /\ At(p, "post") /\ k \in 1..act[p].amount
BY DEF InHand

\* A set of units of one handler.
LEMMA Units ==
  ASSUME NEW p, NEW n \in Nat
  PROVE  IsFiniteSet({p} \X (1..n)) /\ Cardinality({p} \X (1..n)) = n
<1>1. IsFiniteSet(1..n) /\ Cardinality(1..n) = n
  BY FS_Interval
<1>2. IsFiniteSet({p}) /\ Cardinality({p}) = 1
  BY FS_Singleton
<1> QED
  BY <1>1, <1>2, FS_Product

\* A handler that goes anywhere but to the posting takes nothing into its hands.
LEMMA NothingTaken ==
  ASSUME Inv, NEW p \in Procs, NEW a \in Act, act' = [act EXCEPT ![p] = a], a.step # "post"
  PROVE  InHand' = {x \in InHand : x[1] # p}
<1>1. act'[p] = a /\ \A q \in Procs : q # p => act'[q] = act[q]
  BY Kept
<1>2. ~At(p, "post")' /\ \A q \in Procs : q # p => (At(q, "post")' <=> At(q, "post"))
  BY <1>1 DEF At
<1>3. \A q, k : <<q, k>> \in InHand' <=> <<q, k>> \in InHand /\ q # p
  BY <1>1, <1>2, InHandUnits DEF InHand
<1> QED
  BY <1>3, InHandUnits DEF InHand

\* Then less is in hand than before, or as much.
LEMMA NothingMore ==
  ASSUME Returns, InHand' \subseteq InHand, expense' = expense,
         expense \in Nat, gateway.returned \in Nat, gateway'.returned \in Nat,
         gateway'.returned >= gateway.returned
  PROVE  Returns'
<1>1. /\ IsFiniteSet(InHand') /\ Cardinality(InHand') <= Cardinality(InHand)
      /\ Cardinality(InHand) \in Nat /\ Cardinality(InHand') \in Nat
  BY FS_Subset, FS_CardinalityType DEF Returns
<1> QED
  BY <1>1 DEF Returns

\* What a provider has taken or given back stays taken or given back.
ProviderKeeps ==
  /\ gateway.charged => gateway'.charged
  /\ gateway'.returned >= gateway.returned

\* The provider has charged what a step settles, goes on to settle in state a, or stores.
PaidFirst(a) ==
  /\ settled' => settled \/ gateway'.charged
  /\ a.step = "complete" => gateway'.charged
  /\ \A e \in Events : events'[e].type = "payment.captured" =>
                          events[e].type = "payment.captured" \/ gateway'.charged

\* A step of handler p to state a that neither posts nor is about to, and before which the
\* provider has charged whatever a is going to settle.
LEMMA BackedStep ==
  ASSUME Inv, Inv', Backed, method = "CARD", NEW p \in Procs, NEW a \in Act,
         act' = [act EXCEPT ![p] = a], UNCHANGED <<method, expense>>,
         a.step \notin {"post", "afford"}, ProviderKeeps, PaidFirst(a)
  PROVE  Backed'
<1>1. act'[p] = a /\ \A q \in Procs : q # p => act'[q] = act[q]
  BY Kept
<1>2. Charges'
  BY <1>1 DEF Backed, Charges, At, ProviderKeeps, PaidFirst
<1>3. expense \in Nat /\ gateway.returned \in Nat /\ gateway'.returned \in Nat
  BY DEF Inv, TypeOK, Gateway
<1>4. InHand' \subseteq InHand
  BY NothingTaken
<1>5. Returns'
  BY <1>3, <1>4, NothingMore DEF Backed, ProviderKeeps
<1> QED
  BY <1>2, <1>5 DEF Backed

\* A step that leaves the money alone: a handler ends, or goes on without the provider.
LEMMA UnpaidStep ==
  ASSUME Inv, Inv', Backed, method = "CARD", NEW p \in Procs,
         Done(p) \/ \E step \in Steps \ {"post", "afford", "complete"} : Goto(p, step),
         UNCHANGED <<method, expense, settled>>, ProviderKeeps,
         \A e \in Events : events'[e].type = events[e].type
  PROVE  Backed'
<1>1. PICK a \in Act : act' = [act EXCEPT ![p] = a] /\ a.step \notin {"post", "afford", "complete"}
  <2>1. CASE Done(p)
    BY <2>1, Going, IdleTyped
  <2>2. ASSUME NEW step \in Steps \ {"post", "afford", "complete"}, Goto(p, step)
        PROVE  \E a \in Act : act' = [act EXCEPT ![p] = a] /\ a.step \notin {"post", "afford", "complete"}
    BY <2>2, Going
  <2> QED
    BY <2>1, <2>2
<1>2. PaidFirst(a)
  BY <1>1 DEF PaidFirst
<1> QED
  BY <1>1, <1>2, BackedStep

\* Exceptions, marks and the like change the state of an event, not what it reports.
LEMMA EventTypesKept ==
  ASSUME Inv, NEW p \in Procs, Throw(p) \/ EnqueueEvent(p) \/ MarkProcessed(p)
  PROVE  \A e \in Events : events'[e].type = events[e].type
<1>1. events \in [Events -> Event] /\ \A e \in Events : events[e] \in Event
  BY Kept
<1> QED
  BY <1>1 DEF Throw, EnqueueEvent, MarkProcessed, Event

\* The capture, with the provider's answers: only an answer that says so, or a lost one, leads to
\* a charge, and only a charge to a settlement.
LEMMA CaptureBacked ==
  ASSUME Inv, Inv', Backed, method = "CARD", NEW p \in Procs,
         \/ StartCapture(p) \/ CheckBalance(p) \/ Authorize(p) \/ CaptureAuthorized(p)
         \/ AwaitCustomer(p) \/ CompleteCapture(p) \/ MarkFailed(p)
  PROVE  Backed'
<1>0. /\ gateway \in Gateway /\ gateway' \in Gateway
      /\ gateway.returned \in Nat /\ gateway'.returned \in Nat
  BY DEF Inv, TypeOK, Gateway
<1>1. CASE StartCapture(p)
  <2> DEFINE a == [Idle EXCEPT !.seen = payment, !.amount = Due, !.step = "authorize"]
  <2>1. act' = [act EXCEPT ![p] = a]
    BY <1>1 DEF StartCapture
  <2>2. a \in Act /\ a.step = "authorize"
    BY IdleTyped, Kept, PaymentsAssumption DEF Act, Idle, Steps
  <2> HIDE DEF a
  <2>3. UNCHANGED <<method, expense, settled, gateway, events>>
    BY <1>1 DEF StartCapture
  <2>4. a.step \notin {"post", "afford"} /\ PaidFirst(a) /\ ProviderKeeps
    BY <1>0, <2>2, <2>3 DEF PaidFirst, ProviderKeeps
  <2> QED
    BY <2>1, <2>2, <2>3, <2>4, BackedStep
<1>2. CASE CheckBalance(p)
  BY <1>2 DEF CheckBalance, Backed, Charges
<1>3. CASE Authorize(p)
  <2>1. ProviderKeeps
    <3>1. gateway'.returned = gateway.returned
      BY <1>0, <1>3 DEF Authorize, Gateway
    <3>2. gateway.charged => gateway'.charged
      BY <1>0, <1>3 DEF Authorize, Gateway
    <3> QED
      BY <1>0, <3>1, <3>2 DEF ProviderKeeps
  <2>2. CASE Goto(p, "complete")
    <3>1. PICK a \in Act : act' = [act EXCEPT ![p] = a] /\ a.step = "complete"
      BY <2>2, Going DEF Steps
    <3>2. gateway'.charged
      <4>1. act'[p].step = "complete"
        BY <3>1, Kept
      <4>2. ASSUME NEW step \in {"capture", "pend", "fail"}, Goto(p, step)
            PROVE  FALSE
        BY <4>1, <4>2, Kept DEF Goto, Act
      <4>3. ~Done(p)
        BY <4>1, Kept, Going, IdleTyped
      <4> QED
        BY <1>0, <1>3, <4>2, <4>3 DEF Authorize, Gateway
    <3>3. UNCHANGED <<method, expense, settled, events>>
      BY <1>3 DEF Authorize
    <3>4. a.step \notin {"post", "afford"} /\ PaidFirst(a)
      BY <3>1, <3>2, <3>3 DEF PaidFirst
    <3> QED
      BY <2>1, <3>1, <3>3, <3>4, BackedStep
  <2>3. CASE ~Goto(p, "complete")
    <3>1. Done(p) \/ \E step \in Steps \ {"post", "afford", "complete"} : Goto(p, step)
      BY <1>3, <2>3 DEF Authorize, Steps
    <3> QED
      BY <1>3, <2>1, <3>1, UnpaidStep DEF Authorize
  <2> QED
    BY <2>2, <2>3
<1>4. CASE CaptureAuthorized(p)
  <2>1. ProviderKeeps
    BY <1>0, <1>4 DEF CaptureAuthorized, Gateway, ProviderKeeps
  <2>2. CASE Goto(p, "complete")
    <3>1. PICK a \in Act : act' = [act EXCEPT ![p] = a] /\ a.step = "complete"
      BY <2>2, Going DEF Steps
    <3>2. gateway'.charged
      <4>1. act'[p].step = "complete"
        BY <3>1, Kept
      <4>2. ~Goto(p, "fail") /\ ~Done(p)
        BY <4>1, Kept, Going, IdleTyped DEF Steps
      <4> QED
        BY <1>0, <1>4, <4>2 DEF CaptureAuthorized, Gateway
    <3>3. UNCHANGED <<method, expense, settled, events>>
      BY <1>4 DEF CaptureAuthorized
    <3>4. a.step \notin {"post", "afford"} /\ PaidFirst(a)
      BY <3>1, <3>2, <3>3 DEF PaidFirst
    <3> QED
      BY <2>1, <3>1, <3>3, <3>4, BackedStep
  <2>3. CASE ~Goto(p, "complete")
    <3>1. Done(p) \/ \E step \in Steps \ {"post", "afford", "complete"} : Goto(p, step)
      BY <1>4, <2>3 DEF CaptureAuthorized, Steps
    <3> QED
      BY <1>4, <2>1, <3>1, UnpaidStep DEF CaptureAuthorized
  <2> QED
    BY <2>2, <2>3
<1>5. CASE AwaitCustomer(p)
  BY <1>0, <1>5, UnpaidStep DEF AwaitCustomer, ProviderKeeps
<1>6. CASE CompleteCapture(p)
  <2>1. gateway.charged /\ UNCHANGED <<method, expense, gateway>>
    BY <1>6 DEF CompleteCapture, Backed, Charges
  <2>2. PICK a \in Act : act' = [act EXCEPT ![p] = a] /\ a.step \in {"idle", "mark"}
    <3>1. Leave(p) \/ Throw(p)
      BY <1>6 DEF CompleteCapture
    <3> QED
      BY <3>1, Going, IdleTyped DEF Leave, Throw, Steps
  <2>3. \A e \in Events : events'[e].type = events[e].type
    BY <1>6, EventTypesKept DEF CompleteCapture
  <2>4. a.step \notin {"post", "afford"} /\ PaidFirst(a) /\ ProviderKeeps
    BY <1>0, <2>1, <2>2, <2>3 DEF PaidFirst, ProviderKeeps
  <2> QED
    BY <2>1, <2>2, <2>4, BackedStep
<1>7. CASE MarkFailed(p)
  <2>1. Done(p) \/ \E step \in Steps \ {"post", "afford", "complete"} : Goto(p, step)
    BY <1>7 DEF MarkFailed, Leave, Steps
  <2>2. UNCHANGED <<method, expense, settled, gateway, events>>
    BY <1>7 DEF MarkFailed
  <2>3. ProviderKeeps
    BY <1>0, <2>2 DEF ProviderKeeps
  <2> QED
    BY <2>1, <2>2, <2>3, UnpaidStep
<1> QED
  BY <1>1, <1>2, <1>3, <1>4, <1>5, <1>6, <1>7

\* A card refund begins at the provider; what is given back is in hand until it is posted or
\* its handler dies, and a posting moves it from the hand to the books.
LEMMA RefundBacked ==
  ASSUME Inv, Inv', Backed, method = "CARD", NEW p \in Procs,
         \/ \E amount \in 1..payment.captured : StartRefund(p, amount)
         \/ CreateRefund(p) \/ GiveBack(p) \/ PostRefund(p)
  PROVE  Backed'
<1>0. /\ gateway \in Gateway /\ gateway.returned \in Nat /\ expense \in Nat
      /\ act \in [Procs -> Act] /\ act[p] \in Act /\ act[p].amount \in Nat
  BY Kept DEF Inv, TypeOK, Gateway, Act
<1>. DEFINE units == {p} \X (1..act[p].amount)
<1>1. /\ IsFiniteSet(InHand) /\ Cardinality(InHand) \in Nat
      /\ expense + Cardinality(InHand) <= gateway.returned
      /\ IsFiniteSet(units) /\ Cardinality(units) = act[p].amount
  BY <1>0, Units, FS_CardinalityType DEF Backed, Returns
<1>2. ASSUME NEW amount \in 1..payment.captured, StartRefund(p, amount)
      PROVE  Backed'
  <2>. DEFINE a == [Idle EXCEPT !.seen = payment, !.step = "row", !.amount = amount]
  <2>1. act' = [act EXCEPT ![p] = a] /\ UNCHANGED <<method, expense, settled, gateway, events>>
    BY <1>2 DEF StartRefund
  <2>2. amount \in Nat
    BY Kept DEF Payment
  <2>3. a \in Act /\ a.step = "row"
    BY <2>2, IdleTyped, Kept DEF Act, Idle, Steps
  <2>. HIDE DEF a
  <2>4. a.step \notin {"post", "afford"} /\ PaidFirst(a) /\ ProviderKeeps
    BY <1>0, <2>1, <2>3 DEF PaidFirst, ProviderKeeps
  <2>. QED
    BY <2>1, <2>3, <2>4, BackedStep
<1>3. CASE CreateRefund(p)
  <2>1. PICK r \in 1..Refunds : act' = [act EXCEPT ![p].refund = r, ![p].step = "giveBack"]
    BY <1>3 DEF CreateRefund
  <2>. DEFINE a == [[act[p] EXCEPT !.refund = r] EXCEPT !.step = "giveBack"]
  <2>2. act' = [act EXCEPT ![p] = a]
    BY <1>0, <2>1
  <2>3. r \in 0..Refunds
    BY PaymentsAssumption
  <2>4. a \in Act /\ a.step = "giveBack"
    BY <1>0, <2>3 DEF Act, Steps
  <2>5. UNCHANGED <<method, expense, settled, gateway, events>>
    BY <1>3 DEF CreateRefund
  <2>. HIDE DEF a
  <2>6. a.step \notin {"post", "afford"} /\ PaidFirst(a) /\ ProviderKeeps
    BY <1>0, <2>4, <2>5 DEF PaidFirst, ProviderKeeps
  <2>. QED
    BY <2>2, <2>4, <2>5, <2>6, BackedStep
<1>4. CASE GiveBack(p)
  <2>1. UNCHANGED <<method, expense, settled, events>> /\ At(p, "giveBack")
    BY <1>4 DEF GiveBack
  <2>2. /\ gateway'.charged = gateway.charged
        /\ gateway'.returned \in {gateway.returned, gateway.returned + act[p].amount}
    BY <1>0, <1>4 DEF GiveBack, Gateway
  <2>3. ProviderKeeps
    BY <1>0, <2>2 DEF ProviderKeeps
  <2>4. CASE Done(p)
    BY <2>1, <2>3, <2>4, UnpaidStep
  <2>5. CASE ~Done(p)
    <3>1. gateway'.returned = gateway.returned + act[p].amount /\ Goto(p, "post")
      BY <1>0, <1>4, <2>5 DEF GiveBack, Gateway
    <3>2. PICK a \in Act : /\ act' = [act EXCEPT ![p] = a] /\ a.step = "post"
                           /\ a.amount = act[p].amount
      BY <3>1, Going DEF Steps
    <3>3. act'[p] = a /\ \A q \in Procs : q # p => act'[q] = act[q]
      BY <1>0, <3>2
    <3>4. Charges'
      BY <2>1, <2>2, <3>2, <3>3 DEF Backed, Charges, At
    <3>5. InHand' = InHand \cup units
      <4>1. At(p, "post")' /\ \A q \in Procs : q # p => (At(q, "post")' <=> At(q, "post"))
        BY <3>2, <3>3 DEF At
      <4>2. ~At(p, "post")
        BY <2>1 DEF At
      <4>3. \A q, k : <<q, k>> \in InHand' <=> <<q, k>> \in InHand \/ <<q, k>> \in units
        BY <3>2, <3>3, <4>1, <4>2, InHandUnits DEF InHand
      <4>. QED
        BY <4>3, InHandUnits DEF InHand
    <3>. HIDE DEF units
    <3>6. /\ IsFiniteSet(InHand')
          /\ Cardinality(InHand') = Cardinality(InHand) + Cardinality(units)
                                      - Cardinality(InHand \cap units)
          /\ Cardinality(InHand \cap units) \in Nat
      BY <1>1, <3>5, FS_Union, FS_Intersection, FS_CardinalityType
    <3>7. Returns'
      BY <1>0, <1>1, <2>1, <3>1, <3>6 DEF Returns
    <3>. QED
      BY <3>4, <3>7 DEF Backed
  <2>. QED
    BY <2>4, <2>5
<1>5. CASE PostRefund(p)
  <2>1. /\ act' = [act EXCEPT ![p] = Idle] /\ At(p, "post")
        /\ expense' = expense + act[p].amount /\ UNCHANGED <<method, settled, gateway, events>>
    BY <1>5 DEF PostRefund, Done
  <2>2. act'[p] = Idle /\ \A q \in Procs : q # p => act'[q] = act[q]
    BY <1>0, <2>1
  <2>3. Charges'
    BY <2>1, <2>2, IdleTyped DEF Backed, Charges, At
  <2>4. InHand' = InHand \ units /\ units \subseteq InHand
    <3>1. InHand' = {x \in InHand : x[1] # p}
      BY <2>1, IdleTyped, NothingTaken
    <3>2. \A q, k : <<q, k>> \in units <=> q = p /\ <<q, k>> \in InHand
      BY <2>1, InHandUnits
    <3>3. units \subseteq InHand
      BY <3>2
    <3>4. \A x \in InHand : x \in units <=> x[1] = p
      BY <3>2, InHandUnits
    <3>. QED
      BY <3>1, <3>3, <3>4
  <2>. HIDE DEF units
  <2>5. InHand \cap units = units
    BY <2>4
  <2>6. IsFiniteSet(InHand') /\ Cardinality(InHand') = Cardinality(InHand) - act[p].amount
    <3>1. /\ IsFiniteSet(InHand \ units)
          /\ Cardinality(InHand \ units) = Cardinality(InHand) - Cardinality(InHand \cap units)
      BY <1>1, FS_Difference
    <3>2. Cardinality(InHand \ units) = Cardinality(InHand) - act[p].amount
      BY <1>1, <2>5, <3>1 DEF units
    <3>. QED
      BY <2>4, <3>1, <3>2, Zenon
  <2>7. Returns'
    BY <1>0, <1>1, <2>1, <2>6 DEF Returns
  <2>. QED
    BY <2>3, <2>7 DEF Backed
<1>. QED
  BY <1>2, <1>3, <1>4, <1>5

\* The webhooks: the provider reports a capture only when it has charged.
LEMMA EventBacked ==
  ASSUME Inv, Inv', Backed, method = "CARD", NEW p \in Procs,
         \/ \E e \in Events : StoreEvent(p, e) \/ ProcessWebhook(p, e)
         \/ EnqueueEvent(p) \/ ApplyRefundWebhook(p) \/ MarkProcessed(p) \/ Crash(p)
  PROVE  Backed'
<1>0. /\ gateway.returned \in Nat /\ events \in [Events -> Event]
      /\ \A e \in Events : events[e] \in Event
  BY Kept DEF Inv, TypeOK, Gateway
<1>1. ASSUME NEW e \in Events, StoreEvent(p, e)
      PROVE  Backed'
  <2>. DEFINE a == [Idle EXCEPT !.step = "enqueue", !.event = e]
  <2>1. act' = [act EXCEPT ![p] = a] /\ UNCHANGED <<method, expense, settled, gateway>>
    BY <1>1 DEF StoreEvent
  <2>2. a \in Act /\ a.step = "enqueue"
    BY IdleTyped DEF Act, Idle, Steps
  <2>3. PICK type \in Reports, amount \in Amounts \cup {Due} :
          events' = [events EXCEPT ![e].type = type, ![e].amount = amount, ![e].state = "stored"]
    BY <1>1 DEF StoreEvent
  <2>4. events'[e].type = type /\ \A x \in Events : x # e => events'[x] = events[x]
    BY <1>0, <2>3 DEF Event
  <2>5. type = "payment.captured" => gateway.charged
    BY DEF Reports
  <2>. HIDE DEF a
  <2>6. a.step \notin {"post", "afford"} /\ PaidFirst(a) /\ ProviderKeeps
    BY <1>0, <2>1, <2>2, <2>4, <2>5 DEF PaidFirst, ProviderKeeps
  <2>. QED
    BY <2>1, <2>2, <2>6, BackedStep
<1>2. ASSUME NEW e \in Events, ProcessWebhook(p, e)
      PROVE  Backed'
  <2>. DEFINE s == NextStep(events[e].type)
             a == [Idle EXCEPT !.seen = payment, !.event = e, !.amount = events[e].amount, !.step = s]
  <2>1. /\ s \in {"complete", "fail", "refundEvent", "mark"}
        /\ s = "complete" => gateway.charged
    BY DEF NextStep, Backed, Charges
  <2>2. act' = [act EXCEPT ![p] = a] /\ UNCHANGED <<method, expense, settled, gateway, events>>
    BY <1>2 DEF ProcessWebhook
  <2>. HIDE DEF s
  <2>3. a \in Act /\ a.step = s
    BY <2>1, <1>0, IdleTyped, Kept DEF Act, Idle, Steps, Event
  <2>. HIDE DEF a
  <2>4. a.step \notin {"post", "afford"} /\ PaidFirst(a) /\ ProviderKeeps
    BY <1>0, <2>1, <2>2, <2>3 DEF PaidFirst, ProviderKeeps
  <2>. QED
    BY <2>2, <2>3, <2>4, BackedStep
<1>3. CASE EnqueueEvent(p) \/ ApplyRefundWebhook(p) \/ MarkProcessed(p) \/ Crash(p)
  <2>1. /\ UNCHANGED <<method, expense, settled, gateway>>
        /\ Done(p) \/ Goto(p, "mark")
    BY <1>3 DEF EnqueueEvent, ApplyRefundWebhook, MarkProcessed, Crash
  <2>2. \A e \in Events : events'[e].type = events[e].type
    BY <1>3, EventTypesKept DEF ApplyRefundWebhook, Crash
  <2>3. ProviderKeeps
    BY <1>0, <2>1 DEF ProviderKeeps
  <2>. QED
    BY <2>1, <2>2, <2>3, UnpaidStep DEF Steps
<1>. QED
  BY <1>1, <1>2, <1>3

LEMMA NextBacked == Inv /\ Inv' /\ Backed /\ [Next]_vars => Backed'
<1>. SUFFICES ASSUME Inv, Inv', Backed, [Next]_vars PROVE Backed'
  OBVIOUS
<1>1. method' = method
  BY DEF Next, vars, CustomerActs, StartCapture, StartRefund, StoreEvent, ProcessWebhook, Proceed,
     CheckBalance, Authorize, CaptureAuthorized, AwaitCustomer, CompleteCapture, MarkFailed,
     CreateRefund, GiveBack, PostRefund, EnqueueEvent, ApplyRefundWebhook, MarkProcessed, Crash
<1>2. CASE method # "CARD"
  BY <1>1, <1>2 DEF Backed
<1>3. CASE method = "CARD"
  <2>1. ASSUME UNCHANGED <<act, expense, settled, events>>, gateway'.returned = gateway.returned,
               gateway.charged => gateway'.charged
        PROVE  Backed'
    <3>1. InHand' = InHand
      BY <2>1 DEF InHand, At
    <3>2. Charges' /\ Returns'
      BY <1>3, <2>1, <3>1 DEF Backed, Charges, Returns, At
    <3>. QED
      BY <3>2 DEF Backed
  <2>2. CASE CustomerActs
    <3>1. gateway'.returned = gateway.returned /\ (gateway.charged => gateway'.charged)
      BY <2>2, Kept DEF CustomerActs, Gateway
    <3>. QED
      BY <2>1, <2>2, <3>1 DEF CustomerActs
  <2>3. CASE UNCHANGED vars
    BY <2>1, <2>3 DEF vars
  <2>. QED
    BY <1>3, <2>2, <2>3, CaptureBacked, RefundBacked, EventBacked DEF Next, Procs, Proceed
<1>. QED
  BY <1>2, <1>3

-----------------------------------------------------------------------------
(* The theorems.                                                             *)

\* Every row and every handler keeps its type.
THEOREM TypeCorrect == Spec => []TypeOK
<1>1. Inv => TypeOK
  BY DEF Inv
<1> QED
  BY <1>1, Invariant, PTL

\* A captured or refunded payment has its receipt, and its settlement when the job has anything
\* to settle; it was captured for the total of the job or for what an event reported; and
\* without a receipt nothing is settled or captured (completeCapture, refund).
THEOREM PaperworkAlwaysAgrees == Spec => []PaperworkAgrees
<1>1. Inv => PaperworkAgrees
  BY DEF Inv, Money, PaperworkAgrees
<1> QED
  BY <1>1, Invariant, PTL

\* A refund whose row reads PROCESSED is in the ledger, and one in the ledger is decided,
\* though the webhooks find it by a reference all refunds of the payment share.
THEOREM ProcessedAlwaysPosted == Spec => []ProcessedIsPosted
<1>1. Inv => ProcessedIsPosted
  BY DEF Inv, Rows
<1> QED
  BY <1>1, Invariant, PTL

\* The payment never claims a refund that the ledger has not posted, though it is written from
\* an old read, nor more than was captured unless a provider reported another amount than the
\* job's total.
THEOREM RefundedAlwaysPosted == Spec => []RefundedIsPosted
<1>1. Inv => RefundedIsPosted
  BY DEF Inv, Money
<1> QED
  BY <1>1, Invariant, PTL

\* The ledger never settles a card payment the provider has not charged, and never posts more
\* refunds than the provider has given back, for any number of refunds in flight at once, of
\* answers lost and of processes that die between giving back and posting.
THEOREM LedgerAlwaysBacked == Spec => []LedgerIsBacked
<1>1. Inv /\ Backed => LedgerIsBacked
  <2>. SUFFICES ASSUME Inv, Backed, method = "CARD"
                PROVE  (settled => gateway.charged) /\ expense <= gateway.returned
    BY DEF LedgerIsBacked
  <2>1. /\ Cardinality(InHand) \in Nat /\ expense \in Nat /\ gateway.returned \in Nat
        /\ expense + Cardinality(InHand) <= gateway.returned
    BY FS_CardinalityType DEF Backed, Returns, Inv, TypeOK, Gateway
  <2>. QED
    BY <2>1 DEF Backed, Charges
<1> QED
  BY <1>1, InitBacked, NextBacked, Invariant, PTL DEF Spec
=============================================================================
