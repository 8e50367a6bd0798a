------------------------------ MODULE Disputes ------------------------------
(***************************************************************************)
(* The disputes about one job that was paid: disputes.service.ts behind    *)
(* the guard of Idempotency.  A dispute is opened by a party, taken up by  *)
(* a reply of staff, and decided by staff: a refund through the payments,  *)
(* an adjustment of the partner's wallet, the decision, and the job handed *)
(* back, each an operation of its own that may fail and leave the rest     *)
(* undone.  payments.refund is one step here; Payments has its detail.     *)
(***************************************************************************)
EXTENDS Idempotency, JobStates, Integers

CONSTANTS
  DisputeIds,     \* rows the disputes table may get
  NoDispute,
  Captured        \* what was captured for the job

ASSUME DisputesAssumption ==
  /\ NoDispute \notin DisputeIds
  /\ Captured \in Nat
  /\ Payloads \subseteq [refund : Nat, adjustment : Int]

VARIABLES
  job,            \* its status
  disputes,       \* the row of each dispute, with the decision written to it
  refunded,       \* payments.refunded_minor of the job's payment
  refunds,        \* the amounts of each dispute's refunds that the provider paid or refused
  adjusted,       \* what dispute:<id>:partner-adjustment was posted with; 0 before
  asked,          \* history: the adjustments sent to the ledger for each dispute
  work            \* the operation each request is about to do

books == <<adjusted, asked>>

vars == <<guardVars, job, disputes, refunded, refunds, books, work>>

Dispute == [status : {"NONE", "OPEN", "UNDER_REVIEW", "DECIDED"}, decision : Payloads \cup {Nothing}]
NoRowYet == [status |-> "NONE", decision |-> Nothing]
Live(d) == disputes[d].status \in {"OPEN", "UNDER_REVIEW"}

Steps == {"idle", "create", "move",                        \* open
          "review",                                        \* addMessage
          "refund", "adjust", "write", "restore"}          \* decide
Work == [step : Steps, dispute : DisputeIds \cup {NoDispute}, paid : BOOLEAN]
NoWork == [step |-> "idle", dispute |-> NoDispute, paid |-> FALSE]

Init ==
  /\ GuardInit
  /\ job \in {"WORK_COMPLETED", "COMPLETED"}
  /\ disputes = [d \in DisputeIds |-> NoRowYet]
  /\ refunded = 0
  /\ refunds = [d \in DisputeIds |-> {}]
  /\ adjusted = [d \in DisputeIds |-> 0]
  /\ asked = [d \in DisputeIds |-> {}]
  /\ work = [p \in Requests |-> NoWork]

Idle(p) == In(p, "idle") /\ work[p].step = "idle"
Doing(p, step) == work[p].step = step
Ends(p) == work' = [work EXCEPT ![p] = NoWork]
Proceed(p, step) == work' = [work EXCEPT ![p].step = step]
Of(p) == work[p].dispute

-----------------------------------------------------------------------------
(* Parties and staff *)

Parties == {CUSTOMER, PARTNER}

Disputable(actor) == IF actor = CUSTOMER THEN {"COMPLETED", "WORK_COMPLETED"} ELSE {"COMPLETED"}

\* open reads the job and looks for a live dispute ...
Open(p, actor) ==
  /\ Idle(p)
  /\ job \in Disputable(actor)
  /\ \A d \in DisputeIds : ~Live(d)
  /\ work' = [work EXCEPT ![p] = [NoWork EXCEPT !.step = "create", !.paid = (job = "COMPLETED")]]
  /\ UNCHANGED <<guardVars, job, disputes, refunded, refunds, books>>

\* ... creates its own, whatever was created since ...
CreateDispute(p) ==
  /\ Doing(p, "create")
  /\ \E d \in DisputeIds :
       /\ disputes[d].status = "NONE"
       /\ disputes' = [disputes EXCEPT ![d].status = "OPEN"]
  /\ IF work[p].paid THEN Proceed(p, "move") ELSE Ends(p)
  /\ UNCHANGED <<guardVars, job, refunded, refunds, books>>

\* ... and moves a job that was COMPLETED, or fails to.
MoveJob(p) ==
  /\ Doing(p, "move")
  /\ job' = IF \E actor \in Parties : CanMove(job, "DISPUTED", "HOME_SERVICE", actor) THEN "DISPUTED" ELSE job
  /\ Ends(p)
  /\ UNCHANGED <<guardVars, disputes, refunded, refunds, books>>

\* addMessage: the first reply of staff to an open dispute ...
Reply(p, d) ==
  /\ Idle(p)
  /\ disputes[d].status = "OPEN"
  /\ work' = [work EXCEPT ![p] = [NoWork EXCEPT !.step = "review", !.dispute = d]]
  /\ UNCHANGED <<guardVars, job, disputes, refunded, refunds, books>>

\* ... takes it under review by its id.
TakeUp(p) ==
  /\ Doing(p, "review")
  /\ disputes' = [disputes EXCEPT ![Of(p)].status = "UNDER_REVIEW"]
  /\ Ends(p)
  /\ UNCHANGED <<guardVars, job, refunded, refunds, books>>

\* The lifecycle closes the work while it is disputed: the job is confirmed and paid.
ConfirmWork ==
  /\ job = "WORK_COMPLETED"
  /\ job' = "COMPLETED"
  /\ UNCHANGED <<guardVars, disputes, refunded, refunds, books, work>>

-----------------------------------------------------------------------------
(* decide, the handler of a guarded request *)

Decision(p) == call[p].payload

\* What the decision asks for is booked before it is written.
AfterRefund(p) == IF Decision(p).adjustment # 0 THEN "adjust" ELSE "write"

\* Fault: the decision comes first, its books are left for later.
DecideFirst(p) == "write"

AfterRead(p) == IF Decision(p).refund > 0 THEN "refund" ELSE AfterRefund(p)

Decide(p, d) ==
  /\ In(p, "handler") /\ Doing(p, "idle")
  /\ IF Live(d)
       THEN /\ work' = [work EXCEPT ![p] = [NoWork EXCEPT !.step = AfterRead(p), !.dispute = d]]
            /\ UNCHANGED guardVars
       ELSE Fail(p) /\ UNCHANGED work
  /\ UNCHANGED <<job, disputes, refunded, refunds, books>>

\* What is left of the captured payment bounds a refund; a provider that refuses throws nothing.
Refund(p) ==
  /\ Doing(p, "refund")
  /\ job # "WORK_COMPLETED"
  /\ refunded + Decision(p).refund <= Captured
  /\ refunds' = [refunds EXCEPT ![Of(p)] = @ \cup {Decision(p).refund}]
  /\ refunded' \in {refunded, refunded + Decision(p).refund}
  /\ Proceed(p, AfterRefund(p))
  /\ UNCHANGED <<guardVars, job, disputes, books>>

\* The key of the posting is the dispute's: the first amount stands.
Adjust(p) ==
  /\ Doing(p, "adjust")
  /\ adjusted' = IF adjusted[Of(p)] = 0 THEN [adjusted EXCEPT ![Of(p)] = Decision(p).adjustment] ELSE adjusted
  /\ asked' = [asked EXCEPT ![Of(p)] = @ \cup {Decision(p).adjustment}]
  /\ Proceed(p, "write")
  /\ UNCHANGED <<guardVars, job, disputes, refunded, refunds>>

WriteDecision(p) ==
  /\ Doing(p, "write")
  /\ disputes' = [disputes EXCEPT ![Of(p)] = [status |-> "DECIDED", decision |-> Decision(p)]]
  /\ Proceed(p, "restore")
  /\ UNCHANGED <<guardVars, job, refunded, refunds, books>>

RestoreJob(p) ==
  /\ Doing(p, "restore")
  /\ job' = IF job = "DISPUTED" THEN "COMPLETED" ELSE job
  /\ Succeed(p)
  /\ Ends(p)
  /\ UNCHANGED <<disputes, refunded, refunds, books>>

\* An operation of the handler throws and leaves what was done before it.
Throw(p) ==
  /\ work[p].step \in {"refund", "adjust", "write", "restore"}
  /\ Fail(p)
  /\ Ends(p)
  /\ UNCHANGED <<job, disputes, refunded, refunds, books>>

\* A process dies, with or without a guarded request.
Die(p) ==
  /\ Crash(p)
  /\ Ends(p)
  /\ UNCHANGED <<job, disputes, refunded, refunds, books>>

\* So does a request without a key, or its next operation fails.
GiveUp(p) ==
  /\ work[p].step \in {"create", "move", "review"}
  /\ Ends(p)
  /\ UNCHANGED <<guardVars, job, disputes, refunded, refunds, books>>

-----------------------------------------------------------------------------

Handle(p) ==
  \/ \E d \in DisputeIds : Decide(p, d)
  \/ Refund(p) \/ Adjust(p) \/ WriteDecision(p) \/ RestoreJob(p) \/ Throw(p)

Guard(p) ==
  /\ GuardStep(p)
  /\ UNCHANGED <<job, disputes, refunded, refunds, books, work>>

Next ==
  \/ \E p \in Requests :
       \/ \E k \in Keys, payload \in Payloads :
            Idle(p) /\ Acquire(p, k, payload) /\ UNCHANGED <<job, disputes, refunded, refunds, books, work>>
       \/ Guard(p) \/ Handle(p) \/ Die(p)
       \/ \E actor \in Parties : Open(p, actor)
       \/ CreateDispute(p) \/ MoveJob(p)
       \/ \E d \in DisputeIds : Reply(p, d)
       \/ TakeUp(p) \/ GiveUp(p)
  \/ \E k \in Keys : Expire(k) /\ UNCHANGED <<job, disputes, refunded, refunds, books, work>>
  \/ ConfirmWork

Spec == Init /\ [][Next]_vars

\* What a guarded request has begun goes on to its response or to its error.
FairSpec == Spec /\ \A p \in Requests : WF_vars(Guard(p) \/ Handle(p))

-----------------------------------------------------------------------------
(* Properties *)

TypeOK ==
  /\ GuardTypeOK
  /\ job \in {"WORK_COMPLETED", "COMPLETED", "DISPUTED"}
  /\ disputes \in [DisputeIds -> Dispute]
  /\ refunded \in 0..Captured
  /\ refunds \in [DisputeIds -> SUBSET Nat]
  /\ adjusted \in [DisputeIds -> Int]
  /\ asked \in [DisputeIds -> SUBSET Int]
  /\ work \in [Requests -> Work]

\* The books are written before the decision (decide), once for the dispute, "by the ledger key":
\* whoever else decides it, takes it under review again or fails half way, the adjustment of a
\* decided dispute is the one in the ledger, unless a decision with another adjustment was sent
\* there too; and a refund of the amount it names was paid, or refused by the provider.
DecisionIsBooked ==
  \A d \in DisputeIds : disputes[d].status = "DECIDED" =>
    LET decision == disputes[d].decision
    IN  /\ asked[d] \subseteq {decision.adjustment} => adjusted[d] = decision.adjustment
        /\ decision.refund > 0 => decision.refund \in refunds[d]
=============================================================================
