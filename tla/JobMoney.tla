------------------------------ MODULE JobMoney ------------------------------
(***************************************************************************)
(* The money of one customer's jobs around their lifecycle: the promotion  *)
(* reserved when a job is created and released when it is cancelled, the   *)
(* totals a job ends with, its settlement in the ledger, the disputes that *)
(* take it out of COMPLETED and back, and the reward of the customer's     *)
(* inviter (jobs.service.ts, job-lifecycle.service.ts, disputes.service.ts, *)
(* promotions.service.ts, referrals.service.ts, ledger.service.ts).  How a *)
(* payment comes to settle a job is Payments; here a job that ended with   *)
(* something to pay may be settled at any time.  Taxes are left out.       *)
(***************************************************************************)
EXTENDS Settlement, FiniteSets

CONSTANTS
  Jobs,
  Fares,          \* what the final fare may be, before the discount
  Discount,       \* of the promotion
  UsageLimit,     \* of the promotion, over all customers
  PerUserLimit,
  Fee,            \* the cancellation fee, where one is due
  Compensation,   \* the partner's part of it, by the policy
  Commissions,    \* what the snapshot's commission may amount to
  MinFirstJob,    \* the least final total that earns a reward
  Deliveries      \* bound: the listeners that may be at work for one job

ASSUME JobMoneyAssumption ==
  /\ IsFiniteSet(Jobs)
  /\ Fares \subseteq Nat /\ Commissions \subseteq Nat
  /\ {Discount, UsageLimit, PerUserLimit, Fee, Compensation, MinFirstJob} \subseteq Nat

VARIABLES
  jobs,           \* the money columns of each job
  usage,          \* promo_codes.usage_count
  redemption,     \* promo_redemptions, by job
  settled,        \* what settle:<jobId> was posted from: {} before it is posted
  listener,       \* the referral listeners of each job that was completed
  rewards         \* the rows of referral_rewards whose invitee is the customer

moneyVars == <<jobs, usage, redemption, settled, listener, rewards>>

Stages == {"none", "evaluated", "live", "completed", "disputed", "cancelled"}
Job == [stage : Stages, method : Methods, fare : Nat, total : Nat, discount : Nat, fee : Nat]
NoJob == [stage |-> "none", method |-> "CASH", fare |-> 0, total |-> 0, discount |-> 0, fee |-> 0]

Live == {j \in Jobs : redemption[j] = "live"}
Completed == {j \in Jobs : jobs[j].stage = "completed"}
Finished == {j \in Jobs : jobs[j].stage \in {"completed", "disputed"}}

Reward == [job : Jobs, status : {"GRANTED", "BLOCKED"}]

MoneyInit ==
  /\ jobs = [j \in Jobs |-> NoJob]
  /\ usage = 0
  /\ redemption = [j \in Jobs |-> "none"]
  /\ settled = [j \in Jobs |-> {}]
  /\ listener = [j \in Jobs |-> [n \in Deliveries |-> "idle"]]
  /\ rewards = {}

-----------------------------------------------------------------------------
(* Seeded faults: plausible bugs in operations below.  No action uses them; put *)
(* in the place of the operation each names, they show which properties notice.  *)

\* reserve: the limit was checked when the code was evaluated.
ClaimAnyway == usage' = usage + 1

\* referral_rewards: the invitee is not unique, the reward read before is relied upon.
Inserted(row) == rewards' = rewards \cup {row}

\* applyPromoAndTax: the discount as it is.
TotalBelowZero(fare, discount) == fare - discount

-----------------------------------------------------------------------------
(* Creation                                                                   *)

\* evaluate reads the usage and the customer's redemptions outside of any transaction.
Evaluate(j, method) ==
  /\ jobs[j].stage = "none"
  /\ \/ jobs' = [jobs EXCEPT ![j] = [NoJob EXCEPT !.stage = "evaluated", !.method = method]]
     \/ /\ usage < UsageLimit
        /\ PerUserLimit > 0 => Cardinality(Live) < PerUserLimit
        /\ jobs' = [jobs EXCEPT ![j] = [NoJob EXCEPT !.stage = "evaluated", !.method = method,
                                                     !.discount = Discount]]
  /\ UNCHANGED <<usage, redemption, settled, listener, rewards>>

\* The counter goes up with the limit check in the same statement.
Claim == usage < UsageLimit /\ usage' = usage + 1

\* One transaction: the job, and with a promotion its redemption.
Create(j) ==
  /\ jobs[j].stage = "evaluated"
  /\ jobs' = [jobs EXCEPT ![j].stage = "live"]
  /\ \/ jobs[j].discount = 0 /\ UNCHANGED <<usage, redemption>>
     \/ jobs[j].discount > 0 /\ Claim /\ redemption' = [redemption EXCEPT ![j] = "live"]
  /\ UNCHANGED <<settled, listener, rewards>>

CreateRefused(j) ==
  /\ jobs[j].stage = "evaluated"
  /\ jobs[j].discount > 0
  /\ usage >= UsageLimit
  /\ jobs' = [jobs EXCEPT ![j] = NoJob]
  /\ UNCHANGED <<usage, redemption, settled, listener, rewards>>

-----------------------------------------------------------------------------
(* The end of a job                                                           *)

\* applyPromoAndTax: the promotion never pushes the total below zero.
FinalTotal(fare, discount) == fare - Lesser(discount, fare)

\* A change to COMPLETED starts a listener.
Emit(j) ==
  \E n \in Deliveries :
    listener[j][n] = "idle" /\ listener' = [listener EXCEPT ![j][n] = "completed"]

Complete(j, fare) ==
  /\ jobs[j].stage = "live"
  /\ jobs' = [jobs EXCEPT ![j] = [jobs[j] EXCEPT !.stage = "completed", !.fare = fare,
                                                 !.total = FinalTotal(fare, jobs[j].discount)]]
  /\ Emit(j)
  /\ UNCHANGED <<usage, redemption, settled, rewards>>

\* open takes a job out of COMPLETED, and restoreJob hands it back: a change to COMPLETED,
\* which emits job.completed again.
Dispute(j) ==
  /\ jobs[j].stage = "completed"
  /\ jobs' = [jobs EXCEPT ![j].stage = "disputed"]
  /\ UNCHANGED <<usage, redemption, settled, listener, rewards>>

Restore(j) ==
  /\ jobs[j].stage = "disputed"
  /\ jobs' = [jobs EXCEPT ![j].stage = "completed"]
  /\ Emit(j)
  /\ UNCHANGED <<usage, redemption, settled, rewards>>

\* cancel: what the customer owes is written as the fee and as the final total.
Cancel(j, fee) ==
  /\ jobs[j].stage = "live"
  /\ jobs' = [jobs EXCEPT ![j] = [jobs[j] EXCEPT !.stage = "cancelled", !.fee = fee, !.total = fee]]
  /\ UNCHANGED <<usage, redemption, settled, listener, rewards>>

\* afterCancellation, in a transaction of its own.
Release(j) ==
  /\ jobs[j].stage = "cancelled"
  /\ redemption[j] = "live"
  /\ redemption' = [redemption EXCEPT ![j] = "released"]
  /\ usage' = IF usage > 0 THEN usage - 1 ELSE 0
  /\ UNCHANGED <<jobs, settled, listener, rewards>>

\* The capture of a completed job or of a fee; a cancelled job without a fee is not captured.
Captured(j) == j \in Finished \/ (jobs[j].stage = "cancelled" /\ jobs[j].fee > 0)

\* settleJobInTx reads the job's columns.
InputOf(j, commission) ==
  [method |-> jobs[j].method, total |-> jobs[j].total, discount |-> jobs[j].discount,
   commission |-> commission, fee |-> jobs[j].fee,
   compensation |-> IF jobs[j].fee > 0 THEN Compensation ELSE 0]

SettleJob(j, commission) ==
  /\ Captured(j)
  /\ settled[j] = {}
  /\ jobs[j].total > 0 \/ jobs[j].discount > 0 \/ jobs[j].fee > 0
  /\ settled' = [settled EXCEPT ![j] = {InputOf(j, commission)}]
  /\ UNCHANGED <<jobs, usage, redemption, listener, rewards>>

-----------------------------------------------------------------------------
(* onCustomerFirstJobCompleted, a listener of job.completed                   *)

\* It reads the reward, the job and the number of completed jobs ...
Consider(j, n) ==
  /\ listener[j][n] = "completed"
  /\ listener' = [listener EXCEPT ![j][n] =
       IF /\ rewards = {} /\ j \in Completed /\ jobs[j].total >= MinFirstJob
          /\ Cardinality(Completed) <= 1
         THEN "granting" ELSE "idle"]
  /\ UNCHANGED <<jobs, usage, redemption, settled, rewards>>

\* The invitee is unique: an insert that finds a row throws, and the listener logs it.
Insert(row) == rewards' = IF rewards = {} THEN {row} ELSE rewards

\* ... and writes the row, with its posting or with a fraud flag.
Grant(j, n) ==
  /\ listener[j][n] = "granting"
  /\ \E status \in {"GRANTED", "BLOCKED"} : Insert([job |-> j, status |-> status])
  /\ listener' = [listener EXCEPT ![j][n] = "idle"]
  /\ UNCHANGED <<jobs, usage, redemption, settled>>

\* The listener fails, or the process dies with it.
Lose(j, n) ==
  /\ listener[j][n] # "idle"
  /\ listener' = [listener EXCEPT ![j][n] = "idle"]
  /\ UNCHANGED <<jobs, usage, redemption, settled, rewards>>

MoneyNext ==
  \E j \in Jobs :
    \/ \E method \in Methods : Evaluate(j, method)
    \/ Create(j) \/ CreateRefused(j)
    \/ \E fare \in Fares : Complete(j, fare)
    \/ \E fee \in {0, Fee} : Cancel(j, fee)
    \/ Release(j)
    \/ \E commission \in Commissions : SettleJob(j, commission)
    \/ Dispute(j) \/ Restore(j)
    \/ \E n \in Deliveries : Consider(j, n) \/ Grant(j, n) \/ Lose(j, n)

MoneySpec == MoneyInit /\ [][MoneyNext]_moneyVars

-----------------------------------------------------------------------------
(* Properties                                                                *)

MoneyTypeOK ==
  /\ jobs \in [Jobs -> Job]
  /\ usage \in Nat
  /\ redemption \in [Jobs -> {"none", "live", "released"}]
  /\ settled \in [Jobs -> SUBSET SettlementInput]
  /\ listener \in [Jobs -> [Deliveries -> {"idle", "completed", "granting"}]]
  /\ rewards \subseteq Reward

\* Every settlement that is posted is balanced, line by line not negative, whatever the
\* method, the discount, the fee and the commission of the policy (assertBalanced never
\* throws inside the capture).
SettlementsBalance == \A j \in Jobs : \A i \in settled[j] : Balanced(Debits(i), Credits(i))

\* The platform funds the discount "so the partner still earns the full fare"
\* (ledger.rules.ts:96): what reaches the wallet, the cash in hand and the commission
\* make up the fare of a finished job whose fare the discount did not exceed.
PartnerEarnsFare ==
  \A j \in Finished : \A i \in settled[j] :
    jobs[j].discount <= jobs[j].fare =>
      (Credits(i).partner - Debits(i).partner) + When(IsCash(i), i.total) + Credits(i).revenue
        = jobs[j].fare

\* The counter of a promotion is the number of jobs that hold it, and never beyond its
\* limit, with orders, cancellations and refusals in any order (reserve, release).
UsageIsLive == usage = Cardinality(Live) /\ usage <= UsageLimit

\* "One reward per invitee" (referrals.service.ts:94), whatever listeners of several jobs, or of
\* one job completed again by a dispute, find no reward and a single completed job; and the job
\* it is for was finished with the total the programme asks for.
OneReward ==
  /\ \A x, y \in rewards : x = y
  /\ \A x \in rewards : x.job \in Finished /\ jobs[x.job].total >= MinFirstJob
=============================================================================
