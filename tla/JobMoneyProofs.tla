--------------------------- MODULE JobMoneyProofs ---------------------------
(***************************************************************************)
(* What holds of the money of a customer's jobs for any finite set of jobs *)
(* and any fares, discounts, limits, fees, compensations and commissions.  *)
(***************************************************************************)
EXTENDS JobMoney, FiniteSetTheorems, TLAPS

-----------------------------------------------------------------------------
(* The double-entry rules.                                                   *)

\* What the rules take the lesser of is a natural number, at most each of the two.
LEMMA LesserNat ==
  ASSUME NEW a \in Nat, NEW b \in Nat
  PROVE  Lesser(a, b) \in Nat /\ Lesser(a, b) <= a /\ Lesser(a, b) <= b
BY DEF Lesser

\* The clamped amounts of a settlement: the commission is at most the fare, the
\* compensation at most the fee.
LEMMA Clamped ==
  ASSUME NEW i \in SettlementInput
  PROVE  /\ i.total \in Nat /\ i.discount \in Nat /\ i.fee \in Nat /\ i.compensation \in Nat
         /\ GrossFare(i) \in Nat
         /\ CommissionOf(i) \in Nat
         /\ PartnerNet(i) \in Nat
         /\ CompensationOf(i) \in Nat
         /\ i.fee - CompensationOf(i) \in Nat
         /\ i.method \in Methods
<1>1. /\ i.total \in Nat /\ i.discount \in Nat /\ i.fee \in Nat
      /\ i.compensation \in Nat /\ i.commission \in Nat /\ i.method \in Methods
  BY DEF SettlementInput
<1>2. GrossFare(i) \in Nat
  BY <1>1 DEF GrossFare
<1>3. CommissionOf(i) \in Nat /\ CommissionOf(i) <= GrossFare(i)
  BY <1>1, <1>2, LesserNat DEF CommissionOf
<1>4. CompensationOf(i) \in Nat /\ CompensationOf(i) <= i.fee
  BY <1>1, LesserNat DEF CompensationOf
<1> QED
  BY <1>1, <1>2, <1>3, <1>4 DEF PartnerNet

\* settlementEntries never throws: the lines of a settlement are balanced and none is
\* negative, whatever natural numbers the job, the policy and the promotion give.
LEMMA SettlementBalances ==
  ASSUME NEW i \in SettlementInput
  PROVE  Balanced(Debits(i), Credits(i))
<1> DEFINE t == i.total  d == i.discount  f == i.fee
           c == CommissionOf(i)  k == CompensationOf(i)
<1>1. /\ t \in Nat /\ d \in Nat /\ f \in Nat /\ c \in Nat /\ k \in Nat /\ f - k \in Nat
      /\ PartnerNet(i) \in Nat /\ PartnerNet(i) = (t + d) - c
      /\ i.method \in Methods
  BY Clamped DEF PartnerNet, GrossFare
<1>2. CASE i.method = "CASH"
  BY <1>1, <1>2 DEF Balanced, Debits, Credits, Sum7, When, IsCash, IsWallet, IsGateway, Accounts
<1>3. CASE i.method = "WALLET"
  BY <1>1, <1>3 DEF Balanced, Debits, Credits, Sum7, When, IsCash, IsWallet, IsGateway, Accounts
<1>4. CASE i.method = "CARD"
  BY <1>1, <1>4 DEF Balanced, Debits, Credits, Sum7, When, IsCash, IsWallet, IsGateway, Accounts
<1> QED
  BY <1>1, <1>2, <1>3, <1>4 DEF Methods

\* Without a fee and a compensation, the partner's movement, the cash in hand and the
\* commission are the fare before the discount.
LEMMA PartnerGetsGross ==
  ASSUME NEW i \in SettlementInput, i.fee = 0
  PROVE  (Credits(i).partner - Debits(i).partner) + When(IsCash(i), i.total) + Credits(i).revenue
           = i.total + i.discount
<1> DEFINE t == i.total  d == i.discount  c == CommissionOf(i)
<1>1. /\ t \in Nat /\ d \in Nat /\ c \in Nat
      /\ PartnerNet(i) = (t + d) - c
      /\ i.method \in Methods
  BY Clamped DEF PartnerNet, GrossFare
<1>2. CompensationOf(i) = 0
  BY Clamped DEF CompensationOf, Lesser
<1>3. CASE IsCash(i)
  BY <1>1, <1>2, <1>3 DEF Debits, Credits, When, IsCash, IsWallet, IsGateway
<1>4. CASE ~IsCash(i)
  BY <1>1, <1>2, <1>4 DEF Debits, Credits, When, IsCash, IsWallet, IsGateway
<1> QED
  BY <1>3, <1>4

-----------------------------------------------------------------------------
(* The inductive invariant.                                                  *)

\* The columns of a job follow its stage, and what was posted is what they say: after the
\* settlement nothing writes them.
Columns(j) ==
  /\ jobs[j].stage \in {"none", "evaluated", "live"} => jobs[j].fee = 0 /\ settled[j] = {}
  /\ jobs[j].stage \in {"completed", "disputed"} =>
       jobs[j].fee = 0 /\ jobs[j].total = FinalTotal(jobs[j].fare, jobs[j].discount)
  /\ \A i \in settled[j] : i.total = jobs[j].total /\ i.discount = jobs[j].discount
                           /\ i.fee = jobs[j].fee

\* A job holds its promotion from its creation until it is cancelled.
Holds(j) ==
  /\ jobs[j].stage \in {"none", "evaluated"} => redemption[j] = "none"
  /\ jobs[j].stage \in {"live", "completed", "disputed"} /\ jobs[j].discount > 0 => redemption[j] = "live"

\* Who is about to write a reward saw a finished job with the total it takes, and a reward is
\* for such a job; there is one at most.
Rewarded(j) == j \in Finished /\ jobs[j].total >= MinFirstJob
Rewards ==
  /\ \A j \in Jobs : \A n \in Deliveries : listener[j][n] = "granting" => Rewarded(j)
  /\ \A x \in rewards : Rewarded(x.job)
  /\ \A x, y \in rewards : x = y

Inv ==
  /\ MoneyTypeOK
  /\ \A j \in Jobs : Columns(j)
  /\ \A j \in Jobs : Holds(j)
  /\ UsageIsLive
  /\ Rewards

\* A job's final total, and what its settlement reads, are well typed.
LEMMA InputTyped ==
  ASSUME MoneyTypeOK, NEW j \in Jobs, NEW commission \in Nat
  PROVE  InputOf(j, commission) \in SettlementInput
BY JobMoneyAssumption DEF InputOf, SettlementInput, MoneyTypeOK, Job, Methods

\* The jobs that hold the promotion are finitely many.
LEMMA LiveFinite == IsFiniteSet(Live) /\ Cardinality(Live) \in Nat
BY JobMoneyAssumption, FS_Subset, FS_CardinalityType DEF Live

-----------------------------------------------------------------------------
(* The invariant is inductive: typing, the columns, the promotion.            *)

\* The initial state satisfies it.
LEMMA InitInv == MoneyInit => Inv
<1> SUFFICES ASSUME MoneyInit PROVE Inv
  OBVIOUS
<1>1. MoneyTypeOK
  BY DEF MoneyInit, MoneyTypeOK, NoJob, Job, Stages, Methods, Reward
<1>2. (\A j \in Jobs : Columns(j)) /\ (\A j \in Jobs : Holds(j))
  BY DEF MoneyInit, Columns, Holds, NoJob
<1>3. Live = {}
  BY DEF Live, MoneyInit
<1>4. UsageIsLive
  BY <1>3, FS_EmptySet, JobMoneyAssumption DEF UsageIsLive, MoneyInit
<1>5. Rewards
  BY DEF Rewards, MoneyInit
<1> QED
  BY <1>1, <1>2, <1>4, <1>5 DEF Inv

\* A listener that starts, moves on or ends stays one.
LEMMA ListenerTyped ==
  ASSUME listener \in [Jobs -> [Deliveries -> {"idle", "completed", "granting"}]],
         NEW j \in Jobs, NEW n \in Deliveries, NEW s \in {"idle", "completed", "granting"}
  PROVE  [listener EXCEPT ![j][n] = s]
           \in [Jobs -> [Deliveries -> {"idle", "completed", "granting"}]]
OBVIOUS

LEMMA EmitTyped ==
  ASSUME listener \in [Jobs -> [Deliveries -> {"idle", "completed", "granting"}]],
         NEW j \in Jobs, Emit(j)
  PROVE  listener' \in [Jobs -> [Deliveries -> {"idle", "completed", "granting"}]]
BY ListenerTyped DEF Emit

\* Every step keeps the variables typed.
LEMMA NextTyped == MoneyTypeOK /\ [MoneyNext]_moneyVars => MoneyTypeOK'
<1> SUFFICES ASSUME MoneyTypeOK, [MoneyNext]_moneyVars PROVE MoneyTypeOK'
  OBVIOUS
<1> USE DEF MoneyTypeOK
<1>1. ASSUME NEW j \in Jobs, NEW m \in Methods, Evaluate(j, m) PROVE MoneyTypeOK'
  <2>1. NoJob \in Job /\ Discount \in Nat
    BY JobMoneyAssumption DEF NoJob, Job, Stages, Methods
  <2>2. /\ [NoJob EXCEPT !.stage = "evaluated", !.method = m] \in Job
        /\ [NoJob EXCEPT !.stage = "evaluated", !.method = m, !.discount = Discount] \in Job
    BY <2>1 DEF NoJob, Job, Stages, Methods
  <2> QED
    BY <1>1, <2>2 DEF Evaluate
<1>2. ASSUME NEW j \in Jobs, Create(j) PROVE MoneyTypeOK'
  <2>1. [jobs[j] EXCEPT !.stage = "live"] \in Job
    BY DEF Job, Stages
  <2>2. jobs' \in [Jobs -> Job]
    BY <1>2, <2>1 DEF Create
  <2> QED
    BY <1>2, <2>2 DEF Create, Claim
<1>3. ASSUME NEW j \in Jobs, CreateRefused(j) PROVE MoneyTypeOK'
  BY <1>3 DEF CreateRefused, NoJob, Job, Stages, Methods
<1>4. ASSUME NEW j \in Jobs, NEW fare \in Fares, Complete(j, fare) PROVE MoneyTypeOK'
  <2>1. fare \in Nat /\ jobs[j].discount \in Nat
    BY JobMoneyAssumption DEF Job
  <2>2. FinalTotal(fare, jobs[j].discount) \in Nat
    <3> DEFINE discount == jobs[j].discount
    <3>1. Lesser(discount, fare) \in Nat /\ Lesser(discount, fare) <= fare
      BY <2>1, LesserNat
    <3> HIDE DEF discount
    <3>2. fare - Lesser(discount, fare) \in Nat
      BY <2>1, <3>1
    <3> QED
      BY <3>2 DEF FinalTotal, discount
  <2>3. [jobs[j] EXCEPT !.stage = "completed", !.fare = fare,
                        !.total = FinalTotal(fare, jobs[j].discount)] \in Job
    BY <2>1, <2>2 DEF Job, Stages
  <2>4. jobs' \in [Jobs -> Job]
    BY <1>4, <2>3 DEF Complete
  <2>5. listener' \in [Jobs -> [Deliveries -> {"idle", "completed", "granting"}]]
    BY <1>4, EmitTyped DEF Complete
  <2> QED
    BY <1>4, <2>4, <2>5 DEF Complete
<1>5. ASSUME NEW j \in Jobs, NEW fee \in {0, Fee}, Cancel(j, fee) PROVE MoneyTypeOK'
  <2>1. fee \in Nat
    BY JobMoneyAssumption
  <2>2. [jobs[j] EXCEPT !.stage = "cancelled", !.fee = fee, !.total = fee] \in Job
    BY <2>1 DEF Job, Stages
  <2>3. jobs' \in [Jobs -> Job]
    BY <1>5, <2>2 DEF Cancel
  <2> QED
    BY <1>5, <2>3 DEF Cancel
<1>6. ASSUME NEW j \in Jobs, Release(j) PROVE MoneyTypeOK'
  BY <1>6 DEF Release
<1>7. ASSUME NEW j \in Jobs, NEW commission \in Commissions, SettleJob(j, commission)
      PROVE  MoneyTypeOK'
  <2>1. InputOf(j, commission) \in SettlementInput
    BY InputTyped, JobMoneyAssumption
  <2> QED
    BY <1>7, <2>1 DEF SettleJob
<1>8. ASSUME NEW j \in Jobs, NEW n \in Deliveries, Consider(j, n) PROVE MoneyTypeOK'
  BY <1>8, ListenerTyped DEF Consider
<1>9. ASSUME NEW j \in Jobs, NEW n \in Deliveries, Grant(j, n) PROVE MoneyTypeOK'
  <2>1. listener' \in [Jobs -> [Deliveries -> {"idle", "completed", "granting"}]]
    BY <1>9, ListenerTyped DEF Grant
  <2>2. rewards' \subseteq Reward
    BY <1>9 DEF Grant, Insert, Reward
  <2> QED
    BY <1>9, <2>1, <2>2 DEF Grant
<1>10. ASSUME NEW j \in Jobs, NEW n \in Deliveries, Lose(j, n) PROVE MoneyTypeOK'
  BY <1>10, ListenerTyped DEF Lose
<1>11. ASSUME NEW j \in Jobs, Dispute(j) PROVE MoneyTypeOK'
  <2>1. [jobs[j] EXCEPT !.stage = "disputed"] \in Job
    BY DEF Job, Stages
  <2>2. jobs' \in [Jobs -> Job]
    BY <1>11, <2>1 DEF Dispute
  <2> QED
    BY <1>11, <2>2 DEF Dispute
<1>12. ASSUME NEW j \in Jobs, Restore(j) PROVE MoneyTypeOK'
  <2>1. [jobs[j] EXCEPT !.stage = "completed"] \in Job
    BY DEF Job, Stages
  <2>2. jobs' \in [Jobs -> Job]
    BY <1>12, <2>1 DEF Restore
  <2>3. listener' \in [Jobs -> [Deliveries -> {"idle", "completed", "granting"}]]
    BY <1>12, EmitTyped DEF Restore
  <2> QED
    BY <1>12, <2>2, <2>3 DEF Restore
<1>13. CASE UNCHANGED moneyVars
  BY <1>13 DEF moneyVars
<1> QED
  BY <1>1, <1>2, <1>3, <1>4, <1>5, <1>6, <1>7, <1>8, <1>9, <1>10, <1>11, <1>12, <1>13
     DEF MoneyNext

\* Every step keeps the columns of a job in step with its stage.
LEMMA NextColumns ==
  MoneyTypeOK /\ (\A j \in Jobs : Columns(j)) /\ [MoneyNext]_moneyVars
    => \A j \in Jobs : Columns(j)'
<1> SUFFICES ASSUME MoneyTypeOK, \A j \in Jobs : Columns(j), [MoneyNext]_moneyVars
             PROVE  \A j \in Jobs : Columns(j)'
  OBVIOUS
<1> USE DEF MoneyTypeOK, Columns
<1>1. ASSUME NEW j \in Jobs, NEW m \in Methods, Evaluate(j, m) PROVE \A x \in Jobs : Columns(x)'
  <2>1. jobs'[j].stage = "evaluated" /\ jobs'[j].fee = 0 /\ settled'[j] = {}
    <3>1. settled'[j] = {}
      BY <1>1 DEF Evaluate
    <3>2. \/ jobs'[j] = [NoJob EXCEPT !.stage = "evaluated", !.method = m]
          \/ jobs'[j] = [NoJob EXCEPT !.stage = "evaluated", !.method = m,
                                      !.discount = Discount]
      BY <1>1 DEF Evaluate
    <3>3. jobs'[j].stage = "evaluated" /\ jobs'[j].fee = 0
      BY <3>2 DEF NoJob
    <3> QED
      BY <3>1, <3>3
  <2>2. ASSUME NEW x \in Jobs, x # j PROVE Columns(x)'
    <3>1. jobs'[x] = jobs[x] /\ settled'[x] = settled[x]
      BY <1>1, <2>2 DEF Evaluate
    <3> QED
      BY <3>1
  <2>3. Columns(j)'
    BY <2>1
  <2> QED
    BY <2>2, <2>3
<1>2. ASSUME NEW j \in Jobs, Create(j) PROVE \A x \in Jobs : Columns(x)'
  <2>1. jobs'[j] = [jobs[j] EXCEPT !.stage = "live"] /\ \A x \in Jobs \ {j} : jobs'[x] = jobs[x]
    BY <1>2 DEF Create
  <2> QED
    BY <1>2, <2>1 DEF Create, Job
<1>3. ASSUME NEW j \in Jobs, CreateRefused(j) PROVE \A x \in Jobs : Columns(x)'
  BY <1>3 DEF CreateRefused, NoJob
<1>4. ASSUME NEW j \in Jobs, NEW fare \in Fares, Complete(j, fare)
      PROVE  \A x \in Jobs : Columns(x)'
  <2>1. /\ jobs'[j].stage = "completed" /\ jobs'[j].fee = 0
        /\ jobs'[j].total = FinalTotal(jobs'[j].fare, jobs'[j].discount)
        /\ settled'[j] = {}
    BY <1>4 DEF Complete, Job
  <2>2. \A x \in Jobs \ {j} : jobs'[x] = jobs[x] /\ settled'[x] = settled[x]
    BY <1>4 DEF Complete
  <2>3. ASSUME NEW x \in Jobs, x # j PROVE Columns(x)'
    <3>1. jobs'[x] = jobs[x] /\ settled'[x] = settled[x]
      BY <2>2, <2>3
    <3> QED
      BY <3>1
  <2>4. Columns(j)'
    BY <2>1
  <2> QED
    BY <2>3, <2>4
<1>5. ASSUME NEW j \in Jobs, NEW fee \in {0, Fee}, Cancel(j, fee)
      PROVE  \A x \in Jobs : Columns(x)'
  <2>1. jobs'[j].stage = "cancelled" /\ settled'[j] = {}
    BY <1>5 DEF Cancel, Job
  <2>2. ASSUME NEW x \in Jobs, x # j PROVE Columns(x)'
    <3>1. jobs'[x] = jobs[x] /\ settled'[x] = settled[x]
      BY <1>5, <2>2 DEF Cancel
    <3> QED
      BY <3>1
  <2>3. Columns(j)'
    BY <2>1
  <2> QED
    BY <2>2, <2>3
<1>6. ASSUME NEW j \in Jobs, Release(j) PROVE \A x \in Jobs : Columns(x)'
  BY <1>6 DEF Release
<1>7. ASSUME NEW j \in Jobs, NEW commission \in Commissions, SettleJob(j, commission)
      PROVE  \A x \in Jobs : Columns(x)'
  BY <1>7 DEF SettleJob, Captured, Finished, InputOf
<1>8. ASSUME NEW j \in Jobs, Dispute(j) \/ Restore(j) PROVE \A x \in Jobs : Columns(x)'
  <2>1. /\ jobs[j].stage \in {"completed", "disputed"}
        /\ jobs'[j].stage \in {"completed", "disputed"}
        /\ jobs'[j].fare = jobs[j].fare /\ jobs'[j].total = jobs[j].total
        /\ jobs'[j].discount = jobs[j].discount /\ jobs'[j].fee = jobs[j].fee
        /\ settled'[j] = settled[j]
    BY <1>8 DEF Dispute, Restore, Job
  <2>2. ASSUME NEW x \in Jobs, x # j PROVE Columns(x)'
    <3>1. jobs'[x] = jobs[x] /\ settled'[x] = settled[x]
      BY <1>8, <2>2 DEF Dispute, Restore
    <3> QED
      BY <3>1
  <2>3. Columns(j)'
    BY <2>1
  <2> QED
    BY <2>2, <2>3
<1>9. CASE UNCHANGED <<jobs, settled>>
  BY <1>9
<1> QED
  BY <1>1, <1>2, <1>3, <1>4, <1>5, <1>6, <1>7, <1>8, <1>9
     DEF MoneyNext, moneyVars, Consider, Grant, Lose

\* Every step keeps the promotion of a job in step with its stage.
LEMMA NextHolds ==
  MoneyTypeOK /\ (\A j \in Jobs : Holds(j)) /\ [MoneyNext]_moneyVars => \A j \in Jobs : Holds(j)'
<1> SUFFICES ASSUME MoneyTypeOK, \A j \in Jobs : Holds(j), [MoneyNext]_moneyVars
             PROVE  \A j \in Jobs : Holds(j)'
  OBVIOUS
<1> USE DEF MoneyTypeOK, Holds
<1>1. ASSUME NEW j \in Jobs, NEW m \in Methods, Evaluate(j, m) PROVE \A x \in Jobs : Holds(x)'
  <2>1. jobs[j].stage = "none" /\ redemption' = redemption
    BY <1>1 DEF Evaluate
  <2>2. \/ jobs'[j] = [NoJob EXCEPT !.stage = "evaluated", !.method = m]
        \/ jobs'[j] = [NoJob EXCEPT !.stage = "evaluated", !.method = m, !.discount = Discount]
    BY <1>1 DEF Evaluate
  <2>3. jobs'[j].stage = "evaluated"
    BY <2>2 DEF NoJob
  <2>4. ASSUME NEW x \in Jobs, x # j PROVE Holds(x)'
    <3>1. jobs'[x] = jobs[x] /\ redemption'[x] = redemption[x]
      BY <1>1, <2>1, <2>4 DEF Evaluate
    <3> QED
      BY <3>1
  <2>5. Holds(j)'
    BY <2>1, <2>3
  <2> QED
    BY <2>4, <2>5
<1>2. ASSUME NEW j \in Jobs, Create(j) PROVE \A x \in Jobs : Holds(x)'
  <2>1. jobs'[j] = [jobs[j] EXCEPT !.stage = "live"] /\ \A x \in Jobs \ {j} : jobs'[x] = jobs[x]
    BY <1>2 DEF Create
  <2>2. CASE jobs[j].discount = 0 /\ UNCHANGED <<usage, redemption>>
    BY <2>1, <2>2 DEF Job
  <2>3. CASE redemption' = [redemption EXCEPT ![j] = "live"]
    BY <2>1, <2>3 DEF Job
  <2> QED
    BY <1>2, <2>2, <2>3 DEF Create
<1>3. ASSUME NEW j \in Jobs, CreateRefused(j) PROVE \A x \in Jobs : Holds(x)'
  BY <1>3 DEF CreateRefused, NoJob
<1>4. ASSUME NEW j \in Jobs, NEW fare \in Fares, Complete(j, fare) PROVE \A x \in Jobs : Holds(x)'
  BY <1>4 DEF Complete, Job
<1>5. ASSUME NEW j \in Jobs, NEW fee \in {0, Fee}, Cancel(j, fee) PROVE \A x \in Jobs : Holds(x)'
  BY <1>5 DEF Cancel, Job
<1>6. ASSUME NEW j \in Jobs, Release(j) PROVE \A x \in Jobs : Holds(x)'
  BY <1>6 DEF Release
<1>7. ASSUME NEW j \in Jobs, Dispute(j) \/ Restore(j) PROVE \A x \in Jobs : Holds(x)'
  <2>1. /\ jobs[j].stage \in {"completed", "disputed"}
        /\ jobs'[j].stage \in {"completed", "disputed"}
        /\ jobs'[j].discount = jobs[j].discount
        /\ redemption' = redemption
    BY <1>7 DEF Dispute, Restore, Job
  <2>2. ASSUME NEW x \in Jobs, x # j PROVE Holds(x)'
    <3>1. jobs'[x] = jobs[x] /\ redemption'[x] = redemption[x]
      BY <1>7, <2>1, <2>2 DEF Dispute, Restore
    <3> QED
      BY <3>1
  <2>3. Holds(j)'
    BY <2>1
  <2> QED
    BY <2>2, <2>3
<1>8. CASE UNCHANGED <<jobs, redemption>>
  BY <1>8
<1> QED
  BY <1>1, <1>2, <1>3, <1>4, <1>5, <1>6, <1>7, <1>8
     DEF MoneyNext, moneyVars, SettleJob, Consider, Grant, Lose

\* Every step keeps the counter the number of jobs that hold the promotion: only the
\* creation of a job and the release of a cancelled one move either, and both move both.
LEMMA NextUsage == Inv /\ [MoneyNext]_moneyVars => UsageIsLive'
<1> SUFFICES ASSUME Inv, [MoneyNext]_moneyVars PROVE UsageIsLive'
  OBVIOUS
<1> USE DEF Inv, MoneyTypeOK
<1>1. UsageIsLive /\ UsageLimit \in Nat
  BY JobMoneyAssumption
<1>2. ASSUME NEW j \in Jobs, Create(j) PROVE UsageIsLive'
  <2>1. CASE UNCHANGED <<usage, redemption>>
    BY <2>1, <1>1 DEF UsageIsLive, Live
  <2>2. CASE Claim /\ redemption' = [redemption EXCEPT ![j] = "live"]
    <3>1. j \notin Live
      BY <1>2 DEF Create, Holds, Live
    <3>2. Live' = Live \cup {j}
      BY <2>2 DEF Live
    <3>3. Cardinality(Live') = Cardinality(Live) + 1
      BY <3>1, <3>2, LiveFinite, FS_AddElement
    <3> QED
      BY <1>1, <2>2, <3>3 DEF UsageIsLive, Claim
  <2> QED
    BY <1>2, <2>1, <2>2 DEF Create
<1>3. ASSUME NEW j \in Jobs, Release(j) PROVE UsageIsLive'
  <2>1. j \in Live
    BY <1>3 DEF Release, Live
  <2>2. Live' = Live \ {j}
    BY <1>3 DEF Release, Live
  <2>3. Cardinality(Live') = Cardinality(Live) - 1 /\ IsFiniteSet(Live')
    BY <2>1, <2>2, LiveFinite, FS_RemoveElement
  <2>4. Cardinality(Live') \in Nat
    BY <2>3, FS_CardinalityType
  <2> QED
    BY <1>1, <1>3, <2>3, <2>4, LiveFinite DEF UsageIsLive, Release
<1>4. CASE UNCHANGED <<usage, redemption>>
  BY <1>1, <1>4 DEF UsageIsLive, Live
<1> QED
  BY <1>2, <1>3, <1>4 DEF MoneyNext, moneyVars, Evaluate, CreateRefused, Complete, Cancel,
                          SettleJob, Dispute, Restore, Consider, Grant, Lose

\* Every step keeps what the rewards rest on: the total of a finished job stands, and the
\* unique invitee refuses a second row whatever the listeners read.
LEMMA NextRewards == MoneyTypeOK /\ Rewards /\ [MoneyNext]_moneyVars => Rewards'
<1> SUFFICES ASSUME MoneyTypeOK, Rewards, [MoneyNext]_moneyVars PROVE Rewards'
  OBVIOUS
<1> USE DEF MoneyTypeOK
<1>1. ASSUME \A j \in Jobs : Rewarded(j) => Rewarded(j)', UNCHANGED rewards,
             \A j \in Jobs : \A n \in Deliveries :
               listener'[j][n] = "granting" => listener[j][n] = "granting" \/ Rewarded(j)'
      PROVE  Rewards'
  BY <1>1 DEF Rewards, Reward
<1>2. ASSUME NEW j \in Jobs, jobs[j].stage \notin {"completed", "disputed"},
             \A x \in Jobs \ {j} : jobs'[x] = jobs[x]
      PROVE  \A x \in Jobs : Rewarded(x) => Rewarded(x)'
  BY <1>2 DEF Rewarded, Finished
<1>3. ASSUME UNCHANGED jobs PROVE \A x \in Jobs : Rewarded(x) => Rewarded(x)'
  BY <1>3 DEF Rewarded, Finished
<1>4. ASSUME NEW j \in Jobs, Emit(j)
      PROVE  \A x \in Jobs : \A n \in Deliveries :
               listener'[x][n] = "granting" => listener[x][n] = "granting"
  BY <1>4 DEF Emit
<1>5. ASSUME NEW j \in Jobs, NEW m \in Methods, Evaluate(j, m) PROVE Rewards'
  BY <1>1, <1>2, <1>5 DEF Evaluate
<1>6. ASSUME NEW j \in Jobs, Create(j) \/ CreateRefused(j) PROVE Rewards'
  BY <1>1, <1>2, <1>6 DEF Create, CreateRefused
<1>7. ASSUME NEW j \in Jobs, NEW fare \in Fares, Complete(j, fare) PROVE Rewards'
  <2>1. \A x \in Jobs : Rewarded(x) => Rewarded(x)'
    BY <1>2, <1>7 DEF Complete
  <2>2. Emit(j) /\ UNCHANGED rewards
    BY <1>7 DEF Complete
  <2> QED
    BY <1>1, <1>4, <2>1, <2>2
<1>8. ASSUME NEW j \in Jobs, NEW fee \in {0, Fee}, Cancel(j, fee) PROVE Rewards'
  BY <1>1, <1>2, <1>8 DEF Cancel
<1>9. ASSUME NEW j \in Jobs, Dispute(j) \/ Restore(j) PROVE Rewards'
  <2>1. /\ jobs'[j].stage \in {"completed", "disputed"} /\ jobs'[j].total = jobs[j].total
        /\ \A x \in Jobs \ {j} : jobs'[x] = jobs[x]
    BY <1>9 DEF Dispute, Restore, Job
  <2>2. \A x \in Jobs : Rewarded(x) => Rewarded(x)'
    BY <2>1 DEF Rewarded, Finished
  <2>3. UNCHANGED rewards /\ (Emit(j) \/ UNCHANGED listener)
    BY <1>9 DEF Dispute, Restore
  <2> QED
    BY <1>1, <1>4, <2>2, <2>3
<1>10. ASSUME NEW j \in Jobs, NEW commission \in Commissions,
              SettleJob(j, commission)
       PROVE  Rewards'
  BY <1>1, <1>3, <1>10 DEF SettleJob
<1>11. ASSUME NEW j \in Jobs, NEW n \in Deliveries, Consider(j, n) PROVE Rewards'
  <2>1. UNCHANGED <<jobs, rewards>>
    BY <1>11 DEF Consider
  <2>2. listener'[j][n] = "granting" => Rewarded(j)'
    BY <1>11 DEF Consider, Rewarded, Finished, Completed
  <2>3. \A x \in Jobs : \A k \in Deliveries :
          listener'[x][k] = "granting" => listener[x][k] = "granting" \/ (x = j /\ k = n)
    BY <1>11 DEF Consider
  <2> QED
    BY <1>1, <1>3, <2>1, <2>2, <2>3
<1>12. ASSUME NEW j \in Jobs, NEW n \in Deliveries, Grant(j, n) PROVE Rewards'
  <2>1. /\ UNCHANGED jobs
        /\ \A x \in Jobs : \A k \in Deliveries :
             listener'[x][k] = "granting" => listener[x][k] = "granting"
    BY <1>12 DEF Grant
  <2>2. Rewarded(j)
    BY <1>12 DEF Grant, Rewards
  <2>3. rewards' = rewards \/ \E status \in {"GRANTED", "BLOCKED"} :
                                rewards' = {[job |-> j, status |-> status]}
    BY <1>12 DEF Grant, Insert
  <2>4. \A x \in rewards' : x \in rewards \/ x.job = j
    BY <2>3
  <2>5. \A x, y \in rewards' : x = y
    BY <2>3 DEF Rewards
  <2>6. \A x \in rewards' : x.job \in Jobs /\ Rewarded(x.job)
    BY <2>2, <2>4 DEF Rewards, Reward
  <2> QED
    BY <1>3, <2>1, <2>5, <2>6 DEF Rewards
<1>13. ASSUME NEW j \in Jobs, NEW n \in Deliveries, Lose(j, n) PROVE Rewards'
  <2>1. /\ UNCHANGED <<jobs, rewards>>
        /\ \A x \in Jobs : \A k \in Deliveries :
             listener'[x][k] = "granting" => listener[x][k] = "granting"
    BY <1>13 DEF Lose
  <2> QED
    BY <1>1, <1>3, <2>1
<1>14. CASE UNCHANGED moneyVars
  BY <1>1, <1>3, <1>14 DEF moneyVars
<1> QED
  <2>1. CASE MoneyNext
    <3>1. PICK j \in Jobs :
            \/ \E m \in Methods : Evaluate(j, m)
            \/ Create(j) \/ CreateRefused(j)
            \/ \E fare \in Fares : Complete(j, fare)
            \/ \E fee \in {0, Fee} : Cancel(j, fee)
            \/ Release(j)
            \/ \E commission \in Commissions : SettleJob(j, commission)
            \/ Dispute(j) \/ Restore(j)
            \/ \E n \in Deliveries : Consider(j, n) \/ Grant(j, n) \/ Lose(j, n)
      BY <2>1 DEF MoneyNext
    <3>2. ASSUME Release(j) PROVE Rewards'
      BY <1>1, <1>3, <3>2 DEF Release
    <3> QED
      BY <1>5, <1>6, <1>7, <1>8, <1>9, <1>10, <1>11, <1>12, <1>13, <3>1, <3>2
  <2> QED
    BY <1>14, <2>1

\* The invariant holds in every state the specification reaches.
LEMMA Invariant == MoneySpec => []Inv
<1>1. Inv /\ [MoneyNext]_moneyVars => Inv'
  BY NextTyped, NextColumns, NextHolds, NextUsage, NextRewards DEF Inv
<1> QED
  BY InitInv, <1>1, PTL DEF MoneySpec

-----------------------------------------------------------------------------
(* The theorems.                                                             *)

\* Totals never go below zero and settlements are posted from natural numbers, whatever the
\* fare, the discount, the fee and the policy (applyPromoAndTax, settleJobInTx).
THEOREM MoneyTypeCorrect == MoneySpec => []MoneyTypeOK
<1>1. Inv => MoneyTypeOK
  BY DEF Inv
<1> QED
  BY <1>1, Invariant, PTL

\* assertBalanced never throws inside a capture: every settlement posted is balanced.
THEOREM EverySettlementBalances == MoneySpec => []SettlementsBalance
<1>1. Inv => SettlementsBalance
  BY SettlementBalances DEF Inv, MoneyTypeOK, SettlementsBalance
<1> QED
  BY <1>1, Invariant, PTL

\* A promotion costs the partner nothing: settlement and cash in hand make up the fare.
THEOREM PartnerAlwaysEarnsFare == MoneySpec => []PartnerEarnsFare
<1>1. ASSUME Inv PROVE PartnerEarnsFare
  <2> SUFFICES ASSUME NEW j \in Finished, NEW i \in settled[j],
                      jobs[j].discount <= jobs[j].fare
               PROVE  (Credits(i).partner - Debits(i).partner) + When(IsCash(i), i.total)
                        + Credits(i).revenue = jobs[j].fare
    BY DEF PartnerEarnsFare
  <2>1. /\ j \in Jobs /\ i \in SettlementInput
        /\ jobs[j].fare \in Nat /\ jobs[j].discount \in Nat
    BY <1>1 DEF Finished, Inv, MoneyTypeOK, Job
  <2>2. /\ i.fee = 0 /\ i.discount = jobs[j].discount
        /\ i.total = FinalTotal(jobs[j].fare, jobs[j].discount)
    BY <1>1, <2>1 DEF Inv, Columns, Finished
  <2>3. i.total + i.discount = jobs[j].fare
    BY <2>1, <2>2 DEF FinalTotal, Lesser
  <2> QED
    BY <2>1, <2>2, <2>3, PartnerGetsGross
<1> QED
  BY <1>1, Invariant, PTL

\* The counter of a promotion is the number of jobs that hold it, at most its limit.
THEOREM UsageAlwaysLive == MoneySpec => []UsageIsLive
<1>1. Inv => UsageIsLive
  BY DEF Inv
<1> QED
  BY <1>1, Invariant, PTL

\* "One reward per invitee", for a job that was finished with the total the programme asks for,
\* whatever the listeners of however many completions read.
THEOREM OneRewardOnly == MoneySpec => []OneReward
<1>1. Inv => OneReward
  BY DEF Inv, OneReward, Rewards, Rewarded
<1> QED
  BY <1>1, Invariant, PTL
=============================================================================
