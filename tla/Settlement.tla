----------------------------- MODULE Settlement -----------------------------
(***************************************************************************)
(* The double-entry rules of ledger.rules.ts: which accounts a job's       *)
(* settlement and a refund debit and credit.  The lines of one account are *)
(* added up, debits and credits apart; a line of amount 0 is not written.  *)
(***************************************************************************)
EXTENDS Integers

Methods == {"CASH", "WALLET", "CARD"}       \* CARD stands for every gateway method

\* Wallets of the customer and the partner; PLATFORM_CASH_CLEARING, _GATEWAY_CLEARING,
\* _PROMO_EXPENSE, _REVENUE and _REFUND_EXPENSE.
Accounts == {"customer", "partner", "cash", "gateway", "promo", "revenue", "refund"}

SettlementInput ==
  [method : Methods, total : Nat, discount : Nat, commission : Nat, fee : Nat, compensation : Nat]

Lesser(a, b) == IF a < b THEN a ELSE b

-----------------------------------------------------------------------------
(* Seeded faults: plausible bugs in operators below.  None is used; put in the  *)
(* place of the operator each names, they show which properties notice.          *)

\* The commission of the policy as it is, not clamped to the fare.
CommissionAsIs(i) == i.commission

\* The commission's fare is what the customer pays.
GrossOfTotal(i) == i.total

-----------------------------------------------------------------------------

\* The fare before the discount, which the platform funds.
GrossFare(i) == i.total + i.discount

CommissionOf(i) == Lesser(i.commission, GrossFare(i))
PartnerNet(i) == GrossFare(i) - CommissionOf(i)
CompensationOf(i) == Lesser(i.compensation, i.fee)

IsCash(i) == i.method = "CASH"
IsWallet(i) == i.method = "WALLET"
IsGateway(i) == ~IsCash(i) /\ ~IsWallet(i)
When(b, amount) == IF b THEN amount ELSE 0

\* Cash: the partner has the money, so the charge is recognised and offset by it.
Debits(i) ==
  [customer |-> When(IsWallet(i), i.total) + When(~IsGateway(i), i.fee),
   partner  |-> When(IsCash(i), CommissionOf(i) + i.total),
   cash     |-> When(IsCash(i), i.total),
   gateway  |-> When(IsGateway(i), i.total + i.fee),
   promo    |-> i.discount,
   revenue  |-> 0,
   refund   |-> 0]

Credits(i) ==
  [customer |-> 0,
   partner  |-> When(IsCash(i), i.total + i.discount) + When(~IsCash(i), PartnerNet(i))
                  + CompensationOf(i),
   cash     |-> When(IsCash(i), i.total),
   gateway  |-> 0,
   promo    |-> 0,
   revenue  |-> CommissionOf(i) + (i.fee - CompensationOf(i)),
   refund   |-> 0]

\* refundEntries.
RefundDebits(amount) == [[a \in Accounts |-> 0] EXCEPT !["refund"] = amount]
RefundCredits(amount) == [[a \in Accounts |-> 0] EXCEPT !["customer"] = amount]

Sum7(f) ==
  f["customer"] + f["partner"] + f["cash"] + f["gateway"] + f["promo"] + f["revenue"] + f["refund"]

\* assertBalanced: no amount is negative, and the debits are the credits.
Balanced(debits, credits) ==
  /\ \A a \in Accounts : debits[a] >= 0 /\ credits[a] >= 0
  /\ Sum7(debits) = Sum7(credits)

=============================================================================
