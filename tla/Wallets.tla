------------------------------ MODULE Wallets ------------------------------
(***************************************************************************)
(* One wallet, its ledger account and its withdrawals: wallet.service.ts   *)
(* and the posting of ledger.service.ts.  A posting looks for its key,     *)
(* then locks the accounts and reads their balances in one statement, then *)
(* writes entries and the cached balance.  At READ COMMITTED the statement *)
(* sees what was committed when it began, not when it got the lock.        *)
(* Transactions of a process that dies are rolled back.                    *)
(***************************************************************************)
EXTENDS Integers

CONSTANTS
  Procs,          \* requests in flight
  TopUps,         \* idempotency keys of top-ups
  Adjustments,    \* references of finance adjustments, all debits here
  Withdrawals,    \* idempotency keys of withdrawal requests
  Nothing,        \* not a key
  Amount          \* what each of them moves

ASSUME WalletsAssumption == Amount \in Nat \ {0}

VARIABLES
  ledger,         \* the sum of the entries of the wallet's account
  cache,          \* wallets.balance_minor
  posted,         \* idempotency keys of ledger_transactions
  withdrawals,    \* status of each withdrawals row
  overtaken,      \* history: withdrawals a decision was written over a later one of
  charged,        \* top-ups the provider has charged
  act             \* what each request is doing

rows == <<withdrawals, overtaken>>
vars == <<ledger, cache, posted, rows, charged, act>>

Kinds == {"topup", "adjust", "hold", "reverse"}
Keys == ({"topup"} \X TopUps) \cup ({"adjust"} \X Adjustments) \cup ({"hold", "reverse"} \X Withdrawals)
NoKey == <<"none", Nothing>>
Effect(key) == IF key[1] \in {"topup", "reverse"} THEN Amount ELSE -Amount

Statuses == {"NONE", "REQUESTED", "APPROVED", "REJECTED", "PAID"}
Steps == {"idle", "charge", "verify", "balance", "decide", "find", "select", "commit"}
Act == [step : Steps, key : Keys \cup {NoKey}, read : Statuses, next : Statuses, seen : Int]
Idle == [step |-> "idle", key |-> NoKey, read |-> "NONE", next |-> "NONE", seen |-> 0]

Init ==
  /\ ledger = 0
  /\ cache = 0
  /\ posted = {}
  /\ withdrawals = [w \in Withdrawals |-> "NONE"]
  /\ overtaken = {}
  /\ charged = {}
  /\ act = [p \in Procs |-> Idle]

At(p, step) == act[p].step = step
Done(p) == act' = [act EXCEPT ![p] = Idle]
Goto(p, step) == act' = [act EXCEPT ![p].step = step]
Begin(p, step, key, read, next) ==
  /\ At(p, "idle")
  /\ act' = [act EXCEPT ![p] =
       [step |-> step, key |-> key, read |-> read, next |-> next, seen |-> 0]]

\* A transaction that has written a row keeps it until it commits.
Writing(p, w) == act[p].step \in {"find", "select", "commit"} /\ act[p].key \in {<<"hold", w>>, <<"reverse", w>>}
RowFree(w) == \A q \in Procs : ~Writing(q, w)

-----------------------------------------------------------------------------
(* Requests *)

\* A top-up whose key is in the ledger answers with what was done.
TopUp(p, k) ==
  /\ <<"topup", k>> \notin posted
  /\ Begin(p, "charge", <<"topup", k>>, "NONE", "NONE")
  /\ UNCHANGED <<ledger, cache, posted, rows, charged>>

\* Fault: the charge is recorded under the posting's key.
ChargeUnderKey(p) ==
  /\ At(p, "charge")
  /\ charged' = charged \cup {act[p].key}
  /\ Goto(p, "find")
  /\ UNCHANGED <<ledger, cache, posted, rows>>

\* Fault: an answer that asks for an action is taken for a capture.
ChargeLater(p) ==
  /\ At(p, "charge")
  /\ \/ charged' = charged \cup {act[p].key[2]}
     \/ UNCHANGED charged
  /\ Goto(p, "find")
  /\ UNCHANGED <<ledger, cache, posted, rows>>

\* The provider charges once per key; it declines, asks for an action, or fails ("idle").
Charge(p) ==
  /\ At(p, "charge")
  /\ \/ charged' = charged \cup {act[p].key[2]} /\ Goto(p, "find")
     \/ charged' = charged \cup {act[p].key[2]} /\ Done(p)
     \/ act[p].key[2] \notin charged /\ UNCHANGED charged /\ Done(p)
  /\ UNCHANGED <<ledger, cache, posted, rows>>

Adjust(p, k) ==
  /\ Begin(p, "find", <<"adjust", k>>, "NONE", "NONE")
  /\ UNCHANGED <<ledger, cache, posted, rows, charged>>

\* A request whose key has a row answers with the row.
RequestWithdrawal(p, w) ==
  /\ withdrawals[w] = "NONE"
  /\ Begin(p, "verify", <<"hold", w>>, "NONE", "REQUESTED")
  /\ UNCHANGED <<ledger, cache, posted, rows, charged>>

\* No withdrawal while the cached balance disagrees with the entries.
AssertWalletIntegrity(p) ==
  /\ At(p, "verify")
  /\ IF cache = ledger THEN Goto(p, "balance") ELSE Done(p)
  /\ UNCHANGED <<ledger, cache, posted, rows, charged>>

\* The row is inserted at the start of the transaction: a twin waits and is refused.
CheckBalance(p) ==
  /\ At(p, "balance")
  /\ LET w == act[p].key[2]
     IN  /\ RowFree(w)
         /\ IF cache >= Amount /\ withdrawals[w] = "NONE" THEN Goto(p, "find") ELSE Done(p)
  /\ UNCHANGED <<ledger, cache, posted, rows, charged>>

\* Fault: a rejected withdrawal can be approved after all.
AllowedAgain(next) ==
  CASE next = "APPROVED" -> {"REQUESTED", "REJECTED"}
    [] next = "REJECTED" -> {"REQUESTED", "APPROVED"}
    [] next = "PAID" -> {"APPROVED"}

Allowed(next) ==
  CASE next = "APPROVED" -> {"REQUESTED"}
    [] next = "REJECTED" -> {"REQUESTED", "APPROVED"}
    [] next = "PAID" -> {"APPROVED"}

\* The status is checked as it is read here; the update is by id.
DecideWithdrawal(p, w, next) ==
  /\ withdrawals[w] \in Allowed(next)
  /\ Begin(p, "decide", <<"reverse", w>>, withdrawals[w], next)
  /\ UNCHANGED <<ledger, cache, posted, rows, charged>>

\* What the transaction has written about a withdrawal becomes visible with its commit: over
\* the status the request has read, or over a decision made since.
WriteRow(p) ==
  LET w == act[p].key[2]
  IN  IF act[p].next = "NONE" THEN UNCHANGED rows
      ELSE /\ withdrawals' = [withdrawals EXCEPT ![w] = act[p].next]
           /\ overtaken' = IF withdrawals[w] = act[p].read THEN overtaken ELSE overtaken \cup {w}

WriteDecision(p) ==
  /\ At(p, "decide")
  /\ RowFree(act[p].key[2])
  /\ IF act[p].next = "REJECTED"
       THEN Goto(p, "find") /\ UNCHANGED rows
       ELSE Done(p) /\ WriteRow(p)
  /\ UNCHANGED <<ledger, cache, posted, charged>>

-----------------------------------------------------------------------------
(* Posting: LedgerService.postInTx *)

\* A key that is in the ledger is not posted again; the rest of the transaction commits.
FindKey(p) ==
  /\ At(p, "find")
  /\ IF act[p].key \in posted
       THEN Done(p) /\ WriteRow(p)
       ELSE Goto(p, "select") /\ UNCHANGED rows
  /\ UNCHANGED <<ledger, cache, posted, charged>>

\* The balance as of the beginning of the statement that then waits for the lock.
SelectForUpdate(p) ==
  /\ At(p, "select")
  /\ act' = [act EXCEPT ![p].step = "commit", ![p].seen = ledger]
  /\ UNCHANGED <<ledger, cache, posted, rows, charged>>

\* Fault: the key is looked for once, before the lock.
CommitTwice(p) ==
  /\ At(p, "commit")
  /\ ledger' = ledger + Effect(act[p].key)
  /\ cache' = act[p].seen + Effect(act[p].key)
  /\ posted' = posted \cup {act[p].key}
  /\ WriteRow(p)
  /\ Done(p)
  /\ UNCHANGED charged

\* The unique index refuses a key posted since it was looked for, and with it the transaction.
Commit(p) ==
  /\ At(p, "commit")
  /\ IF act[p].key \in posted
       THEN UNCHANGED <<ledger, cache, posted, rows>>
       ELSE /\ ledger' = ledger + Effect(act[p].key)
            /\ cache' = act[p].seen + Effect(act[p].key)
            /\ posted' = posted \cup {act[p].key}
            /\ WriteRow(p)
  /\ Done(p)
  /\ UNCHANGED charged

Crash(p) ==
  /\ ~At(p, "idle")
  /\ Done(p)
  /\ UNCHANGED <<ledger, cache, posted, rows, charged>>

Next == \E p \in Procs :
  \/ \E k \in TopUps : TopUp(p, k)
  \/ \E k \in Adjustments : Adjust(p, k)
  \/ \E w \in Withdrawals : RequestWithdrawal(p, w)
  \/ \E w \in Withdrawals, next \in {"APPROVED", "REJECTED", "PAID"} : DecideWithdrawal(p, w, next)
  \/ Charge(p) \/ AssertWalletIntegrity(p) \/ CheckBalance(p) \/ WriteDecision(p)
  \/ FindKey(p) \/ SelectForUpdate(p) \/ Commit(p)
  \/ Crash(p)

Spec == Init /\ [][Next]_vars

-----------------------------------------------------------------------------
(* Properties *)

\* Every column and every request keeps its type.
TypeOK ==
  /\ ledger \in Int /\ cache \in Int
  /\ posted \subseteq Keys
  /\ withdrawals \in [Withdrawals -> Statuses]
  /\ overtaken \subseteq Withdrawals
  /\ charged \subseteq TopUps
  /\ act \in [Procs -> Act]

\* ledger.service.ts:213: a posting is "idempotent on idempotencyKey".  Retries, twins in
\* flight and deaths of the process notwithstanding, each key moves the wallet once and whole.
OncePerKey == INSTANCE Postings WITH applied <- posted, balance <- ledger

PostingsSpec == OncePerKey!Spec

\* wallet.service.ts:469: "APPROVE keeps the hold, REJECT reverses it".  A withdrawal has its
\* hold in the ledger, one that reads REJECTED has given the money back, and one that has
\* given it back reads REJECTED: unless one of two decisions taken at the same time was
\* written over the other, which leaves it APPROVED or PAID with its hold reversed.
HoldsAgree ==
  \A w \in Withdrawals :
    /\ withdrawals[w] # "NONE" <=> <<"hold", w>> \in posted
    /\ withdrawals[w] = "REJECTED" => <<"reverse", w>> \in posted
    /\ <<"reverse", w>> \in posted => withdrawals[w] = "REJECTED" \/ w \in overtaken

\* A wallet is credited for a top-up only when the provider has charged it.
CreditIsCharged == \A k \in TopUps : <<"topup", k>> \in posted => k \in charged

\* ledger.service.ts:389: the balances are read under the lock "so `balance_after_minor` is a
\* true running balance", and the cached balance written from them is that of the entries.
CacheAgrees == cache = ledger

=============================================================================
