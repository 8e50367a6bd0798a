---------------------------- MODULE WalletsProofs ----------------------------
(***************************************************************************)
(* What holds of a wallet for any requests in flight and any keys of       *)
(* top-ups, adjustments and withdrawals: postings are idempotent, and the  *)
(* ledger agrees with the withdrawals and with the charges.                *)
(***************************************************************************)
EXTENDS Wallets, TLAPS

-----------------------------------------------------------------------------
(* Keys.                                                                     *)

TopUpKeys == {"topup"} \X TopUps
AdjustKeys == {"adjust"} \X Adjustments
HoldKeys == {"hold"} \X Withdrawals
ReverseKeys == {"reverse"} \X Withdrawals

\* A key says what it is of, and what it is.
LEMMA KeyParts ==
  /\ \A k \in TopUpKeys : k[1] = "topup" /\ k[2] \in TopUps /\ k = <<"topup", k[2]>>
  /\ \A k \in AdjustKeys : k[1] = "adjust" /\ k[2] \in Adjustments
  /\ \A k \in HoldKeys : k[1] = "hold" /\ k[2] \in Withdrawals /\ k = <<"hold", k[2]>>
  /\ \A k \in ReverseKeys : k[1] = "reverse" /\ k[2] \in Withdrawals /\ k = <<"reverse", k[2]>>
BY DEF TopUpKeys, AdjustKeys, HoldKeys, ReverseKeys

\* A key is of one of the four kinds, and moves the wallet by an integer.
LEMMA KeyKinds ==
  /\ Keys = TopUpKeys \cup AdjustKeys \cup HoldKeys \cup ReverseKeys
  /\ \A k \in Keys : Effect(k) \in Int
<1>1. Keys = TopUpKeys \cup AdjustKeys \cup HoldKeys \cup ReverseKeys
  BY DEF Keys, TopUpKeys, AdjustKeys, HoldKeys, ReverseKeys
<1>2. Amount \in Int /\ -Amount \in Int
  BY WalletsAssumption
<1> QED
  BY <1>1, <1>2 DEF Effect

-----------------------------------------------------------------------------
(* The inductive invariant.                                                  *)

PostingSteps == {"find", "select", "commit"}

\* What a request may rely on, in a table wd of withdrawals and with ch charged: a top-up
\* posts when it is charged; a hold is of a withdrawal that does not exist yet, and a
\* decision of one that does and was not rejected when it was read.
ActOK(a, wd, ch) ==
  /\ a.step = "charge" => a.key \in TopUpKeys /\ a.next = "NONE"
  /\ a.step \in {"verify", "balance"} => a.key \in HoldKeys /\ a.next = "REQUESTED"
  /\ a.step = "decide" => /\ a.key \in ReverseKeys /\ wd[a.key[2]] # "NONE"
                          /\ a.read # "REJECTED"
                          /\ a.next \in {"APPROVED", "REJECTED", "PAID"}
  /\ a.step \in PostingSteps =>
       \/ a.key \in TopUpKeys /\ a.next = "NONE" /\ a.key[2] \in ch
       \/ a.key \in AdjustKeys /\ a.next = "NONE"
       \/ a.key \in HoldKeys /\ a.next = "REQUESTED" /\ wd[a.key[2]] = "NONE"
       \/ a.key \in ReverseKeys /\ a.next = "REJECTED" /\ wd[a.key[2]] # "NONE"

\* A request in state a has written the row of withdrawal w.
Writes(a, w) == a.step \in PostingSteps /\ a.key \in {<<"hold", w>>, <<"reverse", w>>}

\* The row lock: one request at a time has written a row.
Exclusive(f) == \A p, q \in Procs, w \in Withdrawals : Writes(f[p], w) /\ Writes(f[q], w) => p = q

Inv ==
  /\ TypeOK
  /\ \A p \in Procs : ActOK(act[p], withdrawals, charged)
  /\ Exclusive(act)
  /\ HoldsAgree
  /\ CreditIsCharged

\* The initial state satisfies it.
LEMMA InitInv == Init => Inv
<1> SUFFICES ASSUME Init PROVE Inv
  OBVIOUS
<1>1. TypeOK
  BY DEF Init, TypeOK, Idle, Act, Steps, Statuses
<1>2. (\A p \in Procs : ActOK(act[p], withdrawals, charged)) /\ Exclusive(act)
  BY DEF Init, ActOK, Exclusive, Writes, PostingSteps, Idle
<1>3. HoldsAgree /\ CreditIsCharged
  BY DEF Init, HoldsAgree, CreditIsCharged
<1> QED
  BY <1>1, <1>2, <1>3 DEF Inv

\* A request that has not written the row of w keeps what it relies on when w is decided.
LEMMA OthersRely ==
  ASSUME TypeOK, NEW a \in Act, ActOK(a, withdrawals, charged),
         NEW w \in Withdrawals, ~Writes(a, w), NEW s \in Statuses \ {"NONE"}
  PROVE  ActOK(a, [withdrawals EXCEPT ![w] = s], charged)
<1> DEFINE wd == [withdrawals EXCEPT ![w] = s]
<1>1. \A x \in Withdrawals : wd[x] = IF x = w THEN s ELSE withdrawals[x]
  BY DEF TypeOK
<1> HIDE DEF wd
<1>2. a.step = "decide" => wd[a.key[2]] # "NONE"
  BY <1>1, KeyParts DEF ActOK
<1>3. a.step \in PostingSteps /\ a.key \in ReverseKeys => wd[a.key[2]] = withdrawals[a.key[2]]
  BY <1>1, KeyParts DEF Writes
<1>4. a.step \in PostingSteps /\ a.key \in HoldKeys => wd[a.key[2]] = withdrawals[a.key[2]]
  BY <1>1, KeyParts DEF Writes
<1>5. ActOK(a, wd, charged)
  BY <1>2, <1>3, <1>4 DEF ActOK
<1> QED
  BY <1>5 DEF wd

\* A step of one request that leaves the tables alone keeps the invariant, when what the
\* request goes on to rely on is there and it writes a row only while nobody else has.
LEMMA LocalStep ==
  ASSUME Inv, NEW p \in Procs, NEW a \in Act, act' = [act EXCEPT ![p] = a],
         UNCHANGED <<ledger, cache, posted, rows>>,
         charged \subseteq charged', charged' \subseteq TopUps,
         ActOK(a, withdrawals, charged'),
         \A w \in Withdrawals : Writes(a, w) => Writes(act[p], w) \/ RowFree(w)
  PROVE  Inv'
<1>1. /\ act \in [Procs -> Act] /\ act'[p] = a
      /\ \A q \in Procs \ {p} : act'[q] = act[q]
  BY DEF Inv, TypeOK
<1>2. TypeOK'
  BY <1>1 DEF Inv, TypeOK, rows
<1>3. ASSUME NEW q \in Procs PROVE ActOK(act'[q], withdrawals', charged')
  <2>1. CASE q = p
    BY <2>1, <1>1 DEF rows
  <2>2. CASE q # p
    BY <2>2, <1>1 DEF Inv, ActOK, rows
  <2> QED
    BY <2>1, <2>2
<1>4. \A q \in Procs, w \in Withdrawals : RowFree(w) => ~Writes(act[q], w)
  BY DEF RowFree, Writing, Writes, PostingSteps
<1>5. Exclusive(act')
  BY <1>1, <1>4 DEF Inv, Exclusive
<1>6. HoldsAgree' /\ CreditIsCharged'
  BY DEF Inv, HoldsAgree, CreditIsCharged, rows
<1> QED
  BY <1>2, <1>3, <1>5, <1>6 DEF Inv

\* A request that goes idle, with or without having charged, keeps the invariant.
LEMMA DoneStep ==
  ASSUME Inv, NEW p \in Procs, Done(p), UNCHANGED <<ledger, cache, posted, rows>>,
         charged \subseteq charged', charged' \subseteq TopUps
  PROVE  Inv'
<1>1. Idle \in Act /\ ActOK(Idle, withdrawals, charged') /\ \A w \in Withdrawals : ~Writes(Idle, w)
  BY DEF Idle, Act, Steps, Statuses, ActOK, PostingSteps, Writes
<1> QED
  BY <1>1, LocalStep DEF Done

\* A request that ends by deciding withdrawal w, whose row nobody else has written, keeps the
\* invariant: an existing withdrawal stays one, a new one or a rejected one is posted, and a
\* rejection written over counts as overtaken.
LEMMA DecideStep ==
  ASSUME Inv, NEW p \in Procs, Done(p), NEW w \in Withdrawals, NEW s \in Statuses \ {"NONE"},
         withdrawals' = [withdrawals EXCEPT ![w] = s], UNCHANGED charged,
         overtaken \subseteq overtaken', overtaken' \subseteq Withdrawals,
         withdrawals[w] = "REJECTED" => s = "REJECTED" \/ w \in overtaken',
         ledger' \in Int, cache' \in Int, posted \subseteq posted', posted' \subseteq Keys,
         \A q \in Procs \ {p} : ~Writes(act[q], w),
         <<"hold", w>> \in posted', s = "REJECTED" => <<"reverse", w>> \in posted',
         \A x \in Withdrawals : <<"hold", x>> \in posted' => <<"hold", x>> \in posted \/ x = w,
         \A x \in Withdrawals : <<"reverse", x>> \in posted' =>
                                <<"reverse", x>> \in posted \/ (x = w /\ s = "REJECTED"),
         \A k \in TopUps : <<"topup", k>> \in posted' => <<"topup", k>> \in posted
  PROVE  Inv'
<1>1. /\ act \in [Procs -> Act] /\ act'[p] = Idle
      /\ \A q \in Procs \ {p} : act'[q] = act[q]
  BY DEF Inv, TypeOK, Done
<1>2. Idle \in Act /\ (\A wd, ch : ActOK(Idle, wd, ch)) /\ \A x \in Withdrawals : ~Writes(Idle, x)
  BY DEF Idle, Act, Steps, Statuses, ActOK, PostingSteps, Writes
<1>3. TypeOK'
  BY <1>1, <1>2 DEF Inv, TypeOK, Done
<1>4. ASSUME NEW q \in Procs PROVE ActOK(act'[q], withdrawals', charged')
  <2>1. CASE q = p
    BY <2>1, <1>1, <1>2
  <2>2. CASE q # p
    <3>1. ActOK(act[q], [withdrawals EXCEPT ![w] = s], charged)
      BY <2>2, <1>1, OthersRely DEF Inv
    <3> QED
      BY <3>1, <2>2, <1>1
  <2> QED
    BY <2>1, <2>2
<1>5. Exclusive(act')
  BY <1>1, <1>2 DEF Inv, Exclusive
<1>6. HoldsAgree'
  BY DEF Inv, HoldsAgree, TypeOK
<1>7. CreditIsCharged'
  BY DEF Inv, CreditIsCharged
<1> QED
  BY <1>3, <1>4, <1>5, <1>6, <1>7 DEF Inv

-----------------------------------------------------------------------------
(* Every step keeps it.                                                      *)

\* A posting that moves money but decides nothing: a top-up or an adjustment.
LEMMA MoneyStep ==
  ASSUME Inv, NEW p \in Procs, Done(p), At(p, "commit"), act[p].key \in TopUpKeys \cup AdjustKeys,
         ledger' \in Int, cache' \in Int, posted' = posted \cup {act[p].key},
         UNCHANGED <<rows, charged>>
  PROVE  Inv'
<1>1. /\ act \in [Procs -> Act] /\ act'[p] = Idle
      /\ \A q \in Procs \ {p} : act'[q] = act[q]
  BY DEF Inv, TypeOK, Done
<1>2. Idle \in Act /\ (\A wd, ch : ActOK(Idle, wd, ch)) /\ \A x \in Withdrawals : ~Writes(Idle, x)
  BY DEF Idle, Act, Steps, Statuses, ActOK, PostingSteps, Writes
<1>3. TypeOK'
  BY <1>1, <1>2, KeyKinds DEF Inv, TypeOK, Done, rows
<1>4. \A q \in Procs : ActOK(act'[q], withdrawals', charged')
  BY <1>1, <1>2 DEF Inv, rows
<1>5. Exclusive(act')
  BY <1>1, <1>2 DEF Inv, Exclusive
<1>6. \A w \in Withdrawals : <<"hold", w>> # act[p].key /\ <<"reverse", w>> # act[p].key
  BY KeyParts
<1>7. HoldsAgree'
  BY <1>6 DEF Inv, HoldsAgree, rows
<1>8. \A k \in TopUps : <<"topup", k>> = act[p].key => k \in charged
  BY KeyParts DEF Inv, ActOK, At, PostingSteps
<1>9. CreditIsCharged'
  BY <1>8 DEF Inv, CreditIsCharged
<1> QED
  BY <1>3, <1>4, <1>5, <1>7, <1>9 DEF Inv

\* A decision read before any rejection is written over one only as an overtaken one.
LEMMA WriteRowStep ==
  ASSUME TypeOK, NEW p \in Procs, WriteRow(p), act[p].next # "NONE",
         act[p].key[2] \in Withdrawals
  PROVE  /\ withdrawals' = [withdrawals EXCEPT ![act[p].key[2]] = act[p].next]
         /\ overtaken \subseteq overtaken' /\ overtaken' \subseteq Withdrawals
         /\ withdrawals[act[p].key[2]] = act[p].read \/ act[p].key[2] \in overtaken'
BY DEF WriteRow, TypeOK

\* Committing a posting keeps the invariant.
LEMMA CommitStep == ASSUME Inv, NEW p \in Procs, Commit(p) PROVE Inv'
<1> DEFINE k == act[p].key
<1>1. act[p] \in Act /\ ActOK(act[p], withdrawals, charged) /\ act[p].step = "commit"
  BY DEF Commit, At, Inv, TypeOK
<1>2. CASE k \in posted
  BY <1>2, DoneStep DEF Commit, Inv, TypeOK
<1>3. ASSUME k \notin posted PROVE Inv'
  <2>1. /\ ledger' = ledger + Effect(k) /\ cache' = act[p].seen + Effect(k)
        /\ posted' = posted \cup {k} /\ WriteRow(p)
        /\ Done(p) /\ UNCHANGED charged
    BY <1>3 DEF Commit
  <2>2. k \in Keys
    BY <1>1, KeyKinds DEF ActOK, PostingSteps
  <2>3. ledger' \in Int /\ cache' \in Int
    BY <1>1, <2>1, <2>2, KeyKinds DEF Inv, TypeOK, Act
  <2>4. posted \subseteq posted' /\ posted' \subseteq Keys
    BY <2>1, <2>2 DEF Inv, TypeOK
  <2>5. CASE k \in TopUpKeys \cup AdjustKeys
    <3>1. act[p].next = "NONE"
      BY <1>1, <2>5, KeyParts DEF ActOK, PostingSteps
    <3> QED
      BY <1>1, <2>1, <2>3, <2>5, <3>1, MoneyStep DEF WriteRow, At
  <2>6. CASE k \in HoldKeys
    <3> DEFINE w == k[2]
    <3>1. /\ w \in Withdrawals /\ k = <<"hold", w>> /\ act[p].next = "REQUESTED"
          /\ withdrawals[w] = "NONE"
      BY <1>1, <2>6, KeyParts DEF ActOK, PostingSteps
    <3>2. \A q \in Procs \ {p} : ~Writes(act[q], w)
      BY <1>1, <3>1 DEF Inv, Exclusive, Writes, PostingSteps
    <3>3. /\ withdrawals' = [withdrawals EXCEPT ![w] = "REQUESTED"]
          /\ overtaken \subseteq overtaken' /\ overtaken' \subseteq Withdrawals
      BY <2>1, <3>1, WriteRowStep DEF Inv
    <3>4. /\ <<"hold", w>> \in posted'
          /\ \A x \in Withdrawals : <<"hold", x>> \in posted' => <<"hold", x>> \in posted \/ x = w
          /\ \A x \in Withdrawals : <<"reverse", x>> \in posted' => <<"reverse", x>> \in posted
          /\ \A x \in TopUps : <<"topup", x>> \in posted' => <<"topup", x>> \in posted
      BY <2>1, <3>1
    <3> HIDE DEF w
    <3> QED
      BY <2>1, <2>3, <2>4, <3>1, <3>2, <3>3, <3>4, DecideStep DEF Statuses
  <2>7. CASE k \in ReverseKeys
    <3> DEFINE w == k[2]
    <3>1. /\ w \in Withdrawals /\ k = <<"reverse", w>> /\ act[p].next = "REJECTED"
          /\ withdrawals[w] # "NONE"
      BY <1>1, <2>7, KeyParts DEF ActOK, PostingSteps
    <3>2. \A q \in Procs \ {p} : ~Writes(act[q], w)
      BY <1>1, <3>1 DEF Inv, Exclusive, Writes, PostingSteps
    <3>3. /\ withdrawals' = [withdrawals EXCEPT ![w] = "REJECTED"]
          /\ overtaken \subseteq overtaken' /\ overtaken' \subseteq Withdrawals
      BY <2>1, <3>1, WriteRowStep DEF Inv
    <3>4. <<"hold", w>> \in posted
      BY <3>1 DEF Inv, HoldsAgree
    <3>5. /\ <<"hold", w>> \in posted' /\ <<"reverse", w>> \in posted'
          /\ \A x \in Withdrawals : <<"hold", x>> \in posted' => <<"hold", x>> \in posted
          /\ \A x \in Withdrawals : <<"reverse", x>> \in posted' => <<"reverse", x>> \in posted \/ x = w
          /\ \A x \in TopUps : <<"topup", x>> \in posted' => <<"topup", x>> \in posted
      BY <2>1, <3>1, <3>4
    <3> HIDE DEF w
    <3> QED
      BY <2>1, <2>3, <2>4, <3>1, <3>2, <3>3, <3>5, DecideStep DEF Statuses
  <2> QED
    BY <2>2, <2>5, <2>6, <2>7, KeyKinds
<1> QED
  BY <1>2, <1>3

\* Looking for the key keeps it: a key that is there is of a top-up, an adjustment or a
\* reversal, never of a hold, whose withdrawal would be there.
LEMMA FindStep == ASSUME Inv, NEW p \in Procs, FindKey(p) PROVE Inv'
<1> DEFINE k == act[p].key
<1>1. act[p] \in Act /\ ActOK(act[p], withdrawals, charged) /\ act[p].step = "find"
  BY DEF FindKey, At, Inv, TypeOK
<1>2. ASSUME k \notin posted PROVE Inv'
  <2> DEFINE a == [act[p] EXCEPT !.step = "select"]
  <2>1. a \in Act /\ act' = [act EXCEPT ![p] = a]
    BY <1>1, <1>2 DEF FindKey, Goto, Act, Steps
  <2>2. ActOK(a, withdrawals, charged) /\ \A w \in Withdrawals : Writes(a, w) => Writes(act[p], w)
    BY <1>1 DEF ActOK, Writes, PostingSteps, Act
  <2>3. UNCHANGED <<ledger, cache, posted, rows, charged>>
    BY <1>2 DEF FindKey
  <2> QED
    BY <2>1, <2>2, <2>3, LocalStep DEF Inv, TypeOK
<1>3. ASSUME k \in posted PROVE Inv'
  <2>1. Done(p) /\ WriteRow(p) /\ UNCHANGED <<ledger, cache, posted, charged>>
    BY <1>3 DEF FindKey
  <2>2. CASE k \in TopUpKeys \cup AdjustKeys
    <3>1. act[p].next = "NONE"
      BY <1>1, <2>2, KeyParts DEF ActOK, PostingSteps
    <3> QED
      BY <2>1, <3>1, DoneStep DEF WriteRow, Inv, TypeOK
  <2>3. k \notin HoldKeys
    BY <1>1, <1>3, KeyParts DEF ActOK, PostingSteps, Inv, HoldsAgree
  <2>4. CASE k \in ReverseKeys
    <3> DEFINE w == k[2]
    <3>1. /\ w \in Withdrawals /\ k = <<"reverse", w>> /\ act[p].next = "REJECTED"
          /\ withdrawals[w] # "NONE"
      BY <1>1, <2>4, KeyParts DEF ActOK, PostingSteps
    <3>2. \A q \in Procs \ {p} : ~Writes(act[q], w)
      BY <1>1, <3>1 DEF Inv, Exclusive, Writes, PostingSteps
    <3>3. /\ withdrawals' = [withdrawals EXCEPT ![w] = "REJECTED"]
          /\ overtaken \subseteq overtaken' /\ overtaken' \subseteq Withdrawals
      BY <2>1, <3>1, WriteRowStep DEF Inv
    <3>4. <<"hold", w>> \in posted /\ posted \subseteq Keys
      BY <3>1 DEF Inv, HoldsAgree, TypeOK
    <3>5. ledger' \in Int /\ cache' \in Int
      BY <2>1 DEF Inv, TypeOK
    <3>6. <<"reverse", w>> \in posted' /\ <<"hold", w>> \in posted' /\ posted' = posted
      BY <1>3, <2>1, <3>1, <3>4
    <3> QED
      BY <2>1, <3>1, <3>2, <3>3, <3>4, <3>5, <3>6, DecideStep DEF Statuses
  <2> QED
    BY <1>1, <2>2, <2>3, <2>4 DEF ActOK, PostingSteps
<1> QED
  BY <1>2, <1>3

\* Writing a decision keeps it.
LEMMA WriteStep == ASSUME Inv, NEW p \in Procs, WriteDecision(p) PROVE Inv'
<1> DEFINE w == act[p].key[2]
<1>1. /\ act[p] \in Act /\ ActOK(act[p], withdrawals, charged) /\ act[p].step = "decide"
      /\ RowFree(w) /\ UNCHANGED <<ledger, cache, posted, charged>>
  BY DEF WriteDecision, At, Inv, TypeOK
<1>2. /\ w \in Withdrawals /\ act[p].key = <<"reverse", w>> /\ act[p].key \in ReverseKeys
      /\ withdrawals[w] # "NONE" /\ act[p].read # "REJECTED"
      /\ act[p].next \in {"APPROVED", "REJECTED", "PAID"}
  BY <1>1, KeyParts DEF ActOK
<1>3. CASE act[p].next = "REJECTED"
  <2> DEFINE a == [act[p] EXCEPT !.step = "find"]
  <2>1. a \in Act /\ act' = [act EXCEPT ![p] = a] /\ UNCHANGED rows
    BY <1>1, <1>3 DEF WriteDecision, Goto, Act, Steps
  <2>2. a.step = "find" /\ a.key = act[p].key /\ a.next = "REJECTED"
    BY <1>1, <1>3 DEF Act
  <2>3. ActOK(a, withdrawals, charged)
    BY <1>2, <2>2 DEF ActOK, PostingSteps
  <2>4. \A x \in Withdrawals : Writes(a, x) => x = w
    BY <1>2, <2>2 DEF Writes
  <2> QED
    BY <1>1, <2>1, <2>3, <2>4, LocalStep DEF Inv, TypeOK
<1>4. CASE act[p].next # "REJECTED"
  <2>1. /\ Done(p) /\ withdrawals' = [withdrawals EXCEPT ![w] = act[p].next]
        /\ overtaken \subseteq overtaken' /\ overtaken' \subseteq Withdrawals
        /\ withdrawals[w] = act[p].read \/ w \in overtaken'
    BY <1>2, <1>4, WriteRowStep DEF WriteDecision, Inv
  <2>2. \A q \in Procs : ~Writes(act[q], w)
    BY <1>1 DEF RowFree, Writing, Writes, PostingSteps
  <2>3. <<"hold", w>> \in posted /\ posted \subseteq Keys /\ ledger' \in Int /\ cache' \in Int
    BY <1>1, <1>2 DEF Inv, HoldsAgree, TypeOK
  <2> QED
    BY <1>1, <1>2, <1>4, <2>1, <2>2, <2>3, DecideStep DEF Statuses
<1> QED
  BY <1>3, <1>4

\* A request that begins keeps it, when what it relies on is there.
LEMMA BeginStep ==
  ASSUME Inv, NEW p \in Procs, NEW step \in Steps, NEW key \in Keys,
         NEW read \in Statuses, NEW next \in Statuses,
         Begin(p, step, key, read, next), UNCHANGED <<ledger, cache, posted, rows, charged>>,
         ActOK([step |-> step, key |-> key, read |-> read, next |-> next, seen |-> 0], withdrawals, charged),
         step \in PostingSteps => key \in AdjustKeys
  PROVE  Inv'
<1> DEFINE a == [step |-> step, key |-> key, read |-> read, next |-> next, seen |-> 0]
<1>1. a \in Act /\ act' = [act EXCEPT ![p] = a]
  BY DEF Begin, Act
<1>2. \A w \in Withdrawals : ~Writes(a, w)
  BY KeyParts DEF Writes
<1> QED
  BY <1>1, <1>2, LocalStep DEF Inv, TypeOK

\* Every step keeps the invariant.
LEMMA NextInv == Inv /\ [Next]_vars => Inv'
<1> SUFFICES ASSUME Inv, [Next]_vars PROVE Inv'
  OBVIOUS
<1>1. ASSUME NEW p \in Procs, NEW k \in TopUps, TopUp(p, k) PROVE Inv'
  <2>1. <<"topup", k>> \in TopUpKeys /\ <<"topup", k>> \in Keys
    BY KeyKinds DEF TopUpKeys
  <2> QED
    BY <1>1, <2>1, BeginStep DEF TopUp, Steps, Statuses, ActOK, PostingSteps
<1>2. ASSUME NEW p \in Procs, NEW k \in Adjustments, Adjust(p, k) PROVE Inv'
  <2>1. <<"adjust", k>> \in AdjustKeys /\ <<"adjust", k>> \in Keys
    BY KeyKinds DEF AdjustKeys
  <2> QED
    BY <1>2, <2>1, BeginStep DEF Adjust, Steps, Statuses, ActOK, PostingSteps
<1>3. ASSUME NEW p \in Procs, NEW w \in Withdrawals, RequestWithdrawal(p, w) PROVE Inv'
  <2>1. <<"hold", w>> \in HoldKeys /\ <<"hold", w>> \in Keys
    BY KeyKinds DEF HoldKeys
  <2> QED
    BY <1>3, <2>1, BeginStep DEF RequestWithdrawal, Steps, Statuses, ActOK, PostingSteps
<1>4. ASSUME NEW p \in Procs, NEW w \in Withdrawals, NEW next \in {"APPROVED", "REJECTED", "PAID"},
             DecideWithdrawal(p, w, next)
      PROVE  Inv'
  <2>1. <<"reverse", w>> \in ReverseKeys /\ <<"reverse", w>> \in Keys
    BY KeyKinds DEF ReverseKeys
  <2>2. withdrawals[w] \in Statuses \ {"NONE", "REJECTED"}
    BY <1>4 DEF DecideWithdrawal, Allowed, Statuses
  <2> DEFINE a == [step |-> "decide", key |-> <<"reverse", w>>, read |-> withdrawals[w], next |-> next, seen |-> 0]
  <2>3. ActOK(a, withdrawals, charged)
    BY <2>1, <2>2 DEF ActOK, PostingSteps
  <2> QED
    BY <1>4, <2>1, <2>2, <2>3, BeginStep DEF DecideWithdrawal, Steps, Statuses, PostingSteps
<1>5. ASSUME NEW p \in Procs, Charge(p) PROVE Inv'
  <2> DEFINE k == act[p].key[2]
  <2>1. /\ act[p] \in Act /\ ActOK(act[p], withdrawals, charged) /\ act[p].step = "charge"
        /\ UNCHANGED <<ledger, cache, posted, rows>>
    BY <1>5 DEF Charge, At, Inv, TypeOK
  <2>2. act[p].key \in TopUpKeys /\ k \in TopUps /\ act[p].next = "NONE"
    BY <2>1, KeyParts DEF ActOK
  <2>3. ASSUME charged' = charged \cup {k}, Goto(p, "find") PROVE Inv'
    <3> DEFINE a == [act[p] EXCEPT !.step = "find"]
    <3>1. a \in Act /\ act' = [act EXCEPT ![p] = a]
      BY <2>1, <2>3 DEF Goto, Act, Steps
    <3>2. a.step = "find" /\ a.key = act[p].key /\ a.next = "NONE"
      BY <2>1, <2>2 DEF Act
    <3>3. ActOK(a, withdrawals, charged') /\ \A w \in Withdrawals : ~Writes(a, w)
      BY <2>2, <2>3, <3>2, KeyParts DEF ActOK, PostingSteps, Writes
    <3>4. charged \subseteq charged' /\ charged' \subseteq TopUps
      BY <2>2, <2>3 DEF Inv, TypeOK
    <3> QED
      BY <2>1, <3>1, <3>3, <3>4, LocalStep
  <2>4. ASSUME charged' \in {charged \cup {k}, charged}, Done(p) PROVE Inv'
    <3>1. charged \subseteq charged' /\ charged' \subseteq TopUps
      BY <2>2, <2>4 DEF Inv, TypeOK
    <3> QED
      BY <2>1, <2>4, <3>1, DoneStep
  <2> QED
    BY <1>5, <2>3, <2>4 DEF Charge
<1>6. ASSUME NEW p \in Procs, AssertWalletIntegrity(p) PROVE Inv'
  <2>1. /\ act[p] \in Act /\ ActOK(act[p], withdrawals, charged) /\ act[p].step = "verify"
        /\ UNCHANGED <<ledger, cache, posted, rows, charged>>
    BY <1>6 DEF AssertWalletIntegrity, At, Inv, TypeOK
  <2>2. CASE Goto(p, "balance")
    <3> DEFINE a == [act[p] EXCEPT !.step = "balance"]
    <3>1. a \in Act /\ act' = [act EXCEPT ![p] = a]
      BY <2>1, <2>2 DEF Goto, Act, Steps
    <3>2. ActOK(a, withdrawals, charged) /\ \A w \in Withdrawals : ~Writes(a, w)
      BY <2>1 DEF ActOK, PostingSteps, Writes, Act
    <3> QED
      BY <2>1, <3>1, <3>2, LocalStep DEF Inv, TypeOK
  <2>3. CASE Done(p)
    BY <2>1, <2>3, DoneStep DEF Inv, TypeOK
  <2> QED
    BY <1>6, <2>2, <2>3 DEF AssertWalletIntegrity
<1>7. ASSUME NEW p \in Procs, CheckBalance(p) PROVE Inv'
  <2> DEFINE w == act[p].key[2]
  <2>1. /\ act[p] \in Act /\ ActOK(act[p], withdrawals, charged) /\ act[p].step = "balance"
        /\ UNCHANGED <<ledger, cache, posted, rows, charged>> /\ RowFree(w)
    BY <1>7 DEF CheckBalance, At, Inv, TypeOK
  <2>2. ASSUME withdrawals[w] = "NONE", Goto(p, "find") PROVE Inv'
    <3> DEFINE a == [act[p] EXCEPT !.step = "find"]
    <3>1. a \in Act /\ act' = [act EXCEPT ![p] = a]
      BY <2>1, <2>2 DEF Goto, Act, Steps
    <3>2. a.step = "find" /\ a.key = act[p].key /\ a.next = act[p].next
      BY <2>1 DEF Act
    <3>3. act[p].key \in HoldKeys /\ act[p].next = "REQUESTED" /\ act[p].key = <<"hold", w>>
      BY <2>1, KeyParts DEF ActOK
    <3>4. ActOK(a, withdrawals, charged)
      BY <2>2, <3>2, <3>3 DEF ActOK, PostingSteps
    <3>5. \A x \in Withdrawals : Writes(a, x) => x = w
      BY <3>2, <3>3 DEF Writes
    <3> QED
      BY <2>1, <3>1, <3>4, <3>5, LocalStep DEF Inv, TypeOK
  <2>3. CASE Done(p)
    BY <2>1, <2>3, DoneStep DEF Inv, TypeOK
  <2> QED
    BY <1>7, <2>2, <2>3 DEF CheckBalance
<1>8. ASSUME NEW p \in Procs, SelectForUpdate(p) PROVE Inv'
  <2> DEFINE a == [act[p] EXCEPT !.step = "commit", !.seen = ledger]
  <2>1. /\ act[p] \in Act /\ ActOK(act[p], withdrawals, charged) /\ act[p].step = "select"
        /\ UNCHANGED <<ledger, cache, posted, rows, charged>> /\ ledger \in Int
    BY <1>8 DEF SelectForUpdate, At, Inv, TypeOK
  <2>2. a \in Act /\ act' = [act EXCEPT ![p] = a]
    BY <1>8, <2>1 DEF SelectForUpdate, Act, Steps
  <2>3. a.step = "commit" /\ a.key = act[p].key /\ a.next = act[p].next
    BY <2>1 DEF Act
  <2>4. ActOK(a, withdrawals, charged) /\ \A w \in Withdrawals : Writes(a, w) => Writes(act[p], w)
    BY <2>1, <2>3 DEF ActOK, PostingSteps, Writes
  <2> QED
    BY <2>1, <2>2, <2>4, LocalStep DEF Inv, TypeOK
<1>9. ASSUME NEW p \in Procs, Crash(p) PROVE Inv'
  BY <1>9, DoneStep DEF Crash, Inv, TypeOK
<1>10. CASE UNCHANGED vars
  BY <1>10 DEF vars, rows, Inv, TypeOK, HoldsAgree, CreditIsCharged
<1> QED
  BY <1>1, <1>2, <1>3, <1>4, <1>5, <1>6, <1>7, <1>8, <1>9, <1>10, WriteStep, FindStep, CommitStep
     DEF Next

\* The invariant holds in every state the specification reaches.
LEMMA Invariant == Spec => []Inv
BY InitInv, NextInv, PTL DEF Spec

-----------------------------------------------------------------------------
(* The theorems.                                                             *)

\* Every column and every request keeps its type.
THEOREM TypeCorrect == Spec => []TypeOK
<1>1. Inv => TypeOK
  BY DEF Inv
<1> QED
  BY <1>1, Invariant, PTL

\* A withdrawal has its hold, a rejected one its reversal, and one whose hold was reversed is
\* rejected unless a decision was written over another taken at the same time, however
\* requests and decisions interleave (requestWithdrawal, decideWithdrawal).
THEOREM HoldsAlwaysAgree == Spec => []HoldsAgree
<1>1. Inv => HoldsAgree
  BY DEF Inv
<1> QED
  BY <1>1, Invariant, PTL

\* A top-up credits the wallet only when the provider has charged it (topUp).
THEOREM CreditAlwaysCharged == Spec => []CreditIsCharged
<1>1. Inv => CreditIsCharged
  BY DEF Inv
<1> QED
  BY <1>1, Invariant, PTL

\* Initially nothing is posted.
LEMMA InitPosts == Init => OncePerKey!Init
BY DEF Init, OncePerKey!Init

\* Every step posts one new key with its effect, or nothing.
LEMMA NextPosts == Inv /\ [Next]_vars => [OncePerKey!Next]_<<posted, ledger>>
<1> SUFFICES ASSUME Inv, [Next]_vars PROVE [OncePerKey!Next]_<<posted, ledger>>
  OBVIOUS
<1>1. ASSUME NEW p \in Procs, Commit(p) PROVE [OncePerKey!Next]_<<posted, ledger>>
  <2>1. CASE act[p].key \in posted
    BY <1>1, <2>1 DEF Commit
  <2>2. CASE act[p].key \notin posted
    <3>1. act[p].key \in Keys
      BY <1>1, KeyKinds DEF Commit, At, Inv, ActOK, PostingSteps
    <3>2. OncePerKey!Apply(act[p].key)
      BY <1>1, <2>2 DEF Commit, OncePerKey!Apply
    <3> QED
      BY <3>1, <3>2 DEF OncePerKey!Next
  <2> QED
    BY <2>1, <2>2
<1>2. CASE UNCHANGED <<ledger, posted>>
  BY <1>2
<1> QED
  BY <1>1, <1>2 DEF Next, vars, TopUp, Adjust, RequestWithdrawal, DecideWithdrawal, Charge,
                    AssertWalletIntegrity, CheckBalance, WriteDecision, FindKey,
                    SelectForUpdate, Crash

\* The ledger keeps its promise: each key moves the wallet once and whole, whatever requests
\* look for it at once, are retried or die (post, "idempotent on idempotencyKey").
THEOREM ImplementsPostings == Spec => PostingsSpec
BY InitPosts, NextPosts, Invariant, PTL DEF Spec, PostingsSpec, OncePerKey!Spec
=============================================================================
