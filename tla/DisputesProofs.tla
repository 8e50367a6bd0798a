--------------------------- MODULE DisputesProofs ---------------------------
(***************************************************************************)
(* Proofs about Idempotency and Disputes.  The guard is dealt with first:  *)
(* GuardInv is inductive for Idempotency whatever its handlers do, and     *)
(* every step of Disputes is a step of the guard or leaves it alone.       *)
(***************************************************************************)
EXTENDS Disputes, TLAPS

\* From the creation of its row to the call that follows the handler.
Active(p) == call[p].at \in {"handler", "complete", "release"}

\* A request knows its key and its body.
CallsOK ==
  \A p \in Requests : ~In(p, "idle") => KeyOf(p) \in Keys /\ call[p].payload \in Payloads

\* Within its 24 hours a key is one request's, whose row is locked until the end.
Exclusive ==
  \A p \in Requests : KeyOf(p) \notin lapsed =>
    /\ ~In(p, "delete")
    /\ Active(p) => /\ rows[KeyOf(p)].state = "locked"
                    /\ \A q \in Requests : Active(q) /\ KeyOf(q) = KeyOf(p) => q = p
    /\ KeyOf(p) \in returned => ~In(p, "handler") /\ ~In(p, "release")

\* The row of a request that returned stays.
Kept == \A k \in returned \ lapsed : rows[k].state # "none"

Lapsed == \A k \in Keys : rows[k].expired => k \in lapsed

GuardInv == GuardTypeOK /\ CallsOK /\ Exclusive /\ Kept /\ Lapsed

-----------------------------------------------------------------------------
(* The guard *)

LEMMA GuardStarts ==
  GuardInit => GuardInv
<1> SUFFICES ASSUME GuardInit PROVE GuardInv
  OBVIOUS
<1> USE DEF GuardInit
<1>1. GuardTypeOK
  BY IdempotencyAssumption DEF GuardTypeOK, NoRow, NoCall, Row, Call
<1>2. CallsOK /\ Exclusive /\ Kept /\ Lapsed
  BY DEF CallsOK, Exclusive, Kept, Lapsed, In, Active, NoCall, NoRow
<1> QED
  BY <1>1, <1>2 DEF GuardInv

LEMMA OnceFollows ==
  GuardInv => OncePerKey
BY DEF GuardInv, Exclusive, OncePerKey, In, Active

\* A request begins, while nothing else of the guard changes.
LEMMA AcquireKeeps ==
  ASSUME GuardInv, NEW p \in Requests, NEW k \in Keys, NEW payload \in Payloads, Acquire(p, k, payload)
  PROVE  GuardInv'
<1> USE DEF GuardInv, Acquire, In, KeyOf
<1>1. call \in [Requests -> Call] /\ call[p] \in Call
  BY DEF GuardTypeOK
<1>2. PICK at \in {"create", "delete"} :
        /\ call' = [call EXCEPT ![p] = [key |-> k, payload |-> payload, at |-> at]]
        /\ at = "delete" => k \in lapsed
  BY DEF Lapsed
<1>3. GuardTypeOK'
  BY <1>1, <1>2 DEF GuardTypeOK, Call
<1>4. CallsOK'
  BY <1>1, <1>2 DEF CallsOK
<1>5. Exclusive'
  BY <1>1, <1>2 DEF Exclusive, Active
<1>6. Kept' /\ Lapsed'
  BY DEF Kept, Lapsed
<1> QED
  BY <1>3, <1>4, <1>5, <1>6

LEMMA DeleteKeeps ==
  ASSUME GuardInv, NEW p \in Requests, DeleteExpired(p)
  PROVE  GuardInv'
<1> USE DEF GuardInv, DeleteExpired, In, KeyOf
<1>1. call \in [Requests -> Call] /\ call[p] \in Call /\ rows \in [Keys -> Row]
  BY DEF GuardTypeOK
<1>2. call[p].key \in Keys /\ call[p].key \in lapsed
  BY DEF CallsOK, Exclusive
<1>3. PICK c \in Call :
        /\ call' = [call EXCEPT ![p] = c]
        /\ c.at \in {"idle", "create"}
        /\ c.at = "create" => c.key = call[p].key /\ c.payload = call[p].payload
        /\ c.at = "idle" => c.key = Nothing
  <2>1. CASE rows[call[p].key].state = "none"
    BY <1>1, <2>1 DEF Leave, NoCall, Call
  <2>2. CASE rows[call[p].key].state # "none"
    <3> DEFINE c == [call[p] EXCEPT !.at = "create"]
    <3>1. c \in Call /\ c.at = "create" /\ c.key = call[p].key /\ c.payload = call[p].payload
      BY <1>1 DEF Call
    <3>2. call' = [call EXCEPT ![p] = c]
      BY <2>2 DEF GoTo
    <3> QED
      BY <3>1, <3>2
  <2> QED
    BY <2>1, <2>2
<1>4. GuardTypeOK'
  BY <1>1, <1>3 DEF GuardTypeOK, NoRow, Row
<1>5. CallsOK'
  BY <1>1, <1>2, <1>3 DEF CallsOK
<1>6. Exclusive'
  <2> SUFFICES ASSUME NEW q \in Requests, call'[q].key \notin lapsed
               PROVE  /\ call'[q].at # "delete"
                      /\ Active(q)' => /\ rows'[call'[q].key].state = "locked"
                                       /\ \A r \in Requests : Active(r)' /\ call'[r].key = call'[q].key => r = q
                      /\ call'[q].key \in returned => call'[q].at # "handler" /\ call'[q].at # "release"
    BY DEF Exclusive
  <2>1. CASE q = p
    BY <1>1, <1>2, <1>3, <2>1 DEF Active
  <2>2. CASE q # p
    <3>1. call'[q] = call[q] /\ call[q].key # call[p].key
      BY <1>1, <1>2, <1>3, <2>2
    <3>2. Active(q) => call[q].key \in Keys
      BY DEF CallsOK, Active
    <3> QED
      BY <1>1, <1>2, <1>3, <2>2, <3>1, <3>2 DEF Exclusive, Active
  <2> QED
    BY <2>1, <2>2
<1>7. Kept' /\ Lapsed'
  BY <1>1, <1>2 DEF Kept, Lapsed, NoRow, GuardTypeOK
<1> QED
  BY <1>4, <1>5, <1>6, <1>7

\* A request that leaves takes nothing with it.
LEMMA LeaveKeeps ==
  ASSUME GuardInv, NEW p \in Requests, Leave(p), UNCHANGED <<rows, returned, lapsed>>, crashes' \in 0..Crashes
  PROVE  GuardInv'
<1> USE DEF GuardInv, In, KeyOf
<1>1. /\ call' = [call EXCEPT ![p] = NoCall]
      /\ NoCall \in Call /\ NoCall.at = "idle" /\ NoCall.key = Nothing /\ Nothing \notin Keys
  BY IdempotencyAssumption DEF Leave, NoCall, Call
<1>2. call \in [Requests -> Call] /\ returned \subseteq Keys
  BY DEF GuardTypeOK
<1>3. GuardTypeOK' /\ CallsOK'
  BY <1>1, <1>2 DEF GuardTypeOK, CallsOK
<1>4. Exclusive'
  BY <1>1, <1>2 DEF Exclusive, Active
<1>5. Kept' /\ Lapsed'
  BY DEF Kept, Lapsed
<1> QED
  BY <1>3, <1>4, <1>5

LEMMA CreateKeeps ==
  ASSUME GuardInv, NEW p \in Requests, CreateKey(p)
  PROVE  GuardInv'
<1> USE DEF GuardInv, CreateKey, In, KeyOf
<1>1. call \in [Requests -> Call] /\ call[p] \in Call /\ rows \in [Keys -> Row] /\ returned \subseteq Keys
  BY DEF GuardTypeOK
<1>2. call[p].key \in Keys /\ call[p].payload \in Payloads
  BY DEF CallsOK
<1>3. CASE rows[call[p].key].state = "none"
  <2> DEFINE c == [call[p] EXCEPT !.at = "handler"]
             r == [state |-> "locked", expired |-> FALSE]
  <2>1. /\ c \in Call /\ c.at = "handler" /\ c.key = call[p].key /\ c.payload = call[p].payload
        /\ r \in Row /\ r.state = "locked" /\ ~r.expired
    BY <1>1, <1>2 DEF Call, Row
  <2>2. call' = [call EXCEPT ![p] = c] /\ rows' = [rows EXCEPT ![call[p].key] = r]
    BY <1>3 DEF GoTo
  <2> HIDE DEF c, r
  <2>3. GuardTypeOK'
    BY <1>1, <2>1, <2>2 DEF GuardTypeOK
  <2>4. CallsOK'
    BY <1>1, <1>2, <2>1, <2>2 DEF CallsOK
  <2>5. \A q \in Requests : Active(q) /\ call[q].key = call[p].key => call[p].key \in lapsed
    BY <1>3 DEF Exclusive
  <2>6. call[p].key \in returned => call[p].key \in lapsed
    BY <1>3 DEF Kept
  <2>7. Exclusive'
    <3> SUFFICES ASSUME NEW q \in Requests, call'[q].key \notin lapsed
                 PROVE  /\ call'[q].at # "delete"
                        /\ Active(q)' => /\ rows'[call'[q].key].state = "locked"
                                         /\ \A s \in Requests : Active(s)' /\ call'[s].key = call'[q].key => s = q
                        /\ call'[q].key \in returned => call'[q].at # "handler" /\ call'[q].at # "release"
      BY DEF Exclusive
    <3>1. CASE q = p
      BY <1>1, <1>2, <2>1, <2>2, <2>5, <2>6, <3>1 DEF Active
    <3>2. CASE q # p
      <4>1. call'[q] = call[q] /\ (Active(q) => call[q].key \in Keys /\ call[q].key # call[p].key)
        BY <1>1, <2>2, <2>5, <3>2 DEF CallsOK, Active
      <4> QED
        BY <1>1, <1>2, <2>1, <2>2, <3>2, <4>1 DEF Exclusive, Active
    <3> QED
      BY <3>1, <3>2
  <2>8. Kept' /\ Lapsed'
    BY <1>1, <1>2, <2>1, <2>2 DEF Kept, Lapsed
  <2> QED
    BY <2>3, <2>4, <2>7, <2>8
<1>4. CASE rows[call[p].key].state # "none"
  BY <1>4, LeaveKeeps DEF GuardTypeOK
<1> QED
  BY <1>3, <1>4

LEMMA SucceedKeeps ==
  ASSUME GuardInv, NEW p \in Requests, Succeed(p)
  PROVE  GuardInv'
<1> USE DEF GuardInv, Succeed, In, KeyOf
<1>1. call \in [Requests -> Call] /\ call[p] \in Call /\ rows \in [Keys -> Row] /\ returned \subseteq Keys
  BY DEF GuardTypeOK
<1>2. call[p].key \in Keys /\ call[p].payload \in Payloads
  BY DEF CallsOK
<1> DEFINE c == [call[p] EXCEPT !.at = "complete"]
<1>3. /\ c \in Call /\ c.at = "complete" /\ c.key = call[p].key /\ c.payload = call[p].payload
      /\ call' = [call EXCEPT ![p] = c]
  BY <1>1 DEF Call, GoTo
<1> HIDE DEF c
<1>4. GuardTypeOK' /\ CallsOK'
  BY <1>1, <1>2, <1>3 DEF GuardTypeOK, CallsOK
<1>5. Exclusive'
  BY <1>1, <1>2, <1>3 DEF Exclusive, Active
<1>6. Kept' /\ Lapsed'
  BY <1>1, <1>2 DEF Kept, Lapsed, Exclusive, Active
<1> QED
  BY <1>4, <1>5, <1>6

LEMMA FailKeeps ==
  ASSUME GuardInv, NEW p \in Requests, Fail(p)
  PROVE  GuardInv'
<1> USE DEF GuardInv, Fail, In, KeyOf
<1>1. call \in [Requests -> Call] /\ call[p] \in Call
  BY DEF GuardTypeOK
<1> DEFINE c == [call[p] EXCEPT !.at = "release"]
<1>2. /\ c \in Call /\ c.at = "release" /\ c.key = call[p].key /\ c.payload = call[p].payload
      /\ call' = [call EXCEPT ![p] = c]
  BY <1>1 DEF Call, GoTo
<1> HIDE DEF c
<1>3. GuardTypeOK' /\ CallsOK'
  BY <1>1, <1>2 DEF GuardTypeOK, CallsOK
<1>4. Exclusive'
  BY <1>1, <1>2 DEF Exclusive, Active
<1>5. Kept' /\ Lapsed'
  BY DEF Kept, Lapsed
<1> QED
  BY <1>3, <1>4, <1>5

\* The row is completed or removed, and the request is over.
LEMMA EndKeeps ==
  ASSUME GuardInv, NEW p \in Requests, Complete(p) \/ Release(p)
  PROVE  GuardInv'
<1> USE DEF GuardInv, In, KeyOf
<1>1. call \in [Requests -> Call] /\ rows \in [Keys -> Row] /\ returned \subseteq Keys /\ lapsed \subseteq Keys
  BY DEF GuardTypeOK
<1>2. call[p].key \in Keys /\ Active(p)
  BY DEF CallsOK, Complete, Release, Active
<1>3. /\ call' = [call EXCEPT ![p] = NoCall] /\ returned' = returned /\ lapsed' = lapsed /\ crashes' = crashes
      /\ NoCall \in Call /\ NoCall.at = "idle" /\ NoCall.key = Nothing /\ Nothing \notin Keys
  BY IdempotencyAssumption DEF Complete, Release, Leave, NoCall, Call
<1>4. PICK r \in Row :
        /\ rows' = [rows EXCEPT ![call[p].key] = r]
        /\ call[p].key \in returned \ lapsed => r.state # "none"
        /\ r.expired => rows[call[p].key].expired
  <2> DEFINE k == call[p].key
  <2>1. CASE Complete(p) /\ rows[k].state = "none"
    <3>1. k \notin returned \ lapsed
      BY <2>1 DEF Kept
    <3> QED
      BY <1>1, <1>2, <2>1, <3>1 DEF Complete
  <2>2. CASE Complete(p) /\ rows[k].state # "none"
    <3> DEFINE r == [rows[k] EXCEPT !.state = "completed"]
    <3>1. r \in Row /\ r.state = "completed" /\ r.expired = rows[k].expired /\ rows' = [rows EXCEPT ![k] = r]
      BY <1>1, <1>2, <2>2 DEF Row, Complete
    <3> QED
      BY <3>1
  <2>3. CASE Release(p) /\ rows[k].state = "locked"
    <3>1. NoRow \in Row /\ ~NoRow.expired /\ rows' = [rows EXCEPT ![k] = NoRow]
      BY <2>3 DEF Row, NoRow, Release
    <3>2. k \notin returned \ lapsed
      BY <2>3 DEF Exclusive, Release
    <3> QED
      BY <3>1, <3>2
  <2>4. CASE Release(p) /\ rows[k].state # "locked"
    <3>1. k \notin returned \ lapsed
      BY <2>4 DEF Exclusive, Release
    <3> QED
      BY <1>1, <1>2, <2>4, <3>1 DEF Release
  <2> QED
    BY <2>1, <2>2, <2>3, <2>4
<1>5. GuardTypeOK' /\ CallsOK'
  BY <1>1, <1>2, <1>3, <1>4 DEF GuardTypeOK, CallsOK
<1>6. Exclusive'
  BY <1>1, <1>2, <1>3, <1>4 DEF Exclusive, Active, CallsOK
<1>7. Kept' /\ Lapsed'
  BY <1>1, <1>2, <1>3, <1>4 DEF Kept, Lapsed
<1> QED
  BY <1>5, <1>6, <1>7

LEMMA ExpireKeeps ==
  ASSUME GuardInv, NEW k \in Keys, Expire(k)
  PROVE  GuardInv'
<1> USE DEF GuardInv, Expire, In, KeyOf
<1>1. call \in [Requests -> Call] /\ rows \in [Keys -> Row] /\ lapsed \subseteq Keys
  BY DEF GuardTypeOK
<1> DEFINE r == [rows[k] EXCEPT !.expired = TRUE]
<1>2. r \in Row /\ r.state = rows[k].state /\ rows' = [rows EXCEPT ![k] = r]
  BY <1>1 DEF Row
<1> HIDE DEF r
<1>3. GuardTypeOK' /\ CallsOK'
  BY <1>1, <1>2 DEF GuardTypeOK, CallsOK
<1>4. Exclusive'
  <2>1. \A q \in Requests : Active(q) => call[q].key \in Keys
    BY DEF CallsOK, Active
  <2> QED
    BY <1>1, <1>2, <2>1 DEF Exclusive, Active
<1>5. Kept' /\ Lapsed'
  BY <1>1, <1>2 DEF Kept, Lapsed, GuardTypeOK
<1> QED
  BY <1>3, <1>4, <1>5

\* Whatever the handlers do, the guard keeps what it keeps.
LEMMA GuardKeeps ==
  GuardInv /\ [GuardNext]_guardVars => GuardInv'
<1> SUFFICES ASSUME GuardInv, [GuardNext]_guardVars PROVE GuardInv'
  OBVIOUS
<1>1. CASE UNCHANGED guardVars
  BY <1>1 DEF guardVars, GuardInv, GuardTypeOK, CallsOK, Exclusive, Kept, Lapsed, In, KeyOf, Active
<1>2. ASSUME NEW p \in Requests, NEW k \in Keys, NEW payload \in Payloads, Acquire(p, k, payload)
      PROVE  GuardInv'
  BY <1>2, AcquireKeeps
<1>3. ASSUME NEW p \in Requests, GuardStep(p)
      PROVE  GuardInv'
  BY <1>3, DeleteKeeps, CreateKeeps, EndKeeps DEF GuardStep
<1>4. ASSUME NEW p \in Requests, Succeed(p) \/ Fail(p)
      PROVE  GuardInv'
  BY <1>4, SucceedKeeps, FailKeeps
<1>5. ASSUME NEW p \in Requests, Crash(p)
      PROVE  GuardInv'
  <2>1. crashes' \in 0..Crashes
    BY <1>5, IdempotencyAssumption DEF Crash, GuardInv, GuardTypeOK
  <2> QED
    BY <1>5, <2>1, LeaveKeeps DEF Crash
<1>6. ASSUME NEW k \in Keys, Expire(k)
      PROVE  GuardInv'
  BY <1>6, ExpireKeeps
<1> QED
  BY <1>1, <1>2, <1>3, <1>4, <1>5, <1>6 DEF GuardNext

-----------------------------------------------------------------------------
(* The disputes behind it *)

LEMMA StepIsOfTheGuard ==
  [Next]_vars => [GuardNext]_guardVars
<1> SUFFICES ASSUME [Next]_vars PROVE [GuardNext]_guardVars
  OBVIOUS
<1>1. CASE UNCHANGED vars
  BY <1>1 DEF vars
<1>2. ASSUME NEW p \in Requests, NEW k \in Keys, NEW payload \in Payloads, Acquire(p, k, payload)
      PROVE  GuardNext
  BY <1>2 DEF GuardNext
<1>3. ASSUME NEW p \in Requests, Guard(p)
      PROVE  GuardNext
  BY <1>3 DEF GuardNext, Guard
<1>4. ASSUME NEW p \in Requests, Handle(p)
      PROVE  [GuardNext]_guardVars
  <2>1. Succeed(p) \/ Fail(p) \/ UNCHANGED guardVars
    BY <1>4 DEF Handle, Decide, Refund, Adjust, WriteDecision, RestoreJob, Throw
  <2> QED
    BY <2>1 DEF GuardNext
<1>5. ASSUME NEW p \in Requests, Die(p)
      PROVE  GuardNext
  BY <1>5 DEF GuardNext, Die
<1>6. ASSUME NEW p \in Requests,
             \/ \E actor \in Parties : Open(p, actor)
             \/ CreateDispute(p) \/ MoveJob(p) \/ TakeUp(p) \/ GiveUp(p)
             \/ \E d \in DisputeIds : Reply(p, d)
      PROVE  UNCHANGED guardVars
  BY <1>6 DEF Open, CreateDispute, MoveJob, TakeUp, GiveUp, Reply
<1>7. ASSUME NEW k \in Keys, Expire(k)
      PROVE  GuardNext
  BY <1>7 DEF GuardNext
<1>8. ASSUME ConfirmWork
      PROVE  UNCHANGED guardVars
  BY <1>8 DEF ConfirmWork
<1> QED
  BY <1>1, <1>2, <1>3, <1>4, <1>5, <1>6, <1>7, <1>8 DEF Next

LEMMA GuardHolds ==
  Spec => []GuardInv
<1>1. Init => GuardInv
  BY GuardStarts DEF Init
<1>2. GuardInv /\ [Next]_vars => GuardInv'
  BY GuardKeeps, StepIsOfTheGuard
<1> QED
  BY <1>1, <1>2, PTL DEF Spec

\* The disputes service uses the guard as the guard is specified: whatever its handlers do,
\* a request goes through acquire, one handler and complete or release (intercept).
THEOREM GuardIsImplemented ==
  Spec => GuardSpec
<1>1. Init => GuardInit
  BY DEF Init
<1> QED
  BY <1>1, StepIsOfTheGuard, PTL DEF Spec, GuardSpec

\* Of the requests with a key one at most is in its handler, and none once one has returned,
\* within the 24 hours of the row (acquire): for any number of requests, keys and crashes.
THEOREM KeyRunsOnce ==
  Spec => []OncePerKey
BY GuardHolds, OnceFollows, PTL

\* A request that decides is in its handler; it and the one that replies know their dispute.
HandlersOK ==
  \A p \in Requests :
    /\ work[p].step \in {"refund", "adjust", "write", "restore"} => In(p, "handler")
    /\ work[p].step \in {"review", "refund", "adjust", "write", "restore"} => Of(p) \in DisputeIds

\* What is booked when a decider comes to its next operation.
Refunded(p) == Decision(p).refund > 0 => Decision(p).refund \in refunds[Of(p)]
Adjusted(p) == Decision(p).adjustment # 0 => Decision(p).adjustment \in asked[Of(p)]

BooksFirst ==
  \A p \in Requests :
    /\ Doing(p, "adjust") => Decision(p).adjustment # 0 /\ Refunded(p)
    /\ Doing(p, "write") => Adjusted(p) /\ Refunded(p)

\* What the decision of a dispute asks for was asked of the ledger and of the provider.
DecisionAsked ==
  \A d \in DisputeIds : disputes[d].status = "DECIDED" =>
    /\ disputes[d].decision \in Payloads
    /\ disputes[d].decision.adjustment # 0 => disputes[d].decision.adjustment \in asked[d]
    /\ disputes[d].decision.refund > 0 => disputes[d].decision.refund \in refunds[d]

\* The ledger has one of the adjustments it was asked for, and none when it was asked for none.
LedgerAsked ==
  \A d \in DisputeIds :
    /\ 0 \notin asked[d]
    /\ asked[d] = {} => adjusted[d] = 0
    /\ asked[d] # {} => adjusted[d] \in asked[d]

Records ==
  /\ job \in {"WORK_COMPLETED", "COMPLETED", "DISPUTED"}
  /\ disputes \in [DisputeIds -> Dispute]
  /\ refunded \in 0..Captured
  /\ refunds \in [DisputeIds -> SUBSET Nat]
  /\ adjusted \in [DisputeIds -> Int]
  /\ asked \in [DisputeIds -> SUBSET Int]
  /\ work \in [Requests -> Work]

BookInv == Records /\ HandlersOK /\ BooksFirst /\ DecisionAsked /\ LedgerAsked

LEMMA BooksStart ==
  Init => BookInv
<1> SUFFICES ASSUME Init PROVE BookInv
  OBVIOUS
<1>1. Records
  BY DisputesAssumption DEF Init, Records, Dispute, Work, NoRowYet, NoWork, Steps
<1>2. HandlersOK /\ BooksFirst /\ DecisionAsked /\ LedgerAsked
  BY DEF Init, HandlersOK, BooksFirst, Doing, DecisionAsked, LedgerAsked, NoRowYet, NoWork
<1> QED
  BY <1>1, <1>2 DEF BookInv

\* What only the guard or the job does, while every request that is in its handler stays.
LEMMA OthersKeep ==
  ASSUME BookInv, job' \in {"WORK_COMPLETED", "COMPLETED", "DISPUTED"},
         UNCHANGED <<disputes, refunded, refunds, books, work>>,
         \A p \in Requests : In(p, "handler") => call'[p] = call[p]
  PROVE  BookInv'
BY DEF BookInv, Records, HandlersOK, BooksFirst, DecisionAsked, LedgerAsked, In, Doing, Of, Refunded, Adjusted,
       Decision, books

\* The books grow and a request comes to its next operation.
LEMMA WorkKeeps ==
  ASSUME BookInv, NEW p \in Requests, NEW w \in Work,
         work' = [work EXCEPT ![p] = w],
         disputes' = disputes \/ \E d \in DisputeIds, s \in {"OPEN", "UNDER_REVIEW"} :
                                   disputes' = [disputes EXCEPT ![d].status = s],
         job' \in {"WORK_COMPLETED", "COMPLETED", "DISPUTED"},
         UNCHANGED <<refunded, refunds, books>>,
         \A q \in Requests : q # p => call'[q] = call[q],
         w.step \in {"idle", "create", "move", "review"},
         w.step = "review" => w.dispute \in DisputeIds
  PROVE  BookInv'
<1> USE DEF BookInv
<1>1. work \in [Requests -> Work] /\ disputes \in [DisputeIds -> Dispute]
  BY DEF Records
<1>2. disputes' \in [DisputeIds -> Dispute]
  BY <1>1 DEF Dispute
<1>3. Records'
  BY <1>1, <1>2 DEF Records, books
<1>4. HandlersOK' /\ BooksFirst'
  BY <1>1 DEF HandlersOK, BooksFirst, In, Doing, Of, Refunded, Adjusted, Decision, books
<1>5. DecisionAsked' /\ LedgerAsked'
  <2>1. ASSUME NEW d \in DisputeIds, disputes'[d].status = "DECIDED"
        PROVE  disputes'[d] = disputes[d]
    BY <1>1, <2>1 DEF Dispute
  <2> QED
    BY <2>1 DEF DecisionAsked, LedgerAsked, books
<1> QED
  BY <1>3, <1>4, <1>5

LEMMA PartiesKeep ==
  ASSUME BookInv, NEW p \in Requests,
         \/ \E actor \in Parties : Open(p, actor)
         \/ CreateDispute(p) \/ MoveJob(p) \/ TakeUp(p) \/ GiveUp(p)
         \/ \E d \in DisputeIds : Reply(p, d)
  PROVE  BookInv'
<1>1. work \in [Requests -> Work] /\ work[p] \in Work /\ job \in {"WORK_COMPLETED", "COMPLETED", "DISPUTED"}
  BY DEF BookInv, Records
<1>2. NoWork \in Work /\ NoWork.step = "idle"
  BY DEF NoWork, Work, Steps
<1>3. ASSUME NEW actor \in Parties, Open(p, actor)
      PROVE  BookInv'
  <2> DEFINE w == [NoWork EXCEPT !.step = "create", !.paid = (job = "COMPLETED")]
  <2>1. w \in Work /\ w.step = "create"
    BY DEF NoWork, Work, Steps
  <2> QED
    BY <1>1, <1>3, <2>1, WorkKeeps DEF Open, guardVars
<1>4. CASE CreateDispute(p)
  <2>1. PICK d \in DisputeIds : disputes' = [disputes EXCEPT ![d].status = "OPEN"]
    BY <1>4 DEF CreateDispute
  <2>2. PICK w \in Work : work' = [work EXCEPT ![p] = w] /\ w.step \in {"idle", "move"}
    <3> DEFINE w == [work[p] EXCEPT !.step = "move"]
    <3>1. w \in Work /\ w.step = "move"
      BY <1>1 DEF Work, Steps
    <3> QED
      BY <1>2, <1>4, <3>1 DEF CreateDispute, Proceed, Ends
  <2> QED
    BY <1>1, <1>4, <2>1, <2>2, WorkKeeps DEF CreateDispute, guardVars
<1>5. CASE MoveJob(p)
  <2>1. job' \in {"WORK_COMPLETED", "COMPLETED", "DISPUTED"} /\ work' = [work EXCEPT ![p] = NoWork]
    BY <1>1, <1>5 DEF MoveJob, Ends
  <2> QED
    BY <1>2, <1>5, <2>1, WorkKeeps DEF MoveJob, guardVars
<1>6. CASE TakeUp(p)
  <2>1. Of(p) \in DisputeIds
    BY <1>6 DEF BookInv, HandlersOK, TakeUp, Doing
  <2> QED
    BY <1>1, <1>2, <1>6, <2>1, WorkKeeps DEF TakeUp, Ends, guardVars
<1>7. CASE GiveUp(p)
  BY <1>1, <1>2, <1>7, WorkKeeps DEF GiveUp, Ends, guardVars
<1>8. ASSUME NEW d \in DisputeIds, Reply(p, d)
      PROVE  BookInv'
  <2> DEFINE w == [NoWork EXCEPT !.step = "review", !.dispute = d]
  <2>1. w \in Work /\ w.step = "review" /\ w.dispute = d
    BY DEF NoWork, Work, Steps
  <2> QED
    BY <1>1, <1>8, <2>1, WorkKeeps DEF Reply, guardVars
<1> QED
  BY <1>3, <1>4, <1>5, <1>6, <1>7, <1>8

\* Where a decision goes on to after one of its operations.
LEMMA NextOperation ==
  ASSUME BookInv, NEW p \in Requests, NEW step \in Steps, Proceed(p, step)
  PROVE  \E w \in Work : /\ w.step = step /\ w.dispute = Of(p)
                         /\ work' = [work EXCEPT ![p] = w]
<1>1. work[p] \in Work
  BY DEF BookInv, Records
<1> DEFINE w == [work[p] EXCEPT !.step = step]
<1>2. w \in Work /\ w.step = step /\ w.dispute = Of(p)
  BY <1>1 DEF Work, Of
<1> QED
  BY <1>2 DEF Proceed

LEMMA DecideKeeps ==
  ASSUME BookInv, CallsOK, NEW p \in Requests, NEW d \in DisputeIds, Decide(p, d)
  PROVE  BookInv'
<1>1. call[p].payload \in Payloads /\ In(p, "handler")
  BY DEF Decide, CallsOK, In
<1>2. CASE Live(d)
  <2> DEFINE w == [NoWork EXCEPT !.step = AfterRead(p), !.dispute = d]
  <2>1. AfterRead(p) \in {"refund", "adjust", "write"}
    BY DEF AfterRead, AfterRefund
  <2>2. w \in Work /\ w.step = AfterRead(p) /\ w.dispute = d
    BY <2>1 DEF NoWork, Work, Steps
  <2>3. work' = [work EXCEPT ![p] = w] /\ UNCHANGED <<call, job, disputes, refunded, refunds, books>>
    BY <1>2 DEF Decide, guardVars
  <2>4. /\ AfterRead(p) = "adjust" => Decision(p).adjustment # 0 /\ ~(Decision(p).refund > 0)
        /\ AfterRead(p) = "write" => ~(Decision(p).adjustment # 0) /\ ~(Decision(p).refund > 0)
    BY DEF AfterRead, AfterRefund
  <2> HIDE DEF w
  <2>5. work \in [Requests -> Work]
    BY DEF BookInv, Records
  <2>6. Records'
    BY <2>2, <2>3, <2>5 DEF BookInv, Records, books
  <2>7. HandlersOK'
    BY <1>1, <2>2, <2>3, <2>5 DEF BookInv, HandlersOK, In, Of
  <2>8. BooksFirst'
    BY <2>2, <2>3, <2>4, <2>5 DEF BookInv, BooksFirst, Doing, Of, Refunded, Adjusted, Decision, books
  <2>9. DecisionAsked' /\ LedgerAsked'
    BY <2>3 DEF BookInv, DecisionAsked, LedgerAsked, books
  <2> QED
    BY <2>6, <2>7, <2>8, <2>9 DEF BookInv
<1>3. CASE ~Live(d)
  <2>1. Doing(p, "idle") /\ UNCHANGED <<work, job, disputes, refunded, refunds, books>> /\ call' = [call EXCEPT ![p].at = "release"]
    BY <1>3 DEF Decide, Fail, GoTo
  <2> QED
    BY <2>1 DEF BookInv, Records, HandlersOK, BooksFirst, DecisionAsked, LedgerAsked, In, Doing, Of, Refunded,
            Adjusted, Decision, books
<1> QED
  BY <1>2, <1>3

LEMMA RefundKeeps ==
  ASSUME BookInv, CallsOK, NEW p \in Requests, Refund(p)
  PROVE  BookInv'
<1>1. In(p, "handler") /\ Of(p) \in DisputeIds
  BY DEF Refund, BookInv, HandlersOK, Doing
<1>2. call[p].payload \in [refund : Nat, adjustment : Int]
  BY <1>1, DisputesAssumption DEF CallsOK, In
<1>3. AfterRefund(p) \in Steps /\ AfterRefund(p) \in {"adjust", "write"}
      /\ (AfterRefund(p) = "adjust" <=> Decision(p).adjustment # 0)
  BY DEF AfterRefund, Steps
<1>4. PICK w \in Work : /\ w.step = AfterRefund(p) /\ w.dispute = Of(p)
                        /\ work' = [work EXCEPT ![p] = w]
  BY <1>3, NextOperation DEF Refund
<1>5. /\ refunds' = [refunds EXCEPT ![Of(p)] = @ \cup {Decision(p).refund}]
      /\ refunded' \in {refunded, refunded + Decision(p).refund}
  BY DEF Refund
<1>6. UNCHANGED <<call, job, disputes, adjusted, asked>>
  BY DEF Refund, guardVars, books
<1>7. /\ work \in [Requests -> Work] /\ refunds \in [DisputeIds -> SUBSET Nat]
      /\ refunded \in 0..Captured
  BY DEF BookInv, Records
<1>8. refunded' \in 0..Captured
  BY <1>2, <1>5, <1>7, DisputesAssumption DEF Refund, Decision
<1>9. /\ refunds' \in [DisputeIds -> SUBSET Nat] /\ Decision(p).refund \in refunds'[Of(p)]
      /\ \A d \in DisputeIds : refunds[d] \subseteq refunds'[d]
  BY <1>1, <1>2, <1>5, <1>7 DEF Decision
<1>10. Records'
  BY <1>4, <1>6, <1>7, <1>8, <1>9 DEF BookInv, Records
<1>11. HandlersOK'
  BY <1>1, <1>3, <1>4, <1>6, <1>7 DEF BookInv, HandlersOK, In, Of
<1>12. BooksFirst'
  <2> SUFFICES ASSUME NEW q \in Requests
               PROVE  /\ Doing(q, "adjust")' => Decision(q)'.adjustment # 0 /\ Refunded(q)'
                      /\ Doing(q, "write")' => Adjusted(q)' /\ Refunded(q)'
    BY DEF BooksFirst
  <2>1. CASE q = p
    BY <1>3, <1>4, <1>6, <1>7, <1>9, <2>1 DEF Doing, Of, Refunded, Adjusted, Decision
  <2>2. CASE q # p
    <3>1. work'[q] = work[q]
      BY <1>4, <1>7, <2>2
    <3>2. Doing(q, "adjust") \/ Doing(q, "write") => Of(q) \in DisputeIds
      BY DEF BookInv, HandlersOK, Doing
    <3> QED
      BY <1>6, <1>9, <3>1, <3>2 DEF BookInv, BooksFirst, Doing, Of, Refunded, Adjusted, Decision
  <2> QED
    BY <2>1, <2>2
<1>13. DecisionAsked' /\ LedgerAsked'
  BY <1>6, <1>9 DEF BookInv, DecisionAsked, LedgerAsked
<1> QED
  BY <1>10, <1>11, <1>12, <1>13 DEF BookInv

LEMMA AdjustKeeps ==
  ASSUME BookInv, CallsOK, NEW p \in Requests, Adjust(p)
  PROVE  BookInv'
<1>1. In(p, "handler") /\ Of(p) \in DisputeIds /\ Decision(p).adjustment # 0 /\ Refunded(p)
  BY DEF Adjust, BookInv, HandlersOK, BooksFirst, Doing
<1>2. Decision(p).adjustment \in Int
  BY <1>1, DisputesAssumption DEF CallsOK, In, Decision
<1>3. PICK w \in Work : /\ w.step = "write" /\ w.dispute = Of(p)
                        /\ work' = [work EXCEPT ![p] = w]
  BY NextOperation DEF Adjust, Steps
<1>4. UNCHANGED <<call, job, disputes, refunded, refunds>>
  BY DEF Adjust, guardVars
<1>5. /\ work \in [Requests -> Work] /\ adjusted \in [DisputeIds -> Int]
      /\ asked \in [DisputeIds -> SUBSET Int]
  BY DEF BookInv, Records
<1>6. /\ asked' = [asked EXCEPT ![Of(p)] = @ \cup {Decision(p).adjustment}]
      /\ adjusted' = IF adjusted[Of(p)] = 0
                       THEN [adjusted EXCEPT ![Of(p)] = Decision(p).adjustment] ELSE adjusted
  BY DEF Adjust
<1>11. /\ adjusted' \in [DisputeIds -> Int] /\ asked' \in [DisputeIds -> SUBSET Int]
       /\ Decision(p).adjustment \in asked'[Of(p)]
       /\ \A d \in DisputeIds : asked[d] \subseteq asked'[d]
  BY <1>1, <1>2, <1>5, <1>6
<1>12. LedgerAsked'
  <2> SUFFICES ASSUME NEW d \in DisputeIds
               PROVE  /\ 0 \notin asked'[d]
                      /\ asked'[d] = {} => adjusted'[d] = 0
                      /\ asked'[d] # {} => adjusted'[d] \in asked'[d]
    BY DEF LedgerAsked
  <2>1. /\ 0 \notin asked[d]
        /\ asked[d] = {} => adjusted[d] = 0
        /\ asked[d] # {} => adjusted[d] \in asked[d]
    BY DEF BookInv, LedgerAsked
  <2>2. CASE d = Of(p)
    <3>1. asked'[d] = asked[d] \cup {Decision(p).adjustment}
      BY <1>5, <1>6, <2>2
    <3>2. adjusted'[d] = IF adjusted[d] = 0 THEN Decision(p).adjustment ELSE adjusted[d]
      BY <1>5, <1>6, <2>2
    <3> QED
      BY <1>1, <2>1, <3>1, <3>2
  <2>3. CASE d # Of(p)
    BY <1>5, <1>6, <2>1, <2>3
  <2> QED
    BY <2>2, <2>3
<1>7. Records'
  BY <1>3, <1>4, <1>5, <1>11 DEF BookInv, Records
<1>8. HandlersOK'
  BY <1>1, <1>3, <1>4, <1>5 DEF BookInv, HandlersOK, In, Of
<1>9. BooksFirst'
  <2> SUFFICES ASSUME NEW q \in Requests
               PROVE  /\ Doing(q, "adjust")' => Decision(q)'.adjustment # 0 /\ Refunded(q)'
                      /\ Doing(q, "write")' => Adjusted(q)' /\ Refunded(q)'
    BY DEF BooksFirst
  <2>1. CASE q = p
    BY <1>1, <1>3, <1>4, <1>5, <1>11, <2>1 DEF Doing, Of, Refunded, Adjusted, Decision
  <2>2. CASE q # p
    <3>1. work'[q] = work[q]
      BY <1>3, <1>5, <2>2
    <3>2. Doing(q, "adjust") \/ Doing(q, "write") => Of(q) \in DisputeIds
      BY DEF BookInv, HandlersOK, Doing
    <3> QED
      BY <1>4, <1>11, <3>1, <3>2 DEF BookInv, BooksFirst, Doing, Of, Refunded, Adjusted, Decision
  <2> QED
    BY <2>1, <2>2
<1>10. DecisionAsked'
  BY <1>4, <1>11 DEF BookInv, DecisionAsked
<1> QED
  BY <1>7, <1>8, <1>9, <1>10, <1>12 DEF BookInv

LEMMA WriteKeeps ==
  ASSUME BookInv, CallsOK, NEW p \in Requests, WriteDecision(p)
  PROVE  BookInv'
<1>1. In(p, "handler") /\ Of(p) \in DisputeIds /\ Adjusted(p) /\ Refunded(p)
  BY DEF WriteDecision, BookInv, HandlersOK, BooksFirst, Doing
<1>2. Decision(p) \in Payloads
  BY <1>1 DEF CallsOK, In, Decision
<1>3. PICK w \in Work : /\ w.step = "restore" /\ w.dispute = Of(p)
                        /\ work' = [work EXCEPT ![p] = w]
  BY NextOperation DEF WriteDecision, Steps
<1>4. UNCHANGED <<call, job, refunded, refunds, adjusted, asked>>
  BY DEF WriteDecision, guardVars, books
<1>5. work \in [Requests -> Work] /\ disputes \in [DisputeIds -> Dispute]
  BY DEF BookInv, Records
<1>6. /\ disputes' \in [DisputeIds -> Dispute]
      /\ disputes' = [disputes EXCEPT ![Of(p)] = [status |-> "DECIDED", decision |-> Decision(p)]]
  BY <1>2, <1>5 DEF WriteDecision, Dispute
<1>7. Records'
  BY <1>3, <1>4, <1>5, <1>6 DEF BookInv, Records
<1>8. HandlersOK'
  BY <1>1, <1>3, <1>4, <1>5 DEF BookInv, HandlersOK, In, Of
<1>9. BooksFirst'
  BY <1>3, <1>4, <1>5 DEF BookInv, BooksFirst, Doing, Of, Refunded, Adjusted, Decision
<1>10. DecisionAsked' /\ LedgerAsked'
  BY <1>1, <1>2, <1>4, <1>5, <1>6 DEF BookInv, DecisionAsked, LedgerAsked, Refunded, Adjusted
<1> QED
  BY <1>7, <1>8, <1>9, <1>10 DEF BookInv

\* The request ends, in its response, in an error or with its process.
LEMMA FinishKeeps ==
  ASSUME BookInv, GuardTypeOK, NEW p \in Requests, RestoreJob(p) \/ Throw(p) \/ Die(p)
  PROVE  BookInv'
<1>1. NoWork \in Work /\ NoWork.step = "idle" /\ work' = [work EXCEPT ![p] = NoWork]
  BY DEF NoWork, Work, Steps, RestoreJob, Throw, Die, Ends
<1>2. \A q \in Requests : q # p => call'[q] = call[q]
  BY DEF GuardTypeOK, RestoreJob, Throw, Die, Succeed, Fail, Crash, GoTo, Leave
<1>3. job' \in {"WORK_COMPLETED", "COMPLETED", "DISPUTED"}
  BY DEF BookInv, Records, RestoreJob, Throw, Die
<1>4. UNCHANGED <<disputes, refunded, refunds, books>>
  BY DEF RestoreJob, Throw, Die
<1> QED
  BY <1>1, <1>2, <1>3, <1>4, WorkKeeps

LEMMA BooksKeep ==
  BookInv /\ GuardInv /\ [Next]_vars => BookInv'
<1> SUFFICES ASSUME BookInv, CallsOK, GuardTypeOK, [Next]_vars PROVE BookInv'
  BY DEF GuardInv
<1> USE DEF In
<1>0. job \in {"WORK_COMPLETED", "COMPLETED", "DISPUTED"}
  BY DEF BookInv, Records
<1>1. CASE UNCHANGED vars
  BY <1>0, <1>1, OthersKeep DEF vars, guardVars
<1>2. ASSUME NEW p \in Requests, NEW k \in Keys, NEW payload \in Payloads,
             Acquire(p, k, payload), UNCHANGED <<job, disputes, refunded, refunds, books, work>>
      PROVE  BookInv'
  BY <1>0, <1>2, OthersKeep DEF Acquire
<1>3. ASSUME NEW p \in Requests, Guard(p)
      PROVE  BookInv'
  <2>1. \A q \in Requests : In(q, "handler") => call'[q] = call[q]
    BY <1>3 DEF GuardTypeOK, Guard, GuardStep, DeleteExpired, CreateKey, Complete, Release, GoTo, Leave
  <2> QED
    BY <1>0, <1>3, <2>1, OthersKeep DEF Guard
<1>4. ASSUME NEW p \in Requests, Handle(p)
      PROVE  BookInv'
  BY <1>4, DecideKeeps, RefundKeeps, AdjustKeeps, WriteKeeps, FinishKeeps DEF Handle
<1>5. ASSUME NEW p \in Requests, Die(p)
      PROVE  BookInv'
  BY <1>5, FinishKeeps
<1>6. ASSUME NEW p \in Requests,
             \/ \E actor \in Parties : Open(p, actor)
             \/ CreateDispute(p) \/ MoveJob(p) \/ TakeUp(p) \/ GiveUp(p)
             \/ \E d \in DisputeIds : Reply(p, d)
      PROVE  BookInv'
  BY <1>6, PartiesKeep
<1>7. ASSUME NEW k \in Keys, Expire(k), UNCHANGED <<job, disputes, refunded, refunds, books, work>>
      PROVE  BookInv'
  BY <1>0, <1>7, OthersKeep DEF Expire
<1>8. CASE ConfirmWork
  BY <1>8, OthersKeep DEF ConfirmWork, guardVars
<1> QED
  BY <1>1, <1>2, <1>3, <1>4, <1>5, <1>6, <1>7, <1>8 DEF Next

\* The adjustment of a decided dispute is the one in the ledger, unless a decision with another
\* was sent there too, and a refund of the amount it names was paid or refused by the provider
\* (decide), for any number of deciders, amounts, retries, deaths and disputes.
THEOREM DecidedIsBooked ==
  Spec => []DecisionIsBooked
<1>1. BookInv => DecisionIsBooked
  <2> SUFFICES ASSUME BookInv, NEW d \in DisputeIds, disputes[d].status = "DECIDED"
               PROVE  /\ asked[d] \subseteq {disputes[d].decision.adjustment}
                           => adjusted[d] = disputes[d].decision.adjustment
                      /\ disputes[d].decision.refund > 0
                           => disputes[d].decision.refund \in refunds[d]
    BY DEF DecisionIsBooked
  <2> QED
    BY DEF BookInv, DecisionAsked, LedgerAsked
<1> QED
  BY <1>1, GuardHolds, BooksStart, BooksKeep, PTL DEF Spec

\* Every variable keeps its type; what was refunded stays within what was captured.
THEOREM TypeCorrect ==
  Spec => []TypeOK
<1>1. BookInv /\ GuardInv => TypeOK
  BY DEF BookInv, Records, GuardInv, TypeOK
<1> QED
  BY <1>1, GuardHolds, BooksStart, BooksKeep, PTL DEF Spec
=============================================================================
