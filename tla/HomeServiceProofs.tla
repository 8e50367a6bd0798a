-------------------------- MODULE HomeServiceProofs --------------------------
(***************************************************************************)
(* What holds of a home-service job for any categories, any requests and   *)
(* workers and any number of quotes and crashes: the quotes stay in order, *)
(* and a job is closed, priced and counted once.                           *)
(***************************************************************************)
EXTENDS HomeService, SequenceTheorems, TLAPS

-----------------------------------------------------------------------------
(* The table.                                                                *)

Ended == {"COMPLETED", "DISPUTED"}

\* From a job that has ended the table leads to the other end, and never for SYSTEM.
LEMMA MovesFromEnded ==
  ASSUME NEW to, NEW actor, status \in Ended, May(to, actor)
  PROVE  to \in Ended /\ actor # SYSTEM /\ to # status
<1> DEFINE move == <<status, to, "HOME_SERVICE", actor>>
<1>1. move \notin DispatchMoves
  BY DEF Ended, DispatchMoves
<1>2. move \notin MovementMoves
  BY DEF Ended, MovementMoves
<1>3. move \notin HomeMoves
  BY DEF Ended, HomeMoves
<1>4. move \notin CancelMoves
  BY DEF Ended, CancelMoves
<1>5. move \in DisputeMoves
  BY <1>1, <1>2, <1>3, <1>4 DEF May, CanMove, JOB_TRANSITIONS
<1> QED
  BY <1>5 DEF DisputeMoves, Ended, SYSTEM, CUSTOMER, PARTNER, ADMIN

-----------------------------------------------------------------------------
(* Quotes.                                                                   *)

\* A function on 1..n with quotes for values is a sequence of n quotes.
LEMMA QuotesOf ==
  ASSUME NEW n \in Nat, NEW f \in [1..n -> Quote]
  PROVE  f \in Seq(Quote) /\ Len(f) = n /\ \A i \in 1..n : f[i] \in Quote
OBVIOUS

\* The quotes are a function on their revisions.
LEMMA QuotesFun ==
  ASSUME quotes \in Seq(Quote)
  PROVE  Last \in Nat /\ quotes \in [1..Last -> Quote] /\ DOMAIN quotes = 1..Last
BY LenProperties DEF Last

\* After a new quote is submitted it is the only one that waits.
LEMMA SubmittedAlone ==
  ASSUME quotes \in Seq(Quote), NEW kind \in {"INITIAL", "CHANGE_ORDER"}
  PROVE  LET qs == Append(Superseded, Submitted(kind))
         IN  /\ qs \in Seq(Quote)
             /\ Len(qs) = Last + 1
             /\ \A n \in 1..Len(qs) : qs[n].status = "SUBMITTED" => n = Len(qs)
<1> DEFINE qs == Append(Superseded, Submitted(kind))
<1>1. Last \in Nat /\ quotes \in [1..Last -> Quote]
  BY QuotesFun
<1>2. \A q \in Quote : [q EXCEPT !.status = "SUPERSEDED"] \in Quote
  BY DEF Quote, QuoteStatuses
<1>3. Superseded \in [1..Last -> Quote]
  BY <1>1, <1>2 DEF Superseded
<1>4. \A n \in 1..Last : Superseded[n].status # "SUBMITTED"
  BY <1>1 DEF Superseded, Quote
<1>5. Superseded \in Seq(Quote) /\ Len(Superseded) = Last
  BY <1>1, <1>3, QuotesOf
<1>6. Submitted(kind) \in Quote
  BY DEF Submitted, Quote, QuoteStatuses
<1> HIDE DEF Superseded, Submitted, Last
<1>7. /\ qs \in Seq(Quote) /\ Len(qs) = Last + 1
      /\ \A n \in 1..Last : qs[n] = Superseded[n]
  BY <1>1, <1>5, <1>6, AppendProperties
<1>8. \A n \in 1..Len(qs) : qs[n].status = "SUBMITTED" => n = Len(qs)
  BY <1>1, <1>4, <1>7
<1> QED
  BY <1>7, <1>8

\* Answering a quote keeps the sequence and leaves no new quote waiting.
LEMMA AnsweredKeeps ==
  ASSUME quotes \in Seq(Quote), NEW n \in 1..Last, NEW answer \in Answers
  PROVE  /\ Answered(n, answer) \in Seq(Quote)
         /\ Len(Answered(n, answer)) = Last
         /\ \A m \in 1..Last : Answered(n, answer)[m].status = "SUBMITTED"
                                 => quotes[m].status = "SUBMITTED"
<1> DEFINE r == [[quotes[n] EXCEPT !.status = answer] EXCEPT !.agreed = (answer = "APPROVED")]
<1>1. Last \in Nat /\ quotes \in [1..Last -> Quote]
  BY QuotesFun
<1>2. r \in Quote /\ r.status = answer
  BY <1>1 DEF Quote, QuoteStatuses, Answers
<1>3. Answered(n, answer) = [quotes EXCEPT ![n] = r]
  BY <1>1 DEF Answered, Quote
<1> HIDE DEF r, Last
<1>4. Answered(n, answer) \in [1..Last -> Quote]
  BY <1>1, <1>2, <1>3
<1>5. \A m \in 1..Last : Answered(n, answer)[m] = IF m = n THEN r ELSE quotes[m]
  BY <1>1, <1>3
<1> QED
  BY <1>1, <1>2, <1>4, <1>5, QuotesOf DEF Answers

\* So does superseding the quotes approved before.
LEMMA OthersSupersededKeeps ==
  ASSUME NEW qs \in Seq(Quote), NEW n
  PROVE  /\ OthersSuperseded(n, qs) \in Seq(Quote)
         /\ Len(OthersSuperseded(n, qs)) = Len(qs)
         /\ \A m \in 1..Len(qs) : OthersSuperseded(n, qs)[m].status = "SUBMITTED"
                                    => qs[m].status = "SUBMITTED"
<1>1. Len(qs) \in Nat /\ qs \in [1..Len(qs) -> Quote] /\ DOMAIN qs = 1..Len(qs)
  BY LenProperties
<1>2. \A q \in Quote : /\ [q EXCEPT !.status = "SUPERSEDED"] \in Quote
                       /\ [q EXCEPT !.status = "SUPERSEDED"].status = "SUPERSEDED"
  BY DEF Quote, QuoteStatuses
<1>3. OthersSuperseded(n, qs) \in [1..Len(qs) -> Quote]
  BY <1>1, <1>2 DEF OthersSuperseded
<1>4. \A m \in 1..Len(qs) : OthersSuperseded(n, qs)[m].status = "SUBMITTED"
                              => qs[m].status = "SUBMITTED"
  BY <1>1, <1>2 DEF OthersSuperseded
<1> QED
  BY <1>1, <1>3, <1>4, QuotesOf

-----------------------------------------------------------------------------
(* Typing and the order of the quotes.                                       *)

QuoteSteps == {"timer", "decide", "untimer", "reject", "close"}

\* A handler that works on a quote has one that exists, and so does a fare.
HandlerOK(a, last) ==
  /\ a.step \in QuoteSteps => a.entry \in 1..last
  /\ a.fare \in 0..last

HandlersOK == \A p \in Procs : HandlerOK(act[p], Last)

Ordered == TypeOK /\ HandlersOK /\ OnePending

\* The number of quotes is a natural number within the bound.
LEMMA LastNat == TypeOK => Last \in Nat /\ Last <= MaxQuotes /\ 0..Last \subseteq 0..MaxQuotes
<1> SUFFICES ASSUME TypeOK PROVE Last \in Nat /\ Last <= MaxQuotes /\ 0..Last \subseteq 0..MaxQuotes
  OBVIOUS
<1>1. Last \in Nat /\ Last <= MaxQuotes
  BY QuotesFun DEF TypeOK
<1> QED
  BY <1>1, HomeServiceAssumption

\* The initial state satisfies it.
LEMMA InitOrdered == Init => Ordered
<1> SUFFICES ASSUME Init PROVE Ordered
  OBVIOUS
<1>1. quotes \in Seq(Quote) /\ Last = 0
  BY EmptySeq DEF Init, Last
<1>2. Idle \in Act /\ Idle.step = "idle" /\ Idle.fare = 0
  BY HomeServiceAssumption DEF Idle, Act, Steps, Answers
<1>3. TypeOK
  BY <1>1, <1>2, HomeServiceAssumption DEF Init, TypeOK, Statuses
<1>4. HandlersOK
  BY <1>1, <1>2 DEF Init, HandlersOK, HandlerOK, QuoteSteps
<1>5. OnePending
  BY <1>1 DEF OnePending
<1> QED
  BY <1>3, <1>4, <1>5 DEF Ordered

\* A step of process p to state a keeps the order when it keeps the number of quotes, lets
\* none wait that did not, and types what it writes.
LEMMA OrderedStep ==
  ASSUME Ordered, NEW p \in Procs, NEW a \in Act, act' = [act EXCEPT ![p] = a],
         quotes' \in Seq(Quote), Len(quotes') = Last,
         \A n \in 1..Last : quotes'[n].status = "SUBMITTED" => quotes[n].status = "SUBMITTED",
         UNCHANGED category, status' \in Statuses,
         fresh' \subseteq fresh \cup {p}, p \in fresh' => p \in Requests /\ a.step = "decide",
         queue' \subseteq 0..Last, fare' \subseteq 0..Last, completions' \in Nat,
         busy' \in BOOLEAN, crashes' \in 0..Crashes, HandlerOK(a, Last)
  PROVE  Ordered'
<1>1. Last' = Last
  BY DEF Last
<1>2. act \in [Procs -> Act] /\ act'[p] = a /\ \A q \in Procs \ {p} : act'[q] = act[q]
  BY DEF Ordered, TypeOK
<1>3. act' \in [Procs -> Act]
  BY <1>2
<1>4. fresh' \subseteq {q \in Requests : At(q, "decide")'}
  <2> SUFFICES ASSUME NEW q \in fresh' PROVE q \in Requests /\ act'[q].step = "decide"
    BY DEF At
  <2>1. CASE q = p
    BY <2>1, <1>2
  <2>2. CASE q # p
    <3>1. q \in Requests /\ act[q].step = "decide" /\ q \in Procs
      BY <2>2 DEF Ordered, TypeOK, At, Procs
    <3> QED
      BY <3>1, <2>2, <1>2
  <2> QED
    BY <2>1, <2>2
<1>5. TypeOK'
  BY <1>1, <1>3, <1>4 DEF Ordered, TypeOK
<1>6. HandlersOK'
  BY <1>1, <1>2 DEF Ordered, HandlersOK
<1>7. OnePending'
  BY <1>1 DEF Ordered, OnePending
<1> QED
  BY <1>5, <1>6, <1>7 DEF Ordered

\* A step that leaves the quotes and, but for a status of the table, the job's row alone.
LEMMA PlainStep ==
  ASSUME Ordered, NEW p \in Procs, NEW a \in Act, act' = [act EXCEPT ![p] = a],
         UNCHANGED <<category, quotes, fare, completions, crashes>>,
         busy' \in {busy, FALSE},
         \/ UNCHANGED <<status, fresh>> /\ (act[p].step = "decide" => p \notin fresh)
         \/ status' \in Statuses /\ fresh' = {},
         queue' \subseteq 0..Last, HandlerOK(a, Last)
  PROVE  Ordered'
<1>1. /\ status \in Statuses /\ fresh \subseteq {q \in Requests : At(q, "decide")}
      /\ quotes \in Seq(Quote) /\ fare \subseteq 0..Last /\ completions \in Nat
      /\ busy \in BOOLEAN /\ crashes \in 0..Crashes
  BY DEF Ordered, TypeOK
<1>2. status' \in Statuses /\ fresh' \subseteq fresh /\ p \notin fresh'
  BY <1>1 DEF At
<1>3. Len(quotes') = Last
  BY DEF Last
<1> QED
  BY <1>1, <1>2, <1>3, OrderedStep

\* What a process that goes on or goes idle has in hand is typed.
LEMMA HandlerTyped ==
  ASSUME Ordered, NEW p \in Procs
  PROVE  /\ act \in [Procs -> Act] /\ act[p] \in Act /\ HandlerOK(act[p], Last)
         /\ act = [act EXCEPT ![p] = act[p]]
         /\ Idle \in Act /\ HandlerOK(Idle, Last) /\ Idle.step = "idle"
         /\ queue \subseteq 0..Last
<1>1. Idle \in Act /\ Idle.step = "idle" /\ Idle.fare = 0
  BY HomeServiceAssumption DEF Idle, Act, Steps, Answers
<1>2. 0 \in 0..Last
  BY LastNat DEF Ordered
<1> QED
  BY <1>1, <1>2 DEF Ordered, TypeOK, HandlersOK, HandlerOK, QuoteSteps

\* Going to a step that works on no quote, or on the one in hand.
LEMMA GotoTyped ==
  ASSUME Ordered, NEW p \in Procs, NEW step \in Steps, Goto(p, step),
         step \in QuoteSteps => act[p].step \in QuoteSteps
  PROVE  \E a \in Act : act' = [act EXCEPT ![p] = a] /\ HandlerOK(a, Last) /\ a.step = step
<1> DEFINE a == [act[p] EXCEPT !.step = step]
<1>1. a \in Act /\ a.step = step /\ a.entry = act[p].entry /\ a.fare = act[p].fare
  BY HandlerTyped DEF Act
<1>2. act' = [act EXCEPT ![p] = a]
  BY DEF Goto
<1>3. HandlerOK(a, Last)
  BY <1>1, HandlerTyped DEF HandlerOK
<1> QED
  BY <1>1, <1>2, <1>3

\* Beginning to work on a quote that exists.
LEMMA DoTyped ==
  ASSUME Ordered, NEW p \in Procs, NEW step \in Steps, NEW last \in 0..MaxQuotes,
         NEW entry \in 1..last, Do(p, step, entry)
  PROVE  \E a \in Act : act' = [act EXCEPT ![p] = a] /\ HandlerOK(a, last) /\ a.step = step
<1> DEFINE a == [Idle EXCEPT !.step = step, !.entry = entry]
<1>1. entry \in 0..MaxQuotes /\ 0 \in 0..last
  BY HomeServiceAssumption
<1>2. a \in Act /\ a.step = step /\ a.entry = entry /\ a.fare = 0
  BY <1>1, HandlerTyped DEF Act, Idle
<1>3. act' = [act EXCEPT ![p] = a]
  BY DEF Do
<1>4. HandlerOK(a, last)
  BY <1>1, <1>2 DEF HandlerOK
<1> QED
  BY <1>2, <1>3, <1>4

\* A transition of the row by a request that keeps at what it does.
LEMMA TransitionOrdered ==
  ASSUME Ordered, NEW p \in Procs, NEW to \in Statuses, NEW actor, Transition(to, actor),
         UNCHANGED <<category, quotes, queue, fare, completions, busy, act, crashes>>
  PROVE  Ordered'
BY HandlerTyped, PlainStep DEF Transition

\* A transition of the row by a request that then goes on.
LEMMA TransitionGoto ==
  ASSUME Ordered, NEW p \in Procs, NEW to \in Statuses, NEW actor, Transition(to, actor),
         NEW step \in Steps \ QuoteSteps, Goto(p, step),
         UNCHANGED <<category, quotes, queue, fare, completions, busy, crashes>>
  PROVE  Ordered'
<1>1. PICK a \in Act : act' = [act EXCEPT ![p] = a] /\ HandlerOK(a, Last)
  BY GotoTyped
<1> QED
  BY <1>1, HandlerTyped, PlainStep DEF Transition

\* A handler that ends, having moved the row or not.
LEMMA DoneOrdered ==
  ASSUME Ordered, NEW p \in Procs, Done(p),
         UNCHANGED <<category, quotes, fare, completions, crashes>>, busy' \in {busy, FALSE},
         \/ UNCHANGED <<status, fresh>> /\ (act[p].step = "decide" => p \notin fresh)
         \/ status' \in Statuses /\ fresh' = {},
         queue' \subseteq 0..Last
  PROVE  Ordered'
<1>1. act' = [act EXCEPT ![p] = Idle] /\ Idle \in Act /\ HandlerOK(Idle, Last)
  BY HandlerTyped DEF Done
<1> QED
  BY <1>1, PlainStep

\* A confirmation, by whoever gives it.
LEMMA ConfirmOrdered == ASSUME Ordered, NEW p \in Procs, NEW actor, Confirm(p, actor) PROVE Ordered'
<1> DEFINE a == [act[p] EXCEPT !.step = "fare", !.fare = FareNow]
<1>1. FareNow \in 0..Last /\ FareNow \in 0..MaxQuotes
  BY LastNat DEF FareNow, InspectionOnly, Ordered
<1>2. a \in Act /\ a.step = "fare" /\ a.fare = FareNow
  BY <1>1, HandlerTyped DEF Act, Steps
<1>3. act' = [act EXCEPT ![p] = a]
  BY HandlerTyped DEF Confirm
<1>4. HandlerOK(a, Last)
  BY <1>1, <1>2 DEF HandlerOK, QuoteSteps
<1>5. /\ status' = "CUSTOMER_CONFIRMED" /\ fresh' = {}
      /\ UNCHANGED <<category, quotes, queue, fare, completions, busy, crashes>>
  BY DEF Confirm, Transition
<1> HIDE DEF a
<1> QED
  BY <1>2, <1>3, <1>4, <1>5, HandlerTyped, PlainStep DEF Statuses

\* Requests that begin keep the quotes in order.
LEMMA PartnerOrdered == ASSUME Ordered, NEW p \in Requests, PartnerStep(p) PROVE Ordered'
<1> p \in Procs
  BY DEF Procs
<1>1. CASE Start(p)
  BY <1>1, TransitionGoto DEF Start, Statuses, Steps, QuoteSteps
<1>2. CASE SubmitQuote(p)
  <2>1. /\ Last \in Nat /\ Last < MaxQuotes /\ quotes \in Seq(Quote)
        /\ status' = "QUOTE_SUBMITTED" /\ fresh' = {}
        /\ quotes' = Append(Superseded, Submitted(KindNow))
        /\ Do(p, "timer", Last + 1)
        /\ UNCHANGED <<category, queue, fare, completions, busy, crashes>>
    BY <1>2, LastNat DEF SubmitQuote, Transition, NextRevision, Ordered, TypeOK
  <2>2. KindNow \in {"INITIAL", "CHANGE_ORDER"}
    BY DEF KindNow
  <2>3. /\ quotes' \in Seq(Quote) /\ Last' = Last + 1
        /\ \A n \in 1..Last' : quotes'[n].status = "SUBMITTED" => n = Last'
    BY <2>1, <2>2, SubmittedAlone DEF Last
  <2>4. Last + 1 \in 0..MaxQuotes /\ Last + 1 \in 1..(Last + 1) /\ "timer" \in Steps
    BY <2>1, HomeServiceAssumption DEF Steps
  <2>5. PICK a \in Act : act' = [act EXCEPT ![p] = a] /\ HandlerOK(a, Last + 1)
    BY <2>1, <2>4, DoTyped
  <2>6. act \in [Procs -> Act] /\ act' \in [Procs -> Act]
    BY <2>5, HandlerTyped
  <2>7. 0..Last \subseteq 0..(Last + 1) /\ 1..Last \subseteq 1..(Last + 1)
    BY <2>1
  <2>8. TypeOK'
    BY <2>1, <2>3, <2>4, <2>6, <2>7 DEF Ordered, TypeOK, Statuses
  <2>9. HandlersOK'
    BY <2>3, <2>5, <2>6, <2>7 DEF Ordered, HandlersOK, HandlerOK
  <2> QED
    BY <2>3, <2>8, <2>9 DEF Ordered, OnePending
<1>3. CASE StartWork(p)
  BY <1>3, TransitionOrdered DEF StartWork, Statuses
<1>4. CASE WaitForParts(p)
  BY <1>4, TransitionOrdered DEF WaitForParts, Statuses
<1>5. CASE ResumeWork(p)
  BY <1>5, TransitionOrdered DEF ResumeWork, Statuses
<1>6. CASE CompleteWork(p)
  <2>1. "await" \in Steps \ QuoteSteps /\ "auto" \in Steps \ QuoteSteps
    BY DEF Steps, QuoteSteps
  <2>2. PICK step \in Steps \ QuoteSteps : Goto(p, step)
    BY <1>6, <2>1 DEF CompleteWork
  <2> QED
    BY <1>6, <2>2, TransitionGoto DEF CompleteWork, Statuses
<1> QED
  BY <1>1, <1>2, <1>3, <1>4, <1>5, <1>6 DEF PartnerStep

\* So do the requests of the customer and of staff.
LEMMA CustomerOrdered == ASSUME Ordered, NEW p \in Requests, CustomerStep(p) PROVE Ordered'
<1> p \in Procs
  BY DEF Procs
<1>1. ASSUME NEW answer \in Answers, ReadQuote(p, answer) PROVE Ordered'
  <2>1. PICK n \in 1..Last :
          act' = [act EXCEPT ![p] = [Idle EXCEPT !.step = "decide", !.entry = n, !.answer = answer]]
    BY <1>1 DEF ReadQuote
  <2> DEFINE a == [Idle EXCEPT !.step = "decide", !.entry = n, !.answer = answer]
  <2>2. n \in 0..MaxQuotes /\ 0 \in 0..Last
    BY LastNat DEF Ordered
  <2>3. a \in Act /\ a.step = "decide" /\ a.entry = n /\ a.fare = 0
    BY <2>2, HandlerTyped DEF Act, Idle, Steps
  <2>4. HandlerOK(a, Last)
    BY <2>2, <2>3 DEF HandlerOK
  <2>5. /\ fresh' = fresh \cup {p}
        /\ UNCHANGED <<category, status, quotes, queue, fare, completions, busy, crashes>>
    BY <1>1 DEF ReadQuote
  <2>6. /\ status \in Statuses /\ quotes \in Seq(Quote) /\ queue \subseteq 0..Last
        /\ fare \subseteq 0..Last /\ completions \in Nat /\ busy \in BOOLEAN
        /\ crashes \in 0..Crashes
    BY DEF Ordered, TypeOK
  <2>7. Len(quotes') = Last
    BY <2>5 DEF Last
  <2> HIDE DEF a
  <2> QED
    BY <2>1, <2>3, <2>4, <2>5, <2>6, <2>7, OrderedStep DEF a
<1>2. ASSUME NEW actor, CloseInspectionOnly(p, actor) PROVE Ordered'
  <2>1. /\ status' = "COMPLETED" /\ fresh' = {} /\ fare' = {0}
        /\ UNCHANGED <<category, quotes, queue, completions, busy, act, crashes>>
    BY <1>2 DEF CloseInspectionOnly, Transition, InspectionOnly
  <2>2. /\ quotes \in Seq(Quote) /\ queue \subseteq 0..Last /\ completions \in Nat
        /\ busy \in BOOLEAN /\ crashes \in 0..Crashes /\ fare' \subseteq 0..Last
    BY <2>1, LastNat DEF Ordered, TypeOK
  <2>3. Len(quotes') = Last
    BY <2>1 DEF Last
  <2>4. act' = [act EXCEPT ![p] = act[p]] /\ act[p] \in Act /\ HandlerOK(act[p], Last)
    BY <2>1, HandlerTyped
  <2> QED
    BY <2>1, <2>2, <2>3, <2>4, OrderedStep DEF Statuses
<1>3. ASSUME NEW actor, Cancel(p, actor) PROVE Ordered'
  BY <1>3, TransitionGoto DEF Cancel, Statuses, Steps, QuoteSteps
<1>4. ASSUME NEW to \in AdminTargets, AdminTransition(p, to) PROVE Ordered'
  BY <1>4, TransitionOrdered DEF AdminTransition, AdminTargets, Statuses
<1>5. CASE ConfirmWork(p)
  BY <1>5, ConfirmOrdered DEF ConfirmWork
<1>6. CASE Dispute(p)
  BY <1>6, TransitionOrdered DEF Dispute, Statuses
<1> QED
  BY <1>1, <1>2, <1>3, <1>4, <1>5, <1>6 DEF CustomerStep

\* Handlers that go on keep the quotes in order.
LEMMA ContinueOrdered == ASSUME Ordered, NEW p \in Procs, Continue(p) PROVE Ordered'
<1>1. CASE SkipInspection(p)
  <2>1. SkipTo[1] \in Statuses
    BY DEF SkipTo, Statuses
  <2> QED
    BY <1>1, <2>1, HandlerTyped, DoneOrdered DEF SkipInspection, Transition, At
<1>2. CASE AddTimeout(p)
  <2>1. act[p].entry \in 1..Last
    BY <1>2, HandlerTyped DEF AddTimeout, At, HandlerOK, QuoteSteps
  <2>2. queue' \subseteq 0..Last
    BY <1>2, <2>1, HandlerTyped, LastNat DEF AddTimeout, Ordered
  <2> QED
    BY <1>2, <2>2, DoneOrdered DEF AddTimeout, At
<1>3. CASE Await(p)
  <2>1. queue' \subseteq 0..Last
    BY <1>3, HandlerTyped, LastNat DEF Await, AutoConfirm, Ordered
  <2> QED
    BY <1>3, <2>1, DoneOrdered DEF Await, At
<1>4. ASSUME NEW actor, Decide(p, actor) PROVE Ordered'
  <2> DEFINE n == act[p].entry  answer == act[p].answer
  <2>1. n \in 1..Last /\ answer \in Answers /\ Last \in 0..MaxQuotes
    BY <1>4, HandlerTyped, LastNat DEF Decide, At, HandlerOK, QuoteSteps, Act, Ordered
  <2>2. quotes' \in {OthersSuperseded(n, Answered(n, answer)), Answered(n, answer)}
    BY <1>4 DEF Decide
  <2>3. quotes \in Seq(Quote)
    BY DEF Ordered, TypeOK
  <2>4. /\ Answered(n, answer) \in Seq(Quote) /\ Len(Answered(n, answer)) = Last
        /\ \A m \in 1..Last : Answered(n, answer)[m].status = "SUBMITTED"
                                => quotes[m].status = "SUBMITTED"
    BY <2>1, <2>3, AnsweredKeeps
  <2>5. /\ quotes' \in Seq(Quote) /\ Len(quotes') = Last
        /\ \A m \in 1..Last : quotes'[m].status = "SUBMITTED" => quotes[m].status = "SUBMITTED"
    BY <2>2, <2>4, OthersSupersededKeeps
  <2>6. status' \in Statuses /\ fresh' = {} /\ Do(p, "untimer", n)
        /\ UNCHANGED <<category, queue, fare, completions, busy, crashes>>
    BY <1>4 DEF Decide, Statuses
  <2>7. PICK a \in Act : act' = [act EXCEPT ![p] = a] /\ HandlerOK(a, Last)
    BY <2>1, <2>6, DoTyped DEF Steps
  <2>8. /\ queue \subseteq 0..Last /\ fare \subseteq 0..Last /\ completions \in Nat
        /\ busy \in BOOLEAN /\ crashes \in 0..Crashes
    BY DEF Ordered, TypeOK
  <2> QED
    BY <2>5, <2>6, <2>7, <2>8, OrderedStep
<1>5. CASE DecideRefused(p)
  BY <1>5, HandlerTyped, DoneOrdered DEF DecideRefused
<1>6. CASE RemoveTimeout(p)
  <2>1. queue' \subseteq 0..Last
    BY <1>6, HandlerTyped DEF RemoveTimeout
  <2> QED
    BY <1>6, <2>1, DoneOrdered DEF RemoveTimeout, At
<1>7. CASE AutomaticConfirmation(p)
  <2>1. CASE Confirm(p, SYSTEM)
    BY <2>1, ConfirmOrdered
  <2>2. CASE Done(p) /\ UNCHANGED <<category, status, fresh, quotes, queue, fare, completions,
                                   busy, crashes>>
    BY <1>7, <2>2, HandlerTyped, DoneOrdered DEF AutomaticConfirmation
  <2> QED
    BY <1>7, <2>1, <2>2 DEF AutomaticConfirmation
<1>8. CASE Complete(p)
  <2>1. UNCHANGED <<category, quotes, queue, completions, busy, crashes>> /\ act[p].step = "fare"
    BY <1>8 DEF Complete, At
  <2>2. ASSUME Transition("COMPLETED", SYSTEM), fare' = {act[p].fare}, Goto(p, "count")
        PROVE  Ordered'
    <3>1. PICK a \in Act : act' = [act EXCEPT ![p] = a] /\ HandlerOK(a, Last)
      BY <2>2, GotoTyped DEF Steps, QuoteSteps
    <3>2. /\ quotes \in Seq(Quote) /\ queue \subseteq 0..Last /\ completions \in Nat
          /\ busy \in BOOLEAN /\ crashes \in 0..Crashes
      BY DEF Ordered, TypeOK
    <3>3. fare' \subseteq 0..Last
      BY <2>2, HandlerTyped DEF HandlerOK
    <3>4. Len(quotes') = Last
      BY <2>1 DEF Last
    <3>5. status' \in Statuses /\ fresh' = {}
      BY <2>2 DEF Transition, Statuses
    <3> QED
      BY <2>1, <3>1, <3>2, <3>3, <3>4, <3>5, OrderedStep
  <2>3. CASE Done(p) /\ UNCHANGED <<status, fresh, fare>>
    BY <2>1, <2>3, HandlerTyped, DoneOrdered
  <2> QED
    BY <1>8, <2>2, <2>3 DEF Complete
<1>9. CASE Count(p)
  <2>1. PICK a \in Act : act' = [act EXCEPT ![p] = a] /\ HandlerOK(a, Last)
    BY <1>9, GotoTyped DEF Count, Steps, QuoteSteps
  <2>2. /\ quotes \in Seq(Quote) /\ queue \subseteq 0..Last /\ completions' \in Nat
        /\ busy \in BOOLEAN /\ crashes \in 0..Crashes /\ fare \subseteq 0..Last
        /\ status \in Statuses
    BY <1>9 DEF Ordered, TypeOK, Count
  <2>3. UNCHANGED <<category, status, fresh, quotes, queue, fare, busy, crashes>>
    BY <1>9 DEF Count
  <2>4. Len(quotes') = Last /\ p \notin fresh
    BY <1>9 DEF Last, Count, At, Ordered, TypeOK
  <2> QED
    BY <2>1, <2>2, <2>3, <2>4, OrderedStep
<1>10. CASE Free(p)
  <2>1. queue' \subseteq 0..Last
    BY <1>10, HandlerTyped DEF Free, Returned
  <2> QED
    BY <1>10, <2>1, DoneOrdered DEF Free, At
<1>11. CASE RejectQuote(p)
  <2> DEFINE n == act[p].entry  r == [quotes[n] EXCEPT !.status = "REJECTED"]
  <2>1. n \in 1..Last
    BY <1>11, HandlerTyped DEF RejectQuote, At, HandlerOK, QuoteSteps
  <2>2. Last \in Nat /\ quotes \in [1..Last -> Quote]
    BY QuotesFun DEF Ordered, TypeOK
  <2>3. r \in Quote /\ r.status = "REJECTED"
    BY <2>1, <2>2 DEF Quote, QuoteStatuses
  <2>4. quotes' = [quotes EXCEPT ![n] = r]
    BY <1>11, <2>1, <2>2 DEF RejectQuote
  <2>5. /\ quotes' \in [1..Last -> Quote]
        /\ \A m \in 1..Last : quotes'[m] = IF m = n THEN r ELSE quotes[m]
    BY <2>1, <2>2, <2>3, <2>4
  <2>6. /\ quotes' \in Seq(Quote) /\ Len(quotes') = Last
        /\ \A m \in 1..Last : quotes'[m].status = "SUBMITTED" => quotes[m].status = "SUBMITTED"
    BY <2>2, <2>3, <2>5, QuotesOf
  <2>7. PICK a \in Act : act' = [act EXCEPT ![p] = a] /\ HandlerOK(a, Last)
    BY <1>11, GotoTyped DEF RejectQuote, At, Steps, QuoteSteps
  <2>8. /\ UNCHANGED <<category, status, fresh, queue, fare, completions, busy, crashes>>
        /\ act[p].step = "reject"
    BY <1>11 DEF RejectQuote, At
  <2>9. /\ queue \subseteq 0..Last /\ fare \subseteq 0..Last /\ completions \in Nat
        /\ busy \in BOOLEAN /\ crashes \in 0..Crashes /\ status \in Statuses /\ p \notin fresh
    BY <2>8 DEF Ordered, TypeOK, At
  <2> QED
    BY <2>6, <2>7, <2>8, <2>9, OrderedStep
<1>12. CASE CloseJob(p)
  <2>1. queue' \subseteq 0..Last
    BY <1>12, HandlerTyped DEF CloseJob, Returned
  <2>2. \/ UNCHANGED <<status, fresh>>
        \/ status' \in Statuses /\ fresh' = {}
    BY <1>12 DEF CloseJob, Transition, Statuses
  <2> QED
    BY <1>12, <2>1, <2>2, DoneOrdered DEF CloseJob, At
<1> QED
  BY <1>1, <1>2, <1>3, <1>4, <1>5, <1>6, <1>7, <1>8, <1>9, <1>10, <1>11, <1>12 DEF Continue

\* A step that takes an entry from the queue, or drops it.
LEMMA ServeOrdered == ASSUME Ordered, NEW w \in Workers, Serve(w) PROVE Ordered'
<1> w \in Procs
  BY DEF Procs
<1>1. ASSUME NEW e, Drop(e) PROVE Ordered'
  <2>1. /\ UNCHANGED <<category, status, fresh, quotes, fare, completions, busy, act, crashes>>
        /\ queue' \subseteq 0..Last
    BY <1>1, HandlerTyped DEF Drop
  <2> QED
    BY <2>1, LastNat DEF Ordered, TypeOK, HandlersOK, OnePending, Last, At
<1>2. ASSUME act[w].step = "idle", Goto(w, "autoconfirm"),
             UNCHANGED <<category, status, fresh, quotes, queue, fare, completions, busy, crashes>>
      PROVE  Ordered'
  <2>1. PICK a \in Act : act' = [act EXCEPT ![w] = a] /\ HandlerOK(a, Last)
    BY <1>2, GotoTyped DEF Steps, QuoteSteps
  <2> QED
    BY <1>2, <2>1, HandlerTyped, PlainStep
<1>3. ASSUME NEW n \in 1..Last, act[w].step = "idle", Do(w, "reject", n),
             UNCHANGED <<category, status, fresh, quotes, queue, fare, completions, busy, crashes>>
      PROVE  Ordered'
  <2>1. Last \in 0..MaxQuotes
    BY LastNat DEF Ordered
  <2>2. PICK a \in Act : act' = [act EXCEPT ![w] = a] /\ HandlerOK(a, Last)
    BY <1>3, <2>1, DoTyped DEF Steps
  <2> QED
    BY <1>3, <2>2, HandlerTyped, PlainStep
<1> QED
  BY <1>1, <1>2, <1>3 DEF Serve, OnAutoConfirm, OnTimeout, Takes, At

\* A process that dies.
LEMMA CrashOrdered == ASSUME Ordered, NEW p \in Procs, Crash(p) PROVE Ordered'
<1>1. /\ act' = [act EXCEPT ![p] = Idle] /\ Idle \in Act /\ HandlerOK(Idle, Last)
      /\ fresh' = fresh \ {p}
      /\ UNCHANGED <<category, status, quotes, queue, fare, completions, busy>>
  BY HandlerTyped DEF Crash, Done
<1>2. /\ quotes \in Seq(Quote) /\ queue \subseteq 0..Last /\ fare \subseteq 0..Last
      /\ completions \in Nat /\ busy \in BOOLEAN /\ status \in Statuses
  BY DEF Ordered, TypeOK
<1>3. crashes' \in 0..Crashes
  BY HomeServiceAssumption DEF Ordered, TypeOK, Crash
<1>4. Len(quotes') = Last
  BY <1>1 DEF Last
<1> QED
  BY <1>1, <1>2, <1>3, <1>4, OrderedStep

\* Every step keeps types and order.
LEMMA NextOrdered == Ordered /\ [Next]_vars => Ordered'
<1> SUFFICES ASSUME Ordered, [Next]_vars PROVE Ordered'
  OBVIOUS
<1>1. CASE UNCHANGED vars
  BY <1>1 DEF vars, Ordered, TypeOK, HandlersOK, OnePending, Last, At
<1> QED
  BY <1>1, PartnerOrdered, CustomerOrdered, ContinueOrdered, CrashOrdered, ServeOrdered DEF Next

-----------------------------------------------------------------------------
(* Closing a job.                                                            *)

\* A fare is only there once the job has ended, and a job that has ended is not closed again:
\* one handler at a time is about to count it, and only if it is not counted.
Closing ==
  /\ fare # {} => status \in Ended
  /\ \A p \in Procs : act[p].step = "count" => fare # {} /\ completions = 0
  /\ \A p, q \in Procs : act[p].step = "count" /\ act[q].step = "count" => p = q
  /\ completions \in {0, 1}
  /\ completions = 1 => fare # {}
  /\ completions = 1 /\ busy => crashes > 0 \/ \E p \in Procs : act[p].step = "free"

Inv == Ordered /\ Closing

\* Process p goes to a step, and the others stay where they are.
Goes(p, step) == act'[p].step = step /\ \A q \in Procs \ {p} : act'[q] = act[q]

\* What the ways to go on do to the steps.
LEMMA Going ==
  ASSUME TypeOK, NEW p \in Procs
  PROVE  /\ \A step \in Steps : Goto(p, step) => Goes(p, step)
         /\ \A step \in Steps : \A e : Do(p, step, e) => Goes(p, step)
         /\ Done(p) => Goes(p, "idle")
         /\ UNCHANGED act => Goes(p, act[p].step)
<1> act \in [Procs -> Act] /\ act[p] \in Act
  BY DEF TypeOK
<1>1. ASSUME NEW step \in Steps, Goto(p, step) PROVE Goes(p, step)
  BY <1>1 DEF Goto, Goes, Act
<1>2. ASSUME NEW step \in Steps, NEW e, Do(p, step, e) PROVE Goes(p, step)
  BY <1>2 DEF Do, Goes, Idle
<1>3. Done(p) => Goes(p, "idle")
  BY DEF Done, Goes, Idle
<1> QED
  BY <1>1, <1>2, <1>3 DEF Goes

\* The table never takes a job back from its end.
LEMMA StaysEnded ==
  ASSUME NEW to, NEW actor, Transition(to, actor), status \in Ended
  PROVE  status' \in Ended /\ actor # SYSTEM /\ to \in Ended /\ to # status
BY MovesFromEnded DEF Transition

\* A step that neither prices, counts nor frees keeps the invariant.
LEMMA QuietStep ==
  ASSUME TypeOK, Closing, NEW p \in Procs, NEW step, Goes(p, step), step # "count",
         act[p].step # "free" \/ ~busy' \/ crashes' > 0,
         UNCHANGED <<fare, completions>>, busy' => busy,
         crashes' \in Nat, crashes' >= crashes,
         status \in Ended => status' \in Ended
  PROVE  Closing'
<1>0. crashes \in Nat
  BY HomeServiceAssumption DEF TypeOK
<1>1. \A q \in Procs : act'[q].step = "count" => act[q].step = "count"
  BY DEF Goes
<1>2. ASSUME busy' PROVE crashes' > 0 \/ \A q \in Procs : act[q].step = "free" => act'[q].step = "free"
  BY <1>2 DEF Goes
<1>4. completions' = 1 /\ busy' => crashes' > 0 \/ \E q \in Procs : act'[q].step = "free"
  BY <1>0, <1>2 DEF Closing
<1>5. \A q \in Procs : act'[q].step = "count" => fare' # {} /\ completions' = 0
  BY <1>1 DEF Closing
<1>6. \A q, r \in Procs : act'[q].step = "count" /\ act'[r].step = "count" => q = r
  BY <1>1 DEF Closing
<1>7. (fare' # {} => status' \in Ended) /\ completions' \in {0, 1} /\ (completions' = 1 => fare' # {})
  BY DEF Closing
<1> QED
  BY <1>4, <1>5, <1>6, <1>7 DEF Closing

\* In particular one that leaves the money, the partner and the crashes alone.
LEMMA SilentStep ==
  ASSUME TypeOK, Closing, NEW p \in Procs, NEW step, Goes(p, step), step # "count",
         act[p].step # "free", UNCHANGED <<fare, completions, busy, crashes>>,
         status \in Ended => status' \in Ended
  PROVE  Closing'
<1>1. crashes \in Nat
  BY HomeServiceAssumption DEF TypeOK
<1> QED
  BY <1>1, QuietStep

\* Requests that begin keep it.
LEMMA PartnerClosing == ASSUME Inv, NEW p \in Requests, PartnerStep(p) PROVE Closing'
<1> /\ p \in Procs /\ TypeOK /\ Closing
  BY DEF Procs, Inv, Ordered
<1> /\ "skip" \in Steps /\ "timer" \in Steps /\ "await" \in Steps /\ "auto" \in Steps
  BY DEF Steps
<1>1. CASE Start(p)
  BY <1>1, Going, StaysEnded, SilentStep DEF Start, At
<1>2. CASE SubmitQuote(p)
  BY <1>2, Going, StaysEnded, SilentStep DEF SubmitQuote, At
<1>3. CASE StartWork(p)
  BY <1>3, Going, StaysEnded, SilentStep DEF StartWork, At
<1>4. CASE WaitForParts(p)
  BY <1>4, Going, StaysEnded, SilentStep DEF WaitForParts, At
<1>5. CASE ResumeWork(p)
  BY <1>5, Going, StaysEnded, SilentStep DEF ResumeWork, At
<1>6. CASE CompleteWork(p)
  BY <1>6, Going, StaysEnded, SilentStep DEF CompleteWork, At
<1> QED
  BY <1>1, <1>2, <1>3, <1>4, <1>5, <1>6 DEF PartnerStep

\* A confirmation keeps it: the fare is computed when the job is complete.
LEMMA ConfirmClosing ==
  ASSUME TypeOK, Closing, NEW p \in Procs, NEW actor, Confirm(p, actor), act[p].step # "free"
  PROVE  Closing'
<1>1. Goes(p, "fare")
  BY DEF Confirm, Goes, TypeOK, Act
<1>2. status \in Ended => status' \in Ended
  BY StaysEnded DEF Confirm
<1> QED
  BY <1>1, <1>2, SilentStep DEF Confirm

\* So do the requests of the customer and of staff: a job closed after a rejected quote had
\* no fare, and is not counted.
LEMMA CustomerClosing == ASSUME Inv, NEW p \in Requests, CustomerStep(p) PROVE Closing'
<1> /\ p \in Procs /\ TypeOK /\ Closing
  BY DEF Procs, Inv, Ordered
<1> "decide" \in Steps /\ "free" \in Steps
  BY DEF Steps
<1>1. ASSUME NEW answer \in Answers, ReadQuote(p, answer) PROVE Closing'
  <2>1. Goes(p, "decide") /\ act[p].step = "idle"
    BY <1>1 DEF ReadQuote, Goes, TypeOK, Idle, At
  <2> QED
    BY <1>1, <2>1, SilentStep DEF ReadQuote
<1>2. ASSUME NEW actor, CloseInspectionOnly(p, actor) PROVE Closing'
  <2>1. fare = {} /\ fare' # {} /\ status' = "COMPLETED" /\ UNCHANGED <<completions, busy, act, crashes>>
    BY <1>2 DEF CloseInspectionOnly, Transition, Closing, Ended
  <2> QED
    BY <2>1 DEF Closing, Ended
<1>3. ASSUME NEW actor, Cancel(p, actor) PROVE Closing'
  BY <1>3, Going, StaysEnded, SilentStep DEF Cancel, At
<1>4. ASSUME NEW to \in AdminTargets, AdminTransition(p, to) PROVE Closing'
  BY <1>4, Going, StaysEnded, SilentStep DEF AdminTransition, At
<1>5. CASE ConfirmWork(p)
  BY <1>5, ConfirmClosing DEF ConfirmWork, At
<1>6. CASE Dispute(p)
  BY <1>6, Going, StaysEnded, SilentStep DEF Dispute, At
<1> QED
  BY <1>1, <1>2, <1>3, <1>4, <1>5, <1>6 DEF CustomerStep

\* Completing a job prices it for the first time; counting it is then left to this handler.
LEMMA CompleteClosing ==
  ASSUME TypeOK, Closing, NEW p \in Procs, act[p].step = "fare", Transition("COMPLETED", SYSTEM),
         fare' = {act[p].fare}, Goto(p, "count"), UNCHANGED <<completions, busy, crashes>>
  PROVE  Closing'
<1>1. status \notin Ended
  BY StaysEnded
<1>2. fare = {} /\ completions = 0 /\ \A q \in Procs : act[q].step # "count"
  BY <1>1 DEF Closing
<1>3. Goes(p, "count")
  BY Going DEF Steps
<1>4. fare' # {} /\ status' \in Ended /\ completions' = 0
  BY <1>2 DEF Transition, Ended
<1>5. \A q \in Procs : act'[q].step = "count" => q = p
  BY <1>2, <1>3 DEF Goes
<1> QED
  BY <1>4, <1>5 DEF Closing

\* Handlers that go on keep it.
LEMMA ContinueClosing == ASSUME Inv, NEW p \in Procs, Continue(p) PROVE Closing'
<1> TypeOK /\ Closing
  BY DEF Inv, Ordered
<1> "untimer" \in Steps /\ "free" \in Steps /\ "close" \in Steps
  BY DEF Steps
<1>1. CASE SkipInspection(p)
  BY <1>1, Going, StaysEnded, SilentStep DEF SkipInspection, At
<1>2. CASE AddTimeout(p)
  BY <1>2, Going, SilentStep DEF AddTimeout, At
<1>3. CASE Await(p)
  BY <1>3, Going, SilentStep DEF Await, At
<1>4. ASSUME NEW actor, Decide(p, actor) PROVE Closing'
  <2>1. status \notin Ended
    BY <1>4, MovesFromEnded DEF Decide, Ended
  <2> QED
    BY <1>4, <2>1, Going, SilentStep DEF Decide, At
<1>5. CASE DecideRefused(p)
  BY <1>5, Going, SilentStep DEF DecideRefused, At
<1>6. CASE RemoveTimeout(p)
  BY <1>6, Going, SilentStep DEF RemoveTimeout, At
<1>7. CASE AutomaticConfirmation(p)
  <2>1. act[p].step # "free"
    BY <1>7 DEF AutomaticConfirmation
  <2>2. CASE Confirm(p, SYSTEM)
    BY <2>1, <2>2, ConfirmClosing
  <2>3. CASE Done(p) /\ UNCHANGED <<status, fare, completions, busy, crashes>>
    BY <2>1, <2>3, Going, SilentStep
  <2> QED
    BY <1>7, <2>2, <2>3 DEF AutomaticConfirmation
<1>8. CASE Complete(p)
  <2>1. CASE Done(p) /\ UNCHANGED <<status, fare>>
    BY <1>8, <2>1, Going, SilentStep DEF Complete, At
  <2> QED
    BY <1>8, <2>1, CompleteClosing DEF Complete, At
<1>9. CASE Count(p)
  <2>1. /\ Goes(p, "free") /\ act[p].step = "count"
        /\ completions' = completions + 1
        /\ UNCHANGED <<status, fare, busy, crashes>>
    BY <1>9, Going DEF Count, At
  <2>2. fare # {} /\ completions' = 1 /\ \A q \in Procs : q # p => act[q].step # "count"
    BY <2>1 DEF Closing
  <2>3. \A q \in Procs : act'[q].step # "count"
    BY <2>1, <2>2 DEF Goes
  <2>4. act'[p].step = "free"
    BY <2>1 DEF Goes
  <2> QED
    BY <2>1, <2>2, <2>3, <2>4 DEF Closing
<1>10. CASE Free(p)
  <2>1. crashes \in Nat
    BY HomeServiceAssumption DEF TypeOK
  <2> QED
    BY <1>10, <2>1, Going, QuietStep DEF Free
<1>11. CASE RejectQuote(p)
  BY <1>11, Going, SilentStep DEF RejectQuote, At
<1>12. CASE CloseJob(p)
  BY <1>12, Going, StaysEnded, SilentStep DEF CloseJob, At
<1> QED
  BY <1>1, <1>2, <1>3, <1>4, <1>5, <1>6, <1>7, <1>8, <1>9, <1>10, <1>11, <1>12 DEF Continue

\* Every step keeps it.
LEMMA NextClosing == Inv /\ [Next]_vars => Closing'
<1> SUFFICES ASSUME Inv, [Next]_vars PROVE Closing'
  OBVIOUS
<1> TypeOK /\ Closing
  BY DEF Inv, Ordered
<1>1. ASSUME NEW w \in Workers, Serve(w) PROVE Closing'
  <2> w \in Procs /\ "autoconfirm" \in Steps /\ "reject" \in Steps
    BY DEF Procs, Steps
  <2>1. ASSUME NEW e, Drop(e) PROVE Closing'
    BY <2>1 DEF Drop, Closing
  <2>2. CASE OnAutoConfirm(w)
    BY <2>1, <2>2, Going, SilentStep DEF OnAutoConfirm, Takes, At
  <2>3. ASSUME NEW n \in 1..Last, OnTimeout(w, n) PROVE Closing'
    BY <2>1, <2>3, Going, SilentStep DEF OnTimeout, Takes, At
  <2> QED
    BY <1>1, <2>2, <2>3 DEF Serve
<1>2. ASSUME NEW p \in Procs, Crash(p) PROVE Closing'
  <2>1. crashes \in Nat /\ crashes' = crashes + 1
    BY <1>2, HomeServiceAssumption DEF TypeOK, Crash
  <2> QED
    BY <1>2, <2>1, Going, QuietStep DEF Crash
<1>3. CASE UNCHANGED vars
  BY <1>3 DEF vars, Closing
<1> QED
  BY <1>1, <1>2, <1>3, PartnerClosing, CustomerClosing, ContinueClosing DEF Next

\* The invariant holds in every state the specification reaches.
LEMMA Invariant == Spec => []Inv
<1>1. Init => Closing
  BY DEF Init, Closing, Idle
<1>2. Init => Inv
  BY <1>1, InitOrdered DEF Inv
<1>3. Inv /\ [Next]_vars => Inv'
  BY NextOrdered, NextClosing DEF Inv
<1> QED
  BY <1>2, <1>3, PTL DEF Spec

-----------------------------------------------------------------------------
(* The theorems.                                                             *)

\* Every queue entry, every handler and the fare speak of a quote that exists.
THEOREM TypeCorrect == Spec => []TypeOK
<1>1. Inv => TypeOK
  BY DEF Inv, Ordered
<1> QED
  BY <1>1, Invariant, PTL

\* At most one quote of a job waits for an answer, and it is the latest (submit).
THEOREM OnlyLatestPending == Spec => []OnePending
<1>1. Inv => OnePending
  BY DEF Inv, Ordered
<1> QED
  BY <1>1, Invariant, PTL

\* A job is counted once, however many of the customer, the timer, the end of the work and
\* staff are closing it; it then has a fare, has ended, and its partner is freed.
THEOREM AlwaysCountedOnce == Spec => []CountedOnce
<1>1. Inv => CountedOnce
  BY DEF Inv, Closing, CountedOnce, Ended, At
<1> QED
  BY <1>1, Invariant, PTL

\* The final fare is computed once, and no later quote replaces what it was computed from.
THEOREM FareAlwaysStands == Spec => FareStands
<1>1. ASSUME Inv, [Next]_vars, fare # {} PROVE fare' = fare /\ Len(quotes') = Last
  <2>1. status \in Ended /\ TypeOK
    BY <1>1 DEF Inv, Closing, Ordered
  <2>2. \A p \in Procs, answer \in Answers : act[p].entry \in 1..Last =>
          /\ Len(Answered(act[p].entry, answer)) = Last
          /\ Len(OthersSuperseded(act[p].entry, Answered(act[p].entry, answer))) = Last
    BY <2>1, AnsweredKeeps, OthersSupersededKeeps DEF TypeOK
  <2>3. ASSUME NEW p \in Requests, PartnerStep(p) PROVE fare' = fare /\ Len(quotes') = Last
    <3>1. ~SubmitQuote(p)
      BY <2>1, StaysEnded DEF SubmitQuote, Ended
    <3> QED
      BY <2>3, <3>1 DEF PartnerStep, Start, StartWork, WaitForParts, ResumeWork, CompleteWork, Last
  <2>4. ASSUME NEW p \in Requests, CustomerStep(p) PROVE fare' = fare /\ Len(quotes') = Last
    <3>1. \A actor : ~CloseInspectionOnly(p, actor)
      BY <2>1 DEF CloseInspectionOnly, Ended
    <3> QED
      BY <2>4, <3>1 DEF CustomerStep, ReadQuote, Cancel, AdminTransition, ConfirmWork, Confirm,
                        Dispute, Last
  <2>5. ASSUME NEW p \in Procs, Continue(p) PROVE fare' = fare /\ Len(quotes') = Last
    <3>1. \A actor : ~Decide(p, actor)
      BY <2>1, MovesFromEnded DEF Decide, Ended
    <3>2. ~Transition("COMPLETED", SYSTEM)
      BY <2>1, StaysEnded
    <3>3. CASE RejectQuote(p)
      <4>1. DOMAIN quotes' = DOMAIN quotes /\ quotes \in Seq(Quote)
        BY <2>1, <3>3 DEF RejectQuote, TypeOK
      <4>2. quotes' \in Seq(Quote)
        BY <1>1, NextOrdered DEF Inv, Ordered, TypeOK
      <4>3. Len(quotes') = Last
        BY <4>1, <4>2, LenProperties DEF Last
      <4> QED
        BY <3>3, <4>3 DEF RejectQuote
    <3> QED
      BY <2>5, <3>1, <3>2, <3>3 DEF Continue, SkipInspection, AddTimeout, Await, DecideRefused,
             RemoveTimeout, AutomaticConfirmation, Confirm, Complete, Count, Free, CloseJob, Last
  <2>6. ASSUME NEW p \in Procs, Crash(p) PROVE fare' = fare /\ Len(quotes') = Last
    BY <2>6 DEF Crash, Last
  <2>7. ASSUME NEW w \in Workers, Serve(w) PROVE fare' = fare /\ Len(quotes') = Last
    BY <2>7 DEF Serve, OnAutoConfirm, OnTimeout, Drop, Last
  <2>8. CASE UNCHANGED vars
    BY <2>8 DEF vars, Last
  <2> QED
    BY <1>1, <2>3, <2>4, <2>5, <2>6, <2>7, <2>8 DEF Next
<1>2. Inv /\ [Next]_vars => [fare # {} => fare' = fare /\ Len(quotes') = Last]_vars
  BY <1>1
<1> QED
  BY <1>2, Invariant, PTL DEF Spec, FareStands
=============================================================================
