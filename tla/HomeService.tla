---------------------------- MODULE HomeService ----------------------------
(***************************************************************************)
(* One home-service job from the partner's arrival to its end: the start,  *)
(* the work and the confirmation in job-lifecycle.service.ts, the quotes   *)
(* in quotes.service.ts and their two delayed entries in the jobs queue.   *)
(* A request that carries the job's version changes the job only if nobody *)
(* changed it since the request read it, so such a request is one step;    *)
(* what a handler does without the version is a step of its own.  The      *)
(* version itself is kept as the set of handlers that know the current one.*)
(***************************************************************************)
EXTENDS JobStates, Integers, Sequences

CONSTANTS
  Categories,     \* workflowConfig of the categories offered
  Requests,       \* HTTP requests in flight
  Workers,        \* workers of the jobs queue
  MaxQuotes,      \* bound: revisions of the quote
  Crashes         \* bound: processes that die

ASSUME HomeServiceAssumption ==
  /\ Categories \subseteq [quote : BOOLEAN, confirmation : BOOLEAN]
  /\ MaxQuotes \in Nat
  /\ Crashes \in Nat
  /\ Requests \cap Workers = {}

VARIABLES
  category,       \* does it require a quote, the customer's confirmation?
  status,         \* of the job
  fresh,          \* the handlers that have read the row as it is: its version
  quotes,         \* service_quotes, by revision
  queue,          \* entries of the jobs queue
  fare,           \* what finalTotalMinor was computed from: {} before it is set
  completions,    \* how often the completed-jobs counters went up
  busy,           \* the partner's currentJobId is this job
  act,            \* what each request and each worker is doing
  crashes

vars == <<category, status, fresh, quotes, queue, fare, completions, busy, act, crashes>>

Procs == Requests \cup Workers
InspectionOnly == 0
AutoConfirm == 0        \* the entry autoconfirm-<jobId>; quote-timeout-<id> has the revision

QuoteStatuses == {"SUBMITTED", "APPROVED", "REJECTED", "SUPERSEDED"}
Answers == {"APPROVED", "REJECTED"}

\* "agreed": job_events tells that the customer approved it.
Quote == [kind : {"INITIAL", "CHANGE_ORDER"}, status : QuoteStatuses, agreed : BOOLEAN]

Steps == {"idle",
          "skip",                              \* start
          "timer",                             \* submit
          "decide", "untimer",                 \* decide
          "auto", "await",                     \* completeWork
          "autoconfirm",                       \* onAutoConfirmWork
          "fare", "count", "free",             \* confirmWorkInternal, afterCompletion
          "reject", "close"}                   \* onResponseTimeout

Act == [step : Steps, entry : 0..MaxQuotes, fare : 0..MaxQuotes, answer : Answers]
Idle == [step |-> "idle", entry |-> 0, fare |-> 0, answer |-> "REJECTED"]

Last == Len(quotes)
At(p, step) == act[p].step = step
Do(p, step, entry) == act' = [act EXCEPT ![p] = [Idle EXCEPT !.step = step, !.entry = entry]]
Done(p) == act' = [act EXCEPT ![p] = Idle]
Goto(p, step) == act' = [act EXCEPT ![p].step = step]

Init ==
  /\ category \in Categories
  /\ status = "PARTNER_ARRIVED"
  /\ fresh = {}
  /\ quotes = <<>>
  /\ queue = {}
  /\ fare = {}
  /\ completions = 0
  /\ busy = TRUE
  /\ act = [p \in Procs |-> Idle]
  /\ crashes = 0

-----------------------------------------------------------------------------
(* Seeded faults: plausible bugs in operations below.  No action uses them; put *)
(* in the place of the operation each names, they show which properties notice.  *)

\* submit: the previous quote is left as it is.
SupersedeNothing == quotes

\* completeWork: no entry for the confirmation.
AwaitNothing(p) ==
  /\ At(p, "await")
  /\ Done(p)
  /\ UNCHANGED <<category, status, fresh, quotes, queue, fare, completions, busy, crashes>>

\* submit: the timeout is entered for the revision after the one created.
RevisionAfter == Last + 2

\* The transition trusts what the handler read: a confirmation is not refused.
MayConfirmAgain(to, actor) ==
  \/ CanMove(status, to, "HOME_SERVICE", actor)
  \/ to = "CUSTOMER_CONFIRMED" /\ status = "COMPLETED"

-----------------------------------------------------------------------------
(* JobsService.transitionInTx: the row is locked, the table decides.        *)

May(to, actor) == CanMove(status, to, "HOME_SERVICE", actor)

Transition(to, actor) ==
  /\ May(to, actor)
  /\ status' = to
  /\ fresh' = {}

-----------------------------------------------------------------------------
(* Requests of the partner                                                    *)

Start(p) ==
  /\ At(p, "idle")
  /\ Transition("INSPECTION_STARTED", PARTNER)
  /\ Goto(p, "skip")
  /\ UNCHANGED <<category, quotes, queue, fare, completions, busy, crashes>>

\* maybeSkipInspection, without a version: refused when the job has moved on.
SkipTo == IF category.quote THEN <<"QUOTE_REQUIRED", SYSTEM>> ELSE <<"WORK_STARTED", PARTNER>>

SkipInspection(p) ==
  /\ At(p, "skip")
  /\ \/ Transition(SkipTo[1], SkipTo[2])
     \/ ~May(SkipTo[1], SkipTo[2]) /\ UNCHANGED <<status, fresh>>
  /\ Done(p)
  /\ UNCHANGED <<category, quotes, queue, fare, completions, busy, crashes>>

\* A quote that still waits for its answer gives way to the new one.
Superseded ==
  [n \in 1..Last |->
     IF quotes[n].status = "SUBMITTED" THEN [quotes[n] EXCEPT !.status = "SUPERSEDED"] ELSE quotes[n]]

NextRevision == Last + 1

Submitted(kind) == [kind |-> kind, status |-> "SUBMITTED", agreed |-> FALSE]

KindNow == IF status = "WORK_STARTED" THEN "CHANGE_ORDER" ELSE "INITIAL"

SubmitQuote(p) ==
  /\ At(p, "idle")
  /\ Last < MaxQuotes
  /\ Transition("QUOTE_SUBMITTED", PARTNER)
  /\ quotes' = Append(Superseded, Submitted(KindNow))
  /\ Do(p, "timer", NextRevision)
  /\ UNCHANGED <<category, queue, fare, completions, busy, crashes>>

AddTimeout(p) ==
  /\ At(p, "timer")
  /\ queue' = queue \cup {act[p].entry}
  /\ Done(p)
  /\ UNCHANGED <<category, status, fresh, quotes, fare, completions, busy, crashes>>

\* An approved job starts only if the latest quote is the approved one.
StartWork(p) ==
  /\ At(p, "idle")
  /\ status = "QUOTE_APPROVED" => Last > 0 /\ quotes[Last].status = "APPROVED"
  /\ Transition("WORK_STARTED", PARTNER)
  /\ UNCHANGED <<category, quotes, queue, fare, completions, busy, act, crashes>>

WaitForParts(p) ==
  /\ At(p, "idle")
  /\ Transition("WAITING_FOR_PARTS", PARTNER)
  /\ UNCHANGED <<category, quotes, queue, fare, completions, busy, act, crashes>>

ResumeWork(p) ==
  /\ At(p, "idle")
  /\ Transition("WORK_STARTED", PARTNER)
  /\ UNCHANGED <<category, quotes, queue, fare, completions, busy, act, crashes>>

CompleteWork(p) ==
  /\ At(p, "idle")
  /\ Transition("WORK_COMPLETED", PARTNER)
  /\ Goto(p, IF category.confirmation THEN "await" ELSE "auto")
  /\ UNCHANGED <<category, quotes, queue, fare, completions, busy, crashes>>

Await(p) ==
  /\ At(p, "await")
  /\ queue' = queue \cup {AutoConfirm}
  /\ Done(p)
  /\ UNCHANGED <<category, status, fresh, quotes, fare, completions, busy, crashes>>

-----------------------------------------------------------------------------
(* Requests of the customer and of staff                                      *)

\* decide reads the job and the latest submitted quote ...
ReadQuote(p, answer) ==
  /\ At(p, "idle")
  /\ status = "QUOTE_SUBMITTED"
  /\ \E n \in 1..Last :
       /\ quotes[n].status = "SUBMITTED"
       /\ \A m \in (n + 1)..Last : quotes[m].status # "SUBMITTED"
       /\ act' = [act EXCEPT ![p] = [Idle EXCEPT !.step = "decide", !.entry = n, !.answer = answer]]
  /\ fresh' = fresh \cup {p}
  /\ UNCHANGED <<category, status, quotes, queue, fare, completions, busy, crashes>>

Answered(n, answer) ==
  [quotes EXCEPT ![n].status = answer, ![n].agreed = (answer = "APPROVED")]

\* The quotes approved before give way to an approved change order.
OthersSuperseded(n, qs) ==
  [m \in DOMAIN qs |-> IF m # n /\ qs[m].status = "APPROVED"
                       THEN [qs[m] EXCEPT !.status = "SUPERSEDED"] ELSE qs[m]]

\* ... and writes it by its id; a change order goes straight back to the work.
Decide(p, actor) ==
  LET n == act[p].entry
      resumes == act[p].answer = "APPROVED" /\ quotes[n].kind = "CHANGE_ORDER"
      target == IF act[p].answer = "APPROVED" THEN "QUOTE_APPROVED" ELSE "QUOTE_REJECTED"
  IN /\ At(p, "decide")
     /\ p \in fresh
     /\ May(target, actor)
     /\ quotes' = IF resumes THEN OthersSuperseded(n, Answered(n, act[p].answer))
                             ELSE Answered(n, act[p].answer)
     /\ status' = IF resumes THEN "WORK_STARTED" ELSE target
     /\ fresh' = {}
     /\ Do(p, "untimer", n)
     /\ UNCHANGED <<category, queue, fare, completions, busy, crashes>>

DecideRefused(p) ==
  /\ At(p, "decide")
  /\ p \notin fresh
  /\ Done(p)
  /\ UNCHANGED <<category, status, fresh, quotes, queue, fare, completions, busy, crashes>>

\* An entry a worker has taken is locked and stays.
Taken(e) == \E w \in Workers : act[w].step # "idle" /\ act[w].entry = e

RemoveTimeout(p) ==
  /\ At(p, "untimer")
  /\ queue' = IF Taken(act[p].entry) THEN queue ELSE queue \ {act[p].entry}
  /\ Done(p)
  /\ UNCHANGED <<category, status, fresh, quotes, fare, completions, busy, crashes>>

\* After a rejected quote the customer goes no further: only the inspection is paid.
CloseInspectionOnly(p, actor) ==
  /\ At(p, "idle")
  /\ status = "QUOTE_REJECTED"
  /\ Transition("COMPLETED", actor)
  /\ fare' = {InspectionOnly}
  /\ UNCHANGED <<category, quotes, queue, completions, busy, act, crashes>>

Cancel(p, actor) ==
  /\ At(p, "idle")
  /\ Transition("CANCELLED", actor)
  /\ Goto(p, "free")
  /\ UNCHANGED <<category, quotes, queue, fare, completions, busy, crashes>>

\* What staff may force after the partner's arrival; a cancellation is Cancel, and a
\* job that goes back to SEARCHING is the dispatcher's.
AdminTargets ==
  {"INSPECTION_STARTED", "QUOTE_APPROVED", "QUOTE_REJECTED", "WORK_STARTED",
   "CUSTOMER_CONFIRMED", "COMPLETED", "DISPUTED"}

\* adminTransition writes the status and nothing else.
AdminTransition(p, to) ==
  /\ At(p, "idle")
  /\ Transition(to, ADMIN)
  /\ UNCHANGED <<category, quotes, queue, fare, completions, busy, act, crashes>>

\* DisputesService.open.
Dispute(p) ==
  /\ At(p, "idle")
  /\ Transition("DISPUTED", CUSTOMER)
  /\ UNCHANGED <<category, quotes, queue, fare, completions, busy, act, crashes>>

-----------------------------------------------------------------------------
(* confirmWorkInternal: by the customer, by completeWork, or by the timer     *)

\* The quote is read with the row the first transition returns.
FareNow == IF Last > 0 /\ quotes[Last].status = "APPROVED" THEN Last ELSE InspectionOnly

Confirm(p, actor) ==
  /\ Transition("CUSTOMER_CONFIRMED", actor)
  /\ act' = [act EXCEPT ![p] = [@ EXCEPT !.step = "fare", !.fare = FareNow]]
  /\ UNCHANGED <<category, quotes, queue, fare, completions, busy, crashes>>

ConfirmWork(p) == At(p, "idle") /\ Confirm(p, CUSTOMER)

\* A refused confirmation throws: a worker's entry stays for a retry.
AutomaticConfirmation(p) ==
  /\ act[p].step \in {"auto", "autoconfirm"}
  /\ \/ Confirm(p, SYSTEM)
     \/ /\ ~May("CUSTOMER_CONFIRMED", SYSTEM)
        /\ Done(p)
        /\ UNCHANGED <<category, status, fresh, quotes, queue, fare, completions, busy, crashes>>

Complete(p) ==
  /\ At(p, "fare")
  /\ \/ /\ Transition("COMPLETED", SYSTEM)
        /\ fare' = {act[p].fare}
        /\ Goto(p, "count")
     \/ /\ ~May("COMPLETED", SYSTEM)
        /\ Done(p)
        /\ UNCHANGED <<status, fresh, fare>>
  /\ UNCHANGED <<category, quotes, queue, completions, busy, crashes>>

\* afterCompletion: the counters in one transaction, then the partner is free.
Count(p) ==
  /\ At(p, "count")
  /\ completions' = completions + 1
  /\ Goto(p, "free")
  /\ UNCHANGED <<category, status, fresh, quotes, queue, fare, busy, crashes>>

\* The handler ends: a worker's entry is done.
Returned(p) == queue' = IF p \in Workers THEN queue \ {act[p].entry} ELSE queue

Free(p) ==
  /\ At(p, "free")
  /\ busy' = FALSE
  /\ Returned(p)
  /\ Done(p)
  /\ UNCHANGED <<category, status, fresh, quotes, fare, completions, crashes>>

-----------------------------------------------------------------------------
(* The jobs queue                                                            *)

Takes(w, e) == At(w, "idle") /\ e \in queue /\ ~Taken(e)

Drop(e) ==
  /\ queue' = queue \ {e}
  /\ UNCHANGED <<category, status, fresh, quotes, fare, completions, busy, act, crashes>>

OnAutoConfirm(w) ==
  /\ Takes(w, AutoConfirm)
  /\ \/ status # "WORK_COMPLETED" /\ Drop(AutoConfirm)
     \/ /\ status = "WORK_COMPLETED"
        /\ Goto(w, "autoconfirm")
        /\ UNCHANGED <<category, status, fresh, quotes, queue, fare, completions, busy, crashes>>

\* onResponseTimeout reads the quote and the job ...
OnTimeout(w, n) ==
  LET waits == quotes[n].status = "SUBMITTED" /\ status = "QUOTE_SUBMITTED"
  IN /\ Takes(w, n)
     /\ \/ ~waits /\ Drop(n)
        \/ /\ waits
           /\ Do(w, "reject", n)
           /\ UNCHANGED <<category, status, fresh, quotes, queue, fare, completions, busy, crashes>>

\* ... writes the quote by its id ...
RejectQuote(w) ==
  /\ At(w, "reject")
  /\ quotes' = [quotes EXCEPT ![act[w].entry].status = "REJECTED"]
  /\ Goto(w, "close")
  /\ UNCHANGED <<category, status, fresh, queue, fare, completions, busy, crashes>>

\* ... and then the job; a refused transition throws, the entry stays for a retry.
CloseJob(w) ==
  /\ At(w, "close")
  /\ \/ Transition("QUOTE_REJECTED", SYSTEM) /\ Returned(w)
     \/ ~May("QUOTE_REJECTED", SYSTEM) /\ UNCHANGED <<status, fresh, queue>>
  /\ Done(w)
  /\ UNCHANGED <<category, quotes, fare, completions, busy, crashes>>

\* What a dead process was doing is lost; BullMQ gives its entry to another worker.
Crash(p) ==
  /\ ~At(p, "idle")
  /\ crashes < Crashes
  /\ crashes' = crashes + 1
  /\ fresh' = fresh \ {p}
  /\ Done(p)
  /\ UNCHANGED <<category, status, quotes, queue, fare, completions, busy>>

-----------------------------------------------------------------------------

PartnerStep(p) ==
  Start(p) \/ SubmitQuote(p) \/ StartWork(p) \/ WaitForParts(p) \/ ResumeWork(p) \/ CompleteWork(p)

CustomerStep(p) ==
  \/ \E answer \in Answers : ReadQuote(p, answer)
  \/ \E actor \in {CUSTOMER, ADMIN} : CloseInspectionOnly(p, actor)
  \/ \E actor \in {CUSTOMER, PARTNER, ADMIN} : Cancel(p, actor)
  \/ \E to \in AdminTargets : AdminTransition(p, to)
  \/ ConfirmWork(p)
  \/ Dispute(p)

\* What a handler does once it has begun.
Continue(p) ==
  /\ ~At(p, "idle")
  /\ \/ SkipInspection(p) \/ AddTimeout(p) \/ Await(p)
     \/ \E actor \in {CUSTOMER, ADMIN} : Decide(p, actor)
     \/ DecideRefused(p) \/ RemoveTimeout(p) \/ AutomaticConfirmation(p)
     \/ Complete(p) \/ Count(p) \/ Free(p) \/ RejectQuote(p) \/ CloseJob(p)

Serve(w) == OnAutoConfirm(w) \/ \E n \in 1..Last : OnTimeout(w, n)

Next ==
  \/ \E p \in Requests : PartnerStep(p) \/ CustomerStep(p)
  \/ \E p \in Procs : Continue(p) \/ Crash(p)
  \/ \E w \in Workers : Serve(w)

Spec == Init /\ [][Next]_vars

\* A handler that has begun goes on, and the queue is served.
FairSpec ==
  /\ Spec
  /\ \A p \in Requests : WF_vars(Continue(p))
  /\ \A w \in Workers : WF_vars(Continue(w) \/ Serve(w))

-----------------------------------------------------------------------------
(* Properties                                                                *)

TypeOK ==
  /\ category \in Categories
  /\ status \in Statuses
  /\ fresh \subseteq {p \in Requests : At(p, "decide")}
  /\ quotes \in Seq(Quote)
  /\ Last <= MaxQuotes
  /\ queue \subseteq 0..Last
  /\ fare \subseteq 0..Last
  /\ completions \in Nat
  /\ busy \in BOOLEAN
  /\ act \in [Procs -> Act]
  /\ crashes \in 0..Crashes

\* Of the quotes of a job at most one waits for an answer, and it is the latest,
\* whatever staff did to the job in between (QuotesService.submit).
OnePending == \A n \in 1..Last : quotes[n].status = "SUBMITTED" => n = Last

\* A job is counted for its customer and its partner once, though the customer, the
\* timer, the end of the work and staff may all be closing it; it is then a job with a
\* fare that has ended, and its partner is free or about to be (afterCompletion).
CountedOnce ==
  /\ completions <= 1
  /\ completions = 1 =>
       /\ fare # {}
       /\ status \in {"COMPLETED", "DISPUTED"}
       /\ busy => crashes > 0 \/ \E p \in Procs : At(p, "free")

\* The final fare, once computed, is never computed again (confirmWorkInternal,
\* closeInspectionOnly), and no later quote can replace what it was computed from.
FareStands == [][fare # {} => fare' = fare /\ Len(quotes') = Last]_vars

\* "WORK_COMPLETED -> CUSTOMER_CONFIRMED -> COMPLETED with the approved quote as the
\* final fare" (the comment of confirmWorkInternal): if the customer approved the
\* latest quote, the fare of the finished work is that quote.
AgreedIsBilled == completions > 0 /\ Last > 0 /\ quotes[Last].agreed => fare = {Last}

\* Without crashes, work that is reported done does not wait for a silent customer for
\* ever (completeWork, onAutoConfirmWork).
WorkEnds == [](crashes = 0) => (status = "WORK_COMPLETED" ~> status # "WORK_COMPLETED")
=============================================================================
