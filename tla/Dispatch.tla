------------------------------- MODULE Dispatch -------------------------------
(***************************************************************************)
(* The dispatch engine of the TAMAM API for ride and delivery jobs:        *)
(* DispatchService with the parts of JobsService, JobLifecycleService and  *)
(* PartnerAvailabilityService that share its state.                        *)
(*                                                                         *)
(* A job is offered to partners in waves until one accepts.  Every handler *)
(* is several database and queue operations long, and handlers of workers  *)
(* (the BullMQ queue, concurrency 10) and of HTTP requests interleave      *)
(* between any two of them.  A handler in flight is a record of "calls"    *)
(* whose field "at" names the operation it performs next; what it read     *)
(* earlier and still uses is in the other fields.                          *)
(***************************************************************************)
EXTENDS JobStates, Naturals, FiniteSets

CONSTANTS
  Jobs,           \* mobility jobs
  Partners,       \* partners eligible for them (role, zone, vehicle, documents)
  ManualDispatch, \* do dispatchers assign, redispatch and cancel jobs by hand?
  ForcedTargets,  \* the statuses an administrator may set with POST admin/jobs/:id/transition
  NoPartner,      \* jobs.partner_id IS NULL
  NoJob,          \* partner_availability.current_job_id IS NULL
  MaxWaves,       \* dispatch.max_waves
  WaveSize,       \* dispatch.wave<n>.size
  MaxSearches,    \* bound: how often a job may enter SEARCHING
  MaxCrashes,     \* bound: how often the API process dies
  MaxRequests,    \* bound: HTTP requests in flight
  MaxWorkers      \* bound: queue jobs being processed at once

ASSUME DispatchAssumption ==
  /\ NoPartner \notin Partners
  /\ NoJob \notin Jobs
  /\ ManualDispatch \in BOOLEAN
  /\ ForcedTargets \subseteq Statuses
  /\ MaxWaves \in Nat \ {0}
  /\ WaveSize \in Nat \ {0}
  /\ MaxSearches \in Nat
  /\ MaxCrashes \in Nat
  /\ MaxRequests \in Nat
  /\ MaxWorkers \in Nat

VARIABLES
  status,     \* jobs.status
  holder,     \* jobs.partner_id
  search,     \* how often the job has entered SEARCHING: tells apart the rows and
              \* timers of successive searches, as their uuids do
  deadline,   \* jobs.dispatch_deadline_at: the search it was set for (0 when NULL)
              \* and whether that moment has passed
  offers,     \* job_assignments rows that are OFFERED, with the progress of an accept
  accepted,   \* job_assignments rows that are ACCEPTED
  released,   \* job_assignments rows that are REASSIGNED
  spent,      \* partners with an EXPIRED, REJECTED or CANCELLED row for the job
  avail,      \* partner_availability.status
  current,    \* partner_availability.current_job_id
  queue,      \* the dispatch queue: waiting and delayed jobs
  waitTimer,  \* the queue job wait-<jobId> of the jobs queue: "none", "pending", "done"
  calls,      \* handlers in flight
  crashes     \* how often the process has died

jobVars     == <<status, holder, search, deadline>>
rowVars     == <<offers, accepted, released, spent>>
partnerVars == <<avail, current>>
vars        == <<jobVars, rowVars, partnerVars, queue, waitTimer, calls, crashes>>

-----------------------------------------------------------------------------
(* Rows, queue entries and handlers.                                         *)

\* A job_assignments row of a job: who, in which wave, of which search.
RowId == [partner : Partners, wave : 0..MaxWaves, search : 0..MaxSearches]

\* An accept request has "checked" the offer and that its partner is online, and then
\* "claimed" it: its transaction is open and has read that the partner is free.
Offer == [partner : Partners, wave : 0..MaxWaves, search : 0..MaxSearches,
          lapsed : BOOLEAN, stage : {"open", "checked", "claimed"}]

Id(o)      == [partner |-> o.partner, wave |-> o.wave, search |-> o.search]
Offered(j) == {Id(o) : o \in offers[j]}

Entry == [kind : {"wave", "expire", "timeout"}, job : Jobs,
          wave : 0..MaxWaves, search : 0..MaxSearches]

WaveEntry(j, w)      == [kind |-> "wave", job |-> j, wave |-> w, search |-> 0]
ExpireEntry(j, w, n) == [kind |-> "expire", job |-> j, wave |-> w, search |-> n]
TimeoutEntry(j, n)   == [kind |-> "timeout", job |-> j, wave |-> 0, search |-> n]

Labels == {"enqueue",                       \* jobs.create: after the commit
           "wave", "offer",                 \* runWave
           "expire", "expired", "resume",   \* onOffersExpired
           "timeout", "giveup", "nobody",   \* onTimeout
           "sweep", "swept", "unqueue",     \* cancel
           "release", "released",           \* releaseByPartner
           "begin", "reassigned", "assign", \* manualAssign
           "offline",                       \* setAvailability
           "free"}                          \* setBusy(partner, null)

Call == [id : 0..(MaxRequests + MaxWorkers), at : Labels, origin : {"wave", "expire", "timeout", "http"},
         job : Jobs \cup {NoJob}, wave : 0..MaxWaves,
         partner : Partners \cup {NoPartner}, prev : Partners \cup {NoPartner},
         then : {"done", "free", "assign"}, rows : SUBSET RowId]

Request(at, j, p) == [id |-> 0, at |-> at, origin |-> "http", job |-> j,
                      wave |-> 1, partner |-> p, prev |-> NoPartner, then |-> "done", rows |-> {}]

Take(e) == [id |-> 0, at |-> e.kind, origin |-> e.kind, job |-> e.job,
            wave |-> e.wave, partner |-> NoPartner, prev |-> NoPartner, then |-> "done", rows |-> {}]

\* The accepts in progress are HTTP requests too.
Answering  == UNION {{<<j, o>> : o \in {x \in offers[j] : x.stage # "open"}} : j \in Jobs}
CanRequest == Cardinality({c \in calls : c.origin = "http"}) + Cardinality(Answering)
                < MaxRequests
CanWork    == Cardinality({c \in calls : c.origin # "http"}) < MaxWorkers

\* Two handlers may be at the same place with the same data: the first free number
\* tells a new one from the others.
IsFree(n) == /\ \A c \in calls : c.id # n
             /\ \A m \in 1..(n - 1) : \E c \in calls : c.id = m

Begin(c)       == \E n \in 1..(MaxRequests + MaxWorkers) :
                    IsFree(n) /\ calls' = calls \cup {[c EXCEPT !.id = n]}
Continue(c, d) == calls' = (calls \ {c}) \cup {d}
Finish(c)      == calls' = calls \ {c}

-----------------------------------------------------------------------------
(* Seeded faults: plausible bugs in operations below.  No action uses them; put *)
(* in the place of the operation each names, they show which properties notice.  *)

\* Transition that forgets partner: { disconnect: true }.
TransitionKeepingPartner(j, to, actor) ==
  /\ CanMove(status[j], to, "MOBILITY", actor)
  /\ to = "SEARCHING" => search[j] < MaxSearches
  /\ status' = [status EXCEPT ![j] = to]
  /\ search' = [search EXCEPT ![j] = IF to = "SEARCHING" THEN @ + 1 ELSE @]
  /\ UNCHANGED holder

\* ScheduleNextWave with > for >=.
SchedulePastLastWave(c) ==
  IF c.wave > MaxWaves
    THEN Continue(c, [c EXCEPT !.at = "timeout", !.rows = {}]) /\ UNCHANGED queue
    ELSE Finish(c) /\ queue' = queue \cup {WaveEntry(c.job, c.wave + 1)}

\* ScheduleNextWave that leaves the end of the search to the timeout timer.
StopAfterLastWave(c) ==
  /\ Finish(c)
  /\ queue' = IF c.wave >= MaxWaves THEN queue
              ELSE queue \cup {WaveEntry(c.job, c.wave + 1)}

\* Unqueue that does not return to its caller.
UnqueueAndStop(c) ==
  /\ c.at = "unqueue"
  /\ queue' = {e \in queue : e.job # c.job}
  /\ Finish(c)
  /\ UNCHANGED <<jobVars, rowVars, partnerVars, waitTimer, crashes>>

\* ReassignRow that leaves the row ACCEPTED.
KeepRow(j, p) == UNCHANGED <<accepted, released>>

\* GoOnline and WriteOffline that start from a clean slate: currentJobId: null.
GoOnlineIdle(p) ==
  /\ avail[p] # "ONLINE"
  /\ avail' = [avail EXCEPT ![p] = "ONLINE"]
  /\ current' = [current EXCEPT ![p] = NoJob]
  /\ UNCHANGED <<jobVars, rowVars, queue, waitTimer, calls, crashes>>

WriteOfflineIdle(c) ==
  /\ c.at = "offline"
  /\ avail' = [avail EXCEPT ![c.partner] = "OFFLINE"]
  /\ current' = [current EXCEPT ![c.partner] = NoJob]
  /\ Finish(c)
  /\ UNCHANGED <<jobVars, rowVars, queue, waitTimer, crashes>>

-----------------------------------------------------------------------------
(* Operations the handlers share.                                            *)

\* JobsService.transitionInTx: under SELECT ... FOR UPDATE the table decides.
Transition(j, to, actor) ==
  /\ CanMove(status[j], to, "MOBILITY", actor)
  /\ to = "SEARCHING" => search[j] < MaxSearches
  /\ status' = [status EXCEPT ![j] = to]
  /\ holder' = [holder EXCEPT ![j] =
                  IF to = "SEARCHING" /\ status[j] \in BeforeStart THEN NoPartner ELSE @]
  /\ search' = [search EXCEPT ![j] = IF to = "SEARCHING" THEN @ + 1 ELSE @]

\* The same with the patch { partner: { connect } } of an accept or an assignment.
TransitionToAssigned(j, p, actor) ==
  /\ CanMove(status[j], "ASSIGNED", "MOBILITY", actor)
  /\ status' = [status EXCEPT ![j] = "ASSIGNED"]
  /\ holder' = [holder EXCEPT ![j] = p]
  /\ UNCHANGED search

\* jobAssignment.updateMany({ where: { id: { in: ids } } }) with a closed status:
\* it waits for the row lock of an accept in progress and checks no status.
CloseRows(j, ids) ==
  /\ \A o \in offers[j] : Id(o) \in ids => o.stage # "claimed"
  /\ offers' = [offers EXCEPT ![j] = {o \in @ : Id(o) \notin ids}]
  /\ accepted' = [accepted EXCEPT ![j] = @ \ ids]
  /\ released' = [released EXCEPT ![j] = @ \ ids]
  /\ spent' = [spent EXCEPT ![j] = @ \cup
                 {r.partner : r \in ids \cap (Offered(j) \cup accepted[j] \cup released[j])}]

\* setBusy(partner, null): whatever job the partner is on by now.
SetFree(p) ==
  /\ avail' = [avail EXCEPT ![p] = IF @ = "OFFLINE" THEN "OFFLINE" ELSE "ONLINE"]
  /\ current' = [current EXCEPT ![p] = NoJob]

\* partner_availability: { status: 'BUSY', currentJobId }.
SetBusy(p, j) ==
  /\ avail' = [avail EXCEPT ![p] = "BUSY"]
  /\ current' = [current EXCEPT ![p] = j]

\* scheduleNextWave, at the end of the handler c.
ScheduleNextWave(c) ==
  IF c.wave >= MaxWaves
    THEN Continue(c, [c EXCEPT !.at = "timeout", !.rows = {}]) /\ UNCHANGED queue
    ELSE Finish(c) /\ queue' = queue \cup {WaveEntry(c.job, c.wave + 1)}

\* The queue entry a worker is processing.
Source(c) == [kind |-> c.origin, job |-> c.job, wave |-> c.wave, search |-> 0]

\* The handler c throws: BullMQ runs a queue job again, an HTTP request just fails.
Throw(c) ==
  /\ Finish(c)
  /\ queue' = IF c.origin = "http" THEN queue ELSE queue \cup {Source(c)}

-----------------------------------------------------------------------------
(* The worker: waves of offers, their expiry, and the end of a search.       *)

HasLiveRow(j, p) == \E r \in Offered(j) \cup accepted[j] : r.partner = p

\* findCandidates: online, on no job, and without any row for this job.  Which of
\* them are in the radius, have a fresh heartbeat and score best is left open.
Candidates(j) ==
  {p \in Partners : /\ avail[p] = "ONLINE"
                    /\ current[p] = NoJob
                    /\ ~HasLiveRow(j, p)
                    /\ p \notin spent[j]
                    /\ \A r \in released[j] : r.partner # p}

\* When the delay of a queue entry is over: offers expire after their TTL, and the
\* timers of an earlier search are due at any moment of a later one.
Due(e) ==
  CASE e.kind = "wave"    -> TRUE
    [] e.kind = "expire"  -> \A o \in offers[e.job] :
                               (o.wave = e.wave /\ o.search = e.search) => o.lapsed
    [] e.kind = "timeout" -> e.search < deadline[e.job].search \/ deadline[e.job].past

\* A free worker takes a due entry out of the queue.
PickUp(e) ==
  /\ CanWork
  /\ Due(e)
  /\ queue' = queue \ {e}
  /\ Begin(Take(e))
  /\ UNCHANGED <<jobVars, rowVars, partnerVars, waitTimer, crashes>>

CanKickOff(j) ==
  status[j] \in {"REQUESTED", "NO_PARTNER_AVAILABLE"} /\ search[j] < MaxSearches

\* runWave on a job nobody searches for: the search begins, with its deadline and timer.
KickOff(c) ==
  /\ c.at = "wave"
  /\ CanKickOff(c.job)
  /\ Transition(c.job, "SEARCHING", SYSTEM)
  /\ deadline' = [deadline EXCEPT ![c.job] = [search |-> search[c.job] + 1, past |-> FALSE]]
  /\ queue' = queue \cup {TimeoutEntry(c.job, search[c.job] + 1)}
  /\ UNCHANGED <<rowVars, partnerVars, waitTimer, calls, crashes>>

\* runWave on a job that is not SEARCHING (any more).
LeaveWave(c) ==
  /\ c.at = "wave"
  /\ status[c.job] # "SEARCHING"
  /\ ~CanKickOff(c.job)
  /\ Finish(c)
  /\ UNCHANGED <<jobVars, rowVars, partnerVars, queue, waitTimer, crashes>>

\* runWave on a SEARCHING job: give up, or choose whom to offer the job.
ChooseWave(c) ==
  /\ c.at = "wave"
  /\ status[c.job] = "SEARCHING"
  /\ IF deadline[c.job].past \/ c.wave > MaxWaves
       THEN /\ Continue(c, [c EXCEPT !.at = "timeout"])
            /\ UNCHANGED queue
       ELSE \E chosen \in SUBSET Candidates(c.job) :
              /\ Cardinality(chosen) <= WaveSize
              /\ IF chosen = {}
                   THEN ScheduleNextWave(c)
                   ELSE /\ Continue(c, [c EXCEPT !.at = "offer", !.rows =
                               {[partner |-> p, wave |-> c.wave, search |-> search[c.job]]
                                  : p \in chosen}])
                        /\ UNCHANGED queue
  /\ UNCHANGED <<jobVars, rowVars, partnerVars, waitTimer, crashes>>

\* runWave's transaction: the rows of the wave, for the job as it was when they were
\* chosen.  A row the unique index refuses aborts the transaction: nothing is created,
\* and any later statement of it throws.
CreateOffers(c) ==
  /\ c.at = "offer"
  /\ LET refused == \E r \in c.rows : HasLiveRow(c.job, r.partner) IN
       /\ offers' = IF refused THEN offers
                    ELSE [offers EXCEPT ![c.job] = @ \cup
                            {[partner |-> r.partner, wave |-> r.wave, search |-> r.search,
                              lapsed |-> FALSE, stage |-> "open"] : r \in c.rows}]
       /\ IF refused /\ Cardinality(c.rows) > 1
            THEN Throw(c)
            ELSE /\ Finish(c)
                 /\ \E r \in c.rows :
                      queue' = queue \cup {ExpireEntry(c.job, c.wave, r.search)}
  /\ UNCHANGED <<jobVars, accepted, released, spent, partnerVars, waitTimer, crashes>>

\* onOffersExpired, its findMany: the wave's open rows, of whichever search.
ReadExpired(c) ==
  /\ c.at = "expire"
  /\ Continue(c, [c EXCEPT !.at = "expired",
                           !.rows = {r \in Offered(c.job) : r.wave = c.wave}])
  /\ UNCHANGED <<jobVars, rowVars, partnerVars, queue, waitTimer, crashes>>

\* ... its updateMany by id ...
ExpireRows(c) ==
  /\ c.at = "expired"
  /\ CloseRows(c.job, c.rows)
  /\ Continue(c, [c EXCEPT !.at = "resume", !.rows = {}])
  /\ UNCHANGED <<jobVars, partnerVars, queue, waitTimer, crashes>>

\* ... and the next wave, or the end of the search, if the job is still SEARCHING.
ResumeSearch(c) ==
  /\ c.at = "resume"
  /\ \/ /\ status[c.job] # "SEARCHING"
        /\ Finish(c)
        /\ UNCHANGED queue
     \/ /\ status[c.job] = "SEARCHING"
        /\ deadline[c.job].past
        /\ Continue(c, [c EXCEPT !.at = "timeout"])
        /\ UNCHANGED queue
     \/ /\ status[c.job] = "SEARCHING"
        /\ ~deadline[c.job].past
        /\ ScheduleNextWave(c)
  /\ UNCHANGED <<jobVars, rowVars, partnerVars, waitTimer, crashes>>

\* onTimeout: reads the status (and no deadline) and the open offers ...
ReadTimeout(c) ==
  /\ c.at = "timeout"
  /\ IF status[c.job] = "SEARCHING"
       THEN Continue(c, [c EXCEPT !.at = "giveup", !.rows = Offered(c.job)])
       ELSE Finish(c)
  /\ UNCHANGED <<jobVars, rowVars, partnerVars, queue, waitTimer, crashes>>

\* ... then cancels those rows ...
CancelTimedOut(c) ==
  /\ c.at = "giveup"
  /\ CloseRows(c.job, c.rows)
  /\ Continue(c, [c EXCEPT !.at = "nobody", !.rows = {}])
  /\ UNCHANGED <<jobVars, partnerVars, queue, waitTimer, crashes>>

\* ... and ends the search, or throws when it is not on any more.
GiveUp(c) ==
  /\ c.at = "nobody"
  /\ \/ /\ Transition(c.job, "NO_PARTNER_AVAILABLE", SYSTEM)
        /\ Finish(c)
        /\ UNCHANGED queue
     \/ /\ ~CanMove(status[c.job], "NO_PARTNER_AVAILABLE", "MOBILITY", SYSTEM)
        /\ Throw(c)
        /\ UNCHANGED <<status, holder, search>>
  /\ UNCHANGED <<deadline, rowVars, partnerVars, waitTimer, crashes>>

-----------------------------------------------------------------------------
(* DispatchService.cancel: close the open offers, then empty the queue of the *)
(* job; three operations, then whatever its caller does next.                 *)

ReadOpenOffers(c) ==
  /\ c.at = "sweep"
  /\ Continue(c, [c EXCEPT !.at = "swept", !.rows = Offered(c.job)])
  /\ UNCHANGED <<jobVars, rowVars, partnerVars, queue, waitTimer, crashes>>

CancelOffers(c) ==
  /\ c.at = "swept"
  /\ CloseRows(c.job, c.rows)
  /\ Continue(c, [c EXCEPT !.at = "unqueue", !.rows = {}])
  /\ UNCHANGED <<jobVars, partnerVars, queue, waitTimer, crashes>>

\* Only waiting and delayed entries go; one a worker has taken runs on.
Unqueue(c) ==
  /\ c.at = "unqueue"
  /\ queue' = {e \in queue : e.job # c.job}
  /\ IF c.then = "done" THEN Finish(c) ELSE Continue(c, [c EXCEPT !.at = c.then])
  /\ UNCHANGED <<jobVars, rowVars, partnerVars, waitTimer, crashes>>

\* setBusy(partner, null) after a cancellation or a completion.
Free(c) ==
  /\ c.at = "free"
  /\ IF c.partner = NoPartner THEN UNCHANGED partnerVars ELSE SetFree(c.partner)
  /\ Finish(c)
  /\ UNCHANGED <<jobVars, rowVars, queue, waitTimer, crashes>>

-----------------------------------------------------------------------------
(* The customer.                                                             *)

\* JobsService.create, up to its commit; a scheduled job waits for its kick-off.
Create(j) ==
  /\ CanRequest
  /\ Transition(j, "REQUESTED", CUSTOMER)
  /\ Begin(Request("enqueue", j, NoPartner))
  /\ UNCHANGED <<deadline, rowVars, partnerVars, queue, waitTimer, crashes>>

\* ... and the queue job it adds after that.
Enqueue(c) ==
  /\ c.at = "enqueue"
  /\ queue' = queue \cup {WaveEntry(c.job, 1)}
  /\ Finish(c)
  /\ UNCHANGED <<jobVars, rowVars, partnerVars, waitTimer, crashes>>

\* retry: closed rows are deleted, so that those partners can be offered the job again.
Retry(j) ==
  /\ CanRequest
  /\ status[j] = "NO_PARTNER_AVAILABLE"
  /\ spent' = [spent EXCEPT ![j] = {}]
  /\ Begin(Request("wave", j, NoPartner))
  /\ UNCHANGED <<jobVars, offers, accepted, released, partnerVars, queue, waitTimer, crashes>>

\* Cancellation by the customer, the partner or an administrator, then afterCancellation.
Cancel(j, actor) ==
  /\ CanRequest
  /\ actor = PARTNER => holder[j] # NoPartner
  /\ actor = ADMIN => ManualDispatch
  /\ Transition(j, "CANCELLED", actor)
  /\ Begin([Request("sweep", j, holder[j]) EXCEPT !.then = "free"])
  /\ UNCHANGED <<deadline, rowVars, partnerVars, queue, waitTimer, crashes>>

-----------------------------------------------------------------------------
(* Partners.                                                                 *)

WithOffer(j, o, q) == [offers EXCEPT ![j] = (@ \ {o}) \cup q]

\* respond(accept): the offer is open and the partner effectively online.
CheckOffer(j, o) ==
  /\ CanRequest
  /\ o.stage = "open" /\ ~o.lapsed
  /\ avail[o.partner] = "ONLINE"
  /\ offers' = WithOffer(j, o, {[o EXCEPT !.stage = "checked"]})
  /\ UNCHANGED <<jobVars, accepted, released, spent, partnerVars, queue, waitTimer, calls, crashes>>

\* ... under the Redis lock of the job, its transaction claims the row and reads the
\* partner's current job.
ClaimOffer(j, o) ==
  /\ o.stage = "checked" /\ ~o.lapsed
  /\ \A other \in offers[j] : other.stage # "claimed"
  /\ current[o.partner] = NoJob
  /\ offers' = WithOffer(j, o, {[o EXCEPT !.stage = "claimed"]})
  /\ UNCHANGED <<jobVars, accepted, released, spent, partnerVars, queue, waitTimer, calls, crashes>>

\* ... and, holding the job row, assigns the job: the other offers are cancelled, the
\* partner is busy, and after the commit cancel() sweeps the job.
CommitAccept(j, o) ==
  /\ o.stage = "claimed"
  /\ accepted[j] = {}
  /\ TransitionToAssigned(j, o.partner, SYSTEM)
  /\ accepted' = [accepted EXCEPT ![j] = {Id(o)}]
  /\ offers' = [offers EXCEPT ![j] = {}]
  /\ spent' = [spent EXCEPT ![j] = @ \cup {r.partner : r \in Offered(j) \ {Id(o)}}]
  /\ SetBusy(o.partner, j)
  /\ Begin(Request("sweep", j, o.partner))
  /\ UNCHANGED <<deadline, released, queue, waitTimer, crashes>>

\* An accept that fails: lock busy, offer gone, partner on a job, job already taken.
RefuseAccept(j, o) ==
  /\ \/ o.stage = "checked" /\ (\/ o.lapsed
                                \/ current[o.partner] # NoJob
                                \/ \E other \in offers[j] : other.stage = "claimed")
     \/ o.stage = "claimed" /\ (\/ accepted[j] # {}
                                \/ ~CanMove(status[j], "ASSIGNED", "MOBILITY", SYSTEM))
  /\ offers' = WithOffer(j, o, {[o EXCEPT !.stage = "open"]})
  /\ UNCHANGED <<jobVars, accepted, released, spent, partnerVars, queue, waitTimer, calls, crashes>>

\* respond(reject): one conditional update.
Reject(j, o) ==
  /\ o.stage = "open" /\ ~o.lapsed
  /\ offers' = WithOffer(j, o, {})
  /\ spent' = [spent EXCEPT ![j] = @ \cup {o.partner}]
  /\ UNCHANGED <<jobVars, accepted, released, partnerVars, queue, waitTimer, calls, crashes>>

\* releaseByPartner: the handler reads that the job is the partner's ...
Release(j) ==
  /\ CanRequest
  /\ holder[j] # NoPartner
  /\ Begin(Request("release", j, holder[j]))
  /\ UNCHANGED <<jobVars, rowVars, partnerVars, queue, waitTimer, crashes>>

\* ... then sends the job back to SEARCHING, whoever holds it by now ...
ReleaseJob(c) ==
  /\ c.at = "release"
  /\ \/ /\ Transition(c.job, "SEARCHING", PARTNER)
        /\ Continue(c, [c EXCEPT !.at = "released"])
     \/ /\ \/ ~CanMove(status[c.job], "SEARCHING", "MOBILITY", PARTNER)
           \/ search[c.job] = MaxSearches
        /\ Finish(c)
        /\ UNCHANGED <<status, holder, search>>
  /\ UNCHANGED <<deadline, rowVars, partnerVars, queue, waitTimer, crashes>>

\* The ACCEPTED row of a partner becomes REASSIGNED.
ReassignRow(j, p) ==
  LET mine == {r \in accepted[j] : r.partner = p} IN
    /\ accepted' = [accepted EXCEPT ![j] = @ \ mine]
    /\ released' = [released EXCEPT ![j] = @ \cup mine]

\* ... then gives up its own row, frees the partner and runs wave 1 in the request.
ReleasePartner(c) ==
  /\ c.at = "released"
  /\ ReassignRow(c.job, c.partner)
  /\ SetFree(c.partner)
  /\ Continue(c, [c EXCEPT !.at = "wave", !.partner = NoPartner])
  /\ UNCHANGED <<jobVars, offers, spent, queue, waitTimer, crashes>>

\* The versioned steps of the trip: the version the client sends makes the read and
\* the transition of each of these handlers one step.
EnRoute(j) ==
  /\ holder[j] # NoPartner
  /\ Transition(j, "PARTNER_EN_ROUTE", PARTNER)
  /\ UNCHANGED <<deadline, rowVars, partnerVars, queue, waitTimer, calls, crashes>>

\* The timer's id is wait-<jobId>: BullMQ ignores a second one, pending or done.
Arrive(j) ==
  /\ holder[j] # NoPartner
  /\ Transition(j, "PARTNER_ARRIVED", PARTNER)
  /\ waitTimer' = [waitTimer EXCEPT ![j] = IF @ = "none" THEN "pending" ELSE @]
  /\ UNCHANGED <<deadline, rowVars, partnerVars, queue, calls, crashes>>

Start(j) ==
  /\ holder[j] # NoPartner
  /\ Transition(j, "IN_PROGRESS", PARTNER)
  /\ UNCHANGED <<deadline, rowVars, partnerVars, queue, waitTimer, calls, crashes>>

\* complete, then afterCompletion.
Complete(j) ==
  /\ CanRequest
  /\ holder[j] # NoPartner
  /\ Transition(j, "COMPLETED", PARTNER)
  /\ Begin(Request("free", j, holder[j]))
  /\ UNCHANGED <<deadline, rowVars, partnerVars, queue, waitTimer, crashes>>

-----------------------------------------------------------------------------
(* Dispatchers and administrators.                                           *)

\* An assignment of j to p in progress, taking the job back from prev.
Assignment(at, j, p, prev) ==
  [id |-> 0, at |-> at, origin |-> "http", job |-> j,
   wave |-> 1, partner |-> p, prev |-> prev, then |-> "assign", rows |-> {}]

\* manualAssign: reads the job and checks the partner; a held job goes back to SEARCHING at
\* once, under the version the client sent, an idle one in a transition of its own ...
ManualAssign(j, p) ==
  /\ ManualDispatch /\ CanRequest
  /\ current[p] \in {NoJob, j}
  /\ \/ /\ status[j] \in BeforeStart
        /\ Transition(j, "SEARCHING", ADMIN)
        /\ Begin(Assignment(IF holder[j] # NoPartner THEN "reassigned" ELSE "sweep",
                            j, p, holder[j]))
     \/ /\ status[j] \in {"REQUESTED", "NO_PARTNER_AVAILABLE", "SEARCHING"}
        /\ Begin(Assignment(IF status[j] = "SEARCHING" THEN "sweep" ELSE "begin",
                            j, p, NoPartner))
        /\ UNCHANGED <<status, holder, search>>
  /\ UNCHANGED <<deadline, rowVars, partnerVars, queue, waitTimer, crashes>>

\* ... which passes no expectedVersion: it moves the job from whatever status it has by
\* now, and so takes it from a partner who accepted it since ...
BeginByHand(c) ==
  /\ c.at = "begin"
  /\ \/ /\ Transition(c.job, "SEARCHING", ADMIN)
        /\ Continue(c, [c EXCEPT !.at = "sweep"])
     \/ /\ \/ ~CanMove(status[c.job], "SEARCHING", "MOBILITY", ADMIN)
           \/ search[c.job] = MaxSearches
        /\ Finish(c)
        /\ UNCHANGED <<status, holder, search>>
  /\ UNCHANGED <<deadline, rowVars, partnerVars, queue, waitTimer, crashes>>

\* ... takes the row and the availability of the partner it had back ...
ReleasePrevious(c) ==
  /\ c.at = "reassigned"
  /\ ReassignRow(c.job, c.prev)
  /\ SetFree(c.prev)
  /\ Continue(c, [c EXCEPT !.at = "sweep", !.prev = NoPartner])
  /\ UNCHANGED <<jobVars, offers, spent, queue, waitTimer, crashes>>

\* ... and, after cancel(), in one transaction creates an ACCEPTED row, assigns the
\* job and marks the partner busy, without reading the partner again.  The unique index
\* makes it wait for an accept in progress.
AssignByHand(c) ==
  /\ c.at = "assign"
  /\ \A o \in offers[c.job] : o.stage # "claimed"
  /\ \/ /\ accepted[c.job] = {}
        /\ ~HasLiveRow(c.job, c.partner)
        /\ TransitionToAssigned(c.job, c.partner, ADMIN)
        /\ accepted' = [accepted EXCEPT ![c.job] =
              {[partner |-> c.partner, wave |-> 0, search |-> search[c.job]]}]
        /\ SetBusy(c.partner, c.job)
     \/ /\ \/ accepted[c.job] # {}
           \/ HasLiveRow(c.job, c.partner)
           \/ ~CanMove(status[c.job], "ASSIGNED", "MOBILITY", ADMIN)
        /\ UNCHANGED <<status, holder, search, accepted, partnerVars>>
  /\ Finish(c)
  /\ UNCHANGED <<deadline, offers, released, spent, queue, waitTimer, crashes>>

\* POST admin/jobs/:id/redispatch: runWave(id, 1) in the request.
Redispatch(j) ==
  /\ ManualDispatch /\ CanRequest
  /\ Begin(Request("wave", j, NoPartner))
  /\ UNCHANGED <<jobVars, rowVars, partnerVars, queue, waitTimer, crashes>>

\* adminTransition to anything but CANCELLED: the transition and nothing else.
ForceStatus(j, to) ==
  /\ to # "CANCELLED"
  /\ Transition(j, to, ADMIN)
  /\ UNCHANGED <<deadline, rowVars, partnerVars, queue, waitTimer, calls, crashes>>

-----------------------------------------------------------------------------
(* Availability, timers and time.                                            *)

GoOnline(p) ==
  /\ avail[p] # "ONLINE"
  /\ avail' = [avail EXCEPT ![p] = "ONLINE"]
  /\ UNCHANGED <<jobVars, rowVars, current, queue, waitTimer, calls, crashes>>

\* setAvailability(OFFLINE) is refused to a partner on a job ...
GoOffline(p) ==
  /\ CanRequest
  /\ avail[p] # "OFFLINE"
  /\ current[p] = NoJob
  /\ Begin(Request("offline", NoJob, p))
  /\ UNCHANGED <<jobVars, rowVars, partnerVars, queue, waitTimer, crashes>>

\* ... as the partner was when it was read.
WriteOffline(c) ==
  /\ c.at = "offline"
  /\ avail' = [avail EXCEPT ![c.partner] = "OFFLINE"]
  /\ Finish(c)
  /\ UNCHANGED <<jobVars, rowVars, current, queue, waitTimer, crashes>>

\* markOfflineStale: the sweep of partners without a heartbeat, one statement.
MarkOfflineStale(p) ==
  /\ avail[p] # "OFFLINE"
  /\ current[p] = NoJob
  /\ avail' = [avail EXCEPT ![p] = "OFFLINE"]
  /\ UNCHANGED <<jobVars, rowVars, current, queue, waitTimer, calls, crashes>>

\* onWaitingCustomerTimeout.
WaitTimeout(j) ==
  /\ waitTimer[j] = "pending"
  /\ waitTimer' = [waitTimer EXCEPT ![j] = "done"]
  /\ IF status[j] = "PARTNER_ARRIVED"
       THEN Transition(j, "WAITING_CUSTOMER", SYSTEM)
       ELSE UNCHANGED <<status, holder, search>>
  /\ UNCHANGED <<deadline, rowVars, partnerVars, queue, calls, crashes>>

\* The TTL of an offer passes.
Lapse(j, o) ==
  /\ ~o.lapsed
  /\ offers' = WithOffer(j, o, {[o EXCEPT !.lapsed = TRUE]})
  /\ UNCHANGED <<jobVars, accepted, released, spent, partnerVars, queue, waitTimer, calls, crashes>>

\* The deadline of a search passes.
DeadlinePasses(j) ==
  /\ deadline[j].search # 0 /\ ~deadline[j].past
  /\ deadline' = [deadline EXCEPT ![j].past = TRUE]
  /\ UNCHANGED <<status, holder, search, rowVars, partnerVars, queue, waitTimer, calls, crashes>>

\* The process dies: requests are lost, transactions in progress roll back, and BullMQ
\* runs the queue jobs that had not finished again.
Crash ==
  /\ crashes < MaxCrashes
  /\ crashes' = crashes + 1
  /\ calls' = {}
  /\ queue' = queue \cup {Source(c) : c \in {d \in calls : d.origin # "http"}}
  /\ offers' = [j \in Jobs |-> {[o EXCEPT !.stage = "open"] : o \in offers[j]}]
  /\ UNCHANGED <<jobVars, accepted, released, spent, partnerVars, waitTimer>>

-----------------------------------------------------------------------------
Init ==
  /\ status    = [j \in Jobs |-> "DRAFT"]
  /\ holder    = [j \in Jobs |-> NoPartner]
  /\ search    = [j \in Jobs |-> 0]
  /\ deadline  = [j \in Jobs |-> [search |-> 0, past |-> FALSE]]
  /\ offers    = [j \in Jobs |-> {}]
  /\ accepted  = [j \in Jobs |-> {}]
  /\ released  = [j \in Jobs |-> {}]
  /\ spent     = [j \in Jobs |-> {}]
  /\ avail     \in [Partners -> {"ONLINE", "OFFLINE"}]
  /\ current   = [p \in Partners |-> NoJob]
  /\ queue     = {}
  /\ waitTimer = [j \in Jobs |-> "none"]
  /\ calls     = {}
  /\ crashes   = 0

\* The next operation of a handler in flight.
Step(c) ==
  \/ KickOff(c) \/ LeaveWave(c) \/ ChooseWave(c) \/ CreateOffers(c)
  \/ ReadExpired(c) \/ ExpireRows(c) \/ ResumeSearch(c)
  \/ ReadTimeout(c) \/ CancelTimedOut(c) \/ GiveUp(c)
  \/ ReadOpenOffers(c) \/ CancelOffers(c) \/ Unqueue(c) \/ Free(c)
  \/ Enqueue(c)
  \/ ReleaseJob(c) \/ ReleasePartner(c)
  \/ BeginByHand(c) \/ ReleasePrevious(c) \/ AssignByHand(c)
  \/ WriteOffline(c)

Answer(j, o) ==
  \/ CheckOffer(j, o) \/ ClaimOffer(j, o) \/ CommitAccept(j, o) \/ RefuseAccept(j, o)
  \/ Reject(j, o)

JobRequest(j) ==
  \/ Create(j) \/ Retry(j)
  \/ \E actor \in {CUSTOMER, PARTNER, ADMIN} : Cancel(j, actor)
  \/ Release(j) \/ EnRoute(j) \/ Arrive(j) \/ Start(j) \/ Complete(j)
  \/ \E p \in Partners : ManualAssign(j, p)
  \/ Redispatch(j)
  \/ \E to \in ForcedTargets : ForceStatus(j, to)

Next ==
  \/ \E e \in queue : PickUp(e)
  \/ \E c \in calls : Step(c)
  \/ \E j \in Jobs : \/ JobRequest(j)
                     \/ \E o \in offers[j] : Answer(j, o) \/ Lapse(j, o)
                     \/ WaitTimeout(j) \/ DeadlinePasses(j)
  \/ \E p \in Partners : GoOnline(p) \/ GoOffline(p) \/ MarkOfflineStale(p)
  \/ Crash

Spec == Init /\ [][Next]_vars

-----------------------------------------------------------------------------
(* Fairness: workers and handlers proceed, accepts finish, and time passes.   *)
(* Nothing obliges a customer, a partner or an administrator to do anything.  *)

StepFor(j, http) ==
  \E c \in calls : c.job = j /\ (c.origin = "http") = http /\ Step(c)

Fairness ==
  \A j \in Jobs :
    /\ WF_vars(StepFor(j, TRUE)) /\ WF_vars(StepFor(j, FALSE))
    /\ \A kind \in {"wave", "expire", "timeout"} :
         SF_vars(\E e \in queue : e.job = j /\ e.kind = kind /\ PickUp(e))
    /\ WF_vars(\E o \in offers[j] : o.stage # "open" /\ Answer(j, o))
    /\ WF_vars(\E o \in offers[j] : Lapse(j, o))
    /\ WF_vars(DeadlinePasses(j))

FairSpec == Spec /\ Fairness

-----------------------------------------------------------------------------
(* Properties.                                                               *)

JobsTyped ==
  /\ status \in [Jobs -> Statuses]
  /\ holder \in [Jobs -> Partners \cup {NoPartner}]
  /\ search \in [Jobs -> 0..MaxSearches]
  /\ deadline \in [Jobs -> [search : 0..MaxSearches, past : BOOLEAN]]

RowsTyped ==
  /\ offers \in [Jobs -> SUBSET Offer]
  /\ accepted \in [Jobs -> SUBSET RowId]
  /\ released \in [Jobs -> SUBSET RowId]
  /\ spent \in [Jobs -> SUBSET Partners]

PartnersTyped ==
  /\ avail \in [Partners -> {"ONLINE", "BUSY", "OFFLINE"}]
  /\ current \in [Partners -> Jobs \cup {NoJob}]

QueueTyped ==
  /\ queue \subseteq Entry
  /\ waitTimer \in [Jobs -> {"none", "pending", "done"}]

\* Every column, queue entry and handler in flight has its type: in particular no wave
\* beyond dispatch.max_waves is ever scheduled and no counter leaves its bound.
TypeOK ==
  /\ JobsTyped /\ RowsTyped /\ PartnersTyped /\ QueueTyped
  /\ calls \subseteq Call
  /\ crashes \in 0..MaxCrashes

\* PARTNER_BUSY_STATUSES of a mobility job: a partner is committed to it.
Held(j) == status[j] \in BeforeStart \cup {"IN_PROGRESS"}

\* The partner of a job in hand is recorded as being on that job: whatever accepts,
\* releases, cancellations and availability changes interleave, none of them may leave a
\* partner who is working looking free (and so offered, or assigned, a second job).
HolderIsBusy ==
  \A j \in Jobs : (Held(j) /\ holder[j] # NoPartner) => current[holder[j]] = j

\* The handlers that are going to take a job back from a partner, row and availability:
\* releaseByPartner, and manualAssign for the partner it reassigns the job from ...
TakesBack(c, p) ==
  \/ c.at = "released" /\ c.partner = p
  \/ c.at = "reassigned" /\ c.prev = p

\* ... and those that are going to free one: afterCancellation and afterCompletion too.
Frees(c, p) ==
  \/ TakesBack(c, p)
  \/ (c.at = "free" \/ c.then = "free") /\ c.partner = p

\* Conversely nobody stays occupied for nothing: a partner recorded as being on a job
\* holds it, or a handler that is going to free the partner is still in flight.  A crash
\* may have taken that handler: nothing frees the partner then.
BusyIsExplained ==
  crashes = 0 => \A p \in Partners : current[p] # NoJob =>
    \/ Held(current[p]) /\ holder[current[p]] = p
    \/ \E c \in calls : c.job = current[p] /\ Frees(c, p)

\* An ACCEPTED row names the partner of the job, or its handler is about to mark it
\* REASSIGNED.  A row left over would make the unique index refuse every later accept.
AcceptanceExplained ==
  \A j \in Jobs : \A r \in accepted[j] :
    \/ holder[j] = r.partner
    \/ \E c \in calls : c.job = j /\ TakesBack(c, r.partner)

\* A search is never abandoned: as long as a job is SEARCHING there is a queue entry, a
\* handler or an accept that will carry it on.
SearchAlive ==
  \A j \in Jobs : status[j] = "SEARCHING" =>
    \/ \E e \in queue : e.job = j
    \/ \E c \in calls : c.job = j
    \/ \E o \in offers[j] : o.stage # "open"

\* The requests that decide what a partner is on: an accept with its transaction open, and
\* the handlers that free the partner, release a job of the partner, or assign one.
Accepting(p) ==
  UNION {{<<j, o>> : o \in {x \in offers[j] : x.stage = "claimed" /\ x.partner = p}} : j \in Jobs}

Deciding(p) ==
  {c \in calls : \/ Frees(c, p)
                 \/ (c.at = "release" \/ c.then = "assign") /\ c.partner = p}

\* No two requests decide about one partner at the same time, as if each took a lock on
\* the partner before it reads and let go of it after its last write.  The code has no
\* such lock: this says which of its races the properties above do not survive.
PartnersApart ==
  \A p \in Partners : /\ \A x, y \in Accepting(p) : x = y
                      /\ \A c, d \in Deciding(p) : c = d
                      /\ Accepting(p) = {} \/ Deciding(p) = {}

\* Nor do two requests about one job run at the same time.
JobsApart ==
  \A c, d \in calls : (c.origin = "http" /\ d.origin = "http" /\ c.job = d.job) => c = d

\* An assignment by hand takes an idle job from nobody, as the client's version would see to
\* if manualAssign passed it on: with it, a job taken since the read would be refused.
TakesFromNobody == \A c \in calls : BeginByHand(c) => UNCHANGED holder
AssignsUntaken == [][TakesFromNobody]_vars

\* Every search ends: somebody is found, the job is cancelled, or the customer is told
\* that nobody is available.
SearchEnds ==
  \A j \in Jobs : status[j] = "SEARCHING" ~> status[j] # "SEARCHING"

\* A partner whose job is over is released from it.
PartnerFreed ==
  \A j \in Jobs, p \in Partners :
    (current[p] = j /\ status[j] \in {"COMPLETED", "CANCELLED"}) ~> current[p] # j

-----------------------------------------------------------------------------
(* The promise about ownership, and how the columns of a job stand for it.    *)

Open == {"DRAFT", "REQUESTED", "SEARCHING", "NO_PARTNER_AVAILABLE"}
Over == {"COMPLETED", "CANCELLED", "DISPUTED"}

Phase(s) ==
  CASE s \in Open        -> "open"
    [] s \in BeforeStart -> "held"
    [] s \in Over        -> "over"
    [] OTHER             -> "working"

Ownership == INSTANCE JobOwnership
               WITH phase <- [j \in Jobs |-> Phase(status[j])], partner <- holder

\* The engine keeps the promise of JobOwnership, unless an administrator forces ASSIGNED:
\* that transition connects no partner.  A job is taken only when it is open, given back
\* only before the work begins, and over for good.
OwnershipSpec == Ownership!Spec

\* A job names a partner exactly while one is committed to it: no transition, of any
\* actor, reaches a status of a trip without a partner or a search with one.
HolderMatchesPhase == Ownership!PartnerMatchesPhase

=============================================================================
