---------------------------- MODULE DispatchProofs ----------------------------
(***************************************************************************)
(* Theorems about Dispatch for any jobs, partners and bounds: its type     *)
(* correctness, that it implements JobOwnership, and that a job therefore  *)
(* has a partner exactly while one is committed to it.                     *)
(***************************************************************************)
EXTENDS Dispatch, TLAPS

-----------------------------------------------------------------------------
(* The table, as far as mobility jobs go.                                    *)

\* The legal moves of a mobility job, sorted by what they do to its ownership.
MovesOnlyAs(from, to) ==
  \/ from \in Open /\ to \in Open
  \/ from = "SEARCHING" /\ to = "ASSIGNED"
  \/ from \in BeforeStart /\ to \in BeforeStart /\ to # "ASSIGNED"
  \/ from \in BeforeStart /\ to = "SEARCHING"
  \/ from \in BeforeStart /\ to = "IN_PROGRESS"
  \/ from \notin Over /\ to \in Over
  \/ from \in Over /\ to \in Over

\* No row of JOB_TRANSITIONS moves a mobility job otherwise.
LEMMA MobilityMoves ==
  ASSUME NEW from, NEW to, NEW actor, CanMove(from, to, "MOBILITY", actor)
  PROVE  to \in Statuses /\ MovesOnlyAs(from, to)
<1>1. <<from, to, "MOBILITY", actor>> \in DispatchMoves => to \in Statuses /\ MovesOnlyAs(from, to)
  BY DEF DispatchMoves, MovesOnlyAs, Open, Over, BeforeStart, Statuses
<1>2. <<from, to, "MOBILITY", actor>> \in MovementMoves => to \in Statuses /\ MovesOnlyAs(from, to)
  BY DEF MovementMoves, MovesOnlyAs, Open, Over, BeforeStart, Statuses
<1>3. <<from, to, "MOBILITY", actor>> \notin HomeMoves
  BY DEF HomeMoves, HOME
<1>4. <<from, to, "MOBILITY", actor>> \in CancelMoves => to \in Statuses /\ MovesOnlyAs(from, to)
  BY DEF CancelMoves, MovesOnlyAs, Open, Over, BeforeStart, Statuses
<1>5. <<from, to, "MOBILITY", actor>> \in DisputeMoves => to \in Statuses /\ MovesOnlyAs(from, to)
  BY DEF DisputeMoves, MovesOnlyAs, Open, Over, BeforeStart, Statuses
<1>. QED
  BY <1>1, <1>2, <1>3, <1>4, <1>5 DEF CanMove, JOB_TRANSITIONS

-----------------------------------------------------------------------------
(* Handlers in flight.                                                       *)

\* A handler is well formed: beyond its type, the operations that use its partner, its
\* previous partner or its job have one, it has only what the operations before the one
\* it is at can have left it to do, and a worker runs nothing but waves and timers.
HandlerOK(c) ==
  /\ c \in Call
  /\ c.at = "offline" => c.origin = "http"
  /\ c.at # "offline" => c.job \in Jobs
  /\ c.at \in {"release", "released", "offline"} => c.partner \in Partners /\ c.then = "done"
  /\ c.at = "reassigned" => c.prev \in Partners /\ c.then = "assign"
  /\ (c.at = "assign" \/ c.then = "assign") => c.partner \in Partners
  /\ c.at = "assign" => c.then = "assign"
  /\ c.at = "begin" => c.then = "assign"
  /\ c.then = "assign" => c.at \in {"begin", "reassigned", "sweep", "swept", "unqueue", "assign"}
  /\ c.then = "free" => c.at \in {"sweep", "swept", "unqueue", "free"}
  /\ c.origin # "http" => c.at \in {"wave", "offer", "expire", "expired", "resume",
                                   "timeout", "giveup", "nobody"}

HandlersOK == \A c \in calls : HandlerOK(c)

\* The invariant that carries the type correctness of the handlers along.
TypeInv == TypeOK /\ HandlersOK

LEMMA BeginHandler ==
  ASSUME HandlersOK, NEW c, HandlerOK(c), Begin(c), DispatchAssumption
  PROVE  HandlersOK'
<1>1. PICK n \in 1..(MaxRequests + MaxWorkers) : calls' = calls \cup {[c EXCEPT !.id = n]}
  BY DEF Begin
<1>2. n \in 0..(MaxRequests + MaxWorkers)
  BY DEF DispatchAssumption
<1>3. HandlerOK([c EXCEPT !.id = n])
  BY <1>2 DEF HandlerOK, Call
<1>. QED
  BY <1>1, <1>3 DEF HandlersOK

LEMMA ContinueHandler ==
  ASSUME HandlersOK, NEW c, NEW d, HandlerOK(d), Continue(c, d)
  PROVE  HandlersOK'
BY DEF HandlersOK, Continue

LEMMA FinishHandler ==
  ASSUME HandlersOK, NEW c, Finish(c)
  PROVE  HandlersOK'
BY DEF HandlersOK, Finish

\* A request is a well-formed handler.
LEMMA NewRequest ==
  ASSUME DispatchAssumption, NEW at \in Labels, NEW j \in Jobs,
         NEW p \in Partners \cup {NoPartner},
         at \notin {"offline", "begin", "reassigned", "assign"},
         at \in {"release", "released"} => p \in Partners
  PROVE  HandlerOK(Request(at, j, p))
BY DEF DispatchAssumption, HandlerOK, Call, Request, Labels

\* So is an assignment by hand.
LEMMA AssignmentRequest ==
  ASSUME DispatchAssumption, NEW j \in Jobs, NEW p \in Partners,
         NEW at \in {"begin", "sweep", "reassigned"}, NEW prev \in Partners \cup {NoPartner},
         at = "reassigned" => prev \in Partners
  PROVE  HandlerOK(Assignment(at, j, p, prev))
BY DEF DispatchAssumption, HandlerOK, Call, Assignment, Labels

\* So is what a worker takes out of the queue.
LEMMA TakenEntry ==
  ASSUME NEW e \in Entry, DispatchAssumption
  PROVE  HandlerOK(Take(e))
BY DEF DispatchAssumption, HandlerOK, Call, Take, Entry, Labels

-----------------------------------------------------------------------------
(* What the shared operations keep.                                          *)

LEMMA TransitionTyped ==
  ASSUME DispatchAssumption, JobsTyped, NEW j \in Jobs, NEW to, NEW actor,
         Transition(j, to, actor), UNCHANGED deadline
  PROVE  JobsTyped'
<1>1. to \in Statuses
  BY MobilityMoves DEF Transition
<1>2. to = "SEARCHING" => search[j] + 1 \in 0..MaxSearches
  BY DEF Transition, JobsTyped, DispatchAssumption
<1>. QED
  BY <1>1, <1>2 DEF Transition, JobsTyped

LEMMA AssignmentTyped ==
  ASSUME JobsTyped, NEW j \in Jobs, NEW p \in Partners, NEW actor,
         TransitionToAssigned(j, p, actor), UNCHANGED deadline
  PROVE  JobsTyped'
BY DEF TransitionToAssigned, JobsTyped, Statuses

\* The identity of an offer is the identity of a row.
LEMMA OfferedRows ==
  ASSUME RowsTyped, NEW j \in Jobs
  PROVE  Offered(j) \subseteq RowId
<1>1. \A o \in Offer : Id(o) \in RowId
  BY DEF Offer, Id, RowId
<1>2. offers[j] \subseteq Offer
  BY DEF RowsTyped
<1>. QED
  BY <1>1, <1>2 DEF Offered

LEMMA CloseRowsTyped ==
  ASSUME RowsTyped, NEW j \in Jobs, NEW ids, CloseRows(j, ids)
  PROVE  RowsTyped'
<1>1. Offered(j) \cup accepted[j] \cup released[j] \subseteq RowId
  BY OfferedRows DEF RowsTyped
<1>2. \A r \in RowId : r.partner \in Partners
  BY DEF RowId
<1>3. {r.partner : r \in ids \cap (Offered(j) \cup accepted[j] \cup released[j])}
        \subseteq Partners
  BY <1>1, <1>2
<1>4. spent' \in [Jobs -> SUBSET Partners]
  BY <1>3 DEF CloseRows, RowsTyped
<1>5. offers' \in [Jobs -> SUBSET Offer]
  BY DEF CloseRows, RowsTyped
<1>6. accepted' \in [Jobs -> SUBSET RowId] /\ released' \in [Jobs -> SUBSET RowId]
  BY DEF CloseRows, RowsTyped
<1>. QED
  BY <1>4, <1>5, <1>6 DEF RowsTyped

LEMMA ReassignRowTyped ==
  ASSUME RowsTyped, NEW j \in Jobs, NEW p, ReassignRow(j, p), UNCHANGED <<offers, spent>>
  PROVE  RowsTyped'
BY DEF ReassignRow, RowsTyped

LEMMA SetFreeTyped ==
  ASSUME PartnersTyped, NEW p, SetFree(p)
  PROVE  PartnersTyped'
BY DEF SetFree, PartnersTyped

LEMMA SetBusyTyped ==
  ASSUME PartnersTyped, NEW p, NEW j \in Jobs, SetBusy(p, j)
  PROVE  PartnersTyped'
BY DEF SetBusy, PartnersTyped

LEMMA NextWaveTyped ==
  ASSUME DispatchAssumption, QueueTyped, HandlersOK, NEW c \in calls,
         c.at \in {"wave", "resume"}, ScheduleNextWave(c), UNCHANGED waitTimer
  PROVE  QueueTyped' /\ HandlersOK'
<1>1. HandlerOK(c)
  BY DEF HandlersOK
<1>2. CASE c.wave >= MaxWaves
  <2>1. HandlerOK([c EXCEPT !.at = "timeout", !.rows = {}])
    BY <1>1 DEF HandlerOK, Call, Labels
  <2>. QED
    BY <1>2, <2>1, ContinueHandler DEF ScheduleNextWave, QueueTyped
<1>3. CASE ~(c.wave >= MaxWaves)
  <2>1. WaveEntry(c.job, c.wave + 1) \in Entry
    BY <1>1, <1>3 DEF WaveEntry, Entry, HandlerOK, Call, DispatchAssumption
  <2>. QED
    BY <1>3, <2>1, FinishHandler DEF ScheduleNextWave, QueueTyped
<1>. QED
  BY <1>2, <1>3

LEMMA SourceTyped ==
  ASSUME DispatchAssumption, NEW c, HandlerOK(c), c.origin # "http"
  PROVE  Source(c) \in Entry
BY DEF DispatchAssumption, HandlerOK, Call, Source, Entry

LEMMA ThrowTyped ==
  ASSUME DispatchAssumption, QueueTyped, HandlersOK, NEW c \in calls, Throw(c),
         UNCHANGED waitTimer
  PROVE  QueueTyped' /\ HandlersOK'
<1>1. HandlersOK'
  BY FinishHandler DEF Throw
<1>2. c.origin # "http" => Source(c) \in Entry
  BY SourceTyped DEF HandlersOK
<1>3. QueueTyped'
  BY <1>2 DEF Throw, QueueTyped
<1>. QED
  BY <1>1, <1>3

-----------------------------------------------------------------------------
(* Every action keeps TypeInv.                                               *)

\* Well-formed handlers are handlers, so the calls conjunct of TypeOK comes for free.
LEMMA TypeInvParts ==
  ASSUME TypeInv
  PROVE  /\ JobsTyped /\ RowsTyped /\ PartnersTyped /\ QueueTyped
         /\ HandlersOK /\ crashes \in 0..MaxCrashes
BY DEF TypeInv, TypeOK

LEMMA TypeInvNext ==
  ASSUME JobsTyped', RowsTyped', PartnersTyped', QueueTyped', HandlersOK',
         crashes' \in 0..MaxCrashes
  PROVE  TypeInv'
BY DEF TypeInv, TypeOK, HandlersOK, HandlerOK

\* The handler of a wave.
LEMMA WaveStepTyped ==
  ASSUME DispatchAssumption, TypeInv, NEW c \in calls,
         KickOff(c) \/ LeaveWave(c) \/ ChooseWave(c) \/ CreateOffers(c)
  PROVE  TypeInv'
<1>. USE TypeInvParts, TypeInvNext
<1>1. HandlerOK(c) /\ c.at \in {"wave", "offer"} /\ c.job \in Jobs
  BY DEF HandlersOK, HandlerOK, KickOff, LeaveWave, ChooseWave, CreateOffers
<1>2. CASE KickOff(c)
  <2>1. search[c.job] + 1 \in 0..MaxSearches /\ 0 \in 0..MaxWaves
    BY <1>1, <1>2 DEF KickOff, CanKickOff, JobsTyped, DispatchAssumption
  <2>2. JobsTyped'
    BY <1>1, <1>2, <2>1 DEF KickOff, Transition, JobsTyped, Statuses
  <2>3. QueueTyped'
    BY <1>1, <1>2, <2>1 DEF KickOff, QueueTyped, TimeoutEntry, Entry
  <2>4. RowsTyped' /\ PartnersTyped' /\ HandlersOK' /\ crashes' = crashes
    BY <1>2 DEF KickOff, rowVars, partnerVars, RowsTyped, PartnersTyped, HandlersOK
  <2>. QED
    BY <2>2, <2>3, <2>4
<1>3. CASE LeaveWave(c)
  <2>1. HandlersOK'
    BY <1>3, FinishHandler DEF LeaveWave
  <2>2. /\ JobsTyped' /\ RowsTyped' /\ PartnersTyped' /\ QueueTyped' /\ crashes' = crashes
    BY <1>3 DEF LeaveWave, jobVars, rowVars, partnerVars, JobsTyped, RowsTyped,
                PartnersTyped, QueueTyped
  <2>. QED
    BY <2>1, <2>2
<1>4. CASE ChooseWave(c)
  <2>1. JobsTyped' /\ RowsTyped' /\ PartnersTyped' /\ waitTimer' = waitTimer
          /\ crashes' = crashes
    BY <1>4 DEF ChooseWave, jobVars, rowVars, partnerVars, JobsTyped, RowsTyped, PartnersTyped
  <2>2. QueueTyped' /\ HandlersOK'
    <3>1. CASE Continue(c, [c EXCEPT !.at = "timeout"]) /\ UNCHANGED queue
      <4>1. HandlerOK([c EXCEPT !.at = "timeout"])
        BY <1>1 DEF HandlerOK, Call, Labels
      <4>. QED
        BY <2>1, <3>1, <4>1, ContinueHandler DEF QueueTyped
    <3>2. CASE ScheduleNextWave(c)
      BY <1>4, <2>1, <3>2, NextWaveTyped DEF ChooseWave
    <3>3. ASSUME NEW chosen \in SUBSET Candidates(c.job), UNCHANGED queue,
                 Continue(c, [c EXCEPT !.at = "offer", !.rows =
                   {[partner |-> p, wave |-> c.wave, search |-> search[c.job]] : p \in chosen}])
          PROVE  QueueTyped' /\ HandlersOK'
      <4>. DEFINE rows ==
             {[partner |-> p, wave |-> c.wave, search |-> search[c.job]] : p \in chosen}
      <4>1. chosen \subseteq Partners
        BY DEF Candidates
      <4>2. c.wave \in 0..MaxWaves /\ search[c.job] \in 0..MaxSearches
        BY <1>1 DEF HandlerOK, Call, JobsTyped
      <4>3. rows \in SUBSET RowId
        BY <4>1, <4>2 DEF RowId
      <4>. HIDE DEF rows
      <4>4. HandlerOK([c EXCEPT !.at = "offer", !.rows = rows])
        BY <1>1, <4>3 DEF HandlerOK, Call, Labels
      <4>. QED
        BY <2>1, <3>3, <4>4, ContinueHandler DEF QueueTyped, rows
    <3>. QED
      BY <1>4, <3>1, <3>2, <3>3 DEF ChooseWave
  <2>. QED
    BY <2>1, <2>2
<1>5. CASE CreateOffers(c)
  <2>. DEFINE new == {[partner |-> r.partner, wave |-> r.wave, search |-> r.search,
                       lapsed |-> FALSE, stage |-> "open"] : r \in c.rows}
  <2>1. JobsTyped' /\ PartnersTyped' /\ waitTimer' = waitTimer /\ crashes' = crashes
    BY <1>5 DEF CreateOffers, jobVars, partnerVars, JobsTyped, PartnersTyped
  <2>2. c.rows \subseteq RowId /\ c.wave \in 0..MaxWaves
    BY <1>1 DEF HandlerOK, Call
  <2>3. new \subseteq Offer
    <3>1. ASSUME NEW r \in c.rows
          PROVE  [partner |-> r.partner, wave |-> r.wave, search |-> r.search,
                  lapsed |-> FALSE, stage |-> "open"] \in Offer
      <4>1. /\ r.partner \in Partners /\ r.wave \in 0..MaxWaves
            /\ r.search \in 0..MaxSearches /\ FALSE \in BOOLEAN
        BY <2>2 DEF RowId
      <4>. QED
        BY <4>1 DEF Offer
    <3>. QED
      BY <3>1
  <2>4. RowsTyped'
    <3>. HIDE DEF new
    <3>1. offers' = offers \/ offers' = [offers EXCEPT ![c.job] = @ \cup new]
      BY <1>5 DEF CreateOffers, new
    <3>2. offers' \in [Jobs -> SUBSET Offer]
      BY <2>3, <3>1 DEF RowsTyped
    <3>. QED
      BY <1>5, <3>2 DEF CreateOffers, RowsTyped
  <2>5. QueueTyped' /\ HandlersOK'
    <3>1. CASE Throw(c)
      BY <2>1, <3>1, ThrowTyped
    <3>2. CASE /\ Finish(c)
               /\ \E r \in c.rows : queue' = queue \cup {ExpireEntry(c.job, c.wave, r.search)}
      <4>1. \A r \in c.rows : ExpireEntry(c.job, c.wave, r.search) \in Entry
        BY <1>1, <2>2 DEF ExpireEntry, Entry, RowId
      <4>. QED
        BY <2>1, <3>2, <4>1, FinishHandler DEF QueueTyped
    <3>. QED
      BY <1>5, <3>1, <3>2 DEF CreateOffers
  <2>. QED
    BY <2>1, <2>4, <2>5
<1>. QED
  BY <1>2, <1>3, <1>4, <1>5

\* The handlers that end the offers of a wave and a search.
LEMMA ExpiryStepTyped ==
  ASSUME DispatchAssumption, TypeInv, NEW c \in calls,
         \/ ReadExpired(c) \/ ExpireRows(c) \/ ResumeSearch(c)
         \/ ReadTimeout(c) \/ CancelTimedOut(c) \/ GiveUp(c)
  PROVE  TypeInv'
<1>. USE TypeInvParts, TypeInvNext
<1>1. /\ HandlerOK(c) /\ c.job \in Jobs
      /\ c.at \in {"expire", "expired", "resume", "timeout", "giveup", "nobody"}
  BY DEF HandlersOK, HandlerOK, ReadExpired, ExpireRows, ResumeSearch, ReadTimeout,
         CancelTimedOut, GiveUp
<1>2. PartnersTyped' /\ waitTimer' = waitTimer /\ crashes' = crashes
  BY DEF ReadExpired, ExpireRows, ResumeSearch, ReadTimeout, CancelTimedOut, GiveUp,
         partnerVars, PartnersTyped
<1>3. ASSUME NEW rows \in SUBSET RowId
      PROVE  /\ HandlerOK([c EXCEPT !.at = "expired", !.rows = rows])
             /\ HandlerOK([c EXCEPT !.at = "giveup", !.rows = rows])
  <2>1. HandlerOK([c EXCEPT !.at = "expired", !.rows = rows])
    BY <1>1 DEF HandlerOK, Call, Labels
  <2>2. HandlerOK([c EXCEPT !.at = "giveup", !.rows = rows])
    BY <1>1 DEF HandlerOK, Call, Labels
  <2>. QED
    BY <2>1, <2>2
<1>4. \A at \in {"resume", "nobody"} : HandlerOK([c EXCEPT !.at = at, !.rows = {}])
  BY <1>1 DEF HandlerOK, Call, Labels
<1>5. CASE ReadExpired(c)
  <2>1. {r \in Offered(c.job) : r.wave = c.wave} \in SUBSET RowId
    BY <1>1, OfferedRows
  <2>2. HandlersOK'
    BY <1>3, <1>5, <2>1, ContinueHandler DEF ReadExpired
  <2>. QED
    BY <1>2, <1>5, <2>2 DEF ReadExpired, jobVars, rowVars, JobsTyped, RowsTyped, QueueTyped
<1>6. CASE ExpireRows(c)
  <2>1. HandlersOK'
    BY <1>4, <1>6, ContinueHandler DEF ExpireRows
  <2>2. RowsTyped'
    BY <1>1, <1>6, CloseRowsTyped DEF ExpireRows
  <2>. QED
    BY <1>2, <1>6, <2>1, <2>2 DEF ExpireRows, jobVars, JobsTyped, QueueTyped
<1>7. CASE ResumeSearch(c)
  <2>1. QueueTyped' /\ HandlersOK'
    <3>1. HandlerOK([c EXCEPT !.at = "timeout"])
      BY <1>1 DEF HandlerOK, Call, Labels
    <3>2. CASE Continue(c, [c EXCEPT !.at = "timeout"]) /\ UNCHANGED queue
      BY <1>2, <3>1, <3>2, ContinueHandler DEF QueueTyped
    <3>3. CASE ScheduleNextWave(c)
      BY <1>2, <1>7, <3>3, NextWaveTyped DEF ResumeSearch
    <3>4. CASE Finish(c) /\ UNCHANGED queue
      BY <1>2, <3>4, FinishHandler DEF QueueTyped
    <3>. QED
      BY <1>7, <3>2, <3>3, <3>4 DEF ResumeSearch
  <2>. QED
    BY <1>2, <1>7, <2>1 DEF ResumeSearch, jobVars, rowVars, JobsTyped, RowsTyped
<1>8. CASE ReadTimeout(c)
  <2>1. Offered(c.job) \in SUBSET RowId
    BY <1>1, OfferedRows
  <2>2. HandlersOK'
    BY <1>3, <1>8, <2>1, ContinueHandler, FinishHandler DEF ReadTimeout
  <2>. QED
    BY <1>2, <1>8, <2>2 DEF ReadTimeout, jobVars, rowVars, JobsTyped, RowsTyped, QueueTyped
<1>9. CASE CancelTimedOut(c)
  <2>1. HandlersOK'
    BY <1>4, <1>9, ContinueHandler DEF CancelTimedOut
  <2>2. RowsTyped'
    BY <1>1, <1>9, CloseRowsTyped DEF CancelTimedOut
  <2>. QED
    BY <1>2, <1>9, <2>1, <2>2 DEF CancelTimedOut, jobVars, JobsTyped, QueueTyped
<1>10. CASE GiveUp(c)
  <2>1. JobsTyped'
    <3>1. CASE Transition(c.job, "NO_PARTNER_AVAILABLE", SYSTEM)
      BY <1>1, <1>10, <3>1, TransitionTyped DEF GiveUp
    <3>2. CASE UNCHANGED <<status, holder, search>>
      BY <1>10, <3>2 DEF GiveUp, JobsTyped
    <3>. QED
      BY <1>10, <3>1, <3>2 DEF GiveUp
  <2>2. QueueTyped' /\ HandlersOK'
    BY <1>2, <1>10, FinishHandler, ThrowTyped DEF GiveUp, QueueTyped
  <2>. QED
    BY <1>2, <1>10, <2>1, <2>2 DEF GiveUp, rowVars, RowsTyped
<1>. QED
  BY <1>5, <1>6, <1>7, <1>8, <1>9, <1>10

\* cancel() and what its callers do afterwards.
LEMMA SweepStepTyped ==
  ASSUME DispatchAssumption, TypeInv, NEW c \in calls,
         \/ ReadOpenOffers(c) \/ CancelOffers(c) \/ Unqueue(c) \/ Free(c)
         \/ Enqueue(c) \/ WriteOffline(c)
  PROVE  TypeInv'
<1>. USE TypeInvParts, TypeInvNext
<1>1. HandlerOK(c) /\ (c.at # "offline" => c.job \in Jobs)
  BY DEF HandlersOK, HandlerOK
<1>2. crashes' = crashes /\ JobsTyped' /\ waitTimer' = waitTimer
  BY DEF ReadOpenOffers, CancelOffers, Unqueue, Free, Enqueue, WriteOffline, jobVars, JobsTyped
<1>3. CASE ReadOpenOffers(c)
  <2>1. Offered(c.job) \in SUBSET RowId
    BY <1>1, <1>3, OfferedRows DEF ReadOpenOffers
  <2>2. HandlerOK([c EXCEPT !.at = "swept", !.rows = Offered(c.job)])
    BY <1>1, <1>3, <2>1 DEF ReadOpenOffers, HandlerOK, Call, Labels
  <2>3. HandlersOK'
    BY <1>3, <2>2, ContinueHandler DEF ReadOpenOffers
  <2>. QED
    BY <1>2, <1>3, <2>3 DEF ReadOpenOffers, rowVars, partnerVars, RowsTyped, PartnersTyped,
       QueueTyped
<1>4. CASE CancelOffers(c)
  <2>1. HandlerOK([c EXCEPT !.at = "unqueue", !.rows = {}])
    BY <1>1, <1>4 DEF CancelOffers, HandlerOK, Call, Labels
  <2>2. HandlersOK'
    BY <1>4, <2>1, ContinueHandler DEF CancelOffers
  <2>3. RowsTyped'
    BY <1>1, <1>4, CloseRowsTyped DEF CancelOffers
  <2>. QED
    BY <1>2, <1>4, <2>2, <2>3 DEF CancelOffers, partnerVars, PartnersTyped, QueueTyped
<1>5. CASE Unqueue(c)
  <2>1. c.then # "done" => HandlerOK([c EXCEPT !.at = c.then])
    BY <1>1, <1>5 DEF Unqueue, HandlerOK, Call, Labels
  <2>2. HandlersOK'
    BY <1>5, <2>1, ContinueHandler, FinishHandler DEF Unqueue
  <2>. QED
    BY <1>2, <1>5, <2>2 DEF Unqueue, rowVars, partnerVars, RowsTyped, PartnersTyped, QueueTyped
<1>6. CASE Free(c)
  <2>1. PartnersTyped'
    BY <1>6, SetFreeTyped DEF Free, partnerVars, PartnersTyped
  <2>2. HandlersOK'
    BY <1>6, FinishHandler DEF Free
  <2>. QED
    BY <1>2, <1>6, <2>1, <2>2 DEF Free, rowVars, RowsTyped, QueueTyped
<1>7. CASE Enqueue(c)
  <2>1. WaveEntry(c.job, 1) \in Entry
    BY <1>1, <1>7 DEF Enqueue, WaveEntry, Entry, DispatchAssumption
  <2>2. HandlersOK'
    BY <1>7, FinishHandler DEF Enqueue
  <2>. QED
    BY <1>2, <1>7, <2>1, <2>2 DEF Enqueue, rowVars, partnerVars, RowsTyped, PartnersTyped,
       QueueTyped
<1>8. CASE WriteOffline(c)
  <2>1. HandlersOK'
    BY <1>8, FinishHandler DEF WriteOffline
  <2>. QED
    BY <1>2, <1>8, <2>1 DEF WriteOffline, rowVars, RowsTyped, PartnersTyped, QueueTyped
<1>. QED
  BY <1>3, <1>4, <1>5, <1>6, <1>7, <1>8

\* releaseByPartner and manualAssign after their first operation.
LEMMA HandoverStepTyped ==
  ASSUME DispatchAssumption, TypeInv, NEW c \in calls,
         \/ ReleaseJob(c) \/ ReleasePartner(c)
         \/ BeginByHand(c) \/ ReleasePrevious(c) \/ AssignByHand(c)
  PROVE  TypeInv'
<1>. USE TypeInvParts, TypeInvNext
<1>1. /\ HandlerOK(c) /\ c.job \in Jobs
      /\ c.at \in {"release", "released", "begin", "reassigned", "assign"}
  BY DEF HandlersOK, HandlerOK, ReleaseJob, ReleasePartner, BeginByHand, ReleasePrevious,
     AssignByHand
<1>2. crashes' = crashes /\ QueueTyped'
  BY DEF ReleaseJob, ReleasePartner, BeginByHand, ReleasePrevious, AssignByHand, QueueTyped
<1>3. CASE ReleaseJob(c)
  <2>1. HandlerOK([c EXCEPT !.at = "released"])
    BY <1>1, <1>3 DEF ReleaseJob, HandlerOK, Call, Labels
  <2>2. HandlersOK'
    BY <1>3, <2>1, ContinueHandler, FinishHandler DEF ReleaseJob
  <2>3. JobsTyped'
    <3>1. CASE Transition(c.job, "SEARCHING", PARTNER)
      BY <1>1, <1>3, <3>1, TransitionTyped DEF ReleaseJob
    <3>2. CASE UNCHANGED <<status, holder, search>>
      BY <1>3, <3>2 DEF ReleaseJob, JobsTyped
    <3>. QED
      BY <1>3, <3>1, <3>2 DEF ReleaseJob
  <2>. QED
    BY <1>2, <1>3, <2>2, <2>3 DEF ReleaseJob, rowVars, partnerVars, RowsTyped, PartnersTyped
<1>4. CASE ReleasePartner(c)
  <2>1. HandlerOK([c EXCEPT !.at = "wave", !.partner = NoPartner])
    BY <1>1, <1>4 DEF ReleasePartner, HandlerOK, Call, Labels
  <2>2. HandlersOK'
    BY <1>4, <2>1, ContinueHandler DEF ReleasePartner
  <2>3. RowsTyped' /\ PartnersTyped'
    BY <1>1, <1>4, ReassignRowTyped, SetFreeTyped DEF ReleasePartner
  <2>. QED
    BY <1>2, <1>4, <2>2, <2>3 DEF ReleasePartner, jobVars, JobsTyped
<1>5. CASE ReleasePrevious(c)
  <2>1. HandlerOK([c EXCEPT !.at = "sweep", !.prev = NoPartner])
    BY <1>1, <1>5 DEF ReleasePrevious, HandlerOK, Call, Labels
  <2>2. HandlersOK'
    BY <1>5, <2>1, ContinueHandler DEF ReleasePrevious
  <2>3. RowsTyped' /\ PartnersTyped'
    BY <1>1, <1>5, ReassignRowTyped, SetFreeTyped DEF ReleasePrevious
  <2>. QED
    BY <1>2, <1>5, <2>2, <2>3 DEF ReleasePrevious, jobVars, JobsTyped
<1>6. CASE AssignByHand(c)
  <2>1. HandlersOK'
    BY <1>6, FinishHandler DEF AssignByHand
  <2>2. CASE UNCHANGED <<status, holder, search, accepted, partnerVars>>
    BY <1>2, <1>6, <2>1, <2>2 DEF AssignByHand, partnerVars, JobsTyped, RowsTyped, PartnersTyped
  <2>3. CASE /\ TransitionToAssigned(c.job, c.partner, ADMIN)
             /\ accepted' = [accepted EXCEPT ![c.job] =
                   {[partner |-> c.partner, wave |-> 0, search |-> search[c.job]]}]
             /\ SetBusy(c.partner, c.job)
    <3>1. c.partner \in Partners
      BY <1>1, <1>6 DEF HandlerOK, AssignByHand
    <3>2. JobsTyped' /\ PartnersTyped'
      BY <1>1, <1>6, <2>3, <3>1, AssignmentTyped, SetBusyTyped DEF AssignByHand
    <3>3. [partner |-> c.partner, wave |-> 0, search |-> search[c.job]] \in RowId
      BY <1>1, <3>1 DEF RowId, JobsTyped, DispatchAssumption
    <3>4. RowsTyped'
      BY <1>6, <2>3, <3>3 DEF AssignByHand, RowsTyped
    <3>. QED
      BY <1>2, <2>1, <3>2, <3>4
  <2>. QED
    BY <1>6, <2>2, <2>3 DEF AssignByHand
<1>7. CASE BeginByHand(c)
  <2>1. HandlerOK([c EXCEPT !.at = "sweep"])
    BY <1>1, <1>7 DEF BeginByHand, HandlerOK, Call, Labels
  <2>2. HandlersOK'
    BY <1>7, <2>1, ContinueHandler, FinishHandler DEF BeginByHand
  <2>3. JobsTyped'
    <3>1. CASE Transition(c.job, "SEARCHING", ADMIN)
      BY <1>1, <1>7, <3>1, TransitionTyped DEF BeginByHand
    <3>2. CASE UNCHANGED <<status, holder, search>>
      BY <1>7, <3>2 DEF BeginByHand, JobsTyped
    <3>. QED
      BY <1>7, <3>1, <3>2 DEF BeginByHand
  <2>. QED
    BY <1>2, <1>7, <2>2, <2>3 DEF BeginByHand, rowVars, partnerVars, RowsTyped, PartnersTyped
<1>. QED
  BY <1>3, <1>4, <1>5, <1>6, <1>7

\* A worker takes an entry.
LEMMA PickUpTyped ==
  ASSUME DispatchAssumption, TypeInv, NEW e \in queue, PickUp(e)
  PROVE  TypeInv'
<1>. USE TypeInvParts, TypeInvNext
<1>1. e \in Entry
  BY DEF QueueTyped
<1>2. HandlersOK'
  BY <1>1, TakenEntry, BeginHandler DEF PickUp
<1>. QED
  BY <1>2 DEF PickUp, jobVars, rowVars, partnerVars, JobsTyped, RowsTyped, PartnersTyped,
     QueueTyped

\* The requests about a job that begin a handler.
LEMMA OpeningTyped ==
  ASSUME DispatchAssumption, TypeInv, NEW j \in Jobs,
         \/ Create(j) \/ Retry(j) \/ Release(j) \/ Complete(j) \/ Redispatch(j)
         \/ \E actor \in {CUSTOMER, PARTNER, ADMIN} : Cancel(j, actor)
         \/ \E p \in Partners : ManualAssign(j, p)
  PROVE  TypeInv'
<1>. USE TypeInvParts, TypeInvNext
<1>1. PartnersTyped' /\ QueueTyped' /\ crashes' = crashes
  BY DEF Create, Retry, Release, Complete, Redispatch, Cancel, ManualAssign, partnerVars,
         PartnersTyped, QueueTyped
<1>2. holder[j] \in Partners \cup {NoPartner}
  BY DEF JobsTyped
<1>3. CASE Create(j)
  <2>1. HandlerOK(Request("enqueue", j, NoPartner))
    BY NewRequest DEF Labels
  <2>2. JobsTyped' /\ HandlersOK'
    BY <1>3, <2>1, TransitionTyped, BeginHandler DEF Create
  <2>. QED
    BY <1>1, <1>3, <2>2 DEF Create, rowVars, RowsTyped
<1>4. CASE Retry(j)
  <2>1. HandlerOK(Request("wave", j, NoPartner))
    BY NewRequest DEF Labels
  <2>2. HandlersOK'
    BY <1>4, <2>1, BeginHandler DEF Retry
  <2>. QED
    BY <1>1, <1>4, <2>2 DEF Retry, jobVars, JobsTyped, RowsTyped
<1>5. CASE Release(j)
  <2>1. HandlerOK(Request("release", j, holder[j]))
    BY <1>2, <1>5, NewRequest DEF Release, Labels
  <2>2. HandlersOK'
    BY <1>5, <2>1, BeginHandler DEF Release
  <2>. QED
    BY <1>1, <1>5, <2>2 DEF Release, jobVars, rowVars, JobsTyped, RowsTyped
<1>6. CASE Complete(j)
  <2>1. HandlerOK(Request("free", j, holder[j]))
    BY <1>2, NewRequest DEF Labels
  <2>2. JobsTyped' /\ HandlersOK'
    BY <1>6, <2>1, TransitionTyped, BeginHandler DEF Complete
  <2>. QED
    BY <1>1, <1>6, <2>2 DEF Complete, rowVars, RowsTyped
<1>7. CASE Redispatch(j)
  <2>1. HandlerOK(Request("wave", j, NoPartner))
    BY NewRequest DEF Labels
  <2>2. HandlersOK'
    BY <1>7, <2>1, BeginHandler DEF Redispatch
  <2>. QED
    BY <1>1, <1>7, <2>2 DEF Redispatch, jobVars, rowVars, JobsTyped, RowsTyped
<1>8. ASSUME NEW actor \in {CUSTOMER, PARTNER, ADMIN}, Cancel(j, actor)
      PROVE  TypeInv'
  <2>1. HandlerOK(Request("sweep", j, holder[j]))
    BY <1>2, NewRequest DEF Labels
  <2>2. HandlerOK([Request("sweep", j, holder[j]) EXCEPT !.then = "free"])
    BY <2>1 DEF Request, HandlerOK, Call
  <2>3. JobsTyped' /\ HandlersOK'
    BY <1>8, <2>2, TransitionTyped, BeginHandler DEF Cancel
  <2>. QED
    BY <1>1, <1>8, <2>3 DEF Cancel, rowVars, RowsTyped
<1>9. ASSUME NEW p \in Partners, ManualAssign(j, p)
      PROVE  TypeInv'
  <2>1. \E at \in {"begin", "sweep", "reassigned"}, prev \in Partners \cup {NoPartner} :
          /\ at = "reassigned" => prev \in Partners
          /\ Begin(Assignment(at, j, p, prev))
    BY <1>2, <1>9 DEF ManualAssign
  <2>2. PICK at \in {"begin", "sweep", "reassigned"}, prev \in Partners \cup {NoPartner} :
          /\ at = "reassigned" => prev \in Partners
          /\ Begin(Assignment(at, j, p, prev))
    BY <2>1
  <2>3. HandlersOK'
    BY <2>2, AssignmentRequest, BeginHandler
  <2>4. JobsTyped'
    BY <1>9, TransitionTyped DEF ManualAssign, JobsTyped
  <2>. QED
    BY <1>1, <1>9, <2>3, <2>4 DEF ManualAssign, rowVars, RowsTyped
<1>. QED
  BY <1>3, <1>4, <1>5, <1>6, <1>7, <1>8, <1>9

\* The steps of a trip and the timer of a waiting partner: one transition each.
LEMMA TripTyped ==
  ASSUME DispatchAssumption, TypeInv, NEW j \in Jobs,
         \/ EnRoute(j) \/ Arrive(j) \/ Start(j) \/ WaitTimeout(j) \/ DeadlinePasses(j)
         \/ \E to \in ForcedTargets : ForceStatus(j, to)
  PROVE  TypeInv'
<1>. USE TypeInvParts, TypeInvNext
<1>1. RowsTyped' /\ PartnersTyped' /\ HandlersOK' /\ crashes' = crashes
  BY DEF EnRoute, Arrive, Start, WaitTimeout, DeadlinePasses, ForceStatus, rowVars,
         partnerVars, RowsTyped, PartnersTyped, HandlersOK
<1>2. QueueTyped'
  BY DEF EnRoute, Arrive, Start, WaitTimeout, DeadlinePasses, ForceStatus, QueueTyped
<1>3. JobsTyped'
  <2>1. CASE DeadlinePasses(j)
    BY <2>1 DEF DeadlinePasses, JobsTyped
  <2>2. CASE UNCHANGED <<status, holder, search, deadline>>
    BY <2>2 DEF JobsTyped
  <2>3. ASSUME NEW to, NEW actor, Transition(j, to, actor), UNCHANGED deadline
        PROVE  JobsTyped'
    BY <2>3, TransitionTyped
  <2>. QED
    BY <2>1, <2>2, <2>3 DEF EnRoute, Arrive, Start, WaitTimeout, ForceStatus
<1>. QED
  BY <1>1, <1>2, <1>3

\* Replacing an offer by another of the same row, or removing it.
LEMMA WithOfferTyped ==
  ASSUME RowsTyped, NEW j \in Jobs, NEW o, NEW q \in SUBSET Offer,
         offers' = WithOffer(j, o, q), UNCHANGED <<accepted, released>>,
         spent' \in [Jobs -> SUBSET Partners]
  PROVE  RowsTyped'
BY DEF WithOffer, RowsTyped

\* The answers of a partner.
LEMMA AnswerTyped ==
  ASSUME DispatchAssumption, TypeInv, NEW j \in Jobs, NEW o \in offers[j],
         Answer(j, o) \/ Lapse(j, o)
  PROVE  TypeInv'
<1>. USE TypeInvParts, TypeInvNext
<1>1. o \in Offer /\ o.partner \in Partners
  BY DEF RowsTyped, Offer
<1>2. /\ [o EXCEPT !.stage = "open"] \in Offer
      /\ [o EXCEPT !.stage = "checked"] \in Offer
      /\ [o EXCEPT !.stage = "claimed"] \in Offer
      /\ [o EXCEPT !.lapsed = TRUE] \in Offer
  BY <1>1 DEF Offer
<1>3. CASE CommitAccept(j, o)
  <2>1. JobsTyped' /\ PartnersTyped'
    BY <1>1, <1>3, AssignmentTyped, SetBusyTyped DEF CommitAccept
  <2>2. HandlerOK(Request("sweep", j, o.partner))
    BY <1>1, NewRequest DEF Labels
  <2>3. HandlersOK'
    BY <1>3, <2>2, BeginHandler DEF CommitAccept
  <2>4. Id(o) \in RowId /\ Offered(j) \subseteq RowId
    BY <1>1, OfferedRows DEF Id, RowId, Offer
  <2>5. {r.partner : r \in Offered(j) \ {Id(o)}} \subseteq Partners
    BY <2>4 DEF RowId
  <2>6. RowsTyped'
    BY <1>3, <2>4, <2>5 DEF CommitAccept, RowsTyped
  <2>. QED
    BY <1>3, <2>1, <2>3, <2>6 DEF CommitAccept, QueueTyped
<1>4. CASE Reject(j, o)
  <2>1. spent' \in [Jobs -> SUBSET Partners]
    BY <1>1, <1>4 DEF Reject, RowsTyped
  <2>2. RowsTyped'
    BY <1>4, <2>1, WithOfferTyped DEF Reject
  <2>. QED
    BY <1>4, <2>2 DEF Reject, jobVars, partnerVars, JobsTyped, PartnersTyped, QueueTyped,
       HandlersOK
<1>5. CASE CheckOffer(j, o) \/ ClaimOffer(j, o) \/ RefuseAccept(j, o) \/ Lapse(j, o)
  <2>1. PICK q \in SUBSET Offer : offers' = WithOffer(j, o, q)
    BY <1>2, <1>5 DEF CheckOffer, ClaimOffer, RefuseAccept, Lapse
  <2>2. /\ UNCHANGED <<accepted, released, spent, queue, waitTimer, calls, crashes>>
        /\ UNCHANGED jobVars /\ UNCHANGED partnerVars
    BY <1>5 DEF CheckOffer, ClaimOffer, RefuseAccept, Lapse
  <2>3. spent' \in [Jobs -> SUBSET Partners]
    BY <2>2 DEF RowsTyped
  <2>4. RowsTyped'
    BY <2>1, <2>2, <2>3, WithOfferTyped
  <2>. QED
    BY <2>2, <2>4 DEF jobVars, partnerVars, JobsTyped, PartnersTyped, QueueTyped, HandlersOK
<1>. QED
  BY <1>3, <1>4, <1>5 DEF Answer

\* Availability.
LEMMA AvailabilityTyped ==
  ASSUME DispatchAssumption, TypeInv, NEW p \in Partners,
         GoOnline(p) \/ GoOffline(p) \/ MarkOfflineStale(p)
  PROVE  TypeInv'
<1>. USE TypeInvParts, TypeInvNext
<1>1. /\ UNCHANGED <<queue, waitTimer, crashes>>
      /\ UNCHANGED jobVars /\ UNCHANGED rowVars
  BY DEF GoOnline, GoOffline, MarkOfflineStale
<1>2. JobsTyped' /\ RowsTyped' /\ QueueTyped'
  BY <1>1 DEF jobVars, rowVars, JobsTyped, RowsTyped, QueueTyped
<1>3. PartnersTyped'
  BY DEF GoOnline, GoOffline, MarkOfflineStale, partnerVars, PartnersTyped
<1>4. HandlersOK'
  <2>1. CASE GoOffline(p)
    <3>1. HandlerOK(Request("offline", NoJob, p))
      BY DEF DispatchAssumption, HandlerOK, Call, Request, Labels
    <3>. QED
      BY <2>1, <3>1, BeginHandler DEF GoOffline
  <2>2. CASE UNCHANGED calls
    BY <2>2 DEF HandlersOK
  <2>. QED
    BY <2>1, <2>2 DEF GoOnline, MarkOfflineStale
<1>. QED
  BY <1>1, <1>2, <1>3, <1>4

\* The process dies.
LEMMA CrashTyped ==
  ASSUME DispatchAssumption, TypeInv, Crash
  PROVE  TypeInv'
<1>. USE TypeInvParts, TypeInvNext
<1>1. \A c \in calls : c.origin # "http" => Source(c) \in Entry
  BY SourceTyped DEF HandlersOK
<1>2. QueueTyped'
  BY <1>1 DEF Crash, QueueTyped
<1>3. \A o \in Offer : [o EXCEPT !.stage = "open"] \in Offer
  BY DEF Offer
<1>4. \A j \in Jobs : {[o EXCEPT !.stage = "open"] : o \in offers[j]} \in SUBSET Offer
  BY <1>3 DEF RowsTyped
<1>5. RowsTyped'
  BY <1>4 DEF Crash, RowsTyped
<1>6. HandlersOK' /\ crashes' \in 0..MaxCrashes
  BY DEF Crash, HandlersOK, DispatchAssumption
<1>. QED
  BY <1>2, <1>5, <1>6 DEF Crash, jobVars, partnerVars, JobsTyped, PartnersTyped

LEMMA TypeInvInit ==
  ASSUME DispatchAssumption, Init
  PROVE  TypeInv
<1>1. 0 \in 0..MaxSearches /\ 0 \in 0..MaxCrashes
  BY DEF DispatchAssumption
<1>2. JobsTyped /\ RowsTyped /\ PartnersTyped /\ QueueTyped
  BY <1>1 DEF Init, JobsTyped, RowsTyped, PartnersTyped, QueueTyped, Statuses
<1>. QED
  BY <1>1, <1>2 DEF Init, TypeInv, TypeOK, HandlersOK

LEMMA TypeInvStep ==
  ASSUME DispatchAssumption, TypeInv, [Next]_vars
  PROVE  TypeInv'
<1>1. CASE UNCHANGED vars
  BY <1>1 DEF vars, jobVars, rowVars, partnerVars, TypeInv, TypeOK, JobsTyped, RowsTyped,
     PartnersTyped, QueueTyped, HandlersOK
<1>2. ASSUME NEW e \in queue, PickUp(e)
      PROVE  TypeInv'
  BY <1>2, PickUpTyped
<1>3. ASSUME NEW c \in calls, Step(c)
      PROVE  TypeInv'
  BY <1>3, WaveStepTyped, ExpiryStepTyped, SweepStepTyped, HandoverStepTyped DEF Step
<1>4. ASSUME NEW j \in Jobs, JobRequest(j)
      PROVE  TypeInv'
  BY <1>4, OpeningTyped, TripTyped DEF JobRequest
<1>5. ASSUME NEW j \in Jobs, NEW o \in offers[j], Answer(j, o) \/ Lapse(j, o)
      PROVE  TypeInv'
  BY <1>5, AnswerTyped
<1>6. ASSUME NEW j \in Jobs, WaitTimeout(j) \/ DeadlinePasses(j)
      PROVE  TypeInv'
  BY <1>6, TripTyped
<1>7. ASSUME NEW p \in Partners, GoOnline(p) \/ GoOffline(p) \/ MarkOfflineStale(p)
      PROVE  TypeInv'
  BY <1>7, AvailabilityTyped
<1>8. CASE Crash
  BY <1>8, CrashTyped
<1>. QED
  BY <1>1, <1>2, <1>3, <1>4, <1>5, <1>6, <1>7, <1>8 DEF Next

LEMMA TypeInvAlways == Spec => []TypeInv
<1>1. Init => TypeInv
  BY TypeInvInit, DispatchAssumption
<1>2. TypeInv /\ [Next]_vars => TypeInv'
  BY TypeInvStep, DispatchAssumption
<1>. QED
  BY <1>1, <1>2, PTL DEF Spec

\* Every column, queue entry and handler in flight keeps its type whatever the numbers of
\* jobs, partners, waves, requests, workers and crashes: no interleaving of the handlers
\* schedules a wave beyond dispatch.max_waves, nor uses a job or a partner it has not got.
THEOREM TypeCorrect == Spec => []TypeOK
<1>1. TypeInv => TypeOK
  BY DEF TypeInv
<1>. QED
  BY <1>1, TypeInvAlways, PTL

-----------------------------------------------------------------------------
(* The engine implements JobOwnership.                                       *)

\* What a step does to status and holder: nothing, one transition, or one assignment.
StatusMoves ==
  \/ UNCHANGED <<status, holder>>
  \/ \E j \in Jobs, to \in Statuses \ {"ASSIGNED"}, actor \in Actors : Transition(j, to, actor)
  \/ \E j \in Jobs, p \in Partners, actor \in Actors : TransitionToAssigned(j, p, actor)

\* No handler changes the status of a job behind the back of the table, and only the two
\* operations that connect a partner reach ASSIGNED.
LEMMA StepMoves ==
  ASSUME TypeInv, "ASSIGNED" \notin ForcedTargets, [Next]_vars
  PROVE  StatusMoves
<1>. USE DEF StatusMoves
<1>1. /\ {"SEARCHING", "NO_PARTNER_AVAILABLE", "REQUESTED", "CANCELLED", "PARTNER_EN_ROUTE",
          "PARTNER_ARRIVED", "WAITING_CUSTOMER", "IN_PROGRESS", "COMPLETED"}
            \subseteq Statuses \ {"ASSIGNED"}
      /\ {CUSTOMER, PARTNER, ADMIN, SYSTEM} \subseteq Actors
  BY DEF Statuses, Actors
<1>2. CASE UNCHANGED vars
  BY <1>2 DEF vars, jobVars
<1>3. ASSUME NEW e \in queue, PickUp(e)
      PROVE  StatusMoves
  BY <1>3 DEF PickUp, jobVars
<1>4. ASSUME NEW c \in calls, Step(c)
      PROVE  StatusMoves
  <2>1. HandlerOK(c)
    BY TypeInvParts DEF HandlersOK
  <2>2. CASE KickOff(c) \/ GiveUp(c) \/ ReleaseJob(c) \/ BeginByHand(c)
    <3>1. c.job \in Jobs
      BY <2>1, <2>2 DEF HandlerOK, KickOff, GiveUp, ReleaseJob, BeginByHand
    <3>. QED
      BY <1>1, <2>2, <3>1 DEF KickOff, GiveUp, ReleaseJob, BeginByHand
  <2>3. CASE AssignByHand(c)
    <3>1. c.job \in Jobs /\ c.partner \in Partners
      BY <2>1, <2>3 DEF HandlerOK, AssignByHand
    <3>. QED
      BY <1>1, <2>3, <3>1 DEF AssignByHand
  <2>4. CASE \/ LeaveWave(c) \/ ChooseWave(c) \/ CreateOffers(c) \/ ReadExpired(c)
             \/ ExpireRows(c) \/ ResumeSearch(c) \/ ReadTimeout(c) \/ CancelTimedOut(c)
             \/ ReadOpenOffers(c) \/ CancelOffers(c) \/ Unqueue(c) \/ Free(c) \/ Enqueue(c)
             \/ ReleasePartner(c) \/ ReleasePrevious(c) \/ WriteOffline(c)
    BY <2>4 DEF LeaveWave, ChooseWave, CreateOffers, ReadExpired, ExpireRows, ResumeSearch,
       ReadTimeout, CancelTimedOut, ReadOpenOffers, CancelOffers, Unqueue, Free, Enqueue,
       ReleasePartner, ReleasePrevious, WriteOffline, jobVars
  <2>. QED
    BY <1>4, <2>2, <2>3, <2>4 DEF Step
<1>5. ASSUME NEW j \in Jobs, JobRequest(j)
      PROVE  StatusMoves
  <2>1. CASE Retry(j) \/ Release(j) \/ Redispatch(j)
    BY <2>1 DEF Retry, Release, Redispatch, jobVars
  <2>2. CASE Create(j) \/ EnRoute(j) \/ Arrive(j) \/ Start(j) \/ Complete(j)
    BY <1>1, <2>2 DEF Create, EnRoute, Arrive, Start, Complete
  <2>3. ASSUME NEW actor \in {CUSTOMER, PARTNER, ADMIN}, Cancel(j, actor)
        PROVE  StatusMoves
    BY <1>1, <2>3 DEF Cancel
  <2>4. ASSUME NEW p \in Partners, ManualAssign(j, p)
        PROVE  StatusMoves
    BY <1>1, <2>4 DEF ManualAssign
  <2>5. ASSUME NEW to \in ForcedTargets, ForceStatus(j, to)
        PROVE  StatusMoves
    <3>1. to \in Statuses \ {"ASSIGNED"}
      BY <2>5, MobilityMoves DEF ForceStatus, Transition
    <3>. QED
      BY <1>1, <2>5, <3>1 DEF ForceStatus
  <2>. QED
    BY <1>5, <2>1, <2>2, <2>3, <2>4, <2>5 DEF JobRequest
<1>6. ASSUME NEW j \in Jobs, NEW o \in offers[j], Answer(j, o) \/ Lapse(j, o)
      PROVE  StatusMoves
  <2>1. o.partner \in Partners
    BY TypeInvParts DEF RowsTyped, Offer
  <2>2. CASE CommitAccept(j, o)
    BY <1>1, <2>1, <2>2 DEF CommitAccept
  <2>. QED
    BY <1>6, <2>2 DEF Answer, CheckOffer, ClaimOffer, RefuseAccept, Reject, Lapse, jobVars
<1>7. ASSUME NEW j \in Jobs, WaitTimeout(j) \/ DeadlinePasses(j)
      PROVE  StatusMoves
  BY <1>1, <1>7 DEF WaitTimeout, DeadlinePasses
<1>8. ASSUME NEW p \in Partners, GoOnline(p) \/ GoOffline(p) \/ MarkOfflineStale(p)
      PROVE  StatusMoves
  BY <1>8 DEF GoOnline, GoOffline, MarkOfflineStale, jobVars
<1>9. CASE Crash
  BY <1>9 DEF Crash, jobVars
<1>. QED
  BY <1>2, <1>3, <1>4, <1>5, <1>6, <1>7, <1>8, <1>9 DEF Next

LEMMA Phases ==
  /\ \A s \in Open : Phase(s) = "open"
  /\ \A s \in BeforeStart : Phase(s) = "held"
  /\ \A s \in Over : Phase(s) = "over"
<1>1. Open \cap BeforeStart = {} /\ Open \cap Over = {} /\ BeforeStart \cap Over = {}
  BY DEF Open, BeforeStart, Over
<1>2. \A s \in Open : Phase(s) = "open"
  BY <1>1 DEF Phase
<1>3. \A s \in BeforeStart : Phase(s) = "held"
  BY <1>1 DEF Phase
<1>4. \A s \in Over : Phase(s) = "over"
  BY <1>1 DEF Phase
<1>. QED
  BY <1>2, <1>3, <1>4

\* A legal transition is a step of JobOwnership or leaves the ownership alone.
LEMMA TransitionOwned ==
  ASSUME JobsTyped, NEW j \in Jobs, NEW to, to # "ASSIGNED", NEW actor, Transition(j, to, actor)
  PROVE  [Ownership!Next]_(Ownership!vars)
<1>. DEFINE phase == [i \in Jobs |-> Phase(status[i])]
            phaseN == [i \in Jobs |-> Phase(status'[i])]
<1>1. MovesOnlyAs(status[j], to) /\ to \in Statuses
  BY MobilityMoves DEF Transition
<1>2. phaseN = [phase EXCEPT ![j] = Phase(to)]
  BY DEF Transition, JobsTyped
<1>3. to # "SEARCHING" \/ status[j] \notin BeforeStart => holder' = holder
  BY DEF Transition, JobsTyped
<1>4. CASE Phase(to) = Phase(status[j]) /\ ~(status[j] \in BeforeStart /\ to = "SEARCHING")
  <2>1. phaseN = phase
    BY <1>2, <1>4
  <2>. QED
    BY <1>3, <1>4, <2>1 DEF Ownership!vars
<1>5. CASE status[j] \in BeforeStart /\ to = "SEARCHING"
  <2>1. Phase(status[j]) = "held" /\ Phase(to) = "open"
    BY <1>5, Phases DEF Open
  <2>2. holder' = [holder EXCEPT ![j] = NoPartner]
    BY <1>5 DEF Transition
  <2>3. Ownership!Yield(j)
    BY <1>2, <2>1, <2>2 DEF Ownership!Yield
  <2>. QED
    BY <2>3 DEF Ownership!Next
<1>6. CASE status[j] \in BeforeStart /\ to = "IN_PROGRESS"
  <2>1. Phase(status[j]) = "held" /\ Phase(to) = "working"
    BY <1>6 DEF Phase, Open, BeforeStart, Over
  <2>2. Ownership!BeginWork(j)
    BY <1>2, <1>3, <1>6, <2>1 DEF Ownership!BeginWork
  <2>. QED
    BY <2>2 DEF Ownership!Next
<1>7. CASE status[j] \notin Over /\ to \in Over
  <2>1. Phase(status[j]) # "over" /\ Phase(to) = "over"
    BY <1>7 DEF Phase, Open, BeforeStart, Over
  <2>2. Ownership!Close(j)
    BY <1>2, <1>3, <1>7, <2>1 DEF Ownership!Close, Over
  <2>. QED
    BY <2>2 DEF Ownership!Next
<1>8. CASE \/ status[j] \in Open /\ to \in Open
           \/ status[j] \in BeforeStart /\ to \in BeforeStart
           \/ status[j] \in Over /\ to \in Over
  BY <1>4, <1>8 DEF Phase, Open, BeforeStart, Over
<1>. QED
  BY <1>1, <1>5, <1>6, <1>7, <1>8 DEF MovesOnlyAs

\* Only a job that is searched for is assigned.
LEMMA AssignmentOwned ==
  ASSUME JobsTyped, NEW j \in Jobs, NEW p \in Partners, NEW actor,
         TransitionToAssigned(j, p, actor)
  PROVE  Ownership!Next
<1>1. MovesOnlyAs(status[j], "ASSIGNED")
  BY MobilityMoves DEF TransitionToAssigned
<1>2. status[j] = "SEARCHING"
  BY <1>1 DEF MovesOnlyAs, Open, Over, BeforeStart
<1>3. Phase(status[j]) = "open" /\ Phase("ASSIGNED") = "held"
  BY <1>2, Phases DEF Open, BeforeStart
<1>4. [i \in Jobs |-> Phase(status'[i])]
        = [[i \in Jobs |-> Phase(status[i])] EXCEPT ![j] = "held"]
  BY <1>3 DEF TransitionToAssigned, JobsTyped
<1>5. Ownership!Acquire(j, p)
  BY <1>3, <1>4 DEF Ownership!Acquire, TransitionToAssigned
<1>. QED
  BY <1>5 DEF Ownership!Next

LEMMA StepOwned ==
  ASSUME TypeInv, "ASSIGNED" \notin ForcedTargets, [Next]_vars
  PROVE  [Ownership!Next]_(Ownership!vars)
<1>1. JobsTyped
  BY TypeInvParts
<1>2. CASE UNCHANGED <<status, holder>>
  BY <1>2 DEF Ownership!vars
<1>. QED
  BY <1>1, <1>2, StepMoves, TransitionOwned, AssignmentOwned DEF StatusMoves

LEMMA InitOwned ==
  ASSUME Init
  PROVE  Ownership!Init
<1>1. Phase("DRAFT") = "open"
  BY Phases DEF Open
<1>. QED
  BY <1>1 DEF Init, Ownership!Init

\* The engine implements the promise: for any numbers of jobs, partners, requests, workers
\* and crashes, every step of every handler gives, takes or keeps a job as JobOwnership
\* allows.  Only an administrator who forces ASSIGNED could do otherwise.
THEOREM Implements ==
  ASSUME "ASSIGNED" \notin ForcedTargets
  PROVE  Spec => OwnershipSpec
<1>1. Init => Ownership!Init
  BY InitOwned
<1>2. TypeInv /\ [Next]_vars => [Ownership!Next]_(Ownership!vars)
  BY StepOwned
<1>. QED
  BY <1>1, <1>2, TypeInvAlways, PTL DEF Spec, OwnershipSpec, Ownership!Spec

\* What JobOwnership allows keeps partner and phase in step.
LEMMA OwnershipKeepsPartner ==
  ASSUME JobsTyped, HolderMatchesPhase, [Ownership!Next]_(Ownership!vars)
  PROVE  HolderMatchesPhase'
<1>. USE DEF HolderMatchesPhase, Ownership!PartnerMatchesPhase
<1>0. holder \in [Jobs -> Partners \cup {NoPartner}]
  BY DEF JobsTyped
<1>1. CASE UNCHANGED Ownership!vars
  BY <1>1 DEF Ownership!vars
<1>2. ASSUME NEW j \in Jobs, NEW p \in Partners, Ownership!Acquire(j, p)
      PROVE  HolderMatchesPhase'
  BY <1>0, <1>2 DEF Ownership!Acquire
<1>3. ASSUME NEW j \in Jobs, Ownership!Yield(j)
      PROVE  HolderMatchesPhase'
  BY <1>0, <1>3 DEF Ownership!Yield
<1>4. ASSUME NEW j \in Jobs, Ownership!BeginWork(j)
      PROVE  HolderMatchesPhase'
  BY <1>4 DEF Ownership!BeginWork
<1>5. ASSUME NEW j \in Jobs, Ownership!Close(j)
      PROVE  HolderMatchesPhase'
  BY <1>5 DEF Ownership!Close
<1>. QED
  BY <1>1, <1>2, <1>3, <1>4, <1>5 DEF Ownership!Next

\* A job names a partner exactly while one is committed to it, at every moment of every
\* execution of any size: settlement, ratings and the guards of the partner's requests,
\* which all read jobs.partner_id, never meet a trip without one.
THEOREM HolderAlways ==
  ASSUME "ASSIGNED" \notin ForcedTargets
  PROVE  Spec => []HolderMatchesPhase
<1>1. Init => HolderMatchesPhase
  BY InitOwned DEF HolderMatchesPhase, Ownership!PartnerMatchesPhase, Ownership!Init
<1>2. HolderMatchesPhase /\ TypeInv /\ [Next]_vars => HolderMatchesPhase'
  BY StepOwned, OwnershipKeepsPartner, TypeInvParts
<1>. QED
  BY <1>1, <1>2, TypeInvAlways, PTL DEF Spec

===============================================================================
