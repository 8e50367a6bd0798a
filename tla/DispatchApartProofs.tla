-------------------------- MODULE DispatchApartProofs --------------------------
(***************************************************************************)
(* What holds of Dispatch when requests about one partner, or about one    *)
(* job, are kept apart, for any jobs, partners and bounds: the partner of  *)
(* a job in hand is busy, nobody is busy for nothing, an acceptance names  *)
(* the partner of the job, and a search is carried on.                     *)
(***************************************************************************)
EXTENDS DispatchProofs

-----------------------------------------------------------------------------
(* What the handlers in flight have left to do to a partner.                 *)

Does(duty, c, p) ==
  \/ duty = "take back" /\ TakesBack(c, p)
  \/ duty = "free"      /\ Frees(c, p)
  \/ duty = "release"   /\ c.at = "release" /\ c.partner = p
  \/ duty = "assign"    /\ c.then = "assign" /\ c.partner = p

\* Some handler of the job j has it left to do.
Has(duty, p, j) == \E c \in calls : c.job = j /\ Does(duty, c, p)

\* A handler with nothing left to do to anybody.
Inert(c) == c.at \notin {"release", "released", "reassigned", "free"} /\ c.then = "done"

LEMMA InertDoes ==
  ASSUME NEW c, Inert(c)
  PROVE  \A duty, p : ~Does(duty, c, p)
BY DEF Inert, Does, Frees, TakesBack

\* A new handler adds what it has to do.
LEMMA BeginDue ==
  ASSUME NEW c, HandlerOK(c), Begin(c)
  PROVE  \A duty, p, j : Has(duty, p, j)' <=> Has(duty, p, j) \/ (c.job = j /\ Does(duty, c, p))
<1>1. PICK n \in 1..(MaxRequests + MaxWorkers) : calls' = calls \cup {[c EXCEPT !.id = n]}
  BY DEF Begin
<1>. DEFINE d == [c EXCEPT !.id = n]
<1>2. d.job = c.job /\ d.at = c.at /\ d.partner = c.partner /\ d.prev = c.prev /\ d.then = c.then
  BY DEF HandlerOK, Call
<1>. HIDE DEF d
<1>3. \A duty, p : Does(duty, d, p) <=> Does(duty, c, p)
  BY <1>2 DEF Does, Frees, TakesBack
<1>. QED
  BY <1>1, <1>2, <1>3 DEF Has, d

\* A handler that goes on gives up what it had to do for what it has to do now.
LEMMA ContinueDue ==
  ASSUME NEW c \in calls, NEW d, Continue(c, d), d.job = c.job
  PROVE  /\ \A duty, p, j : Has(duty, p, j)' =>
                              Has(duty, p, j) \/ (j = c.job /\ Does(duty, d, p))
         /\ \A duty, p, j : Has(duty, p, j) =>
                              Has(duty, p, j)' \/ (j = c.job /\ Does(duty, c, p))
         /\ \A duty, p : Does(duty, d, p) => Has(duty, p, c.job)'
<1>1. /\ calls' = (calls \ {c}) \cup {d}
  BY DEF Continue
<1>. QED
  BY <1>1 DEF Has

\* The three ways a duty fares: taken on, done, or kept.
LEMMA Exchange ==
  ASSUME NEW c \in calls, NEW d, Continue(c, d), d.job = c.job, NEW duty
  PROVE  /\ (\A p : ~Does(duty, c, p)) =>
              \A p, i : Has(duty, p, i)' <=> Has(duty, p, i) \/ (i = c.job /\ Does(duty, d, p))
         /\ (\A p : ~Does(duty, d, p)) =>
              \A p, i : /\ Has(duty, p, i)' => Has(duty, p, i)
                        /\ Has(duty, p, i) => Has(duty, p, i)' \/ (i = c.job /\ Does(duty, c, p))
         /\ (\A p : Does(duty, c, p) <=> Does(duty, d, p)) =>
              \A p, i : Has(duty, p, i)' <=> Has(duty, p, i)
<1>1. \A p, i : Has(duty, p, i)' => Has(duty, p, i) \/ (i = c.job /\ Does(duty, d, p))
  BY ContinueDue
<1>2. \A p, i : Has(duty, p, i) => Has(duty, p, i)' \/ (i = c.job /\ Does(duty, c, p))
  BY ContinueDue
<1>3. \A p, i : i = c.job /\ Does(duty, d, p) => Has(duty, p, i)'
  BY ContinueDue
<1>4. \A p, i : i = c.job /\ Does(duty, c, p) => Has(duty, p, i)
  BY DEF Has
<1>. QED
  BY <1>1, <1>2, <1>3, <1>4

LEMMA FinishDue ==
  ASSUME NEW c \in calls, Finish(c)
  PROVE  /\ \A duty, p, j : Has(duty, p, j)' => Has(duty, p, j)
         /\ \A duty, p, j : Has(duty, p, j) =>
                              Has(duty, p, j)' \/ (j = c.job /\ Does(duty, c, p))
BY DEF Finish, Has

SameDuties == \A duty, p, j : Has(duty, p, j)' <=> Has(duty, p, j)

LEMMA SameCalls ==
  ASSUME UNCHANGED calls
  PROVE  SameDuties
BY DEF SameDuties, Has

LEMMA InertBegin ==
  ASSUME NEW c, HandlerOK(c), Begin(c), Inert(c)
  PROVE  SameDuties
BY BeginDue, InertDoes DEF SameDuties

LEMMA InertFinish ==
  ASSUME NEW c \in calls, Finish(c), Inert(c)
  PROVE  SameDuties
BY FinishDue, InertDoes DEF SameDuties

\* The handler c gone on to another place, with the rows it read there if it read any.
MovesTo(c, at, d) ==
  \/ d = [c EXCEPT !.at = at]
  \/ \E rows : d = [c EXCEPT !.at = at, !.rows = rows]

LEMMA MovedOn ==
  ASSUME NEW c, HandlerOK(c), NEW at, NEW d, MovesTo(c, at, d)
  PROVE  /\ d.at = at /\ d.job = c.job /\ d.partner = c.partner /\ d.prev = c.prev
         /\ d.then = c.then /\ d.origin = c.origin
<1>1. CASE d = [c EXCEPT !.at = at]
  BY <1>1 DEF HandlerOK, Call
<1>2. ASSUME NEW rows, d = [c EXCEPT !.at = at, !.rows = rows]
      PROVE  /\ d.at = at /\ d.job = c.job /\ d.partner = c.partner /\ d.prev = c.prev
             /\ d.then = c.then /\ d.origin = c.origin
  BY <1>2 DEF HandlerOK, Call
<1>. QED
  BY <1>1, <1>2 DEF MovesTo

LEMMA InertContinue ==
  ASSUME NEW c \in calls, HandlerOK(c), Inert(c),
         NEW at, at \notin {"release", "released", "reassigned", "free"},
         NEW d, MovesTo(c, at, d), Continue(c, d)
  PROVE  SameDuties
<1>1. d.job = c.job /\ Inert(d)
  BY MovedOn DEF Inert
<1>. QED
  BY <1>1, ContinueDue, InertDoes DEF SameDuties

\* cancel() goes on to what its caller left it to do.
LEMMA SweepContinue ==
  ASSUME NEW c \in calls, HandlerOK(c), c.at \in {"sweep", "swept", "unqueue"},
         NEW d, d.job = c.job, d.partner = c.partner, d.then = c.then,
         d.at \in {"swept", "unqueue"} \/ d.at = c.then, Continue(c, d)
  PROVE  SameDuties
<1>1. c.then \in {"done", "free", "assign"}
  BY DEF HandlerOK, Call
<1>2. \A duty, p : Does(duty, d, p) <=> Does(duty, c, p)
  BY <1>1 DEF Does, Frees, TakesBack
<1>3. \A duty, p, j : Has(duty, p, j)' =>
                        Has(duty, p, j) \/ (j = c.job /\ Does(duty, c, p))
  BY <1>2, ContinueDue
<1>4. \A duty, p, j : j = c.job /\ Does(duty, c, p) => Has(duty, p, j) /\ Has(duty, p, j)'
  BY <1>2, ContinueDue DEF Has
<1>. QED
  BY <1>3, <1>4, ContinueDue DEF SameDuties

-----------------------------------------------------------------------------
(* Who holds what.                                                           *)

Holds(p, j) == Held(j) /\ holder[j] = p

\* The trip of a job is over, for good.
Past(j) == status[j] \notin Open /\ ~Held(j)

\* A job that is open to partners has none.
OpenUnheld == \A j \in Jobs : status[j] \in Open => holder[j] = NoPartner

Claimed(p) == \E j \in Jobs : \E o \in offers[j] : o.stage = "claimed" /\ o.partner = p

\* What a step that gives nobody a job does to the jobs.
JobsKept ==
  /\ OpenUnheld'
  /\ \A j \in Jobs : Past(j) => Past(j)'
  /\ \A p \in Partners, j \in Jobs : Holds(p, j)' => Holds(p, j)

\* And one that ends no trip and takes no job back either.
JobsSame ==
  /\ JobsKept
  /\ holder' = holder
  /\ \A p \in Partners, j \in Jobs : Holds(p, j) => Holds(p, j)'

LEMMA SameJobs ==
  ASSUME OpenUnheld, UNCHANGED <<status, holder>>
  PROVE  JobsSame
BY DEF JobsSame, JobsKept, OpenUnheld, Past, Holds, Held

LEMMA StatusSets ==
  /\ Open \cap BeforeStart = {} /\ "IN_PROGRESS" \notin Open \cup BeforeStart \cup Over
  /\ Over \cap (Open \cup BeforeStart) = {}
  /\ "SEARCHING" \in Open /\ "ASSIGNED" \in BeforeStart
BY DEF Open, BeforeStart, Over

\* A transition never gives a job to anybody.
LEMMA TransitionKeeps ==
  ASSUME DispatchAssumption, JobsTyped, OpenUnheld, NEW j \in Jobs, NEW to, NEW actor,
         Transition(j, to, actor)
  PROVE  JobsKept
<1>1. MovesOnlyAs(status[j], to)
  BY MobilityMoves DEF Transition
<1>2. /\ status' = [status EXCEPT ![j] = to]
      /\ holder' = [holder EXCEPT ![j] =
                      IF to = "SEARCHING" /\ status[j] \in BeforeStart THEN NoPartner ELSE @]
  BY DEF Transition
<1>3. /\ status'[j] = to /\ \A i \in Jobs : i # j => status'[i] = status[i] /\ holder'[i] = holder[i]
      /\ holder'[j] = IF to = "SEARCHING" /\ status[j] \in BeforeStart THEN NoPartner ELSE holder[j]
  BY <1>2 DEF JobsTyped
<1>4. OpenUnheld'
  <2>1. to \in Open => holder'[j] = NoPartner
    BY <1>1, <1>3, StatusSets DEF MovesOnlyAs, OpenUnheld
  <2>. QED
    BY <1>3, <2>1 DEF OpenUnheld
<1>5. Past(j) => Past(j)'
  BY <1>1, <1>3, StatusSets DEF MovesOnlyAs, Past, Held
<1>6. \A p \in Partners : Holds(p, j)' => Holds(p, j)
  BY <1>1, <1>3, StatusSets DEF MovesOnlyAs, Holds, Held, OpenUnheld, DispatchAssumption
<1>7. \A i \in Jobs : i # j => /\ Past(i) => Past(i)'
                             /\ \A p \in Partners : Holds(p, i)' => Holds(p, i)
  BY <1>3 DEF Past, Holds, Held
<1>. QED
  BY <1>4, <1>5, <1>6, <1>7 DEF JobsKept

\* Only completed trips are disputed.
LEMMA OnlyCompletedDisputed ==
  ASSUME NEW from, NEW actor, CanMove(from, "DISPUTED", "MOBILITY", actor)
  PROVE  from = "COMPLETED"
<1>. DEFINE move == <<from, "DISPUTED", "MOBILITY", actor>>
<1>1. move \notin DispatchMoves
  BY DEF DispatchMoves
<1>2. move \notin MovementMoves
  BY DEF MovementMoves
<1>3. move \notin HomeMoves
  BY DEF HomeMoves, HOME
<1>4. move \notin CancelMoves
  BY DEF CancelMoves
<1>5. move \in DisputeMoves => from = "COMPLETED"
  BY DEF DisputeMoves
<1>. QED
  BY <1>1, <1>2, <1>3, <1>4, <1>5 DEF CanMove, JOB_TRANSITIONS

\* Nor does it take one from its partner, unless it is sent back or over.
LEMMA TransitionSame ==
  ASSUME DispatchAssumption, JobsTyped, OpenUnheld, NEW j \in Jobs, NEW to, NEW actor,
         Transition(j, to, actor), to \notin {"COMPLETED", "CANCELLED"},
         to = "SEARCHING" => status[j] \notin BeforeStart
  PROVE  JobsSame
<1>1. MovesOnlyAs(status[j], to)
  BY MobilityMoves DEF Transition
<1>2. holder' = holder /\ status' = [status EXCEPT ![j] = to]
  BY DEF Transition, JobsTyped
<1>3. Held(j) => to \in BeforeStart \cup {"IN_PROGRESS"}
  <2>1. to = "DISPUTED" => status[j] = "COMPLETED"
    BY OnlyCompletedDisputed DEF Transition
  <2>. QED
    BY <1>1, <2>1, StatusSets DEF MovesOnlyAs, Held, Over
<1>4. \A p \in Partners, i \in Jobs : Holds(p, i) => Holds(p, i)'
  BY <1>2, <1>3 DEF Holds, Held, JobsTyped
<1>. QED
  BY <1>2, <1>4, TransitionKeeps DEF JobsSame

\* An assignment takes a job that is searched for, which nobody holds.
LEMMA AssignmentGives ==
  ASSUME DispatchAssumption, JobsTyped, OpenUnheld, NEW j \in Jobs, NEW p \in Partners,
         NEW actor, TransitionToAssigned(j, p, actor)
  PROVE  /\ status[j] = "SEARCHING" /\ holder[j] = NoPartner
         /\ OpenUnheld'
         /\ \A i \in Jobs : Past(i) => Past(i)'
         /\ \A q \in Partners, i \in Jobs :
              Holds(q, i)' <=> Holds(q, i) \/ (q = p /\ i = j)
         /\ holder' = [holder EXCEPT ![j] = p]
<1>1. MovesOnlyAs(status[j], "ASSIGNED")
  BY MobilityMoves DEF TransitionToAssigned
<1>2. status[j] = "SEARCHING"
  BY <1>1, StatusSets DEF MovesOnlyAs, Over, Open
<1>3. holder[j] = NoPartner
  BY <1>2, StatusSets DEF OpenUnheld
<1>4. /\ status' = [status EXCEPT ![j] = "ASSIGNED"]
      /\ holder' = [holder EXCEPT ![j] = p]
  BY DEF TransitionToAssigned
<1>5. /\ status'[j] = "ASSIGNED" /\ holder'[j] = p
      /\ \A i \in Jobs : i # j => status'[i] = status[i] /\ holder'[i] = holder[i]
  BY <1>4 DEF JobsTyped
<1>6. OpenUnheld'
  BY <1>5, StatusSets DEF OpenUnheld
<1>7. \A i \in Jobs : Past(i) => Past(i)'
  BY <1>2, <1>5, StatusSets DEF Past, Held
<1>8. \A q \in Partners : (Holds(q, j)' <=> q = p) /\ ~Holds(q, j)
  BY <1>2, <1>5, StatusSets DEF Holds, Held
<1>9. \A q \in Partners, i \in Jobs : i # j => (Holds(q, i)' <=> Holds(q, i))
  BY <1>5 DEF Holds, Held
<1>. QED
  BY <1>2, <1>3, <1>4, <1>6, <1>7, <1>8, <1>9

-----------------------------------------------------------------------------
(* The steps that decide nothing about a partner.                            *)

Quiet ==
  /\ SameDuties /\ JobsSame /\ UNCHANGED <<current, crashes>>
  /\ \A j \in Jobs : accepted'[j] \subseteq accepted[j]
  /\ \A p \in Partners : Claimed(p)' => Claimed(p)

\* Where a handler of a wave, of a timer, of jobs.create or of setAvailability can be.
LEMMA InertPlaces ==
  ASSUME NEW c, HandlerOK(c),
         c.at \in {"enqueue", "wave", "offer", "expire", "expired", "resume", "timeout",
                   "giveup", "nobody", "offline"}
  PROVE  Inert(c)
BY DEF Inert, HandlerOK, Call

\* Closing rows claims none.
LEMMA ClosingClaims ==
  ASSUME RowsTyped, NEW j \in Jobs, NEW ids, CloseRows(j, ids)
  PROVE  /\ \A p \in Partners : Claimed(p)' => Claimed(p)
         /\ \A i \in Jobs : accepted'[i] \subseteq accepted[i]
<1>1. \A i \in Jobs : offers'[i] \subseteq offers[i] /\ accepted'[i] \subseteq accepted[i]
  BY DEF CloseRows, RowsTyped
<1>. QED
  BY <1>1 DEF Claimed

LEMMA SameRows ==
  ASSUME UNCHANGED <<offers, accepted>>
  PROVE  /\ \A p \in Partners : Claimed(p)' => Claimed(p)
         /\ \A i \in Jobs : accepted'[i] \subseteq accepted[i]
BY DEF Claimed

\* The end of a wave.
LEMMA NextWaveDuties ==
  ASSUME NEW c \in calls, HandlerOK(c), c.at \in {"wave", "resume"}, ScheduleNextWave(c)
  PROVE  SameDuties
<1>. DEFINE d == [c EXCEPT !.at = "timeout", !.rows = {}]
<1>1. Inert(c)
  BY InertPlaces
<1>2. MovesTo(c, "timeout", d)
  BY DEF MovesTo
<1>. HIDE DEF d
<1>3. Continue(c, d) \/ Finish(c)
  BY DEF ScheduleNextWave, d
<1>. QED
  BY <1>1, <1>2, <1>3, InertContinue, InertFinish

LEMMA WaveQuiet ==
  ASSUME DispatchAssumption, TypeInv, OpenUnheld, NEW c \in calls,
         KickOff(c) \/ LeaveWave(c) \/ ChooseWave(c) \/ CreateOffers(c)
  PROVE  Quiet
<1>. USE TypeInvParts
<1>1. HandlerOK(c) /\ c.at \in {"wave", "offer"} /\ c.job \in Jobs /\ Inert(c)
  <2>1. HandlerOK(c) /\ c.at \in {"wave", "offer"}
    BY DEF HandlersOK, KickOff, LeaveWave, ChooseWave, CreateOffers
  <2>. QED
    BY <2>1, InertPlaces DEF HandlerOK
<1>2. UNCHANGED <<current, crashes, accepted>>
  BY DEF KickOff, LeaveWave, ChooseWave, CreateOffers, rowVars, partnerVars
<1>3. JobsSame
  <2>1. CASE KickOff(c)
    <3>1. Transition(c.job, "SEARCHING", SYSTEM) /\ status[c.job] \notin BeforeStart
      BY <2>1 DEF KickOff, CanKickOff, BeforeStart
    <3>. QED
      BY <1>1, <3>1, TransitionSame
  <2>2. CASE UNCHANGED <<status, holder>>
    BY <2>2, SameJobs
  <2>. QED
    BY <2>1, <2>2 DEF LeaveWave, ChooseWave, CreateOffers, jobVars
<1>4. SameDuties
  <2>1. ASSUME NEW at \in {"offer", "timeout"}, NEW d, MovesTo(c, at, d), Continue(c, d)
        PROVE  SameDuties
    BY <1>1, <2>1, InertContinue
  <2>2. CASE KickOff(c)
    BY <2>2, SameCalls DEF KickOff
  <2>3. CASE LeaveWave(c)
    BY <1>1, <2>3, InertFinish DEF LeaveWave
  <2>4. CASE ChooseWave(c)
    <3>1. CASE ScheduleNextWave(c)
      BY <1>1, <2>4, <3>1, NextWaveDuties DEF ChooseWave
    <3>2. CASE ~ScheduleNextWave(c)
      BY <2>1, <2>4, <3>2 DEF ChooseWave, MovesTo
    <3>. QED
      BY <3>1, <3>2
  <2>5. CASE CreateOffers(c)
    <3>1. Finish(c)
      BY <2>5 DEF CreateOffers, Throw
    <3>. QED
      BY <1>1, <3>1, InertFinish
  <2>. QED
    BY <2>2, <2>3, <2>4, <2>5
<1>5. \A p \in Partners : Claimed(p)' => Claimed(p)
  <2>1. CASE CreateOffers(c)
    <3>. DEFINE new == {[partner |-> r.partner, wave |-> r.wave, search |-> r.search,
                         lapsed |-> FALSE, stage |-> "open"] : r \in c.rows}
    <3>1. \A o \in new : o.stage = "open"
      OBVIOUS
    <3>2. \A j \in Jobs : offers'[j] \subseteq offers[j] \cup new
      <4>. HIDE DEF new
      <4>1. offers' = offers \/ offers' = [offers EXCEPT ![c.job] = @ \cup new]
        BY <2>1 DEF CreateOffers, new
      <4>. QED
        BY <4>1 DEF RowsTyped
    <3>. HIDE DEF new
    <3>. QED
      BY <3>1, <3>2 DEF Claimed
  <2>2. CASE UNCHANGED offers
    BY <1>2, <2>2, SameRows
  <2>. QED
    BY <2>1, <2>2 DEF KickOff, LeaveWave, ChooseWave, rowVars
<1>. QED
  BY <1>2, <1>3, <1>4, <1>5 DEF Quiet

LEMMA ExpiryQuiet ==
  ASSUME DispatchAssumption, TypeInv, OpenUnheld, NEW c \in calls,
         \/ ReadExpired(c) \/ ExpireRows(c) \/ ResumeSearch(c)
         \/ ReadTimeout(c) \/ CancelTimedOut(c) \/ GiveUp(c)
  PROVE  Quiet
<1>. USE TypeInvParts
<1>1. HandlerOK(c) /\ c.job \in Jobs /\ Inert(c)
  <2>1. /\ HandlerOK(c)
        /\ c.at \in {"expire", "expired", "resume", "timeout", "giveup", "nobody"}
    BY DEF HandlersOK, ReadExpired, ExpireRows, ResumeSearch, ReadTimeout, CancelTimedOut, GiveUp
  <2>. QED
    BY <2>1, InertPlaces DEF HandlerOK
<1>2. UNCHANGED <<current, crashes>>
  BY DEF ReadExpired, ExpireRows, ResumeSearch, ReadTimeout, CancelTimedOut, GiveUp, partnerVars
<1>3. JobsSame
  <2>1. CASE Transition(c.job, "NO_PARTNER_AVAILABLE", SYSTEM)
    BY <1>1, <2>1, TransitionSame
  <2>2. CASE UNCHANGED <<status, holder>>
    BY <2>2, SameJobs
  <2>. QED
    BY <2>1, <2>2 DEF ReadExpired, ExpireRows, ResumeSearch, ReadTimeout, CancelTimedOut,
       GiveUp, jobVars
<1>4. SameDuties
  <2>1. ASSUME NEW at \in {"expired", "resume", "timeout", "giveup", "nobody"},
               NEW d, MovesTo(c, at, d), Continue(c, d)
        PROVE  SameDuties
    BY <1>1, <2>1, InertContinue
  <2>2. CASE Finish(c)
    BY <1>1, <2>2, InertFinish
  <2>3. CASE ResumeSearch(c) /\ ScheduleNextWave(c)
    BY <1>1, <2>3, NextWaveDuties DEF ResumeSearch
  <2>4. CASE ReadExpired(c)
    BY <2>1, <2>4 DEF ReadExpired, MovesTo
  <2>5. CASE ExpireRows(c)
    BY <2>1, <2>5 DEF ExpireRows, MovesTo
  <2>6. CASE ResumeSearch(c) /\ ~ScheduleNextWave(c)
    BY <2>1, <2>2, <2>6 DEF ResumeSearch, MovesTo
  <2>7. CASE ReadTimeout(c)
    BY <2>1, <2>2, <2>7 DEF ReadTimeout, MovesTo
  <2>8. CASE CancelTimedOut(c)
    BY <2>1, <2>8 DEF CancelTimedOut, MovesTo
  <2>9. CASE GiveUp(c)
    BY <2>2, <2>9 DEF GiveUp, Throw
  <2>. QED
    BY <2>3, <2>4, <2>5, <2>6, <2>7, <2>8, <2>9
<1>5. /\ \A p \in Partners : Claimed(p)' => Claimed(p)
      /\ \A j \in Jobs : accepted'[j] \subseteq accepted[j]
  <2>1. CASE CloseRows(c.job, c.rows)
    BY <1>1, <2>1, ClosingClaims
  <2>2. CASE UNCHANGED <<offers, accepted>>
    BY <2>2, SameRows
  <2>. QED
    BY <2>1, <2>2 DEF ReadExpired, ExpireRows, ResumeSearch, ReadTimeout, CancelTimedOut,
       GiveUp, rowVars
<1>. QED
  BY <1>2, <1>3, <1>4, <1>5 DEF Quiet

LEMMA SweepQuiet ==
  ASSUME DispatchAssumption, TypeInv, OpenUnheld, NEW c \in calls,
         ReadOpenOffers(c) \/ CancelOffers(c) \/ Unqueue(c) \/ Enqueue(c) \/ WriteOffline(c)
  PROVE  Quiet
<1>. USE TypeInvParts
<1>1. HandlerOK(c) /\ c.at \in {"sweep", "swept", "unqueue", "enqueue", "offline"}
  BY DEF HandlersOK, ReadOpenOffers, CancelOffers, Unqueue, Enqueue, WriteOffline
<1>2. UNCHANGED <<current, crashes, status, holder>>
  BY DEF ReadOpenOffers, CancelOffers, Unqueue, Enqueue, WriteOffline, partnerVars, jobVars
<1>3. JobsSame
  BY <1>2, SameJobs
<1>4. SameDuties
  <2>1. ASSUME NEW at, NEW d, MovesTo(c, at, d), Continue(c, d),
               c.at \in {"sweep", "swept", "unqueue"}, at \in {"swept", "unqueue"} \/ at = c.then
        PROVE  SameDuties
    BY <1>1, <2>1, MovedOn, SweepContinue
  <2>2. CASE Enqueue(c) \/ WriteOffline(c)
    <3>1. Inert(c) /\ Finish(c)
      BY <1>1, <2>2, InertPlaces DEF Enqueue, WriteOffline
    <3>. QED
      BY <3>1, InertFinish
  <2>3. CASE Unqueue(c) /\ c.then = "done"
    <3>1. Inert(c) /\ Finish(c)
      BY <1>1, <2>3 DEF Unqueue, Inert
    <3>. QED
      BY <3>1, InertFinish
  <2>4. CASE Unqueue(c) /\ c.then # "done"
    BY <2>1, <2>4 DEF Unqueue, MovesTo
  <2>5. CASE ReadOpenOffers(c)
    BY <2>1, <2>5 DEF ReadOpenOffers, MovesTo
  <2>6. CASE CancelOffers(c)
    BY <2>1, <2>6 DEF CancelOffers, MovesTo
  <2>. QED
    BY <2>2, <2>3, <2>4, <2>5, <2>6
<1>5. /\ \A p \in Partners : Claimed(p)' => Claimed(p)
      /\ \A j \in Jobs : accepted'[j] \subseteq accepted[j]
  <2>1. CASE CancelOffers(c)
    <3>1. c.job \in Jobs /\ CloseRows(c.job, c.rows)
      BY <1>1, <2>1 DEF CancelOffers, HandlerOK
    <3>. QED
      BY <3>1, ClosingClaims
  <2>2. CASE UNCHANGED <<offers, accepted>>
    BY <2>2, SameRows
  <2>. QED
    BY <2>1, <2>2 DEF ReadOpenOffers, Unqueue, Enqueue, WriteOffline, rowVars
<1>. QED
  BY <1>2, <1>3, <1>4, <1>5 DEF Quiet

LEMMA PickUpQuiet ==
  ASSUME DispatchAssumption, TypeInv, OpenUnheld, NEW e \in queue, PickUp(e)
  PROVE  Quiet
<1>. USE TypeInvParts
<1>1. e \in Entry /\ HandlerOK(Take(e))
  BY TakenEntry DEF QueueTyped
<1>2. Inert(Take(e))
  BY <1>1 DEF Inert, Take, Entry
<1>3. SameDuties
  BY <1>1, <1>2, InertBegin DEF PickUp
<1>4. UNCHANGED <<current, crashes, status, holder, offers, accepted>>
  BY DEF PickUp, jobVars, rowVars, partnerVars
<1>. QED
  BY <1>3, <1>4, SameJobs, SameRows DEF Quiet

\* The requests about a job that change the hands of nothing.
LEMMA RequestQuiet ==
  ASSUME DispatchAssumption, TypeInv, OpenUnheld, NEW j \in Jobs,
         \/ Create(j) \/ Retry(j) \/ Redispatch(j) \/ EnRoute(j) \/ Arrive(j) \/ Start(j)
         \/ WaitTimeout(j) \/ DeadlinePasses(j)
  PROVE  Quiet
<1>. USE TypeInvParts
<1>1. UNCHANGED <<current, crashes, offers, accepted>>
  BY DEF Create, Retry, Redispatch, EnRoute, Arrive, Start, WaitTimeout, DeadlinePasses,
         partnerVars, rowVars
<1>2. JobsSame
  <2>1. ASSUME NEW to, NEW actor, Transition(j, to, actor),
               to \notin {"SEARCHING", "COMPLETED", "CANCELLED"}
        PROVE  JobsSame
    BY <2>1, TransitionSame
  <2>2. CASE UNCHANGED <<status, holder>>
    BY <2>2, SameJobs
  <2>. QED
    BY <2>1, <2>2 DEF Create, Retry, Redispatch, EnRoute, Arrive, Start, WaitTimeout,
       DeadlinePasses, jobVars
<1>3. SameDuties
  <2>1. ASSUME NEW at \in {"enqueue", "wave"}, Begin(Request(at, j, NoPartner))
        PROVE  SameDuties
    <3>1. HandlerOK(Request(at, j, NoPartner))
      BY NewRequest DEF Labels
    <3>2. Inert(Request(at, j, NoPartner))
      BY DEF Inert, Request
    <3>. QED
      BY <2>1, <3>1, <3>2, InertBegin
  <2>2. CASE UNCHANGED calls
    BY <2>2, SameCalls
  <2>. QED
    BY <2>1, <2>2 DEF Create, Retry, Redispatch, EnRoute, Arrive, Start, WaitTimeout,
       DeadlinePasses
<1>. QED
  BY <1>1, <1>2, <1>3, SameRows DEF Quiet

\* An offer replaced by one that is not claimed unless it was.
LEMMA ReplacingClaims ==
  ASSUME RowsTyped, NEW j \in Jobs, NEW o \in offers[j], NEW q, offers' = WithOffer(j, o, q),
         \A x \in q : x.partner = o.partner /\ (x.stage = "claimed" => o.stage = "claimed")
  PROVE  \A p \in Partners : Claimed(p)' => Claimed(p)
<1>1. \A i \in Jobs : \A x \in offers'[i] : x \in offers[i] \/ (i = j /\ x \in q)
  BY DEF WithOffer, RowsTyped
<1>. QED
  BY <1>1 DEF Claimed

LEMMA AnswerQuiet ==
  ASSUME DispatchAssumption, TypeInv, OpenUnheld, NEW j \in Jobs, NEW o \in offers[j],
         CheckOffer(j, o) \/ RefuseAccept(j, o) \/ Reject(j, o) \/ Lapse(j, o)
  PROVE  Quiet
<1>. USE TypeInvParts
<1>1. UNCHANGED <<current, crashes, status, holder, accepted, calls>>
  BY DEF CheckOffer, RefuseAccept, Reject, Lapse, partnerVars, jobVars
<1>2. o \in Offer
  BY DEF RowsTyped
<1>3. PICK q : /\ offers' = WithOffer(j, o, q)
               /\ q \in {{}, {[o EXCEPT !.stage = "open"]}, {[o EXCEPT !.stage = "checked"]},
                         {[o EXCEPT !.lapsed = TRUE]}}
  BY DEF CheckOffer, RefuseAccept, Reject, Lapse
<1>4. \A x \in q : x.partner = o.partner /\ (x.stage = "claimed" => o.stage = "claimed")
  BY <1>2, <1>3 DEF Offer
<1>5. \A p \in Partners : Claimed(p)' => Claimed(p)
  BY <1>3, <1>4, ReplacingClaims
<1>. QED
  BY <1>1, <1>5, SameJobs, SameCalls DEF Quiet

LEMMA AvailabilityQuiet ==
  ASSUME DispatchAssumption, TypeInv, OpenUnheld, NEW p \in Partners,
         GoOnline(p) \/ GoOffline(p) \/ MarkOfflineStale(p)
  PROVE  Quiet
<1>1. UNCHANGED <<current, crashes, status, holder, offers, accepted>>
  BY DEF GoOnline, GoOffline, MarkOfflineStale, jobVars, rowVars, partnerVars
<1>2. SameDuties
  <2>1. CASE GoOffline(p)
    <3>1. HandlerOK(Request("offline", NoJob, p))
      BY DEF DispatchAssumption, HandlerOK, Call, Request, Labels
    <3>2. Inert(Request("offline", NoJob, p))
      BY DEF Inert, Request
    <3>. QED
      BY <2>1, <3>1, <3>2, InertBegin DEF GoOffline
  <2>2. CASE UNCHANGED calls
    BY <2>2, SameCalls
  <2>. QED
    BY <2>1, <2>2 DEF GoOnline, MarkOfflineStale
<1>. QED
  BY <1>1, <1>2, SameJobs, SameRows DEF Quiet

LEMMA StutterQuiet ==
  ASSUME OpenUnheld, UNCHANGED vars
  PROVE  Quiet
<1>1. UNCHANGED <<current, crashes, status, holder, offers, accepted, calls>>
  BY DEF vars, jobVars, rowVars, partnerVars
<1>. QED
  BY <1>1, SameJobs, SameRows, SameCalls DEF Quiet

\* What remains decides something.
Decides ==
  \/ \E c \in calls : \/ Free(c) \/ ReleaseJob(c) \/ ReleasePartner(c)
                      \/ BeginByHand(c) \/ ReleasePrevious(c) \/ AssignByHand(c)
  \/ \E j \in Jobs : \/ \E actor \in {CUSTOMER, PARTNER, ADMIN} : Cancel(j, actor)
                     \/ Complete(j) \/ Release(j)
                     \/ \E p \in Partners : ManualAssign(j, p)
                     \/ \E to \in ForcedTargets : ForceStatus(j, to)
                     \/ \E o \in offers[j] : ClaimOffer(j, o) \/ CommitAccept(j, o)
  \/ Crash

LEMMA QuietOrDecides ==
  ASSUME DispatchAssumption, TypeInv, OpenUnheld, [Next]_vars, ~Decides
  PROVE  Quiet
<1>1. ASSUME NEW c \in calls, Step(c)
      PROVE  Quiet
  BY <1>1, WaveQuiet, ExpiryQuiet, SweepQuiet DEF Step, Decides
<1>2. ASSUME NEW j \in Jobs, JobRequest(j)
      PROVE  Quiet
  BY <1>2, RequestQuiet DEF JobRequest, Decides
<1>3. ASSUME NEW j \in Jobs, NEW o \in offers[j], Answer(j, o) \/ Lapse(j, o)
      PROVE  Quiet
  BY <1>3, AnswerQuiet DEF Answer, Decides
<1>. QED
  BY <1>1, <1>2, <1>3, StutterQuiet, PickUpQuiet, RequestQuiet, AvailabilityQuiet
  DEF Next, Decides

-----------------------------------------------------------------------------
(* The partner of a job in hand.                                             *)

\* Why such a partner stays busy: no accept of the partner is open, nobody is about to
\* free it, and it is asked for no other job, nor gives back another that is not over.
Undisturbed ==
  \A p \in Partners, j \in Jobs : Holds(p, j) =>
    /\ current[p] = j
    /\ ~Claimed(p)
    /\ \A k \in Jobs : /\ ~Has("free", p, k)
                       /\ Has("release", p, k) => k = j \/ Past(k)
                       /\ Has("assign", p, k) => k = j

HolderInv == OpenUnheld /\ Undisturbed

\* A step that gives nobody a job keeps it when it leaves the partners who still hold one
\* alone.
LEMMA UndisturbedKept ==
  ASSUME JobsKept, HolderInv,
         \A p \in Partners, j \in Jobs : Holds(p, j)' =>
           /\ current'[p] = current[p]
           /\ Claimed(p)' => Claimed(p)
           /\ \A k \in Jobs :
                /\ Has("free", p, k)' => Has("free", p, k)
                /\ Has("release", p, k)' => Has("release", p, k) \/ k = j \/ Past(k)'
                /\ Has("assign", p, k)' => Has("assign", p, k) \/ k = j
  PROVE  HolderInv'
<1>1. ASSUME NEW p \in Partners, NEW j \in Jobs, Holds(p, j)'
      PROVE  /\ current'[p] = j /\ ~Claimed(p)'
             /\ \A k \in Jobs : /\ ~Has("free", p, k)'
                                /\ Has("release", p, k)' => k = j \/ Past(k)'
                                /\ Has("assign", p, k)' => k = j
  <2>1. Holds(p, j)
    BY <1>1 DEF JobsKept
  <2>2. \A k \in Jobs : Past(k) => Past(k)'
    BY DEF JobsKept
  <2>. QED
    BY <1>1, <2>1, <2>2 DEF HolderInv, Undisturbed
<1>2. Undisturbed'
  BY <1>1 DEF Undisturbed
<1>. QED
  BY <1>2 DEF HolderInv, JobsKept

LEMMA QuietHolder ==
  ASSUME HolderInv, Quiet
  PROVE  HolderInv'
<1>1. JobsKept /\ current' = current /\ SameDuties
  BY DEF Quiet, JobsSame
<1>2. \A p \in Partners : Claimed(p)' => Claimed(p)
  BY DEF Quiet
<1>. QED
  BY <1>1, <1>2, UndisturbedKept DEF SameDuties

\* The partner of a job in hand or over; of a job in hand, it is on that job.
LEMMA HolderIs ==
  ASSUME JobsTyped, HolderInv, NEW j \in Jobs, holder[j] # NoPartner
  PROVE  /\ holder[j] \in Partners
         /\ Held(j) => Holds(holder[j], j) /\ current[holder[j]] = j
         /\ ~Held(j) => Past(j)
BY DEF JobsTyped, HolderInv, OpenUnheld, Undisturbed, Holds, Past

\* What PartnersApart says of two requests about one partner.
LEMMA ApartFrom ==
  ASSUME PartnersApart, NEW p \in Partners
  PROVE  /\ \A c, d \in calls : \A duty, other : Does(duty, c, p) /\ Does(other, d, p) => c = d
         /\ Claimed(p) => \A duty, k : ~Has(duty, p, k)
         /\ \A j, k \in Jobs : \A o \in offers[j], x \in offers[k] :
              (o.stage = "claimed" /\ o.partner = p /\ x.stage = "claimed" /\ x.partner = p)
                 => j = k /\ o = x
<1>1. \A c \in calls : \A duty : Does(duty, c, p) => c \in Deciding(p)
  BY DEF Does, Frees, Deciding
<1>2. \A j \in Jobs : \A o \in offers[j] :
        o.stage = "claimed" /\ o.partner = p => <<j, o>> \in Accepting(p)
  BY DEF Accepting
<1>3. \A c, d \in calls : \A duty, other : Does(duty, c, p) /\ Does(other, d, p) => c = d
  BY <1>1 DEF PartnersApart
<1>4. Claimed(p) => \A duty, k : ~Has(duty, p, k)
  <2>1. Claimed(p) => Accepting(p) # {}
    BY <1>2 DEF Claimed
  <2>. QED
    BY <1>1, <2>1 DEF PartnersApart, Has
<1>5. ASSUME NEW j \in Jobs, NEW k \in Jobs, NEW o \in offers[j], NEW x \in offers[k],
             o.stage = "claimed" /\ o.partner = p /\ x.stage = "claimed" /\ x.partner = p
      PROVE  j = k /\ o = x
  <2>1. <<j, o>> = <<k, x>>
    BY <1>2, <1>5 DEF PartnersApart
  <2>. QED
    BY <2>1
<1>. QED
  BY <1>3, <1>4, <1>5

\* After an accept, cancel() sweeps the job and has nothing else to do.
LEMMA CommitDuties ==
  ASSUME DispatchAssumption, NEW j \in Jobs, NEW o, o.partner \in Partners, CommitAccept(j, o)
  PROVE  SameDuties
<1>1. HandlerOK(Request("sweep", j, o.partner))
  BY NewRequest DEF Labels
<1>2. Inert(Request("sweep", j, o.partner))
  BY DEF Inert, Request
<1>. QED
  BY <1>1, <1>2, InertBegin DEF CommitAccept

\* The two steps that give a partner a job.
LEMMA CommitHolder ==
  ASSUME DispatchAssumption, TypeInv, HolderInv, PartnersApart,
         NEW j \in Jobs, NEW o \in offers[j], CommitAccept(j, o)
  PROVE  HolderInv'
<1>. USE TypeInvParts
<1>. DEFINE p == o.partner
<1>1. p \in Partners /\ Claimed(p)
  BY DEF RowsTyped, Offer, Claimed, CommitAccept
<1>2. SameDuties
  BY <1>1, CommitDuties
<1>3. current' = [current EXCEPT ![p] = j] /\ offers' = [offers EXCEPT ![j] = {}]
  BY DEF CommitAccept, SetBusy
<1>4. /\ OpenUnheld'
      /\ \A i \in Jobs : Past(i) => Past(i)'
      /\ \A q \in Partners, i \in Jobs : Holds(q, i)' <=> Holds(q, i) \/ (q = p /\ i = j)
  BY <1>1, AssignmentGives DEF CommitAccept, HolderInv
<1>5. \A q \in Partners : Claimed(q)' => Claimed(q)
  BY <1>3 DEF Claimed, RowsTyped
<1>6. ~Claimed(p)'
  <2>1. \A k \in Jobs : \A x \in offers[k] : x.stage = "claimed" /\ x.partner = p => k = j
    BY <1>1, ApartFrom DEF CommitAccept
  <2>. QED
    BY <1>3, <2>1 DEF Claimed, RowsTyped
<1>7. /\ \A i \in Jobs : ~Holds(p, i)
      /\ \A duty, k : ~Has(duty, p, k)
  BY <1>1, ApartFrom DEF HolderInv, Undisturbed
<1>8. current'[p] = j /\ \A q \in Partners : q # p => current'[q] = current[q]
  BY <1>1, <1>3 DEF PartnersTyped
<1>. HIDE DEF p
<1>9. Undisturbed'
  <2>1. \A i \in Jobs : Holds(p, i)' => i = j
    BY <1>1, <1>4, <1>7
  <2>2. \A k \in Jobs : \A duty : ~Has(duty, p, k)'
    BY <1>2, <1>7 DEF SameDuties
  <2>3. \A q \in Partners : q # p => \A i \in Jobs : Holds(q, i)' => Holds(q, i)
    BY <1>4
  <2>. QED
    BY <1>2, <1>4, <1>5, <1>6, <1>8, <2>1, <2>2, <2>3 DEF Undisturbed, HolderInv, SameDuties
<1>. QED
  BY <1>4, <1>9 DEF HolderInv

LEMMA AssignHolder ==
  ASSUME DispatchAssumption, TypeInv, HolderInv, PartnersApart, NEW c \in calls, AssignByHand(c)
  PROVE  HolderInv'
<1>. USE TypeInvParts
<1>. DEFINE p == c.partner
            j == c.job
<1>1. HandlerOK(c) /\ j \in Jobs /\ p \in Partners /\ c.then = "assign"
  BY DEF HandlersOK, HandlerOK, AssignByHand
<1>2. Does("assign", c, p)
  BY <1>1 DEF Does
<1>3. offers' = offers /\ Finish(c)
  BY DEF AssignByHand
<1>4. \A duty, q, k : Has(duty, q, k)' => Has(duty, q, k)
  BY <1>3, FinishDue
<1>5. \A q \in Partners : Claimed(q)' => Claimed(q)
  BY <1>3 DEF Claimed
<1>6. CASE UNCHANGED <<status, holder, search, accepted, partnerVars>>
  <2>1. JobsKept
    BY <1>6, SameJobs DEF HolderInv, JobsSame
  <2>. QED
    BY <1>4, <1>5, <1>6, <2>1, UndisturbedKept DEF partnerVars
<1>7. CASE TransitionToAssigned(j, p, ADMIN) /\ SetBusy(p, j)
  <2>1. /\ status[j] = "SEARCHING" /\ OpenUnheld'
        /\ \A i \in Jobs : Past(i) => Past(i)'
        /\ \A q \in Partners, i \in Jobs : Holds(q, i)' <=> Holds(q, i) \/ (q = p /\ i = j)
    BY <1>1, <1>7, AssignmentGives DEF HolderInv
  <2>2. \A i \in Jobs : ~Holds(p, i)
    <3>1. Has("assign", p, j)
      BY <1>1, <1>2 DEF Has
    <3>2. \A i \in Jobs : Holds(p, i) => i = j
      BY <1>1, <3>1 DEF HolderInv, Undisturbed
    <3>3. ~Held(j)
      BY <2>1, StatusSets DEF Held, Open
    <3>. QED
      BY <3>2, <3>3 DEF Holds
  <2>3. \A duty, k : ~Has(duty, p, k)'
    <3>1. \A d \in calls : \A duty : Does(duty, d, p) => d = c
      BY <1>1, <1>2, ApartFrom
    <3>. QED
      BY <1>3, <3>1 DEF Has, Finish
  <2>4. ~Claimed(p)'
    <3>1. ~Claimed(p)
      BY <1>1, <1>2, ApartFrom DEF Has
    <3>. QED
      BY <1>1, <1>5, <3>1
  <2>5. current'[p] = j /\ \A q \in Partners : q # p => current'[q] = current[q]
    BY <1>1, <1>7 DEF SetBusy, PartnersTyped
  <2>. HIDE DEF p, j
  <2>6. Undisturbed'
    <3>1. \A i \in Jobs : Holds(p, i)' => i = j
      BY <1>1, <2>1, <2>2
    <3>2. \A q \in Partners : q # p => \A i \in Jobs : Holds(q, i)' => Holds(q, i)
      BY <2>1
    <3>. QED
      BY <1>4, <1>5, <2>1, <2>3, <2>4, <2>5, <3>1, <3>2 DEF Undisturbed, HolderInv
  <2>. QED
    BY <2>1, <2>6 DEF HolderInv
<1>. QED
  BY <1>6, <1>7 DEF AssignByHand

\* A trip is ended only while it is on.
LEMMA EndsOnlyTrips ==
  ASSUME NEW from, NEW to, NEW actor, CanMove(from, to, "MOBILITY", actor),
         to = "CANCELLED" \/ (to = "COMPLETED" /\ actor = PARTNER)
  PROVE  from \in Open \cup BeforeStart \cup {"IN_PROGRESS"}
<1>. DEFINE move == <<from, to, "MOBILITY", actor>>
<1>1. move \notin DispatchMoves
  BY DEF DispatchMoves
<1>2. move \in MovementMoves => from = "IN_PROGRESS"
  BY DEF MovementMoves
<1>3. move \notin HomeMoves
  BY DEF HomeMoves, HOME
<1>4. move \in CancelMoves => from \in Open \cup BeforeStart \cup {"IN_PROGRESS"}
  BY DEF CancelMoves, Open, BeforeStart, HOME
<1>5. move \notin DisputeMoves
  BY DEF DisputeMoves, PARTNER, ADMIN
<1>. QED
  BY <1>1, <1>2, <1>3, <1>4, <1>5 DEF CanMove, JOB_TRANSITIONS

\* What is left to do once a trip is over: its partner, who held it, is to be freed, and
\* holds nothing any more.
LEMMA TripEnds ==
  ASSUME DispatchAssumption, TypeInv, HolderInv, NEW j \in Jobs, NEW to, NEW actor,
         Transition(j, to, actor), to = "CANCELLED" \/ (to = "COMPLETED" /\ actor = PARTNER),
         NEW c, HandlerOK(c), Begin(c), c.job = j, c.partner = holder[j], c.then # "assign",
         c.at \in {"sweep", "free"}, c.at = "free" \/ c.then = "free"
  PROVE  /\ JobsKept /\ holder' = holder /\ ~Held(j)'
         /\ \A p \in Partners, i \in Jobs : i # j => (Holds(p, i) => Holds(p, i)')
         /\ \A p \in Partners : \A i : Has("free", p, i)' <=> Has("free", p, i) \/ (i = j /\ p = holder[j])
         /\ \A p, i : Has("take back", p, i)' <=> Has("take back", p, i)
         /\ \A p, i : Has("release", p, i)' <=> Has("release", p, i)
         /\ \A p, i : Has("assign", p, i)' <=> Has("assign", p, i)
         /\ \A p \in Partners, i \in Jobs : p = holder[j] => ~Holds(p, i)'
<1>. USE TypeInvParts
<1>1. JobsKept
  BY TransitionKeeps DEF HolderInv
<1>2. /\ status' = [status EXCEPT ![j] = to] /\ holder' = holder
  BY DEF Transition, JobsTyped
<1>3. ~Held(j)' /\ \A i \in Jobs : i # j => status'[i] = status[i]
  BY <1>2 DEF Held, BeforeStart, JobsTyped
<1>4. \A p \in Partners, i \in Jobs : i # j => (Holds(p, i) => Holds(p, i)')
  BY <1>2, <1>3 DEF Holds, Held
<1>5. \A p : /\ ~Does("take back", c, p) /\ ~Does("release", c, p) /\ ~Does("assign", c, p)
             /\ Does("free", c, p) <=> p = holder[j]
  BY DEF Does, TakesBack, Frees
<1>6. \A p \in Partners, i \in Jobs : p = holder[j] => ~Holds(p, i)'
  <2>1. SUFFICES ASSUME NEW p \in Partners, NEW i \in Jobs, p = holder[j], Holds(p, i)'
                 PROVE  FALSE
    OBVIOUS
  <2>2. Holds(p, i) /\ current[p] = i
    BY <1>1, <2>1 DEF JobsKept, HolderInv, Undisturbed
  <2>3. holder[j] # NoPartner
    BY <2>1 DEF DispatchAssumption
  <2>4. Held(j)
    <3>1. status[j] \in Open \cup BeforeStart \cup {"IN_PROGRESS"}
      BY EndsOnlyTrips DEF Transition
    <3>2. status[j] \notin Open
      BY <2>3 DEF HolderInv, OpenUnheld
    <3>. QED
      BY <3>1, <3>2 DEF Held
  <2>5. i = j
    BY <2>1, <2>2, <2>3, <2>4, HolderIs
  <2>. QED
    BY <1>3, <2>1, <2>5 DEF Holds
<1>7. /\ \A p \in Partners : \A i : Has("free", p, i)' <=> Has("free", p, i) \/ (i = j /\ p = holder[j])
      /\ \A p, i : Has("take back", p, i)' <=> Has("take back", p, i)
      /\ \A p, i : Has("release", p, i)' <=> Has("release", p, i)
      /\ \A p, i : Has("assign", p, i)' <=> Has("assign", p, i)
  BY <1>5, BeginDue
<1>. QED
  BY <1>1, <1>2, <1>3, <1>4, <1>6, <1>7

\* Cancellations and completions end a trip in this way.
LEMMA EndingEnds ==
  ASSUME DispatchAssumption, TypeInv, NEW j \in Jobs,
         Complete(j) \/ \E actor \in {CUSTOMER, PARTNER, ADMIN} : Cancel(j, actor)
  PROVE  /\ UNCHANGED <<offers, accepted, current, crashes>>
         /\ \E to, actor, c :
              /\ Transition(j, to, actor)
              /\ to = "CANCELLED" \/ (to = "COMPLETED" /\ actor = PARTNER)
              /\ HandlerOK(c) /\ Begin(c) /\ c.job = j /\ c.partner = holder[j]
              /\ c.then # "assign" /\ c.at \in {"sweep", "free"}
              /\ c.at = "free" \/ c.then = "free"
<1>. USE TypeInvParts
<1>1. UNCHANGED <<offers, accepted, current, crashes>>
  BY DEF Complete, Cancel, rowVars, partnerVars
<1>2. holder[j] \in Partners \cup {NoPartner}
  BY DEF JobsTyped
<1>3. CASE Complete(j)
  <2>. DEFINE c == Request("free", j, holder[j])
  <2>1. HandlerOK(c)
    BY <1>2, NewRequest DEF Labels
  <2>2. c.job = j /\ c.partner = holder[j] /\ c.then = "done" /\ c.at = "free"
    BY DEF Request
  <2>3. Transition(j, "COMPLETED", PARTNER) /\ Begin(c)
    BY <1>3 DEF Complete
  <2>. HIDE DEF c
  <2>. QED
    BY <1>1, <2>1, <2>2, <2>3
<1>4. ASSUME NEW actor \in {CUSTOMER, PARTNER, ADMIN}, Cancel(j, actor)
      PROVE  \E to, a, c :
              /\ Transition(j, to, a)
              /\ to = "CANCELLED" \/ (to = "COMPLETED" /\ a = PARTNER)
              /\ HandlerOK(c) /\ Begin(c) /\ c.job = j /\ c.partner = holder[j]
              /\ c.then # "assign" /\ c.at \in {"sweep", "free"}
              /\ c.at = "free" \/ c.then = "free"
  <2>. DEFINE c == [Request("sweep", j, holder[j]) EXCEPT !.then = "free"]
  <2>1. HandlerOK(Request("sweep", j, holder[j]))
    BY <1>2, NewRequest DEF Labels
  <2>2. HandlerOK(c)
    BY <2>1 DEF Request, HandlerOK, Call
  <2>3. c.job = j /\ c.partner = holder[j] /\ c.then = "free" /\ c.at = "sweep"
    BY DEF Request
  <2>4. Transition(j, "CANCELLED", actor) /\ Begin(c)
    BY <1>4 DEF Cancel
  <2>. HIDE DEF c
  <2>. QED
    BY <2>2, <2>3, <2>4
<1>. QED
  BY <1>1, <1>3, <1>4

LEMMA EndHolder ==
  ASSUME DispatchAssumption, TypeInv, HolderInv, NEW j \in Jobs,
         Complete(j) \/ \E actor \in {CUSTOMER, PARTNER, ADMIN} : Cancel(j, actor)
  PROVE  HolderInv'
<1>1. UNCHANGED <<offers, current>>
  BY EndingEnds
<1>2. PICK to, actor, c :
        /\ Transition(j, to, actor)
        /\ to = "CANCELLED" \/ (to = "COMPLETED" /\ actor = PARTNER)
        /\ HandlerOK(c) /\ Begin(c) /\ c.job = j /\ c.partner = holder[j]
        /\ c.then # "assign" /\ c.at \in {"sweep", "free"}
        /\ c.at = "free" \/ c.then = "free"
  BY EndingEnds
<1>3. /\ JobsKept
      /\ \A p \in Partners : \A i : Has("free", p, i)' <=> Has("free", p, i) \/ (i = j /\ p = holder[j])
      /\ \A p, i : Has("release", p, i)' <=> Has("release", p, i)
      /\ \A p, i : Has("assign", p, i)' <=> Has("assign", p, i)
      /\ \A p \in Partners, i \in Jobs : p = holder[j] => ~Holds(p, i)'
  BY <1>2, TripEnds
<1>4. \A p \in Partners : Claimed(p)' => Claimed(p)
  BY <1>1 DEF Claimed
<1>. QED
  BY <1>1, <1>3, <1>4, UndisturbedKept

-----------------------------------------------------------------------------
(* The other steps that decide something, by what they change.               *)

\* releaseByPartner has read that the job is the partner's.
LEMMA ReleaseEffect ==
  ASSUME DispatchAssumption, TypeInv, OpenUnheld, NEW j \in Jobs, Release(j)
  PROVE  /\ JobsSame /\ UNCHANGED <<current, offers, accepted, crashes>>
         /\ holder[j] \in Partners
         /\ \A p, i : Has("release", p, i)' <=> Has("release", p, i) \/ (i = j /\ p = holder[j])
         /\ \A p, i : /\ Has("take back", p, i)' <=> Has("take back", p, i)
                      /\ Has("free", p, i)' <=> Has("free", p, i)
                      /\ Has("assign", p, i)' <=> Has("assign", p, i)
<1>. USE TypeInvParts
<1>. DEFINE c == Request("release", j, holder[j])
<1>1. UNCHANGED <<current, offers, accepted, crashes, status, holder>>
  BY DEF Release, jobVars, rowVars, partnerVars
<1>2. holder[j] \in Partners
  BY DEF Release, JobsTyped
<1>3. HandlerOK(c) /\ Begin(c)
  BY <1>2, NewRequest DEF Labels, Release
<1>4. c.job = j /\ c.partner = holder[j] /\ c.then = "done" /\ c.at = "release"
  BY DEF Request
<1>. HIDE DEF c
<1>5. \A p : /\ ~Does("take back", c, p) /\ ~Does("free", c, p) /\ ~Does("assign", c, p)
             /\ Does("release", c, p) <=> p = holder[j]
  BY <1>4 DEF Does, TakesBack, Frees
<1>. QED
  BY <1>1, <1>2, <1>3, <1>4, <1>5, BeginDue, SameJobs

\* The job goes back to SEARCHING: its partner is to be freed.  Or it does not.
LEMMA SendBackEffect ==
  ASSUME DispatchAssumption, TypeInv, OpenUnheld, NEW c \in calls, ReleaseJob(c)
  PROVE  /\ UNCHANGED <<current, offers, accepted, crashes>>
         /\ c.job \in Jobs /\ c.partner \in Partners /\ Does("release", c, c.partner)
         /\ \A p, i : Has("release", p, i)' =>
              \E d \in calls : d # c /\ d.job = i /\ Does("release", d, p)
         /\ \A p, i : Has("assign", p, i)' <=> Has("assign", p, i)
         /\ \/ /\ JobsSame
               /\ \A p, i : /\ Has("take back", p, i)' <=> Has("take back", p, i)
                            /\ Has("free", p, i)' <=> Has("free", p, i)
            \/ /\ Transition(c.job, "SEARCHING", PARTNER)
               /\ \A p, i : Has("take back", p, i)' <=>
                             Has("take back", p, i) \/ (i = c.job /\ p = c.partner)
               /\ \A p, i : Has("free", p, i)' <=>
                             Has("free", p, i) \/ (i = c.job /\ p = c.partner)
<1>. USE TypeInvParts
<1>1. /\ HandlerOK(c) /\ c.at = "release" /\ c.job \in Jobs /\ c.partner \in Partners
      /\ c.then = "done"
  BY DEF HandlersOK, HandlerOK, ReleaseJob
<1>2. UNCHANGED <<current, offers, accepted, crashes>>
  BY DEF ReleaseJob, rowVars, partnerVars
<1>3. \A p : /\ ~Does("take back", c, p) /\ ~Does("free", c, p) /\ ~Does("assign", c, p)
             /\ Does("release", c, p) <=> p = c.partner
  BY <1>1 DEF Does, TakesBack, Frees
<1>4. CASE /\ Transition(c.job, "SEARCHING", PARTNER)
           /\ Continue(c, [c EXCEPT !.at = "released"])
  <2>. DEFINE d == [c EXCEPT !.at = "released"]
  <2>1. MovesTo(c, "released", d)
    BY DEF MovesTo
  <2>2. d.at = "released" /\ d.job = c.job /\ d.partner = c.partner /\ d.then = "done"
    BY <1>1, <2>1, MovedOn
  <2>3. Continue(c, d)
    BY <1>4
  <2>. HIDE DEF d
  <2>4. \A p : /\ Does("take back", d, p) <=> p = c.partner
               /\ Does("free", d, p) <=> p = c.partner
               /\ ~Does("assign", d, p) /\ ~Does("release", d, p)
    BY <2>2 DEF Does, TakesBack, Frees
  <2>5. \A p, i : Has("release", p, i)' =>
           \E x \in calls : x # c /\ x.job = i /\ Does("release", x, p)
    BY <2>3, <2>4 DEF Has, Continue
  <2>6. /\ \A p, i : Has("take back", p, i)' <=>
                      Has("take back", p, i) \/ (i = c.job /\ p = c.partner)
        /\ \A p, i : Has("free", p, i)' <=> Has("free", p, i) \/ (i = c.job /\ p = c.partner)
    <3>1. \A p, i : Has("take back", p, i)' <=>
                    Has("take back", p, i) \/ (i = c.job /\ Does("take back", d, p))
      BY <1>3, <2>2, <2>3, Exchange
    <3>2. \A p, i : Has("free", p, i)' <=> Has("free", p, i) \/ (i = c.job /\ Does("free", d, p))
      BY <1>3, <2>2, <2>3, Exchange
    <3>. QED
      BY <2>4, <3>1, <3>2
  <2>7. \A p, i : Has("assign", p, i)' <=> Has("assign", p, i)
    BY <1>3, <2>2, <2>3, <2>4, Exchange
  <2>. QED
    BY <1>1, <1>2, <1>3, <1>4, <2>5, <2>6, <2>7
<1>5. CASE Finish(c) /\ UNCHANGED <<status, holder, search>>
  <2>1. \A p, i : Has("release", p, i)' =>
           \E x \in calls : x # c /\ x.job = i /\ Does("release", x, p)
    BY <1>5 DEF Has, Finish
  <2>2. \A p, i : /\ Has("take back", p, i)' <=> Has("take back", p, i)
                  /\ Has("free", p, i)' <=> Has("free", p, i)
                  /\ Has("assign", p, i)' <=> Has("assign", p, i)
    BY <1>3, <1>5, FinishDue
  <2>3. JobsSame
    BY <1>5, SameJobs
  <2>. QED
    BY <1>1, <1>2, <1>3, <2>1, <2>2, <2>3
<1>. QED
  BY <1>4, <1>5 DEF ReleaseJob

\* A partner is freed of the job it gave or was taken back.
LEMMA TakeBackEffect ==
  ASSUME DispatchAssumption, TypeInv, OpenUnheld, NEW c \in calls,
         ReleasePartner(c) \/ ReleasePrevious(c)
  PROVE  /\ JobsSame /\ UNCHANGED <<offers, crashes>> /\ c.job \in Jobs
         /\ \E q \in Partners :
              /\ Does("take back", c, q) /\ Does("free", c, q)
              /\ SetFree(q) /\ ReassignRow(c.job, q)
              /\ \A duty \in {"take back", "free"} : \A p, i :
                   /\ Has(duty, p, i)' => Has(duty, p, i)
                   /\ Has(duty, p, i) => Has(duty, p, i)' \/ (i = c.job /\ p = q)
         /\ \A p, i : /\ Has("release", p, i)' <=> Has("release", p, i)
                      /\ Has("assign", p, i)' <=> Has("assign", p, i)
<1>. USE TypeInvParts
<1>1. /\ HandlerOK(c) /\ c.job \in Jobs
  BY DEF HandlersOK, HandlerOK, ReleasePartner, ReleasePrevious
<1>2. UNCHANGED <<offers, crashes, status, holder>>
  BY DEF ReleasePartner, ReleasePrevious, jobVars
<1>3. JobsSame
  BY <1>2, SameJobs
<1>4. ASSUME NEW q \in Partners, NEW d, Continue(c, d), d.job = c.job,
             \A duty \in {"take back", "free"} : \A p : /\ Does(duty, c, p) <=> p = q
                                                        /\ ~Does(duty, d, p),
             \A p : Does("assign", d, p) <=> Does("assign", c, p),
             \A p : ~Does("release", d, p) /\ ~Does("release", c, p)
      PROVE  /\ \A duty \in {"take back", "free"} : \A p, i :
                   /\ Has(duty, p, i)' => Has(duty, p, i)
                   /\ Has(duty, p, i) => Has(duty, p, i)' \/ (i = c.job /\ p = q)
             /\ \A p, i : /\ Has("release", p, i)' <=> Has("release", p, i)
                          /\ Has("assign", p, i)' <=> Has("assign", p, i)
  <2>1. \A duty \in {"take back", "free"} : \A p, i :
           /\ Has(duty, p, i)' => Has(duty, p, i)
           /\ Has(duty, p, i) => Has(duty, p, i)' \/ (i = c.job /\ p = q)
    BY <1>4, ContinueDue
  <2>2. \A p, i : Has("release", p, i)' <=> Has("release", p, i)
    BY <1>4, Exchange
  <2>3. \A p, i : Has("assign", p, i)' <=> Has("assign", p, i)
    BY <1>4, Exchange
  <2>. QED
    BY <2>1, <2>2, <2>3
<1>5. CASE ReleasePartner(c)
  <2>. DEFINE d == [c EXCEPT !.at = "wave", !.partner = NoPartner]
  <2>1. c.partner \in Partners /\ c.then = "done" /\ c.at = "released"
    BY <1>1, <1>5 DEF HandlerOK, ReleasePartner
  <2>2. d.job = c.job /\ d.then = "done" /\ d.at = "wave"
    BY <1>1, <2>1 DEF HandlerOK, Call
  <2>3. Continue(c, d) /\ SetFree(c.partner) /\ ReassignRow(c.job, c.partner)
    BY <1>5 DEF ReleasePartner
  <2>. HIDE DEF d
  <2>4. Inert(d)
    BY <2>2 DEF Inert
  <2>5. \A duty \in {"take back", "free"} : \A p : Does(duty, c, p) <=> p = c.partner
    BY <2>1 DEF Does, TakesBack, Frees
  <2>6. \A p : ~Does("assign", c, p) /\ ~Does("release", c, p)
    BY <2>1 DEF Does
  <2>. QED
    BY <1>1, <1>2, <1>3, <1>4, <2>1, <2>2, <2>3, <2>4, <2>5, <2>6, InertDoes
<1>6. CASE ReleasePrevious(c)
  <2>. DEFINE d == [c EXCEPT !.at = "sweep", !.prev = NoPartner]
  <2>1. c.prev \in Partners /\ c.then = "assign" /\ c.at = "reassigned"
    BY <1>1, <1>6 DEF HandlerOK, ReleasePrevious
  <2>2. d.job = c.job /\ d.then = "assign" /\ d.at = "sweep" /\ d.partner = c.partner
    BY <1>1, <2>1 DEF HandlerOK, Call
  <2>3. Continue(c, d) /\ SetFree(c.prev) /\ ReassignRow(c.job, c.prev)
    BY <1>6 DEF ReleasePrevious
  <2>. HIDE DEF d
  <2>4. \A duty \in {"take back", "free"} : \A p : /\ Does(duty, c, p) <=> p = c.prev
                                                  /\ ~Does(duty, d, p)
    BY <2>1, <2>2 DEF Does, TakesBack, Frees
  <2>5. \A p : /\ Does("assign", d, p) <=> Does("assign", c, p)
               /\ ~Does("release", d, p) /\ ~Does("release", c, p)
    BY <2>1, <2>2 DEF Does
  <2>. QED
    BY <1>1, <1>2, <1>3, <1>4, <2>1, <2>2, <2>3, <2>4, <2>5
<1>. QED
  BY <1>5, <1>6

\* afterCancellation and afterCompletion free the partner, if there is one.
LEMMA FreeEffect ==
  ASSUME DispatchAssumption, TypeInv, OpenUnheld, NEW c \in calls, Free(c)
  PROVE  /\ JobsSame /\ UNCHANGED <<offers, accepted, crashes>> /\ c.job \in Jobs
         /\ \/ c.partner = NoPartner /\ UNCHANGED current
            \/ c.partner \in Partners /\ SetFree(c.partner)
         /\ \A p : Does("free", c, p) <=> p = c.partner
         /\ \A p, i : /\ Has("free", p, i)' => Has("free", p, i)
                      /\ Has("free", p, i) => Has("free", p, i)' \/ (i = c.job /\ p = c.partner)
                      /\ Has("take back", p, i)' <=> Has("take back", p, i)
                      /\ Has("release", p, i)' <=> Has("release", p, i)
                      /\ Has("assign", p, i)' <=> Has("assign", p, i)
<1>. USE TypeInvParts
<1>1. /\ HandlerOK(c) /\ c.job \in Jobs /\ c.at = "free" /\ c.then # "assign"
      /\ c.partner \in Partners \cup {NoPartner}
  BY DEF HandlersOK, HandlerOK, Call, Free
<1>2. UNCHANGED <<offers, accepted, crashes, status, holder>> /\ Finish(c)
  BY DEF Free, rowVars, jobVars
<1>3. \A p : /\ Does("free", c, p) <=> p = c.partner
             /\ ~Does("take back", c, p) /\ ~Does("release", c, p) /\ ~Does("assign", c, p)
  BY <1>1 DEF Does, TakesBack, Frees
<1>4. \/ c.partner = NoPartner /\ UNCHANGED current
      \/ c.partner \in Partners /\ SetFree(c.partner)
  BY <1>1 DEF Free, partnerVars
<1>. QED
  BY <1>1, <1>2, <1>3, <1>4, SameJobs, FinishDue

\* manualAssign checks the partner; a job in hand goes back to SEARCHING, and is to be taken
\* back from the partner who has it.
Reassigns(j) == status[j] \in BeforeStart /\ holder[j] # NoPartner

LEMMA ManualEffect ==
  ASSUME DispatchAssumption, TypeInv, OpenUnheld, NEW j \in Jobs, NEW p \in Partners,
         ManualAssign(j, p)
  PROVE  /\ JobsKept /\ UNCHANGED <<offers, accepted, current, crashes>>
         /\ current[p] \in {NoJob, j}
         /\ Reassigns(j) => Transition(j, "SEARCHING", ADMIN)
         /\ ~Reassigns(j) => JobsSame
         /\ \E c \in calls' \ calls : /\ c.job = j
                                      /\ Reassigns(j) => Does("take back", c, holder[j])
         /\ \A q, i :
              /\ Has("take back", q, i)' <=>
                   Has("take back", q, i) \/ (Reassigns(j) /\ i = j /\ q = holder[j])
              /\ Has("free", q, i)' <=>
                   Has("free", q, i) \/ (Reassigns(j) /\ i = j /\ q = holder[j])
              /\ Has("assign", q, i)' <=> Has("assign", q, i) \/ (i = j /\ q = p)
              /\ Has("release", q, i)' <=> Has("release", q, i)
<1>. USE TypeInvParts
<1>1. PICK at \in {"begin", "sweep", "reassigned"}, prev \in Partners \cup {NoPartner} :
        /\ at = "reassigned" <=> Reassigns(j)
        /\ Reassigns(j) => prev = holder[j] /\ prev \in Partners
        /\ UNCHANGED <<offers, accepted, current, crashes>>
        /\ current[p] \in {NoJob, j} /\ Begin(Assignment(at, j, p, prev))
        /\ \/ Transition(j, "SEARCHING", ADMIN)
           \/ status[j] \notin BeforeStart /\ UNCHANGED <<status, holder, search>>
  BY DEF ManualAssign, rowVars, partnerVars, Reassigns, JobsTyped, BeforeStart
<1>. DEFINE c == Assignment(at, j, p, prev)
<1>2. /\ c.job = j /\ c.partner = p /\ c.then = "assign" /\ c.at = at
      /\ Reassigns(j) => c.prev = holder[j]
  BY <1>1 DEF Assignment
<1>3. HandlerOK(c) /\ Begin(c)
  BY <1>1, AssignmentRequest
<1>. HIDE DEF c
<1>4. \A q : /\ Does("take back", c, q) <=> Reassigns(j) /\ q = holder[j]
             /\ Does("free", c, q) <=> Reassigns(j) /\ q = holder[j]
             /\ Does("assign", c, q) <=> q = p
             /\ ~Does("release", c, q)
  BY <1>1, <1>2 DEF Does, TakesBack, Frees
<1>5. \A q, i :
        /\ Has("take back", q, i)' <=>
             Has("take back", q, i) \/ (Reassigns(j) /\ i = j /\ q = holder[j])
        /\ Has("free", q, i)' <=> Has("free", q, i) \/ (Reassigns(j) /\ i = j /\ q = holder[j])
        /\ Has("assign", q, i)' <=> Has("assign", q, i) \/ (i = j /\ q = p)
        /\ Has("release", q, i)' <=> Has("release", q, i)
  <2>1. \A duty, q, i : Has(duty, q, i)' <=> Has(duty, q, i) \/ (c.job = i /\ Does(duty, c, q))
    BY <1>3, BeginDue
  <2>2. \A q, i : Has("take back", q, i)' <=>
           Has("take back", q, i) \/ (Reassigns(j) /\ i = j /\ q = holder[j])
    BY <1>2, <1>4, <2>1
  <2>3. \A q, i : Has("free", q, i)' <=>
           Has("free", q, i) \/ (Reassigns(j) /\ i = j /\ q = holder[j])
    BY <1>2, <1>4, <2>1
  <2>4. \A q, i : Has("assign", q, i)' <=> Has("assign", q, i) \/ (i = j /\ q = p)
    BY <1>2, <1>4, <2>1
  <2>5. \A q, i : Has("release", q, i)' <=> Has("release", q, i)
    BY <1>2, <1>4, <2>1
  <2>. QED
    BY <2>2, <2>3, <2>4, <2>5
<1>6. \E d \in calls' \ calls : d.job = j /\ (Reassigns(j) => Does("take back", d, holder[j]))
  <2>1. PICK n \in 1..(MaxRequests + MaxWorkers) :
          /\ IsFree(n) /\ calls' = calls \cup {[c EXCEPT !.id = n]}
    BY <1>3 DEF Begin
  <2>. DEFINE d == [c EXCEPT !.id = n]
  <2>2. /\ d.id = n /\ d.job = c.job /\ d.at = c.at /\ d.prev = c.prev
    BY <1>3 DEF HandlerOK, Call
  <2>3. d \notin calls
    BY <2>1, <2>2 DEF IsFree
  <2>4. Reassigns(j) => Does("take back", d, holder[j])
    BY <1>1, <1>2, <2>2 DEF Does, TakesBack
  <2>. QED
    BY <1>2, <2>1, <2>2, <2>3, <2>4
<1>7. JobsKept
  BY <1>1, TransitionKeeps, SameJobs DEF JobsSame
<1>8. Reassigns(j) => Transition(j, "SEARCHING", ADMIN)
  BY <1>1, StatusSets DEF Reassigns
<1>9. ASSUME ~Reassigns(j)
      PROVE  JobsSame
  <2>1. CASE UNCHANGED <<status, holder>>
    BY <2>1, SameJobs
  <2>2. CASE Transition(j, "SEARCHING", ADMIN) /\ status[j] \notin BeforeStart
    BY <2>2, TransitionSame
  <2>3. CASE Transition(j, "SEARCHING", ADMIN) /\ holder[j] = NoPartner
    <3>1. holder' = holder /\ status' = [status EXCEPT ![j] = "SEARCHING"]
      BY <2>3 DEF Transition, JobsTyped
    <3>2. \A q \in Partners : ~Holds(q, j)
      BY <2>3 DEF Holds, DispatchAssumption
    <3>3. \A q \in Partners, i \in Jobs : Holds(q, i) => Holds(q, i)'
      BY <3>1, <3>2 DEF Holds, Held, JobsTyped
    <3>. QED
      BY <1>7, <3>1, <3>3 DEF JobsSame
  <2>. QED
    BY <1>1, <1>9, <2>1, <2>2, <2>3 DEF Reassigns
<1>. QED
  BY <1>1, <1>5, <1>6, <1>7, <1>8, <1>9

\* The transition of an assignment to an idle job keeps what its handler has left to do, and
\* takes the job from whoever accepted it meanwhile; or it is refused.
LEMMA BeginEffect ==
  ASSUME DispatchAssumption, TypeInv, OpenUnheld, NEW c \in calls, BeginByHand(c)
  PROVE  /\ JobsKept /\ UNCHANGED <<offers, accepted, current, crashes>>
         /\ holder' = holder => JobsSame
         /\ \A p, i : /\ Has("take back", p, i)' <=> Has("take back", p, i)
                      /\ Has("free", p, i)' <=> Has("free", p, i)
                      /\ Has("release", p, i)' <=> Has("release", p, i)
                      /\ Has("assign", p, i)' => Has("assign", p, i)
<1>. USE TypeInvParts
<1>1. /\ HandlerOK(c) /\ c.at = "begin" /\ c.then = "assign" /\ c.job \in Jobs
      /\ UNCHANGED <<offers, accepted, current, crashes>>
  BY DEF HandlersOK, HandlerOK, BeginByHand, rowVars, partnerVars
<1>2. \A p : ~Does("take back", c, p) /\ ~Does("free", c, p) /\ ~Does("release", c, p)
  BY <1>1 DEF Does, TakesBack, Frees
<1>3. CASE Transition(c.job, "SEARCHING", ADMIN) /\ Continue(c, [c EXCEPT !.at = "sweep"])
  <2>. DEFINE d == [c EXCEPT !.at = "sweep"]
  <2>1. MovesTo(c, "sweep", d)
    BY DEF MovesTo
  <2>2. d.at = "sweep" /\ d.job = c.job /\ d.partner = c.partner /\ d.then = "assign"
    BY <1>1, <2>1, MovedOn
  <2>3. Continue(c, d)
    BY <1>3
  <2>. HIDE DEF d
  <2>4. \A p : /\ ~Does("take back", d, p) /\ ~Does("free", d, p) /\ ~Does("release", d, p)
               /\ Does("assign", d, p) <=> Does("assign", c, p)
    BY <1>1, <2>2 DEF Does, TakesBack, Frees
  <2>5. \A duty : (\A p : Does(duty, c, p) <=> Does(duty, d, p)) =>
                    \A p, i : Has(duty, p, i)' <=> Has(duty, p, i)
    BY <2>2, <2>3, Exchange
  <2>6. JobsKept
    BY <1>1, <1>3, TransitionKeeps
  <2>7. ASSUME holder' = holder
        PROVE  JobsSame
    <3>1. CASE status[c.job] \notin BeforeStart
      BY <1>1, <1>3, <3>1, TransitionSame
    <3>2. CASE status[c.job] \in BeforeStart
      <4>1. holder[c.job] = NoPartner /\ status' = [status EXCEPT ![c.job] = "SEARCHING"]
        BY <1>1, <1>3, <2>7, <3>2 DEF Transition, JobsTyped
      <4>2. \A q \in Partners : ~Holds(q, c.job)
        BY <4>1 DEF Holds, DispatchAssumption
      <4>3. \A q \in Partners, i \in Jobs : Holds(q, i) => Holds(q, i)'
        BY <2>7, <4>1, <4>2 DEF Holds, Held, JobsTyped
      <4>. QED
        BY <2>6, <2>7, <4>3 DEF JobsSame
    <3>. QED
      BY <3>1, <3>2
  <2>. QED
    BY <1>1, <1>2, <2>4, <2>5, <2>6, <2>7
<1>4. CASE Finish(c) /\ UNCHANGED <<status, holder, search>>
  BY <1>1, <1>2, <1>4, FinishDue, SameJobs DEF JobsSame
<1>. QED
  BY <1>3, <1>4 DEF BeginByHand

\* adminTransition.
LEMMA ForceEffect ==
  ASSUME DispatchAssumption, TypeInv, OpenUnheld, NEW j \in Jobs, NEW to, ForceStatus(j, to)
  PROVE  /\ JobsKept /\ SameDuties /\ UNCHANGED <<offers, accepted, current, crashes>>
         /\ to \notin {"SEARCHING", "COMPLETED"} => JobsSame
         /\ to # "SEARCHING" => holder' = holder
<1>. USE TypeInvParts
<1>1. /\ Transition(j, to, ADMIN) /\ to # "CANCELLED"
      /\ UNCHANGED <<offers, accepted, current, crashes, calls>>
  BY DEF ForceStatus, rowVars, partnerVars
<1>2. to # "SEARCHING" => holder' = holder
  BY <1>1 DEF Transition, JobsTyped
<1>. QED
  BY <1>1, <1>2, TransitionKeeps, TransitionSame, SameCalls

-----------------------------------------------------------------------------
(* They keep the invariant too.                                              *)

LEMMA HandoverHolder ==
  ASSUME DispatchAssumption, TypeInv, HolderInv, NEW c \in calls,
         \/ Free(c) \/ ReleaseJob(c) \/ ReleasePartner(c)
         \/ BeginByHand(c) \/ ReleasePrevious(c)
  PROVE  HolderInv'
<1>. USE TypeInvParts
<1>0. OpenUnheld
  BY DEF HolderInv
<1>1. UNCHANGED offers
  BY <1>0, FreeEffect, SendBackEffect, TakeBackEffect, BeginEffect
<1>2. \A p \in Partners : Claimed(p)' => Claimed(p)
  BY <1>1 DEF Claimed
<1>3. ASSUME NEW q \in Partners, Does("free", c, q), SetFree(q), c.job \in Jobs, JobsSame
      PROVE  \A p \in Partners, j \in Jobs : Holds(p, j)' => current'[p] = current[p]
  <2>1. Has("free", q, c.job)
    BY <1>3 DEF Has
  <2>2. \A j \in Jobs : ~Holds(q, j)
    BY <1>3, <2>1 DEF HolderInv, Undisturbed
  <2>3. \A p \in Partners : p # q => current'[p] = current[p]
    BY <1>3 DEF SetFree, PartnersTyped
  <2>. QED
    BY <1>3, <2>2, <2>3 DEF JobsSame, JobsKept
<1>4. CASE Free(c)
  <2>1. /\ JobsSame /\ c.job \in Jobs
        /\ \/ c.partner = NoPartner /\ UNCHANGED current
           \/ c.partner \in Partners /\ SetFree(c.partner)
        /\ Does("free", c, c.partner)
        /\ \A p, i : /\ Has("free", p, i)' => Has("free", p, i)
                     /\ Has("release", p, i)' <=> Has("release", p, i)
                     /\ Has("assign", p, i)' <=> Has("assign", p, i)
    BY <1>0, <1>4, FreeEffect
  <2>2. \A p \in Partners, j \in Jobs : Holds(p, j)' => current'[p] = current[p]
    BY <1>3, <2>1
  <2>. QED
    BY <1>2, <2>1, <2>2, UndisturbedKept DEF JobsSame
<1>5. CASE ReleasePartner(c) \/ ReleasePrevious(c)
  <2>1. /\ JobsSame /\ c.job \in Jobs
        /\ \A p, i : /\ Has("release", p, i)' <=> Has("release", p, i)
                     /\ Has("assign", p, i)' <=> Has("assign", p, i)
    BY <1>0, <1>5, TakeBackEffect
  <2>2. PICK q \in Partners :
          /\ Does("free", c, q) /\ SetFree(q)
          /\ \A duty \in {"take back", "free"} : \A p, i : Has(duty, p, i)' => Has(duty, p, i)
    BY <1>0, <1>5, TakeBackEffect
  <2>3. \A p \in Partners, j \in Jobs : Holds(p, j)' => current'[p] = current[p]
    BY <1>3, <2>1, <2>2
  <2>. QED
    BY <1>2, <2>1, <2>2, <2>3, UndisturbedKept DEF JobsSame
<1>6. CASE ReleaseJob(c)
  <2>1. /\ UNCHANGED current /\ c.job \in Jobs /\ c.partner \in Partners
        /\ Does("release", c, c.partner)
        /\ \A p, i : Has("release", p, i)' =>
             \E d \in calls : d # c /\ d.job = i /\ Does("release", d, p)
        /\ \A p, i : Has("assign", p, i)' <=> Has("assign", p, i)
    BY <1>0, <1>6, SendBackEffect
  <2>2. \A p, i : Has("release", p, i)' => Has("release", p, i)
    BY <2>1 DEF Has
  <2>3. CASE /\ JobsSame
             /\ \A p, i : Has("free", p, i)' <=> Has("free", p, i)
    BY <1>2, <2>1, <2>2, <2>3, UndisturbedKept DEF JobsSame
  <2>4. CASE /\ Transition(c.job, "SEARCHING", PARTNER)
             /\ \A p, i : Has("free", p, i)' <=>
                            Has("free", p, i) \/ (i = c.job /\ p = c.partner)
    <3>1. JobsKept
      BY <1>0, <2>1, <2>4, TransitionKeeps
    <3>2. status'[c.job] = "SEARCHING"
      BY <2>1, <2>4 DEF Transition, JobsTyped
    <3>3. ~Past(c.job) /\ ~Held(c.job)'
      BY <2>1, <3>1, <3>2, StatusSets DEF JobsKept, Past, Held
    <3>4. \A j \in Jobs : ~Holds(c.partner, j)'
      <4>1. SUFFICES ASSUME NEW j \in Jobs, Holds(c.partner, j)'
                     PROVE  FALSE
        OBVIOUS
      <4>2. Holds(c.partner, j) /\ Has("release", c.partner, c.job)
        BY <2>1, <3>1, <4>1 DEF JobsKept, Has
      <4>3. j = c.job
        BY <2>1, <3>3, <4>2 DEF HolderInv, Undisturbed
      <4>. QED
        BY <3>3, <4>1, <4>3 DEF Holds
    <3>. QED
      BY <1>2, <2>1, <2>2, <2>4, <3>1, <3>4, UndisturbedKept
  <2>. QED
    BY <1>0, <1>6, <2>3, <2>4, SendBackEffect
<1>7. CASE BeginByHand(c)
  BY <1>0, <1>2, <1>7, BeginEffect, UndisturbedKept
<1>. QED
  BY <1>4, <1>5, <1>6, <1>7

LEMMA RequestHolder ==
  ASSUME DispatchAssumption, TypeInv, HolderInv, NEW j \in Jobs,
         \/ Release(j)
         \/ \E p \in Partners : ManualAssign(j, p)
         \/ \E to \in ForcedTargets : ForceStatus(j, to)
  PROVE  HolderInv'
<1>. USE TypeInvParts
<1>0. OpenUnheld
  BY DEF HolderInv
<1>1. UNCHANGED <<offers, current>>
  BY <1>0, ReleaseEffect, ManualEffect, ForceEffect
<1>2. \A p \in Partners : Claimed(p)' => Claimed(p)
  BY <1>1 DEF Claimed
<1>3. CASE Release(j)
  <2>1. /\ JobsSame /\ holder[j] \in Partners
        /\ \A p, i : Has("release", p, i)' <=> Has("release", p, i) \/ (i = j /\ p = holder[j])
        /\ \A p, i : /\ Has("free", p, i)' <=> Has("free", p, i)
                     /\ Has("assign", p, i)' <=> Has("assign", p, i)
    BY <1>0, <1>3, ReleaseEffect
  <2>2. JobsKept
    BY <2>1 DEF JobsSame
  <2>3. \A p \in Partners, i \in Jobs : p = holder[j] /\ Holds(p, i)' => i = j \/ Past(j)'
    <3>1. SUFFICES ASSUME NEW i \in Jobs, Holds(holder[j], i), ~Past(j)
                   PROVE  i = j
      BY <2>1, <2>2 DEF JobsKept
    <3>2. current[holder[j]] = i
      BY <2>1, <3>1 DEF HolderInv, Undisturbed
    <3>3. holder[j] # NoPartner
      BY <2>1 DEF DispatchAssumption
    <3>. QED
      BY <3>1, <3>2, <3>3, HolderIs
  <2>4. holder' = holder
    BY <2>1 DEF JobsSame
  <2>. QED
    BY <1>1, <1>2, <2>1, <2>2, <2>3, <2>4, UndisturbedKept
<1>4. ASSUME NEW p \in Partners, ManualAssign(j, p)
      PROVE  HolderInv'
  <2>1. /\ JobsKept /\ current[p] \in {NoJob, j}
        /\ Reassigns(j) => Transition(j, "SEARCHING", ADMIN)
        /\ \A q, i :
             /\ Has("free", q, i)' <=> Has("free", q, i) \/ (Reassigns(j) /\ i = j /\ q = holder[j])
             /\ Has("assign", q, i)' <=> Has("assign", q, i) \/ (i = j /\ q = p)
             /\ Has("release", q, i)' <=> Has("release", q, i)
    BY <1>0, <1>4, ManualEffect
  <2>2. \A i \in Jobs : Holds(p, i)' => i = j
    BY <2>1 DEF JobsKept, HolderInv, Undisturbed, DispatchAssumption
  <2>3. ASSUME Reassigns(j), NEW q \in Partners, q = holder[j], NEW i \in Jobs, Holds(q, i)'
        PROVE  FALSE
    <3>1. JobsKept /\ status'[j] = "SEARCHING"
      BY <2>1, <2>3 DEF Transition, JobsTyped
    <3>2. current[q] = j
      BY <2>3, HolderIs DEF Reassigns, Held
    <3>3. Holds(q, i)
      BY <2>3, <3>1 DEF JobsKept
    <3>4. i = j
      BY <2>3, <3>2, <3>3 DEF HolderInv, Undisturbed
    <3>. QED
      BY <2>3, <3>1, <3>4, StatusSets DEF Holds, Held
  <2>4. ASSUME NEW q \in Partners, NEW i \in Jobs, Holds(q, i)', NEW k \in Jobs
        PROVE  /\ Has("free", q, k)' => Has("free", q, k)
               /\ Has("release", q, k)' => Has("release", q, k)
               /\ Has("assign", q, k)' => Has("assign", q, k) \/ k = i
    <3>1. Has("free", q, k)' => Has("free", q, k)
      BY <2>1, <2>3, <2>4
    <3>2. Has("release", q, k)' => Has("release", q, k)
      BY <2>1
    <3>3. Has("assign", q, k)' => Has("assign", q, k) \/ k = i
      BY <2>1, <2>2, <2>4
    <3>. QED
      BY <3>1, <3>2, <3>3
  <2>5. JobsKept
    BY <2>1
  <2>. QED
    BY <1>1, <1>2, <2>4, <2>5, UndisturbedKept
<1>5. ASSUME NEW to, ForceStatus(j, to)
      PROVE  HolderInv'
  <2>1. JobsKept /\ SameDuties
    BY <1>0, <1>5, ForceEffect
  <2>. QED
    BY <1>1, <1>2, <2>1, UndisturbedKept DEF SameDuties
<1>. QED
  BY <1>3, <1>4, <1>5

LEMMA ClaimHolder ==
  ASSUME DispatchAssumption, TypeInv, HolderInv, NEW j \in Jobs, NEW o \in offers[j],
         ClaimOffer(j, o)
  PROVE  HolderInv'
<1>. USE TypeInvParts
<1>1. UNCHANGED <<status, holder, current, calls>> /\ current[o.partner] = NoJob
  BY DEF ClaimOffer, jobVars, partnerVars
<1>2. JobsSame /\ SameDuties
  BY <1>1, SameJobs, SameCalls DEF HolderInv
<1>3. \A i \in Jobs : ~Holds(o.partner, i)
  <2>1. o.partner \in Partners
    BY DEF RowsTyped, Offer
  <2>. QED
    BY <1>1, <2>1 DEF HolderInv, Undisturbed, DispatchAssumption
<1>4. \A p \in Partners : Claimed(p)' => Claimed(p) \/ p = o.partner
  <2>1. offers' = WithOffer(j, o, {[o EXCEPT !.stage = "claimed"]}) /\ o \in Offer
    BY DEF ClaimOffer, RowsTyped
  <2>2. \A i \in Jobs : \A x \in offers'[i] : x \in offers[i] \/ x.partner = o.partner
    BY <2>1 DEF WithOffer, RowsTyped, Offer
  <2>. QED
    BY <2>2 DEF Claimed
<1>. QED
  BY <1>1, <1>2, <1>3, <1>4, UndisturbedKept DEF SameDuties, JobsSame, JobsKept

LEMMA CrashHolder ==
  ASSUME HolderInv, Crash, TypeInv
  PROVE  HolderInv'
<1>1. JobsSame /\ current' = current
  BY SameJobs DEF HolderInv, Crash, jobVars, partnerVars
<1>2. \A p, i, duty : ~Has(duty, p, i)'
  BY DEF Crash, Has
<1>3. \A p \in Partners : ~Claimed(p)'
  <2>1. \A j \in Jobs : \A x \in offers'[j] : x.stage = "open"
    BY TypeInvParts DEF Crash, RowsTyped, Offer
  <2>. QED
    BY <2>1 DEF Claimed
<1>. QED
  BY <1>1, <1>2, <1>3, UndisturbedKept DEF JobsSame

LEMMA HolderStep ==
  ASSUME DispatchAssumption, TypeInv, HolderInv, PartnersApart, [Next]_vars
  PROVE  HolderInv'
<1>1. CASE ~Decides
  BY <1>1, QuietOrDecides, QuietHolder DEF HolderInv
<1>2. ASSUME NEW c \in calls, \/ Free(c) \/ ReleaseJob(c) \/ ReleasePartner(c)
                              \/ BeginByHand(c) \/ ReleasePrevious(c) \/ AssignByHand(c)
      PROVE  HolderInv'
  BY <1>2, HandoverHolder, AssignHolder
<1>3. ASSUME NEW j \in Jobs, \/ \E actor \in {CUSTOMER, PARTNER, ADMIN} : Cancel(j, actor)
                             \/ Complete(j) \/ Release(j)
                             \/ \E p \in Partners : ManualAssign(j, p)
                             \/ \E to \in ForcedTargets : ForceStatus(j, to)
                             \/ \E o \in offers[j] : ClaimOffer(j, o) \/ CommitAccept(j, o)
      PROVE  HolderInv'
  BY <1>3, EndHolder, RequestHolder, ClaimHolder, CommitHolder
<1>4. CASE Crash
  BY <1>4, CrashHolder
<1>. QED
  BY <1>1, <1>2, <1>3, <1>4 DEF Decides

LEMMA HolderInit ==
  ASSUME DispatchAssumption, Init
  PROVE  HolderInv
BY DEF DispatchAssumption, Init, HolderInv, OpenUnheld, Undisturbed, Holds

LEMMA HolderInvAlways == Spec /\ []PartnersApart => []HolderInv
<1>1. Init => HolderInv
  BY HolderInit, DispatchAssumption
<1>2. HolderInv /\ TypeInv /\ PartnersApart /\ [Next]_vars => HolderInv'
  BY HolderStep, DispatchAssumption
<1>. QED
  BY <1>1, <1>2, TypeInvAlways, PTL DEF Spec

\* When requests about one partner are kept apart, no interleaving of the rest (other
\* requests, workers, timers, administrators who force any status, crashes) leaves a
\* partner with a job in hand looking free, or on another job.
THEOREM HolderIsBusyApart == Spec /\ []PartnersApart => []HolderIsBusy
<1>1. TypeInv /\ HolderInv => HolderIsBusy
  BY TypeInvParts, HolderIs DEF HolderIsBusy
<1>. QED
  BY <1>1, HolderInvAlways, TypeInvAlways, PTL

-----------------------------------------------------------------------------
(* Who gives a job back, and who is busy or accepted for what reason.        *)

LEMMA TransitionElsewhere ==
  ASSUME JobsTyped, NEW j \in Jobs, NEW to, NEW actor, Transition(j, to, actor)
  PROVE  \A i \in Jobs : i # j => /\ holder'[i] = holder[i]
                                  /\ \A p : Holds(p, i) => Holds(p, i)'
<1>1. \A i \in Jobs : i # j => holder'[i] = holder[i] /\ status'[i] = status[i]
  BY DEF Transition, JobsTyped
<1>. QED
  BY <1>1 DEF Holds, Held

\* A partner who is giving a job back still has it.
ReleaserHolds == \A p \in Partners, j \in Jobs : Has("release", p, j) => holder[j] = p

\* A step that AssignsUntaken allows takes no accepted job for an assignment by hand.
LEMMA UntakenStep ==
  ASSUME [TakesFromNobody]_vars, NEW c \in calls, BeginByHand(c)
  PROVE  holder' = holder
BY DEF TakesFromNobody, vars, jobVars

LEMMA ReleaserStep ==
  ASSUME DispatchAssumption, TypeInv, OpenUnheld, PartnersApart, PartnersApart',
         "SEARCHING" \notin ForcedTargets, ReleaserHolds, [Next]_vars, [TakesFromNobody]_vars
  PROVE  ReleaserHolds'
<1>. USE TypeInvParts
<1>1. ASSUME holder' = holder,
             \A p \in Partners, j \in Jobs : Has("release", p, j)' => Has("release", p, j)
      PROVE  ReleaserHolds'
  BY <1>1 DEF ReleaserHolds
<1>2. CASE ~Decides
  BY <1>1, <1>2, QuietOrDecides DEF Quiet, JobsSame, SameDuties
<1>3. ASSUME NEW c \in calls, Free(c) \/ ReleasePartner(c) \/ ReleasePrevious(c)
      PROVE  ReleaserHolds'
  <2>1. /\ JobsSame
        /\ \A p, i : Has("release", p, i)' <=> Has("release", p, i)
    BY <1>3, FreeEffect, TakeBackEffect
  <2>. QED
    BY <1>1, <2>1 DEF JobsSame
<1>4. ASSUME NEW c \in calls, ReleaseJob(c)
      PROVE  ReleaserHolds'
  <2>1. /\ c.job \in Jobs /\ c.partner \in Partners /\ Does("release", c, c.partner)
        /\ \A p, i : Has("release", p, i)' =>
             \E d \in calls : d # c /\ d.job = i /\ Does("release", d, p)
        /\ JobsSame \/ Transition(c.job, "SEARCHING", PARTNER)
    BY <1>4, SendBackEffect
  <2>2. \A p, i : Has("release", p, i)' => Has("release", p, i)
    BY <2>1 DEF Has
  <2>3. CASE JobsSame
    BY <1>1, <2>2, <2>3 DEF JobsSame
  <2>4. CASE Transition(c.job, "SEARCHING", PARTNER)
    <3>1. ASSUME NEW p \in Partners, NEW i \in Jobs, Has("release", p, i)'
          PROVE  holder'[i] = p
      <4>1. holder[i] = p /\ holder[c.job] = c.partner
        <5>1. Has("release", c.partner, c.job)
          BY <2>1 DEF Has
        <5>. QED
          BY <2>1, <2>2, <3>1, <5>1 DEF ReleaserHolds
      <4>2. i # c.job
        <5>1. SUFFICES ASSUME i = c.job
                       PROVE  FALSE
          OBVIOUS
        <5>2. p = c.partner
          BY <4>1, <5>1
        <5>3. PICK d \in calls : d # c /\ Does("release", d, p)
          BY <2>1, <3>1
        <5>. QED
          BY <2>1, <5>2, <5>3, ApartFrom
      <4>. QED
        BY <2>1, <2>4, <4>1, <4>2, TransitionElsewhere
    <3>. QED
      BY <3>1 DEF ReleaserHolds
  <2>. QED
    BY <2>1, <2>3, <2>4
<1>5. ASSUME NEW c \in calls, AssignByHand(c)
      PROVE  ReleaserHolds'
  <2>1. \A p, i : Has("release", p, i)' => Has("release", p, i)
    BY <1>5, FinishDue DEF AssignByHand
  <2>2. CASE TransitionToAssigned(c.job, c.partner, ADMIN)
    <3>1. c.job \in Jobs /\ c.partner \in Partners
      BY <1>5 DEF HandlersOK, HandlerOK, AssignByHand
    <3>2. holder[c.job] = NoPartner /\ holder' = [holder EXCEPT ![c.job] = c.partner]
      BY <2>2, <3>1, AssignmentGives
    <3>. QED
      BY <2>1, <3>1, <3>2 DEF ReleaserHolds, JobsTyped, DispatchAssumption
  <2>3. CASE UNCHANGED holder
    BY <1>1, <2>1, <2>3
  <2>. QED
    BY <1>5, <2>2, <2>3 DEF AssignByHand
<1>6. ASSUME NEW j \in Jobs, Complete(j) \/ \E actor \in {CUSTOMER, PARTNER, ADMIN} : Cancel(j, actor)
      PROVE  ReleaserHolds'
  <2>1. holder' = holder
    BY <1>6 DEF Complete, Cancel, Transition, JobsTyped
  <2>2. \A p, i : Has("release", p, i)' => Has("release", p, i)
    <3>1. PICK to, actor, c :
            /\ HandlerOK(c) /\ Begin(c) /\ c.at \in {"sweep", "free"}
      BY <1>6, EndingEnds
    <3>2. \A p : ~Does("release", c, p)
      BY <3>1 DEF Does
    <3>. QED
      BY <3>1, <3>2, BeginDue
  <2>. QED
    BY <1>1, <2>1, <2>2
<1>7. ASSUME NEW j \in Jobs, Release(j)
      PROVE  ReleaserHolds'
  <2>1. /\ JobsSame
        /\ \A p, i : Has("release", p, i)' <=> Has("release", p, i) \/ (i = j /\ p = holder[j])
    BY <1>7, ReleaseEffect
  <2>. QED
    BY <2>1 DEF ReleaserHolds, JobsSame
<1>8. ASSUME NEW j \in Jobs, NEW p \in Partners, ManualAssign(j, p)
      PROVE  ReleaserHolds'
  <2>1. /\ Reassigns(j) => Transition(j, "SEARCHING", ADMIN)
        /\ ~Reassigns(j) => JobsSame
        /\ \E c \in calls' : Reassigns(j) => Does("take back", c, holder[j])
    BY <1>8, ManualEffect
  <2>2. \A q, i : Has("release", q, i)' => Has("release", q, i)
    BY <1>8, ManualEffect
  <2>3. CASE ~Reassigns(j)
    BY <1>1, <2>1, <2>2, <2>3 DEF JobsSame
  <2>4. CASE Reassigns(j)
    <3>1. ASSUME NEW q \in Partners, NEW i \in Jobs, Has("release", q, i)'
          PROVE  i # j
      <4>1. SUFFICES ASSUME i = j
                     PROVE  FALSE
        OBVIOUS
      <4>2. holder[j] = q
        BY <2>2, <3>1, <4>1 DEF ReleaserHolds
      <4>3. PICK c \in calls' : Does("take back", c, q)
        BY <2>1, <2>4, <4>2
      <4>4. PICK d \in calls' : Does("release", d, q)
        BY <3>1 DEF Has
      <4>5. c \in Deciding(q)' /\ d \in Deciding(q)' /\ c # d
        BY <4>3, <4>4 DEF Deciding, Does, Frees, TakesBack
      <4>. QED
        BY <4>5 DEF PartnersApart
    <3>2. \A i \in Jobs : i # j => holder'[i] = holder[i]
      BY <2>1, <2>4, TransitionElsewhere
    <3>. QED
      BY <2>2, <3>1, <3>2 DEF ReleaserHolds
  <2>. QED
    BY <2>3, <2>4
<1>9. ASSUME NEW j \in Jobs, NEW to \in ForcedTargets, ForceStatus(j, to)
      PROVE  ReleaserHolds'
  BY <1>1, <1>9, ForceEffect DEF SameDuties
<1>10. ASSUME NEW j \in Jobs, NEW o \in offers[j], ClaimOffer(j, o)
       PROVE  ReleaserHolds'
  BY <1>1, <1>10 DEF ClaimOffer, Has, jobVars
<1>11. ASSUME NEW j \in Jobs, NEW o \in offers[j], CommitAccept(j, o)
       PROVE  ReleaserHolds'
  <2>1. o.partner \in Partners
    BY DEF RowsTyped, Offer
  <2>2. SameDuties
    BY <1>11, <2>1, CommitDuties
  <2>3. holder[j] = NoPartner /\ holder' = [holder EXCEPT ![j] = o.partner]
    BY <1>11, <2>1, AssignmentGives DEF CommitAccept
  <2>. QED
    BY <2>1, <2>2, <2>3 DEF SameDuties, ReleaserHolds, JobsTyped, DispatchAssumption
<1>12. CASE Crash
  BY <1>12 DEF Crash, ReleaserHolds, Has
<1>13. ASSUME NEW c \in calls, BeginByHand(c)
       PROVE  ReleaserHolds'
  BY <1>1, <1>13, BeginEffect, UntakenStep
<1>. QED
  BY <1>2, <1>3, <1>4, <1>5, <1>6, <1>7, <1>8, <1>9, <1>10, <1>11, <1>12, <1>13 DEF Decides

\* Why a partner is recorded as being on a job.
Explained(p, j) == Holds(p, j) \/ Has("free", p, j)

BusyInv == crashes = 0 =>
  \A p \in Partners, j \in Jobs : current[p] = j => Explained(p, j)

LEMMA BusyKept ==
  ASSUME BusyInv, crashes' = 0 => crashes = 0,
         \A p \in Partners, j \in Jobs : current'[p] = j =>
           Explained(p, j)' \/ (current[p] = j /\ (Explained(p, j) => Explained(p, j)'))
  PROVE  BusyInv'
BY DEF BusyInv

\* The partner a step sets free is on no job any more.
LEMMA FreedOnNone ==
  ASSUME DispatchAssumption, PartnersTyped, NEW q \in Partners, SetFree(q)
  PROVE  \A p \in Partners, j \in Jobs : current'[p] = j => current[p] = j /\ p # q
BY DEF DispatchAssumption, PartnersTyped, SetFree

LEMMA BusyStep ==
  ASSUME DispatchAssumption, TypeInv, HolderInv, ReleaserHolds, BusyInv,
         ForcedTargets \cap {"SEARCHING", "COMPLETED"} = {}, [Next]_vars, [TakesFromNobody]_vars
  PROVE  BusyInv'
<1>. USE TypeInvParts
<1>0. OpenUnheld
  BY DEF HolderInv
<1>1. ASSUME current' = current, crashes' = crashes,
             \A p \in Partners, j \in Jobs : Explained(p, j) => Explained(p, j)'
      PROVE  BusyInv'
  BY <1>1, BusyKept
<1>2. CASE ~Decides
  BY <1>0, <1>1, <1>2, QuietOrDecides DEF Quiet, JobsSame, SameDuties, Explained
<1>3. ASSUME NEW c \in calls, Free(c)
      PROVE  BusyInv'
  <2>1. /\ JobsSame /\ crashes' = crashes
        /\ \/ c.partner = NoPartner /\ UNCHANGED current
           \/ c.partner \in Partners /\ SetFree(c.partner)
        /\ \A p, i : Has("free", p, i) => Has("free", p, i)' \/ (i = c.job /\ p = c.partner)
    BY <1>0, <1>3, FreeEffect
  <2>2. \A p \in Partners, j \in Jobs : current'[p] = j => current[p] = j /\ p # c.partner
    BY <2>1, FreedOnNone DEF DispatchAssumption
  <2>3. \A p \in Partners, j \in Jobs : p # c.partner /\ Explained(p, j) => Explained(p, j)'
    BY <2>1 DEF JobsSame, Explained
  <2>. QED
    BY <2>1, <2>2, <2>3, BusyKept
<1>4. ASSUME NEW c \in calls, ReleasePartner(c) \/ ReleasePrevious(c)
      PROVE  BusyInv'
  <2>1. JobsSame /\ crashes' = crashes
    BY <1>0, <1>4, TakeBackEffect
  <2>2. PICK q \in Partners :
          /\ SetFree(q)
          /\ \A duty \in {"take back", "free"} : \A p, i :
               Has(duty, p, i) => Has(duty, p, i)' \/ (i = c.job /\ p = q)
    BY <1>0, <1>4, TakeBackEffect
  <2>3. \A p \in Partners, j \in Jobs : p # q /\ Explained(p, j) => Explained(p, j)'
    BY <2>1, <2>2 DEF JobsSame, Explained
  <2>. QED
    BY <2>1, <2>2, <2>3, FreedOnNone, BusyKept
<1>5. ASSUME NEW c \in calls, ReleaseJob(c)
      PROVE  BusyInv'
  <2>1. /\ UNCHANGED <<current, crashes>>
        /\ c.job \in Jobs /\ c.partner \in Partners /\ Does("release", c, c.partner)
    BY <1>0, <1>5, SendBackEffect
  <2>2. CASE /\ JobsSame
             /\ \A p, i : Has("free", p, i)' <=> Has("free", p, i)
    BY <1>1, <2>1, <2>2 DEF JobsSame, Explained
  <2>3. CASE /\ Transition(c.job, "SEARCHING", PARTNER)
             /\ \A p, i : Has("free", p, i)' <=>
                            Has("free", p, i) \/ (i = c.job /\ p = c.partner)
    <3>1. holder[c.job] = c.partner
      BY <2>1 DEF ReleaserHolds, Has
    <3>2. \A p \in Partners : Holds(p, c.job) => Has("free", p, c.job)'
      BY <2>3, <3>1 DEF Holds
    <3>3. \A p \in Partners, i \in Jobs : i # c.job /\ Holds(p, i) => Holds(p, i)'
      BY <2>1, <2>3, TransitionElsewhere
    <3>4. \A p \in Partners, i \in Jobs : Explained(p, i) => Explained(p, i)'
      BY <2>3, <3>2, <3>3 DEF Explained
    <3>. QED
      BY <1>1, <2>1, <3>4
  <2>. QED
    BY <1>0, <1>5, <2>2, <2>3, SendBackEffect
<1>6. ASSUME NEW c \in calls, AssignByHand(c)
      PROVE  BusyInv'
  <2>1. /\ c.job \in Jobs /\ c.partner \in Partners
        /\ \A p : ~Does("free", c, p)
    BY <1>6 DEF HandlersOK, HandlerOK, AssignByHand, Does, Frees, TakesBack
  <2>2. crashes' = crashes /\ \A p, i : Has("free", p, i) => Has("free", p, i)'
    BY <1>6, <2>1, FinishDue DEF AssignByHand
  <2>3. CASE UNCHANGED <<status, holder, search, accepted, partnerVars>>
    <3>1. JobsSame /\ current' = current
      BY <1>0, <2>3, SameJobs DEF partnerVars
    <3>. QED
      BY <1>1, <2>2, <3>1 DEF JobsSame, Explained
  <2>4. CASE TransitionToAssigned(c.job, c.partner, ADMIN) /\ SetBusy(c.partner, c.job)
    <3>1. \A q \in Partners, i \in Jobs :
            Holds(q, i)' <=> Holds(q, i) \/ (q = c.partner /\ i = c.job)
      BY <1>0, <2>1, <2>4, AssignmentGives
    <3>2. \A p \in Partners : current'[p] = IF p = c.partner THEN c.job ELSE current[p]
      BY <2>1, <2>4 DEF SetBusy, PartnersTyped
    <3>. QED
      BY <2>2, <3>1, <3>2, BusyKept DEF Explained
  <2>. QED
    BY <1>6, <2>3, <2>4 DEF AssignByHand
<1>7. ASSUME NEW j \in Jobs, Complete(j) \/ \E actor \in {CUSTOMER, PARTNER, ADMIN} : Cancel(j, actor)
      PROVE  BusyInv'
  <2>1. /\ UNCHANGED <<current, crashes>>
        /\ \E to, actor, c :
              /\ Transition(j, to, actor)
              /\ to = "CANCELLED" \/ (to = "COMPLETED" /\ actor = PARTNER)
              /\ HandlerOK(c) /\ Begin(c) /\ c.job = j /\ c.partner = holder[j]
              /\ c.then # "assign" /\ c.at \in {"sweep", "free"}
              /\ c.at = "free" \/ c.then = "free"
    BY <1>7, EndingEnds
  <2>2. /\ \A p \in Partners, i \in Jobs : i # j => (Holds(p, i) => Holds(p, i)')
        /\ \A p \in Partners : \A i :
             Has("free", p, i)' <=> Has("free", p, i) \/ (i = j /\ p = holder[j])
    BY <2>1, TripEnds
  <2>3. \A p \in Partners, i \in Jobs : Explained(p, i) => Explained(p, i)'
    BY <2>2 DEF Explained, Holds
  <2>. QED
    BY <1>1, <2>1, <2>3
<1>8. ASSUME NEW j \in Jobs, Release(j)
      PROVE  BusyInv'
  <2>1. /\ JobsSame /\ UNCHANGED <<current, crashes>>
        /\ \A p, i : Has("free", p, i)' <=> Has("free", p, i)
    BY <1>0, <1>8, ReleaseEffect
  <2>. QED
    BY <1>1, <2>1 DEF JobsSame, Explained
<1>9. ASSUME NEW j \in Jobs, NEW p \in Partners, ManualAssign(j, p)
      PROVE  BusyInv'
  <2>1. /\ UNCHANGED <<current, crashes>>
        /\ Reassigns(j) => Transition(j, "SEARCHING", ADMIN)
        /\ ~Reassigns(j) => JobsSame
    BY <1>0, <1>9, ManualEffect
  <2>2. \A q, i : Has("free", q, i)' <=>
                    Has("free", q, i) \/ (Reassigns(j) /\ i = j /\ q = holder[j])
    BY <1>0, <1>9, ManualEffect
  <2>3. \A q \in Partners, i \in Jobs : Holds(q, i) => Explained(q, i)'
    <3>1. CASE ~Reassigns(j)
      BY <2>1, <3>1 DEF JobsSame, Explained
    <3>2. CASE Reassigns(j)
      <4>1. \A q \in Partners, i \in Jobs : i # j /\ Holds(q, i) => Holds(q, i)'
        BY <2>1, <3>2, TransitionElsewhere
      <4>2. \A q \in Partners : Holds(q, j) => Has("free", q, j)'
        BY <2>2, <3>2 DEF Holds
      <4>. QED
        BY <4>1, <4>2 DEF Explained
    <3>. QED
      BY <3>1, <3>2
  <2>4. \A q \in Partners, i \in Jobs : Explained(q, i) => Explained(q, i)'
    BY <2>2, <2>3 DEF Explained
  <2>. QED
    BY <1>1, <2>1, <2>4
<1>10. ASSUME NEW j \in Jobs, NEW to \in ForcedTargets, ForceStatus(j, to)
       PROVE  BusyInv'
  <2>1. to \notin {"SEARCHING", "COMPLETED"}
    OBVIOUS
  <2>2. JobsSame /\ SameDuties /\ UNCHANGED <<current, crashes>>
    BY <1>0, <1>10, <2>1, ForceEffect
  <2>. QED
    BY <1>1, <2>2 DEF JobsSame, SameDuties, Explained
<1>11. ASSUME NEW j \in Jobs, NEW o \in offers[j], ClaimOffer(j, o)
       PROVE  BusyInv'
  BY <1>1, <1>11 DEF ClaimOffer, Has, jobVars, partnerVars, Explained, Holds, Held
<1>12. ASSUME NEW j \in Jobs, NEW o \in offers[j], CommitAccept(j, o)
       PROVE  BusyInv'
  <2>1. o.partner \in Partners
    BY DEF RowsTyped, Offer
  <2>2. SameDuties /\ crashes' = crashes
    BY <1>12, <2>1, CommitDuties DEF CommitAccept
  <2>3. \A q \in Partners, i \in Jobs :
          Holds(q, i)' <=> Holds(q, i) \/ (q = o.partner /\ i = j)
    BY <1>0, <1>12, <2>1, AssignmentGives DEF CommitAccept
  <2>4. \A p \in Partners : current'[p] = IF p = o.partner THEN j ELSE current[p]
    BY <1>12, <2>1 DEF CommitAccept, SetBusy, PartnersTyped
  <2>. QED
    BY <2>2, <2>3, <2>4, BusyKept DEF Explained, SameDuties
<1>13. CASE Crash
  <2>1. crashes' # 0
    BY <1>13 DEF Crash, TypeInv, TypeOK
  <2>. QED
    BY <2>1 DEF BusyInv
<1>14. ASSUME NEW c \in calls, BeginByHand(c)
       PROVE  BusyInv'
  <2>1. JobsSame /\ UNCHANGED <<current, crashes>>
    BY <1>0, <1>14, BeginEffect, UntakenStep
  <2>2. \A p, i : Has("free", p, i)' <=> Has("free", p, i)
    BY <1>0, <1>14, BeginEffect
  <2>. QED
    BY <1>1, <2>1, <2>2 DEF JobsSame, Explained
<1>. QED
  BY <1>2, <1>3, <1>4, <1>5, <1>6, <1>7, <1>8, <1>9, <1>10, <1>11, <1>12, <1>13, <1>14
  DEF Decides

LEMMA ReleaserAlways ==
  ASSUME "SEARCHING" \notin ForcedTargets
  PROVE  Spec /\ []PartnersApart /\ AssignsUntaken => []ReleaserHolds
<1>1. Init => ReleaserHolds
  BY DEF Init, ReleaserHolds, Has
<1>2. /\ TypeInv /\ HolderInv /\ PartnersApart /\ PartnersApart' /\ ReleaserHolds
      /\ [Next]_vars /\ [TakesFromNobody]_vars
      => ReleaserHolds'
  BY ReleaserStep, DispatchAssumption DEF HolderInv
<1>. QED
  BY <1>1, <1>2, HolderInvAlways, TypeInvAlways, PTL DEF Spec, AssignsUntaken

\* With requests about one partner kept apart, no administrator sending a trip back or over
\* by hand (adminTransition frees nobody) and no assignment by hand taking a job accepted
\* since it read the job (manualAssign then frees nobody), nobody stays occupied for nothing.
THEOREM BusyIsExplainedApart ==
  ASSUME ForcedTargets \cap {"SEARCHING", "COMPLETED"} = {}
  PROVE  Spec /\ []PartnersApart /\ AssignsUntaken => []BusyIsExplained
<1>1. Init => BusyInv
  BY DispatchAssumption DEF Init, BusyInv, DispatchAssumption
<1>2. TypeInv /\ HolderInv /\ ReleaserHolds /\ BusyInv /\ [Next]_vars /\ [TakesFromNobody]_vars
      => BusyInv'
  BY BusyStep, DispatchAssumption
<1>3. TypeInv /\ BusyInv => BusyIsExplained
  <2>1. SUFFICES ASSUME TypeInv, BusyInv, crashes = 0, NEW p \in Partners, current[p] # NoJob
                 PROVE  \/ Held(current[p]) /\ holder[current[p]] = p
                        \/ \E c \in calls : c.job = current[p] /\ Frees(c, p)
    BY DEF BusyIsExplained
  <2>2. current[p] \in Jobs
    BY <2>1, TypeInvParts DEF PartnersTyped
  <2>3. Explained(p, current[p])
    BY <2>1, <2>2 DEF BusyInv
  <2>. QED
    BY <2>3 DEF Explained, Holds, Has, Does
<1>4. "SEARCHING" \notin ForcedTargets
  OBVIOUS
<1>. QED
  BY <1>1, <1>2, <1>3, <1>4, ReleaserAlways, HolderInvAlways, TypeInvAlways, PTL
  DEF Spec, AssignsUntaken

AcceptInv == crashes = 0 =>
  \A j \in Jobs : \A r \in accepted[j] : holder[j] = r.partner \/ Has("take back", r.partner, j)

\* A job given to p with one ACCEPTED row, of p.
LEMMA AcceptGiven ==
  ASSUME AcceptInv, JobsTyped, RowsTyped, NEW j \in Jobs, NEW p, NEW row, row.partner = p,
         crashes' = crashes, holder' = [holder EXCEPT ![j] = p],
         accepted' = [accepted EXCEPT ![j] = {row}],
         \A q, i : Has("take back", q, i) => Has("take back", q, i)'
  PROVE  AcceptInv'
<1>1. SUFFICES ASSUME crashes = 0, NEW i \in Jobs, NEW r \in accepted'[i]
               PROVE  holder'[i] = r.partner \/ Has("take back", r.partner, i)'
  BY DEF AcceptInv
<1>2. CASE i = j
  <2>1. r = row /\ holder'[i] = p
    BY <1>2, <1>1 DEF RowsTyped, JobsTyped
  <2>. QED
    BY <2>1
<1>3. CASE i # j
  <2>1. r \in accepted[i] /\ holder'[i] = holder[i]
    BY <1>1, <1>3 DEF RowsTyped, JobsTyped
  <2>. QED
    BY <1>1, <2>1 DEF AcceptInv
<1>. QED
  BY <1>2, <1>3

LEMMA AcceptStep ==
  ASSUME DispatchAssumption, TypeInv, OpenUnheld, ReleaserHolds, AcceptInv,
         "SEARCHING" \notin ForcedTargets, [Next]_vars, [TakesFromNobody]_vars
  PROVE  AcceptInv'
<1>. USE TypeInvParts
<1>1. ASSUME crashes' = crashes,
             \A j \in Jobs : accepted'[j] \subseteq accepted[j],
             \A j \in Jobs : \A p : holder[j] = p \/ Has("take back", p, j)
                                      => holder'[j] = p \/ Has("take back", p, j)'
      PROVE  AcceptInv'
  BY <1>1 DEF AcceptInv
<1>2. CASE ~Decides
  BY <1>1, <1>2, QuietOrDecides DEF Quiet, JobsSame, SameDuties
<1>3. ASSUME NEW c \in calls, Free(c)
      PROVE  AcceptInv'
  <2>1. /\ JobsSame /\ UNCHANGED <<accepted, crashes>>
        /\ \A p, i : Has("take back", p, i)' <=> Has("take back", p, i)
    BY <1>3, FreeEffect
  <2>. QED
    BY <1>1, <2>1 DEF JobsSame
<1>4. ASSUME NEW c \in calls, ReleasePartner(c) \/ ReleasePrevious(c)
      PROVE  AcceptInv'
  <2>1. JobsSame /\ crashes' = crashes /\ c.job \in Jobs
    BY <1>4, TakeBackEffect
  <2>2. PICK q \in Partners :
          /\ ReassignRow(c.job, q)
          /\ \A duty \in {"take back", "free"} : \A p, i :
               Has(duty, p, i) => Has(duty, p, i)' \/ (i = c.job /\ p = q)
    BY <1>4, TakeBackEffect
  <2>3. \A j \in Jobs : /\ accepted'[j] \subseteq accepted[j]
                        /\ j = c.job => \A r \in accepted'[j] : r.partner # q
    BY <2>1, <2>2 DEF ReassignRow, RowsTyped
  <2>4. \A p, i : Has("take back", p, i) => Has("take back", p, i)' \/ (i = c.job /\ p = q)
    BY <2>2
  <2>. QED
    BY <2>1, <2>3, <2>4 DEF AcceptInv, JobsSame
<1>5. ASSUME NEW c \in calls, ReleaseJob(c)
      PROVE  AcceptInv'
  <2>1. /\ UNCHANGED <<accepted, crashes>>
        /\ c.job \in Jobs /\ c.partner \in Partners /\ Does("release", c, c.partner)
    BY <1>5, SendBackEffect
  <2>2. CASE /\ JobsSame
             /\ \A p, i : Has("take back", p, i)' <=> Has("take back", p, i)
    BY <1>1, <2>1, <2>2 DEF JobsSame
  <2>3. CASE /\ Transition(c.job, "SEARCHING", PARTNER)
             /\ \A p, i : Has("take back", p, i)' <=>
                            Has("take back", p, i) \/ (i = c.job /\ p = c.partner)
    <3>1. holder[c.job] = c.partner
      BY <2>1 DEF ReleaserHolds, Has
    <3>2. \A i \in Jobs : i # c.job => holder'[i] = holder[i]
      BY <2>1, <2>3, TransitionElsewhere
    <3>. QED
      BY <1>1, <2>1, <2>3, <3>1, <3>2
  <2>. QED
    BY <1>5, <2>2, <2>3, SendBackEffect
<1>6. ASSUME NEW c \in calls, AssignByHand(c)
      PROVE  AcceptInv'
  <2>1. /\ c.job \in Jobs /\ c.partner \in Partners
        /\ \A p : ~Does("take back", c, p)
    BY <1>6 DEF HandlersOK, HandlerOK, AssignByHand, Does, TakesBack
  <2>2. crashes' = crashes /\ \A p, i : Has("take back", p, i) => Has("take back", p, i)'
    BY <1>6, <2>1, FinishDue DEF AssignByHand
  <2>3. CASE UNCHANGED <<status, holder, search, accepted, partnerVars>>
    BY <1>1, <2>2, <2>3
  <2>4. CASE /\ TransitionToAssigned(c.job, c.partner, ADMIN)
             /\ accepted' = [accepted EXCEPT ![c.job] =
                  {[partner |-> c.partner, wave |-> 0, search |-> search[c.job]]}]
    <3>1. holder' = [holder EXCEPT ![c.job] = c.partner]
      BY <2>4 DEF TransitionToAssigned
    <3>2. [partner |-> c.partner, wave |-> 0, search |-> search[c.job]].partner = c.partner
      OBVIOUS
    <3>. QED
      BY <2>1, <2>2, <2>4, <3>1, <3>2, AcceptGiven
  <2>. QED
    BY <1>6, <2>3, <2>4 DEF AssignByHand
<1>7. ASSUME NEW j \in Jobs, Complete(j) \/ \E actor \in {CUSTOMER, PARTNER, ADMIN} : Cancel(j, actor)
      PROVE  AcceptInv'
  <2>1. UNCHANGED <<accepted, crashes>>
    BY <1>7, EndingEnds
  <2>2. holder' = holder
    BY <1>7 DEF Complete, Cancel, Transition, JobsTyped
  <2>3. \A p, i : Has("take back", p, i) => Has("take back", p, i)'
    BY <1>7, EndingEnds, BeginDue
  <2>. QED
    BY <1>1, <2>1, <2>2, <2>3
<1>8. ASSUME NEW j \in Jobs, Release(j)
      PROVE  AcceptInv'
  <2>1. /\ JobsSame /\ UNCHANGED <<accepted, crashes>>
        /\ \A p, i : Has("take back", p, i)' <=> Has("take back", p, i)
    BY <1>8, ReleaseEffect
  <2>. QED
    BY <1>1, <2>1 DEF JobsSame
<1>9. ASSUME NEW j \in Jobs, NEW p \in Partners, ManualAssign(j, p)
      PROVE  AcceptInv'
  <2>1. /\ UNCHANGED <<accepted, crashes>>
        /\ Reassigns(j) => Transition(j, "SEARCHING", ADMIN)
        /\ ~Reassigns(j) => JobsSame
    BY <1>9, ManualEffect
  <2>2. \A q, i : Has("take back", q, i)' <=>
                    Has("take back", q, i) \/ (Reassigns(j) /\ i = j /\ q = holder[j])
    BY <1>9, ManualEffect
  <2>3. CASE ~Reassigns(j)
    BY <1>1, <2>1, <2>2, <2>3 DEF JobsSame
  <2>4. CASE Reassigns(j)
    <3>1. \A i \in Jobs : i # j => holder'[i] = holder[i]
      BY <2>1, <2>4, TransitionElsewhere
    <3>. QED
      BY <1>1, <2>1, <2>2, <2>4, <3>1
  <2>. QED
    BY <2>3, <2>4
<1>10. ASSUME NEW j \in Jobs, NEW to \in ForcedTargets, ForceStatus(j, to)
       PROVE  AcceptInv'
  BY <1>1, <1>10, ForceEffect DEF SameDuties
<1>11. ASSUME NEW j \in Jobs, NEW o \in offers[j], ClaimOffer(j, o)
       PROVE  AcceptInv'
  BY <1>1, <1>11 DEF ClaimOffer, Has, jobVars
<1>12. ASSUME NEW j \in Jobs, NEW o \in offers[j], CommitAccept(j, o)
       PROVE  AcceptInv'
  <2>1. o.partner \in Partners
    BY DEF RowsTyped, Offer
  <2>2. SameDuties /\ crashes' = crashes
    BY <1>12, <2>1, CommitDuties DEF CommitAccept
  <2>3. /\ holder' = [holder EXCEPT ![j] = o.partner]
        /\ accepted' = [accepted EXCEPT ![j] = {Id(o)}]
    BY <1>12 DEF CommitAccept, TransitionToAssigned
  <2>4. Id(o).partner = o.partner
    BY DEF Id
  <2>. QED
    BY <2>2, <2>3, <2>4, AcceptGiven DEF SameDuties
<1>13. CASE Crash
  <2>1. crashes' # 0
    BY <1>13 DEF Crash
  <2>. QED
    BY <2>1 DEF AcceptInv
<1>14. ASSUME NEW c \in calls, BeginByHand(c)
       PROVE  AcceptInv'
  <2>1. UNCHANGED <<accepted, crashes, holder>>
    BY <1>14, BeginEffect, UntakenStep
  <2>2. \A p, i : Has("take back", p, i)' <=> Has("take back", p, i)
    BY <1>14, BeginEffect
  <2>. QED
    BY <1>1, <2>1, <2>2
<1>. QED
  BY <1>2, <1>3, <1>4, <1>5, <1>6, <1>7, <1>8, <1>9, <1>10, <1>11, <1>12, <1>13, <1>14
  DEF Decides

\* With requests about one partner kept apart, no administrator sending a trip back by hand
\* and no assignment by hand taking a job accepted since it read the job, a row that says
\* ACCEPTED names the partner of the job or is being taken back: it never makes the unique
\* index refuse the next accept.  A crash may end the taking back.
THEOREM AcceptanceExplainedApart ==
  ASSUME "SEARCHING" \notin ForcedTargets
  PROVE  Spec /\ []PartnersApart /\ AssignsUntaken => [](crashes = 0 => AcceptanceExplained)
<1>1. Init => AcceptInv
  BY DEF Init, AcceptInv
<1>2. TypeInv /\ HolderInv /\ ReleaserHolds /\ AcceptInv /\ [Next]_vars /\ [TakesFromNobody]_vars
      => AcceptInv'
  BY AcceptStep, DispatchAssumption DEF HolderInv
<1>3. AcceptInv => (crashes = 0 => AcceptanceExplained)
  BY DEF AcceptInv, AcceptanceExplained, Has, Does
<1>. QED
  BY <1>1, <1>2, <1>3, ReleaserAlways, HolderInvAlways, TypeInvAlways, PTL
  DEF Spec, AssignsUntaken

-----------------------------------------------------------------------------
(* Who carries a search on.                                                  *)

\* The operations of cancel(), for a job that is taken or over ...
Sweeping == {"sweep", "swept", "unqueue"}

\* ... and those of a handler that carries on the search it finds.
Carrying == {"released", "wave", "offer", "timeout", "giveup", "nobody"}

\* An entry of the queue, or a worker, on the job: BullMQ runs it to its end.
Work(j) == (\E e \in queue : e.job = j) \/ \E c \in calls : c.job = j /\ c.origin # "http"

Carries(c) == c.at \in Carrying /\ c.job \in Jobs

\* A wave run in a request chose partners without a row; one of them has a row by now.
Refused(c) == c.origin = "http" /\ c.at = "offer" /\ \E r \in c.rows : HasLiveRow(c.job, r.partner)

SearchInv ==
  /\ \A c \in calls : c.then # "assign"
  /\ \A c \in calls : c.at \in Sweeping => status[c.job] \notin Open
  /\ \A c \in calls : Refused(c) /\ status[c.job] = "SEARCHING" => Work(c.job)
  /\ crashes = 0 => \A j \in Jobs : status[j] = "SEARCHING" =>
                      Work(j) \/ \E c \in calls : c.job = j /\ Carries(c)

\* No request about the job goes through this step where it is.
Alone(j) == \A d \in calls \cap calls' : d.job = j => d.origin # "http"

\* The queue and the workers keep hold of a search.
WorkKept == \A j \in Jobs : status'[j] = "SEARCHING" /\ Work(j) => Work(j)'

RowsKept(j) == \A p : HasLiveRow(j, p)' => HasLiveRow(j, p)

StatusKept == \A j \in Jobs : /\ status'[j] = "SEARCHING" => status[j] = "SEARCHING"
                              /\ status[j] \notin Open => status'[j] \notin Open

\* A new handler, as a step may leave it.
Starts(d) ==
  /\ d.then # "assign"
  /\ d.at \in Sweeping => (status[d.job] \notin Open)'
  /\ ~(Refused(d)')

LEMMA SearchKept ==
  ASSUME SearchInv, TypeInv, TypeInv', crashes' = crashes, WorkKept,
         \A d \in calls' \ calls : Starts(d),
         \A j \in Jobs : \/ Alone(j)
                         \/ /\ status[j] \notin Open => status'[j] \notin Open
                            /\ \/ status'[j] # "SEARCHING" \/ Work(j)'
                               \/ status[j] = "SEARCHING" /\ RowsKept(j),
         \A j \in Jobs : status'[j] = "SEARCHING" =>
           \/ Work(j)'
           \/ \E c \in calls' : c.job = j /\ Carries(c)
           \/ status[j] = "SEARCHING" /\ \A c \in calls : c.job = j /\ Carries(c) => c \in calls'
  PROVE  SearchInv'
<1>. USE TypeInvParts
<1>0. \A c \in calls' : /\ c.at \in Sweeping \cup {"offer"} => c.job \in Jobs
                        /\ c.at \in Sweeping => c.origin = "http"
  <2>1. \A c \in calls' : HandlerOK(c)
    BY DEF TypeInv, HandlersOK, HandlerOK
  <2>. QED
    BY <2>1 DEF HandlerOK, Sweeping
<1>1. \A c \in calls' : c.then # "assign"
  BY DEF SearchInv, Starts
<1>2. ASSUME NEW c \in calls', c.at \in Sweeping
      PROVE  status'[c.job] \notin Open
  <2>1. CASE c \notin calls
    BY <1>2, <2>1 DEF Starts
  <2>2. CASE c \in calls
    BY <1>0, <1>2, <2>2 DEF SearchInv, Alone
  <2>. QED
    BY <2>1, <2>2
<1>3. ASSUME NEW c \in calls', Refused(c)', status'[c.job] = "SEARCHING"
      PROVE  Work(c.job)'
  <2>1. c \in calls
    BY <1>3 DEF Starts
  <2>2. c.job \in Jobs /\ c.origin = "http" /\ c.at = "offer"
    BY <1>0, <1>3 DEF Refused
  <2>3. CASE status[c.job] = "SEARCHING" /\ RowsKept(c.job)
    BY <1>3, <2>1, <2>2, <2>3 DEF Refused, RowsKept, SearchInv, WorkKept
  <2>. QED
    BY <1>3, <2>1, <2>2, <2>3 DEF Alone
<1>4. ASSUME crashes = 0, NEW j \in Jobs, status'[j] = "SEARCHING"
      PROVE  Work(j)' \/ \E c \in calls' : c.job = j /\ Carries(c)
  BY <1>4 DEF SearchInv, WorkKept
<1>. QED
  BY <1>1, <1>2, <1>3, <1>4 DEF SearchInv, Carries

\* Steps that leave the queue with at least what it had, and give no job a row.
Calm == /\ queue \subseteq queue' /\ crashes' = crashes
        /\ StatusKept /\ \A j \in Jobs : RowsKept(j)

LEMMA SameStatus ==
  ASSUME UNCHANGED status
  PROVE  StatusKept
BY DEF StatusKept

LEMMA RowsSame ==
  ASSUME UNCHANGED <<offers, accepted>>
  PROVE  \A j : \A p : HasLiveRow(j, p)' <=> HasLiveRow(j, p)
BY DEF HasLiveRow, Offered

LEMMA RowsSameKept ==
  ASSUME UNCHANGED <<offers, accepted>>
  PROVE  \A j \in Jobs : RowsKept(j)
BY RowsSame DEF RowsKept

\* Fewer rows, or the same in another stage.
LEMMA FewerRows ==
  ASSUME \A j \in Jobs : Offered(j)' \subseteq Offered(j) /\ accepted'[j] \subseteq accepted[j]
  PROVE  \A j \in Jobs : RowsKept(j)
<1>1. ASSUME NEW j \in Jobs, NEW p, HasLiveRow(j, p)'
      PROVE  HasLiveRow(j, p)
  <2>1. PICK r \in Offered(j)' \cup accepted'[j] : r.partner = p
    BY <1>1 DEF HasLiveRow
  <2>2. r \in Offered(j) \cup accepted[j]
    BY <2>1
  <2>. QED
    BY <2>1, <2>2 DEF HasLiveRow
<1>. QED
  BY <1>1 DEF RowsKept

LEMMA ClosedRows ==
  ASSUME RowsTyped, NEW j \in Jobs, NEW ids, CloseRows(j, ids)
  PROVE  \A i \in Jobs : RowsKept(i)
<1>1. \A i \in Jobs : offers'[i] \subseteq offers[i] /\ accepted'[i] \subseteq accepted[i]
  BY DEF CloseRows, RowsTyped
<1>2. \A i \in Jobs : Offered(i)' \subseteq Offered(i)
  BY <1>1 DEF Offered, Id
<1>. QED
  BY <1>1, <1>2, FewerRows

\* A transition that begins no search.
LEMMA TransitionCalm ==
  ASSUME JobsTyped, NEW j \in Jobs, NEW to, NEW actor, Transition(j, to, actor), to # "SEARCHING"
  PROVE  StatusKept
<1>1. MovesOnlyAs(status[j], to)
  BY MobilityMoves DEF Transition
<1>2. status'[j] = to /\ \A i \in Jobs : i # j => status'[i] = status[i]
  BY DEF Transition, JobsTyped
<1>3. status[j] \notin Open => to \notin Open
  BY <1>1, StatusSets DEF MovesOnlyAs
<1>. QED
  BY <1>2, <1>3 DEF StatusKept

\* A handler that ends leaves a search it was on to somebody else.
LEMMA SearchFinish ==
  ASSUME SearchInv, TypeInv, TypeInv', Calm, NEW c \in calls, Finish(c),
         (status'[c.job] = "SEARCHING" /\ (c.origin # "http" \/ c.at \in Carrying)) =>
           \/ \E e \in queue' : e.job = c.job
           \/ c.origin = "http" /\ Work(c.job)
  PROVE  SearchInv'
<1>1. calls' = calls \ {c}
  BY DEF Finish
<1>2. WorkKept
  BY <1>1 DEF WorkKept, Work, Calm
<1>3. \A j \in Jobs : status'[j] = "SEARCHING" =>
        \/ Work(j)'
        \/ status[j] = "SEARCHING" /\ \A x \in calls : x.job = j /\ Carries(x) => x \in calls'
  <2>1. SUFFICES ASSUME NEW j \in Jobs, status'[j] = "SEARCHING", ~Work(j)',
                        NEW x \in calls, x.job = j, Carries(x)
                 PROVE  status[j] = "SEARCHING" /\ x \in calls'
    BY DEF Calm, StatusKept
  <2>2. x # c
    BY <1>2, <2>1 DEF Carries, WorkKept, Work
  <2>. QED
    BY <1>1, <2>1, <2>2 DEF Calm, StatusKept
<1>. QED
  BY <1>1, <1>2, <1>3, SearchKept DEF Calm, StatusKept

\* A handler that goes on keeps a search it is on.
LEMMA SearchContinue ==
  ASSUME SearchInv, TypeInv, TypeInv', Calm, NEW c \in calls, NEW d, Continue(c, d),
         d.job = c.job, d.origin = c.origin, Starts(d),
         (status'[c.job] = "SEARCHING" /\ c.at \in Carrying) => d.at \in Carrying
  PROVE  SearchInv'
<1>1. calls' = (calls \ {c}) \cup {d}
  BY DEF Continue
<1>2. WorkKept
  BY <1>1 DEF WorkKept, Work, Calm
<1>3. ASSUME NEW j \in Jobs, status'[j] = "SEARCHING"
      PROVE  \/ \E x \in calls' : x.job = j /\ Carries(x)
             \/ status[j] = "SEARCHING" /\ \A x \in calls : x.job = j /\ Carries(x) => x \in calls'
  <2>1. status[j] = "SEARCHING"
    BY <1>3 DEF Calm, StatusKept
  <2>2. CASE c.job = j /\ c.at \in Carrying
    BY <1>1, <1>3, <2>2 DEF Carries
  <2>3. CASE ~(c.job = j /\ c.at \in Carrying)
    BY <1>1, <2>1, <2>3 DEF Carries
  <2>. QED
    BY <2>2, <2>3
<1>. QED
  BY <1>1, <1>2, <1>3, SearchKept DEF Calm, StatusKept

LEMMA SearchMoves ==
  ASSUME SearchInv, TypeInv, TypeInv', Calm, NEW c \in calls,
         NEW at, at \notin Sweeping \cup {"offer"}, NEW d, MovesTo(c, at, d), Continue(c, d),
         c.at \in Carrying => at \in Carrying
  PROVE  SearchInv'
<1>1. HandlerOK(c)
  BY TypeInvParts DEF HandlersOK
<1>2. /\ d.at = at /\ d.job = c.job /\ d.then = c.then /\ d.origin = c.origin
  BY <1>1, MovedOn
<1>3. Starts(d)
  BY <1>2 DEF Starts, SearchInv, Refused
<1>. QED
  BY <1>2, <1>3, SearchContinue

\* A new handler.
LEMMA SearchBegin ==
  ASSUME SearchInv, TypeInv, TypeInv', StatusKept, \A j \in Jobs : RowsKept(j),
         crashes' = crashes, WorkKept, NEW c, HandlerOK(c), Begin(c), c.then = "done" \/ c.then = "free",
         c.at # "offer", c.at \in Sweeping => status'[c.job] \notin Open
  PROVE  SearchInv'
<1>1. PICK n \in 1..(MaxRequests + MaxWorkers) : calls' = calls \cup {[c EXCEPT !.id = n]}
  BY DEF Begin
<1>. DEFINE d == [c EXCEPT !.id = n]
<1>2. d.job = c.job /\ d.at = c.at /\ d.then = c.then
  BY DEF HandlerOK, Call
<1>. HIDE DEF d
<1>3. Starts(d)
  BY <1>2 DEF Starts, Refused
<1>4. \A x \in calls' \ calls : Starts(x)
  BY <1>1, <1>3 DEF d
<1>5. calls \subseteq calls'
  BY <1>1
<1>. QED
  BY <1>4, <1>5, SearchKept DEF StatusKept

LEMMA SearchSame ==
  ASSUME SearchInv, TypeInv, TypeInv', Calm, UNCHANGED calls
  PROVE  SearchInv'
<1>1. WorkKept
  BY DEF WorkKept, Work, Calm
<1>. QED
  BY <1>1, SearchKept DEF Calm, StatusKept

\* A search can be given up.
LEMMA SearchCanEnd == CanMove("SEARCHING", "NO_PARTNER_AVAILABLE", "MOBILITY", SYSTEM)
<1>1. <<"SEARCHING", "NO_PARTNER_AVAILABLE", "MOBILITY", SYSTEM>> \in DispatchMoves
  BY DEF DispatchMoves, JobTypes, MOBILITY
<1>. QED
  BY <1>1 DEF CanMove, JOB_TRANSITIONS

\* A wave that ends leaves the next one, or the end of the search, to be done.
LEMMA SearchNextWave ==
  ASSUME SearchInv, TypeInv, TypeInv', StatusKept, \A j \in Jobs : RowsKept(j),
         crashes' = crashes, NEW c \in calls, ScheduleNextWave(c)
  PROVE  SearchInv'
<1>1. CASE Continue(c, [c EXCEPT !.at = "timeout", !.rows = {}]) /\ UNCHANGED queue
  <2>1. MovesTo(c, "timeout", [c EXCEPT !.at = "timeout", !.rows = {}])
    BY DEF MovesTo
  <2>. QED
    BY <1>1, <2>1, SearchMoves DEF Calm, Sweeping, Carrying
<1>2. CASE Finish(c) /\ queue' = queue \cup {WaveEntry(c.job, c.wave + 1)}
  <2>1. WaveEntry(c.job, c.wave + 1).job = c.job
    BY DEF WaveEntry
  <2>. QED
    BY <1>2, <2>1, SearchFinish DEF Calm
<1>. QED
  BY <1>1, <1>2 DEF ScheduleNextWave

LEMMA SearchKickOff ==
  ASSUME DispatchAssumption, SearchInv, TypeInv, TypeInv', NEW c \in calls, KickOff(c)
  PROVE  SearchInv'
<1>. USE TypeInvParts
<1>1. /\ UNCHANGED <<calls, crashes, offers, accepted>> /\ c.job \in Jobs
      /\ status' = [status EXCEPT ![c.job] = "SEARCHING"]
      /\ queue' = queue \cup {TimeoutEntry(c.job, search[c.job] + 1)}
      /\ status[c.job] \in Open
  BY DEF KickOff, Transition, rowVars, HandlersOK, HandlerOK, CanKickOff, Open
<1>2. TimeoutEntry(c.job, search[c.job] + 1).job = c.job
  BY DEF TimeoutEntry
<1>3. Work(c.job)'
  BY <1>1, <1>2 DEF Work
<1>4. WorkKept
  BY <1>1 DEF WorkKept, Work
<1>5. \A j \in Jobs : j # c.job => status'[j] = status[j]
  BY <1>1 DEF JobsTyped
<1>. QED
  BY <1>1, <1>3, <1>4, <1>5, RowsSameKept, SearchKept

LEMMA SearchWave ==
  ASSUME DispatchAssumption, SearchInv, JobsApart, TypeInv, TypeInv', NEW c \in calls,
         LeaveWave(c) \/ ChooseWave(c)
  PROVE  SearchInv'
<1>. USE TypeInvParts
<1>1. /\ UNCHANGED <<status, offers, accepted, crashes>> /\ c.at = "wave" /\ HandlerOK(c)
      /\ c.job \in Jobs
  BY DEF LeaveWave, ChooseWave, jobVars, rowVars, HandlersOK, HandlerOK
<1>2. StatusKept /\ \A j \in Jobs : RowsKept(j)
  BY <1>1, RowsSameKept, SameStatus
<1>3. CASE LeaveWave(c)
  BY <1>1, <1>2, <1>3, SearchFinish DEF LeaveWave, Calm
<1>4. CASE ScheduleNextWave(c)
  BY <1>1, <1>2, <1>4, SearchNextWave
<1>5. CASE Continue(c, [c EXCEPT !.at = "timeout"]) /\ UNCHANGED queue
  <2>1. MovesTo(c, "timeout", [c EXCEPT !.at = "timeout"])
    BY DEF MovesTo
  <2>. QED
    BY <1>1, <1>2, <1>5, <2>1, SearchMoves DEF Calm, Sweeping, Carrying
<1>6. ASSUME NEW chosen \in SUBSET Candidates(c.job), UNCHANGED queue,
             NEW rows, rows = {[partner |-> p, wave |-> c.wave, search |-> search[c.job]]
                                 : p \in chosen},
             Continue(c, [c EXCEPT !.at = "offer", !.rows = rows])
      PROVE  SearchInv'
  <2>. DEFINE d == [c EXCEPT !.at = "offer", !.rows = rows]
  <2>1. d.at = "offer" /\ d.job = c.job /\ d.then = c.then /\ d.origin = c.origin /\ d.rows = rows
    BY <1>1 DEF HandlerOK, Call
  <2>2. \A r \in rows : ~HasLiveRow(c.job, r.partner)
    BY <1>6 DEF Candidates
  <2>3. Continue(c, d)
    BY <1>6
  <2>. HIDE DEF d
  <2>4. \A r \in rows : ~HasLiveRow(c.job, r.partner)'
    BY <1>1, <2>2, RowsSame
  <2>5. Starts(d)
    <3>1. ~(Refused(d)')
      BY <2>1, <2>4 DEF Refused
    <3>. QED
      BY <2>1, <3>1 DEF Starts, SearchInv, Sweeping
  <2>. QED
    BY <1>1, <1>2, <1>6, <2>1, <2>3, <2>5, SearchContinue DEF Calm, Carrying
<1>. QED
  BY <1>3, <1>4, <1>5, <1>6 DEF ChooseWave

\* The offers of a wave are what a search goes on with; a wave that is refused them is
\* run again by the queue, or was run in a request beside a search that goes on anyway.
LEMMA SearchOffer ==
  ASSUME DispatchAssumption, SearchInv, JobsApart, TypeInv, TypeInv', NEW c \in calls,
         CreateOffers(c)
  PROVE  SearchInv'
<1>. USE TypeInvParts
<1>. DEFINE refused == \E r \in c.rows : HasLiveRow(c.job, r.partner)
<1>1. /\ UNCHANGED <<status, accepted, crashes>> /\ c.at = "offer" /\ c.job \in Jobs /\ Finish(c)
  BY DEF CreateOffers, jobVars, HandlersOK, HandlerOK, Throw
<1>2. StatusKept /\ calls' = calls \ {c}
  BY <1>1, SameStatus DEF Finish
<1>3. \/ /\ refused /\ c.origin = "http" /\ UNCHANGED <<queue, offers>>
      \/ queue \subseteq queue' /\ \E e \in queue' : e.job = c.job
  <2>1. CASE Throw(c) /\ refused /\ UNCHANGED offers
    <3>1. Source(c).job = c.job
      BY DEF Source
    <3>. QED
      BY <2>1, <3>1 DEF Throw
  <2>2. ASSUME NEW r \in c.rows, queue' = queue \cup {ExpireEntry(c.job, c.wave, r.search)}
        PROVE  queue \subseteq queue' /\ \E e \in queue' : e.job = c.job
    <3>1. ExpireEntry(c.job, c.wave, r.search).job = c.job
      BY DEF ExpireEntry
    <3>. QED
      BY <2>2, <3>1
  <2>. QED
    BY <2>1, <2>2 DEF CreateOffers
<1>4. CASE refused /\ c.origin = "http" /\ UNCHANGED <<queue, offers>>
  <2>1. Calm
    BY <1>1, <1>2, <1>4, RowsSameKept DEF Calm
  <2>2. Refused(c)
    BY <1>1, <1>4 DEF Refused
  <2>. QED
    BY <1>1, <1>4, <2>1, <2>2, SearchFinish DEF SearchInv
<1>5. CASE queue \subseteq queue' /\ \E e \in queue' : e.job = c.job
  <2>1. Work(c.job)'
    BY <1>5 DEF Work
  <2>2. WorkKept
    BY <1>2, <1>5, <2>1 DEF WorkKept, Work
  <2>3. \A j \in Jobs : j # c.job => RowsKept(j)
    <3>1. \A j \in Jobs : j # c.job => offers'[j] = offers[j] /\ accepted'[j] = accepted[j]
      BY <1>1 DEF CreateOffers, RowsTyped
    <3>. QED
      BY <3>1 DEF RowsKept, HasLiveRow, Offered
  <2>4. \A j \in Jobs : j # c.job => \A x \in calls : x.job = j => x \in calls'
    BY <1>2
  <2>. QED
    BY <1>1, <1>2, <2>1, <2>2, <2>3, <2>4, SearchKept DEF StatusKept
<1>. QED
  BY <1>3, <1>4, <1>5

LEMMA SearchExpiry ==
  ASSUME DispatchAssumption, SearchInv, JobsApart, TypeInv, TypeInv', NEW c \in calls,
         \/ ReadExpired(c) \/ ExpireRows(c) \/ ResumeSearch(c)
         \/ ReadTimeout(c) \/ CancelTimedOut(c) \/ GiveUp(c)
  PROVE  SearchInv'
<1>. USE TypeInvParts
<1>1. /\ crashes' = crashes /\ c.job \in Jobs /\ HandlerOK(c)
  BY DEF HandlersOK, HandlerOK, ReadExpired, ExpireRows, ResumeSearch, ReadTimeout,
         CancelTimedOut, GiveUp
<1>2. ASSUME NEW at, at \notin Sweeping \cup {"offer"}, NEW d, MovesTo(c, at, d), Continue(c, d),
             c.at \in Carrying => at \in Carrying,
             UNCHANGED <<status, queue>>, \A j \in Jobs : RowsKept(j)
      PROVE  SearchInv'
  BY <1>1, <1>2, SameStatus, SearchMoves DEF Calm
<1>3. \A at, rows : /\ MovesTo(c, at, [c EXCEPT !.at = at, !.rows = rows])
                    /\ MovesTo(c, at, [c EXCEPT !.at = at])
  BY DEF MovesTo
<1>4. CASE ReadExpired(c)
  <2>1. UNCHANGED <<status, queue, offers, accepted>> /\ c.at = "expire"
    BY <1>4 DEF ReadExpired, jobVars, rowVars
  <2>2. "expired" \notin Sweeping \cup {"offer"} /\ c.at \notin Carrying
    BY <2>1 DEF Sweeping, Carrying
  <2>. QED
    BY <1>2, <1>3, <1>4, <2>1, <2>2, RowsSameKept DEF ReadExpired
<1>5. CASE ExpireRows(c)
  <2>1. UNCHANGED <<status, queue>> /\ c.at = "expired"
    BY <1>5 DEF ExpireRows, jobVars
  <2>2. "resume" \notin Sweeping \cup {"offer"} /\ c.at \notin Carrying
    BY <2>1 DEF Sweeping, Carrying
  <2>3. \A j \in Jobs : RowsKept(j)
    BY <1>1, <1>5, ClosedRows DEF ExpireRows
  <2>. QED
    BY <1>2, <1>3, <1>5, <2>1, <2>2, <2>3 DEF ExpireRows
<1>6. CASE ResumeSearch(c)
  <2>1. UNCHANGED <<status, offers, accepted>> /\ c.at = "resume"
    BY <1>6 DEF ResumeSearch, jobVars, rowVars
  <2>2. \A j \in Jobs : RowsKept(j)
    BY <2>1, RowsSameKept
  <2>3. CASE status[c.job] # "SEARCHING" /\ Finish(c) /\ UNCHANGED queue
    BY <1>1, <2>1, <2>2, <2>3, SameStatus, SearchFinish DEF Calm
  <2>4. CASE Continue(c, [c EXCEPT !.at = "timeout"]) /\ UNCHANGED queue
    <3>1. "timeout" \notin Sweeping \cup {"offer"} /\ c.at \notin Carrying
      BY <2>1 DEF Sweeping, Carrying
    <3>. QED
      BY <1>2, <1>3, <2>1, <2>2, <2>4, <3>1
  <2>5. CASE ScheduleNextWave(c)
    BY <1>1, <2>1, <2>2, <2>5, SameStatus, SearchNextWave
  <2>. QED
    BY <1>6, <2>3, <2>4, <2>5 DEF ResumeSearch
<1>7. CASE ReadTimeout(c)
  <2>1. UNCHANGED <<status, queue, offers, accepted>> /\ c.at = "timeout"
    BY <1>7 DEF ReadTimeout, jobVars, rowVars
  <2>2. \A j \in Jobs : RowsKept(j)
    BY <2>1, RowsSameKept
  <2>3. CASE Continue(c, [c EXCEPT !.at = "giveup", !.rows = Offered(c.job)])
    <3>1. "giveup" \notin Sweeping \cup {"offer"} /\ "giveup" \in Carrying
      BY DEF Sweeping, Carrying
    <3>. QED
      BY <1>2, <1>3, <2>1, <2>2, <2>3, <3>1
  <2>4. CASE status[c.job] # "SEARCHING" /\ Finish(c)
    BY <1>1, <2>1, <2>2, <2>4, SameStatus, SearchFinish DEF Calm
  <2>. QED
    BY <1>7, <2>3, <2>4 DEF ReadTimeout
<1>8. CASE CancelTimedOut(c)
  <2>1. UNCHANGED <<status, queue>>
    BY <1>8 DEF CancelTimedOut, jobVars
  <2>2. "nobody" \notin Sweeping \cup {"offer"} /\ "nobody" \in Carrying
    BY DEF Sweeping, Carrying
  <2>3. \A j \in Jobs : RowsKept(j)
    BY <1>1, <1>8, ClosedRows DEF CancelTimedOut
  <2>. QED
    BY <1>2, <1>3, <1>8, <2>1, <2>2, <2>3 DEF CancelTimedOut
<1>9. CASE GiveUp(c)
  <2>1. UNCHANGED <<offers, accepted>>
    BY <1>9 DEF GiveUp, rowVars
  <2>2. \A j \in Jobs : RowsKept(j)
    BY <2>1, RowsSameKept
  <2>3. CASE Transition(c.job, "NO_PARTNER_AVAILABLE", SYSTEM) /\ Finish(c) /\ UNCHANGED queue
    <3>1. StatusKept /\ status'[c.job] # "SEARCHING"
      BY <1>1, <2>3, TransitionCalm DEF Transition, JobsTyped
    <3>. QED
      BY <1>1, <2>2, <2>3, <3>1, SearchFinish DEF Calm
  <2>4. CASE /\ ~CanMove(status[c.job], "NO_PARTNER_AVAILABLE", "MOBILITY", SYSTEM)
             /\ Throw(c) /\ UNCHANGED status
    <3>1. status[c.job] # "SEARCHING"
      BY <2>4, SearchCanEnd
    <3>2. Finish(c) /\ queue \subseteq queue'
      BY <2>4 DEF Throw
    <3>. QED
      BY <1>1, <2>2, <2>4, <3>1, <3>2, SameStatus, SearchFinish DEF Calm
  <2>. QED
    BY <1>9, <2>3, <2>4 DEF GiveUp
<1>. QED
  BY <1>4, <1>5, <1>6, <1>7, <1>8, <1>9

\* cancel() sweeps jobs that are taken or over: none of them is searched for.
LEMMA SearchSweep ==
  ASSUME DispatchAssumption, SearchInv, JobsApart, TypeInv, TypeInv', NEW c \in calls,
         \/ ReadOpenOffers(c) \/ CancelOffers(c) \/ Unqueue(c) \/ Free(c) \/ Enqueue(c)
         \/ WriteOffline(c)
  PROVE  SearchInv'
<1>. USE TypeInvParts
<1>1. UNCHANGED <<status, crashes>> /\ HandlerOK(c) /\ StatusKept
  BY SameStatus DEF HandlersOK, ReadOpenOffers, CancelOffers, Unqueue, Free, Enqueue, WriteOffline,
     jobVars
<1>2. c.at \in Sweeping => c.job \in Jobs /\ c.origin = "http" /\ status[c.job] \notin Open
  BY <1>1 DEF HandlerOK, Sweeping, SearchInv
<1>3. ASSUME NEW at \in Sweeping, NEW rows, c.at \in Sweeping, UNCHANGED queue,
             \A j \in Jobs : RowsKept(j), Continue(c, [c EXCEPT !.at = at, !.rows = rows])
      PROVE  SearchInv'
  <2>. DEFINE d == [c EXCEPT !.at = at, !.rows = rows]
  <2>1. /\ d.at = at /\ d.job = c.job /\ d.then = c.then /\ d.origin = c.origin
    BY <1>1 DEF HandlerOK, Call
  <2>2. Continue(c, d)
    BY <1>3
  <2>. HIDE DEF d
  <2>3. Starts(d)
    BY <1>1, <1>2, <1>3, <2>1 DEF Starts, Refused, Sweeping, SearchInv
  <2>. QED
    BY <1>1, <1>3, <2>1, <2>2, <2>3, SearchContinue DEF Calm, Sweeping, Carrying
<1>4. CASE ReadOpenOffers(c)
  <2>1. c.at \in Sweeping /\ "swept" \in Sweeping /\ UNCHANGED <<queue, offers, accepted>>
    BY <1>4 DEF ReadOpenOffers, Sweeping, rowVars
  <2>. QED
    BY <1>3, <1>4, <2>1, RowsSameKept DEF ReadOpenOffers
<1>5. CASE CancelOffers(c)
  <2>1. c.at \in Sweeping /\ "unqueue" \in Sweeping /\ UNCHANGED queue
    BY <1>5 DEF CancelOffers, Sweeping
  <2>2. \A j \in Jobs : RowsKept(j)
    BY <1>2, <1>5, <2>1, ClosedRows DEF CancelOffers
  <2>. QED
    BY <1>3, <1>5, <2>1, <2>2 DEF CancelOffers
<1>6. CASE Unqueue(c)
  <2>1. /\ c.at \in Sweeping /\ UNCHANGED <<offers, accepted>>
        /\ queue' = {e \in queue : e.job # c.job}
    BY <1>6 DEF Unqueue, Sweeping, rowVars
  <2>2. \A j \in Jobs : RowsKept(j)
    BY <2>1, RowsSameKept
  <2>3. status[c.job] # "SEARCHING" /\ c.origin = "http"
    BY <1>2, <2>1, StatusSets
  <2>4. c.then \in {"done", "free"}
    BY <1>1 DEF HandlerOK, Call, SearchInv
  <2>5. \A x \in calls : x # c => x \in calls'
    BY <1>6 DEF Unqueue, Finish, Continue
  <2>6. WorkKept
    <3>1. SUFFICES ASSUME NEW j \in Jobs, status'[j] = "SEARCHING", Work(j)
                   PROVE  Work(j)'
      BY DEF WorkKept
    <3>2. j # c.job
      BY <1>1, <2>3, <3>1
    <3>. QED
      BY <2>1, <2>5, <3>1, <3>2 DEF Work
  <2>7. \A d \in calls' \ calls : Starts(d)
    <3>1. ASSUME Continue(c, [c EXCEPT !.at = "free"])
          PROVE  \A d \in calls' \ calls : Starts(d)
      <4>1. [c EXCEPT !.at = "free"].at = "free" /\ [c EXCEPT !.at = "free"].then = c.then
        BY <1>1 DEF HandlerOK, Call
      <4>2. Starts([c EXCEPT !.at = "free"])
        BY <2>4, <4>1 DEF Starts, Sweeping, Refused
      <4>. QED
        BY <3>1, <4>2 DEF Continue
    <3>. QED
      BY <1>6, <2>4, <3>1 DEF Unqueue, Finish
  <2>8. \A x \in calls : Carries(x) => x \in calls'
    <3>1. ~Carries(c)
      BY <2>1 DEF Carries, Carrying, Sweeping
    <3>. QED
      BY <2>5, <3>1
  <2>. QED
    BY <1>1, <2>2, <2>6, <2>7, <2>8, SearchKept DEF StatusKept
<1>7. CASE Free(c) \/ Enqueue(c) \/ WriteOffline(c)
  <2>1. /\ UNCHANGED <<offers, accepted>> /\ Finish(c) /\ queue \subseteq queue'
        /\ c.at \in {"free", "enqueue", "offline"}
    BY <1>7 DEF Free, Enqueue, WriteOffline, rowVars
  <2>2. c.origin = "http" /\ c.at \notin Carrying
    BY <1>1, <2>1 DEF HandlerOK, Carrying
  <2>. QED
    BY <1>1, <2>1, <2>2, RowsSameKept, SearchFinish DEF Calm
<1>. QED
  BY <1>4, <1>5, <1>6, <1>7

\* A release sends the job back to SEARCHING and carries that search on itself.
LEMMA SearchHandover ==
  ASSUME DispatchAssumption, SearchInv, JobsApart, TypeInv, TypeInv', NEW c \in calls,
         \/ ReleaseJob(c) \/ ReleasePartner(c)
         \/ BeginByHand(c) \/ ReleasePrevious(c) \/ AssignByHand(c)
  PROVE  SearchInv'
<1>. USE TypeInvParts
<1>1. HandlerOK(c) /\ ~BeginByHand(c) /\ ~ReleasePrevious(c) /\ ~AssignByHand(c)
  BY DEF HandlersOK, HandlerOK, BeginByHand, ReleasePrevious, AssignByHand, SearchInv
<1>2. CASE ReleasePartner(c)
  <2>. DEFINE d == [c EXCEPT !.at = "wave", !.partner = NoPartner]
  <2>1. /\ UNCHANGED <<status, queue, offers, crashes>> /\ ReassignRow(c.job, c.partner)
        /\ c.job \in Jobs
    BY <1>1, <1>2 DEF ReleasePartner, jobVars, HandlerOK
  <2>2. d.at = "wave" /\ d.job = c.job /\ d.then = c.then /\ d.origin = c.origin
    BY <1>1 DEF HandlerOK, Call
  <2>3. Continue(c, d)
    BY <1>2 DEF ReleasePartner
  <2>. HIDE DEF d
  <2>4. Starts(d)
    BY <2>2 DEF Starts, Refused, Sweeping, SearchInv
  <2>5. \A j \in Jobs : Offered(j)' \subseteq Offered(j) /\ accepted'[j] \subseteq accepted[j]
    BY <2>1 DEF ReassignRow, RowsTyped, Offered
  <2>. QED
    BY <2>1, <2>2, <2>3, <2>4, <2>5, FewerRows, SameStatus, SearchContinue DEF Calm, Carrying
<1>3. CASE ReleaseJob(c)
  <2>1. /\ UNCHANGED <<queue, offers, accepted, crashes>> /\ c.job \in Jobs /\ c.at = "release"
        /\ c.origin = "http"
    BY <1>1, <1>3 DEF ReleaseJob, rowVars, HandlerOK
  <2>2. CASE Finish(c) /\ UNCHANGED status
    <3>1. c.at \notin Carrying
      BY <2>1 DEF Carrying
    <3>. QED
      BY <2>1, <2>2, <3>1, RowsSameKept, SameStatus, SearchFinish DEF Calm
  <2>3. CASE /\ Transition(c.job, "SEARCHING", PARTNER)
             /\ Continue(c, [c EXCEPT !.at = "released"])
    <3>. DEFINE d == [c EXCEPT !.at = "released"]
    <3>1. d.at = "released" /\ d.job = c.job /\ d.then = c.then /\ d.origin = c.origin
      BY <1>1 DEF HandlerOK, Call
    <3>2. calls' = (calls \ {c}) \cup {d}
      BY <2>3 DEF Continue
    <3>. HIDE DEF d
    <3>3. Starts(d)
      BY <3>1 DEF Starts, Refused, Sweeping, SearchInv
    <3>4. Alone(c.job)
      BY <2>1, <3>1, <3>2 DEF Alone, JobsApart
    <3>5. \A j \in Jobs : j # c.job => status'[j] = status[j]
      BY <2>3 DEF Transition, JobsTyped
    <3>6. WorkKept
      BY <2>1, <3>1, <3>2 DEF WorkKept, Work
    <3>7. d \in calls' /\ Carries(d)
      BY <2>1, <3>1, <3>2 DEF Carries, Carrying
    <3>8. \A x \in calls : x.job # c.job => x \in calls'
      BY <3>2
    <3>9. \A x \in calls' \ calls : Starts(x)
      BY <3>2, <3>3
    <3>. QED
      BY <2>1, <3>1, <3>4, <3>5, <3>6, <3>7, <3>8, <3>9, RowsSameKept, SearchKept
  <2>. QED
    BY <1>3, <2>2, <2>3 DEF ReleaseJob
<1>. QED
  BY <1>1, <1>2, <1>3

LEMMA SearchPickUp ==
  ASSUME DispatchAssumption, SearchInv, TypeInv, TypeInv', NEW e \in queue, PickUp(e)
  PROVE  SearchInv'
<1>. USE TypeInvParts
<1>1. UNCHANGED <<status, offers, accepted, crashes>> /\ Begin(Take(e)) /\ queue' = queue \ {e}
  BY DEF PickUp, jobVars, rowVars
<1>2. HandlerOK(Take(e)) /\ e \in Entry
  BY TakenEntry DEF QueueTyped
<1>3. /\ Take(e).job = e.job /\ Take(e).then = "done" /\ Take(e).at \notin Sweeping \cup {"offer"}
      /\ Take(e).origin # "http"
  BY <1>2 DEF Take, Entry, Sweeping
<1>4. WorkKept
  <2>1. PICK n \in 1..(MaxRequests + MaxWorkers) : calls' = calls \cup {[Take(e) EXCEPT !.id = n]}
    BY <1>1 DEF Begin
  <2>2. /\ [Take(e) EXCEPT !.id = n].job = e.job
        /\ [Take(e) EXCEPT !.id = n].origin # "http"
    BY <1>2, <1>3 DEF HandlerOK, Call
  <2>. QED
    BY <1>1, <2>1, <2>2 DEF WorkKept, Work
<1>. QED
  BY <1>1, <1>2, <1>3, <1>4, SameStatus, RowsSameKept, SearchBegin

LEMMA SearchRequest ==
  ASSUME DispatchAssumption, SearchInv, JobsApart, TypeInv, TypeInv', ~ManualDispatch,
         "SEARCHING" \notin ForcedTargets, NEW j \in Jobs, JobRequest(j)
  PROVE  SearchInv'
<1>. USE TypeInvParts
<1>1. holder[j] \in Partners \cup {NoPartner}
  BY DEF JobsTyped
<1>2. ASSUME NEW c, HandlerOK(c), Begin(c), c.then = "done" \/ c.then = "free", c.at # "offer",
             c.at \in Sweeping => status'[c.job] \notin Open,
             StatusKept, UNCHANGED <<offers, accepted, crashes, queue>>
      PROVE  SearchInv'
  <2>1. WorkKept
    BY <1>2 DEF WorkKept, Work, Begin
  <2>. QED
    BY <1>2, <2>1, RowsSameKept, SearchBegin
<1>3. ASSUME NEW at \in {"enqueue", "wave", "release", "free"}, NEW p \in Partners \cup {NoPartner},
             at = "release" => p # NoPartner, Begin(Request(at, j, p)),
             StatusKept, UNCHANGED <<offers, accepted, crashes, queue>>
      PROVE  SearchInv'
  <2>1. HandlerOK(Request(at, j, p))
    BY <1>3, NewRequest DEF Labels
  <2>2. Request(at, j, p).then = "done" /\ Request(at, j, p).at = at
    BY DEF Request
  <2>3. at \notin Sweeping /\ at # "offer"
    BY DEF Sweeping
  <2>. QED
    BY <1>2, <1>3, <2>1, <2>2, <2>3
<1>4. CASE Create(j) \/ Complete(j)
  <2>1. UNCHANGED <<offers, accepted, crashes, queue>> /\ StatusKept
    BY <1>4, TransitionCalm DEF Create, Complete, rowVars
  <2>. QED
    BY <1>1, <1>3, <1>4, <2>1 DEF Create, Complete
<1>5. CASE Retry(j) \/ Release(j)
  <2>1. UNCHANGED <<offers, accepted, crashes, queue>> /\ StatusKept
    BY <1>5, SameStatus DEF Retry, Release, rowVars, jobVars
  <2>. QED
    BY <1>1, <1>3, <1>5, <2>1 DEF Retry, Release
<1>6. ASSUME NEW actor \in {CUSTOMER, PARTNER, ADMIN}, Cancel(j, actor)
      PROVE  SearchInv'
  <2>. DEFINE c == [Request("sweep", j, holder[j]) EXCEPT !.then = "free"]
  <2>1. HandlerOK(Request("sweep", j, holder[j]))
    BY <1>1, NewRequest DEF Labels
  <2>2. HandlerOK(c)
    BY <2>1 DEF Request, HandlerOK, Call
  <2>3. c.job = j /\ c.then = "free" /\ c.at = "sweep"
    BY DEF Request
  <2>4. /\ Transition(j, "CANCELLED", actor) /\ Begin(c)
        /\ UNCHANGED <<offers, accepted, crashes, queue>>
    BY <1>6 DEF Cancel, rowVars
  <2>. HIDE DEF c
  <2>5. StatusKept /\ status'[j] \notin Open
    BY <2>4, TransitionCalm DEF Transition, JobsTyped, Open
  <2>. QED
    BY <1>2, <2>2, <2>3, <2>4, <2>5
<1>7. CASE \/ EnRoute(j) \/ Arrive(j) \/ Start(j)
           \/ \E to \in ForcedTargets : ForceStatus(j, to)
  <2>1. /\ UNCHANGED <<offers, accepted, crashes, queue, calls>>
        /\ \E to, actor : Transition(j, to, actor) /\ to # "SEARCHING"
    BY <1>7 DEF EnRoute, Arrive, Start, ForceStatus, rowVars
  <2>. QED
    BY <2>1, TransitionCalm, RowsSameKept, SearchSame DEF Calm
<1>8. ~Redispatch(j) /\ \A p \in Partners : ~ManualAssign(j, p)
  BY DEF Redispatch, ManualAssign
<1>. QED
  BY <1>4, <1>5, <1>6, <1>7, <1>8 DEF JobRequest

LEMMA SearchAnswer ==
  ASSUME DispatchAssumption, SearchInv, JobsApart, TypeInv, TypeInv',
         NEW j \in Jobs, NEW o \in offers[j], Answer(j, o) \/ Lapse(j, o)
  PROVE  SearchInv'
<1>. USE TypeInvParts
<1>1. o \in Offer
  BY DEF RowsTyped
<1>2. ASSUME NEW q, offers' = WithOffer(j, o, q), \A x \in q : Id(x) = Id(o),
             UNCHANGED <<status, accepted, crashes, queue, calls>>
      PROVE  SearchInv'
  <2>1. \A i \in Jobs : offers'[i] = IF i = j THEN (offers[j] \ {o}) \cup q ELSE offers[i]
    BY <1>2 DEF WithOffer, RowsTyped
  <2>2. \A i \in Jobs : Offered(i)' \subseteq Offered(i)
    BY <1>2, <2>1 DEF Offered
  <2>. QED
    BY <1>2, <2>2, FewerRows, SameStatus, SearchSame DEF Calm
<1>3. CASE CheckOffer(j, o) \/ ClaimOffer(j, o) \/ RefuseAccept(j, o) \/ Lapse(j, o)
  <2>1. /\ Id([o EXCEPT !.stage = "checked"]) = Id(o) /\ Id([o EXCEPT !.stage = "claimed"]) = Id(o)
        /\ Id([o EXCEPT !.stage = "open"]) = Id(o) /\ Id([o EXCEPT !.lapsed = TRUE]) = Id(o)
    BY <1>1 DEF Id, Offer
  <2>2. UNCHANGED <<status, accepted, crashes, queue, calls>>
    BY <1>3 DEF CheckOffer, ClaimOffer, RefuseAccept, Lapse, jobVars
  <2>3. ASSUME NEW x, offers' = WithOffer(j, o, {x}), Id(x) = Id(o)
        PROVE  SearchInv'
    BY <1>2, <2>2, <2>3
  <2>4. \/ offers' = WithOffer(j, o, {[o EXCEPT !.stage = "checked"]})
        \/ offers' = WithOffer(j, o, {[o EXCEPT !.stage = "claimed"]})
        \/ offers' = WithOffer(j, o, {[o EXCEPT !.stage = "open"]})
        \/ offers' = WithOffer(j, o, {[o EXCEPT !.lapsed = TRUE]})
    BY <1>3 DEF CheckOffer, ClaimOffer, RefuseAccept, Lapse
  <2>. QED
    BY <2>1, <2>3, <2>4, Zenon
<1>4. CASE Reject(j, o)
  BY <1>2, <1>4 DEF Reject, jobVars
<1>5. CASE CommitAccept(j, o)
  <2>. DEFINE c == Request("sweep", j, o.partner)
  <2>1. o.partner \in Partners
    BY <1>1 DEF Offer
  <2>2. HandlerOK(c)
    BY <2>1, NewRequest DEF Labels
  <2>3. c.job = j /\ c.then = "done" /\ c.at = "sweep"
    BY DEF Request
  <2>4. /\ Begin(c) /\ UNCHANGED <<crashes, queue>>
        /\ status' = [status EXCEPT ![j] = "ASSIGNED"]
        /\ accepted' = [accepted EXCEPT ![j] = {Id(o)}]
        /\ offers' = [offers EXCEPT ![j] = {}]
    BY <1>5 DEF CommitAccept, TransitionToAssigned
  <2>. HIDE DEF c
  <2>5. StatusKept /\ status'[j] \notin Open
    BY <2>4, StatusSets DEF StatusKept, JobsTyped
  <2>6. Offered(j)' \subseteq Offered(j) /\ accepted'[j] \subseteq Offered(j)
    BY <2>4 DEF Offered, RowsTyped
  <2>7. \A i \in Jobs : RowsKept(i)
    <3>1. RowsKept(j)
      BY <2>6 DEF RowsKept, HasLiveRow
    <3>2. \A i \in Jobs : i # j => offers'[i] = offers[i] /\ accepted'[i] = accepted[i]
      BY <2>4 DEF RowsTyped
    <3>3. \A i \in Jobs : i # j => RowsKept(i)
      BY <3>2 DEF RowsKept, HasLiveRow, Offered
    <3>. QED
      BY <3>1, <3>3
  <2>8. WorkKept
    BY <2>4 DEF WorkKept, Work, Begin
  <2>. QED
    BY <2>2, <2>3, <2>4, <2>5, <2>7, <2>8, SearchBegin
<1>. QED
  BY <1>3, <1>4, <1>5 DEF Answer

LEMMA SearchRest ==
  ASSUME DispatchAssumption, SearchInv, JobsApart, TypeInv, TypeInv',
         \/ \E j \in Jobs : WaitTimeout(j) \/ DeadlinePasses(j)
         \/ \E p \in Partners : GoOnline(p) \/ GoOffline(p) \/ MarkOfflineStale(p)
         \/ UNCHANGED vars
  PROVE  SearchInv'
<1>. USE TypeInvParts
<1>1. UNCHANGED <<offers, accepted, crashes, queue>>
  BY DEF WaitTimeout, DeadlinePasses, GoOnline, GoOffline, MarkOfflineStale, vars, rowVars
<1>2. \A j \in Jobs : RowsKept(j)
  BY <1>1, RowsSameKept
<1>3. ASSUME NEW j \in Jobs, WaitTimeout(j)
      PROVE  SearchInv'
  <2>1. UNCHANGED calls /\ StatusKept
    BY <1>3, TransitionCalm, SameStatus DEF WaitTimeout
  <2>. QED
    BY <1>1, <1>2, <2>1, SearchSame DEF Calm
<1>4. ASSUME UNCHANGED <<status, calls>>
      PROVE  SearchInv'
  BY <1>1, <1>2, <1>4, SameStatus, SearchSame DEF Calm
<1>5. ASSUME NEW p \in Partners, GoOffline(p)
      PROVE  SearchInv'
  <2>. DEFINE c == Request("offline", NoJob, p)
  <2>1. HandlerOK(c)
    BY DEF DispatchAssumption, HandlerOK, Call, Request, Labels
  <2>2. c.then = "done" /\ c.at = "offline" /\ c.at \notin Sweeping
    BY DEF Request, Sweeping
  <2>3. Begin(c) /\ UNCHANGED status
    BY <1>5 DEF GoOffline, jobVars
  <2>. HIDE DEF c
  <2>4. WorkKept
    BY <1>1, <2>3 DEF WorkKept, Work, Begin
  <2>. QED
    BY <1>1, <1>2, <2>1, <2>2, <2>3, <2>4, SameStatus, SearchBegin
<1>. QED
  BY <1>3, <1>4, <1>5 DEF DeadlinePasses, GoOnline, MarkOfflineStale, vars, jobVars

LEMMA SearchStep ==
  ASSUME DispatchAssumption, SearchInv, JobsApart, TypeInv, TypeInv', ~ManualDispatch,
         "SEARCHING" \notin ForcedTargets, [Next]_vars
  PROVE  SearchInv'
<1>1. ASSUME NEW c \in calls, Step(c)
      PROVE  SearchInv'
  BY <1>1, SearchKickOff, SearchWave, SearchOffer, SearchExpiry, SearchSweep, SearchHandover
  DEF Step
<1>2. CASE Crash
  <2>1. calls' = {} /\ crashes' # 0
    BY <1>2, TypeInvParts DEF Crash, DispatchAssumption
  <2>. QED
    BY <2>1 DEF SearchInv
<1>. QED
  BY <1>1, <1>2, SearchPickUp, SearchRequest, SearchAnswer, SearchRest DEF Next

\* With requests about one job kept apart, no dispatcher and no administrator sending a trip
\* back by hand, no search is abandoned before the process dies, however many workers run
\* the waves, expiries and timers of it and of earlier searches.
THEOREM SearchAliveApart ==
  ASSUME ~ManualDispatch, "SEARCHING" \notin ForcedTargets
  PROVE  Spec /\ []JobsApart => [](crashes = 0 => SearchAlive)
<1>1. Init => SearchInv
  BY DEF Init, SearchInv
<1>2. SearchInv /\ TypeInv /\ TypeInv' /\ JobsApart /\ [Next]_vars => SearchInv'
  BY SearchStep, DispatchAssumption
<1>3. SearchInv => (crashes = 0 => SearchAlive)
  BY DEF SearchInv, SearchAlive, Work
<1>. QED
  BY <1>1, <1>2, <1>3, TypeInvAlways, PTL DEF Spec

===============================================================================
