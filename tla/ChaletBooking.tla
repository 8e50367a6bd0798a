---------------------------- MODULE ChaletBooking ----------------------------
(***************************************************************************)
(* The calendar of one chalet: ChaletBookingService over the table         *)
(* chalet_bookings and the trigger and constraints of 002_chalet.sql.      *)
(*                                                                         *)
(* Taking a hold and recording an external booking end in an insert that   *)
(* the exclusion constraint orders against every other write, and read     *)
(* nothing they later use: each is one step.  The other operations read    *)
(* the booking, decide, and update it by id; transactions are READ         *)
(* COMMITTED and the update names neither the status nor the version that  *)
(* was read, so anything may happen between the two.  The sweep of lapsed  *)
(* holds is a read and an update as well.                                  *)
(*                                                                         *)
(* One unit of time is a quarter of an hour, half the check-in window.     *)
(* What a stay costs is left out: no guard reads a total or a fee.         *)
(***************************************************************************)
EXTENDS Naturals

CONSTANTS
  Bookings,    \* ids of rows of chalet_bookings, used once each
  Requests,    \* HTTP requests in flight on these bookings
  Idle,        \* a request that is not in flight
  Starts,      \* starts on the chalet's grid and inside its opening hours
  Lengths,     \* durations the chalet offers
  Extensions,  \* input.additionalMinutes
  MaxStay,     \* chalets.maximum_booking_duration_minutes
  HoldFor,     \* chalets.hold_duration_minutes
  Cleaning,    \* chalets.default_cleaning_duration_minutes
  Horizon      \* bound: the last instant of the model

ASSUME ChaletAssumption ==
  /\ Horizon \in Nat
  /\ Starts \subseteq 0..Horizon
  /\ Lengths \subseteq Nat \ {0}
  /\ Extensions \subseteq Nat \ {0}
  /\ MaxStay \in Nat
  /\ HoldFor \in Nat \ {0}
  /\ Cleaning \in Nat

VARIABLES
  now,    \* the clock
  row,    \* chalet_bookings
  call,   \* what each request in flight is about to write
  swept   \* ids the sweep has read and not yet updated

vars == <<now, row, call, swept>>

-----------------------------------------------------------------------------
(* The lifecycle of a booking.                                               *)

Terminal == {"COMPLETED", "CANCELLED", "EXPIRED", "NO_SHOW"}

SlotHolding == {"HELD", "AWAITING_PAYMENT", "CONFIRMED", "CHECK_IN_READY",
                "CHECKED_IN", "IN_PROGRESS", "CHECKED_OUT", "CLEANING"}

\* The statuses the service writes; "NONE" where there is no row.  No code writes
\* the others of the enumeration.
Written == {"NONE", "HELD", "CONFIRMED", "CHECKED_IN", "CHECKED_OUT", "CANCELLED", "EXPIRED"}

CHALET_TRANSITIONS ==
  ({"DRAFT"} \X {"HELD", "CANCELLED"})
  \cup ({"HELD"} \X {"AWAITING_PAYMENT", "CONFIRMED", "EXPIRED", "CANCELLED"})
  \cup ({"AWAITING_PAYMENT"} \X {"CONFIRMED", "EXPIRED", "CANCELLED"})
  \cup ({"CONFIRMED"} \X {"CHECK_IN_READY", "CHECKED_IN", "CANCELLED", "NO_SHOW"})
  \cup ({"CHECK_IN_READY"} \X {"CHECKED_IN", "NO_SHOW", "CANCELLED"})
  \cup ({"CHECKED_IN"} \X {"IN_PROGRESS", "CHECKED_OUT"})
  \cup ({"IN_PROGRESS"} \X {"CHECKED_OUT"})
  \cup ({"CHECKED_OUT"} \X {"CLEANING", "COMPLETED"})
  \cup ({"CLEANING"} \X {"COMPLETED"})
  \cup ({"COMPLETED", "NO_SHOW"} \X {"DISPUTED"})
  \cup ({"DISPUTED"} \X {"COMPLETED"})

CANCELLABLE_BY_CUSTOMER == {"DRAFT", "HELD", "AWAITING_PAYMENT", "CONFIRMED", "CHECK_IN_READY"}
EXTENDABLE == {"CONFIRMED", "CHECK_IN_READY", "CHECKED_IN", "IN_PROGRESS"}

CheckInWindow == 2   \* CHECK_IN_WINDOW_MINUTES = 30

-----------------------------------------------------------------------------
(* Rows and requests.                                                        *)

\* held is hold_expires_at, 0 when NULL.  A booking the owner recorded is external: it
\* has no customer.
Row == [status : Written, start : Nat, end : Nat, held : Nat, external : BOOLEAN]

NoRow == [status |-> "NONE", start |-> 0, end |-> 1, held |-> 0, external |-> FALSE]

\* An update on its way.  now is when the request began, end what it will write, computed
\* from what it read then; 0 where the update does not use them.
Call == [op : {"confirm", "cancel", "extend", "checkIn", "checkOut"}, booking : Bookings,
         now : Nat, end : Nat]

Update(op, b) == [op |-> op, booking |-> b, now |-> 0, end |-> 0]

Lapsed(b, t) == row[b].status = "HELD" /\ row[b].held <= t

\* Seeded fault, used by no action: Expired that forgets holdExpiresAt: null.
ExpiredKeepingDeadline(r) == [r EXCEPT !.status = "EXPIRED"]

Expired(r) == [r EXCEPT !.status = "EXPIRED", !.held = 0]

\* Seeded fault, used by no action: the time is missing from the where clause.
ExpireEveryHold(t) ==
  [b \in Bookings |-> IF row[b].status = "HELD" THEN Expired(row[b]) ELSE row[b]]

\* The table after expireLapsedHolds as of t.
ExpireLapsed(t) == [b \in Bookings |-> IF Lapsed(b, t) THEN Expired(row[b]) ELSE row[b]]

\* Seeded fault, used by no action: the constraint without the statuses that come after check-out.
FitsAmongGuests(rows, b, start, end) ==
  \A o \in Bookings \ {b} :
    rows[o].status \in SlotHolding \ {"CHECKED_OUT", "CLEANING"} =>
      end + Cleaning <= rows[o].start \/ rows[o].end + Cleaning <= start

\* chalet_bookings_no_overlap for row b from start to end, blocked_until included.
Fits(rows, b, start, end) ==
  \A o \in Bookings \ {b} :
    rows[o].status \in SlotHolding =>
      end + Cleaning <= rows[o].start \/ rows[o].end + Cleaning <= start

Accepts(rows, b, r) == r.status \in SlotHolding => Fits(rows, b, r.start, r.end)

\* Seeded fault, used by no action: CheckIn without the refusal before the window opens.
CheckInAnyTime(q, b) ==
  /\ <<row[b].status, "CHECKED_IN">> \in CHALET_TRANSITIONS
  /\ now < row[b].end
  /\ call[q] = Idle
  /\ call' = [call EXCEPT ![q] = Update("checkIn", b)]
  /\ UNCHANGED <<now, row, swept>>

-----------------------------------------------------------------------------
(* Operations of one step.                                                   *)

Init ==
  /\ now = 0
  /\ row = [b \in Bookings |-> NoRow]
  /\ call = [q \in Requests |-> Idle]
  /\ swept = {}

\* The transaction of an insert: lapsed holds go first, then the constraint decides.
\* A refused insert takes the expiry of the lapsed holds back with it.
Insert(b, r) ==
  /\ row[b].status = "NONE"
  /\ Accepts(ExpireLapsed(now), b, r)
  /\ row' = [ExpireLapsed(now) EXCEPT ![b] = r]
  /\ UNCHANGED <<now, call, swept>>

\* A window checkSlot finds fault with on no other account than another booking: on the
\* grid and inside opening hours (Starts), of an allowed length.
Bookable(start, length) == start \in Starts /\ length \in Lengths /\ length <= MaxStay

\* POST chalets/bookings/hold.
Hold(b) ==
  \E start \in Starts, length \in Lengths :
    /\ start > now
    /\ Bookable(start, length)
    /\ Insert(b, [status |-> "HELD", start |-> start, end |-> start + length,
                  held |-> now + HoldFor, external |-> FALSE])

\* The owner records a booking taken elsewhere, past or to come.
CreateExternal(b) ==
  \E start \in Starts, length \in Lengths :
    Insert(b, [status |-> "CONFIRMED", start |-> start, end |-> start + length,
               held |-> 0, external |-> TRUE])

-----------------------------------------------------------------------------
(* Operations that read the booking first.  Each guard is what the row must be   *)
(* when it is read; Commit is the update.                                        *)

Read(q, c) ==
  /\ call[q] = Idle
  /\ call' = [call EXCEPT ![q] = c]
  /\ UNCHANGED <<now, row, swept>>

CanBecome(b, to) == <<row[b].status, to>> \in CHALET_TRANSITIONS

\* A lapsed hold is refused.  (The service marks it EXPIRED before it throws, inside
\* the transaction that the exception rolls back: nothing of it remains.)
Confirm(q, b) ==
  /\ ~row[b].external
  /\ ~Lapsed(b, now)
  /\ CanBecome(b, "CONFIRMED")
  /\ Read(q, Update("confirm", b))

Cancel(q, b) ==
  /\ row[b].status \in CANCELLABLE_BY_CUSTOMER
  /\ Read(q, Update("cancel", b))

Extend(q, b) ==
  /\ ~row[b].external
  /\ row[b].status \in EXTENDABLE
  /\ \E more \in Extensions :
       /\ row[b].end + more - row[b].start <= MaxStay
       /\ Read(q, [op |-> "extend", booking |-> b, now |-> now, end |-> row[b].end + more])

CheckIn(q, b) ==
  /\ CanBecome(b, "CHECKED_IN")
  /\ now + CheckInWindow >= row[b].start
  /\ now < row[b].end
  /\ Read(q, Update("checkIn", b))

CheckOut(q, b) ==
  /\ CanBecome(b, "CHECKED_OUT")
  /\ Read(q, Update("checkOut", b))

\* What the update of c makes of row r: the columns it names and no others.
Change(c, r) ==
  CASE c.op = "confirm"  -> [r EXCEPT !.status = "CONFIRMED", !.held = 0]
    [] c.op = "cancel"   -> [r EXCEPT !.status = "CANCELLED", !.held = 0]
    [] c.op = "extend"   -> [r EXCEPT !.end = c.end]
    [] c.op = "checkIn"  -> [r EXCEPT !.status = "CHECKED_IN"]
    [] c.op = "checkOut" -> [r EXCEPT !.status = "CHECKED_OUT"]

\* An extension releases lapsed holds before its update.
Before(c) == IF c.op = "extend" THEN ExpireLapsed(c.now) ELSE row

\* The update by id, which only the constraint can refuse; then all is rolled back.
Commit(q) ==
  /\ call[q] # Idle
  /\ LET c == call[q]
         b == c.booking
         r == Change(c, Before(c)[b])
     IN  row' = IF Accepts(Before(c), b, r) THEN [Before(c) EXCEPT ![b] = r] ELSE row
  /\ call' = [call EXCEPT ![q] = Idle]
  /\ UNCHANGED <<now, swept>>

-----------------------------------------------------------------------------
(* The sweep of the maintenance queue, and time.                             *)

SweepRead ==
  /\ swept = {}
  /\ swept' = {b \in Bookings : Lapsed(b, now)}
  /\ swept' # {}
  /\ UNCHANGED <<now, row, call>>

SweepWrite ==
  /\ swept # {}
  /\ row' = [b \in Bookings |-> IF b \in swept THEN Expired(row[b]) ELSE row[b]]
  /\ swept' = {}
  /\ UNCHANGED <<now, call>>

Tick ==
  /\ now < Horizon
  /\ now' = now + 1
  /\ UNCHANGED <<row, call, swept>>

Operate(q, b) ==
  \/ Confirm(q, b)
  \/ Cancel(q, b)
  \/ Extend(q, b)
  \/ CheckIn(q, b)
  \/ CheckOut(q, b)

Next ==
  \/ \E b \in Bookings : Hold(b) \/ CreateExternal(b)
  \/ \E q \in Requests : Commit(q) \/ \E b \in Bookings : Operate(q, b)
  \/ SweepRead
  \/ SweepWrite
  \/ Tick

Spec == Init /\ [][Next]_vars

-----------------------------------------------------------------------------
(* What must hold.                                                           *)

\* Every column keeps its type, windows are not empty, and a hold has its deadline
\* exactly while it is one (chalet_bookings_hold_has_expiry, and every way out of HELD
\* clears it).
TypeOK ==
  /\ now \in 0..Horizon
  /\ row \in [Bookings -> Row]
  /\ \A b \in Bookings : /\ row[b].start < row[b].end
                         /\ row[b].held # 0 <=> row[b].status = "HELD"
  /\ call \in [Requests -> Call \cup {Idle}]
  /\ swept \subseteq Bookings

Over(b)     == row[b].status \in Terminal \cup {"NONE"}
Needs(b, t) == ~Over(b) /\ row[b].start <= t /\ t < row[b].end + Cleaning

\* "Double booking is impossible by construction" (002_chalet.sql): at no instant do two
\* bookings that are not over both need the chalet, for the guest or for the cleaning
\* after the guest, however holds, external bookings, confirmations, extensions and
\* lapsing interleave.
NoOverlap ==
  \A a, b \in Bookings : a # b =>
    \A t \in 0..(Horizon + MaxStay + Cleaning) : ~(Needs(a, t) /\ Needs(b, t))

\* A hold keeps its slot while the customer pays: neither the sweep nor another
\* customer's write ends it before its time, however long ago they read it.
HoldProtected ==
  [][\A b \in Bookings :
       row[b].status = "HELD" /\ now < row[b].held => row'[b].status # "EXPIRED"]_vars

\* "Check-in opens 30 minutes before the booking starts" (checkIn): whatever happened
\* since the request read the clock, a guest is let in at most the check-in window before
\* the stay and the cleaning of every earlier booking end.
EarlyAtMost ==
  [][\A a, b \in Bookings :
       /\ row[b].status # "CHECKED_IN" /\ row'[b].status = "CHECKED_IN"
       /\ a # b /\ ~Over(a) /\ row[a].start <= row[b].start
       => row[a].end + Cleaning <= now + CheckInWindow]_vars

=============================================================================
