------------------------- MODULE ChaletBookingProofs -------------------------
(***************************************************************************)
(* What holds of a chalet's calendar for any number of bookings and        *)
(* requests, any grid, lengths, hold and cleaning times.                   *)
(***************************************************************************)
EXTENDS ChaletBooking, TLAPS

-----------------------------------------------------------------------------
(* Typing.                                                                   *)

\* The parts of TypeOK that speak of the table, for a table t.
Table(t) ==
  /\ t \in [Bookings -> Row]
  /\ \A b \in Bookings : /\ t[b].start < t[b].end
                         /\ t[b].held # 0 <=> t[b].status = "HELD"

\* A row whose window is not empty and whose deadline is there while it is a hold.
Sound(r) == r \in Row /\ r.start < r.end /\ (r.held # 0 <=> r.status = "HELD")

\* A table is well typed when its rows are.
LEMMA TableOfRows ==
  ASSUME NEW t, t = [b \in Bookings |-> t[b]], \A b \in Bookings : Sound(t[b])
  PROVE  Table(t)
BY DEF Table, Sound

\* An expired row is sound.
LEMMA ExpiredSound == ASSUME NEW r, Sound(r) PROVE Sound(Expired(r))
BY DEF Sound, Expired, Row, Written

\* Expiring lapsed holds keeps the table well typed.
LEMMA ExpireLapsedSound ==
  ASSUME TypeOK, NEW t PROVE Table(ExpireLapsed(t))
<1>1. \A b \in Bookings : Sound(row[b])
  BY DEF TypeOK, Sound
<1> QED
  BY <1>1, ExpiredSound, TableOfRows DEF ExpireLapsed

\* Replacing a row by a sound one keeps the table well typed.
LEMMA PutSound ==
  ASSUME NEW t, Table(t), NEW b \in Bookings, NEW r, Sound(r)
  PROVE  Table([t EXCEPT ![b] = r])
BY DEF Table, Sound

-----------------------------------------------------------------------------
(* The table: what every write to it preserves.                              *)

\* No two rows that hold the slot overlap, their cleaning included: what the constraint
\* checks for the row written, stated of all rows.
Disjoint(t) ==
  \A a, b \in Bookings :
    a # b /\ t[a].status \in SlotHolding /\ t[b].status \in SlotHolding =>
      t[a].end + Cleaning <= t[b].start \/ t[b].end + Cleaning <= t[a].start

\* From table t to table u no booking disappears, moves its start, becomes a hold or gets
\* another deadline.
Ages(t, u) ==
  \A b \in Bookings : t[b].status # "NONE" =>
    /\ u[b].status # "NONE"
    /\ u[b].start = t[b].start
    /\ u[b].status = "HELD" => t[b].status = "HELD" /\ u[b].held = t[b].held

\* Releasing lapsed holds keeps the rows apart and only ages them.
LEMMA ExpireLapsedAges ==
  ASSUME TypeOK, Disjoint(row), NEW t
  PROVE  /\ Disjoint(ExpireLapsed(t))
         /\ Ages(row, ExpireLapsed(t))
<1>1. \A b \in Bookings :
        /\ ExpireLapsed(t)[b].start = row[b].start
        /\ ExpireLapsed(t)[b].end = row[b].end
        /\ ExpireLapsed(t)[b] = row[b] \/ ExpireLapsed(t)[b].status = "EXPIRED"
  BY DEF TypeOK, Row, ExpireLapsed, Expired
<1>2. Disjoint(ExpireLapsed(t))
  BY <1>1 DEF Disjoint, SlotHolding
<1>3. Ages(row, ExpireLapsed(t))
  BY <1>1 DEF Ages
<1> QED
  BY <1>2, <1>3

\* Writing a row the constraint accepts keeps the rows apart.
LEMMA PutDisjoint ==
  ASSUME NEW t, Table(t), Disjoint(t), NEW b \in Bookings, NEW r, Sound(r), Accepts(t, b, r)
  PROVE  Disjoint([t EXCEPT ![b] = r])
<1> DEFINE u == [t EXCEPT ![b] = r]
<1> SUFFICES ASSUME NEW x \in Bookings, NEW y \in Bookings, x # y,
                    u[x].status \in SlotHolding, u[y].status \in SlotHolding
             PROVE  u[x].end + Cleaning <= u[y].start \/ u[y].end + Cleaning <= u[x].start
  BY DEF Disjoint
<1>1. \A z \in Bookings : u[z] = IF z = b THEN r ELSE t[z]
  BY DEF Table
<1>2. CASE x = b
  BY <1>1, <1>2 DEF Accepts, Fits
<1>3. CASE y = b
  BY <1>1, <1>3 DEF Accepts, Fits
<1>4. CASE x # b /\ y # b
  BY <1>1, <1>4 DEF Disjoint
<1> QED
  BY <1>2, <1>3, <1>4

-----------------------------------------------------------------------------
(* The inductive invariant.                                                  *)

\* What update c may rely on although its row is not locked, in table t at instant n: the
\* booking exists, the window to be written begins where the booking does, only updates
\* that clear the deadline meet a hold, the check-in window is open, and the clock has not
\* gone back.
CallOK(c, t, n) ==
  /\ t[c.booking].status # "NONE"
  /\ c.now <= n
  /\ c.op = "extend" => t[c.booking].start < c.end
  /\ c.op \in {"extend", "checkIn", "checkOut"} => t[c.booking].status # "HELD"
  /\ c.op = "checkIn" => t[c.booking].start <= n + CheckInWindow

CallsOK == \A q \in Requests : call[q] # Idle => CallOK(call[q], row, now)

\* What the sweep has read is still there, and if it is a hold it has lapsed.
SweptOK ==
  \A b \in swept : /\ row[b].status # "NONE"
                   /\ row[b].status = "HELD" => row[b].held <= now

Inv == TypeOK /\ Disjoint(row) /\ CallsOK /\ SweptOK

\* TypeOK is a matter of the table, the clock, the requests and the sweep.
LEMMA TypeParts ==
  TypeOK <=> /\ now \in 0..Horizon
             /\ Table(row)
             /\ call \in [Requests -> Call \cup {Idle}]
             /\ swept \subseteq Bookings
BY DEF TypeOK, Table

\* An update keeps what it relies on while its booking ages and time passes.
LEMMA CallOKAges ==
  ASSUME NEW c \in Call, NEW t, NEW u, NEW m \in Nat, NEW n \in Nat,
         Table(t), Table(u), CallOK(c, t, m), Ages(t, u), m <= n
  PROVE  CallOK(c, u, n)
BY DEF CallOK, Ages, Call, Table, Row, CheckInWindow

\* So does the sweep.
LEMMA SweptOKAges ==
  ASSUME Inv, now' \in Nat, now <= now', Table(row'), Ages(row, row'), swept' = swept
  PROVE  SweptOK'
BY DEF Inv, SweptOK, Ages, Table, Row, TypeOK

\* A step that ages the table, and neither begins a request nor runs the sweep, keeps the
\* invariant when the new table is well typed and its rows apart.
LEMMA AgingKeepsInv ==
  ASSUME Inv, now' \in 0..Horizon, now <= now', Horizon \in Nat,
         Table(row'), Disjoint(row'), Ages(row, row'),
         call' \in [Requests -> Call \cup {Idle}],
         \A q \in Requests : call'[q] \in {call[q], Idle},
         swept' = swept
  PROVE  Inv'
<1>1. now \in Nat /\ now' \in Nat /\ Table(row)
  BY TypeParts DEF Inv
<1>2. TypeOK'
  BY DEF Inv, TypeOK, Table
<1>3. SweptOK'
  BY <1>1, SweptOKAges
<1>4. CallsOK'
  <2> SUFFICES ASSUME NEW q \in Requests, call'[q] # Idle
               PROVE  CallOK(call'[q], row', now')
    BY DEF CallsOK
  <2>1. call'[q] = call[q] /\ call[q] \in Call /\ CallOK(call[q], row, now)
    BY DEF Inv, CallsOK, TypeOK
  <2> QED
    BY <1>1, <2>1, CallOKAges
<1>5. Disjoint(row)'
  BY DEF Disjoint
<1> QED
  BY <1>2, <1>3, <1>4, <1>5 DEF Inv

-----------------------------------------------------------------------------
(* One lemma per kind of step.                                               *)

\* An insert of a sound row keeps the invariant.
LEMMA InsertInv ==
  ASSUME Inv, Horizon \in Nat, NEW b \in Bookings, NEW r, Sound(r), Insert(b, r)
  PROVE  Inv'
<1> DEFINE t == ExpireLapsed(now)
<1>1. Table(t) /\ Disjoint(t) /\ Ages(row, t)
  BY ExpireLapsedSound, ExpireLapsedAges DEF Inv
<1>2. Table(row') /\ Disjoint(row')
  BY <1>1, PutSound, PutDisjoint DEF Insert
<1>3. Ages(row, row')
  BY <1>1 DEF Ages, Insert, Table
<1> QED
  BY <1>2, <1>3, AgingKeepsInv DEF Inv, TypeOK, Insert

\* Taking a hold keeps the invariant.
LEMMA HoldInv ==
  ASSUME Inv, ChaletAssumption, NEW b \in Bookings, Hold(b)
  PROVE  Inv'
<1> DEFINE r(start, length) ==
             [status |-> "HELD", start |-> start, end |-> start + length,
              held |-> now + HoldFor, external |-> FALSE]
<1>1. PICK start \in Starts, length \in Lengths : Insert(b, r(start, length))
  BY DEF Hold
<1>2. start \in Nat /\ length \in Nat \ {0} /\ HoldFor \in Nat \ {0} /\ now \in Nat /\ Horizon \in Nat
  BY DEF ChaletAssumption, Inv, TypeOK
<1>3. Sound(r(start, length))
  BY <1>2 DEF Sound, Row, Written
<1> HIDE DEF r
<1> QED
  BY <1>1, <1>2, <1>3, InsertInv

\* Recording an external booking keeps the invariant.
LEMMA CreateExternalInv ==
  ASSUME Inv, ChaletAssumption, NEW b \in Bookings, CreateExternal(b)
  PROVE  Inv'
<1> DEFINE r(start, length) ==
             [status |-> "CONFIRMED", start |-> start, end |-> start + length,
              held |-> 0, external |-> TRUE]
<1>1. PICK start \in Starts, length \in Lengths : Insert(b, r(start, length))
  BY DEF CreateExternal
<1>2. start \in Nat /\ length \in Nat \ {0} /\ Horizon \in Nat
  BY DEF ChaletAssumption
<1>3. Sound(r(start, length))
  BY <1>2 DEF Sound, Row, Written
<1> HIDE DEF r
<1> QED
  BY <1>1, <1>2, <1>3, InsertInv

\* Beginning an update that may rely on its booking keeps the invariant.
LEMMA ReadInv ==
  ASSUME Inv, NEW q \in Requests, NEW c \in Call, CallOK(c, row, now), Read(q, c)
  PROVE  Inv'
<1>1. TypeOK'
  BY DEF Inv, TypeOK, Read
<1>2. CallsOK'
  BY DEF Inv, CallsOK, TypeOK, Read
<1>3. SweptOK' /\ Disjoint(row)'
  BY DEF Inv, SweptOK, Disjoint, Read
<1> QED
  BY <1>1, <1>2, <1>3 DEF Inv

\* Each operation begins an update that may rely on its booking.
LEMMA OperateInv ==
  ASSUME Inv, ChaletAssumption, NEW q \in Requests, NEW b \in Bookings, Operate(q, b)
  PROVE  Inv'
<1>1. row[b] \in Row /\ row[b].start < row[b].end /\ now \in Nat
  BY DEF Inv, TypeOK, ChaletAssumption
<1>2. CASE Confirm(q, b)
  <2> DEFINE c == Update("confirm", b)
  <2>1. c \in Call /\ CallOK(c, row, now)
    BY <1>1, <1>2 DEF Confirm, CanBecome, CHALET_TRANSITIONS, Update, Call, CallOK
  <2> QED
    BY <1>2, <2>1, ReadInv DEF Confirm
<1>3. CASE Cancel(q, b)
  <2> DEFINE c == Update("cancel", b)
  <2>1. c \in Call /\ CallOK(c, row, now)
    BY <1>1, <1>3 DEF Cancel, CANCELLABLE_BY_CUSTOMER, Update, Call, CallOK
  <2> QED
    BY <1>3, <2>1, ReadInv DEF Cancel
<1>4. CASE Extend(q, b)
  <2> DEFINE c(more) == [op |-> "extend", booking |-> b, now |-> now, end |-> row[b].end + more]
  <2>1. PICK more \in Extensions : Read(q, c(more))
    BY <1>4 DEF Extend
  <2>2. more \in Nat
    BY DEF ChaletAssumption
  <2>3. c(more) \in Call
    BY <1>1, <2>2 DEF Call, Row
  <2>4. CallOK(c(more), row, now)
    BY <1>1, <1>4, <2>2 DEF Extend, EXTENDABLE, CallOK, Row
  <2> HIDE DEF c
  <2> QED
    BY <2>1, <2>3, <2>4, ReadInv
<1>5. CASE CheckIn(q, b)
  <2> DEFINE c == Update("checkIn", b)
  <2>1. c \in Call /\ CallOK(c, row, now)
    BY <1>1, <1>5 DEF CheckIn, CanBecome, CHALET_TRANSITIONS, Update, Call, CallOK, Row, CheckInWindow
  <2> QED
    BY <1>5, <2>1, ReadInv DEF CheckIn
<1>6. CASE CheckOut(q, b)
  <2> DEFINE c == Update("checkOut", b)
  <2>1. c \in Call /\ CallOK(c, row, now)
    BY <1>1, <1>6 DEF CheckOut, CanBecome, CHALET_TRANSITIONS, Update, Call, CallOK
  <2> QED
    BY <1>6, <2>1, ReadInv DEF CheckOut
<1> QED
  BY <1>2, <1>3, <1>4, <1>5, <1>6 DEF Operate

\* What an update makes of its booking is sound, keeps its start and is no new hold.
LEMMA ChangeSound ==
  ASSUME NEW c \in Call, NEW r, Sound(r), r.status # "NONE",
         c.op = "extend" => r.start < c.end,
         c.op \in {"extend", "checkIn", "checkOut"} => r.status # "HELD"
  PROVE  /\ Sound(Change(c, r))
         /\ Change(c, r).status \notin {"NONE", "HELD"}
         /\ Change(c, r).start = r.start
BY DEF Change, Sound, Row, Written, Call

\* An update that goes through, or is rolled back, keeps the invariant.
LEMMA CommitInv ==
  ASSUME Inv, ChaletAssumption, NEW q \in Requests, Commit(q)
  PROVE  Inv'
<1> DEFINE c == call[q]
           b == c.booking
           t == Before(c)
           r == Change(c, t[b])
<1>1. c \in Call /\ b \in Bookings /\ CallOK(c, row, now)
  BY DEF Inv, TypeOK, CallsOK, Call, Commit
<1>2. Table(t) /\ Disjoint(t) /\ Ages(row, t)
  <2>1. Ages(row, row)
    BY DEF Ages
  <2> QED
    BY <2>1, ExpireLapsedSound, ExpireLapsedAges, TypeParts DEF Inv, Before
<1>3. t[b].start = row[b].start /\ t[b].status # "NONE" /\ Sound(t[b])
  BY <1>1, <1>2 DEF Ages, Table, Sound, CallOK
<1>4. c.op \in {"extend", "checkIn", "checkOut"} => t[b].status # "HELD"
  BY <1>1, <1>2 DEF Ages, CallOK
<1>5. Sound(r) /\ r.status \notin {"NONE", "HELD"} /\ r.start = row[b].start
  BY <1>1, <1>3, <1>4, ChangeSound DEF CallOK
<1>6. Table(row') /\ Disjoint(row') /\ Ages(row, row')
  <2>1. CASE Accepts(t, b, r)
    <3>1. row' = [t EXCEPT ![b] = r]
      BY <2>1 DEF Commit
    <3>2. Table(row') /\ Disjoint(row')
      BY <1>1, <1>2, <1>5, <2>1, <3>1, PutSound, PutDisjoint
    <3>3. Ages(row, row')
      BY <1>1, <1>2, <1>5, <3>1 DEF Ages, Table
    <3> QED
      BY <3>2, <3>3
  <2>2. CASE ~Accepts(t, b, r)
    <3>1. row' = row
      BY <2>2 DEF Commit
    <3> QED
      BY <3>1, TypeParts DEF Inv, Ages, Disjoint, Table
  <2> QED
    BY <2>1, <2>2
<1>7. Horizon \in Nat /\ now \in 0..Horizon /\ now' = now /\ now <= now' /\ swept' = swept
  BY DEF ChaletAssumption, Inv, TypeOK, Commit
<1>8. call' \in [Requests -> Call \cup {Idle}]
      /\ \A p \in Requests : call'[p] \in {call[p], Idle}
  BY DEF Inv, TypeOK, Commit
<1> QED
  BY <1>6, <1>7, <1>8, AgingKeepsInv

\* The sweep takes note of lapsed holds only.
LEMMA SweepReadInv == ASSUME Inv, SweepRead PROVE Inv'
<1>1. TypeOK' /\ Disjoint(row)' /\ CallsOK'
  BY DEF Inv, TypeOK, Disjoint, CallsOK, SweepRead
<1>2. SweptOK'
  BY DEF SweptOK, SweepRead, Lapsed
<1> QED
  BY <1>1, <1>2 DEF Inv

\* Whatever has become of them since, expiring what it noted only ages the table.
LEMMA SweepWriteInv ==
  ASSUME Inv, ChaletAssumption, SweepWrite
  PROVE  Inv'
<1>1. \A b \in Bookings : Sound(row[b])
  BY DEF Inv, TypeOK, Sound
<1>2. \A b \in Bookings : /\ row'[b] = IF b \in swept THEN Expired(row[b]) ELSE row[b]
                          /\ Sound(row'[b])
  BY <1>1, ExpiredSound DEF SweepWrite
<1>3. Table(row')
  BY <1>2, TableOfRows DEF SweepWrite
<1>4. \A b \in Bookings :
        /\ row'[b].start = row[b].start
        /\ row'[b].end = row[b].end
        /\ row'[b] = row[b] \/ row'[b].status = "EXPIRED"
  BY <1>1, <1>2 DEF Sound, Row, Expired
<1>5. Disjoint(row')
  BY <1>4 DEF Inv, Disjoint, SlotHolding
<1>6. Ages(row, row')
  BY <1>4 DEF Ages
<1>7. now' = now /\ now \in 0..Horizon /\ Horizon \in Nat /\ now <= now /\ call' = call
      /\ swept' = {} /\ call \in [Requests -> Call \cup {Idle}]
  BY DEF SweepWrite, Inv, TypeOK, ChaletAssumption
<1>8. TypeOK'
  BY <1>3, <1>7 DEF TypeOK, Table
<1>9. SweptOK'
  BY <1>7 DEF SweptOK
<1>10. CallsOK'
  <2> SUFFICES ASSUME NEW q \in Requests, call'[q] # Idle
               PROVE  CallOK(call'[q], row', now')
    BY DEF CallsOK
  <2>1. call'[q] = call[q] /\ call[q] \in Call /\ CallOK(call[q], row, now) /\ now \in Nat /\ Table(row)
    BY <1>7, TypeParts DEF Inv, CallsOK
  <2> QED
    BY <1>3, <1>6, <1>7, <2>1, CallOKAges
<1> QED
  BY <1>5, <1>8, <1>9, <1>10 DEF Inv, Disjoint

\* The clock keeps the invariant.
LEMMA TickInv == ASSUME Inv, ChaletAssumption, Tick PROVE Inv'
<1>1. Ages(row, row') /\ Disjoint(row')
  BY DEF Inv, Ages, Disjoint, Tick
<1>2. Table(row')
  BY TypeParts DEF Inv, Tick
<1>3. now' \in 0..Horizon /\ now <= now' /\ Horizon \in Nat
  BY DEF Tick, Inv, TypeOK, ChaletAssumption
<1>4. call' \in [Requests -> Call \cup {Idle}] /\ swept' = swept
      /\ \A q \in Requests : call'[q] \in {call[q], Idle}
  BY DEF Tick, Inv, TypeOK
<1> QED
  BY <1>1, <1>2, <1>3, <1>4, AgingKeepsInv

-----------------------------------------------------------------------------
(* The theorems.                                                             *)

LEMMA InitInv == ASSUME ChaletAssumption, Init PROVE Inv
<1>1. Sound(NoRow)
  BY DEF Sound, NoRow, Row, Written
<1>2. Table(row)
  BY <1>1, TableOfRows DEF Init
<1>3. Disjoint(row)
  BY DEF Init, Disjoint, NoRow, SlotHolding
<1>4. now \in 0..Horizon /\ call \in [Requests -> Call \cup {Idle}] /\ swept \subseteq Bookings
  BY DEF Init, ChaletAssumption
<1>5. CallsOK /\ SweptOK
  BY DEF Init, CallsOK, SweptOK
<1> QED
  BY <1>2, <1>3, <1>4, <1>5, TypeParts DEF Inv

LEMMA StepInv == ASSUME Inv, ChaletAssumption, [Next]_vars PROVE Inv'
<1>1. CASE Next
  BY <1>1, HoldInv, CreateExternalInv, OperateInv, CommitInv, SweepReadInv, SweepWriteInv,
     TickInv DEF Next
<1>2. CASE UNCHANGED vars
  <2>1. TypeOK'
    BY <1>2 DEF Inv, TypeOK, vars
  <2>2. Disjoint(row)' /\ CallsOK' /\ SweptOK'
    BY <1>2 DEF Inv, Disjoint, CallsOK, SweptOK, vars
  <2> QED
    BY <2>1, <2>2 DEF Inv
<1> QED
  BY <1>1, <1>2

LEMMA InvAlways == Spec => []Inv
BY ChaletAssumption, InitInv, StepInv, PTL DEF Spec

\* The table of bookings is well typed: windows are never empty, not even after an
\* extension that was computed from an older row, and a deadline is there exactly while a
\* booking is held.
THEOREM TypeCorrect == Spec => []TypeOK
BY InvAlways, PTL DEF Inv

\* Live bookings hold the slot, so the constraint keeps them apart at every instant.
LEMMA InvNoOverlap == ASSUME Inv, ChaletAssumption PROVE NoOverlap
<1> SUFFICES ASSUME NEW a \in Bookings, NEW b \in Bookings, a # b,
                    NEW t \in 0..(Horizon + MaxStay + Cleaning), Needs(a, t), Needs(b, t)
             PROVE  FALSE
  BY DEF NoOverlap
<1>1. row[a] \in Row /\ row[b] \in Row
  BY DEF Inv, TypeOK
<1>2. row[a].status \in SlotHolding /\ row[b].status \in SlotHolding
  BY <1>1 DEF Needs, Over, Row, Written, Terminal, SlotHolding
<1>3. row[a].end + Cleaning <= row[b].start \/ row[b].end + Cleaning <= row[a].start
  BY <1>2 DEF Inv, Disjoint
<1>4. t \in Nat /\ row[a].start <= t /\ t < row[a].end + Cleaning
      /\ row[b].start <= t /\ t < row[b].end + Cleaning
  BY DEF Needs, ChaletAssumption
<1> QED
  BY <1>1, <1>3, <1>4 DEF Row, ChaletAssumption

\* Double booking is impossible, for any number of bookings and requests and whatever
\* their interleaving.
THEOREM NeverDoubleBooked == Spec => []NoOverlap
BY InvAlways, InvNoOverlap, ChaletAssumption, PTL

\* No step ends a hold before its time.
LEMMA StepProtectsHolds ==
  ASSUME Inv, ChaletAssumption, [Next]_vars, NEW b \in Bookings,
         row[b].status = "HELD", now < row[b].held
  PROVE  row'[b].status # "EXPIRED"
<1>1. row[b] \in Row /\ now \in Nat /\ ~(row[b].held <= now)
  BY DEF Inv, TypeOK, ChaletAssumption, Row
<1>2. ASSUME NEW x \in Bookings, NEW r, Insert(x, r) PROVE row'[b] = row[b]
  BY <1>1, <1>2 DEF Insert, ExpireLapsed, Lapsed
<1>3. ASSUME NEW q \in Requests, Commit(q) PROVE row'[b].status # "EXPIRED"
  <2>1. call[q] \in Call
    BY <1>3 DEF Commit, Inv, TypeOK
  <2>2. ~Lapsed(b, call[q].now)
    BY <1>1, <1>3, <2>1 DEF Inv, CallsOK, CallOK, Commit, Call, Row, Lapsed
  <2>3. Before(call[q])[b] = row[b]
    BY <2>2 DEF Before, ExpireLapsed
  <2> QED
    BY <1>1, <1>3, <2>1, <2>3 DEF Commit, Change, Call, Inv, TypeOK, ExpireLapsed, Before
<1>4. CASE SweepWrite
  <2>1. b \notin swept
    BY <1>1 DEF Inv, SweptOK
  <2> QED
    BY <1>4, <2>1 DEF SweepWrite
<1> QED
  BY <1>2, <1>3, <1>4 DEF Next, Hold, CreateExternal, Operate, Confirm, Cancel, Extend, CheckIn,
     CheckOut, Read, SweepRead, Tick, vars

\* A hold lasts as long as the customer was promised.
THEOREM HoldsLast == Spec => HoldProtected
<1>1. Inv /\ [Next]_vars =>
        [\A b \in Bookings :
           row[b].status = "HELD" /\ now < row[b].held => row'[b].status # "EXPIRED"]_vars
  BY StepProtectsHolds, ChaletAssumption
<1> QED
  BY <1>1, InvAlways, PTL DEF Spec, HoldProtected

\* A guest is let in at most the check-in window before every earlier booking is done.
LEMMA StepEarlyAtMost ==
  ASSUME Inv, ChaletAssumption, [Next]_vars, NEW a \in Bookings, NEW b \in Bookings,
         row[b].status # "CHECKED_IN", row'[b].status = "CHECKED_IN",
         a # b, ~Over(a), row[a].start <= row[b].start
  PROVE  row[a].end + Cleaning <= now + CheckInWindow
<1>1. row[a] \in Row /\ row[b] \in Row /\ now \in Nat /\ Cleaning \in Nat
  BY DEF Inv, TypeOK, ChaletAssumption
<1>2. row[a].status \in SlotHolding
  BY <1>1 DEF Over, Row, Written, Terminal, SlotHolding
<1>3. \A t : ExpireLapsed(t)[b].status # "CHECKED_IN"
  BY <1>1 DEF ExpireLapsed, Expired, Row
<1>4. PICK q \in Requests : Commit(q) /\ call[q].booking = b /\ call[q].op = "checkIn"
  <2>1. ASSUME NEW x \in Bookings, Hold(x) \/ CreateExternal(x) PROVE FALSE
    <3>1. PICK r : Insert(x, r) /\ r.status # "CHECKED_IN"
      <4> DEFINE held(start, length) ==
                   [status |-> "HELD", start |-> start, end |-> start + length,
                    held |-> now + HoldFor, external |-> FALSE]
                 taken(start, length) ==
                   [status |-> "CONFIRMED", start |-> start, end |-> start + length,
                    held |-> 0, external |-> TRUE]
      <4>1. CASE Hold(x)
        <5>1. PICK start, length : Insert(x, held(start, length))
          BY <4>1 DEF Hold
        <5>2. held(start, length).status # "CHECKED_IN"
          OBVIOUS
        <5> HIDE DEF held
        <5> QED
          BY <5>1, <5>2
      <4>2. CASE CreateExternal(x)
        <5>1. PICK start, length : Insert(x, taken(start, length))
          BY <4>2 DEF CreateExternal
        <5>2. taken(start, length).status # "CHECKED_IN"
          OBVIOUS
        <5> HIDE DEF taken
        <5> QED
          BY <5>1, <5>2
      <4> QED
        BY <2>1, <4>1, <4>2
    <3>2. row' = [ExpireLapsed(now) EXCEPT ![x] = r]
      BY <3>1 DEF Insert
    <3>3. row'[b] = r \/ row'[b] = ExpireLapsed(now)[b]
      BY <3>2 DEF ExpireLapsed
    <3> QED
      BY <1>3, <3>1, <3>3
  <2>2. CASE SweepWrite
    BY <1>1, <2>2 DEF SweepWrite, Expired, Row
  <2>3. ASSUME NEW q \in Requests, Commit(q) PROVE call[q].booking = b /\ call[q].op = "checkIn"
    <3>1. call[q] \in Call
      BY <2>3 DEF Commit, Inv, TypeOK
    <3>2. Before(call[q]) \in [Bookings -> Row] /\ Before(call[q])[b].status # "CHECKED_IN"
      BY <1>3, ExpireLapsedSound DEF Before, Inv, TypeOK, Table
    <3> QED
      BY <2>3, <3>1, <3>2 DEF Commit, Change, Call, Row
  <2> QED
    BY <2>1, <2>2, <2>3 DEF Next, Operate, Confirm, Cancel, Extend, CheckIn, CheckOut, Read,
       SweepRead, Tick, vars
<1>5. row[b].start <= now + CheckInWindow
  BY <1>4 DEF Commit, Inv, CallsOK, CallOK
<1>6. Fits(row, b, row[b].start, row[b].end)
  <2>1. row' = [row EXCEPT ![b] = [row[b] EXCEPT !.status = "CHECKED_IN"]]
        /\ Accepts(row, b, [row[b] EXCEPT !.status = "CHECKED_IN"])
    BY <1>4 DEF Commit, Before, Change
  <2> QED
    BY <1>1, <2>1 DEF Accepts, Row, SlotHolding
<1>7. row[b].end + Cleaning <= row[a].start \/ row[a].end + Cleaning <= row[b].start
  BY <1>2, <1>6 DEF Fits
<1>8. row[b].start < row[b].end
  BY DEF Inv, TypeOK
<1> QED
  BY <1>1, <1>5, <1>7, <1>8 DEF Row, CheckInWindow

\* The check-in window bounds how early a guest can be in the way of the one before.
THEOREM CheckInBounded == Spec => EarlyAtMost
<1>1. Inv /\ [Next]_vars =>
        [\A a, b \in Bookings :
           /\ row[b].status # "CHECKED_IN" /\ row'[b].status = "CHECKED_IN"
           /\ a # b /\ ~Over(a) /\ row[a].start <= row[b].start
           => row[a].end + Cleaning <= now + CheckInWindow]_vars
  BY StepEarlyAtMost, ChaletAssumption
<1> QED
  BY <1>1, InvAlways, PTL DEF Spec, EarlyAtMost
=============================================================================
