SPECIFICATION Spec

CONSTANTS
  Bookings = {b1, b2}
  Requests = {r1, r2}
  Idle = Idle
  Starts = {2, 5}
  Lengths = {1, 2}
  Extensions = {1}
  MaxStay = 4
  HoldFor = 1
  Cleaning = 1
  Horizon = 7

SYMMETRY Symmetry

INVARIANT
  TypeOK
  NoOverlap
PROPERTY
  HoldProtected
  EarlyAtMost
CHECK_DEADLOCK FALSE
