------------------------------ MODULE JobStates ------------------------------
(***************************************************************************)
(* The job state machine of TAMAM: the table JOB_TRANSITIONS of            *)
(* packages/shared-types, which is "the ONLY authority on which status     *)
(* changes are legal, who may trigger them and for which job types", and   *)
(* the look-ups the API makes in it.  Every other module that changes a    *)
(* job's status goes through CanMove, as JobsService.transition does.      *)
(***************************************************************************)

CUSTOMER == "CUSTOMER"
PARTNER  == "PARTNER"
ADMIN    == "ADMIN"
SYSTEM   == "SYSTEM"

Actors == {CUSTOMER, PARTNER, ADMIN, SYSTEM}

\* RIDE and DELIVERY share every row of the table; HOME_SERVICE has its own.
MOBILITY == {"MOBILITY"}
HOME     == {"HOME_SERVICE"}
JobTypes == MOBILITY \cup HOME

Statuses ==
  {"DRAFT", "REQUESTED", "SEARCHING", "NO_PARTNER_AVAILABLE", "ASSIGNED",
   "PARTNER_EN_ROUTE", "PARTNER_ARRIVED", "WAITING_CUSTOMER", "IN_PROGRESS",
   "INSPECTION_STARTED", "QUOTE_REQUIRED", "QUOTE_SUBMITTED", "QUOTE_APPROVED",
   "QUOTE_REJECTED", "WORK_STARTED", "WAITING_FOR_PARTS", "WORK_COMPLETED",
   "CUSTOMER_CONFIRMED", "COMPLETED", "CANCELLED", "DISPUTED"}

\* The states in which a partner is committed and the work has not begun:
\* leaving one of them for SEARCHING disconnects the partner.
BeforeStart ==
  {"ASSIGNED", "PARTNER_EN_ROUTE", "PARTNER_ARRIVED", "WAITING_CUSTOMER"}

-----------------------------------------------------------------------------
(* The table: <<from, to, job type, actor>> for every legal change.          *)

DispatchMoves ==
  ({"DRAFT"} \X {"REQUESTED"} \X JobTypes \X {CUSTOMER, ADMIN})
    \cup ({"REQUESTED"} \X {"SEARCHING"} \X JobTypes \X {SYSTEM, ADMIN})
    \cup ({"SEARCHING"} \X {"ASSIGNED", "NO_PARTNER_AVAILABLE"}
            \X JobTypes \X {SYSTEM, ADMIN})
    \cup ({"NO_PARTNER_AVAILABLE"} \X {"SEARCHING"}
            \X JobTypes \X {CUSTOMER, ADMIN, SYSTEM})
    \cup ({"ASSIGNED", "PARTNER_EN_ROUTE"} \X {"SEARCHING"}
            \X JobTypes \X {PARTNER, ADMIN, SYSTEM})
    \cup ({"PARTNER_ARRIVED", "WAITING_CUSTOMER"} \X {"SEARCHING"}
            \X JobTypes \X {ADMIN})

MovementMoves ==
  ({"ASSIGNED"} \X {"PARTNER_EN_ROUTE"} \X JobTypes \X {PARTNER, ADMIN})
    \cup ({"PARTNER_EN_ROUTE"} \X {"PARTNER_ARRIVED"}
            \X JobTypes \X {PARTNER, ADMIN, SYSTEM})
    \cup ({"PARTNER_ARRIVED"} \X {"WAITING_CUSTOMER"}
            \X JobTypes \X {SYSTEM, PARTNER})
    \cup ({"PARTNER_ARRIVED", "WAITING_CUSTOMER"} \X {"IN_PROGRESS"}
            \X MOBILITY \X {PARTNER, ADMIN})
    \cup ({"IN_PROGRESS"} \X {"COMPLETED"} \X MOBILITY \X {PARTNER, ADMIN})

HomeMoves ==
  ({"PARTNER_ARRIVED", "WAITING_CUSTOMER"} \X {"INSPECTION_STARTED"}
      \X HOME \X {PARTNER, ADMIN})
    \cup ({"INSPECTION_STARTED"} \X {"QUOTE_REQUIRED"} \X HOME \X {PARTNER, SYSTEM})
    \cup ({"INSPECTION_STARTED", "WAITING_FOR_PARTS"} \X {"WORK_STARTED"}
            \X HOME \X {PARTNER})
    \cup ({"QUOTE_REQUIRED", "QUOTE_REJECTED", "WORK_STARTED"} \X {"QUOTE_SUBMITTED"}
            \X HOME \X {PARTNER})
    \cup ({"QUOTE_SUBMITTED"} \X {"QUOTE_APPROVED", "QUOTE_REJECTED"}
            \X HOME \X {CUSTOMER, ADMIN})
    \cup ({"QUOTE_REJECTED"} \X {"COMPLETED"} \X HOME \X {SYSTEM, ADMIN, CUSTOMER})
    \cup ({"QUOTE_APPROVED"} \X {"WORK_STARTED"} \X HOME \X {PARTNER, ADMIN})
    \cup ({"WORK_STARTED"} \X {"WAITING_FOR_PARTS", "WORK_COMPLETED"}
            \X HOME \X {PARTNER})
    \cup ({"WORK_COMPLETED"} \X {"CUSTOMER_CONFIRMED"}
            \X HOME \X {CUSTOMER, SYSTEM, ADMIN})
    \cup ({"CUSTOMER_CONFIRMED"} \X {"COMPLETED"} \X HOME \X {SYSTEM, ADMIN})
    \cup ({"WORK_COMPLETED"} \X {"DISPUTED"} \X HOME \X {CUSTOMER, ADMIN})

CancelMoves ==
  ({"REQUESTED", "SEARCHING", "NO_PARTNER_AVAILABLE"} \X {"CANCELLED"}
      \X JobTypes \X {CUSTOMER, ADMIN, SYSTEM})
    \cup ({"ASSIGNED", "PARTNER_EN_ROUTE"} \X {"CANCELLED"}
            \X JobTypes \X {CUSTOMER, ADMIN})
    \cup ({"PARTNER_ARRIVED"} \X {"CANCELLED"} \X JobTypes \X {CUSTOMER, PARTNER, ADMIN})
    \cup ({"WAITING_CUSTOMER"} \X {"CANCELLED"} \X JobTypes \X Actors)
    \cup ({"INSPECTION_STARTED", "QUOTE_APPROVED"} \X {"CANCELLED"}
            \X HOME \X {CUSTOMER, ADMIN})
    \cup ({"QUOTE_REQUIRED"} \X {"CANCELLED"} \X HOME \X {CUSTOMER, PARTNER, ADMIN})
    \cup ({"QUOTE_SUBMITTED"} \X {"CANCELLED"} \X HOME \X {CUSTOMER, ADMIN, SYSTEM})
    \cup ({"IN_PROGRESS"} \X {"CANCELLED"} \X JobTypes \X {ADMIN})
    \cup ({"WORK_STARTED"} \X {"CANCELLED"} \X HOME \X {ADMIN})

DisputeMoves ==
  ({"COMPLETED"} \X {"DISPUTED"} \X JobTypes \X {CUSTOMER, PARTNER, ADMIN})
    \cup ({"DISPUTED"} \X {"COMPLETED"} \X JobTypes \X {ADMIN})

JOB_TRANSITIONS ==
  DispatchMoves \cup MovementMoves \cup HomeMoves \cup CancelMoves \cup DisputeMoves

\* findTransition / JobStateMachine.assert: is the change legal for this actor?
CanMove(from, to, type, actor) == <<from, to, type, actor>> \in JOB_TRANSITIONS

=============================================================================
