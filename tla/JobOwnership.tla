----------------------------- MODULE JobOwnership -----------------------------
(***************************************************************************)
(* What the dispatch engine promises about a job and the partner who does  *)
(* it, without offers, queues or retries.  A job is open until one partner *)
(* takes it; it can go back to open only while the work has not begun; it  *)
(* never passes from one partner to another without being open in between; *)
(* and a job that is over stays over, with the partner that settlement,    *)
(* ratings and disputes will name.                                         *)
(***************************************************************************)

CONSTANTS Jobs, Partners, NoPartner

VARIABLES
  phase,    \* "open", "held", "working" or "over"
  partner   \* who holds, does or did the job

vars == <<phase, partner>>

Init ==
  /\ phase = [j \in Jobs |-> "open"]
  /\ partner = [j \in Jobs |-> NoPartner]

\* A partner takes an open job.
Acquire(j, p) ==
  /\ phase[j] = "open"
  /\ phase' = [phase EXCEPT ![j] = "held"]
  /\ partner' = [partner EXCEPT ![j] = p]

\* The partner gives it back, or it is taken back, before the work begins.
Yield(j) ==
  /\ phase[j] = "held"
  /\ phase' = [phase EXCEPT ![j] = "open"]
  /\ partner' = [partner EXCEPT ![j] = NoPartner]

\* The work begins: from here on the partner is final.
BeginWork(j) ==
  /\ phase[j] = "held"
  /\ phase' = [phase EXCEPT ![j] = "working"]
  /\ UNCHANGED partner

\* Completed or cancelled.
Close(j) ==
  /\ phase[j] # "over"
  /\ phase' = [phase EXCEPT ![j] = "over"]
  /\ UNCHANGED partner

Next ==
  \E j \in Jobs :
    \/ \E p \in Partners : Acquire(j, p)
    \/ Yield(j) \/ BeginWork(j) \/ Close(j)

Spec == Init /\ [][Next]_vars

-----------------------------------------------------------------------------
\* A job has a partner exactly while somebody holds it or works on it; an open job has
\* none, and what a job that is over has is what it had when it closed.
PartnerMatchesPhase ==
  \A j \in Jobs :
    /\ phase[j] = "open" => partner[j] = NoPartner
    /\ phase[j] \in {"held", "working"} => partner[j] \in Partners

===============================================================================
