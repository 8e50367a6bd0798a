------------------------------ MODULE Postings ------------------------------
(***************************************************************************)
(* What a ledger promises its callers (ledger.service.ts, post): an entry  *)
(* list submitted under an idempotency key moves the balance of a wallet   *)
(* once, whole, however often and by however many callers it is submitted. *)
(***************************************************************************)
EXTENDS Integers

CONSTANTS
  Keys,          \* idempotency keys
  Effect(_)      \* what the entries of a key add to the wallet

VARIABLES
  applied,       \* keys posted
  balance        \* the sum of the wallet's entries

Init == applied = {} /\ balance = 0

Apply(key) ==
  /\ key \notin applied
  /\ applied' = applied \cup {key}
  /\ balance' = balance + Effect(key)

Next == \E key \in Keys : Apply(key)

Spec == Init /\ [][Next]_<<applied, balance>>
=============================================================================
