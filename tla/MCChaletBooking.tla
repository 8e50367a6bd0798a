---------------------------- MODULE MCChaletBooking ---------------------------
(* ChaletBooking for TLC: bookings are interchangeable, and so are requests. *)
EXTENDS ChaletBooking, TLC

Symmetry == Permutations(Bookings) \cup Permutations(Requests)
===============================================================================
