---------------------------- MODULE MCDisputes ----------------------------
EXTENDS Disputes

Decisions == {[refund |-> 1, adjustment |-> -1], [refund |-> 0, adjustment |-> -2]}
===========================================================================
