----------------------------- MODULE MCDelivery -----------------------------
(***************************************************************************)
(* The instance of Delivery for TLC: one channel with two types, the worker*)
(* of the receiver and the checker: the three kinds of thread that enqueue.*)
(* Channels do not influence one another, so a second one adds nothing.    *)
(***************************************************************************)
EXTENDS Delivery, TLC

CONSTANTS c1, t1, t2

=============================================================================
