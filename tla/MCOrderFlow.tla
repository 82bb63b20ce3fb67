---------------------------- MODULE MCOrderFlow ----------------------------
(* Two orders and two executors.                                             *)
EXTENDS OrderCancelator

CONSTANTS o1, o2, e1, e2

MCOrders == {o1, o2}
MCExecutors == {e1, e2}
=============================================================================
