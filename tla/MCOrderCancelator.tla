------------------------- MODULE MCOrderCancelator -------------------------
(* Two orders, posted by one executor, that may rest at the exchange together. *)
EXTENDS OrderCancelator

CONSTANTS o1, o2, e1

MCOrders == {o1, o2}
MCExecutors == {e1}
=============================================================================
