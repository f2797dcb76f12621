------------------------- MODULE MCTicketCapacity -------------------------
(* Instances of TicketCapacity: what each deployment is launched for.      *)
EXTENDS TicketCapacity, TLC

CONSTANTS d1, d2, d3, t1, t2

\* A deployment, its successor and a rival for another ticket.
Contenders == d1 :> t1 @@ d2 :> t1 @@ d3 :> t2
=============================================================================
