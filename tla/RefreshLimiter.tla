---------------------------- MODULE RefreshLimiter ----------------------------
(* The limiter both context panels of the Pi extension share: at most one     *)
(* refresh runs, refreshes start no closer than an interval apart, and of the *)
(* requests that wait only the last is kept.  The timer of the code is armed  *)
(* exactly while a request waits for the interval, so it is no state here.    *)

Limiters == [wanted : BOOLEAN,  \* a request waits
             running : BOOLEAN, \* a refresh is in flight
             due : BOOLEAN]     \* the interval since the last start is over

NewLimiter == [wanted |-> FALSE, running |-> FALSE, due |-> TRUE]

Fires(l) == l.wanted /\ ~l.running /\ l.due
Scheduled(l) == IF Fires(l) THEN [wanted |-> FALSE, running |-> TRUE, due |-> FALSE] ELSE l

\* What each step leaves to the scheduling that ends it.
Requested(l) == [l EXCEPT !.wanted = TRUE]
Elapsed(l) == [l EXCEPT !.due = TRUE]
Settled(l) == [l EXCEPT !.running = FALSE]
===============================================================================
