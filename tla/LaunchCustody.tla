--------------------------- MODULE LaunchCustody ---------------------------
(***************************************************************************)
(* What a background launch promises about what it holds: each thing the   *)
(* launcher was admitted with passes once to the runner, is given back at  *)
(* most once and never comes back, and the launch is not reported as       *)
(* pending while the launcher still answers for any of it.                 *)
(***************************************************************************)
CONSTANT Things

VARIABLES
    custody,   \* who answers for each thing: "launcher", "runner" or "none"
    report     \* what the launcher told its caller: "open", "pending" or "failed"

vars == <<custody, report>>

Init ==
    /\ custody \in [Things -> {"launcher", "none"}]
    /\ report = "open"

HandOver(x) ==
    /\ custody[x] = "launcher"
    /\ custody' = [custody EXCEPT ![x] = "runner"]
    /\ UNCHANGED report

GiveBack(x) ==
    /\ custody[x] # "none"
    /\ custody' = [custody EXCEPT ![x] = "none"]
    /\ UNCHANGED report

Accept ==
    /\ report = "open"
    /\ \A x \in Things : custody[x] # "launcher"
    /\ report' = "pending"
    /\ UNCHANGED custody

Reject ==
    /\ report = "open"
    /\ report' = "failed"
    /\ UNCHANGED custody

Next == Accept \/ Reject \/ \E x \in Things : HandOver(x) \/ GiveBack(x)

Spec == Init /\ [][Next]_vars
=============================================================================
