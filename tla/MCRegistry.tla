---------------------------- MODULE MCRegistry ----------------------------
(* The instances of Registry: see the README for what each bound allows.   *)
EXTENDS Registry, TLC

CONSTANTS par, chi, rev1, rev2, oc1, oc2, tk1, tk2, br, au1, au2

Parent == chi :> par
Launch == (par :> tk1) @@ (chi :> tk1) @@ (rev1 :> tk1) @@ (rev2 :> tk1) @@ (oc1 :> None) @@ (oc2 :> None)
BranchOf == (rev1 :> br) @@ (rev2 :> br)
Alike == Permutations({au1, au2})
===========================================================================
