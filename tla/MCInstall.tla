------------------------------ MODULE MCInstall ------------------------------
(***************************************************************************)
(* Instances of Install for TLC: three releases, two with one manager.     *)
(***************************************************************************)
EXTENDS Install, TLC

CONSTANTS r1, r2, r3, m1, m2
SomeReleases == {r1, r2, r3}
SomeManagers == [r \in SomeReleases |-> IF r = r3 THEN m2 ELSE m1]
InstallSymmetry == Permutations({r1, r2})
=============================================================================
