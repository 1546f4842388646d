---------------------------- MODULE MCInstallRun ----------------------------
(* InstallRun for TLC: packages are interchangeable. *)
EXTENDS InstallRun, TLC

PackageSymmetry == Permutations(Packages)
=============================================================================
