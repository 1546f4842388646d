---------------------------- MODULE MCHttpUpload ----------------------------
(* The instances of HttpUpload that TLC checks: connections are alike. *)
EXTENDS HttpUpload, TLC

ConnSymmetry == Permutations(Conns)
=============================================================================
