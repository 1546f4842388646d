---------------------------- MODULE MCAgentHome ----------------------------
(* Three builds, two of them of one game version (a changed copy), and     *)
(* five releases: one that was built twice, one for the next game version  *)
(* only, and one of each version that covers both.                         *)
EXTENDS AgentHome

CONSTANTS b1, b2, b2x, h1, h2

MCBuilds == {b1, b2, b2x}
MCVersion == [b \in MCBuilds |-> IF b = b1 THEN 1 ELSE 2]
MCReleases ==
    {[version |-> 1, hash |-> h1, covers |-> {b1}],
     [version |-> 1, hash |-> h1, covers |-> {b1, b2}],
     [version |-> 1, hash |-> h2, covers |-> {b1, b2}],
     [version |-> 2, hash |-> h1, covers |-> {b2}],
     [version |-> 3, hash |-> h1, covers |-> {b1, b2}]}
=============================================================================
