---------------------------- MODULE MCNavigation ----------------------------
(* Constants and bounds for model checking Navigation. *)
EXTENDS Navigation, FiniteSets

MCFacts == {[kind |-> "GameMissing", have |-> FALSE, newer |-> FALSE],
            [kind |-> "UpdateAvailable", have |-> TRUE, newer |-> TRUE]}

(* Nothing is claimed of what follows a tap beside a key that turned the    *)
(* page.  Away from the page that reads them together, one of these is on:  *)
(* a check under way, an update on offer, one installed, the network gone.  *)
Bounded ==
  /\ ~crossed
  /\ \/ app.page = "UpdateCenter"
     \/ Cardinality({i \in 1..4 :
          <<app.checking, app.offer, app.ready # "no", app.offline>>[i]}) <= 1
=============================================================================
