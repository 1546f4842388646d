--------------------------- MODULE MCHomeShortcut ---------------------------
(* Two builds of one version and one build of the next.                    *)
EXTENDS HomeShortcut

CONSTANTS one, two

MCOurs == {[version |-> 1, build |-> one], [version |-> 1, build |-> two],
           [version |-> 2, build |-> one]}
=============================================================================
