--------------------------- MODULE MCCloudForward ---------------------------
(* Instances of CloudForward for TLC. *)
EXTENDS CloudForward, TLC

\* Alerts are interchangeable, and so are sessions and refreshes.
Symmetry == Permutations(Alert) \cup Permutations(Session) \cup Permutations(Refresher)

=============================================================================
