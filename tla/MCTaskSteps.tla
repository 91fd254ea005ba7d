----------------------------- MODULE MCTaskSteps -----------------------------
(* The plans TaskSteps is checked with.                                      *)
EXTENDS TaskSteps, TLC

Four == 0 .. 3

Chain    == 0 :> {} @@ 1 :> {0}
Wide     == 0 :> {} @@ 1 :> {} @@ 2 :> {} @@ 3 :> {0}
Diamond  == 0 :> {} @@ 1 :> {0} @@ 2 :> {0} @@ 3 :> {1, 2}
Cycle    == 0 :> {} @@ 1 :> {2} @@ 2 :> {1} @@ 3 :> {}
Dangling == 0 :> {} @@ 1 :> {0} @@ 2 :> {4} @@ 3 :> {}

Once  == {Wide, Diamond, Cycle, Dangling}
Twice == {Chain}
All   == Once \cup Twice

Troubles == [p \in All |-> IF p \in Once THEN 3 ELSE 1]
OneTrouble == [p \in Twice |-> 1]

=============================================================================
