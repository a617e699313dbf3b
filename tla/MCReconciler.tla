---------------------------- MODULE MCReconciler ----------------------------
(* Instances of Reconciler for TLC: two fields, three values. *)
EXTENDS Reconciler, FiniteSets

CONSTANTS v1, v2, dflt

MCVals == {v1, v2}

\* Every value carries a version of its own; dflt is what the default tag gives.
MCVersion == [v \in {v1, v2, dflt} |-> IF v = dflt THEN DefaultVersion ELSE v]

MCDefault == [f \in Fields |-> dflt]

\* The validator rejects one combination of the two fields.
MCAcceptable == {c \in Configs : ~(c[1] = v2 /\ c[2] = v2)}

\* A derive hook that looks at one field only.
MCDerived(c) == c[1] = v1

\* Field 1 masks errors with its default, field 2 rejects every update while it
\* fails.
SingleLens == <<1, 1>>
MixedPolicy == <<"default", "fail">>
=============================================================================
