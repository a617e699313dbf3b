----------------------------- MODULE MCPipeline -----------------------------
(* Instances of Pipeline for TLC: one field, two values. *)
EXTENDS Pipeline, FiniteSets

CONSTANTS v1, v2, dflt

MCVals == {v1, v2}
MCVersion == [v \in {v1, v2, dflt} |-> IF v = dflt THEN DefaultVersion ELSE v]
MCDefault == [f \in Fields |-> dflt]
AnyConfig == Configs
NoDerived(c) == FALSE

\* One ref.
OneLen == <<1>>
OneFail == <<"fail">>
OneRef == {<<1, 1>>}

\* One chain of two, whose first position may fail.
TwoLen == <<2>>
FirstRef == {<<1, 1>>}
=============================================================================
