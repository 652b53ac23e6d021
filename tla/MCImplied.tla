----------------------------- MODULE MCImplied -----------------------------
(***************************************************************************)
(* Instances of Implied for TLC.                                           *)
(***************************************************************************)
EXTENDS Implied

TwoVars == <<"x", "y">>
ThreeValues == 0..2
Sets == {{1}, {0, 2}}
Equalities == {<<"==", 1>>, <<"<", 1>>}
LowHigh == {{0, 1}}
InTimeOrLate == {<<Never, 2>>, <<0, 1>>}

============================================================================
