---------------------------- MODULE MCReflection ----------------------------
(***************************************************************************)
(* Reflection on every hierarchy of a few classes.                         *)
(***************************************************************************)
EXTENDS Reflection

\* Every class declares a feature, or every class but one at the top.
MCOwning == {Classes, Classes \ {1}, Classes \ {2}}
=============================================================================
