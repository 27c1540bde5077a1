----------------------------- MODULE MCTSModule ------------------------------
(***************************************************************************)
(* TSImports, with TSModule and ClassOrder, on every hierarchy of three    *)
(* classes of the package, between which the model has a data type, and of *)
(* one class of another package.                                           *)
(***************************************************************************)
EXTENDS TSImports

MCClassifiers == <<"A", "DataType", "B", "C">>

MCEnums == <<"Kind">>

\* None, or all of them.
MCExtensions == {{}, {"A", "B", "C", "Other", Factory}}
=============================================================================
