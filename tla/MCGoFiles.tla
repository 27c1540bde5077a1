------------------------------ MODULE MCGoFiles ------------------------------
(* GoFiles on a package "shop" with a sub-package "sub" and the commands the *)
(* documentation gives: one package for all, or the interfaces once and two  *)
(* implementations, shared or not; beside it, the properties that a command  *)
(* line gives and the scope of one of the files.                             *)
EXTENDS GoFiles, MCProperties, MCImportAliases

MCOwner == [c \in Classes \cup Enums |-> IF c \in {"Part"} THEN "sub" ELSE "shop"]

Path(dir, name) == [dir |-> dir, name |-> name]

\* The module is "m"; the import paths are sequences of characters.
Module == <<"m">>
AtModule == Path(<<"m">>, "shop")
Model == Path(<<"m", "/", "i">>, "shop")
Store == Path(<<"m", "/", "i", "/", "s">>, "store")
Memory == Path(<<"m", "/", "y">>, "memory")
Mocks == Path(<<"m", "/", "k">>, "mocks")

\* The sub-package shares the paths of the root.
Line(instance, module, spec) ==
    [packageInstance |-> instance, module |-> module, specs |-> [p \in Packages |-> spec]]

\* No property at all, one path, one path and mocks, several implementations.
MCProjects ==
    {{Line(i, Module, <<AtModule>>)} : i \in {"", "interfaces"}}
    \cup {{Line("", Module, <<Model, Model, Mocks>>)}, {Line("", NoModule, <<Model>>)}}
    \cup {{Line(i, Module, <<interface, Store, Mocks>>), Line(i, Module, <<interface, Memory>>)} :
              i \in {"", "interfaces"}, interface \in {AtModule, Model}}

-----------------------------------------------------------------------------
(* The three follow one another in a generation and each one begins with no  *)
(* more of the one before than what its constants hold. So a behaviour is of *)
(* one of them, and the others stay as they begin.                           *)

VARIABLE part

PartInit ==
    /\ part \in {"options", "files", "scope"}
    /\ Init /\ (part # "files" => project = {Line("", Module, <<AtModule>>)})
    /\ OptionsInit /\ (part # "options" => annotation = Nothing)
    /\ ScopeInit

PartNext ==
    /\ UNCHANGED part
    /\ \/ part = "options" /\ OptionsNext /\ UNCHANGED <<vars, scopeVars>>
       \/ part = "files" /\ Next /\ UNCHANGED <<optionVars, scopeVars>>
       \/ part = "scope" /\ ScopeNext /\ UNCHANGED <<vars, optionVars>>

PartSpec == PartInit /\ [][PartNext]_<<part, vars, optionVars, scopeVars>>
=============================================================================
