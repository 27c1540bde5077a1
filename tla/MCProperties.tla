---------------------------- MODULE MCProperties ----------------------------
(***************************************************************************)
(* Properties on a few keys: one that the engine sets, one of the run with *)
(* a default, one of the package and one that nobody declared.             *)
(***************************************************************************)
EXTENDS Properties

CONSTANT MCKeys

ByURI(spec) == [by |-> "uri", key |-> "http://shop", spec |-> spec]

ByName(spec) == [by |-> "name", key |-> "shop", spec |-> spec]

MCEcore == [by |-> "uri", key |-> "http://ecore", spec |-> "ecore"]

MCEntries == {<<>>, <<ByURI("a")>>, <<ByName("b")>>, <<ByURI("a"), ByURI("c")>>}

MCTexts ==
  MCEntries \cup
    {<<ByName("f")>>, <<ByURI("g"), MCEcore>>, <<ByURI("annotated")>>, <<ByURI("default")>>,
     <<ByURI("engine")>>}

MCTokens == UNION {{t[i] : i \in DOMAIN t} : t \in MCTexts}

MCFiles ==
  {[k \in Keys |-> NotGiven], [k \in Keys |-> <<ByName("f")>>], [k \in Keys |-> <<>>],
   [k \in Keys |-> IF k = "packages" THEN <<ByURI("g"), MCEcore>> ELSE NotGiven]}

MCAnnotations ==
  {[k \in Keys |-> NotGiven], [k \in Keys |-> <<ByURI("annotated")>>],
   [k \in Keys |-> IF k = "packages" THEN <<>> ELSE NotGiven]}

MCDeclared == Keys \ {"pakages"}

MCPackageScoped == Keys \cap {"packages"}

MCDefault == [k \in DeclaredKeys |-> IF k = "debug" THEN <<ByURI("default")>> ELSE <<>>]

MCEngineValues == [k \in Keys \cap {"nsURI"} |-> <<ByURI("engine")>>]

MCDefaultSpecs == <<MCEcore>>

MCPackages == {[uri |-> "http://shop", name |-> "shop"], [uri |-> "http://ecore", name |-> "ecore"]}
=============================================================================
