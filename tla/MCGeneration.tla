---------------------------- MODULE MCGeneration ----------------------------
(***************************************************************************)
(* Generation on a small language: an entry point that lists a file with a *)
(* user code region, and one that lists its test in a folder of its own.   *)
(* The third revision of the model renames the region.                     *)
(***************************************************************************)
EXTENDS Generation, TLC

CONSTANT TestFolder \* the folder of the test: 1, with the model, or 2

Account == [dir |-> 1, name |-> "account.go"]
AccountTest == [dir |-> TestFolder, name |-> "account_test.go"]

MCFiles == {Account, AccountTest}

MCEntryPoints == {"generateModel", "generateTests"}

MCDefaults == <<"generateModel", "generateTests">>

MCLists ==
  [r \in 1 .. MaxRevision |->
     [e \in EntryPoints |-> IF e = "generateModel" THEN <<Account>> ELSE <<AccountTest>>]]

MCProtected == {Account}

MCDeclares ==
  [r \in 1 .. MaxRevision |->
     [f \in MCFiles |-> IF f # Account THEN NoId ELSE IF r < 3 THEN "Account" ELSE "IAccount"]]

MCCode == {"empty", "untidy", "tidy", "broken"}

MCNeat == [c \in Code |-> IF c = "untidy" THEN "tidy" ELSE c]

Request(names, diff, dryRun, manifest) ==
  [names |-> names, diff |-> diff, dryRun |-> dryRun, manifest |-> manifest]

\* Command lines: a generation, its --diff and its --dry-run, the tests alone
\* with --manifest=false, a template no language has.
MCRequests ==
  {Request(<<>>, FALSE, FALSE, TRUE), Request(<<>>, TRUE, FALSE, TRUE), Request(<<>>, TRUE, TRUE, TRUE),
   Request(<<>>, FALSE, TRUE, TRUE),
   Request(<<"generateTests">>, FALSE, FALSE, FALSE),
   Request(<<"generateModels">>, FALSE, FALSE, TRUE)}

\* Command lines that write: both entry points, the model, the tests.
MCWrites ==
  {Request(<<>>, FALSE, FALSE, TRUE), Request(<<"generateModel">>, FALSE, FALSE, TRUE),
   Request(<<"generateTests">>, FALSE, FALSE, TRUE)}

\* No process differs from another one but by its name.
Symmetric == Permutations(Procs)

\* A file list fails in the second revision, a template in the third.
MCListFails == {<<2, "generateTests">>}

MCRenderFails == {<<3, AccountTest>>}
=============================================================================
