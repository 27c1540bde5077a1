--------------------------- MODULE MCImportAliases --------------------------
(***************************************************************************)
(* ImportAliases on the paths over a few segments.                         *)
(***************************************************************************)
EXTENDS ImportAliases

\* A directory whose last segment is the name of its package: "x/shop/shop".
Named(dir) == Append(dir, dir[Len(dir)])

Directories ==
  {d \in UNION {[1 .. n -> {"a", "b", "c"}] : n \in 1 .. 3} : \A i \in 2 .. Len(d) : d[i] # d[i - 1]}

\* Also packages that have not the name of their directory, for one because a
\* package has no "." in its name.
MCPaths == {Named(d) : d \in Directories} \cup {<<"b", "c", "d">>, <<"d", "a">>, <<"x", "y.c", "y_c">>}

MCPackagePath == <<"a", "b", "b">>

MCWords == [s \in {"a", "b", "c", "d", "x", "y.c", "y_c"} |-> IF s \in {"y.c", "y_c"} THEN <<"y", "c">> ELSE <<s>>]
=============================================================================
