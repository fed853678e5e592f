--------------------------- MODULE MCToolDispatch ---------------------------
(***************************************************************************)
(* ToolDispatch for TLC: the binary under the name of a tool, with an      *)
(* extension, a version, a directory, a hidden name and other names, with  *)
(* and without a --tool= argument in the first and in the second place.    *)
(***************************************************************************)
EXTENDS ToolDispatch

MCPlatforms == {"posix", "windows"}

MCEndings == {0, 1, 2, Throws}

\* The names of files; t is the tool the name is about.
Names(t) ==
    {<<t>>, <<t, ".", "exe">>, <<t, ".", "x">>, <<t, ".">>, <<".", t>>,
     <<t, "x">>, <<t, "-">>, <<t, "-", "x">>, <<t, "-", "e'">>,
     <<t, "-", "1">>, <<t, "-", "1", "-", "x">>, <<t, "-", "1", ".", "1">>,
     <<t, "-", "1", ".", "1", ".", "exe">>, <<t, "-", "x", "-", "1">>,
     <<"x">>, <<"x", "-", "1">>, <<"-", "1">>, <<".", ".">>}

MCPaths ==
    UNION {Names(t) : t \in {"dwarfsck", "mkdwarfs"}}
        \cup {<<"x", ".", "1", "/", "dwarfsck">>,
              <<"dwarfsck", "/", "x">>,
              <<"dwarfsck", "-", "1", "/", "x", ".", "x">>}

Other == <<"x">>

MCArgLists ==
    {<<>>, <<Other>>, <<<<"--tool=">>>>, <<<<"--tool=", "x">>>>,
     <<<<"--tool=", "dwarfsextract", "x">>>>,
     <<<<"x", "--tool=", "dwarfsextract">>>>,
     <<<<"--tool=", "dwarfsextract">>>>,
     <<<<"--tool=", "dwarfsextract">>, Other, <<"--tool=", "dwarfs">>>>,
     <<Other, <<"--tool=", "dwarfsextract">>>>}

=============================================================================
