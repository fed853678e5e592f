--------------------------- MODULE MCRuleFilter ---------------------------
(***************************************************************************)
(* RuleFilter for TLC.  One set of constants loads rule files that merge   *)
(* one another; the other compiles every short rule over a small alphabet. *)
(***************************************************************************)
EXTENDS RuleFilter

\* ---- rule files -------------------------------------------------------

\* f merges g twice and h once, g merges h: no file merges itself.
\* c merges itself, d and e merge each other.  x has a line that is no
\* rule after one that is, y a merge directive without a file, z a merge
\* of a file that does not exist.
MCFiles ==
    (<<"f">> :> << <<".", " ", "g">>, <<"+", " ", "a">>, <<".", "\t", "g">>,
                   <<".", "h">> >>)
    @@ (<<"g">> :> << <<"#", "c">>, <<"-", "/", "b">>, <<" ", "\t">>,
                      <<".", " ", "h">> >>)
    @@ (<<"h">> :> << <<"-", "a", "/", "b">>, <<>> >>)
    @@ (<<"c">> :> << <<"+", "b">>, <<".", " ", "c">> >>)
    @@ (<<"d">> :> << <<".", " ", "e">>, <<"-", "b">> >>)
    @@ (<<"e">> :> << <<"+", "/", "a">>, <<".", " ", "d">> >>)
    @@ (<<"x">> :> << <<"-", "*">>, <<" ", "+", "a">>, <<"+", "a">> >>)
    @@ (<<"y">> :> << <<".", " ">> >>)
    @@ (<<"z">> :> << <<"+", "a">>, <<".", " ", "n">> >>)
    @@ (<<"u">> :> << <<"-", "a", "\\">>, <<"+", "a">> >>)

MCRules ==
    {<<".", " ", n>> : n \in {"f", "c", "d", "x", "y", "z", "u"}}
        \cup {<<"-", " ", "b">>, <<"-", "a", "/", "b">>, <<"+", "*", "*", "*">>,
              <<".">>}

MCStreams == { << <<".", " ", "f">>, <<"#">>, <<"-", "/", "a">> >> }

MCRoots == {<<"/">>, <<"/", "a">>, <<"/", "a", "/">>}

MCPaths == {<<"/", "a">>, <<"/", "b">>, <<"/", "a", "/", "b">>, <<"/", "a", "/">>}

\* ---- every short rule -------------------------------------------------

MCPatternChars == {"/", "*", "?", "\\", ".", "a"}

\* A type, a space or none, and a pattern of up to four characters.
MCAllRules ==
    {<<t>> \o sp \o pat : t \in {"+", "-"}, sp \in {<<>>, <<" ">>},
                          pat \in BoundedSeq(MCPatternChars, 4)}
        \cup {<<>>, <<"a">>, <<"+", "*", "*", "*", "*", "a">>}

\* Every path of up to five characters that starts at the root.
MCAllPaths == {<<"/">> \o p : p \in BoundedSeq({"/", ".", "a"}, 4)}

\* Nothing to merge and no stream: the rules come through add_rule alone.
MCNoFiles == [n \in {} |-> <<>>]

MCNoStreams == {}

MCOneRoot == {<<"/">>}
=============================================================================
