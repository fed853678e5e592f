--------------------------- MODULE MCDwarfsckMain ---------------------------
(***************************************************************************)
(* DwarfsckMain for TLC: two workers, an image of a directory and three    *)
(* regular files of zero, one and two ranges, the command lines, and the   *)
(* images and streams that answer well or fail at one place.               *)
(***************************************************************************)
EXTENDS DwarfsckMain

MCWorkers == {"w1", "w2"}

MCEntries == <<"dir", "empty", "small", "large">>

MCRegular == {"empty", "small", "large"}

MCRanges == [f \in MCRegular |->
                CASE f = "empty" -> 0 [] f = "small" -> 1 [] f = "large" -> 2]

\* Every combination of the options that say what to do, on a command
\* line that parses and names an image; and every way in which a command
\* line does not get that far, with and without something to do.
MCCmdlines ==
    [parses : {TRUE}, help : {FALSE}, input : {TRUE}, no_check : BOOLEAN,
     check_integrity : BOOLEAN, print_header : BOOLEAN, json : BOOLEAN,
     export : BOOLEAN, list : BOOLEAN, verbose : BOOLEAN, quiet : BOOLEAN,
     checksum : {"absent", "unavailable", "available"}]
        \cup [parses : BOOLEAN, help : BOOLEAN, input : BOOLEAN,
              no_check : {FALSE}, check_integrity : {FALSE},
              print_header : BOOLEAN, json : {FALSE}, export : {FALSE},
              list : BOOLEAN, verbose : {FALSE}, quiet : {FALSE},
              checksum : {"absent"}]

Sound == [offsetOk |-> TRUE, mapOk |-> TRUE, header |-> TRUE,
          writeOk |-> TRUE, fsOk |-> TRUE, openOk |-> TRUE,
          closeOk |-> TRUE, exportOk |-> TRUE, checkOk |-> TRUE,
          infoOk |-> TRUE, owners |-> TRUE, linksOk |-> TRUE, errors |-> 0]

MCImages ==
    {Sound, [Sound EXCEPT !.errors = 3]}
        \cup {[Sound EXCEPT ![f] = FALSE] :
                 f \in {"offsetOk", "mapOk", "header", "writeOk", "fsOk",
                        "openOk", "closeOk", "exportOk", "checkOk",
                        "infoOk", "owners", "linksOk"}}

=============================================================================
