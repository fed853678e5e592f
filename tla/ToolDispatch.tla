---------------------------- MODULE ToolDispatch ----------------------------
(***************************************************************************)
(* The universal binary: SYS_MAIN of src/tools/src/universal.cpp chooses   *)
(* the tool to run from the name the binary was started under or from a    *)
(* --tool= argument, and safe_main of src/src/dwarfs/tool/safe_main.cpp    *)
(* turns what the tool does into the exit code of the process.             *)
(*                                                                         *)
(* A path and an argument are sequences of tokens: the name of a tool, the *)
(* separators "/", "." and "-", "exe", "--tool=", a digit "1", a letter    *)
(* "x" and a character "e'" outside ASCII.  The tools are what they return *)
(* or throw.                                                               *)
(***************************************************************************)
EXTENDS Integers, SequencesExt

CONSTANTS
    Paths,      \* the values of argv[0]
    ArgLists,   \* the values of argv[1], argv[2], ...
    Platforms,  \* "posix", "windows"
    Endings     \* how a tool ends: the code it returns, or Throws

VARIABLES
    pc,         \* "start", "tool" (a tool runs) or "exit"
    platform,   \* what the binary was built for
    argv,       \* [path, args]: what the process was started with
    tool,       \* the tool that was chosen, or None
    toolArgv,   \* the argv the tool was given
    exit        \* the exit code of the process, -1 while it runs

vars == <<pc, platform, argv, tool, toolArgv, exit>>

None == "none"

\* The ending of a tool that throws.
Throws == -1

NoArgv == [path |-> <<>>, args |-> <<>>]

\* The keys of the table functions.
Tools == {"dwarfs", "mkdwarfs", "dwarfsck", "dwarfsextract"}

-----------------------------------------------------------------------------
(***************************************************************************)
(* std::filesystem::path: filename, extension, stem.                       *)
(***************************************************************************)
Positions(s, token) == {i \in DOMAIN s : s[i] = token}

\* The part of the path behind its last separator.
Filename(path) ==
    SubSeq(path, Max(Positions(path, "/") \cup {0}) + 1, Len(path))

\* Where the extension of a file name begins: at its last dot, unless that
\* is its first character or the name is "..".  Len + 1 without one.
ExtensionAt(name) ==
    LET dots == Positions(name, ".")
    IN IF dots = {} \/ Max(dots) = 1 \/ name = <<".", ".">>
       THEN Len(name) + 1
       ELSE Max(dots)

Extension(path) ==
    LET name == Filename(path)
    IN SubSeq(name, ExtensionAt(name), Len(name))

Stem(path) ==
    LET name == Filename(path)
    IN SubSeq(name, 1, ExtensionAt(name) - 1)

\* Any extension is taken for the one of an executable.
LooksAlwaysLikeExecutable(path, os) == TRUE

LooksLikeExecutable(path, os) ==
    \/ Extension(path) = <<>>
    \/ os = "windows" /\ Extension(path) = <<".", "exe">>

-----------------------------------------------------------------------------
(***************************************************************************)
(* SYS_MAIN: the choice of the tool.                                       *)
(***************************************************************************)

\* std::isdigit of a char: undefined for a negative one.
IsDigit(token) == IF token = "e'" THEN BOOLEAN ELSE {token = "1"}

\* The dash kept with the name.
NameEndAtDash(pos) == pos

\* Where stem.substr(0, pos) ends: before the dash.
NameEnd(pos) == pos - 1

\* The stem up to its first "-", when a digit follows the "-"; the stem
\* itself otherwise.
Unversioned(stem) ==
    LET dashes == Positions(stem, "-")
        pos == Min(dashes)
    IN IF dashes # {} /\ pos < Len(stem)
       THEN {IF digit THEN SubSeq(stem, 1, NameEnd(pos)) ELSE stem :
                digit \in IsDigit(stem[pos + 1])}
       ELSE {stem}

\* The tools the name of the binary stands for: the stem, or the stem
\* without its version.
ByName(path, os) ==
    IF LooksLikeExecutable(path, os)
    THEN IF Stem(path) \in {<<t>> : t \in Tools}
         THEN {Stem(path)[1]}
         ELSE {IF Len(stem) = 1 /\ stem[1] \in Tools THEN stem[1] ELSE None :
                  stem \in Unversioned(Stem(path))}
    ELSE {None}

\* The name behind --tool= taken for a tool without looking it up.
ByOptionUnchecked(args) ==
    IF args # <<>> /\ IsPrefix(<<"--tool=">>, args[1]) /\ Len(args[1]) = 2
    THEN args[1][2]
    ELSE None

\* The tool of --tool=<name> in argv[1].
ByOption(args) ==
    IF /\ args # <<>>
       /\ IsPrefix(<<"--tool=">>, args[1])
       /\ Len(args[1]) = 2
       /\ args[1][2] \in Tools
    THEN args[1][2]
    ELSE None

\* argv_copy: argv[0] and what follows argv[1].
ArgvCopy(a) == [a EXCEPT !.args = Tail(@)]

\* What SYS_MAIN runs when the name stands for named: the tool and its argv.
Chosen(named, a) ==
    IF named # None THEN [tool |-> named, argv |-> a]
    ELSE IF ByOption(a.args) # None
         THEN [tool |-> ByOption(a.args), argv |-> ArgvCopy(a)]
         ELSE [tool |-> None, argv |-> NoArgv]

-----------------------------------------------------------------------------
Start(path, args) ==
    /\ pc = "start"
    /\ argv = NoArgv
    /\ argv' = [path |-> path, args |-> args]
    /\ UNCHANGED <<pc, platform, tool, toolArgv, exit>>

\* SYS_MAIN up to the call of the tool, or to the end of the help.
Dispatch ==
    /\ pc = "start"
    /\ argv # NoArgv
    /\ \E named \in ByName(argv.path, platform) :
          LET c == Chosen(named, argv)
          IN /\ tool' = c.tool
             /\ toolArgv' = c.argv
             /\ pc' = IF c.tool = None THEN "exit" ELSE "tool"
             /\ exit' = IF c.tool = None THEN 0 ELSE -1
    /\ UNCHANGED <<platform, argv>>

\* safe_main: the code the tool returns, 1 when it throws.
SafeCode(ending) == IF ending = Throws THEN 1 ELSE ending

ToolEnds(ending) ==
    /\ pc = "tool"
    /\ pc' = "exit"
    /\ exit' = SafeCode(ending)
    /\ UNCHANGED <<platform, argv, tool, toolArgv>>

\* The process has ended.
Exited == pc = "exit" /\ UNCHANGED vars

Init ==
    /\ pc = "start"
    /\ platform \in Platforms
    /\ argv = NoArgv
    /\ tool = None
    /\ toolArgv = NoArgv
    /\ exit = -1

Next ==
    \/ \E path \in Paths, args \in ArgLists : Start(path, args)
    \/ Dispatch
    \/ \E ending \in Endings : ToolEnds(ending)
    \/ Exited

Spec == Init /\ [][Next]_vars

-----------------------------------------------------------------------------
TypeOK ==
    /\ pc \in {"start", "tool", "exit"}
    /\ platform \in Platforms
    /\ argv.path \in Paths \cup {<<>>}
    /\ argv.args \in ArgLists \cup {<<>>}
    /\ tool \in Tools \cup {None}
    /\ toolArgv.path \in Paths \cup {<<>>}
    /\ exit \in {-1, 0, 1, 2}
    /\ (pc = "exit") = (exit # -1)

\* The names under which the binary is tool t, as a user writes them: the
\* name of the tool, the name with a version behind a dash, and either
\* with .exe on Windows.
ExactNames(t, os) ==
    {<<t>>} \cup IF os = "windows" THEN {<<t, ".", "exe">>} ELSE {}

HasVersion(name, t) == IsPrefix(<<t, "-", "1">>, name)

\* The name may pass for <tool>-<version>: a digit follows the dash, or a
\* character of which std::isdigit may say that it is one.
MayHaveVersion(name, t) ==
    \E c \in {"1", "e'"} : IsPrefix(<<t, "-", c>>, name)

\* The file name of the binary, whatever directory it is in.
Called == SelectLastInSeq(argv.path, LAMBDA token : token = "/")

BinaryName == SubSeq(argv.path, Called + 1, Len(argv.path))

\* A tool runs only when it was asked for, and with the arguments meant for
\* it.  std::isdigit(stem[pos + 1]) is undefined for a character outside
\* ASCII where char is signed; whichever way it answers, the binary runs the
\* tool named before the dash or goes on to --tool=, and no other tool.
\* Asked for by the name of the binary, exact or with a version, it gets
\* argv as it is, even when a --tool= argument names another tool;
\* asked for by --tool=, it gets argv without that argument and nothing
\* else removed or reordered.  A binary called by the exact name of a tool
\* always runs that tool.
ToolRunsAsAsked ==
    pc # "start" =>
        /\ \A t \in Tools :
              BinaryName \in ExactNames(t, platform) => tool = t
        /\ tool # None =>
              \/ /\ \/ BinaryName \in ExactNames(tool, platform)
                    \/ MayHaveVersion(BinaryName, tool)
                 /\ toolArgv = argv
              \/ /\ \A t \in Tools : BinaryName \notin ExactNames(t, platform)
                 /\ argv.args # <<>>
                 /\ argv.args[1] = <<"--tool=", tool>>
                 /\ toolArgv.path = argv.path
                 /\ toolArgv.args = SubSeq(argv.args, 2, Len(argv.args))

\* The comment in SYS_MAIN: "see if the stem has an appended version and
\* try removing that".  A binary called <tool>-<version> runs the tool,
\* with one exception: the stem is what std::filesystem leaves before the
\* last dot, and the name counts as an executable only without an
\* extension (or with .exe on Windows), so a version with a dot in it is
\* taken for an extension and mkdwarfs-0.7.2 prints the help.
VersionIsRemovedUnlessDotted ==
    pc # "start" =>
        \A t \in Tools :
            /\ HasVersion(BinaryName, t)
            /\ "e'" \notin Range(BinaryName)
            /\ \/ "." \notin Range(BinaryName)
               \/ platform = "windows" /\ IsSuffix(<<".", "exe">>, BinaryName)
            => tool = t

=============================================================================
