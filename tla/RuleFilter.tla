----------------------------- MODULE RuleFilter -----------------------------
(***************************************************************************)
(* The rule based entry filter of the writer,                              *)
(* rule_based_entry_filter_ of src/src/writer/rule_based_entry_filter.cpp. *)
(*                                                                         *)
(* A rule is "+pattern" or "-pattern"; compile_filter_rule turns the glob  *)
(* pattern into a regular expression.  A rule that starts with "." is a    *)
(* merge directive: add_rule opens the file it names and add_rules reads   *)
(* it line by line, which may merge further files.  filter() answers for   *)
(* an entry with the type of the first rule that matches its path.         *)
(*                                                                         *)
(* Rules, lines and paths are sequences of one-character strings.  A       *)
(* regular expression is a sequence of atoms, each standing for what       *)
(* std::regex makes of the text compile_filter_rule appends.  The          *)
(* recursion of add_rule and add_rules is the variable stack: one frame    *)
(* per stream that is being read.                                          *)
(***************************************************************************)
EXTENDS Integers, SequencesExt

CONSTANTS
    Rules,      \* the rules a caller may hand to add_rule
    Streams,    \* the rule streams a caller may hand to add_rules
    Files,      \* what open_input finds: a function from file names to lines
    Roots,      \* the paths a caller may hand to set_root_path
    Paths,      \* the paths, below the root, filter() is asked about
    MaxCalls,   \* bound: the number of public calls that add rules
    MaxDepth    \* bound: the deepest nesting of merged files that is followed

VARIABLES
    filter_,     \* the compiled rules, in the order they were added
    root_path_,  \* the root path, without its final slash
    stack,       \* the streams add_rules is reading, the innermost last
    seen_files,  \* the files being merged, of the public call in progress
    outcome,     \* how the last public call ended, or "loading"
    call         \* the last public call: see Called

vars == <<filter_, root_path_, stack, seen_files, outcome, call>>

\* The terminator c_str() puts after the last character of a rule.
NUL == "NUL"

Blank == {" ", "\t"}

\* The characters compile_filter_rule escapes for std::regex.
Special == {".", "+", "^", "$", "(", ")", "{", "}", "|"}

-----------------------------------------------------------------------------
(***************************************************************************)
(* Regular expressions.  An atom matches characters of the set "of" (a     *)
(* character, NOSLASH for [^/], ANY for .): at least min of them, and more *)
(* than one if many.                                                       *)
(***************************************************************************)
Atom(of, min, many) == [of |-> of, min |-> min, many |-> many]

Lit(c) == Atom(c, 1, FALSE)

Accepts(atom, c) ==
    CASE atom.of = "ANY" -> TRUE
      [] atom.of = "NOSLASH" -> c # "/"
      [] OTHER -> c = atom.of

\* std::regex_match: the expression matches the whole of s.
RECURSIVE RegexMatch(_, _)
RegexMatch(re, s) ==
    IF re = <<>> THEN s = <<>>
    ELSE LET atom == Head(re)
         IN \/ atom.min = 0 /\ RegexMatch(Tail(re), s)
            \/ /\ s # <<>>
               /\ Accepts(atom, Head(s))
               /\ \/ RegexMatch(Tail(re), Tail(s))
                  \/ /\ atom.many
                     /\ RegexMatch(<<Atom(atom.of, 0, TRUE)>> \o Tail(re),
                                   Tail(s))

-----------------------------------------------------------------------------
(***************************************************************************)
(* compile_filter_rule.  p is an index into rule.c_str(): Len(rule) + 1 is *)
(* the terminator, and what lies behind it is not the rule's.              *)
(***************************************************************************)
At(rule, p) == IF p <= Len(rule) THEN rule[p] ELSE NUL

\* p after "while (*++p == ' ')", from the type character.
PatternStart(rule) ==
    Min({p \in 2..Len(rule) + 1 : At(rule, p) # " "})

\* p after "while (*++p == '*')", from the first star of a run.
StarsEnd(rule, p) ==
    Min({q \in p + 1..Len(rule) + 1 : At(rule, q) # "*"})

\* re.ends_with('/'): the text of every other atom ends in "]", "*" or "+".
EndsWithSlash(re) == re # <<>> /\ Last(re) = Lit("/")

\* A star for a whole path component that may match nothing.
StarAlwaysOptional(nstar, re, next) ==
    IF nstar = 2 THEN Atom("ANY", 0, TRUE) ELSE Atom("NOSLASH", 0, TRUE)

\* What a run of one or two stars becomes: a single star that is a whole
\* path component matches at least one character.
Star(nstar, re, next) ==
    CASE nstar = 2 -> Atom("ANY", 0, TRUE)
      [] nstar = 1 /\ EndsWithSlash(re) /\ next \in {"/", NUL} ->
            Atom("NOSLASH", 1, TRUE)
      [] OTHER -> Atom("NOSLASH", 0, TRUE)

\* A special character behind a backslash matches itself.
Quoted(c) == Lit(c)

\* An escape that stops at the character it quotes.
AfterEscapeOnChar(p) == p + 1

\* p after "re += *p++; if (p) re += *p++".
AfterEscape(p) == p + 2

\* The loop over the pattern, from p with re built so far.  An escape
\* copies the backslash and the character behind it without looking at
\* it: behind a final backslash that is the terminator, and the loop goes
\* on behind the rule.
RECURSIVE Translate(_, _, _)
Translate(rule, p, re) ==
    IF p > Len(rule) + 1 THEN [status |-> "undefined", re |-> re]
    ELSE LET c == At(rule, p)
             q == StarsEnd(rule, p)
         IN CASE c = NUL -> [status |-> "ok", re |-> re]
              [] c = "\\" ->
                    Translate(rule, AfterEscape(p),
                              Append(re, Lit(At(rule, p + 1))))
              [] c = "*" /\ q - p > 2 -> [status |-> "throw", re |-> re]
              [] c = "*" /\ q - p <= 2 ->
                    Translate(rule, q,
                              Append(re, Star(q - p, re, At(rule, q))))
              [] c = "?" ->
                    Translate(rule, p + 1, Append(re, Atom("NOSLASH", 1, FALSE)))
              [] c \in Special -> Translate(rule, p + 1, Append(re, Quoted(c)))
              [] OTHER -> Translate(rule, p + 1, Append(re, Lit(c)))

\* A pattern that does not start at the root matches at any depth.
Floating(rule) == At(rule, PatternStart(rule)) \notin {NUL, "/"}

CompileFilterRule(rule) ==
    LET type == CASE At(rule, 1) = "+" -> "include"
                  [] At(rule, 1) = "-" -> "exclude"
                  [] OTHER -> "none"
        floating == type # "none" /\ Floating(rule)
        body == IF type = "none" THEN [status |-> "throw", re |-> <<>>]
                ELSE Translate(rule, PatternStart(rule),
                               IF floating
                               THEN <<Atom("ANY", 0, TRUE), Lit("/")>>
                               ELSE <<>>)
    IN [status |-> body.status, type |-> type, floating |-> floating,
        re |-> body.re, rule |-> rule]

-----------------------------------------------------------------------------
(***************************************************************************)
(* filter().                                                               *)
(***************************************************************************)

\* relpath left as the whole path.
RelpathKeepsRoot(root, path) == path

\* relpath: the path without as many characters as the root path has.
Relpath(root, path) ==
    IF Len(path) >= Len(root) THEN SubSeq(path, Len(root) + 1, Len(path))
    ELSE path

Filter(rules, root, path) ==
    LET Hit(r) == RegexMatch(r.re, IF r.floating THEN path
                                   ELSE Relpath(root, path))
        first == SelectInSeq(rules, Hit)
    IN IF first # 0 /\ rules[first].type = "exclude" THEN "remove" ELSE "keep"

-----------------------------------------------------------------------------
(***************************************************************************)
(* debug_filter_output of src/src/writer/filter_debug.cpp: the line of an  *)
(* entry in the list of --debug-filter: "none", or the path and its sign.  *)
(***************************************************************************)
\* The two branches of the conditional, each for the other verdict.
HiddenUnlessNamed(exclude, mode) ==
    IF exclude THEN mode \in {"excluded", "excluded-files"}
    ELSE mode \in {"included", "included-files"}

\* The entry is not of the kind the mode lists.
Hidden(exclude, mode) ==
    IF exclude THEN mode \in {"included", "included-files"}
    ELSE mode \in {"excluded", "excluded-files"}

DebugFilterOutput(exclude, directory, mode) ==
    CASE Hidden(exclude, mode) -> "none"
      [] directory /\ mode \in {"files", "included-files", "excluded-files"} ->
            "none"
      [] mode \in {"files", "all"} -> IF exclude THEN "-" ELSE "+"
      [] OTHER -> "path"

-----------------------------------------------------------------------------
(***************************************************************************)
(* add_rule and add_rules.                                                 *)
(***************************************************************************)
NoFile == <<>>

IsMerge(rule) == rule # <<>> /\ Head(rule) = "."

\* The file a merge directive names: what follows the blanks after the
\* dot, or nothing.
MergeFile(rule) ==
    LET file_pos == SelectInSubSeq(rule, 2, Len(rule), LAMBDA c : c \notin Blank)
    IN IF file_pos = 0 THEN NoFile ELSE SubSeq(rule, file_pos, Len(rule))

\* Only empty lines are skipped.
SkippedIfEmpty(line) == line = <<>>

\* The lines add_rules passes over: comments and blank lines.
Skipped(line) ==
    \/ line # <<>> /\ Head(line) = "#"
    \/ \A i \in DOMAIN line : line[i] \in Blank

\* No file is ever taken for one that is being merged.
NeverSeen(seen, file) == FALSE

\* seen_files.emplace(file) finds the file there.
Seen(seen, file) == file \in seen

\* The file stays in seen_files after it was merged.
KeepFile(seen, file) == seen

\* seen_files.erase(file), when add_rules has returned.
EraseFile(seen, file) == seen \ {file}

\* A stream opened at a position that is no line of it.
FrameBeforeStart(file, lines) == [file |-> file, lines |-> lines, pos |-> 0]

Frame(file, lines) == [file |-> file, lines |-> lines, pos |-> 1]

\* seen_files kept by the filter, and so across an exception.
ThrowKeepsSeen(what) ==
    /\ stack' = <<>>
    /\ seen_files' = seen_files
    /\ outcome' = what

\* An exception leaves add_rule, every add_rules below it, and the public
\* call with its seen_files.  The rules added before it stay.
Throw(what) ==
    /\ stack' = <<>>
    /\ seen_files' = {}
    /\ outcome' = what

Returned(st) == IF st = <<>> THEN "ok" ELSE "loading"

\* add_rule(seen_files, rule), called with the streams st still open.
AddRuleTo(st, seen, rule) ==
    LET file == MergeFile(rule)
        compiled == CompileFilterRule(rule)
    IN \/ /\ IsMerge(rule)
          /\ UNCHANGED filter_
          /\ \/ file = NoFile /\ Throw("no file")
             \/ file # NoFile /\ Seen(seen, file) /\ Throw("recursion")
             \/ /\ file # NoFile /\ ~Seen(seen, file)
                /\ file \notin DOMAIN Files
                /\ Throw("open")
             \/ /\ file # NoFile /\ ~Seen(seen, file)
                /\ file \in DOMAIN Files
                /\ Len(st) < MaxDepth
                /\ stack' = Append(st, Frame(file, Files[file]))
                /\ seen_files' = seen \cup {file}
                /\ outcome' = "loading"
       \/ /\ ~IsMerge(rule)
          /\ \/ /\ compiled.status = "ok"
                /\ filter_' = Append(filter_, compiled)
                /\ stack' = st
                /\ seen_files' = seen
                /\ outcome' = Returned(st)
             \/ /\ compiled.status = "throw"
                /\ UNCHANGED filter_
                /\ Throw("bad rule")
             \/ /\ compiled.status = "undefined"
                /\ filter_' \in {filter_, Append(filter_, compiled)}
                /\ Throw("undefined")

Idle == stack = <<>> /\ call.count < MaxCalls

\* What is kept of a public call: whether it was add_rule, its lines, the
\* length of filter_ when it began, and how many calls were made.
Called(direct, lines) ==
    [direct |-> direct, lines |-> lines, base |-> Len(filter_),
     count |-> call.count + 1]

SetRootPath(path) ==
    /\ stack = <<>>
    /\ root_path_' = IF path # <<>> /\ Last(path) = "/" THEN Front(path)
                     ELSE path
    /\ UNCHANGED <<filter_, stack, seen_files, outcome, call>>

\* The public add_rule.
AddRule(rule) ==
    /\ Idle
    /\ call' = Called(TRUE, <<rule>>)
    /\ AddRuleTo(<<>>, {}, rule)
    /\ UNCHANGED root_path_

\* The public add_rules: the stream is read by the steps ReadLine and
\* EndOfStream.
AddRules(is) ==
    /\ Idle
    /\ call' = Called(FALSE, is)
    /\ stack' = <<Frame(NoFile, is)>>
    /\ seen_files' = {}
    /\ outcome' = "loading"
    /\ UNCHANGED <<filter_, root_path_>>

\* One turn of the loop of add_rules over the innermost stream.
ReadLine ==
    /\ stack # <<>>
    /\ Last(stack).pos <= Len(Last(stack).lines)
    /\ LET top == Last(stack)
           line == top.lines[top.pos]
           st == Append(Front(stack), [top EXCEPT !.pos = @ + 1])
       IN \/ /\ Skipped(line)
             /\ stack' = st
             /\ UNCHANGED <<filter_, seen_files, outcome>>
          \/ /\ ~Skipped(line)
             /\ AddRuleTo(st, seen_files, line)
    /\ UNCHANGED <<root_path_, call>>

\* getline fails: add_rules returns, to add_rule if a file was merged.
EndOfStream ==
    /\ stack # <<>>
    /\ Last(stack).pos > Len(Last(stack).lines)
    /\ stack' = Front(stack)
    /\ seen_files' = EraseFile(seen_files, Last(stack).file)
    /\ outcome' = Returned(Front(stack))
    /\ UNCHANGED <<filter_, root_path_, call>>

-----------------------------------------------------------------------------
Init ==
    /\ filter_ = <<>>
    /\ root_path_ = <<>>
    /\ stack = <<>>
    /\ seen_files = {}
    /\ outcome = "ok"
    /\ call = [direct |-> FALSE, lines |-> <<>>, base |-> 0, count |-> 0]

Load == ReadLine \/ EndOfStream

Next ==
    \/ \E path \in Roots : SetRootPath(path)
    \/ \E rule \in Rules : AddRule(rule)
    \/ \E is \in Streams : AddRules(is)
    \/ Load

\* add_rules is a loop of one thread: once called it runs to its end.
Fairness == WF_vars(Load)

Spec == Init /\ [][Next]_vars /\ Fairness

-----------------------------------------------------------------------------
Outcomes ==
    {"ok", "loading", "no file", "recursion", "open", "bad rule", "undefined"}

TypeOK ==
    /\ \A i \in DOMAIN filter_ :
          /\ filter_[i].type \in {"include", "exclude"}
          /\ filter_[i].floating \in BOOLEAN
          /\ filter_[i].status \in {"ok", "undefined"}
    /\ root_path_ \in Roots \cup {Front(r) : r \in Roots \ {<<>>}} \cup {<<>>}
    /\ \A i \in DOMAIN stack :
          /\ stack[i].pos \in 1..Len(stack[i].lines) + 1
          /\ i > 1 => stack[i].file \in DOMAIN Files
    /\ seen_files \subseteq DOMAIN Files
    /\ outcome \in Outcomes
    /\ call.base \in 0..Len(filter_)
    /\ call.count \in 0..MaxCalls

(***************************************************************************)
(* What a rule means, read off the pattern itself: "*" stands for          *)
(* characters other than "/", and for at least one where it is a whole     *)
(* path component; "**" for any characters; "?" for one character other    *)
(* than "/"; a character behind a backslash, and any other character, for  *)
(* itself.  A pattern that does not start with "/" matches below any       *)
(* directory.  atComponent: the pattern so far ended with a "/".           *)
(***************************************************************************)
RECURSIVE Glob(_, _, _)
Glob(pat, s, atComponent) ==
    IF pat = <<>> THEN s = <<>>
    ELSE LET c == Head(pat)
             rest == Tail(pat)
             From(k) == SubSeq(s, k + 1, Len(s))
             InComponent(k) == \A i \in 1..k : s[i] # "/"
             whole == atComponent /\ (rest = <<>> \/ Head(rest) = "/")
         IN CASE c = "\\" /\ rest # <<>> ->
                    /\ s # <<>> /\ Head(s) = Head(rest)
                    /\ Glob(Tail(rest), Tail(s), Head(rest) = "/")
              [] c = "*" /\ rest # <<>> /\ Head(rest) = "*" ->
                    \E k \in 0..Len(s) : Glob(Tail(rest), From(k), FALSE)
              [] c = "*" /\ (rest = <<>> \/ Head(rest) # "*") ->
                    \E k \in (IF whole THEN 1 ELSE 0)..Len(s) :
                        InComponent(k) /\ Glob(rest, From(k), FALSE)
              [] c = "?" ->
                    s # <<>> /\ Head(s) # "/" /\ Glob(rest, Tail(s), FALSE)
              [] OTHER ->
                    s # <<>> /\ Head(s) = c /\ Glob(rest, Tail(s), c = "/")

\* The pattern of a rule: what follows the type and the spaces behind it.
Pattern(rule) ==
    LET start == SelectInSubSeq(rule, 2, Len(rule), LAMBDA c : c # " ")
    IN IF start = 0 THEN <<>> ELSE SubSeq(rule, start, Len(rule))

GlobMatches(rule, path) ==
    LET pat == Pattern(rule)
    IN IF pat = <<>> \/ Head(pat) = "/" THEN Glob(pat, path, FALSE)
       ELSE \E k \in DOMAIN path :
               path[k] = "/" /\ Glob(pat, SubSeq(path, k + 1, Len(path)), TRUE)

\* compile_filter_rule keeps the meaning of the rule: the expression it
\* builds matches exactly the paths the glob pattern stands for, with
\* every combination of stars, escapes, special characters and anchoring.
CompiledRulesMeanTheirGlobs ==
    \A i \in DOMAIN filter_ :
        filter_[i].status = "ok" =>
            \A path \in Paths :
                RegexMatch(filter_[i].re, path) = GlobMatches(filter_[i].rule, path)

\* seen_files holds exactly the files whose streams add_rules is reading:
\* a file is removed when its stream ends, and nothing is left of a call
\* that an exception ended.
SeenFilesAreOpenFiles ==
    seen_files = {stack[i].file : i \in DOMAIN stack} \ {NoFile}

(***************************************************************************)
(* What a public call should add: the rules of its lines in order, every   *)
(* merge directive replaced by the rules of the file it names, up to the   *)
(* first line that is in error.  A file may be merged any number of times  *)
(* as long as it is not merged from within itself.                         *)
(***************************************************************************)
RECURSIVE InlineRule(_, _), InlineLines(_, _)
InlineRule(rule, within) ==
    LET file == MergeFile(rule)
        Ends(how) == [rules |-> <<>>, end |-> how]
    IN CASE ~IsMerge(rule) /\ CompileFilterRule(rule).status = "ok" ->
                [rules |-> <<rule>>, end |-> "ok"]
         [] ~IsMerge(rule) /\ CompileFilterRule(rule).status # "ok" ->
                Ends("bad rule")
         [] IsMerge(rule) /\ file = NoFile -> Ends("no file")
         [] IsMerge(rule) /\ file # NoFile /\ file \in within ->
                Ends("recursion")
         [] IsMerge(rule) /\ file # NoFile /\ file \notin within
                          /\ file \notin DOMAIN Files -> Ends("open")
         [] OTHER -> InlineLines(Files[file], within \cup {file})

InlineLines(lines, within) ==
    IF lines = <<>> THEN [rules |-> <<>>, end |-> "ok"]
    ELSE LET line == Head(lines)
             isRule == line # <<>> /\ Head(line) # "#"
                          /\ \E i \in DOMAIN line : line[i] \notin Blank
             first == IF isRule THEN InlineRule(line, within)
                      ELSE [rules |-> <<>>, end |-> "ok"]
             others == InlineLines(Tail(lines), within)
         IN IF first.end # "ok" THEN first
            ELSE [rules |-> first.rules \o others.rules, end |-> others.end]

\* The loop of add_rules, stream within stream, adds what the call's lines
\* stand for: while it runs filter_ has grown by a prefix of those rules,
\* and when it ends, with or without an exception, by all the rules before
\* the first line in error, and it ends the way that line calls for.
LoadInlinesDepthFirst ==
    LET meant == IF call.direct THEN InlineRule(call.lines[1], {})
                 ELSE InlineLines(call.lines, {})
        added == [i \in 1..Len(filter_) - call.base |->
                     filter_[call.base + i].rule]
    IN outcome # "undefined" =>
          IF outcome = "loading" THEN IsPrefix(added, meant.rules)
          ELSE added = meant.rules /\ outcome = meant.end

\* add_rules returns, whatever the files merge: a file that merges itself,
\* directly or through others, ends the call with an exception instead of
\* opening streams without end.
LoadTerminates == (stack # <<>>) ~> (stack = <<>>)

\* A rule that names one path component (no "/" and no "**" in a floating
\* pattern), and every anchored rule, decides by the entry's path below
\* the root alone, whatever the root path is.  Of the other floating rules
\* this does not hold: filter() matches them against the whole path, the
\* root path included, so that "- a/b" removes the entry /b of a tree whose
\* root directory is called a.
SeesBelowRootOnly(r) ==
    /\ r.status = "ok"
    /\ r.floating =>
          \A i \in DOMAIN r.rule :
              /\ r.rule[i] # "/"
              /\ r.rule[i] = "*" /\ i < Len(r.rule) => r.rule[i + 1] # "*"

RootInvisibleToComponentRules ==
    LET rules == SelectSeq(filter_, SeesBelowRootOnly)
    IN \A e \in Paths :
          Filter(rules, root_path_, root_path_ \o e) = Filter(rules, <<>>, e)

\* --debug-filter=<mode> lists what the mode names of what filter() says
\* of the entries under the rules loaded so far: "included" and "excluded"
\* divide the entries between them, the -files modes are the same lists
\* without the directories, and "all" and "files" hold every entry, or
\* every file, with the sign of its verdict.
DebugListsDivideTheEntries ==
    \A e \in Paths :
        LET rules == SelectSeq(filter_, LAMBDA r : r.status = "ok")
            exclude == Filter(rules, root_path_, root_path_ \o e) = "remove"
            directory == Last(e) = "/"
            sign == IF exclude THEN "-" ELSE "+"
            Listed(mode) == DebugFilterOutput(exclude, directory, mode) # "none"
        IN /\ Listed("included") = ~exclude
           /\ Listed("excluded") = exclude
           /\ Listed("included-files") = (~exclude /\ ~directory)
           /\ Listed("excluded-files") = (exclude /\ ~directory)
           /\ DebugFilterOutput(exclude, directory, "all") = sign
           /\ DebugFilterOutput(exclude, directory, "files")
                 = IF directory THEN "none" ELSE sign

\* The backslashes a rule ends with.
OpenBackslashes(rule) ==
    Len(rule) - SelectLastInSeq(rule, LAMBDA c : c # "\\")

\* compile_filter_rule reads the rule and nothing behind it, with one
\* exception: in a rule that ends with an odd number of backslashes the
\* last one quotes the terminator ("if (p)" tests the pointer), and the
\* loop goes on reading behind the rule.  Every other rule, however its
\* escapes, stars and spaces meet its end, is compiled or refused inside
\* its own text.
CompileLeavesRuleOnlyAfterOpenEscape ==
    call.count > 0 /\ call.direct =>
        /\ outcome = "undefined" => OpenBackslashes(call.lines[1]) % 2 = 1
        /\ outcome = "ok" => OpenBackslashes(call.lines[1]) % 2 = 0

=============================================================================
