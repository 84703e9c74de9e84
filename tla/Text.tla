--------------------------------- MODULE Text ---------------------------------
(***************************************************************************)
(* The conversions of text that a test goes through, each asked for on its *)
(* own: a call that is printed and read again, a call on Windows, the      *)
(* difference in a report, the output of a test in two runs of the tool,   *)
(* the project file that says which version is tested.                     *)
(***************************************************************************)
EXTENDS Arguments, Diff, FixedText, CMakeProject

CONSTANTS
  Lists,        \* lists of arguments
  LineTexts,    \* texts to compare, as sequences of lines
  Templates,    \* arguments, with variables in them
  Runtimes,     \* runtimes, but for the temporary directory
  TempDirs,     \* temporary directories that two runs may have
  TestPatches,  \* the patches a test may have
  Projects,     \* project files
  Declared      \* ... and what they declare: a function on Projects

VARIABLES
  asked,   \* the conversion that is asked for, and of what
  answer   \* what it gave

vars == <<asked, answer>>

Nothing == [what |-> "nothing"]

Init == asked = Nothing /\ answer = <<>>

-----------------------------------------------------------------------------

\* A report prints the call, and what it printed becomes the args of a test.
ReadAgain(args) ==
  /\ asked = Nothing
  /\ asked' = [what |-> "shell", args |-> args]
  /\ answer' = Split(Join(args))

\* CreateProcess with the line, and the called program takes it apart.
CallOnWindows(args) ==
  /\ asked = Nothing
  /\ asked' = [what |-> "windows", args |-> args]
  /\ answer' = ArgvOf(CommandLine(args))

\* test::report compares the saved text with the actual one.
Compare(before, after) ==
  /\ asked = Nothing
  /\ asked' = [what |-> "diff", before |-> LastEnter(before), after |-> LastEnter(after)]
  /\ answer' = DiffLines(LastEnter(before), LastEnter(after))

\* A test in one run: its argument is expanded, the called program writes it back with
\* the name of a file in its directory stored earlier, and what it wrote is fixed.
OutputOf(arg, rt, temp, patches) ==
  LET runtime == [chai |-> rt.chai, inst |-> rt.inst, version |-> rt.version,
                  common |-> rt.common, temp |-> temp]
      stored == [key \in {<<"K">>} |-> temp \o <<"/", "k">>]
  IN  Fix(Expand(arg, runtime, stored), runtime, patches)

\* The test is run twice, each time in a temporary directory of its own.
RunTwice(arg, rt, patches) ==
  /\ asked = Nothing
  /\ asked' = [what |-> "fix", arg |-> arg, rt |-> rt]
  /\ answer' = [temp \in TempDirs |-> OutputOf(arg, rt, temp, patches)]

ReadProject(file) ==
  /\ asked = Nothing
  /\ asked' = [what |-> "project", file |-> file]
  /\ answer' = LoadProject(file)

Return ==
  /\ asked # Nothing
  /\ asked' = Nothing
  /\ answer' = <<>>

Next ==
  \/ \E args \in Lists : ReadAgain(args) \/ CallOnWindows(args)
  \/ \E before, after \in LineTexts : Compare(before, after)
  \/ \E arg \in Templates, rt \in Runtimes, patches \in TestPatches : RunTwice(arg, rt, patches)
  \/ \E file \in Projects : ReadProject(file)
  \/ Return

Spec == Init /\ [][Next]_vars

-----------------------------------------------------------------------------

\* A list of arguments comes back as it was from the text a report shows (quote and
\* split).  On Windows the called program gets the arguments it was given, except that
\* append_arg leaves bare an empty one and one with a tab and no blank or quote.
ArgumentsSurvive ==
  /\ asked.what = "shell" => answer = asked.args
  /\ asked.what = "windows" =>
       (answer = asked.args <=> \A arg \in Range(asked.args) : ~WronglyBare(arg))

MarkedOther(lines, mark) == SelectSeq(lines, LAMBDA line : line[1] # mark)
WithoutMarks(lines) == [i \in DOMAIN lines |-> lines[i][2]]
CommonLines(before, after) ==
  Max({Len(lines) : lines \in AllSubSeqs(before) \cap AllSubSeqs(after)})

\* The difference shows both texts, whatever the search found: without the lines marked
\* + it is what was expected, without those marked - what was written.  It marks as few
\* lines as can be, unless the actual text is the longer one or has empty lines: then
\* the bounds of find_route make it miss lines that are equal.
DiffTellsBoth ==
  asked.what = "diff" =>
    /\ WithoutMarks(MarkedOther(answer, "+")) = asked.before
    /\ WithoutMarks(MarkedOther(answer, "-")) = asked.after
    /\ Len(asked.after) <= Len(asked.before) /\ <<>> \notin Range(asked.after) =>
         Len(MarkedOther(answer, " ")) =
           Len(asked.before) + Len(asked.after) - 2 * CommonLines(asked.before, asked.after)

IsEmptyVariable(rt) ==
  \/ \E i \in DOMAIN rt.chai : rt.chai[i].value = <<>>
  \/ Dots(rt.version) # {} /\ Short(rt.version) = <<>>

\* What is compared with the saved text, or saved, is the same in every run, wherever
\* its temporary directory was, so long as fix() returns; it returns unless a variable
\* of the script is empty (or the version has nothing before its last dot).
SameTextEveryRun ==
  asked.what = "fix" =>
    /\ \A one, other \in TempDirs : answer[one] = answer[other]
    /\ ~IsEmptyVariable(asked.rt) => \A temp \in TempDirs : answer[temp] # Endless

\* The tool reports the version and stability the project file declares, in whichever
\* order its commands come and whatever surrounds them, if every clause of project()
\* before VERSION has one value.
ProjectIsRead ==
  asked.what = "project" =>
    /\ answer.name = Declared[asked.file].name
    /\ answer.version = Declared[asked.file].version
    /\ answer.stability = Declared[asked.file].stability
=============================================================================
