----------------------------- MODULE CMakeProject -----------------------------
(***************************************************************************)
(* The name and version of the tested project, read from its               *)
(* CMakeLists.txt (src/base/cmake.cc).  A file is the sequence of its      *)
(* tokens, comments and blanks skipped: a token has a type and, if it is a *)
(* string or an identifier, a value.                                       *)
(***************************************************************************)
EXTENDS Naturals, SequencesExt

Token(type, value) == [type |-> type, value |-> value]
DefaultVersion == "0.1.0"
NotSeen == "not seen"

-----------------------------------------------------------------------------
(* command_stream: a command is an identifier and, if a parenthesis follows,  *)
(* the strings and identifiers up to the first one that closes.               *)

\* An identifier that nothing opens is a command too, and the token behind it is read
\* again.
Outside(st, token) ==
  IF token.type = "IDENT" THEN [st EXCEPT !.at = "named", !.command = [name |-> token.value,
                                                                       args |-> <<>>]]
  ELSE st
Emit(st) == [st EXCEPT !.at = "outside", !.commands = Append(@, st.command)]

ReadToken(st, token) ==
  CASE st.at = "outside" -> Outside(st, token)
    [] st.at = "named" /\ token.type = "OPEN" -> [st EXCEPT !.at = "inside"]
    [] st.at = "named" /\ token.type # "OPEN" -> Outside(Emit(st), token)
    [] st.at = "inside" /\ token.type = "OPEN" -> st
    [] st.at = "inside" /\ token.type = "CLOSE" -> Emit(st)
    [] OTHER -> [st EXCEPT !.command.args = Append(@, token.value)]

CommandsOf(file) ==
  LET end == FoldLeft(ReadToken, [at |-> "outside", commands |-> <<>>,
                                  command |-> [name |-> "", args |-> <<>>]], file)
  IN  IF end.at = "outside" THEN end.commands ELSE Emit(end).commands

-----------------------------------------------------------------------------
(* load_project *)

FirstClause(args, keyword, default) ==  \* mutant: the value behind the first occurrence
  LET found == {i \in 1 .. Len(args) - 1 : args[i] = keyword} IN
  IF found = {} THEN default ELSE args[Min(found) + 1]

\* The arguments are taken in pairs; the last one for a keyword counts.
Clause(args, keyword, default) ==
  LET found == {i \in 1 .. Len(args) - 1 : i % 2 = 1 /\ args[i] = keyword} IN
  IF found = {} THEN default ELSE args[Max(found) + 1]

\* The loop ends at the command that completes what it looks for.  A project() or set()
\* with too few arguments is outside the model: the code indexes past the end.
TakeCommand(st, command) ==
  CASE st.name # NotSeen /\ st.stability # NotSeen -> st
    [] command.name = "project" ->
         [st EXCEPT !.name = command.args[1],
                    !.version = Clause(Tail(command.args), "VERSION", @),
                    !.description = Clause(Tail(command.args), "DESCRIPITON", @)]
    [] command.name = "set" /\ command.args[1] = "PROJECT_VERSION_STABILITY" ->
         [st EXCEPT !.stability = command.args[2]]
    [] OTHER -> st

LoadProject(file) ==
  LET end == FoldLeft(TakeCommand,
                      [name |-> NotSeen, version |-> DefaultVersion, stability |-> NotSeen,
                       description |-> ""], CommandsOf(file))
      OrEmpty(value) == IF value = NotSeen THEN "" ELSE value
  IN  [end EXCEPT !.name = OrEmpty(@), !.stability = OrEmpty(@)]
=============================================================================
