------------------------------ MODULE Arguments ------------------------------
(***************************************************************************)
(* The command line as one text and as a list of arguments:                *)
(*   - shell::quote, join and split (src/base/shell.hh, shell.cc): a        *)
(*     report prints the call joined, and a test may give "args" and its   *)
(*     commands as one text, which load() splits;                          *)
(*   - append_arg and command_line (src/win32/run.cc), and the parser of   *)
(*     Windows, CommandLineToArgvW, that the called program reads them by. *)
(* A text is a sequence of characters.                                     *)
(***************************************************************************)
EXTENDS Naturals, SequencesExt

Blank == {" ", "tab"}
Quotes == {"'", "\""}
\* contains_unsafe: everything but [\w@%+=:,./-]
Unsafe == Blank \cup Quotes \cup {"\\"}

-----------------------------------------------------------------------------
(* shell.cc *)

QuoteOnlyBlanks(arg) ==  \* mutant: quotes alone call for no quoting
  IF Range(arg) \cap Blank = {} /\ arg # <<>> THEN arg
  ELSE <<"'">> \o arg \o <<"'">>

\* shell::quote: an apostrophe leaves the quoted part, comes in double quotes and
\* enters it again.
Quote(arg) ==
  IF arg # <<>> /\ Range(arg) \cap Unsafe = {} THEN arg
  ELSE <<"'">>
       \o FlattenSeq([i \in DOMAIN arg |->
                        IF arg[i] = "'" THEN <<"'", "\"", "'", "\"", "'">> ELSE <<arg[i]>>])
       \o <<"'">>

Join(args) ==
  FoldLeft(LAMBDA line, arg : IF line = <<>> THEN Quote(arg) ELSE line \o <<" ">> \o Quote(arg),
           <<>>, args)

\* Where the reader stands: between words, in one, after a backslash, or inside the
\* quotes it names (quoted(): nothing is special there but the closing quote).
ReadChar(st, c) ==
  LET Keep == [st EXCEPT !.word = Append(@, c)] IN
  CASE st.at = "escape" -> [Keep EXCEPT !.at = "word"]
    [] st.at \in Quotes -> IF c = st.at THEN [st EXCEPT !.at = "word"] ELSE Keep
    [] st.at = "between" /\ c \in Blank -> st
    [] st.at = "word" /\ c \in Blank ->
         [at |-> "between", word |-> <<>>, words |-> Append(st.words, st.word)]
    [] st.at \in {"between", "word"} /\ c \in Quotes -> [st EXCEPT !.at = c]
    [] st.at \in {"between", "word"} /\ c = "\\" -> [st EXCEPT !.at = "escape"]
    [] OTHER -> [Keep EXCEPT !.at = "word"]

\* shell::split: quotes left open and a backslash at the end are closed by the end.
Split(line) ==
  LET end == FoldLeft(ReadChar, [at |-> "between", word |-> <<>>, words |-> <<>>], line) IN
  IF end.at = "between" THEN end.words ELSE Append(end.words, end.word)

-----------------------------------------------------------------------------
(* win32/run.cc *)

Slashes(n) == [i \in 1 .. n |-> "\\"]

\* append_arg: inside the quotes, backslashes are doubled where a quote follows.
AppendArg(arg) ==
  LET Put(st, c) ==
        CASE c = "\\" -> [text |-> Append(st.text, c), slashes |-> st.slashes + 1]
          [] c = "\"" -> [text |-> st.text \o Slashes(st.slashes) \o <<"\\", c>>, slashes |-> 0]
          [] OTHER -> [text |-> Append(st.text, c), slashes |-> 0]
      end == FoldLeft(Put, [text |-> <<>>, slashes |-> 0], arg)
  IN  IF Range(arg) \cap {" ", "\""} = {} THEN arg
      ELSE <<"\"">> \o end.text \o Slashes(end.slashes) \o <<"\"">>

\* command_line, without the program in front
CommandLine(args) == FlattenSeq([i \in DOMAIN args |-> AppendArg(args[i]) \o <<" ">>])

\* CommandLineToArgvW behind the program: 2n backslashes and a quote are n of them and
\* open or close the quotes; one more backslash makes the quote a character.
ReadWide(st, c) ==
  LET half == [st EXCEPT !.word = @ \o Slashes(st.slashes \div 2), !.slashes = 0, !.begun = TRUE]
      all == [st EXCEPT !.word = @ \o Slashes(st.slashes), !.slashes = 0]
  IN  CASE c = "\\" -> [st EXCEPT !.slashes = @ + 1, !.begun = TRUE]
        [] c = "\"" /\ st.slashes % 2 = 1 -> [half EXCEPT !.word = Append(@, c)]
        [] c = "\"" /\ st.slashes % 2 = 0 -> [half EXCEPT !.quoted = ~@]
        [] c \in Blank /\ ~st.quoted ->
             IF st.begun THEN [all EXCEPT !.words = Append(@, all.word), !.word = <<>>,
                                          !.begun = FALSE]
             ELSE st
        [] OTHER -> [all EXCEPT !.word = Append(@, c), !.begun = TRUE]

ArgvOf(line) ==
  LET start == [word |-> <<>>, words |-> <<>>, slashes |-> 0, quoted |-> FALSE, begun |-> FALSE]
      end == FoldLeft(ReadWide, start, line)
  IN  IF end.begun THEN Append(end.words, end.word \o Slashes(end.slashes)) ELSE end.words

\* Arguments that append_arg leaves bare though Windows reads them otherwise.
WronglyBare(arg) == arg = <<>> \/ ("tab" \in Range(arg) /\ AppendArg(arg) = arg)
=============================================================================
