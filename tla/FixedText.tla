------------------------------ MODULE FixedText ------------------------------
(***************************************************************************)
(* The variables of a runtime (src/testbed/runtime.cc): expand() puts      *)
(* their values into the arguments of calls and commands, and fix() takes  *)
(* them out of what the called program wrote, so that the text saved in a  *)
(* test, or compared with it, does not tell one run from another.          *)
(*                                                                         *)
(* A text is a sequence of characters, where a whole word (the name of a   *)
(* variable) may stand for its letters.  A runtime is a record: temp,      *)
(* inst and version are texts, chai the variables of the script in the     *)
(* order of their names, common its patches.                               *)
(***************************************************************************)
EXTENDS Naturals, SequencesExt

LF == "newline"
Punctuation == {"$", "/", ".", LF}
Endless == <<"does not return">>

\* version.substr(0, version.rfind('.')), the whole of it if there is no dot
Dots(version) == {i \in DOMAIN version : version[i] = "."}
Short(version) ==
  IF Dots(version) = {} THEN version ELSE SubSeq(version, 1, Max(Dots(version)) - 1)

-----------------------------------------------------------------------------
(* runtime::expand *)

\* Nothing the script or a test stores takes the name of the first four.
ValueOf(key, rt, stored) ==
  LET OfScript == {i \in DOMAIN rt.chai : rt.chai[i].name = key} IN
  CASE key = <<"TMP">> -> rt.temp
    [] key = <<"INST">> -> rt.inst
    [] key = <<"VERSION">> -> rt.version
    [] key = <<"VERSION_SHORT">> -> Short(rt.version)
    [] OTHER -> IF OfScript # {} THEN rt.chai[Min(OfScript)].value
                ELSE IF key \in DOMAIN stored THEN stored[key]
                ELSE <<"$">> \o key

\* A dollar sign that no name follows is left out.
Expand(arg, rt, stored) ==
  LET Put(st) == IF st.key = <<>> THEN st.text ELSE st.text \o ValueOf(st.key, rt, stored)
      Char(st, c) ==
        CASE c = "$" -> [text |-> Put(st), key |-> <<>>, named |-> TRUE]
          [] st.named /\ c \notin Punctuation -> [st EXCEPT !.key = Append(@, c)]
          [] OTHER -> [text |-> Append(Put(st), c), key |-> <<>>, named |-> FALSE]
  IN  Put(FoldLeft(Char, [text |-> <<>>, key |-> <<>>, named |-> FALSE], arg))

-----------------------------------------------------------------------------
(* runtime::fix *)

Found(what, text) ==
  {i \in 1 .. Len(text) + 1 - Len(what) : SubSeq(text, i, i + Len(what) - 1) = what}

\* replace_var: an empty text is found in front of every character, and looking for it
\* behind itself never gets further.
RECURSIVE ReplaceVar(_, _, _)
ReplaceVar(text, what, name) ==
  IF text = <<>> \/ Found(what, text) = {} THEN text
  ELSE IF what = <<>> THEN Endless
  ELSE LET at == Min(Found(what, text)) IN
       SubSeq(text, 1, at - 1) \o name
       \o ReplaceVar(SubSeq(text, at + Len(what), Len(text)), what, name)

VariablesFirst(rt) ==  \* mutant: the variables of the script before the directories
  rt.chai \o <<[name |-> <<"TMP">>, value |-> rt.temp], [name |-> <<"INST">>, value |-> rt.inst]>>

\* What is replaced, in this order, where the preferred separator is the slash.
Replaced(rt) ==
  <<[name |-> <<"TMP">>, value |-> rt.temp], [name |-> <<"INST">>, value |-> rt.inst]>>
  \o rt.chai
  \o (IF rt.version = <<>> THEN <<>> ELSE <<[name |-> <<"VERSION">>, value |-> rt.version]>>)
  \o (IF Dots(rt.version) = {} THEN <<>>
      ELSE <<[name |-> <<"VERSION_SHORT">>, value |-> Short(rt.version)]>>)

LinesOf(text) ==
  FoldLeft(LAMBDA lines, c : IF c = LF THEN Append(lines, <<>>)
                             ELSE Front(lines) \o <<Append(Last(lines), c)>>,
           << <<>> >>, text)

\* Each line is rewritten by the first patch that matches the whole of it, those of
\* the script before those of the test.  A patch is given by the lines it matches and
\* what it makes of them; one that is no regular expression matches none.
PatchLine(line, patches) ==
  LET matching == {i \in DOMAIN patches : line \in patches[i].lines} IN
  IF matching = {} THEN line ELSE patches[Min(matching)].to

Fix(text, rt, patches) ==
  LET ReplaceOne(done, var) ==
        IF done = Endless THEN Endless ELSE ReplaceVar(done, var.value, <<"$">> \o var.name)
      replaced == FoldLeft(ReplaceOne, text, Replaced(rt))
      Rejoin(done, line) == done \o <<LF>> \o PatchLine(line, rt.common \o patches)
      lines == LinesOf(replaced)
  IN  IF replaced = Endless THEN Endless
      ELSE FoldLeft(Rejoin, PatchLine(Head(lines), rt.common \o patches), Tail(lines))
=============================================================================
