------------------------------- MODULE TestFile -------------------------------
(***************************************************************************)
(* The JSON file of a test from one execution of the program to the next:  *)
(* loading it and renovating its "$schema" (test_data::load, test::load),  *)
(* running it (the part of run_test2 that compares or saves), --nullify    *)
(* and storing it (src/testbed/test.cc, test.hh, src/main.cc).  Between    *)
(* executions the tested program may change.                               *)
(*                                                                         *)
(* A text is a sequence of characters, of which only the newline is told   *)
(* apart.  A "capture" is what io::run gave after runtime::fix.  A file    *)
(* that was only written in part is no JSON object; it has no keys.        *)
(***************************************************************************)
EXTENDS Naturals, Sequences, SequencesExt

CONSTANTS
  Texts,      \* what the tested program may write to stdout
  ErrTexts,   \* ... and to stderr
  Files,      \* what the file may be at first
  Languages,  \* values of --lang
  Schemas     \* values of --schema

NL == "newline"
NotGiven == "not given"
Streams == {"output", "error"}
Captures == [code : {0, 1}, output : Texts, error : ErrTexts]

VARIABLES
  data,     \* the JSON object in the file
  program,  \* what the tested program returns and writes
  did       \* what the last execution did to the test

vars == <<data, program, did>>

-----------------------------------------------------------------------------
(* Text in JSON: a string, or an array of strings, one for each line.  A     *)
(* string and an array that holds only this string are the same to load(),   *)
(* so both are sequences of lines here.                                      *)

\* split_str(text, '\n')
Lines(text) ==
  FoldLeft(LAMBDA lines, c : IF c = NL THEN Append(lines, <<>>)
                                       ELSE Front(lines) \o <<Append(Last(lines), c)>>,
           << <<>> >>, text)

ToLinesDropping(text) ==  \* mutant: the last newline is dropped with the empty line
  LET lines == Lines(text) IN
  IF Len(lines) > 1 /\ Last(lines) = <<>> THEN Front(lines) ELSE lines

\* to_lines: a newline at the end goes into the last line.
ToLines(text) ==
  LET lines == Lines(text)
      kept == Front(lines)
  IN  IF Len(lines) > 1 /\ Last(lines) = <<>>
        THEN Front(kept) \o <<Append(Last(kept), NL)>>
        ELSE lines

\* out_from_node: a newline between what there is and the next line, unless there
\* is nothing yet.
FromNode(lines) ==
  FoldLeft(LAMBDA text, line : (IF text = <<>> THEN line ELSE text \o <<NL>> \o line),
           <<>>, lines)

-----------------------------------------------------------------------------
(* Loading *)

Null == <<>>
SavedSwapped(c) == <<c.code, ToLines(c.error), ToLines(c.output)>>  \* mutant
Saved(c) == <<c.code, ToLines(c.output), ToLines(c.error)>>
Expected(d) ==
  [code |-> d["expected"][1],
   output |-> FromNode(d["expected"][2]), error |-> FromNode(d["expected"][3])]

\* The keys of a test, in the order of json::map.
KeyOrder == <<"$schema", "args", "check", "expected", "lang", "linear", "output", "post">>

\* map.lower_bound(key) as a set: empty for end().
LowerBound(d, key) ==
  LET At(i) == KeyOrder[i] \in DOMAIN d
      here == CHOOSE i \in DOMAIN KeyOrder : KeyOrder[i] = key
  IN  {KeyOrder[i] : i \in {j \in here .. Len(KeyOrder) :
                              At(j) /\ \A k \in here .. j - 1 : ~At(k)}}

Put(d, key, value) ==
  [k \in DOMAIN d \cup {key} |-> IF k = key THEN value ELSE d[k]]

\* Conditions under which load() returns a test that is ok.
Loads(d) ==
  /\ {"args", "expected"} \subseteq DOMAIN d
  /\ "check" \in DOMAIN d =>
       \A key \in {"stdin", "stderr"} \cap DOMAIN d["check"] :
         d["check"][key] \in {"all", "begin", "end"}
  /\ "output" \in DOMAIN d => d["output"] \in {"pty", "pipe", "stdout", "stderr"}

\* The check of a stream, from the keys load() looks at.
Check(d, stream) ==
  LET key == IF stream = "output" THEN "stdin" ELSE "stderr" IN
  IF "check" \in DOMAIN d /\ key \in DOMAIN d["check"] THEN d["check"][key] ELSE "all"

\* --schema: what load() does to "$schema" before anything else.
Renovated(d, schema) ==
  IF schema = NotGiven THEN d ELSE Put(d, "$schema", schema)

-----------------------------------------------------------------------------
(* Comparing *)

ClipFromStart(side, actual, expected) ==  \* mutant: "end" takes as many from the start
  IF side = "all" \/ Len(expected) >= Len(actual) THEN actual
  ELSE SubSeq(actual, 1, Len(expected))

\* test::clip, for one stream
Clip(side, actual, expected) ==
  IF side = "all" \/ Len(expected) >= Len(actual) THEN actual
  ELSE IF side = "begin" THEN SubSeq(actual, 1, Len(expected))
  ELSE SubSeq(actual, Len(actual) - Len(expected) + 1, Len(actual))

\* *actual.capture == *tested.expected || clipped == *tested.expected
Passes(d, actual) ==
  LET expected == Expected(d)
      clipped == [actual EXCEPT
                    !.output = Clip(Check(d, "output"), @, expected.output),
                    !.error = Clip(Check(d, "error"), @, expected.error)]
  IN  actual = expected \/ clipped = expected

-----------------------------------------------------------------------------

Init ==
  /\ data \in Files
  /\ program \in Captures
  /\ did = "nothing"

Truncated == [k \in {} |-> {}]

\* test::store: no error is reported.  The file is what it should be, or was, or
\* was cut when it was opened for writing.
Store(d) == data' \in {d, data, Truncated}

\* A test that is not ok is left out of everything, and is not written.
Reject(schema) ==
  /\ ~Loads(data)
  /\ did' = "rejected"
  /\ UNCHANGED <<data, program>>

\* test::load stores a renovated file before the test is run.
LoadTest(schema) ==
  /\ Loads(data)
  /\ IF Renovated(data, schema) = data THEN UNCHANGED data
                                       ELSE Store(Renovated(data, schema))

SaveAny(schema) ==  \* mutant: "expected" is stored whether there was one or not
  /\ Loads(data)
  /\ Store(Put(Renovated(data, schema), "expected", Saved(program)))
  /\ did' = "saved"
  /\ UNCHANGED program

\* The run of a test with "expected"; nothing more is written.
Compare(schema) ==
  /\ Loads(data) /\ data["expected"] # Null
  /\ LoadTest(schema)
  /\ did' = IF Passes(data, program) THEN "passed" ELSE "failed"
  /\ UNCHANGED program

\* The run of a test without "expected": the second store() writes what load()
\* read, renovated, with the new expectation.  It may find the file as it was, or
\* as the first store() left it.
Save(schema) ==
  /\ Loads(data) /\ data["expected"] = Null
  /\ LET read == Renovated(data, schema) IN
       \/ Store(Put(read, "expected", Saved(program)))
       \/ data' = read
  /\ did' = "saved"
  /\ UNCHANGED program

\* "prepare" or "cleanup" failed.
Skip(schema) ==
  /\ LoadTest(schema)
  /\ did' = "skipped"
  /\ UNCHANGED program

\* test::nullify(lang): lower_bound, and no look at the key it found.
WithLanguage(d, lang) ==
  IF lang = NotGiven THEN d
  ELSE IF LowerBound(d, "lang") = {} THEN Put(d, "lang", lang)
  ELSE [k \in DOMAIN d |-> IF k \in LowerBound(d, "lang") THEN lang ELSE d[k]]

\* --nullify, with or without --lang
Nullify(schema, lang) ==
  /\ Loads(data)
  /\ LET read == Renovated(data, schema) IN
       \/ Store(Put(WithLanguage(read, lang), "expected", Null))
       \/ data' = read
  /\ did' = "nullified"
  /\ UNCHANGED program

\* Between two executions somebody builds the tested program again.
Rebuild ==
  /\ program' \in Captures \ {program}
  /\ did' = "nothing"
  /\ UNCHANGED data

Next ==
  \/ Rebuild
  \/ \E schema \in Schemas \cup {NotGiven} :
       \/ Reject(schema) \/ Compare(schema) \/ Save(schema) \/ Skip(schema)
       \/ \E lang \in Languages \cup {NotGiven} : Nullify(schema, lang)

Spec == Init /\ [][Next]_vars

-----------------------------------------------------------------------------
(* Properties *)

\* A text that starts with a newline and holds more than this newline.
StartsEmpty(text) == Len(text) > 1 /\ text[1] = NL

\* What is left of a text when it has been stored and loaded: newlines at its
\* start are lost, but for one when there is nothing else.
Kept(text) ==
  LET content == {i \in DOMAIN text : text[i] # NL} IN
  IF content = {} THEN SubSeq(text, 1, IF text = <<>> THEN 0 ELSE 1)
                  ELSE SubSeq(text, Min(content), Len(text))

\* to_lines and out_from_node are inverse to each other on every text that does
\* not start with an empty line, and on the others they lose just the newlines it
\* starts with.
StoredTextIsKept ==
  \A stream \in Streams : FromNode(ToLines(program[stream])) = Kept(program[stream])

\* A test that is run passes exactly when the return codes are equal and what is
\* expected of each stream is all of it, or the part of it that "check" names with the
\* keys load() reads: "stderr" for stderr, and "stdin" for stdout.  (schema.json calls
\* the latter "stdout"; a file that uses this key is compared as if it had not.)
PassMeansMatch ==
  [][did' \in {"passed", "failed"} =>
       LET expected == Expected(data)
           asked(key) == IF "check" \in DOMAIN data /\ key \in DOMAIN data["check"]
                           THEN data["check"][key] ELSE "all"
           match(side, a, e) == CASE side = "all" -> a = e
                                  [] side = "begin" -> IsPrefix(e, a)
                                  [] side = "end" -> IsSuffix(e, a)
       IN  did' = "passed" <=>
             /\ program.code = expected.code
             /\ match(asked("stdin"), program.output, expected.output)
             /\ match(asked("stderr"), program.error, expected.error)]_vars

\* A test that was saved and is run again with nothing changed in between fails
\* only if one of its streams starts with an empty line.
OnlyNewlinesAreForgotten ==
  [][did = "saved" /\ did' = "failed" =>
       \E stream \in Streams : StartsEmpty(program[stream])]_vars

\* A run never replaces an expectation, passed or failed: whatever is in the file
\* afterwards, it is the one that was there, or the file was cut.
FilledStaysFilled ==
  [][Loads(data) /\ data["expected"] # Null /\ did' # "nullified" =>
       data' = Truncated \/ data'["expected"] = data["expected"]]_vars

\* --nullify sets "expected" to null and --lang the language of the test; the
\* rest of the test is what it was.
NullifyKeepsTheRest ==
  [][did' = "nullified" /\ data' # Truncated =>
       \A k \in DOMAIN data \ {"$schema", "lang", "expected"} : data'[k] = data[k]]_vars
=============================================================================
