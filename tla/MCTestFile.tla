----------------------------- MODULE MCTestFile -----------------------------
(* Instances of TestFile for TLC. *)
EXTENDS TestFile

\* All texts of up to two characters and a longer one on stdout, three on stderr.
MCTexts == UNION {[1 .. n -> {"x", NL}] : n \in 0 .. 2} \cup {<<NL, NL, "x">>}
MCErrTexts == {<<"x">>, <<"x", NL>>, <<NL, "x">>}

\* "stdin" is the key the code reads for stdout, "stdout" the one of schema.json.
Checks == {[stdin |-> "begin"], [stdin |-> "end", stderr |-> "begin"], [stderr |-> "end"],
           [stdout |-> "begin"]}
Plain == [args |-> "call", expected |-> Null]

\* A new test with each kind of check, and two with a "check" or an "output" that is unknown.
MCFiles ==
  {Plain, Put(Put(Plain, "linear", "true"), "post", "calls"),
   Put(Put(Plain, "output", "pipe"), "lang", "en"), Put(Plain, "output", "unknown"),
   Put(Plain, "check", [stderr |-> "middle"])}
  \cup {Put(Plain, "check", check) : check \in Checks}
=============================================================================
