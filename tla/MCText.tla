-------------------------------- MODULE MCText --------------------------------
(* All short arguments, texts and templates, and the project files in which the *)
(* clauses and the commands come in every order.                                *)
EXTENDS Text

MCArgs == BoundedSeq({"a", " ", "tab", "'", "\"", "\\"}, 3)
MCLists == BoundedSeq(MCArgs, 1) \cup [1 .. 2 -> BoundedSeq({"a", " ", "\"", "\\"}, 2)]

MCLineTexts == UNION {[1 .. n -> {<<>>, <<"a">>, <<"b">>}] : n \in 1 .. 4}

MCTemplates == BoundedSeq({"$", "TMP", "V", "K", "/", "t", "1", LF}, 4)

Variable(name, value) == [name |-> name, value |-> value]
Runtime(chai, version, common) ==
  [chai |-> chai, inst |-> <<"/">>, version |-> version, common |-> common]
ToFile == [lines |-> {<<"$", "TMP">>, <<"$", "TMP", "/", "t">>}, to |-> <<"t">>]
MCRuntimes ==
  {Runtime(<<>>, <<>>, <<>>),
   Runtime(<<Variable(<<"V">>, <<"/", "t">>)>>, <<"1", ".", "1">>, <<ToFile>>),
   Runtime(<<Variable(<<"A">>, <<"t">>), Variable(<<"V">>, <<"/">>)>>, <<"1">>, <<>>),
   Runtime(<<Variable(<<"V">>, <<>>)>>, <<"1">>, <<>>)}

MCTempDirs == {<<"/", "t", "x">>, <<"/", "t", "y">>}
MCTestPatches == {<<>>, <<[lines |-> {<<"$", "TMP">>, <<"t">>}, to |-> <<"$", "V">>]>>}

-----------------------------------------------------------------------------

Words(values) == [i \in DOMAIN values |-> Token("IDENT", values[i])]
Open == Token("OPEN", "")
Close == Token("CLOSE", "")
Command(name, args) == Words(<<name>>) \o <<Open>> \o args \o <<Close>>

ClauseTokens ==
  [VERSION |-> Words(<<"VERSION", "1.2.3">>),
   DESCRIPTION |-> Words(<<"DESCRIPTION">>) \o <<Token("STR", "VERSION")>>,
   LANGUAGES |-> Words(<<"LANGUAGES", "CXX">>),
   TwoLanguages |-> Words(<<"LANGUAGES", "C", "CXX">>)]
ClauseOrders ==
  {order \in BoundedSeq(DOMAIN ClauseTokens, 3) :
     /\ IsInjective(order)
     /\ \A i \in DOMAIN order : order[i] = "TwoLanguages" => i = Len(order)}
ProjectCommand(order) ==
  Command("project", Words(<<"name">>) \o FlattenSeq([i \in DOMAIN order |-> ClauseTokens[order[i]]]))

AllParts ==
  [order : ClauseOrders, stable : {"", "-beta"}, setFirst : BOOLEAN,
   before : {<<>>, Words(<<"endif">>),
             Command("if", Words(<<"A">>) \o <<Open, Token("STR", "project"), Close>>),
             Command("set", Words(<<"CXX", "17">>))}]
SetCommand(part) ==
  IF part.stable = "" THEN <<>>
  ELSE Command("set", Words(<<"PROJECT_VERSION_STABILITY">>) \o <<Token("STR", part.stable)>>)
FileOf(part) ==
  IF part.setFirst THEN SetCommand(part) \o part.before \o ProjectCommand(part.order)
  ELSE part.before \o ProjectCommand(part.order) \o SetCommand(part)
DeclaredBy(part) ==
  [name |-> "name", stability |-> part.stable,
   version |-> IF Contains(part.order, "VERSION") THEN "1.2.3" ELSE DefaultVersion]

MCProjects == {FileOf(part) : part \in AllParts}
MCDeclared ==
  [file \in MCProjects |-> DeclaredBy(CHOOSE part \in AllParts : FileOf(part) = file)]
=============================================================================
