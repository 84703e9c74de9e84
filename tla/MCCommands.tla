----------------------------- MODULE MCCommands -----------------------------
(* A test between the repository, the build directory and $TMP. *)
EXTENDS Commands

MCPaths ==
  {<<"/">>, <<"/", "build">>, <<"/", "build", "mocks">>, <<"/", "build", "mocks", "p">>,
   <<"/", "repo">>, <<"/", "repo", "d">>, <<"/", "repo", "d", "f">>, <<"/", "repo", "d", "l">>,
   <<"/", "repo", "a">>, <<"/", "repo", "f">>,
   <<"/", "tmp">>, <<"/", "tmp", "a">>, <<"/", "tmp", "a", "f">>, <<"/", "tmp", "a", "f", "f">>,
   <<"/", "tmp", "a", "l">>, <<"/", "tmp", "a", "l", "p">>, <<"/", "tmp", "f">>,
   <<"/", "tmp", "mocks">>, <<"/", "tmp", "mocks", "p">>}

MCStartTree ==
  [p \in {<<"/">>, <<"/", "build">>, <<"/", "build", "mocks">>, <<"/", "repo">>,
          <<"/", "repo", "d">>} |-> Dir]
  @@ [p \in {<<"/", "build", "mocks", "p">>, <<"/", "repo", "d", "f">>} |-> File(<<"$W">>)]
  @@ [p \in {<<"/", "repo", "d", "l">>} |-> Symlink(<<"/", "build", "mocks">>)]

Line(name, args, safe) == [name |-> name, args |-> args, safe |-> safe]
Repo(rest) == <<"/", "repo">> \o rest

MCLines ==
  {Line("cd", <<<<"$TMP">>>>, FALSE), Line("cd", <<<<"a">>>>, TRUE),
   Line("cp", <<Repo(<<"d">>), <<"$TMP", "a">>>>, FALSE),
   Line("cp", <<Repo(<<"d", "f">>), <<"$TMP", "f">>>>, FALSE),
   Line("cp", <<<<"$TMP", "f">>, <<"$TMP", "a">>>>, TRUE),
   Line("ro", <<<<"f">>>>, FALSE), Line("ro", <<<<"$TMP", "a">>>>, TRUE),
   Line("mkdirs", <<<<"$TMP", "a", "f">>>>, FALSE),
   Line("rm", <<<<"$TMP", "a">>>>, TRUE), Line("rm", <<<<"$TMP", "a", "l", "p">>>>, FALSE),
   Line("rm", <<<<"$TMP", "mocks", "p">>>>, FALSE),
   Line("touch", <<<<"$TMP", "$V">>, <<"new">>>>, FALSE),
   Line("touch", <<<<"$TMP", "mocks", "p">>>>, TRUE),
   Line("touch", <<<<"$TMP", "a", "l", "p">>>>, FALSE),
   Line("unpack", <<Repo(<<"d", "f">>), <<"$TMP", "a">>>>, FALSE),
   Line("generate", <<Repo(<<"d", "f">>), <<"$TMP", "a", "f">>, <<"W", "one">>>>, FALSE),
   Line("store", <<<<"V">>, <<"prog">>>>, TRUE),
   Line("mock", <<<<"p">>, <<"p">>>>, FALSE), Line("mock", <<<<"q">>, <<"p">>>>, TRUE),
   Line("target", <<>>, FALSE), Line("check", <<<<"f">>>>, FALSE),
   Line("cp", <<>>, TRUE), Line("nonsense", <<>>, TRUE)}

MCMoved == {<<"/", "repo", "d">>}
MCOutputs == {<<"f">>}
MCChaiVars == "$C" :> <<"f">>
MCScripted == "check" :> 1
=============================================================================
