----------------------------- MODULE MCStartup ------------------------------
(* Two executions at most at once, a few projects and preset files. *)
EXTENDS Startup

Symmetry == Permutations(Procs)

Project(defined, preset, components, allowsGit) ==
  [defined |-> defined, preset |-> preset, components |-> components, git |-> allowsGit]

MCProjects ==
  {Project(1, "a", <<"bin", "lib">>, TRUE), Project(1, "b", <<"all">>, FALSE),
   Project(2, "a", <<"all">>, FALSE)}

Preset(name, dir, type, inherits) ==
  [name |-> name, dir |-> dir, type |-> type, inherits |-> inherits]
File(include, presets) == [include |-> include, presets |-> presets]

\* A diamond over two files that include each other; a preset defined twice; one
\* that inherits from itself and one that is nowhere.
MCRepositories ==
  {("top" :> File(<<"more">>, <<Preset("a", Nothing, Nothing, <<"x", "y">>),
                               Preset("b", "out_b", "Debug", <<>>)>>))
   @@ ("more" :> File(<<"top", "gone">>, <<Preset("x", Nothing, Nothing, <<"base">>),
                                           Preset("y", "out_y", Nothing, <<"base">>),
                                           Preset("base", Nothing, "Release", <<>>)>>)),
   ("top" :> File(<<"more">>, <<Preset("a", "out_a", "Release", <<"a">>)>>))
   @@ ("more" :> File(<<>>, <<Preset("a", Nothing, Nothing, <<>>),
                              Preset("b", Nothing, "Debug", <<"nowhere", "a">>)>>)),
   "top" :> File(<<>>, <<Preset("a", Nothing, "Debug", <<"b">>),
                         Preset("b", Nothing, "Debug", <<"a">>)>>)}
=============================================================================
