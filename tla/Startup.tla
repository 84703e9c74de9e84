------------------------------ MODULE Startup -------------------------------
(***************************************************************************)
(* The program up to its first test: the configuration script              *)
(* (src/chai.cc), the presets (src/io/presets.cc), the handlers with       *)
(* config_git, and install() (src/main.cc).  Several executions, each of   *)
(* which may be killed anywhere and be started again with another project, *)
(* share the directory they install to and the configuration of git.       *)
(***************************************************************************)
EXTENDS Naturals, FiniteSets, SequencesExt, TLC

CONSTANTS Procs,        \* executions that may be under way at once
          Projects,     \* the projects they may be started for
          Repositories, \* what the preset files may be: from names to files
          MaxStarts     \* bound: starts in all

ASSUME MaxStartsAssumption == MaxStarts \in Nat
ASSUME ProjectsAssumption == \A x \in Projects : x.components \in Seq(ToSet(x.components))

VARIABLES
  files,      \* the preset files, fixed at the start
  copy,       \* copy_dir: is it there, and the components in it with their build
  git,        \* the keys "git config --global" has
  stage,      \* where each execution is, "off" when there is none, "run" at its tests
  project,    \* the project it was started for: how many runner.chai defines, the
              \* preset asked for, the components to install, whether git is allowed
  binary,     \* its binary_dir, once resolved
  todo,       \* the components, or the keys for git, still to be done
  missed,     \* components whose cmake was not even started, and passed for installed
  disturbed,  \* another execution touched copy_dir since this one removed it
  gitFailed,  \* a git_config has failed
  starts

shared == <<files, copy, git, gitFailed>>
own == <<project, binary, todo, missed, disturbed>>
vars == <<shared, own, stage, starts>>

Nothing == "nothing"
Endless == "endless"
NoProject == [defined |-> 0, preset |-> Nothing, components |-> <<>>, git |-> FALSE]
GitKeys == <<"user.email", "user.name", "init.defaultBranch">>

-----------------------------------------------------------------------------
(* io::cmake::preset *)

\* load_file: the files a file includes come first, each file is read once, and
\* a name defined again replaces what it was.
LoadFile(repo, top) ==
  LET Names == DOMAIN repo \cup UNION {ToSet(repo[f].include) : f \in DOMAIN repo}
      defined(list) == FoldLeft(LAMBDA f, d : (d.name :> d) @@ f, <<>>, list)
      load[name \in Names, seen \in SUBSET Names] ==
        IF name \in seen THEN [seen |-> seen, out |-> <<>>]
        ELSE IF name \notin DOMAIN repo THEN [seen |-> seen \cup {name}, out |-> <<>>]
        ELSE LET with(acc, inc) ==
                   LET r == load[inc, acc.seen]
                   IN  [seen |-> r.seen, out |-> r.out @@ acc.out]
                 included == FoldLeft(with, [seen |-> seen \cup {name}, out |-> <<>>],
                                      repo[name].include)
             IN  [included EXCEPT !.out = defined(repo[name].presets) @@ @]
  IN  load[top, {}].out

ResolveFirst(presets, name, attr) ==  \* mutant: only the first of "inherits" is asked
  LET get[n \in DOMAIN presets, depth \in 0 .. Cardinality(DOMAIN presets)] ==
        IF presets[n][attr] # Nothing THEN presets[n][attr]
        ELSE IF depth = Cardinality(DOMAIN presets) THEN Endless
        ELSE LET known == SelectSeq(presets[n].inherits, LAMBDA i : i \in DOMAIN presets)
             IN  IF known = <<>> THEN Nothing ELSE get[known[1], depth + 1]
  IN  get[name, 0]

\* get_binary_dir and get_build_type: the preset's own value, or the first that
\* one of "inherits" gives.  Nobody remembers where the search has been: when it
\* is deeper than there are presets it will not come back.
Resolve(presets, name, attr) ==
  LET get[n \in DOMAIN presets, depth \in 0 .. Cardinality(DOMAIN presets)] ==
        IF presets[n][attr] # Nothing THEN presets[n][attr]
        ELSE IF depth = Cardinality(DOMAIN presets) THEN Endless
        ELSE LET known == SelectSeq(presets[n].inherits, LAMBDA i : i \in DOMAIN presets)
                 answers == [i \in DOMAIN known |-> get[known[i], depth + 1]]
                 first == {i \in DOMAIN answers : answers[i] # Nothing
                             /\ \A j \in 1 .. i - 1 : answers[j] = Nothing}
             IN  IF first = {} THEN Nothing ELSE answers[CHOOSE i \in first : TRUE]
  IN  get[name, 0]

-----------------------------------------------------------------------------

Init ==
  /\ files \in Repositories
  /\ copy \in {[there |-> FALSE, has |-> {}], [there |-> TRUE, has |-> {<<"old", "old">>}]}
  /\ git \in {{}, {"user.email", "user.name"}}
  /\ stage = [p \in Procs |-> "off"]
  /\ project = [p \in Procs |-> NoProject]
  /\ binary = [p \in Procs |-> Nothing]
  /\ todo = [p \in Procs |-> <<>>] /\ missed = [p \in Procs |-> {}]
  /\ disturbed = [p \in Procs |-> FALSE]
  /\ gitFailed = FALSE /\ starts = 0

Go(p, s) == stage' = [stage EXCEPT ![p] = s]

\* The program ends, with whatever code: nothing of the execution is left.
Exit(p) ==
  /\ Go(p, "off")
  /\ project' = [project EXCEPT ![p] = NoProject]
  /\ binary' = [binary EXCEPT ![p] = Nothing]
  /\ todo' = [todo EXCEPT ![p] = <<>>] /\ missed' = [missed EXCEPT ![p] = {}]
  /\ disturbed' = [disturbed EXCEPT ![p] = FALSE]

Continue(p, s) == Go(p, s) /\ UNCHANGED own

Start(p) ==
  /\ stage[p] = "off" /\ starts < MaxStarts
  /\ starts' = starts + 1
  /\ \E x \in Projects : project' = [project EXCEPT ![p] = x]
  /\ binary' = [binary EXCEPT ![p] = Nothing]
  /\ Go(p, "script")
  /\ UNCHANGED <<shared, todo, missed, disturbed>>

\* Chai::Impl: the script defines exactly one project and its install function,
\* or the program ends.
Script(p) ==
  /\ stage[p] = "script"
  /\ \/ project[p].defined = 1 /\ Continue(p, "presets")
     \/ Exit(p)
  /\ UNCHANGED <<shared, starts>>

\* The preset that was asked for, its binary directory and its build type.
\* Without them there is an error; a search that does not come back ends in a
\* full stack.
Presets(p) ==
  /\ stage[p] = "presets"
  /\ LET presets == LoadFile(files, "top")
         name == project[p].preset
         value(attr) == IF name \in DOMAIN presets THEN Resolve(presets, name, attr) ELSE Nothing
     IN  IF {value("dir"), value("type")} \cap {Nothing, Endless} # {} THEN Exit(p)
         ELSE /\ Go(p, "target")
              /\ binary' = [binary EXCEPT ![p] = value("dir")]
              /\ UNCHANGED <<project, todo, missed, disturbed>>
  /\ UNCHANGED <<shared, starts>>

\* fs::is_regular_file(target)
FindTarget(p) ==
  /\ stage[p] = "target"
  /\ Continue(p, "tests") \/ Exit(p)
  /\ UNCHANGED <<shared, starts>>

\* The tests are loaded.  With --nullify, or when there is none, that was all; a
\* directory that cannot be read ends the program by an exception.
LoadTests(p) ==
  /\ stage[p] = "tests"
  /\ Continue(p, "handlers") \/ Exit(p)
  /\ UNCHANGED <<shared, starts>>

\* ProjectInfo::handlers: a project that allows git has it configured, if
\* "git config --global user.name" writes nothing, which it also does not when it
\* cannot be run.
Handlers(p) ==
  /\ stage[p] = "handlers"
  /\ \/ /\ ~project[p].git \/ "user.name" \in git
        /\ Go(p, "remove") /\ UNCHANGED todo
     \/ /\ project[p].git
        /\ Go(p, "git") /\ todo' = [todo EXCEPT ![p] = GitKeys]
  /\ UNCHANGED <<shared, project, binary, missed, disturbed, starts>>

GitConfigLast(p) ==  \* mutant: the keys are set from the last to the first
  /\ stage[p] = "git"
  /\ IF todo[p] = <<>> THEN Go(p, "remove") /\ UNCHANGED <<git, gitFailed, todo>>
     ELSE /\ todo' = [todo EXCEPT ![p] = Front(@)]
          /\ \/ git' = git \cup {Last(todo[p])} /\ UNCHANGED gitFailed
             \/ gitFailed' = TRUE /\ UNCHANGED git
          /\ UNCHANGED stage
  /\ UNCHANGED <<files, copy, project, binary, missed, disturbed, starts>>

\* git_config for one key; whether it worked is not looked at.
GitConfig(p) ==
  /\ stage[p] = "git"
  /\ IF todo[p] = <<>> THEN Go(p, "remove") /\ UNCHANGED <<git, gitFailed, todo>>
     ELSE /\ todo' = [todo EXCEPT ![p] = Tail(@)]
          /\ \/ git' = git \cup {Head(todo[p])} /\ UNCHANGED gitFailed
             \/ gitFailed' = TRUE /\ UNCHANGED git
          /\ UNCHANGED stage
  /\ UNCHANGED <<files, copy, project, binary, missed, disturbed, starts>>

\* This execution changes copy_dir under the others, and is itself undisturbed
\* when it begins to.
Disturb(p) ==
  disturbed' = [q \in Procs |->
    IF q # p THEN stage[q] # "off" ELSE disturbed[p] /\ stage[p] # "remove"]

Fail(p) ==
  /\ Go(p, "off")
  /\ project' = [project EXCEPT ![p] = NoProject]
  /\ binary' = [binary EXCEPT ![p] = Nothing]
  /\ todo' = [todo EXCEPT ![p] = <<>>] /\ missed' = [missed EXCEPT ![p] = {}]
  /\ disturbed' = [q \in Procs |-> q # p /\ stage[q] # "off"]

KeepOld(p) ==  \* mutant: install() does not remove what is there
  /\ stage[p] = "remove"
  /\ Go(p, "create")
  /\ Disturb(p)
  /\ UNCHANGED <<shared, project, binary, todo, missed, starts>>

\* install: remove_all(copy_dir), which may fail when a part is gone.
RemoveCopy(p) ==
  /\ stage[p] = "remove"
  /\ \/ /\ copy' = [there |-> FALSE, has |-> {}]
        /\ Go(p, "create")
        /\ Disturb(p) /\ UNCHANGED <<project, binary, todo, missed>>
     \/ /\ copy.there
        /\ \E left \in SUBSET copy.has : copy' = [copy EXCEPT !.has = left]
        /\ Fail(p)
  /\ UNCHANGED <<files, git, gitFailed, starts>>

\* create_directories(copy_dir).
CreateDir(p) ==
  /\ stage[p] = "create"
  /\ \/ /\ copy' = [copy EXCEPT !.there = TRUE]
        /\ todo' = [todo EXCEPT ![p] = project[p].components]
        /\ Go(p, "components")
        /\ Disturb(p) /\ UNCHANGED <<project, binary, missed>>
     \/ Exit(p) /\ UNCHANGED copy
  /\ UNCHANGED <<files, git, gitFailed, starts>>

\* "cmake --install", for one component after the other, or once for all of them
\* when none is named: the first that fails ends the program, with its part done
\* or not.  One that could not be started may give the return code 0.
InstallComponent(p) ==
  /\ stage[p] = "components" /\ todo[p] # <<>>
  /\ LET part == [there |-> TRUE, has |-> copy.has \cup {<<Head(todo[p]), binary[p]>>}] IN
     \/ /\ \/ copy' = part /\ Disturb(p) /\ UNCHANGED missed
           \/ /\ missed' = [missed EXCEPT ![p] = @ \cup {Head(todo[p])}]
              /\ UNCHANGED <<copy, disturbed>>
        /\ todo' = [todo EXCEPT ![p] = Tail(@)]
        /\ UNCHANGED <<stage, project, binary>>
     \/ copy' \in {copy, part} /\ Fail(p)
  /\ UNCHANGED <<files, git, gitFailed, starts>>

ComponentsInstalled(p) ==
  /\ stage[p] = "components" /\ todo[p] = <<>>
  /\ Continue(p, "script_install")
  /\ UNCHANGED <<shared, starts>>

\* rt.rt_target is set and the script's own install function is called.
ScriptInstall(p) ==
  /\ stage[p] = "script_install"
  /\ Continue(p, "run") \/ Exit(p)
  /\ UNCHANGED <<shared, starts>>

\* The end of what Runner and TestRun are about, or a kill anywhere.
EndOrKill(p) ==
  /\ stage[p] # "off"
  /\ Exit(p)
  /\ UNCHANGED <<shared, starts>>

Next ==
  \E p \in Procs :
    \/ Start(p) \/ Script(p) \/ Presets(p) \/ FindTarget(p) \/ LoadTests(p) \/ Handlers(p)
    \/ GitConfig(p) \/ RemoveCopy(p) \/ CreateDir(p) \/ InstallComponent(p)
    \/ ComponentsInstalled(p) \/ ScriptInstall(p) \/ EndOrKill(p)

Spec == Init /\ [][Next]_vars

-----------------------------------------------------------------------------
(* Properties *)

\* Tests are run on an installation of the binaries of their own preset and on nothing
\* else, whatever earlier executions were for and wherever they were killed; it is whole
\* but for the components whose cmake was never started.  Only an execution at the same
\* time can disturb it.
InstallIsWhole ==
  \A p \in Procs : stage[p] = "run" /\ ~disturbed[p] =>
    LET parts(names) == {<<c, binary[p]>> : c \in names}
        components == ToSet(project[p].components)
    IN  /\ copy.there
        /\ parts(components \ missed[p]) \subseteq copy.has
        /\ copy.has \subseteq parts(components)

\* git is never left with a name and without an address, wherever the three calls
\* were cut off, unless one of them failed.
GitIdentity == ~gitFailed /\ "user.name" \in git => "user.email" \in git

\* What the presets of a repository give: every definition in a file that is
\* reached is there; and where nothing inherits from itself the search ends, with
\* the value of the preset or of one it inherits from, if there is any.
PresetsResolve ==
  LET presets == LoadFile(files, "top")
      Heirs(S) == S \cup {i \in DOMAIN presets : \E n \in S : \E k \in DOMAIN presets[n].inherits :
                                                  presets[n].inherits[k] = i}
      up[k \in Nat, S \in SUBSET DOMAIN presets] == IF k = 0 THEN S ELSE up[k - 1, Heirs(S)]
      All(S) == up[Cardinality(DOMAIN presets), S]
      parents(n) == Heirs({n}) \ (IF n \in ToSet(presets[n].inherits) THEN {} ELSE {n})
      circular(n) == \E m \in All({n}) : m \in All(parents(m))
      reached[k \in Nat] ==
        IF k = 0 THEN {"top"}
        ELSE reached[k - 1] \cup UNION {ToSet(files[f].include) : f \in reached[k - 1] \cap DOMAIN files}
  IN  /\ DOMAIN presets =
           UNION {{files[f].presets[i].name : i \in DOMAIN files[f].presets} :
                    f \in reached[Cardinality(DOMAIN files)] \cap DOMAIN files}
      /\ \A n \in DOMAIN presets, attr \in {"dir", "type"} :
           LET has == {presets[m][attr] : m \in All({n})} \ {Nothing}
               answer == Resolve(presets, n, attr)
           IN  ~circular(n) => IF has = {} THEN answer = Nothing ELSE answer \in has
=============================================================================
