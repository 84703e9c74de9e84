----------------------------- MODULE Startup_proofs -----------------------------
(***************************************************************************)
(* Proofs about Startup, for any number of executions and of starts, any   *)
(* projects and any preset files: what an execution that nobody disturbed  *)
(* knows of the directory it installs to, and what the executions know of  *)
(* the configuration of git.                                               *)
(***************************************************************************)
EXTENDS Startup, SequenceTheorems, TLAPS

Stages == {"off", "script", "presets", "target", "tests", "handlers", "git", "remove", "create",
           "components", "script_install", "run"}
Names == (UNION {ToSet(x.components) : x \in Projects}) \cup ToSet(GitKeys)

Types ==
  /\ stage \in [Procs -> Stages]
  /\ project \in [Procs -> Projects \cup {NoProject}]
  /\ todo \in [Procs -> Seq(Names)] /\ missed \in [Procs -> SUBSET Names]
  /\ DOMAIN binary = Procs /\ DOMAIN disturbed = Procs
  /\ copy = [there |-> copy.there, has |-> copy.has]

Undisturbed(p) == ~disturbed[p]
PartsOf(p, names) == {<<c, binary[p]>> : c \in names}
Parts(p, list) == PartsOf(p, ToSet(list))
There(has) == copy = [there |-> TRUE, has |-> has]

\* Only an execution that installs has missed anything, and one that nobody disturbs has
\* in the directory what is not still to be done or was missed, and nothing of before.
Installing(p) ==
  /\ stage[p] \notin {"components", "script_install", "run"} => missed[p] = {}
  /\ Undisturbed(p) =>
       /\ stage[p] = "create" => copy.has = {}
       /\ stage[p] = "components" =>
            /\ There(copy.has)
            /\ copy.has \cup Parts(p, todo[p]) \cup PartsOf(p, missed[p]) =
                 Parts(p, project[p].components)
       /\ stage[p] \in {"script_install", "run"} =>
            /\ There(copy.has)
            /\ copy.has \cup PartsOf(p, missed[p]) = Parts(p, project[p].components)

\* The three calls of git_config come in this order.
NameAndBranch == <<"user.name", "init.defaultBranch">>
Branch == <<"init.defaultBranch">>
GitTodo == {GitKeys, NameAndBranch, Branch, <<>>}

GitWorks == ~gitFailed
GitInv ==
  /\ \A p \in Procs : stage[p] = "git" => todo[p] \in GitTodo
  /\ GitWorks =>
       /\ "user.name" \in git => "user.email" \in git
       /\ \A p \in Procs : stage[p] = "git" /\ todo[p] # GitKeys => "user.email" \in git

Inv == Types /\ (\A p \in Procs : Installing(p)) /\ GitInv

-----------------------------------------------------------------------------

\* What is left to do when the first of it is done.
LEMMA FirstDone ==
  ASSUME NEW S, NEW s \in Seq(S), s # <<>>
  PROVE  ToSet(s) = {Head(s)} \cup ToSet(Tail(s)) /\ Tail(s) \in Seq(S)
<1>1. /\ Tail(s) \in Seq(S) /\ Len(s) \in Nat \ {0} /\ Len(Tail(s)) = Len(s) - 1
      /\ \A i \in 1 .. Len(Tail(s)) : Tail(s)[i] = s[i + 1]
      /\ DOMAIN s = 1 .. Len(s) /\ DOMAIN Tail(s) = 1 .. Len(Tail(s)) /\ Head(s) = s[1]
  BY HeadTailProperties, EmptySeq
<1>2. ASSUME NEW i \in DOMAIN s PROVE s[i] \in {Head(s)} \cup ToSet(Tail(s))
  <2>1. CASE i = 1
    BY <2>1, <1>1
  <2>2. CASE i # 1
    <3>1. i - 1 \in DOMAIN Tail(s) /\ Tail(s)[i - 1] = s[i]
      BY <1>1, <2>2
    <3> QED
      BY <3>1 DEF ToSet
  <2> QED
    BY <2>1, <2>2
<1>3. ASSUME NEW i \in DOMAIN Tail(s) PROVE Tail(s)[i] \in ToSet(s)
  BY <1>1 DEF ToSet
<1>4. Head(s) \in ToSet(s)
  BY <1>1 DEF ToSet
<1> QED
  BY <1>1, <1>2, <1>3, <1>4 DEF ToSet

\* Every step preserves the invariant.
LEMMA NextInv == Inv /\ [Next]_vars => Inv'
<1> SUFFICES ASSUME Inv, [Next]_vars PROVE Inv'
  OBVIOUS
\* The calls of git_config come one after the other.
<1>0. /\ Tail(GitKeys) = NameAndBranch /\ Tail(NameAndBranch) = Branch /\ Tail(Branch) = <<>>
      /\ Head(GitKeys) = "user.email" /\ GitKeys # <<>>
      /\ NameAndBranch # GitKeys /\ Branch # GitKeys
  <2>1. Tail(GitKeys) = NameAndBranch
    BY DEF GitKeys, NameAndBranch
  <2>2. Tail(NameAndBranch) = Branch
    BY DEF Branch, NameAndBranch
  <2>3. Tail(Branch) = <<>>
    BY DEF Branch
  <2>4. Head(GitKeys) = "user.email" /\ GitKeys # <<>>
    BY DEF GitKeys
  <2>5. Len(GitKeys) = 3 /\ Len(NameAndBranch) = 2 /\ Len(Branch) = 1
    BY DEF GitKeys, NameAndBranch, Branch
  <2>6. NameAndBranch # GitKeys /\ Branch # GitKeys
    BY <2>5
  <2> QED
    BY <2>1, <2>2, <2>3, <2>4, <2>6, Zenon
<1> DEFINE Same(q) == /\ stage'[q] = stage[q] /\ project'[q] = project[q]
                      /\ binary'[q] = binary[q] /\ todo'[q] = todo[q]
                      /\ missed'[q] = missed[q]
\* What a step of p has to be for the others, and what it has to do for itself.
<1>a. ASSUME NEW p \in Procs, Types', UNCHANGED copy, Installing(p)',
             \A q \in Procs \ {p} : Same(q) /\ (Undisturbed(q)' <=> Undisturbed(q))
      PROVE  \A q \in Procs : Installing(q)'
  BY <1>a DEF Inv, Installing, There, Parts, PartsOf
<1>b. ASSUME NEW p \in Procs, Types', Installing(p)',
             \A q \in Procs \ {p} : Same(q) /\ (Undisturbed(q)' => stage[q] = "off")
      PROVE  \A q \in Procs : Installing(q)'
  BY <1>b DEF Inv, Installing
<1>c. ASSUME NEW p \in Procs, UNCHANGED <<git, gitFailed>>, \A q \in Procs \ {p} : Same(q),
             stage'[p] # "git"
      PROVE  GitInv'
  <2>1. GitWorks' <=> GitWorks
    BY <1>c DEF GitWorks
  <2> QED
    BY <1>c, <2>1 DEF Inv, GitInv
\* Every ending of an execution.
<1>d. ASSUME NEW p \in Procs, Exit(p), UNCHANGED <<copy, git, gitFailed>> PROVE Inv'
  <2>1. \A q \in Procs \ {p} : Same(q)
    BY <1>d DEF Exit, Go, Inv, Types
  <2>2. stage'[p] = "off"
    BY <1>d DEF Exit, Go, Inv, Types
  <2>3. Types'
    BY <1>d DEF Exit, Go, Inv, Types, Stages
  <2>4. \A q \in Procs \ {p} : disturbed'[q] = disturbed[q]
    BY <1>d DEF Exit, Inv, Types
  <2>5. \A q \in Procs \ {p} : Undisturbed(q)' <=> Undisturbed(q)
    BY <2>4, Zenon DEF Undisturbed
  <2>6. Installing(p)'
    BY <1>d, <2>2 DEF Exit, Installing, Inv, Types
  <2>7. GitInv'
    BY <1>c, <1>d, <2>1, <2>2
  <2> QED
    BY <1>a, <1>d, <2>1, <2>3, <2>5, <2>6, <2>7 DEF Inv
\* A step on which a call goes on to a stage that has nothing to do with copy_dir or git.
<1>e. ASSUME NEW p \in Procs, UNCHANGED <<copy, git, gitFailed, missed, disturbed, todo>>,
             stage[p] \notin {"components", "script_install", "run"},
             NEW s \in Stages \ {"git", "create", "components", "script_install", "run"}, Go(p, s),
             UNCHANGED binary \/ \E v : binary' = [binary EXCEPT ![p] = v],
             UNCHANGED project \/ \E x \in Projects : project' = [project EXCEPT ![p] = x]
      PROVE  Inv'
  <2>1. \A q \in Procs \ {p} : Same(q)
    BY <1>e DEF Go, Inv, Types
  <2>2. stage'[p] = s
    BY <1>e DEF Go, Inv, Types
  <2>3. Types'
    BY <1>e DEF Go, Inv, Types
  <2>4. \A q \in Procs \ {p} : Undisturbed(q)' <=> Undisturbed(q)
    BY <1>e, Zenon DEF Undisturbed
  <2>5. Installing(p)'
    BY <1>e, <2>2 DEF Inv, Installing
  <2>6. GitInv'
    BY <1>c, <1>e, <2>1, <2>2
  <2>7. UNCHANGED copy
    BY <1>e
  <2> QED
    BY <1>a, <2>1, <2>3, <2>4, <2>5, <2>6, <2>7 DEF Inv
<1> HIDE DEF Same
<1>1. ASSUME NEW p \in Procs, Start(p) PROVE Inv'
  <2>1. /\ UNCHANGED <<copy, git, gitFailed, missed, disturbed, todo>> /\ Go(p, "script")
        /\ stage[p] = "off"
        /\ binary' = [binary EXCEPT ![p] = Nothing]
        /\ \E x \in Projects : project' = [project EXCEPT ![p] = x]
    BY <1>1 DEF Start, shared
  <2> QED
    BY <2>1, <1>e DEF Stages
\* The stages up to the handlers.
<1>2. ASSUME NEW p \in Procs, Script(p) \/ FindTarget(p) \/ LoadTests(p) PROVE Inv'
  <2>1. UNCHANGED <<copy, git, gitFailed>>
    BY <1>2 DEF Script, FindTarget, LoadTests, shared
  <2>a. stage[p] \notin {"components", "script_install", "run"}
    BY <1>2 DEF Script, FindTarget, LoadTests
  <2>2. Exit(p) \/ \E s \in {"presets", "tests", "handlers"} : Go(p, s) /\ UNCHANGED own
    BY <1>2 DEF Script, FindTarget, LoadTests, Continue
  <2>3. ASSUME NEW s \in {"presets", "tests", "handlers"}, Go(p, s), UNCHANGED own PROVE Inv'
    <3>1. s \in Stages \ {"git", "create", "components", "script_install", "run"}
      BY DEF Stages
    <3>2. /\ UNCHANGED <<copy, git, gitFailed, missed, disturbed, todo>>
          /\ UNCHANGED binary /\ UNCHANGED project
      BY <2>1, <2>3 DEF own
    <3> QED
      BY <2>3, <2>a, <3>1, <3>2, <1>e
  <2> QED
    BY <2>1, <2>2, <2>3, <1>d
<1>3. ASSUME NEW p \in Procs, Presets(p) PROVE Inv'
  <2>1. UNCHANGED <<copy, git, gitFailed>> /\ stage[p] = "presets"
    BY <1>3 DEF Presets, shared
  <2>2. \/ Exit(p)
        \/ /\ Go(p, "target") /\ UNCHANGED <<project, todo, missed, disturbed>>
           /\ \E v : binary' = [binary EXCEPT ![p] = v]
    BY <1>3, Zenon DEF Presets
  <2>3. "target" \in Stages \ {"git", "create", "components", "script_install", "run"}
    BY DEF Stages
  <2>4. CASE Exit(p)
    BY <2>1, <2>4, <1>d
  <2>5. CASE /\ Go(p, "target") /\ UNCHANGED <<project, todo, missed, disturbed>>
             /\ \E v : binary' = [binary EXCEPT ![p] = v]
    BY <2>1, <2>3, <2>5, <1>e
  <2> QED
    BY <2>2, <2>4, <2>5
\* git is configured, or it is on to the installation.
<1>4. ASSUME NEW p \in Procs, Handlers(p) PROVE Inv'
  <2>1. /\ UNCHANGED <<copy, git, gitFailed, project, binary, missed, disturbed>>
        /\ stage[p] = "handlers"
        /\ \/ Go(p, "remove") /\ UNCHANGED todo
           \/ Go(p, "git") /\ todo' = [todo EXCEPT ![p] = GitKeys]
    BY <1>4 DEF Handlers, shared
  <2>2. CASE Go(p, "remove") /\ UNCHANGED todo
    BY <2>1, <2>2, <1>e DEF Stages
  <2>3. CASE Go(p, "git") /\ todo' = [todo EXCEPT ![p] = GitKeys]
    <3>1. \A q \in Procs \ {p} : Same(q)
      BY <2>1, <2>3 DEF Go, Inv, Types, Same
    <3>2. stage'[p] = "git" /\ todo'[p] = GitKeys
      BY <2>3 DEF Go, Inv, Types
    <3>3. GitKeys \in Seq(Names)
      <4>1. GitKeys \in Seq(ToSet(GitKeys))
        BY DEF GitKeys, ToSet
      <4>2. ToSet(GitKeys) \subseteq Names
        BY DEF Names
      <4> QED
        BY <4>1, <4>2
    <3>4. Types'
      BY <2>1, <2>3, <3>3 DEF Go, Inv, Types, Stages
    <3>5. \A q \in Procs \ {p} : Undisturbed(q)' <=> Undisturbed(q)
      BY <2>1, Zenon DEF Undisturbed
    <3>6. Installing(p)'
      BY <2>1, <3>2 DEF Inv, Installing
    <3>7. GitWorks' <=> GitWorks
      BY <2>1 DEF GitWorks
    <3>8. GitInv'
      BY <2>1, <3>1, <3>2, <3>7 DEF Inv, GitInv, GitTodo, Same
    <3>9. UNCHANGED copy
      BY <2>1
    <3> QED
      BY <1>a, <3>1, <3>4, <3>5, <3>6, <3>8, <3>9 DEF Inv, Same
  <2> QED
    BY <2>1, <2>2, <2>3
\* One key more, or none is left.
<1>5. ASSUME NEW p \in Procs, GitConfig(p) PROVE Inv'
  <2>1. /\ UNCHANGED <<copy, project, binary, missed, disturbed>>
        /\ stage[p] = "git" /\ todo[p] \in GitTodo
    BY <1>5 DEF GitConfig, Inv, GitInv
  <2>2. CASE todo[p] = <<>>
    <3>1. Go(p, "remove") /\ UNCHANGED <<git, gitFailed, todo>>
      BY <1>5, <2>2 DEF GitConfig
    <3> QED
      BY <2>1, <3>1, <1>e DEF Stages
  <2>3. CASE todo[p] # <<>>
    <3>1. /\ todo' = [todo EXCEPT ![p] = Tail(todo[p])] /\ UNCHANGED stage
          /\ \/ git' = git \cup {Head(todo[p])} /\ UNCHANGED gitFailed
             \/ gitFailed' = TRUE /\ UNCHANGED git
      BY <1>5, <2>3 DEF GitConfig
    <3>2. \A q \in Procs \ {p} : Same(q)
      BY <2>1, <3>1 DEF Inv, Types, Same
    <3>3. Types'
      <4>1. Tail(todo[p]) \in Seq(Names)
        BY <2>3, FirstDone DEF Inv, Types
      <4> QED
        BY <2>1, <3>1, <4>1 DEF Inv, Types
    <3>4. \A q \in Procs \ {p} : Undisturbed(q)' <=> Undisturbed(q)
      BY <2>1, Zenon DEF Undisturbed
    <3>5. Installing(p)'
      BY <2>1, <3>1 DEF Inv, Installing
    <3>6. GitInv'
      <4>1. todo'[p] = Tail(todo[p]) /\ todo'[p] \in GitTodo /\ todo'[p] # GitKeys
        BY <2>1, <2>3, <3>1, <1>0 DEF Inv, Types, GitTodo
      <4>2. CASE git' = git \cup {Head(todo[p])} /\ UNCHANGED gitFailed
        <5>1. GitWorks' <=> GitWorks
          BY <4>2 DEF GitWorks
        <5>2. GitWorks => "user.email" \in git'
          BY <2>1, <4>2, <1>0 DEF Inv, GitInv
        <5> QED
          BY <3>1, <3>2, <4>1, <4>2, <5>1, <5>2 DEF Inv, GitInv, Same
      <4>3. CASE gitFailed' = TRUE
        <5>1. ~GitWorks'
          BY <4>3 DEF GitWorks
        <5> QED
          BY <3>1, <3>2, <4>1, <5>1 DEF Inv, GitInv, Same
      <4> QED
        BY <3>1, <4>2, <4>3
    <3>7. UNCHANGED copy
      BY <2>1
    <3> QED
      BY <1>a, <3>2, <3>3, <3>4, <3>5, <3>6, <3>7 DEF Inv, Same
  <2> QED
    BY <2>2, <2>3
\* Whoever changes copy_dir disturbs the others.
<1>f. ASSUME NEW p \in Procs, Disturb(p) \/ disturbed' = [q \in Procs |-> q # p /\ stage[q] # "off"]
      PROVE  /\ DOMAIN disturbed' = Procs
             /\ \A q \in Procs \ {p} : Undisturbed(q)' => stage[q] = "off"
             /\ Disturb(p) /\ stage[p] # "remove" => (Undisturbed(p)' => Undisturbed(p))
  <2>1. CASE Disturb(p)
    <3>1. DOMAIN disturbed' = Procs
      BY <2>1 DEF Disturb
    <3>2. \A q \in Procs \ {p} : Undisturbed(q)' => stage[q] = "off"
      BY <2>1, Zenon DEF Disturb, Undisturbed
    <3>3. stage[p] # "remove" => (Undisturbed(p)' => Undisturbed(p))
      BY <2>1, Zenon DEF Disturb, Undisturbed
    <3> QED
      BY <3>1, <3>2, <3>3
  <2>2. CASE disturbed' = [q \in Procs |-> q # p /\ stage[q] # "off"]
    <3>1. DOMAIN disturbed' = Procs
      BY <2>2
    <3>2. \A q \in Procs \ {p} : Undisturbed(q)' => stage[q] = "off"
      BY <2>2, Zenon DEF Undisturbed
    <3>3. Disturb(p) => DOMAIN disturbed' = Procs /\ (stage[p] # "remove" => (Undisturbed(p)' => Undisturbed(p)))
      BY Zenon DEF Disturb, Undisturbed
    <3> QED
      BY <3>1, <3>2, <3>3
  <2> QED
    BY <1>f, <2>1, <2>2
\* An execution whose install step failed.
<1>g. ASSUME NEW p \in Procs, Fail(p), UNCHANGED <<git, gitFailed>>,
             copy' = [there |-> copy'.there, has |-> copy'.has]
      PROVE  Inv'
  <2>1. \A q \in Procs \ {p} : Same(q)
    BY <1>g DEF Fail, Go, Inv, Types, Same
  <2>2. stage'[p] = "off"
    BY <1>g DEF Fail, Go, Inv, Types
  <2>3. DOMAIN disturbed' = Procs /\ \A q \in Procs \ {p} : Undisturbed(q)' => stage[q] = "off"
    BY <1>g, <1>f DEF Fail
  <2>4. Types'
    BY <1>g, <2>3 DEF Fail, Go, Inv, Types, Stages
  <2>5. Installing(p)'
    BY <1>g, <2>2 DEF Fail, Installing, Inv, Types
  <2>6. GitInv'
    BY <1>c, <1>g, <2>1, <2>2
  <2> QED
    BY <1>b, <2>1, <2>3, <2>4, <2>5, <2>6 DEF Inv
\* What was there is removed, in whole or in part.
<1>6. ASSUME NEW p \in Procs, RemoveCopy(p) PROVE Inv'
  <2>1. UNCHANGED <<git, gitFailed>> /\ stage[p] = "remove"
    BY <1>6 DEF RemoveCopy
  <2>2. CASE /\ copy' = [there |-> FALSE, has |-> {}] /\ Go(p, "create")
             /\ Disturb(p) /\ UNCHANGED <<project, binary, todo, missed>>
    <3>1. \A q \in Procs \ {p} : Same(q)
      BY <2>2 DEF Go, Inv, Types, Same
    <3>2. stage'[p] = "create" /\ copy'.has = {}
      BY <2>2 DEF Go, Inv, Types
    <3>3. DOMAIN disturbed' = Procs /\ \A q \in Procs \ {p} : Undisturbed(q)' => stage[q] = "off"
      BY <2>2, <1>f
    <3>4. copy' = [there |-> copy'.there, has |-> copy'.has]
      BY <2>2
    <3>5. Types'
      BY <2>2, <3>3, <3>4 DEF Go, Inv, Types, Stages
    <3>6. Installing(p)'
      BY <2>1, <2>2, <3>2 DEF Inv, Installing
    <3>7. GitInv'
      BY <1>c, <2>1, <3>1, <3>2
    <3> QED
      BY <1>b, <3>1, <3>3, <3>5, <3>6, <3>7 DEF Inv
  <2>3. CASE /\ \E left \in SUBSET copy.has : copy' = [copy EXCEPT !.has = left]
             /\ Fail(p)
    <3>1. copy' = [there |-> copy'.there, has |-> copy'.has]
      BY <2>3 DEF Inv, Types
    <3> QED
      BY <2>1, <2>3, <3>1, <1>g
  <2> QED
    BY <1>6, <2>2, <2>3 DEF RemoveCopy
\* The directory is there again, and everything is still to be installed.
<1>7. ASSUME NEW p \in Procs, CreateDir(p) PROVE Inv'
  <2>1. UNCHANGED <<git, gitFailed>> /\ stage[p] = "create"
    BY <1>7 DEF CreateDir
  <2>2. CASE Exit(p) /\ UNCHANGED copy
    BY <2>1, <2>2, <1>d
  <2>3. CASE /\ copy' = [copy EXCEPT !.there = TRUE] /\ Go(p, "components") /\ Disturb(p)
             /\ todo' = [todo EXCEPT ![p] = project[p].components]
             /\ UNCHANGED <<project, binary, missed>>
    <3>1. \A q \in Procs \ {p} : Same(q)
      BY <2>3 DEF Go, Inv, Types, Same
    <3>2. stage'[p] = "components" /\ todo'[p] = project[p].components
      BY <2>3 DEF Go, Inv, Types
    <3>3. /\ DOMAIN disturbed' = Procs
          /\ \A q \in Procs \ {p} : Undisturbed(q)' => stage[q] = "off"
          /\ Undisturbed(p)' => Undisturbed(p)
      BY <2>1, <2>3, <1>f
    <3>4. copy' = [there |-> TRUE, has |-> copy.has] /\ copy' = [there |-> copy'.there, has |-> copy'.has]
      BY <2>3 DEF Inv, Types
    <3>5. project[p].components \in Seq(Names)
      <4>1. NoProject.components = <<>>
        BY DEF NoProject
      <4>2. CASE project[p] \in Projects
        <5>1. project[p].components \in Seq(ToSet(project[p].components))
          BY <4>2, ProjectsAssumption
        <5>2. ToSet(project[p].components) \subseteq Names
          BY <4>2 DEF Names
        <5> QED
          BY <5>1, <5>2
      <4>3. CASE project[p] = NoProject
        BY <4>1, <4>3, EmptySeq
      <4> QED
        BY <4>2, <4>3 DEF Inv, Types
    <3>6. Types'
      <4>1. copy' = [there |-> copy'.there, has |-> copy'.has]
        BY <3>4
      <4> QED
        BY <2>3, <3>3, <3>5, <4>1 DEF Go, Inv, Types, Stages
    <3>7. Installing(p)'
      <4> SUFFICES ASSUME Undisturbed(p)'
                   PROVE  /\ There(copy.has)'
                          /\ copy'.has \cup Parts(p, todo[p])' \cup PartsOf(p, missed[p])' =
                               Parts(p, project[p].components)'
        BY <3>2 DEF Installing
      <4>1. copy.has = {}
        BY <2>1, <3>3 DEF Inv, Installing
      <4>2. copy'.has = copy.has
        BY <3>4
      <4>3. There(copy.has)'
        BY <3>4, <4>2 DEF There
      <4>4. Parts(p, todo[p])' = Parts(p, project[p].components)'
        BY <2>3, <3>2 DEF Parts, PartsOf
      <4>5. PartsOf(p, missed[p])' = {}
        BY <2>1, <2>3 DEF Inv, Installing, PartsOf
      <4> QED
        BY <4>1, <4>2, <4>3, <4>4, <4>5
    <3>8. GitInv'
      BY <1>c, <2>1, <3>1, <3>2
    <3> QED
      BY <1>b, <3>1, <3>3, <3>6, <3>7, <3>8 DEF Inv
  <2> QED
    BY <1>7, <2>2, <2>3 DEF CreateDir
\* One component more.
<1>8. ASSUME NEW p \in Procs, InstallComponent(p) PROVE Inv'
  <2> DEFINE part == [there |-> TRUE, has |-> copy.has \cup {<<Head(todo[p]), binary[p]>>}]
  <2>1. UNCHANGED <<git, gitFailed>> /\ stage[p] = "components" /\ todo[p] # <<>>
    BY <1>8 DEF InstallComponent
  <2>2. CASE copy' \in {copy, part} /\ Fail(p)
    <3>1. copy' = [there |-> copy'.there, has |-> copy'.has]
      BY <2>2 DEF Inv, Types
    <3> QED
      BY <2>1, <2>2, <3>1, <1>g
  <2> DEFINE Did == copy' = part /\ Disturb(p) /\ UNCHANGED missed
             Missed == /\ missed' = [missed EXCEPT ![p] = @ \cup {Head(todo[p])}]
                       /\ UNCHANGED <<copy, disturbed>>
  <2>3. CASE /\ Did \/ Missed
             /\ todo' = [todo EXCEPT ![p] = Tail(todo[p])]
             /\ UNCHANGED <<stage, project, binary>>
    <3>1. \A q \in Procs \ {p} : Same(q)
      BY <2>3 DEF Inv, Types, Same
    <3>2. /\ ToSet(todo[p]) = {Head(todo[p])} \cup ToSet(Tail(todo[p])) /\ Tail(todo[p]) \in Seq(Names)
          /\ todo'[p] = Tail(todo[p]) /\ Head(todo[p]) \in Names
      <4>1. todo[p] \in Seq(Names) /\ ToSet(todo[p]) \subseteq Names
        BY DEF Inv, Types, ToSet
      <4> QED
        BY <2>1, <2>3, <4>1, FirstDone DEF Inv, Types
    <3>3. Did => /\ DOMAIN disturbed' = Procs
                 /\ \A q \in Procs \ {p} : Undisturbed(q)' => stage[q] = "off"
                 /\ Undisturbed(p)' => Undisturbed(p)
      BY <2>1, <1>f
    <3>4. Missed => /\ DOMAIN disturbed' = Procs
                    /\ \A q \in Procs : Undisturbed(q)' <=> Undisturbed(q)
      <4>1. Missed => disturbed' = disturbed
        OBVIOUS
      <4>2. disturbed' = disturbed => \A q \in Procs : Undisturbed(q)' <=> Undisturbed(q)
        BY Zenon DEF Undisturbed
      <4> QED
        BY <4>1, <4>2 DEF Inv, Types
    <3>5. Types'
      <4>1. copy' = [there |-> copy'.there, has |-> copy'.has]
        BY <2>3 DEF Inv, Types
      <4>2. missed' \in [Procs -> SUBSET Names]
        <5>1. CASE Did
          BY <5>1 DEF Inv, Types
        <5>2. CASE Missed
          <6>1. Head(todo[p]) \in Names
            BY <3>2
          <6>2. missed[p] \cup {Head(todo[p])} \in SUBSET Names
            BY <6>1 DEF Inv, Types
          <6> QED
            BY <5>2, <6>2 DEF Inv, Types
        <5> QED
          BY <2>3, <5>1, <5>2
      <4>3. DOMAIN disturbed' = Procs
        BY <2>3, <3>3, <3>4
      <4> QED
        BY <2>3, <3>2, <4>1, <4>2, <4>3 DEF Inv, Types
    <3>6. Installing(p)'
      <4> SUFFICES ASSUME Undisturbed(p)'
                   PROVE  /\ There(copy.has)'
                          /\ copy'.has \cup Parts(p, todo[p])' \cup PartsOf(p, missed[p])' =
                               Parts(p, project[p].components)'
        BY <2>1, <2>3 DEF Installing
      <4>1. /\ There(copy.has)
            /\ copy.has \cup Parts(p, todo[p]) \cup PartsOf(p, missed[p]) =
                 Parts(p, project[p].components)
        BY <2>1, <2>3, <3>3, <3>4 DEF Inv, Installing
      <4> DEFINE first == {<<Head(todo[p]), binary[p]>>}
      <4>2. /\ Parts(p, project[p].components)' = Parts(p, project[p].components)
            /\ Parts(p, todo[p]) = first \cup Parts(p, todo[p])'
        BY <2>3, <3>2 DEF Parts, PartsOf
      <4>3. CASE Did
        <5>1. copy'.has = copy.has \cup first /\ There(copy.has)'
          BY <4>3 DEF There
        <5>2. PartsOf(p, missed[p])' = PartsOf(p, missed[p])
          BY <2>3, <4>3 DEF PartsOf
        <5> QED
          BY <4>1, <4>2, <5>1, <5>2
      <4>4. CASE Missed
        <5>1. copy'.has = copy.has /\ There(copy.has)'
          BY <4>1, <4>4 DEF There
        <5>2. missed'[p] = missed[p] \cup {Head(todo[p])}
          BY <4>4 DEF Inv, Types
        <5>3. PartsOf(p, missed[p])' = PartsOf(p, missed[p]) \cup first
          BY <2>3, <5>2 DEF PartsOf
        <5> HIDE DEF first
        <5> QED
          BY <4>1, <4>2, <5>1, <5>3
      <4> QED
        BY <2>3, <4>3, <4>4
    <3>7. stage'[p] # "git"
      BY <2>1, <2>3
    <3>8. GitInv'
      BY <1>c, <2>1, <3>1, <3>7
    <3>9. CASE Did
      BY <1>b, <3>1, <3>3, <3>5, <3>6, <3>8, <3>9 DEF Inv
    <3>10. CASE Missed
      BY <1>a, <3>1, <3>4, <3>5, <3>6, <3>8, <3>10 DEF Inv
    <3> QED
      BY <2>3, <3>9, <3>10
  <2> QED
    BY <1>8, <2>2, <2>3 DEF InstallComponent
\* Nothing is left to be installed; the install function of the script; the tests.
<1>9. ASSUME NEW p \in Procs, ComponentsInstalled(p) \/ ScriptInstall(p) PROVE Inv'
  <2>1. UNCHANGED <<copy, git, gitFailed>>
    BY <1>9 DEF ComponentsInstalled, ScriptInstall, shared
  <2>2. CASE Exit(p)
    BY <2>1, <2>2, <1>d
  <2>3. CASE /\ \/ stage[p] = "components" /\ todo[p] = <<>> /\ Go(p, "script_install")
                \/ stage[p] = "script_install" /\ Go(p, "run")
             /\ UNCHANGED own
    <3>1. \A q \in Procs \ {p} : Same(q)
      BY <2>3 DEF Go, Inv, Types, own, Same
    <3>2. /\ stage'[p] \in {"script_install", "run"}
          /\ (stage[p] = "components" /\ todo[p] = <<>>) \/ stage[p] = "script_install"
      BY <2>3 DEF Go, Inv, Types
    <3>3. Types'
      BY <2>1, <2>3 DEF Go, Inv, Types, Stages, own
    <3>4. \A q \in Procs : Undisturbed(q)' <=> Undisturbed(q)
      BY <2>3, Zenon DEF Undisturbed, own
    <3>5. Installing(p)'
      <4> DEFINE whole == /\ There(copy.has)
                          /\ copy.has \cup PartsOf(p, missed[p]) = Parts(p, project[p].components)
      <4> SUFFICES ASSUME Undisturbed(p)' PROVE whole'
        BY <3>2 DEF Installing
      <4>1. whole
        <5>1. CASE stage[p] = "components" /\ todo[p] = <<>>
          <6>1. Parts(p, todo[p]) = {}
            BY <5>1 DEF Parts, PartsOf, ToSet
          <6> QED
            BY <3>4, <5>1, <6>1 DEF Inv, Installing
        <5>2. CASE stage[p] = "script_install"
          BY <3>4, <5>2 DEF Inv, Installing
        <5> QED
          BY <3>2, <5>1, <5>2
      <4> QED
        BY <2>1, <2>3, <4>1 DEF There, Parts, PartsOf, own
    <3>6. GitInv'
      BY <1>c, <2>1, <3>1, <3>2
    <3>7. UNCHANGED copy
      BY <2>1
    <3> QED
      BY <1>a, <3>1, <3>3, <3>4, <3>5, <3>6, <3>7 DEF Inv, Same
  <2> QED
    BY <1>9, <2>2, <2>3 DEF ComponentsInstalled, ScriptInstall, Continue
\* A kill.
<1>10. ASSUME NEW p \in Procs, EndOrKill(p) PROVE Inv'
  BY <1>10, <1>d DEF EndOrKill, shared
<1>11. CASE UNCHANGED vars
  <2>1. UNCHANGED <<copy, git, stage, project, binary, todo, missed, disturbed, gitFailed>>
    BY <1>11 DEF vars, shared, own
  <2>2. Types'
    BY <2>1 DEF Inv, Types
  <2>3. \A p \in Procs : Undisturbed(p)' <=> Undisturbed(p)
    BY <2>1, Zenon DEF Undisturbed
  <2>4. \A p \in Procs : Installing(p)'
    BY <2>1, <2>3 DEF Inv, Installing, There, Parts, PartsOf
  <2>5. GitWorks' <=> GitWorks
    BY <2>1 DEF GitWorks
  <2>6. GitInv'
    BY <2>1, <2>5 DEF Inv, GitInv
  <2> QED
    BY <2>2, <2>4, <2>6 DEF Inv
<1> QED
  BY <1>1, <1>2, <1>3, <1>4, <1>5, <1>6, <1>7, <1>8, <1>9, <1>10, <1>11 DEF Next

\* The invariant holds in every state that executions can reach, wherever they are killed.
THEOREM Invariance == Spec => []Inv
<1>1. Init => Inv
  <2> SUFFICES ASSUME Init PROVE Inv
    OBVIOUS
  <2>1. copy = [there |-> copy.there, has |-> copy.has]
    BY DEF Init
  <2>2. Types
    BY <2>1 DEF Init, Types, Stages
  <2>3. \A p \in Procs : Installing(p)
    BY DEF Init, Installing
  <2>4. GitInv
    BY DEF Init, GitInv
  <2> QED
    BY <2>2, <2>3, <2>4 DEF Inv
<1> QED
  BY <1>1, NextInv, PTL DEF Spec

\* Tests are run on an installation of the binaries of their own preset and on nothing
\* else, for any number of executions that were killed anywhere before; only a cmake that
\* was never started can leave a component out.
THEOREM InstalledWhole == Spec => []InstallIsWhole
<1>1. Inv => InstallIsWhole
  <2> SUFFICES ASSUME Inv, NEW p \in Procs, stage[p] = "run", ~disturbed[p]
               PROVE  /\ copy.there
                      /\ PartsOf(p, ToSet(project[p].components) \ missed[p]) \subseteq copy.has
                      /\ copy.has \subseteq PartsOf(p, ToSet(project[p].components))
    BY DEF InstallIsWhole, PartsOf
  <2>1. /\ There(copy.has)
        /\ copy.has \cup PartsOf(p, missed[p]) = Parts(p, project[p].components)
    BY DEF Inv, Installing, Undisturbed
  <2>2. copy.there
    BY <2>1 DEF There
  <2>3. \A x \in PartsOf(p, ToSet(project[p].components) \ missed[p]) :
          x \in Parts(p, project[p].components) /\ x \notin PartsOf(p, missed[p])
    BY DEF Parts, PartsOf
  <2> QED
    BY <2>1, <2>2, <2>3 DEF Parts
<1> QED
  BY <1>1, Invariance, PTL

\* git is never left with a name and without an address, unless git_config failed.
THEOREM GitHasAddress == Spec => []GitIdentity
<1>1. Inv => GitIdentity
  BY DEF Inv, GitInv, GitWorks, GitIdentity
<1> QED
  BY <1>1, Invariance, PTL
=============================================================================
