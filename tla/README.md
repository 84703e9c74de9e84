# json-runner: formal verification

`json-runner` reads test descriptions from JSON files, runs the program they
describe with each test's arguments and compares the return code and both output
streams with what the file expects. This directory holds TLA+ models of it, the
TLC instances that check them, and proofs. Paths below are relative to the
repository.

## 1. Inventory

| part | source | state | operations | hard because |
|---|---|---|---|---|
| `mt::mt_queue` | `src/mt/queue.hh` | `items_`, `total_`, `popped_`, mutex, condition variable | `push`, `wake`, `wait_and_pop` | waits that may be missed, wake-ups that mean nothing, a stop token read twice |
| `mt::thread_pool` | `src/mt/thread_pool.*` | the queue, `threads_` | constructor, `push`, `thread_proc`, destructor | destruction while threads wait or work |
| the two phases of `tool()`, `counters` | `src/main.cc:143-235, 508-563` | futures, counters, exit code | push, get, report, remove directory, summary | results are collected in an order the threads do not follow; exceptions come out of `get()` |
| `testbed::test`, running | `src/testbed/test.cc:208-218, 428-514`, `src/main.cc:256-311` | `cwd_`, the temporary directory, the capture | prepare, call, post, cleanup, verdict | shares the process's current directory; every step may fail |
| `testbed::test`, the file | `src/testbed/test.cc:100-196, 253-386, 516-543, 616-642`, `src/main.cc:237-250` | the JSON data | load, renovate, nullify, store, clip | what is stored must be read back as the same |
| `testbed::commands` | `src/testbed/commands.cc` | `cwd_`, `stored_env` | cd, cp, ro, mkdirs, rm, touch, unpack, store, mock, generate, shell | partial failures, `safe-` |
| `testbed::runtime` | `src/testbed/runtime.cc` | constant in a run | expand, run, fix | `fix` is to undo `expand`; termination |
| `io::run`, posix | `src/posix/run.cc` | descriptors, child, reader threads | open, spawn, io, waitpid | concurrent calls share the descriptor table and the children of the process |
| `io::run`, win32 | `src/win32/run.cc` | handles | locate, open, create, io, wait | a handle list that may fail to be made or filled; quoting of arguments |
| `base` | `src/base/*` | none | diff, quoting, splitting, CMake tokenizer | boundary cases of pure algorithms |
| `io::presets` | `src/io/presets.cc` | the presets of the project | inherited binary dir and build type | cycles |
| install | `src/main.cc:50-114` | the copy directory | remove, create, install components, script | partial failure, kills, two executions with one directory |
| configuration | `src/chai.cc`, `src/bindings/*` | the project, git's global configuration | run the script, make the handlers, configure git | three calls that may be cut off |
| build flow | `tools/flow/*` | environment, matrix | matrix, steps | process-wide environment |
| release | `tools/release.py`, `tools/github/*` | repository, GitHub draft | version, changelog, tag, upload, publish | steps that cannot be taken together |

How they interact: `tool()` loads the tests, installs the tested program, pushes
one `packaged_task` per test that is not linear into the pool and reads the
futures in order. Each task is `run_test`: it calls `test::run`, which goes
through `runtime::run` to the commands and through `io::run` to the tested program.
What concurrent tests share is the queue and the standard output, and, of the
process, the current directory, the descriptor table and the children.

Correctness, for each part:

- queue and pool: no task lost, repeated or started out of order; no thread asleep
  while a task is waiting for it; no call of an empty task; destruction that ends;
- runner: each test reported once, in one order, under its own outcome; an exit
  code that agrees; no directory removed under a running test;
- a test: it is called where it should be; the first failing call decides; only a
  full run rewrites the file;
- `io::run`: the whole output of its own child and nothing else, the child's own
  status, no descriptor left, no deadlock on full pipes;
- the file: stored and loaded again, the same test; no run replaces an expectation;
- the commands of a test: what they may touch outside `$TMP`, what the call gets from
  them, what the report says of it;
- installation: tests run on a whole installation of their own build;
- `expand`/`fix`, diff, quoting, presets, the project file: agreement with a reference.

`PROJECT.json` lists each part with its status and every hazard at its line.

## 2. Modules

    TaskPool           what a pool promises (abstract)
    MtQueue            mt_queue, with one step per critical section or look at shared state
    ThreadPool         EXTENDS MtQueue: threads, owner, futures; implements TaskPool
    ThreadPool_proofs  EXTENDS ThreadPool, TLAPS
    TestRun            the life of one test
    TestRun_proofs     EXTENDS TestRun, TLAPS
    Runner             EXTENDS TestRun, Pool == INSTANCE TaskPool: both phases of tool()
    Runner_proofs      EXTENDS Runner, TestRun_proofs
    FileSystem         what the commands need of std::filesystem
    Commands           EXTENDS FileSystem: one test's commands; implements TestRun
    Commands_proofs    EXTENDS Commands, TLAPS
    IoRun              what io::run promises on either system (abstract)
    ProcessIo          io::run on POSIX, several calls at once; implements IoRun
    ProcessIo_proofs   EXTENDS ProcessIo, TLAPS
    Win32Io            io::run on Windows, several calls at once; implements IoRun
    Win32Io_proofs     EXTENDS Win32Io, TLAPS
    TestFile           the JSON file of a test across executions
    TestFile_proofs    EXTENDS TestFile, TLAPS
    Startup            script, presets, git and install(), by several executions
    Startup_proofs     EXTENDS Startup, TLAPS
    Arguments          quote, split and the Windows command line
    Diff               find_route and diff
    FixedText          expand, replace_var and fix
    CMakeProject       commands out of tokens, and load_project
    Text               EXTENDS the four above: one conversion at a time
    MC*                their instances for TLC

The runner is composed with the *abstract* pool. `ThreadPool` is checked to
implement that (`ImplementsTaskPool`), so the runner need not carry the
queue's interleavings. In the same way `Commands` is checked to implement `TestRun`
(`ImplementsTestRun`), which `Runner` is built on, so the runner need not carry the
file system.

### MtQueue, ThreadPool

| model | code |
|---|---|
| `m`, `items`, `total`, `popped`, `waiting` | `m_`, `items_`, `total_`, `popped_`, the threads blocked in `cv_` |
| `stop`, `pc`, `hand` | a thread's stop token, its position, its local `task` |
| `Lock`, `Test`, `Park`, `Relock`, `Take`, `Return`, `Unlock` | `wait_and_pop`, `queue.hh:54-65` |
| `PushElement` (`NotifyOne`), `NotifyAll` | `push`, `wake` |
| `Loop`, `Discard`, `Call`, `Run` | `thread_proc` |
| `SpawnThread`; `RequestStop`, `Wake`, `Join` | constructor; destructor with `~jthread` and `~mt_queue` |
| `Push`, `PushedAll`, `Get`, `GetThrows`, `GotAll` | `main.cc:515-542` |
| `outcome[t]` | shared state of a future: value, exception or broken promise |

The predicate of `cv_.wait` is evaluated in one step and the thread parks in
another. The mutex is held in between, so a `push` cannot come there; `wake()` takes no
mutex, and a stop can be requested at any time, so these can. In the same way the second
look at the stop token (`Return`), the release of the mutex (`Unlock`) and what the
thread then does with its task (`Call`, `Discard`) are steps of their own: a stop
between them comes too late, and the task is started. A spurious wake-up
may happen whenever a thread is parked. After `GetThrows` the choice of
`std::terminate` with or without unwinding is the implementation's, and both
are modelled.

### TestRun, Runner

A test moves through `mkdirs`, `prepare`, `call`, `post`, `cleanup` and `judge`,
each as `test::run` and `run_test2` do. A command is known or not, has enough
arguments or not, works or not, is `safe-` or not, and `Verdict` is what
`runtime::run` makes of that. Only `cd` changes state the properties can see, so
it has its own action, with a directory of the test or one outside of `$TMP` as the target. An
exception may leave a test at any place (`Throw`). Directories are told apart by their owner
only. `Expected` has the return code in the file of each test, or `Unset`; `Judge` compares it
with the code of the last call, and the output is the same or not. `store()` reports no
error, so `file` may afterwards have the new code, the old value or be cut. `RemoveDir` may
leave the directory, for the error of `remove_all` is dropped. `Posts` has the length of each
test's `post`, which is run to its end unless a code before it is not zero. Lists of commands
need no bound: a list ends when it likes.

`Runner` is the main thread. `reports` is the sequence of calls of
`counters.report`; `main` is the position in `tool()`; `runLinear` is `RUN_LINEAR`,
chosen at the start. `CLIP_FAILED` is not a result because no code returns it.

### FileSystem, Commands

| model | code |
|---|---|
| `disk` | the file system: a function from the paths that exist to what they name |
| `MakeDirs`, `Write`, `SetReadOnly`, `RemoveAll`, `Copy` (`Targets`, `CopyTo`) | `create_directories`, `fopen` with the text, `permissions`, `remove_all`, `copy` |
| `cwd`, `process` | `cwd_`, and the working directory of the process |
| `stored`, `mocked` | `stored_env`, `needs_mocks_in_path` |
| `FileLine` | `cp`, `ro`, `mkdirs`, `rm`, `touch`, `unpack`, `generate` |
| `CdLine`, `StoreLine`, `MockLine`, `ProgramLine` | `cd`, `store`, `mock`; target, `allow`ed programs, `shell`, `handle`d functions |
| `RunLine`, `BadLine`, `Verdict` | `run_cmds` and `runtime::run` |
| `call`, `Call` | `expand_test_calls`, `copy_environment_block` and `observe` |
| `shown`, `Judge` | what `test::report` says of the call |

A file has all its names with it, and two names of one file are hard links. Links are
followed wherever they stand in a path: `Place` is the entry a path names, with the links on
the way to it followed, and `Real` what it leads to. `MaxLinks` bounds how many are followed
for one path, as the kernel does. An operation
of `FileSystem`, and each command, gives the outcomes it may have, a file system and
whether it worked. `cp` is
its two passes, with hard links and without: each stops at the first file it
cannot do, in any order, and what it did stays done. A file that meets a directory is, in the
pass that copies, put into that directory, at whatever level it is. `remove_all` removes from
the leaves up until it cannot, and follows no link at the end of its path or below it. Writing
follows links and is seen under every name of a file. `process` may start in `Moved`, where an
earlier linear test has left it.
The user is one whom permission bits bind (not root). What the environment of a
call is reduced to is `PATH`, which `env` may leave, remove, replace or append to.
A line with too few arguments dies on `args.front()` when it has none, and a
function of the script may call `std::exit`; both are the result `threw`. Left out: a disk that is
full, changes that programs run by a command make to the files of the model, and `..` in a
path. A path outside of `Paths`, the bound, is one where nothing can be made; and a copy in
which two entries would go to one place, or one to a place below its source (`apart`), is
outside of the model. Of an archive there is one entry.

### ProcessIo, Win32Io, IoRun

A run goes through `pipes_type::open` (a pipe, or a `dup` of the other stream's),
`spawn`, `pipes_type::io` (close the write ends, read, join), `waitpid` and the
destructor. A child inherits the write ends other runs have open (`inherited`).
A pipe is two counters, what was `sent` and what was `got`, and holds `Capacity`
writes. A child may write to its streams in any order, close them and go on (`HangUp`), or
exit. A reader sees the end of file when nobody can write any more
(`HasWriter`). When `posix_spawn` fails its `pid_t` is uninitialised, so `pid` is any
of: a child of this or another run, -1, and no child at all. When `dup` fails its -1 is passed on
and the child has the stream of the program instead (`Redirect`). `terminal` is a pipe
on POSIX, as in the code. Left out: `options.input` and `/dev/null` (no test
uses the first, and the second has no reader), and `where()`, which returns before
anything is opened, as `OpenFails` does. A reader thread that cannot be
created is not modelled.

`Win32Io` has the same steps on handles: a child inherits what the attribute list
names (`Lists`). If the list cannot be made nothing is inherited and the streams are
not redirected; if it cannot be filled everything inheritable is. A stream that is
redirected to the other one is opened by nobody on Windows, so its handle is null and
what is written to it is lost. The readers start after
`WaitForMultipleObjects`, whose result is not looked at. It returns when one of the two handles
has something to give or is at its end, or when one is null and the wait fails (`Await`).
How a pipe behaves in such a wait is documented nowhere, so it may also return earlier
(`AwaitNothing`), which no property relies on.

`IoRun` says what both promise: a call that is refused has started no child, and one
that returns does so after its child is over and with all that went into the pipes.

### TestFile

One file, through any number of executions and rebuilds of the tested program.
`data` is the JSON object, from keys to values; a file that was cut has no keys.
Each action is one execution as far as this test is concerned: `Reject` (load gives
no test), `Compare`, `Save`, `Skip`, `Nullify`, each with `--schema` or without. The two
`store()` an execution may make are in the action, and each may fail or cut the
file. Texts are sequences of characters with the newline told apart, because that is what
`to_lines` and `out_from_node` treat specially. A string and an array of just
this string load as the same, so both are a sequence of one line. `KeyOrder` and
`LowerBound` stand for `json::map`, whose source is not in the repository:
the semantics of `lower_bound` is the one `load()` relies on for `$schema`.
The keys of `check` are those the code reads, `stdin` for stdout and `stderr` (see section 3).
Left out: a malformed `expected` (the validity of its second stream is written over that of
the first at `test.cc:164`, and an empty array makes `load` throw at `test.cc:134`), the
meaning of `output`, and what other keys say.

### Startup

Each execution goes from the script through presets, target, tests, handlers and
`install()` to `run`, where the other modules begin. It may end at each of these, be killed
anywhere and be started again for another project. `copy` is
`build/.json-runner`, with the components in it and the build each came from;
`git` the keys that `git config --global` has. `LoadFile` and `Resolve` are the two recursions of
`presets.cc`: `seen` of the second is never filled, so a search deeper than there are presets
is `Endless` and the execution ends with a full stack. A `cmake` that could not be started may
seem to have returned 0 (see `SpawnFails` of `ProcessIo`): `missed` has the components it was
for. At the start git
has no name or has both name and address: a name without an address is no work of this program.

### Text

Four modules of pure operators, and `Text`, whose steps ask for one conversion each.

- `Arguments`. Characters are one of each class that `quote`, `split`, `append_arg`
  and `CommandLineToArgvW` treat differently; the last is external. `arg_length` only
  reserves memory and is left out.
- `Diff`. `find_route` by generations, with its guards as they are: `MaySlide` compares
  `step.after` with the length of `before`. The matrix of costs is the set of places
  that were reached: generations go by cost, so a place is never reached for less later.
- `FixedText`. The name of a variable is one symbol, or two texts that are never
  mistaken for parts of each other; a value is a text and can occur in another. A
  patch is the lines it matches and what it makes of them. Left out: the
  backslashes of Windows, and capture groups.
- `CMakeProject`. A file is its tokens. `DESCRIPITON` is spelled as in the code. A
  `project()` or `set()` with too few arguments indexes past the end and is outside of the model.

## 3. Runs

| run | instance | what it shows |
|---|---|---|
| `pool` | 3 threads, 3 tests | safety, reporting of all tests, that nothing but a missed `wake()` holds the destructor up, refinement of `TaskPool` |
| `pool_shutdown` | 2 threads, 1 test | **violation**: `~thread_pool` may not return |
| `runner` | 3 tests, one linear between two pooled; one without `expected`, one that expects a failure and one a success; two with one `post`; `RUN_LINEAR` or not | order, counters, verdicts, directories, saving, where tests are called |
| `process_io` | 2 calls, 2 modes each, capacity 1, 2 writes and 1 | both calls return; refinement of `IoRun` |
| `inherited_pipe` | 2 calls | **violation**: a call waits for a foreign child |
| `spawn_fails` | 2 calls | **violation**: a call takes the status of a foreign child |
| `win32_io` | 2 calls, one in 3 modes and with 2 writes, one plain and silent | what is captured, when a call returns, that no write blocks for ever; refinement of `IoRun` |
| `test_file` | 8 texts on stdout, 3 on stderr, 8 files, 4 forms of `check`, `--schema`, `--lang` | storing and loading, comparing, who writes the file when |
| `nullify_lang` | the same | **violation**: `--nullify --lang` overwrites another key |
| `commands` | 23 lines, 3 of them in a test, 19 paths, 2 places for the process | files outside `$TMP`, copies, mocks, reports; refinement of `TestRun` |
| `startup` | 2 executions, 3 starts, 3 projects, 3 repositories | installation, git, presets |
| `text` | all short inputs | four conversions against what they should give |

Bounds. Three threads are the fewest for one to hold the mutex, one to be notified
and one to be asleep, and three tests the fewest for one to be in a hand, one in the
queue and one not pushed yet. With two pooled tests a result can be ready before an earlier
one, and a linear test between them makes the order of reports differ from that of the
vector. Two calls of `io::run` are enough because every interference is between two;
capacity 1 with 2 writes lets a child block on either stream. In `process_io` one child
writes twice and the other once (`MaxWrites`), and `output_to_error`, the mirror image
of `error_to_output`, is left to the proofs. In `win32_io` only the first child blocks; the second
one's part is to hold handles and not to end.

In `test_file` the texts are all those of at most two characters and a longer one:
the cases of `to_lines` and `out_from_node` are an empty line first, last, or alone.
In `commands` three lines (`MaxLines`) are one that changes a file, one that moves or links, and
one that meets the result; the lines give every command a source in the repository and a
destination in `$TMP`, and some are bad. The directory that is copied has in it a file, which
may meet a directory of its name, and a link to a directory outside of `$TMP`, through which
later lines remove and write (`MaxLinks` is more than any path of the run needs). In `startup` (`MaxStarts`) two executions
meet, and one more follows what they left; executions are interchangeable, so
the run uses symmetry, which is sound for invariants. In `text` arguments have up to three characters, lists two
arguments, texts to compare four lines, templates four symbols: the algorithms look at
one or two neighbours at a time, and `find_route` needs a longer and a shorter text.

Fairness. `ThreadPool`: strong fairness of every pool thread and of the owner, since a
thread competing for a mutex which is free again and again gets it at last; the
spurious wake-ups of others would otherwise starve it. It includes that a started
test ends. Nothing is assumed of spurious wake-ups. `ProcessIo` and `Win32Io`: weak fairness of
each thread, each reader and of a write with room in the pipe. That the child exits
is assumed only in `EndingSpec`. The other modules have no liveness property: the
progress of `Runner` depends on `~thread_pool`, which may hang (below), a test may be given
a program that never ends, an execution may be killed, and a
file has no duty to fulfil.

Deadlock is checked in `test_file`, `nullify_lang` and `text`; the other programs end.

Each property has a mutant in a module, marked `mutant`, that breaks it: a definition
changed as a plausible slip would change it.

### What the violations are

- `DestructorReturns`. A thread finds the predicate false; the owner requests
  all stops and calls `wake()`; the thread then blocks. It needs the mutex in
  `wake()`, or in between `request_stop` and `notify_all`.
- `ReturnsWithItsChild` (POSIX). Thread A opens its pipes; thread B spawns; the child of B
  holds A's write ends. A's child exits, A's reader goes on until B's child exits. On
  Windows the handle list prevents it, and the property holds unless the list could not be filled.
- `OwnStatus`. `posix_spawn` fails in A, the pid is garbage, and `waitpid` reaps the
  child of B. B gets `ECHILD` and reports an uninitialised status.
- `NullifyKeepsTheRest`. A test without `lang` and with `linear` has `"linear": "pl"`
  afterwards, and is linear no more; with `output` it is not loaded again.

### What passing runs say of limits

Some properties hold only with the exception they name, and the exception is the
code's:

- a text that begins with empty lines loses them when it is stored and loaded, so a
  test just saved may fail when it is run again (`StoredTextIsKept`, `OnlyNewlinesAreForgotten`);
- `touch`, `ro` and `generate` after `cp` change the file of the repository, since `cp` makes
  hard links; and since it copies links as links, `rm` and `touch` below a link to a directory
  that was copied remove and write outside of `$TMP`. `OutsideKept` says just this: all that is
  touched elsewhere is what paths in `$TMP` lead to;
- a report tells of another call than the one made when `cleanup` runs `cd`, `store` or
  `mock`; and of another directory when the process is not in `cwd_`, because an earlier linear
  test has moved it or a forgiven `cd` has failed, and no `cd` has worked since
  (`ReportTellsTheCall`);
- a directory below `$TMP` stays if `remove_all` fails (`DirectoryLifetime`);
- a file that is being stored may be cut, and the test is reported as saved all the same
  (`OnlyFullRunsAreSaved` says to which files this can happen, `FilledStaysFilled` excepts it);
- `schema.json:29` has `stdout` for what the code reads from `check` as `stdin` (`test.cc:292`),
  and `output.stderr` is read from `stdout` (`test.cc:343`). `PassMeansMatch` is stated with the
  keys the code reads, so it says what a test that uses them means and not that the schema is
  kept: a file with `check.stdout` is compared as if it had none;
- a component whose `cmake` could not be started may pass for installed (`InstallIsWhole`);
- a stop that comes after `wait_and_pop` has read the token does not keep the test from
  starting: `~thread_pool` waits for it;
- an empty argument, and one with a tab and no blank, do not reach a program on Windows
  (`ArgumentsSurvive`);
- a difference is not minimal when the actual text is the longer one or has empty lines, but
  it is always right (`DiffTellsBoth`);
- `fix` does not return when a variable of the script is empty (`SameTextEveryRun`);
- presets that inherit from themselves end the program (`PresetsResolve`);
- the result of a call on Windows is empty, and its return code that of the child, when
  the handle list could not be made. Of a redirected stream `CaptureIsWhole` says nothing:
  `schema.json:36-41` and `win32/run.cc:261-266` promise the redirection, `win32_pipes::open`
  does not make it, and on POSIX an unchecked `dup` may fail, so what is written there may
  be lost.

## 4. Proofs

### ThreadPool_proofs

For any number of threads and tests: type correctness
(`TypeCorrect`), the FIFO order (`ElementsInOrder`), that no task is lost or done twice
(`NoTaskLost`), that no empty task is called (`NoEmptyCall`), that a test is dropped only if another
threw (`NoSilentDrop`), that no notification is missed while the pool is in use
(`NothingSleptThrough`) and that the pool keeps the safety of `TaskPool`
(`Implements`). The assumptions are those of `MtQueue`: `Concurrency` and
`NumTasks` are natural numbers.

They follow from one inductive invariant, `Inv`. The properties are not inductive by themselves;
these are what had to be added:

- `MutexInv`: a thread is in the critical section exactly when `m` names it, so
  `Take` sees the queue that `Test` saw;
- `LocalInv`: what a thread at each position can have in its hand; at `take` the
  queue is not empty or the thread is stopped. With this a `return` without a
  stop has a task;
- `WaitingInv`: only parked threads are in the condition variable;
- `OwnerInv`: where the owner is, against the stop set and `next`. In particular every future
  before `next` has a value;
- `LeavingInv`, `BrokenInv`: threads exit only if stopped; a broken promise
  needs a stop, and a stop needs all values or one exception.

`NextInv` has one step per action.

`NothingSleptThrough` needs a second invariant on top of `Inv`, `SleepInv`: a thread about
to block saw an empty queue and still holds the mutex, so nobody pushed since (`BlockInv`).
Then only three steps can bring more tasks than threads that come for them: `push`, which
wakes one if any is asleep, `Take`, which takes a task along, and `Park`, which finds the
queue empty. `ComingCounts` gives the facts about cardinalities that they need.

`Implements` is the safety half of `ImplementsTaskPool` (`TaskPool!PoolSafety`). A task is
`running` when a thread that is going to call it, or does, holds it, and dropped when one that is
going to destroy it does: the second look at the token decides. `Held` says what the status of a task in
a hand is, `RunningFit` that fewer than `PoolSize` run when a thread is free (an injection of
the running tasks into the other threads), `Unseen` which steps change nothing. The step that
has to be argued is `Return`: the task starts after all that were pushed before it, because
of two threads only one is between `Take` and `Return`, the mutex being held there. An abort
or a close needs `BrokenInv` and `LeavingInv`: what `get()` threw came out of a test.

### TestRun_proofs, Runner_proofs

For any number of tests, any of them linear or without `expected`, any number of threads
and with `RUN_LINEAR` or not: type correctness (`TypeCorrect`), an honest summary
(`SummaryIsHonest`), the order of reports (`ReportsInOrder`), the verdict on the first
failure (`VerdictOnFirstFailure`), who fills a file (`OnlyFullRuns`), where tests are called
(`CalledAtHome`), how long directories live (`DirectoriesLive`) and that the process stays
in its directory while the pool works (`CwdStable`, an action property). The assumptions are
those of `TestRun`: `NumTests` and the length of each `post` are natural numbers, `Linear` is a set of tests,
return codes are integers and 0 is one, `Expected` gives each test a code or `Unset`, and
`Unset` and `Cut` are no codes.

`TestInv` is what is true of every test by itself; each step of a test keeps it
(`StepTestInv`) and leaves the other tests alone (`StepOfOne`). Its part `CodesInv` says that
all codes but the last are 0, and `FileInv` that verdicts and files have the last one;
so what decides is the first failure (`LastIsFirst`). `Runner` adds:

- `ValueInv`: a future with a value is that of a test that ended and did not throw;
- `MainInv`: at each position of `tool()`, how many reports were made. After the pool nobody
  is queued or running; at the exit all are reported and `code` agrees with `failed`;
- `ReportInv`: the i-th report is of the test whose place is i, that test has ended, and its
  directory was removed or could not be;
- `CountInv`: each counter is the number of reported tests with its outcomes.

The order rests on `Places`: every test has exactly one place. That `Nth` counts through
a set (`NthCounts`) would be an induction; instead the number of smaller elements is an
injection of the set into as many numbers as it has elements, so by the pigeonhole principle
it is onto.

### ProcessIo_proofs

For any number of concurrent calls, any capacity and any number of writes: type
correctness with the capacity respected (`TypeCorrect`), that nothing is left unread when the readers are
joined (`OutputIsComplete`), and that `io::run` on POSIX implements `IoRun`
(`Implements`, the property `ImplementsIoRun` of the run). The assumptions are those of
`ProcessIo`: `Capacity` is a positive number, `MaxWrites` a function to numbers, and no
run is called like the values that stand for "any child" and "no child".

The inductive invariant adds to the types:

- `OwnPipes`: a call holds ends of its own pipes only, and so does its child, apart from
  what that inherited;
- `OpenedInv`: what is open at each step, so that a child that runs has somewhere to write;
- `StageInv`: how far the call, its readers and its child have got together. A call
  whose child exists has its pid, so it gets past `waitpid` only when that child is over,
  even if another call took its status;
- `ShutInv`: the central one. A pipe at its end of file has nothing left in it and
  nobody who can write to it, and it stays so: a child that is
  spawned inherits only ends somebody has open.

The refinement is one lemma, `StepImplements`, with a part for threads, readers and children: a
step of `ProcessIo` is the step of `IoRun` with the same effect on `call`, `child`, `said` and
`heard`, or changes none of them. `Spawn` needs `StageInv` (no second child), `Read` and `Write`
that the call and the child are not over, `Destroy` both `StageInv` and `ShutInv`.

### Win32Io_proofs

For any number of calls and of writes: what is captured (`CapturedWhole`, the property
`CaptureIsWhole`) and the refinement of `IoRun` (`Implements`). The assumptions are those of
`Win32Io`: `Modes` are functions to modes, `Capacity` is a positive number and `MaxWrites` a function
to numbers.

On Windows a child is given its standard handles by name, so one that inherited handles of
another call does not write to them, and the invariant is one statement about each call
by itself, `CallInv`: what it has open and its child got of that (`Opened`), how far call,
readers and child have got (`Stage`), and that what went into a pipe is there or was read, all of it
once its reader has ended (`Told`). Before the readers start nothing is read, and the wait
changes none of this. `Elsewhere` says that the steps of the others leave it.

### Startup_proofs

For any number of executions, any projects and presets: tests are run on a whole installation
(`InstalledWhole`, the property `InstallIsWhole`), and git does not have a name without an
address (`GitHasAddress`, the property `GitIdentity`). The assumption on the constants is that
the components of a project are a list (`ProjectsAssumption`).

`Installing` says of an execution nobody disturbed that what is installed, what is still to be
done and what was missed make up the components of its project, at each step after the directory
was removed and made. It holds wherever the executions before were killed. `GitInv` uses the order of the
three calls: the address comes before the name.

### TestFile_proofs

For any texts, files, languages and schemas an execution without `--nullify` leaves the expectation
of a test that has one (`ExpectationStays`, the property `FilledStaysFilled`), although
`load()` may renovate and write the file, unless it is cut. No invariant is needed: loading puts one other
key into the object, and the actions that write "expected" do not apply.

### Commands_proofs

For any lines, places, outputs and scripts, any file system at the start, and lists of any length:

| theorem | property | says |
|---|---|---|
| `TypeCorrect` | `TypeOK` | the file system stays a tree, and the names of a file name one file |
| `OutsideStays` | `OutsideKept` | outside `$TMP` goes, comes and changes only what paths in `$TMP` lead to |
| `WholeCopies` | `CopiesAreWhole` | a `cp` that reports success copied everything, none overwrites |
| `MocksFirst` | `MocksComeFirst` | mocks come first in `PATH`, the rest is as `env` wants it |
| `ReportHolds` | `ReportTellsTheCall` | the report tells of the call that was made, with the exceptions above |
| `Implements` | `ImplementsTestRun` | a test does what `TestRun` says of it, and so what `Runner` relies on |

The assumptions: a path begins with `/` and the directory it is in is a place too
(`PathsAssumption`), `$TMP` and the directories of repository and build are places, as are those
of `Moved`, which are not in `$TMP` (`PlacesAssumption`), `MaxLinks` and `MaxLines` are numbers, the
expected code is 0 or 1, the file system of the start is a tree (`StartTreeAssumption`), a line is a
name, arguments and whether it is `safe-` (`LinesAssumption`). Links may be anywhere in the tree and
lead anywhere, in circles too.

`TypeOK` says of the file system that it is a tree; each operation keeps that (`AddTree`, `ChangeTree`,
`UnlinkTree`, `WriteTree`, `RemoveTree`, `CopiedTree`), with all outcomes it has.

`Keeps` is `OutsideKept` for two file systems. `FileKeeps` is the case of an operation on one file,
`RemoveTree` that of `remove_all`, which takes only what is below `Place`. A command that
makes directories and then writes does two steps, and the second is about where its path leads
after the first. New directories are no links, so it leads where it did
(`MakeDirsGrows`, `SameLinks`), and they are on the way there (`DirsForTmp`): that gives
`KeepsThroughDirs`.

`Grows` says that nothing goes and nothing changes, which holds for each pass of `cp`, whole or not.
`CopyGrows` says of one pass that it grows, that what it adds is where its images lead (`Adds`),
and that it is `Whole` if it succeeds: each entry is at its image, or, a file that met a
directory, in that directory (`Spot`). It rests on `CopiedTree`, where each entry goes to a place
of its own, and what is in a directory goes into where the directory goes (`Images`). The second pass
starts on what the first has left, but is about the links and the destination that were there before
it, and `CpGrows` puts the two together: what the first has made is as good as if the second had.

`MocksComeFirst` and `ReportTellsTheCall` are not inductive. The invariant is `CallKept` (`CallIsKept`):
from the call to the verdict what the call was given can be worked out again from `stored`, `mocked` and
`cwd`, unless the test has drifted; and a linear test that has not is, with its process, in `cwd`.
A test that starts in a process that was moved has drifted, until a `cd` works. Only `cd`, `store` and `mock` can disturb it, and they are the lines which make a test drift
in its cleanup (`DriftingLines`, `SameCall`). `CallPaths` says what `copy_environment_block` makes
of `PATH` in each of the four cases.

`Implements` takes the steps to those of `TestRun` (`StepImplements`). A line of the test
is a `Command`, a `ChangeDir` if it is `cd`, or a `Throw` if it ends the program (`LineOfTest`). What is
told apart of a directory is whether it is in `$TMP`, which for `cd` is a choice `ChangeDir` has.

### Only model-checked

- Liveness under fairness: `EveryTestReported`, the fair half of `ImplementsTaskPool`,
  `OnlyAMissedWakeHangs`, `EveryRunReturns`, `ReturnsWithItsChild`, `WritesGoThrough`. The prover has no
  `ENABLED`.
- What recursive definitions and folds compute for every input takes induction over data, which
  the prover does not have: all of `Text`, `StoredTextIsKept`, `OnlyNewlinesAreForgotten` (lines joined
  and split again), `PresetsResolve` (the search of the presets), and of `PassMeansMatch` that
  what was loaded is a text at all.

## 5. Not modelled

In `PROJECT.json` every part has its status.

- `find_program`, `io::file`: reading the file system, with two outcomes that
  their callers' models have.
- The parser of `argv` and the interpreter of the script are libraries; their outcomes are
  where `Startup` begins.
- `io::run`: `options.input`, `open_std` (nobody uses them), the decoding of the
  status (a signal looks like a return code, and codes over 127 are negative), carriage returns,
  reader threads that cannot be created.
- The constructor of the pool when a thread cannot be created: it throws out of `tool()`.
- Wording: listings, reports, `repr`, colours. Lines of
  output of different threads may mix, which nothing relies on.
- `base/str.cc`: the random letters of directory names are drawn from the first sixteen,
  `sizeof` being that of a `string_view`; nothing depends on how many there are.
- `mt_queue`'s copy operations, `empty` and `size`: called by nothing.
- That a linear test which does not `cd` is called where an earlier one left the process:
  `Runner` and `Commands` have this behaviour, but nothing says what would be right.
- `tools/*` and the build files: scripts around CMake, git, GitHub, tar and signtool, which
  are no part of the program.
