----------------------------- MODULE SessionProofs -----------------------------
(***************************************************************************)
(* Proofs about what is started from a shell: every compiler process keeps *)
(* the promise of Compilation, and the verdicts of the test runner are     *)
(* given for the right reasons, for all arguments, files and tests.        *)
(***************************************************************************)
EXTENDS TestRunner, TLAPS

(***************************************************************************)
(* The inductive invariant.                                                *)
(***************************************************************************)
Texts == {"usage", "io", "syntax", "semantic", "warning", "call", "internal",
          "timeout", "missing"}

\* What a call may report and go on.
Survived == {"syntax", "warning", "call"}

Outs == {"usage", "log", "part", "code"}

Verdicts == [rc : {-11, -9, -6, -1, 0, 1, 2}, err : SUBSET Texts,
             out : SUBSET Outs, stopped : Phases,
             passed : BOOLEAN]

Untouched == \A p \in Paths : files[p] \in {"absent", "old"}

\* What a process has said, and where it has stopped if it has.
ProcessInv ==
  /\ phase = "none" => /\ ~alive /\ args = <<>> /\ opts = DefaultOptions
                       /\ out = {} /\ err = {}
  /\ opts.input \in {a.text : a \in Arguments} \cup {NoPath}
  /\ alive => rc = 0 /\ out \subseteq {"log", "part"} /\ err \subseteq Survived
  /\ "log" \in out => opts.verbose /\ phase # "args"
  /\ "usage" \in out => phase = "args"
  /\ "part" \in out => phase = "write" /\ ToStdout /\ (alive \/ rc # 0)
  /\ "code" \in out => phase = "write" /\ ToStdout /\ ~alive /\ rc = 0
  /\ "semantic" \in err => phase = "analyze" /\ rc # 0
  /\ phase # "none" /\ ~alive /\ rc = 0
       => /\ err \subseteq Survived
          /\ phase \in {"args", "write"}
          /\ phase = "args" => "usage" \in out
  /\ phase = "write" /\ ToStdout => out \cap {"part", "code"} # {}

\* A file is touched in the last phase only, and only if it is the output.
OutputInv ==
  IF phase # "write" \/ ToStdout THEN Untouched
  ELSE /\ opts.output \in Paths
       /\ files[opts.output] = IF alive \/ rc # 0 THEN "partial" ELSE opts.format

\* A compiler the runner starts has no option on its command line.
SuiteProcess ==
  command = "suite" =>
    /\ opts.output = NoPath /\ opts.format = "llvm"
    /\ ~opts.explicit /\ ~opts.verbose
    /\ \A i \in DOMAIN args : args[i].flag = "file"
    /\ "usage" \in out => rc # 0

RunnerInv ==
  /\ results \in Seq(Verdicts)
  /\ command = "none" => phase = "none"
  /\ command # "suite" => runner = "done" /\ results = <<>> /\ tests = <<>>
  /\ runner = "start" => results = <<>> /\ phase = "none"
  /\ runner = "wait" => phase # "none" /\ Len(results) < Len(tests)
  /\ command = "suite" /\ runner # "wait" => ~alive
  /\ command = "suite" /\ runner = "done" /\ suiteRc = 0
       => /\ Len(results) = Len(tests)
          /\ \A i \in DOMAIN results : results[i].passed

\* A verdict r on a test follows from what the compiler did.
SoundVerdict(test, r) ==
  /\ r.passed => Passed(test, r.rc, r.err)
  /\ r.rc = 0 => r.out = {"code"} /\ "semantic" \notin r.err
  /\ "code" \in r.out => r.rc = 0
  /\ "semantic" \in r.err => r.stopped = "analyze"

VerdictsInv == \A i \in DOMAIN results : SoundVerdict(tests[i], results[i])

IInv == /\ SessionTypeOK /\ ProcessInv /\ OutputInv /\ SuiteProcess
        /\ RunnerInv /\ VerdictsInv

--------------------------------------------------------------------------------
(***************************************************************************)
(* The steps of a compiler.                                                *)
(***************************************************************************)
PInv == DriverTypeOK /\ ProcessInv /\ OutputInv /\ SuiteProcess

USE DEF Phases, Formats, Contents, Survived, Outs

\* What an argument says may be the path of a file.
LEMMA ArgumentText ==
  ASSUME NEW a \in Arguments
  PROVE  /\ a.text \in Paths \cup {NoPath}
         /\ a.text \in {b.text : b \in Arguments}
         /\ a.flag = "emit" => a.format \in Formats
BY DriverAssumption

\* An option changes one field of the options, and keeps their types.
LEMMA SetType ==
  ASSUME NEW o \in Options, NEW a \in Arguments
  PROVE  /\ Set(o, a) \in Options
         /\ Set(o, a).input = IF a.flag = "file" THEN a.text ELSE o.input
         /\ a.flag = "file" => Set(o, a) = [o EXCEPT !.input = a.text]
         /\ o.verbose => Set(o, a).verbose
BY ArgumentText DEF Set, Options

\* The default output is a path, and the empty one only for textual IR.
LEMMA DefaultType ==
  ASSUME NEW o \in Options, o.input \in {a.text : a \in Arguments}
  PROVE  /\ Deduced(o) \in Formats
         /\ DefaultOutput(o, Deduced(o)) \in Paths \cup {NoPath}
         /\ o.output = NoPath /\ ~o.explicit
              => Deduced(o) = "llvm" /\ DefaultOutput(o, Deduced(o)) = NoPath
<1>1. Deduced(o) \in Formats
  BY DEF Deduced, Options
<1>2. DefaultOutput(o, Deduced(o)) \in Paths \cup {NoPath}
  <2>1. ASSUME NEW f \in DOMAIN Extension
        PROVE  Path(getFileBaseName(o.input), Extension[f]) \in Paths
    BY DriverAssumption DEF getFileBaseName
  <2>2. Deduced(o) # "llvm" => Deduced(o) \in DOMAIN Extension
    BY <1>1 DEF Extension
  <2> QED BY <2>1, <2>2 DEF DefaultOutput, Options
<1>3. o.output = NoPath /\ ~o.explicit => Deduced(o) = "llvm"
  <2>1. NoPath.ext = ""
    BY DEF NoPath, Path
  <2> QED BY <2>1 DEF Deduced
<1> QED BY <1>1, <1>2, <1>3 DEF DefaultOutput

\* A call starts as a fresh process, with nothing said and nothing touched.
LEMMA StartInv ==
  ASSUME PInv, phase # "write" \/ ToStdout, NEW list \in Seq(Arguments), Start(list),
         UNCHANGED files,
         command' = "suite" => \A i \in DOMAIN list : list[i].flag = "file"
  PROVE  PInv'
<1>1. DriverTypeOK'
  BY DEF PInv, DriverTypeOK, Start, DefaultOptions, Options
<1>2. ProcessInv'
  BY DEF Start, DefaultOptions, ProcessInv
<1>3. OutputInv'
  BY DEF PInv, OutputInv, Untouched, Start
<1>4. SuiteProcess'
  BY DEF SuiteProcess, Start, DefaultOptions
<1> QED BY <1>1, <1>2, <1>3, <1>4 DEF PInv

\* The process ends: what it has said decides whether that is a success.
LEMMA AbandonInv ==
  ASSUME PInv, alive, UNCHANGED command,
         NEW code \in {-11, -6, 1, 2},
         NEW texts \in SUBSET {"usage", "io", "syntax", "semantic", "warning",
                               "call", "internal"},
         "semantic" \in texts => phase = "analyze",
         Abandon(code, texts)
  PROVE  PInv'
<1>1. DriverTypeOK'
  BY DEF PInv, DriverTypeOK, Abandon, Exit
<1>2. ProcessInv'
  BY DEF PInv, ProcessInv, Abandon, Exit, ToStdout
<1>3. OutputInv'
  BY DEF PInv, OutputInv, Untouched, Abandon, Exit, ToStdout
<1>4. SuiteProcess'
  BY DEF PInv, SuiteProcess, Abandon, Exit
<1> QED BY <1>1, <1>2, <1>3, <1>4 DEF PInv

\* A phase ends well, before the output is opened.
LEMMA GoOnInv ==
  ASSUME PInv, alive, phase # "write", phase # "none", UNCHANGED command,
         NEW p \in Phases \ {"none", "args", "write"},
         NEW texts \in SUBSET Survived,
         out' = out \/ (opts.verbose /\ out' = out \cup {"log"}),
         GoOn(p, texts)
  PROVE  PInv'
<1>1. DriverTypeOK'
  BY DEF PInv, DriverTypeOK, GoOn
<1>2. ProcessInv'
  BY DEF PInv, ProcessInv, GoOn, ToStdout
<1>3. OutputInv'
  BY DEF PInv, OutputInv, Untouched, GoOn, ToStdout
<1>4. SuiteProcess'
  BY DEF PInv, SuiteProcess, ProcessInv, GoOn
<1> QED BY <1>1, <1>2, <1>3, <1>4 DEF PInv

\* Reading an argument.
LEMMA ReadInv ==
  ASSUME PInv, UNCHANGED command, ReadOption \/ ReadOutput \/ EndOfArguments
  PROVE  PInv'
<1> USE DEF PInv, At, Arg
<1>1. /\ phase = "args" /\ alive /\ phase' \in {"args", "open"}
      /\ UNCHANGED <<alive, rc, out, err, files>>
  BY DEF ReadOption, ReadOutput, EndOfArguments
<1>2. /\ opts' \in Options
      /\ opts'.input \in {a.text : a \in Arguments} \cup {NoPath}
      /\ args' \in Seq(Arguments)
  <2>1. CASE ReadOption
    <3>1. Head(args) \in Arguments /\ Tail(args) \in Seq(Arguments)
      BY <2>1 DEF ReadOption, DriverTypeOK
    <3>2. /\ Set(opts, Head(args)) \in Options
          /\ Set(opts, Head(args)).input
               = IF Head(args).flag = "file" THEN Head(args).text ELSE opts.input
      BY <3>1, SetType DEF DriverTypeOK
    <3> QED BY <2>1, <3>1, <3>2, ArgumentText DEF ReadOption, ProcessInv
  <2>2. CASE ReadOutput
    <3>1. args[2] \in Arguments /\ Tail(Tail(args)) \in Seq(Arguments)
      BY <2>2 DEF ReadOutput, DriverTypeOK
    <3> QED BY <2>2, <3>1, ArgumentText DEF ReadOutput, DriverTypeOK, ProcessInv, Options
  <2>3. CASE EndOfArguments
    <3>1. opts.input \in {a.text : a \in Arguments} /\ opts \in Options
      BY <2>3 DEF EndOfArguments, DriverTypeOK, ProcessInv
    <3>2. /\ Deduced(opts) \in Formats
          /\ DefaultOutput(opts, Deduced(opts)) \in Paths \cup {NoPath}
      BY <3>1, DefaultType
    <3> QED BY <2>3, <3>1, <3>2 DEF EndOfArguments, DriverTypeOK, Options
  <2> QED BY <2>1, <2>2, <2>3
<1>3. ASSUME command = "suite"
      PROVE  /\ opts'.output = NoPath /\ opts'.format = "llvm"
             /\ ~opts'.explicit /\ ~opts'.verbose
             /\ \A i \in DOMAIN args' : args'[i].flag = "file"
  <2>0. /\ opts.output = NoPath /\ opts.format = "llvm"
        /\ ~opts.explicit /\ ~opts.verbose
        /\ \A i \in DOMAIN args : args[i].flag = "file"
    BY <1>3 DEF SuiteProcess
  <2>1. CASE ReadOption
    <3>1. Head(args).flag = "file" /\ Head(args) \in Arguments
      BY <2>0, <2>1 DEF ReadOption, DriverTypeOK
    <3>2. opts' = [opts EXCEPT !.input = Head(args).text]
      BY <2>1, <3>1, SetType DEF ReadOption, DriverTypeOK
    <3>3. args' = Tail(args) /\ args # <<>>
      BY <2>1 DEF ReadOption
    <3> QED BY <2>0, <3>2, <3>3 DEF DriverTypeOK, Options
  <2>2. CASE ReadOutput
    BY <2>0, <2>2 DEF ReadOutput, DriverTypeOK
  <2>3. CASE EndOfArguments
    BY <2>0, <2>3, DefaultType DEF EndOfArguments, DriverTypeOK, ProcessInv, Options
  <2> QED BY <2>1, <2>2, <2>3
<1>4. "log" \notin out
  BY <1>1 DEF ProcessInv
<1>5. DriverTypeOK'
  BY <1>1, <1>2 DEF DriverTypeOK
<1>6. ProcessInv'
  BY <1>1, <1>2, <1>4 DEF ProcessInv
<1>7. OutputInv'
  BY <1>1 DEF OutputInv, Untouched
<1>8. SuiteProcess'
  BY <1>1, <1>3 DEF SuiteProcess
<1> QED BY <1>5, <1>6, <1>7, <1>8

\* The phases up to the optimizer.
LEMMA PhaseInv ==
  ASSUME PInv, UNCHANGED command,
         OpenInput \/ Parse \/ Analyze \/ Generate \/ optimizeModule
  PROVE  PInv'
<1> USE DEF At
<1>1. CASE OpenInput
  <2>1. CASE Abandon(1, {"io"})
    BY <1>1, <2>1, AbandonInv DEF OpenInput
  <2>2. CASE /\ out' = out \cup (IF opts.verbose THEN {"log"} ELSE {})
             /\ GoOn("parse", {})
    BY <1>1, <2>2, GoOnInv DEF OpenInput, PInv, DriverTypeOK
  <2> QED BY <1>1, <2>1, <2>2 DEF OpenInput
<1>2. CASE Parse
  <2>1. CASE Abandon(1, {"syntax"})
    BY <1>2, <2>1, AbandonInv DEF Parse
  <2>2. CASE Abandon(2, {"io"})
    BY <1>2, <2>2, AbandonInv DEF Parse
  <2>3. ASSUME UNCHANGED out, NEW texts \in {{}, {"syntax"}}, GoOn("analyze", texts)
        PROVE  PInv'
    BY <1>2, <2>3, GoOnInv DEF Parse
  <2> QED BY <1>2, <2>1, <2>2, <2>3 DEF Parse
<1>3. CASE Analyze
  <2>1. ASSUME NEW texts \in {{}, {"warning"}}, Abandon(1, {"semantic"} \cup texts)
        PROVE  PInv'
    BY <1>3, <2>1, AbandonInv DEF Analyze
  <2>2. ASSUME UNCHANGED out, NEW texts \in {{}, {"warning"}}, GoOn("generate", texts)
        PROVE  PInv'
    BY <1>3, <2>2, GoOnInv DEF Analyze
  <2> QED BY <1>3, <2>1, <2>2 DEF Analyze
<1>4. CASE Generate
  <2>1. ASSUME NEW texts \in {{}, {"call"}}, NEW code \in {1, -6},
               Abandon(code, {"internal"} \cup texts)
        PROVE  PInv'
    BY <1>4, <2>1, AbandonInv DEF Generate
  <2>2. ASSUME NEW texts \in {{}, {"call"}}, UNCHANGED out, GoOn("optimize", texts)
        PROVE  PInv'
    BY <1>4, <2>2, GoOnInv DEF Generate
  <2> QED BY <1>4, <2>1, <2>2 DEF Generate
<1>5. CASE optimizeModule
  BY <1>5, GoOnInv DEF optimizeModule
<1> QED BY <1>1, <1>2, <1>3, <1>4, <1>5

\* --help and wrong arguments.
LEMMA UsageInv ==
  ASSUME PInv, UNCHANGED command, Help \/ BadArgument
  PROVE  PInv'
<1> USE DEF PInv, At, Arg, printUsage, Exit
<1>1. PICK code \in {0, 1} :
        /\ alive /\ phase = "args" /\ out' = out \cup {"usage"}
        /\ alive' = FALSE /\ rc' = code
        /\ err' = err \cup (IF code = 0 THEN {} ELSE {"usage"})
        /\ UNCHANGED <<args, opts, phase, files>>
        /\ code = 0 => args # <<>> /\ args[1].flag = "help"
  <2>1. CASE Help
    BY <2>1 DEF Help, DriverTypeOK
  <2>2. CASE BadArgument
    BY <2>2 DEF BadArgument
  <2> QED BY <2>1, <2>2
<1>2. DriverTypeOK'
  BY <1>1 DEF DriverTypeOK
<1>3. ProcessInv'
  BY <1>1 DEF ProcessInv
<1>4. OutputInv'
  BY <1>1 DEF OutputInv, Untouched
<1>5. SuiteProcess'
  <2>1. args # <<>> => 1 \in DOMAIN args
    BY DEF DriverTypeOK
  <2> QED BY <1>1, <2>1 DEF SuiteProcess
<1> QED BY <1>2, <1>3, <1>4, <1>5

\* The emit functions.
LEMMA EmitInv ==
  ASSUME PInv, UNCHANGED command,
         EmitToStdout \/ EmitRefused \/ OpenOutput \/ FinishOutput \/ OutputLost
  PROVE  PInv'
<1> USE DEF At
<1>1. CASE EmitToStdout
  <2> USE DEF PInv, EmitToStdout, GoOn
  <2>1. DriverTypeOK'
    BY <1>1 DEF DriverTypeOK
  <2>2. ProcessInv'
    BY <1>1 DEF ProcessInv, ToStdout
  <2>3. OutputInv'
    BY <1>1 DEF OutputInv, Untouched, ToStdout
  <2>4. SuiteProcess'
    BY <1>1 DEF SuiteProcess, ProcessInv
  <2> QED BY <2>1, <2>2, <2>3, <2>4
<1>2. CASE EmitRefused
  BY <1>2, AbandonInv DEF EmitRefused
<1>3. CASE OpenOutput
  <2> USE DEF PInv, OpenOutput, ToStdout
  <2>0. opts.output \in Paths /\ files \in [Paths -> Contents]
    BY <1>3 DEF DriverTypeOK, Options
  <2>1. DriverTypeOK'
    BY <1>3, <2>0 DEF DriverTypeOK
  <2>2. ProcessInv'
    BY <1>3 DEF ProcessInv
  <2>3. OutputInv'
    BY <1>3, <2>0 DEF OutputInv
  <2>4. SuiteProcess'
    BY <1>3 DEF SuiteProcess
  <2> QED BY <2>1, <2>2, <2>3, <2>4
<1>4. CASE FinishOutput
  <2> USE DEF PInv, FinishOutput, Exit
  <2>0. /\ files \in [Paths -> Contents] /\ opts.format \in Formats
        /\ ~ToStdout => opts.output \in Paths
    BY <1>4 DEF OutputInv, DriverTypeOK, Options
  <2>1. DriverTypeOK'
    BY <1>4, <2>0 DEF DriverTypeOK
  <2>2. ProcessInv'
    BY <1>4 DEF ProcessInv, ToStdout
  <2>3. OutputInv'
    BY <1>4, <2>0 DEF OutputInv, ToStdout, Untouched
  <2>4. SuiteProcess'
    BY <1>4 DEF SuiteProcess, ProcessInv
  <2> QED BY <2>1, <2>2, <2>3, <2>4
<1>5. CASE OutputLost
  BY <1>5, AbandonInv DEF OutputLost
<1> QED BY <1>1, <1>2, <1>3, <1>4, <1>5

\* Whatever the compiler does next, and when a signal ends it.
LEMMA CompilerInv ==
  ASSUME PInv, UNCHANGED command, Step \/ Killed
  PROVE  PInv'
<1>1. CASE Killed
  BY <1>1, AbandonInv DEF Killed
<1>2. CASE Step
  BY <1>2, ReadInv, PhaseInv, UsageInv, EmitInv DEF Step
<1> QED BY <1>1, <1>2

--------------------------------------------------------------------------------
(***************************************************************************)
(* The shell and the test runner.                                          *)
(***************************************************************************)
\* The parts of SessionTypeOK that are not the process.
RunnerTypeOK ==
  /\ command \in {"none", "compiler", "suite"}
  /\ tests \in Suites \cup {<<>>}
  /\ runner \in {"start", "next", "wait", "done"}
  /\ Len(results) <= Len(tests)
  /\ suiteRc \in {0, 1, 2}

RInv == RunnerTypeOK /\ RunnerInv /\ VerdictsInv

LEMMA Parts == (IInv <=> PInv /\ RInv) /\ (IInv' <=> PInv' /\ RInv')
BY DEF IInv, PInv, RInv, SessionTypeOK, RunnerTypeOK

\* A list of tests is a list.
LEMMA TestsType ==
  ASSUME RunnerTypeOK
  PROVE  tests \in Seq(Tests) /\ Len(tests) \in Nat
<1>1. CASE tests \in Suites
  BY <1>1, RunnerAssumption
<1>2. CASE tests = <<>>
  BY <1>2
<1> QED BY <1>1, <1>2 DEF RunnerTypeOK

LEMMA InitInv == SessionInit => IInv
<1> SUFFICES ASSUME SessionInit PROVE IInv
  OBVIOUS
<1>1. DriverTypeOK
  <2>1. files \in [Paths -> Contents]
    BY DEF SessionInit
  <2>2. NoProcess
    BY DEF SessionInit
  <2>3. opts \in Options
    BY <2>2 DEF NoProcess, DefaultOptions, Options
  <2>4. args \in Seq(Arguments)
    BY <2>2 DEF NoProcess
  <2>5. alive \in BOOLEAN
    BY <2>2 DEF NoProcess
  <2> QED BY <2>1, <2>2, <2>3, <2>4, <2>5 DEF NoProcess, DriverTypeOK
<1>2. ProcessInv
  BY DEF SessionInit, NoProcess, ProcessInv, DefaultOptions
<1>3. OutputInv
  BY DEF SessionInit, NoProcess, OutputInv, Untouched
<1>4. SuiteProcess
  BY DEF SessionInit, SuiteProcess
<1>5. RInv
  BY DEF SessionInit, NoProcess, RInv, RunnerTypeOK, RunnerInv, VerdictsInv
<1> QED BY <1>1, <1>2, <1>3, <1>4, <1>5, Parts DEF PInv

\* A step that leaves the process alone.
LEMMA SameProcess ==
  ASSUME PInv, UNCHANGED <<procVars, files>>,
         command' = "suite" => command = "suite" \/ phase = "none"
  PROVE  PInv'
<1>1. DriverTypeOK'
  BY DEF PInv, DriverTypeOK, procVars
<1>2. ProcessInv'
  BY DEF PInv, ProcessInv, procVars, ToStdout
<1>3. OutputInv'
  BY DEF PInv, OutputInv, procVars, ToStdout, Untouched
<1>4. SuiteProcess'
  BY DEF PInv, SuiteProcess, ProcessInv, DefaultOptions, procVars
<1> QED BY <1>1, <1>2, <1>3, <1>4 DEF PInv

\* The runner starts the compiler with the test as its only argument.
LEMMA TestArgument ==
  ASSUME RInv, Len(results) < Len(tests)
  PROVE  /\ <<[flag |-> "file", text |-> Current.path]>> \in Seq(Arguments)
         /\ \A i \in DOMAIN <<[flag |-> "file", text |-> Current.path]>> :
              <<[flag |-> "file", text |-> Current.path]>>[i].flag = "file"
<1>1. Len(results) + 1 \in 1 .. Len(tests)
  BY TestsType DEF RInv, RunnerInv
<1>2. Current \in Tests
  BY <1>1, TestsType DEF RInv, Current
<1>3. [flag |-> "file", text |-> Current.path] \in Arguments
  BY <1>2, RunnerAssumption
<1>4. [flag |-> "file", text |-> Current.path].flag = "file"
  OBVIOUS
<1> QED BY <1>3, <1>4

\* One more sound verdict.
LEMMA VerdictInv ==
  ASSUME RInv, Len(results) < Len(tests), command = "suite", ~alive',
         NEW r \in Verdicts, SoundVerdict(Current, r),
         results' = Append(results, r), runner' = "next",
         UNCHANGED <<command, tests, suiteRc>>
  PROVE  RInv'
<1>1. results \in Seq(Verdicts) /\ Len(results) \in Nat
  BY DEF RInv, RunnerInv
<1>2. /\ results' \in Seq(Verdicts) /\ Len(results') = Len(results) + 1
      /\ \A i \in DOMAIN results : results'[i] = results[i]
      /\ results'[Len(results) + 1] = r
      /\ DOMAIN results' = DOMAIN results \cup {Len(results) + 1}
  BY <1>1
<1>3. RunnerTypeOK'
  <2>1. Len(results') <= Len(tests')
    BY <1>1, <1>2, TestsType DEF RInv
  <2> QED BY <2>1 DEF RInv, RunnerTypeOK
<1>4. RunnerInv'
  BY <1>2 DEF RunnerInv
<1>5. VerdictsInv'
  BY <1>2 DEF VerdictsInv, RInv, Current
<1> QED BY <1>3, <1>4, <1>5 DEF RInv

\* A verdict is reached by Passed, on what the process looked like.
LEMMA JudgeInv ==
  ASSUME RInv, Len(results) < Len(tests), command = "suite", ~alive',
         rc \in {-11, -9, -6, -1, 0, 1, 2}, phase \in Phases,
         err \in SUBSET Texts, out \in SUBSET Outs,
         rc = 0 => out = {"code"} /\ "semantic" \notin err,
         "code" \in out => rc = 0,
         "semantic" \in err => phase = "analyze",
         Judge(rc, err, out, phase)
  PROVE  RInv'
<1> DEFINE r == [rc |-> rc, err |-> err, out |-> out, stopped |-> phase,
                 passed |-> Passed(Current, rc, err)]
<1>1. r \in Verdicts /\ SoundVerdict(Current, r)
  BY DEF Verdicts, SoundVerdict, Passed
<1>2. /\ results' = Append(results, r) /\ runner' = "next"
      /\ UNCHANGED <<command, tests, suiteRc>>
  BY DEF Judge
<1> HIDE DEF r
<1> QED BY <1>1, <1>2, VerdictInv

\* A compiler that does not answer, or is not there, gives a status and a text of
\* the runner's own.
LEMMA NoAnswerInv ==
  ASSUME RInv, Len(results) < Len(tests), command = "suite", ~alive',
         NEW text \in {"missing", "timeout"}, Judge(-1, {text}, {}, "none")
  PROVE  RInv'
<1> DEFINE r == [rc |-> -1, err |-> {text}, out |-> {}, stopped |-> "none",
                 passed |-> Passed(Current, -1, {text})]
<1>1. r \in Verdicts /\ SoundVerdict(Current, r)
  BY DEF Verdicts, SoundVerdict, Passed, Texts
<1>2. /\ results' = Append(results, r) /\ runner' = "next"
      /\ UNCHANGED <<command, tests, suiteRc>>
  BY DEF Judge
<1> HIDE DEF r
<1> QED BY <1>1, <1>2, VerdictInv

\* The suite ends with status 0 only if it has run every test and all passed.
LEMMA FinishInv ==
  ASSUME IInv, command = "suite", ~alive, NEW code \in {0, 1, 2}, FinishSuite(code),
         code = 0 => /\ Len(results) = Len(tests)
                     /\ \A i \in DOMAIN results : results[i].passed
  PROVE  IInv'
<1>1. PInv'
  BY Parts, SameProcess DEF FinishSuite
<1>2. RInv'
  BY Parts DEF FinishSuite, RInv, RunnerTypeOK, RunnerInv, VerdictsInv, procVars
<1> QED BY <1>1, <1>2, Parts

\* A step of the compiler leaves the runner alone.
LEMMA SameRunner ==
  ASSUME RInv, UNCHANGED runnerVars,
         phase' = "none" <=> phase = "none",
         command = "suite" /\ runner # "wait" => ~alive'
  PROVE  RInv'
BY DEF RInv, RunnerTypeOK, RunnerInv, VerdictsInv, runnerVars

\* A process that is alive takes the steps, and takes them from a phase.
LEMMA CompilerShape ==
  ASSUME ProcessInv, Step \/ Killed
  PROVE  alive /\ phase \notin {"none"} /\ phase' # "none"
<1> USE DEF At, Arg, printUsage, Exit, Abandon, GoOn
<1>1. CASE Help \/ BadArgument \/ ReadOption \/ ReadOutput \/ EndOfArguments
  BY <1>1 DEF Help, BadArgument, ReadOption, ReadOutput, EndOfArguments
<1>2. CASE OpenInput \/ Parse \/ Analyze \/ Generate \/ optimizeModule
  BY <1>2 DEF OpenInput, Parse, Analyze, Generate, optimizeModule
<1>3. CASE EmitToStdout \/ EmitRefused \/ OpenOutput \/ FinishOutput \/ OutputLost
  BY <1>3 DEF EmitToStdout, EmitRefused, OpenOutput, FinishOutput, OutputLost
<1>4. CASE Killed
  BY <1>4 DEF Killed, ProcessInv
<1> QED BY <1>1, <1>2, <1>3, <1>4 DEF Step

LEMMA StartCompilerInv ==
  ASSUME IInv, NEW list \in CommandLines, StartCompiler(list)
  PROVE  IInv'
<1>1. PInv'
  <2>1. list \in Seq(Arguments)
    BY RunnerAssumption
  <2>2. phase = "none"
    BY DEF IInv, RunnerInv, StartCompiler
  <2> QED BY <2>1, <2>2, Parts, StartInv DEF StartCompiler
<1>2. RInv'
  BY Parts DEF StartCompiler, RInv, RunnerTypeOK, RunnerInv, VerdictsInv
<1> QED BY <1>1, <1>2, Parts

LEMMA StartSuiteInv ==
  ASSUME IInv, NEW suite \in Suites, StartSuite(suite)
  PROVE  IInv'
<1>1. phase = "none" /\ results = <<>> /\ ~alive
  BY DEF IInv, ProcessInv, RunnerInv, StartSuite
<1>2. PInv'
  BY <1>1, Parts, SameProcess DEF StartSuite
<1>3. suite \in Seq(Tests)
  BY RunnerAssumption
<1>4. RInv'
  BY <1>1, <1>3, Parts
     DEF StartSuite, RInv, RunnerTypeOK, RunnerInv, VerdictsInv, procVars
<1> QED BY <1>2, <1>4, Parts

\* Under the runner a process that has ended has printed its code exactly if its
\* status is 0.
LEMMA Collected ==
  ASSUME IInv, runner = "wait", ~alive
  PROVE  /\ rc \in {-11, -9, -6, -1, 0, 1, 2} /\ phase \in Phases
         /\ err \in SUBSET Texts /\ out \in SUBSET Outs
         /\ rc = 0 => out = {"code"} /\ "semantic" \notin err
         /\ "code" \in out => rc = 0
         /\ "semantic" \in err => phase = "analyze"
<1>1. command = "suite" /\ phase # "none"
  BY DEF IInv, RunnerInv
<1>2. rc = 0 => /\ out \subseteq Outs /\ "part" \notin out
                /\ "usage" \notin out /\ "log" \notin out /\ "code" \in out
  BY <1>1 DEF IInv, SessionTypeOK, DriverTypeOK, ProcessInv, SuiteProcess, ToStdout
<1>3. rc = 0 => out = {"code"}
  BY <1>2
<1> QED BY <1>1, <1>3 DEF IInv, SessionTypeOK, DriverTypeOK, ProcessInv, Texts

LEMMA RunnerStepInv ==
  ASSUME IInv, RunnerStep
  PROVE  IInv'
<1>0. /\ command = "suite"
      /\ runner # "wait" => ~alive
      /\ Len(results) \in Nat /\ RunnerTypeOK
  <2>1. runner \in {"start", "next", "wait"}
    BY DEF RunnerStep, Discover, run_compiler, NotFound, Collect, Timeout, Summary,
           UncaughtException
  <2>2. command = "suite"
    BY <2>1 DEF IInv, RunnerInv
  <2>3. Len(results) \in Nat
    BY DEF IInv, RunnerInv
  <2> QED BY <2>1, <2>2, <2>3, Parts DEF IInv, RunnerInv, RInv
<1>1. CASE Discover
  <2>1. CASE FinishSuite(2)
    BY <1>0, <1>1, <2>1, FinishInv DEF Discover
  <2>2. CASE tests = <<>> /\ FinishSuite(0)
    <3>1. results = <<>>
      BY <1>1 DEF Discover, IInv, RunnerInv
    <3> QED BY <1>0, <1>1, <2>2, <3>1, FinishInv DEF Discover
  <2>3. CASE /\ runner' = "next"
             /\ UNCHANGED <<procVars, files, command, tests, results, suiteRc>>
    <3>1. PInv'
      BY <1>0, <2>3, Parts, SameProcess
    <3>2. RInv'
      BY <1>0, <1>1, <2>3, Parts
         DEF Discover, RInv, RunnerTypeOK, RunnerInv, VerdictsInv, procVars
    <3> QED BY <3>1, <3>2, Parts
  <2> QED BY <1>1, <2>1, <2>2, <2>3 DEF Discover
<1>2. CASE run_compiler
  <2>1. PInv'
    <3>1. ToStdout
      BY <1>0 DEF IInv, SuiteProcess, ToStdout
    <3> QED BY <1>2, <3>1, Parts, TestArgument, StartInv DEF run_compiler
  <2>2. RInv'
    BY <1>0, <1>2, Parts DEF run_compiler, Start, RInv, RunnerTypeOK, RunnerInv, VerdictsInv
  <2> QED BY <2>1, <2>2, Parts
<1>3. CASE NotFound
  <2>1. PInv'
    BY <1>0, <1>3, Parts, SameProcess DEF NotFound, Judge
  <2>2. ~alive'
    BY <1>0, <1>3 DEF NotFound, procVars
  <2>3. RInv'
    BY <1>0, <1>3, <2>2, Parts, NoAnswerInv DEF NotFound
  <2> QED BY <2>1, <2>3, Parts
<1>4. CASE Collect
  <2>1. PInv'
    BY <1>0, <1>4, Parts, SameProcess DEF Collect, Judge
  <2>2. ~alive' /\ Len(results) < Len(tests)
    BY <1>0, <1>4 DEF Collect, procVars, IInv, RunnerInv
  <2>3. RInv'
    BY <1>0, <1>4, <2>2, Parts, Collected, JudgeInv DEF Collect
  <2> QED BY <2>1, <2>3, Parts
<1>5. CASE Timeout
  <2>1. PInv'
    <3> USE DEF PInv, Timeout, Judge
    <3>1. DriverTypeOK'
      BY <1>5, Parts DEF DriverTypeOK
    <3>2. ProcessInv'
      BY <1>5, Parts DEF ProcessInv, ToStdout
    <3>3. OutputInv'
      BY <1>5, Parts DEF OutputInv, ToStdout, Untouched
    <3>4. SuiteProcess'
      BY <1>5, Parts DEF SuiteProcess
    <3> QED BY <3>1, <3>2, <3>3, <3>4
  <2>2. ~alive' /\ Len(results) < Len(tests)
    BY <1>5 DEF Timeout, IInv, RunnerInv
  <2>3. RInv'
    BY <1>0, <1>5, <2>2, Parts, NoAnswerInv DEF Timeout
  <2> QED BY <2>1, <2>3, Parts
<1>6. CASE Summary
  BY <1>0, <1>6, FinishInv DEF Summary
<1>7. CASE UncaughtException
  BY <1>0, <1>7, FinishInv DEF UncaughtException
<1> QED BY <1>1, <1>2, <1>3, <1>4, <1>5, <1>6, <1>7 DEF RunnerStep

LEMMA NextInv == IInv /\ [SessionNext]_sessionVars => IInv'
<1> SUFFICES ASSUME IInv, [SessionNext]_sessionVars PROVE IInv'
  OBVIOUS
<1>1. ASSUME NEW list \in CommandLines, StartCompiler(list) PROVE IInv'
  BY <1>1, StartCompilerInv
<1>2. ASSUME NEW suite \in Suites, StartSuite(suite) PROVE IInv'
  BY <1>2, StartSuiteInv
<1>3. CASE CompilerStep \/ CompilerKilled
  <2>1. (Step \/ Killed) /\ UNCHANGED runnerVars
    BY <1>3 DEF CompilerStep, CompilerKilled
  <2>2. PInv'
    BY <2>1, Parts, CompilerInv DEF runnerVars
  <2>3. RInv'
    BY <2>1, Parts, CompilerShape, SameRunner DEF RInv, RunnerInv, PInv
  <2> QED BY <2>2, <2>3, Parts
<1>4. CASE RunnerStep
  BY <1>4, RunnerStepInv
<1>5. CASE UNCHANGED sessionVars
  BY <1>5, Parts, SameProcess, SameRunner DEF sessionVars, procVars, runnerVars, RInv, RunnerInv
<1> QED BY <1>1, <1>2, <1>3, <1>4, <1>5 DEF SessionNext

--------------------------------------------------------------------------------
(***************************************************************************)
(* The theorems.                                                           *)
(***************************************************************************)
\* What processes say, what they leave behind, and what the runner has recorded
\* of them always agree.
THEOREM Agreement == SessionSpec => []IInv
<1>1. SessionInit => IInv
  BY InitInv
<1>2. IInv /\ [SessionNext]_sessionVars => IInv'
  BY NextInv
<1> QED BY <1>1, <1>2, PTL DEF SessionSpec

\* Every variable of the compiler process and of the test runner has its type.
THEOREM SessionTypes == SessionSpec => []SessionTypeOK
<1>1. IInv => SessionTypeOK
  BY DEF IInv
<1> QED BY <1>1, Agreement, PTL

\* A call that has reported an error and yet exits with 0 had syntax errors it
\* recovered from, or has left out calls of functions not generated yet: main.cpp
\* ends with 1 after any other report.
THEOREM ErrorsFail == SessionSpec => []OnlySurvivedErrorsSucceed
<1>1. IInv => OnlySurvivedErrorsSucceed
  BY DEF IInv, ProcessInv, OnlySurvivedErrorsSucceed
<1> QED BY <1>1, Agreement, PTL

\* Code on stdout is alone there unless the log was asked for.
THEOREM CleanStdout == SessionSpec => []StdoutIsCode
<1>1. IInv => StdoutIsCode
  <2> SUFFICES ASSUME IInv, out \cap {"part", "code"} # {}, ~opts.verbose
               PROVE  out \subseteq {"part", "code"}
    BY DEF StdoutIsCode
  <2>1. out \subseteq Outs /\ "usage" \notin out /\ "log" \notin out
    BY DEF IInv, ProcessInv, SessionTypeOK, DriverTypeOK
  <2> QED BY <2>1
<1> QED BY <1>1, Agreement, PTL

\* A suite the test runner reports as passed compiled what should compile to the
\* end, and nothing else, whatever its compilers did.
THEOREM GreenIsGreen == SessionSpec => []GreenSuite
<1>1. IInv => GreenSuite
  <2> SUFFICES ASSUME IInv, command = "suite", runner = "done", suiteRc = 0,
                      NEW i \in DOMAIN tests
               PROVE  /\ i \in DOMAIN results
                      /\ IF tests[i].kind = "negative" THEN "code" \notin results[i].out
                         ELSE results[i].out = {"code"} /\ "semantic" \notin results[i].err
    BY DEF GreenSuite
  <2>1. i \in DOMAIN results /\ results[i].passed
    BY Parts, TestsType DEF IInv, RunnerInv, RInv
  <2> QED BY <2>1 DEF IInv, VerdictsInv, SoundVerdict, Passed
<1> QED BY <1>1, Agreement, PTL

\* A negative test that expects a text of the analyzer passes only for what the
\* analyzer has found.
THEOREM RejectionsAreReal == SessionSpec => []RejectedForItsReason
<1>1. IInv => RejectedForItsReason
  BY DEF IInv, VerdictsInv, SoundVerdict, Passed, RejectedForItsReason
<1> QED BY <1>1, Agreement, PTL

\* The test runner gives the compiler no output to write, so no suite touches a
\* file.
THEOREM SuitesAreHarmless == SessionSpec => SuiteWritesNothing
<1>1. IInv /\ [SessionNext]_sessionVars => [command = "suite" => UNCHANGED files]_sessionVars
  <2> SUFFICES ASSUME IInv, SessionNext, command = "suite" PROVE UNCHANGED files
    OBVIOUS
  <2>0. /\ opts.output = NoPath /\ ToStdout
        /\ \A list \in CommandLines : ~StartCompiler(list)
        /\ \A suite \in Suites : ~StartSuite(suite)
    BY DEF IInv, SuiteProcess, StartCompiler, StartSuite, ToStdout
  <2>1. CASE RunnerStep
    BY <2>1 DEF RunnerStep, Discover, run_compiler, NotFound, Collect, Timeout,
                Summary, UncaughtException, Judge, FinishSuite
  <2>2. CASE Step
    <3> USE DEF At, Arg, printUsage, Exit, Abandon, GoOn
    <3>1. CASE Help \/ BadArgument \/ ReadOption \/ ReadOutput \/ EndOfArguments
      BY <3>1 DEF Help, BadArgument, ReadOption, ReadOutput, EndOfArguments
    <3>2. CASE OpenInput \/ Parse \/ Analyze \/ Generate \/ optimizeModule
      BY <3>2 DEF OpenInput, Parse, Analyze, Generate, optimizeModule
    <3>3. CASE EmitToStdout \/ EmitRefused \/ FinishOutput
      BY <2>0, <3>3 DEF EmitToStdout, EmitRefused, FinishOutput
    <3>4. ~OpenOutput /\ ~OutputLost
      BY <2>0 DEF OpenOutput, OutputLost
    <3> QED BY <2>2, <3>1, <3>2, <3>3, <3>4 DEF Step
  <2>3. CASE Killed
    BY <2>3 DEF Killed, Abandon
  <2> QED BY <2>0, <2>1, <2>2, <2>3
          DEF SessionNext, CompilerStep, CompilerKilled, sessionVars
<1> QED BY <1>1, Agreement, PTL DEF SessionSpec, SuiteWritesNothing

--------------------------------------------------------------------------------
(***************************************************************************)
(* The refinement: what the promise says of a process.                     *)
(***************************************************************************)
\* The status and the output of a call whose process is alive or not, in which
\* phase, with which exit status.
StatusOf(a, p, c) ==
  IF p = "none" THEN "idle"
  ELSE IF a THEN IF p \in {"args", "open", "parse", "analyze"} THEN "running"
                 ELSE "accepted"
  ELSE IF c # 0 THEN "failed"
  ELSE IF p = "args" THEN "helped" ELSE "compiled"

TargetOf(a, p, c) ==
  IF p # "write" THEN "old" ELSE IF ~a /\ c = 0 THEN "new" ELSE "broken"

LEMMA StatusSeen == PInv => CallStatus = StatusOf(alive, phase, rc)
BY DEF PInv, ProcessInv, DriverTypeOK, CallStatus, StatusOf

LEMMA TargetSeen == PInv => CallTarget = TargetOf(alive, phase, rc)
<1> SUFFICES ASSUME PInv PROVE CallTarget = TargetOf(alive, phase, rc)
  OBVIOUS
<1> USE DEF TargetOf
<1>1. CASE ToStdout
  <2>1. CASE phase # "write"
    <3>1. "code" \notin out /\ "part" \notin out
      BY <2>1 DEF PInv, ProcessInv
    <3> QED BY <1>1, <2>1, <3>1 DEF CallTarget
  <2>2. CASE phase = "write" /\ ~alive /\ rc = 0
    <3>1. "code" \in out /\ "part" \notin out
      BY <1>1, <2>2 DEF PInv, ProcessInv
    <3> QED BY <1>1, <2>2, <3>1 DEF CallTarget
  <2>3. CASE phase = "write" /\ ~(~alive /\ rc = 0)
    <3>1. "code" \notin out /\ "part" \in out
      BY <1>1, <2>3 DEF PInv, ProcessInv
    <3> QED BY <1>1, <2>3, <3>1 DEF CallTarget
  <2> QED BY <2>1, <2>2, <2>3
<1>2. CASE ~ToStdout
  <2>1. CASE phase = "write"
    BY <1>2, <2>1 DEF PInv, OutputInv, CallTarget, DriverTypeOK, Options
  <2>2. CASE phase # "write"
    <3>1. opts.output \in Paths
      BY <1>2 DEF PInv, DriverTypeOK, Options, ToStdout
    <3>2. files[opts.output] \in {"absent", "old"}
      BY <2>2, <3>1 DEF PInv, OutputInv, Untouched
    <3> QED BY <1>2, <2>2, <3>2 DEF CallTarget
  <2> QED BY <2>1, <2>2
<1> QED BY <1>1, <1>2

\* Both hold of the next state as well.
LEMMA SeenNext ==
  PInv' => /\ CallStatus' = StatusOf(alive', phase', rc')
           /\ CallTarget' = TargetOf(alive', phase', rc')
<1>1. (PInv => CallStatus = StatusOf(alive, phase, rc))'
  BY StatusSeen, PTL
<1>2. (PInv => CallTarget = TargetOf(alive, phase, rc))'
  BY TargetSeen, PTL
<1> QED BY <1>1, <1>2

\* What is seen of a call does not change.
Same == UNCHANGED <<CallStatus, CallTarget>>

\* What is seen of a call depends on how far its process is.
LEMMA SameSeen ==
  ASSUME PInv, PInv', UNCHANGED <<alive, phase, rc>>
  PROVE  Same
BY StatusSeen, TargetSeen, SeenNext DEF Same

\* A process that is stopped, or stops because of an error, has failed.
LEMMA FailSeen ==
  ASSUME PInv, PInv', alive, phase # "none", ~alive', phase' = phase, rc' # 0
  PROVE  Promise!Fail
BY StatusSeen, TargetSeen, SeenNext
   DEF StatusOf, TargetOf, Promise!Fail, Promise!Working

\* Before the program is accepted, and after it until the output is opened,
\* nothing is seen of the phases.
Early == {"args", "open", "parse", "analyze"}
Late == {"generate", "optimize", "emit"}

LEMMA PhaseSeen ==
  ASSUME PInv, PInv', alive, alive',
         \/ phase \in Early /\ phase' \in Early
         \/ phase \in Late /\ phase' \in Late
  PROVE  Same
BY StatusSeen, TargetSeen, SeenNext DEF StatusOf, TargetOf, Same, Early, Late

\* Success shows the output with the status.
LEMMA SucceedSeen ==
  ASSUME PInv, PInv', alive, ~alive', phase' = phase, phase = "write", rc' = 0
  PROVE  Promise!Succeed
BY StatusSeen, TargetSeen, SeenNext DEF StatusOf, TargetOf, Promise!Succeed

LEMMA AcceptSeen ==
  ASSUME PInv, PInv', alive, alive', phase = "analyze", phase' = "generate"
  PROVE  Promise!Accept
BY StatusSeen, TargetSeen, SeenNext DEF StatusOf, TargetOf, Promise!Accept

LEMMA OpenSeen ==
  ASSUME PInv, PInv', alive, alive', phase = "emit", phase' = "write"
  PROVE  Promise!OpenTarget
BY StatusSeen, TargetSeen, SeenNext DEF StatusOf, TargetOf, Promise!OpenTarget

LEMMA HelpSeen ==
  ASSUME PInv, PInv', alive, ~alive', phase = "args", phase' = phase, rc' = 0
  PROVE  Promise!Help
BY StatusSeen, TargetSeen, SeenNext DEF StatusOf, TargetOf, Promise!Help

LEMMA BeginSeen ==
  ASSUME PInv, PInv', ~alive, alive', phase' = "args"
  PROVE  Promise!Begin
BY StatusSeen, TargetSeen, SeenNext
   DEF StatusOf, TargetOf, Promise!Begin, Promise!Working

\* The steps of a compiler are steps of its promise.
LEMMA CompilerKeeps ==
  ASSUME PInv, PInv', Step \/ Killed
  PROVE  Promise!Next \/ Same
<1> USE DEF At, Arg, printUsage, Exit, Abandon, GoOn, Early, Late
<1>0. alive /\ phase # "none"
  BY CompilerShape DEF PInv
<1>1. CASE Help
  BY <1>1, HelpSeen DEF Help, Promise!Next
<1>2. CASE BadArgument
  BY <1>0, <1>2, FailSeen DEF BadArgument, Promise!Next
<1>3. CASE ReadOption \/ ReadOutput
  BY <1>3, SameSeen DEF ReadOption, ReadOutput
<1>4. CASE EndOfArguments
  BY <1>4, PhaseSeen DEF EndOfArguments
<1>5. CASE OpenInput
  <2>1. CASE GoOn("parse", {})
    BY <1>5, <2>1, PhaseSeen DEF OpenInput
  <2>2. CASE Abandon(1, {"io"})
    BY <1>0, <2>2, FailSeen DEF Promise!Next
  <2> QED BY <1>5, <2>1, <2>2 DEF OpenInput
<1>6. CASE Parse
  <2>1. ASSUME NEW texts, GoOn("analyze", texts) PROVE Same
    BY <1>6, <2>1, PhaseSeen DEF Parse
  <2>2. ASSUME NEW code \in {1, 2}, NEW texts, Abandon(code, texts) PROVE Promise!Next
    BY <1>0, <2>2, FailSeen DEF Promise!Next
  <2> QED BY <1>6, <2>1, <2>2 DEF Parse
<1>7. CASE Analyze
  <2>1. ASSUME NEW texts, GoOn("generate", texts) PROVE Promise!Next
    BY <1>7, <2>1, AcceptSeen DEF Analyze, Promise!Next
  <2>2. ASSUME NEW texts, Abandon(1, texts) PROVE Promise!Next
    BY <1>0, <2>2, FailSeen DEF Promise!Next
  <2> QED BY <1>7, <2>1, <2>2 DEF Analyze
<1>8. CASE Generate
  <2>1. ASSUME NEW texts, GoOn("optimize", texts) PROVE Same
    BY <1>8, <2>1, PhaseSeen DEF Generate
  <2>2. ASSUME NEW code \in {1, -6}, NEW texts, Abandon(code, texts) PROVE Promise!Next
    BY <1>0, <2>2, FailSeen DEF Promise!Next
  <2> QED BY <1>8, <2>1, <2>2 DEF Generate
<1>9. CASE optimizeModule
  BY <1>9, PhaseSeen DEF optimizeModule
<1>10. CASE FinishOutput
  BY <1>10, SucceedSeen DEF FinishOutput, Promise!Next
<1>11. CASE EmitRefused \/ OutputLost \/ Killed
  BY <1>0, <1>11, FailSeen DEF EmitRefused, OutputLost, Killed, Promise!Next
<1>12. CASE EmitToStdout \/ OpenOutput
  BY <1>12, OpenSeen DEF EmitToStdout, OpenOutput, Promise!Next
<1> QED BY <1>1, <1>2, <1>3, <1>4, <1>5, <1>6, <1>7, <1>8, <1>9, <1>10, <1>11, <1>12
        DEF Step

\* So are those of the shell and of the test runner.
LEMMA RunnerKeeps ==
  ASSUME IInv, IInv', PInv, PInv', RunnerStep
  PROVE  Promise!Next \/ Same
<1>1. CASE Discover \/ NotFound \/ Collect \/ Summary \/ UncaughtException
  BY <1>1, SameSeen
     DEF Discover, NotFound, Collect, Summary, UncaughtException, FinishSuite, procVars
<1>2. CASE run_compiler
  <2>1. ~alive
    BY <1>2 DEF run_compiler, IInv, RunnerInv
  <2> QED BY <1>2, <2>1, BeginSeen DEF run_compiler, Start, Promise!Next
<1>3. CASE Timeout
  <2>1. phase # "none"
    BY <1>3 DEF Timeout, IInv, RunnerInv
  <2> QED BY <1>3, <2>1, FailSeen DEF Timeout, Promise!Next
<1> QED BY <1>1, <1>2, <1>3 DEF RunnerStep

\* Each call of the compiler implements the abstract specification: its first
\* state is one of Compilation, and every step of the compiler, of the shell, of
\* the test runner and of a signal is a step of Compilation or changes nothing
\* that is seen of the call.
THEOREM PromiseKept == SessionSpec => KeepsPromise
<1>1. SessionInit => Promise!Init
  <2>1. SessionInit => PInv /\ phase = "none"
    BY InitInv, Parts DEF SessionInit, NoProcess
  <2> QED BY <2>1, StatusSeen, TargetSeen DEF StatusOf, TargetOf, Promise!Init
<1>2. IInv /\ IInv' /\ [SessionNext]_sessionVars => [Promise!Next]_(Promise!promiseVars)
  <2> SUFFICES ASSUME IInv, IInv', [SessionNext]_sessionVars
               PROVE  Promise!Next \/ Same
    BY DEF Same, Promise!promiseVars
  <2>0. PInv /\ PInv'
    BY Parts
  <2>1. ASSUME NEW list \in CommandLines, StartCompiler(list) PROVE Promise!Next
    <3>1. ~alive
      BY <2>1 DEF StartCompiler, IInv, RunnerInv, ProcessInv
    <3> QED BY <2>0, <2>1, <3>1, BeginSeen DEF StartCompiler, Start, Promise!Next
  <2>2. ASSUME NEW suite \in Suites, StartSuite(suite) PROVE Same
    BY <2>0, <2>2, SameSeen DEF StartSuite, procVars
  <2>3. CASE CompilerStep \/ CompilerKilled
    BY <2>0, <2>3, CompilerKeeps DEF CompilerStep, CompilerKilled
  <2>4. CASE RunnerStep
    BY <2>0, <2>4, RunnerKeeps
  <2>5. CASE UNCHANGED sessionVars
    BY <2>0, <2>5, SameSeen DEF sessionVars, procVars
  <2> QED BY <2>1, <2>2, <2>3, <2>4, <2>5 DEF SessionNext
<1> QED BY <1>1, <1>2, Agreement, PTL DEF SessionSpec, KeepsPromise, Promise!Spec
================================================================================
