------------------------------- MODULE TestRunner ------------------------------
(***************************************************************************)
(* What is started from a shell: the compiler with some command line, or   *)
(* run_tests.py, which starts the compiler once for each test, waits for   *)
(* it at most 30 seconds, and judges its exit status and its stderr.       *)
(*                                                                         *)
(* The compiler is the process of Driver.  Two processes run at a time     *)
(* under the test runner: the runner may kill a compiler that is slow, at  *)
(* any moment, and a compiler may stop making progress at any moment.      *)
(***************************************************************************)
EXTENDS Driver

CONSTANTS
  CommandLines,  \* the argument lists the compiler is started with by hand
  Suites         \* the lists of tests that may be found

\* kind: the suite the test is in; expect: the texts its EXPECT lines ask for.
Kinds == {"positive", "negative", "warning"}
Tests == UNION {{suite[i] : i \in DOMAIN suite} : suite \in Suites}

ASSUME RunnerAssumption ==
  /\ CommandLines \subseteq Seq(Arguments)
  /\ Suites \subseteq Seq(Tests)
  /\ \A test \in Tests :
       test.kind \in Kinds /\ [flag |-> "file", text |-> test.path] \in Arguments

VARIABLES
  command,   \* what the shell was given: the compiler or the suite
  tests,     \* the tests found, in the order they are run
  runner,    \* what the runner is doing: start, next, wait, done
  results,   \* what was seen of each test run, and whether it passed
  suiteRc    \* the exit status of the runner

runnerVars == <<command, tests, runner, results, suiteRc>>
sessionVars == <<procVars, files, runnerVars>>

\* Fault: a warning test does not look at the exit status.
PassedByText(test, code, texts) ==
  IF test.kind = "warning" THEN test.expect \subseteq texts
  ELSE (code = 0) = (test.kind = "positive")

\* Fault: the EXPECT lines are not looked at.
PassedByCode(test, code, texts) == (code = 0) = (test.kind # "negative")

\* run_positive_test, run_negative_test and run_warning_test.  A warning test
\* without expectations passes with or without a warning.
Passed(test, code, texts) ==
  /\ (code = 0) = (test.kind # "negative")
  /\ test.kind # "positive" => test.expect \subseteq texts

--------------------------------------------------------------------------------
SessionInit ==
  /\ NoProcess
  /\ \E content \in {"absent", "old"} :
       files = [p \in Paths |-> IF p \in Sources THEN "old" ELSE content]
  /\ command = "none" /\ tests = <<>> /\ runner = "done"
  /\ results = <<>> /\ suiteRc = 0

\* The shell.
StartCompiler(list) ==
  /\ command = "none"
  /\ command' = "compiler"
  /\ Start(list)
  /\ UNCHANGED <<files, tests, runner, results, suiteRc>>

StartSuite(suite) ==
  /\ command = "none"
  /\ command' = "suite"
  /\ runner' = "start"
  /\ tests' = suite
  /\ UNCHANGED <<procVars, files, results, suiteRc>>

FinishSuite(code) ==
  /\ runner' = "done"
  /\ suiteRc' = code
  /\ UNCHANGED <<procVars, files, command, tests, results>>

\* find_compiler and discover_tests.
Discover ==
  /\ runner = "start"
  /\ \/ FinishSuite(2)
     \/ tests = <<>> /\ FinishSuite(0)
     \/ /\ tests # <<>>
        /\ runner' = "next"
        /\ UNCHANGED <<procVars, files, command, tests, results, suiteRc>>

Current == tests[Len(results) + 1]

run_compiler ==
  /\ runner = "next" /\ Len(results) < Len(tests)
  /\ Start(<<[flag |-> "file", text |-> Current.path]>>)
  /\ runner' = "wait"
  /\ UNCHANGED <<files, command, tests, results, suiteRc>>

Judge(code, texts, output, stopped) ==
  /\ results' = Append(results, [rc |-> code, err |-> texts, out |-> output,
                                 stopped |-> stopped,
                                 passed |-> Passed(Current, code, texts)])
  /\ runner' = "next"
  /\ UNCHANGED <<files, command, tests, suiteRc>>

Collect ==
  /\ runner = "wait" /\ ~alive
  /\ Judge(rc, err, out, phase)
  /\ UNCHANGED procVars

\* Fault: the runner waits for good.
TimeoutNever == FALSE

\* subprocess.run kills the compiler; what it wrote is not looked at.
Timeout ==
  /\ runner = "wait" /\ alive
  /\ Judge(-1, {"timeout"}, {}, "none")
  /\ alive' = FALSE /\ rc' = -9
  /\ UNCHANGED <<args, opts, phase, out, err>>

\* The compiler has been removed while the suite ran.
NotFound ==
  /\ runner = "next" /\ Len(results) < Len(tests)
  /\ Judge(-1, {"missing"}, {}, "none")
  /\ UNCHANGED procVars

Summary ==
  /\ runner = "next" /\ Len(results) = Len(tests)
  /\ FinishSuite(IF \A i \in DOMAIN results : results[i].passed THEN 0 ELSE 1)

\* An exception run_compiler does not catch ends the runner: the compiler may not
\* be executed any more, or what it has written is not text.
UncaughtException ==
  /\ \/ runner = "next" /\ Len(results) < Len(tests)
     \/ runner = "wait" /\ ~alive
  /\ FinishSuite(1)

CompilerStep == Step /\ UNCHANGED runnerVars
CompilerKilled == Killed /\ UNCHANGED runnerVars
RunnerStep ==
  \/ Discover \/ run_compiler \/ NotFound \/ Collect \/ Timeout \/ Summary
  \/ UncaughtException

Ended == command # "none" /\ runner = "done" /\ ~alive

SessionNext ==
  \/ \E list \in CommandLines : StartCompiler(list)
  \/ \E suite \in Suites : StartSuite(suite)
  \/ CompilerStep
  \/ CompilerKilled
  \/ RunnerStep
  \/ Ended /\ UNCHANGED sessionVars

\* A compiler started by hand runs on.  The runner goes on too, and its clock
\* with it; that the compilers it starts make progress is not assumed.
SessionSpec ==
  /\ SessionInit /\ [][SessionNext]_sessionVars
  /\ WF_sessionVars(command = "compiler" /\ CompilerStep)
  /\ WF_sessionVars(RunnerStep)
--------------------------------------------------------------------------------
(***************************************************************************)
(* Properties.                                                             *)
(***************************************************************************)
SessionTypeOK ==
  /\ DriverTypeOK
  /\ command \in {"none", "compiler", "suite"}
  /\ tests \in Suites \cup {<<>>}
  /\ runner \in {"start", "next", "wait", "done"}
  /\ Len(results) <= Len(tests)
  /\ suiteRc \in {0, 1, 2}

CallStatus ==
  CASE phase = "none" -> "idle"
    [] alive /\ phase \in {"args", "open", "parse", "analyze"} -> "running"
    [] alive /\ phase \in {"generate", "optimize", "emit", "write"} -> "accepted"
    [] ~alive /\ phase # "none" /\ rc # 0 -> "failed"
    [] OTHER -> IF "usage" \in out THEN "helped" ELSE "compiled"

CallTarget ==
  CASE ToStdout -> CASE "code" \in out -> "new"
                     [] "part" \in out -> "broken"
                     [] OTHER          -> "old"
    [] OTHER -> CASE files[opts.output] \in Formats  -> "new"
                  [] files[opts.output] = "partial"  -> "broken"
                  [] OTHER                           -> "old"

Promise == INSTANCE Compilation WITH status <- CallStatus, target <- CallTarget

\* Each call of the compiler keeps the promise of Compilation: exit status 0 and
\* a complete output come together, and a program the front end rejects, or an
\* error before it, leaves every file alone.
KeepsPromise == Promise!Spec

\* Each call ends: one started by hand runs through its phases, and one of the
\* test runner that hangs is killed.
CallsEnd == Promise!Ends

\* The suite ends with a verdict although a compiler may hang in any phase.
SuiteEnds == command = "suite" ~> runner = "done"

\* A call that has reported an error and yet exits with 0 has met one of the two
\* kinds of errors the compiler goes on after: syntax errors, all of them recovered
\* from, and calls it has left out because the generator has not come to their
\* function.  After any other it has failed.
OnlySurvivedErrorsSucceed ==
  phase # "none" /\ ~alive /\ rc = 0 => err \subseteq {"syntax", "warning", "call"}

\* Code on stdout, all of it or a part, is not mixed with other text, unless
\* --verbose asked for the log, which goes to stdout too.
StdoutIsCode ==
  out \cap {"part", "code"} # {} => out \subseteq {"part", "code"} \/ opts.verbose

\* A suite reported as passed has run every test; each positive and warning test
\* was compiled to the end, and printed nothing but all its code, and no negative
\* one has printed all its code, whatever hung, crashed or was killed on the way.
GreenSuite ==
  command = "suite" /\ runner = "done" /\ suiteRc = 0
    => \A i \in DOMAIN tests :
         /\ i \in DOMAIN results
         /\ IF tests[i].kind = "negative" THEN "code" \notin results[i].out
            ELSE results[i].out = {"code"} /\ "semantic" \notin results[i].err

\* A negative test that expects a text of the analyzer's own passes only if the
\* analyzer rejected its program: not for a timeout, a crash, a missing compiler
\* or a syntax error.  The words "semantic error" are no text of its own, since the
\* assertions of the generator print them too and case is ignored.
RejectedForItsReason ==
  \A i \in DOMAIN results :
    /\ results[i].passed /\ tests[i].kind = "negative"
    /\ "semantic" \in tests[i].expect
    => results[i].stopped = "analyze"

\* The test runner leaves the working directory as it was.
SuiteWritesNothing == [][command = "suite" => UNCHANGED files]_sessionVars
================================================================================
