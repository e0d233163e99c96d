--------------------------------- MODULE Driver --------------------------------
(***************************************************************************)
(* One process of the compiler: main.cpp reads the command line, runs the  *)
(* phases one after another, stops at the first that fails, and has the    *)
(* output written by the emit functions of the generator.                  *)
(*                                                                         *)
(* What the phases find out about the program is left open here (Semantic, *)
(* Codegen and Compile say more): each step goes every way the code has    *)
(* for it.                                                                 *)
(***************************************************************************)
EXTENDS Integers, Sequences, FiniteSets

CONSTANTS
  Arguments,  \* what may stand on a command line
  Paths,      \* the paths of the files there are or may be
  Sources     \* those of Paths that hold source programs at first

(***************************************************************************)
(* An argument is [flag, text]: the option it is, and what it says, as a   *)
(* path, which is what `-o' takes it for.  "-ofile" has the file as text,  *)
(* a --emit option its format in addition.  A path is [dir, base, ext].    *)
(***************************************************************************)
Path(base, ext) == [dir |-> "", base |-> base, ext |-> ext]
NoPath == Path("", "")
Dash == Path("-", "")

Formats == {"llvm", "bitcode", "assembly", "object"}
Native == {"assembly", "object"}

Extension == [bitcode |-> ".bc", assembly |-> ".s", object |-> ".o"]

ASSUME DriverAssumption ==
  /\ Sources \subseteq Paths
  /\ \A a \in Arguments :
       /\ a.text \in Paths \cup {NoPath}
       /\ a.flag = "emit" => a.format \in Formats
       /\ \A f \in DOMAIN Extension : Path(a.text.base, Extension[f]) \in Paths

VARIABLES
  args,    \* the arguments not read yet
  opts,    \* CommandLineOptions
  phase,   \* what the process is doing, or was doing when it ended
  alive,
  rc,      \* the exit status its parent sees, negative for a signal
  out,     \* the kinds of text on stdout: usage, log lines, a part of the code,
           \* or all of it
  err,     \* the kinds of text on stderr
  files    \* what each file holds: absent, old, partial, or a new output

procVars == <<args, opts, phase, alive, rc, out, err>>

Phases == {"none", "args", "open", "parse", "analyze", "generate", "optimize",
           "emit", "write"}

Options == [input : Paths \cup {NoPath}, output : Paths \cup {NoPath},
            format : Formats, explicit : BOOLEAN, verbose : BOOLEAN]

DefaultOptions == [input |-> NoPath, output |-> NoPath, format |-> "llvm",
                   explicit |-> FALSE, verbose |-> FALSE]

NoProcess ==
  /\ args = <<>> /\ opts = DefaultOptions /\ phase = "none"
  /\ alive = FALSE /\ rc = 0 /\ out = {} /\ err = {}

Start(list) ==
  /\ args' = list /\ opts' = DefaultOptions /\ phase' = "args"
  /\ alive' = TRUE /\ rc' = 0 /\ out' = {} /\ err' = {}

--------------------------------------------------------------------------------
At(p) == alive /\ phase = p

\* Fault: the status is taken as the shell shows it.
ExitUnsigned(code, texts) ==
  /\ alive' = FALSE /\ rc' = code % 256 /\ err' = err \cup texts
  /\ UNCHANGED <<args, opts, phase>>

Exit(code, texts) ==
  /\ alive' = FALSE
  /\ rc' = code
  /\ err' = err \cup texts
  /\ UNCHANGED <<args, opts, phase>>

\* On to the next phase, with texts on stderr.
GoOn(p, texts) ==
  /\ phase' = p
  /\ err' = err \cup texts
  /\ UNCHANGED <<args, opts, alive, rc, files>>

Abandon(code, texts) == Exit(code, texts) /\ UNCHANGED <<out, files>>

(***************************************************************************)
(* The arguments.  --debug and -O change nothing that is kept here.        *)
(***************************************************************************)
printUsage(code, texts) ==
  /\ out' = out \cup {"usage"}
  /\ Exit(code, texts)
  /\ UNCHANGED files

Arg(flag) == At("args") /\ args # <<>> /\ Head(args).flag = flag

Help == Arg("help") /\ printUsage(0, {})

BadArgument ==
  /\ \/ Arg("unknown")
     \/ Arg("o") /\ Tail(args) = <<>>
     \/ Arg("file") /\ opts.input # NoPath
     \/ At("args") /\ args = <<>> /\ opts.input = NoPath
  /\ printUsage(1, {"usage"})

Set(o, a) ==
  CASE a.flag = "verbose" -> [o EXCEPT !.verbose = TRUE]
    [] a.flag = "emit"    -> [o EXCEPT !.format = a.format, !.explicit = TRUE]
    [] a.flag = "oX"      -> [o EXCEPT !.output = a.text]
    [] a.flag = "file"    -> [o EXCEPT !.input = a.text]
    [] OTHER              -> o

\* Fault: the loop does not advance after --verbose.
ReadOptionAgain ==
  /\ \/ \E flag \in {"verbose", "debug", "level", "emit", "oX"} : Arg(flag)
     \/ Arg("file") /\ opts.input = NoPath
  /\ opts' = Set(opts, Head(args))
  /\ args' = IF Arg("verbose") THEN args ELSE Tail(args)
  /\ UNCHANGED <<phase, alive, rc, out, err, files>>

ReadOption ==
  /\ \/ \E flag \in {"verbose", "debug", "level", "emit", "oX"} : Arg(flag)
     \/ Arg("file") /\ opts.input = NoPath
  /\ opts' = Set(opts, Head(args))
  /\ args' = Tail(args)
  /\ UNCHANGED <<phase, alive, rc, out, err, files>>

\* `-o' takes whatever comes next, an option or an empty string included.
ReadOutput ==
  /\ Arg("o") /\ Tail(args) # <<>>
  /\ opts' = [opts EXCEPT !.output = args[2].text]
  /\ args' = Tail(Tail(args))
  /\ UNCHANGED <<phase, alive, rc, out, err, files>>

Deduced(o) ==
  IF o.explicit THEN o.format
  ELSE CASE o.output.ext = ".bc"             -> "bitcode"
         [] o.output.ext \in {".s", ".asm"}  -> "assembly"
         [] o.output.ext \in {".o", ".obj"}  -> "object"
         [] OTHER                            -> "llvm"

getFileBaseName(path) == path.base

\* Fault: textual IR gets a default file too.
DefaultAlways(o, format) ==
  IF o.output # NoPath THEN o.output ELSE Path(getFileBaseName(o.input), ".bc")

DefaultOutput(o, format) ==
  IF o.output # NoPath \/ format = "llvm" THEN o.output
  ELSE Path(getFileBaseName(o.input), Extension[format])

EndOfArguments ==
  /\ At("args") /\ args = <<>> /\ opts.input # NoPath
  /\ opts' = [opts EXCEPT !.format = Deduced(opts),
                          !.output = DefaultOutput(opts, Deduced(opts))]
  /\ phase' = "open"
  /\ UNCHANGED <<args, alive, rc, out, err, files>>

(***************************************************************************)
(* The phases.                                                             *)
(***************************************************************************)
\* Fault: the log is printed without --verbose.
OpenInputLogging ==
  /\ At("open") /\ opts.input \in Paths /\ files[opts.input] # "absent"
  /\ out' = out \cup {"log"}
  /\ GoOn("parse", {})

\* The later log lines add nothing to what stdout holds after the first.
OpenInput ==
  /\ At("open")
  /\ \/ /\ opts.input \in Paths /\ files[opts.input] # "absent"
        /\ out' = out \cup (IF opts.verbose THEN {"log"} ELSE {})
        /\ GoOn("parse", {})
     \/ Abandon(1, {"io"})

\* yyparse succeeds after syntax errors it recovered from; the scanner ends the
\* process with 2 when it cannot read.
Parse ==
  /\ At("parse")
  /\ \/ UNCHANGED out /\ \E texts \in {{}, {"syntax"}} : GoOn("analyze", texts)
     \/ Abandon(1, {"syntax"})
     \/ Abandon(2, {"io"})

\* Fault: main ignores what analyze returns.
AnalyzeOnly ==
  /\ At("analyze")
  /\ UNCHANGED out
  /\ \E texts \in {{}, {"warning"}, {"semantic"}} : GoOn("generate", texts)

Analyze ==
  /\ At("analyze")
  /\ \/ UNCHANGED out /\ \E texts \in {{}, {"warning"}} : GoOn("generate", texts)
     \/ \E texts \in {{}, {"warning"}} : Abandon(1, {"semantic"} \cup texts)

\* A call of a function the generator has not come to is reported and left out,
\* and the code may still be good.  -6: an assertion fails.
Generate ==
  /\ At("generate")
  /\ \E texts \in {{}, {"call"}} :
       \/ UNCHANGED out /\ GoOn("optimize", texts)
       \/ \E code \in {1, -6} : Abandon(code, {"internal"} \cup texts)

optimizeModule == At("optimize") /\ UNCHANGED out /\ GoOn("emit", {})

(***************************************************************************)
(* The emit functions.  Opening an output truncates it.  stdout is open    *)
(* already, and holds a part of the code until all of it is there.         *)
(***************************************************************************)
ToStdout == opts.output \in {NoPath, Dash}

EmitToStdout ==
  /\ At("emit") /\ ToStdout
  /\ out' = out \cup {"part"}
  /\ GoOn("write", {})

\* No target for this machine, or the output cannot be opened.
EmitRefused ==
  /\ At("emit")
  /\ opts.format \in Native \/ ~ToStdout
  /\ Abandon(1, {"io"})

OpenOutput ==
  /\ At("emit") /\ ~ToStdout
  /\ files' = [files EXCEPT ![opts.output] = "partial"]
  /\ phase' = "write"
  /\ UNCHANGED <<args, opts, alive, rc, out, err>>

FinishOutput ==
  /\ At("write")
  /\ \/ /\ ToStdout
        /\ out' = (out \ {"part"}) \cup {"code"}
        /\ UNCHANGED files
     \/ /\ ~ToStdout
        /\ files' = [files EXCEPT ![opts.output] = opts.format]
        /\ UNCHANGED out
  /\ Exit(0, {})

\* Fault: an output that is not complete goes unnoticed.
OutputLostUnseen == At("write") /\ ~ToStdout /\ Abandon(0, {})

\* addPassesToEmitFile refuses, or a write has failed: emit then returns true,
\* but the destructor of the stream ends the process first.
OutputLost == At("write") /\ ~ToStdout /\ Abandon(1, {"io"})

Step ==
  \/ Help \/ BadArgument \/ ReadOption \/ ReadOutput \/ EndOfArguments
  \/ OpenInput \/ Parse \/ Analyze \/ Generate \/ optimizeModule
  \/ EmitToStdout \/ EmitRefused \/ OpenOutput \/ FinishOutput \/ OutputLost

\* A signal ends the process: the passes recurse as deep as the program nests,
\* and anybody may kill it.  Nothing handles one, and no file is cleaned up.
Killed == alive /\ Abandon(-11, {})

Contents == {"absent", "old", "partial"} \cup Formats

DriverTypeOK ==
  /\ args \in Seq(Arguments)
  /\ opts \in Options
  /\ phase \in Phases
  /\ alive \in BOOLEAN
  /\ rc \in {-11, -9, -6, -1, 0, 1, 2}
  /\ out \subseteq {"usage", "log", "part", "code"}
  /\ err \subseteq {"usage", "io", "syntax", "semantic", "warning", "call", "internal"}
  /\ files \in [Paths -> Contents]
================================================================================
