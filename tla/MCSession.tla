------------------------------- MODULE MCSession -------------------------------
(***************************************************************************)
(* Command lines of up to MaxArgs arguments over a few options and files,  *)
(* and suites of two tests of all kinds, with and without EXPECT lines.    *)
(***************************************************************************)
EXTENDS TestRunner

CONSTANT MaxArgs   \* bound: arguments of a command line

Option(flag, text) == [flag |-> flag, text |-> Path(text, "")]
EmitOption(text, format) ==
  [flag |-> "emit", text |-> Path(text, ""), format |-> format]
File(path) == [flag |-> "file", text |-> path]

Source == Path("a", ".ml")
OddSource == Path("b", ".s")

MCArguments == {
  Option("help", "-h"), Option("verbose", "-v"), Option("level", "-O2"),
  Option("unknown", "-"), Option("o", "-o"),
  [flag |-> "oX", text |-> Path("c", ".o")],
  EmitOption("--emit-llvm", "llvm"), EmitOption("-S", "assembly"),
  EmitOption("--emit-bc", "bitcode"),
  File(Source), File(OddSource), File(NoPath)}

MCSources == {Source, OddSource}

MCPaths ==
  {a.text : a \in MCArguments}
    \cup {Path(a.text.base, Extension[f]) : a \in MCArguments, f \in DOMAIN Extension}

MCCommandLines == UNION {[1 .. n -> MCArguments] : n \in 0 .. MaxArgs}

Test(kind, expect) == [kind |-> kind, path |-> Source, expect |-> expect]

MCSuites == {
  <<>>,
  <<Test("positive", {}), Test("negative", {"semantic"})>>,
  <<Test("negative", {"syntax"}), Test("warning", {"warning"})>>,
  <<Test("warning", {}), Test("negative", {})>>}
================================================================================
