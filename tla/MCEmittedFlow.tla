----------------------------- MODULE MCEmittedFlow -----------------------------
(***************************************************************************)
(* Small programs for the generator and a run: control flow alone.         *)
(***************************************************************************)
EXTENDS EmittedFlow

One == [op |-> "int", id |-> "", args |-> <<>>]
And == [op |-> "log", id |-> "", args |-> <<One, One>>]
OnePrinted == [op |-> "call", id |-> "print", args |-> <<One>>]

CallF == [op |-> "call", id |-> "f", args |-> <<>>]

NoNames == {}
MCExprs == {One, And, OnePrinted, CallF}

Output == [kind |-> "expr", expr |-> OnePrinted]

MCStatements == {
  Output,
  [kind |-> "ret", expr |-> <<One>>],
  [kind |-> "break"],
  [kind |-> "continue"],
  [kind |-> "null"],
  [kind |-> "block"],
  [kind |-> "if", cond |-> And],
  [kind |-> "while", cond |-> And],
  [kind |-> "for", init |-> <<Output>>, cond |-> <<>>, inc |-> <<Output>>],
  [kind |-> "for", init |-> <<>>, cond |-> <<CallF>>, inc |-> <<>>]}

\* int f() {...}
MCPrograms == {<<>>, <<[kind |-> "func", name |-> "f", ret |-> "int", params |-> <<>>]>>}
================================================================================
