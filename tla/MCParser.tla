-------------------------------- MODULE MCParser -------------------------------
(***************************************************************************)
(* Texts of one-letter tokens over a few short lines.                      *)
(***************************************************************************)
EXTENDS Parser

Lexeme(kind, token, len) ==
  [kind |-> kind, token |-> token, len |-> len, lines |-> 0, tail |-> 0]

MCLexemes ==
  {Lexeme("token", t, 1) : t \in Terminals}
    \cup {[kind |-> "newline", token |-> "", len |-> 1, lines |-> 1, tail |-> 0],
          [kind |-> "comment", token |-> "", len |-> 5, lines |-> 1, tail |-> 2],
          [kind |-> "string", token |-> "simple", len |-> 3, lines |-> 1, tail |-> 1],
          Lexeme("blank", "", 2)}

================================================================================
