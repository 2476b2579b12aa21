------------------------------ MODULE MCFraming ------------------------------
(***************************************************************************)
(* Small instances of Framing for TLC.                                     *)
(***************************************************************************)
EXTENDS Framing

Strings == UNION {[1 .. n -> Char] : n \in 0 .. 2}

\* dump ends such a string in an escaped backslash, which the reader takes for an escape
\* of the closing quote
PlainStrings == {t \in Strings : t = <<>> \/ t[Len(t)] # Backslash}

OneString == {<<"x">>}
=============================================================================
