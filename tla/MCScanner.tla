----------------------------- MODULE MCScanner -----------------------------
(* Scanner for TLC: short files of all kinds of characters, and longer ones  *)
(* of the kinds that move lines.                                             *)
EXTENDS Scanner

MCChars == {"a", " ", "newline", "quote", "backslash", "/", "*", "|", "#", ";", "{", ".alias", "op"}
LineChars == {"a", " ", "newline", "/", "*", "|"}
All == {"ScannerOR", "ScannerMultiply"}

MCCases == { [chars |-> MCChars, length |-> 5, policies |-> {{}, All}],
             [chars |-> LineChars, length |-> 7, policies |-> {{}}] }
=============================================================================
