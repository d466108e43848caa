---------------------------- MODULE MCLogStream ----------------------------
(* Small instances of LogStream for TLC.                                     *)
EXTENDS LogStream, Functions

CONSTANT MaxTotal   \* bounds the lines of all runtimes together

FewLines == FoldFunction(+, 0, read) <= MaxTotal
=============================================================================
