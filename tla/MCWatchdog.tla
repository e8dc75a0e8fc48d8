------------------------------ MODULE MCWatchdog ------------------------------
(* Two names; files of one and of four words. Four words are two watch     *)
(* chunks, the first of which takes two of the classifier's windows.       *)
EXTENDS Watchdog

MCNames == {1, 2}
=============================================================================
