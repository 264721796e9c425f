----------------------------- MODULE MCLogging -----------------------------
(* Logging for TLC: strings that leave a line short, all but full, and full *)
(* to the byte; the extreme ints; 4000 bytes as in the code.               *)
EXTENDS Logging

MCInts == {0, -40, -2147483647 - 1}
============================================================================
