----------------------- MODULE MCThreadedPrintServer -----------------------
(* ThreadedPrintServer for TLC.  config.rc has a printer in each group, and *)
(* two more of black_white in a comment.                                    *)
EXTENDS ThreadedPrintServer

CONSTANTS black_white, color, printer0, printer1, printer3

OneEach == [p \in Printers |-> IF p = printer3 THEN color ELSE black_white]
=============================================================================
