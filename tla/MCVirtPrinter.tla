--------------------------- MODULE MCVirtPrinter ---------------------------
(* VirtPrinter alone for TLC; its bounds are numbers and need no definition.*)
EXTENDS VirtPrinter
=============================================================================
