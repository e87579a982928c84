---------------------------- MODULE MCStructures ----------------------------
(* The linked lists of the print server's daemon, the streams between it and a *)
(* virtual printer, and the values of the json library, for TLC.  Each         *)
(* behaviour is about one of them, what, while the others rest at a start of   *)
(* their own.                                                                  *)
EXTENDS JobQueues, VirtPrinter

VARIABLES what,
          text, typing, pass, ptr, flags, top, slen, digits, alloc, vals, verdict, freed,
          phase, options, nodes, iterated, value, total, newlines, depth, indents, bytes, indent

\* Structure, numbers, and strings with their escapes.
TypedAlphabets == {{"[", "]", "{", "}", ",", "1", "true"},
                   {"{", "}", "\"", ":", ",", "1", " "},
                   {"0", "1", "-", ".", "e", "+", "]", "["},
                   {"\"", "\\", "a", "n", "u1", "u2", "null"}}
\* A number with a sign and two digits; a string with two escapes.
Json == INSTANCE JsonBuilder WITH
      Alphabets <- TypedAlphabets, MaxLength <- 6, MaxNodes <- 4,
      Integers <- {-10}, Booleans <- {0}, Names <- {<<"\"", "a", "\n">>}, buf <- bytes
jsonVars == <<text, typing, pass, ptr, flags, top, slen, digits, alloc, vals, verdict, freed,
              phase, options, nodes, iterated, value, total, newlines, depth, indents, bytes, indent>>

JsonRests == phase = "typed" /\ Json!JsonInit /\ "true" \in typing
StructuresInit == /\ Init /\ PrinterInit
                  /\ \/ what \in {"queues", "printer"} /\ JsonRests
                     \/ what = "json" /\ Json!JsonInit
UseQueues == what = "queues" /\ Next /\ UNCHANGED <<what, printerVars, jsonVars>>
UsePrinter == what = "printer" /\ PrinterNext /\ UNCHANGED <<what, vars, jsonVars>>
UseJson == what = "json" /\ Json!JsonNext /\ UNCHANGED <<what, vars, printerVars>>
\* Who has called the json library goes on, and a text that is read has an end.
\* Neither the daemon nor the printer stops by itself between two of its steps;
\* the daemon may die, or find no more jobs to print.
DaemonGoesOn ==
  /\ what = "printer" /\ UNCHANGED <<what, vars, jsonVars>>
  /\ OpenR \/ OpenW \/ Ask \/ TakeAnswer \/ Printing \/ (dpc = "write" /\ WriteToNobody)
PrinterGoesOn == what = "printer" /\ Reader(1) /\ UNCHANGED <<what, vars, jsonVars>>
StructuresSpec ==
  /\ StructuresInit
  /\ [][UseQueues \/ UsePrinter \/ UseJson]_<<what, vars, printerVars, jsonVars>>
  /\ WF_jsonVars(UseJson)
  /\ WF_printerVars(DaemonGoesOn) /\ WF_printerVars(PrinterGoesOn)
-----------------------------------------------------------------------------
\* json_parse accepts its language and returns the value (json-parser.c), and
\* what json-builder.c writes it reads back as the same value.
TextAndValueAgree == Json!ReadsGrammar /\ Json!RoundTrip
\* The json library's memory: the second pass of json_parse fills what the first
\* one counted, json_value_free frees every value once, and json_serialize_ex stays
\* in the buffer that json_measure_ex sized.
MemoryAgrees == Json!PassesAgree /\ Json!FreedOnce /\ Json!BufferFits
\* Every text is refused, or read and its values freed for good: no loop of the
\* library goes round for ever (json-parser.c, json-builder.c).
EveryTextEnds == []<>(what = "json" => Json!TextEnded)
\* Jobs begun are converted, and nothing stays open behind an idle daemon
\* (printer_driver.c, virt-printer.c).
JobsAreConverted ==
  []<>(what = "printer" => /\ \A j \in 1 .. NJobs : JobIsConverted(j)
                          /\ NothingIsLeftOpen)
\* The installation comes to its end, and the end of the daemon or of the
\* printer reaches the other (printer_driver.c, virt-printer.c).
EndsReachTheOther ==
  []<>(what = "printer" => IsInstalled /\ EndReachesTheOther)
=============================================================================
