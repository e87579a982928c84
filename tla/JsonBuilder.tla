---------------------------- MODULE JsonBuilder ----------------------------
(* The writing half of libjson (SimTaskGen/libjson/json-builder.c): values   *)
(* are made and pushed into arrays and objects, json_measure_ex sizes the    *)
(* buffer, json_serialize_ex fills it, json_builder_free takes the values    *)
(* apart.  The task generator writes the task list this way, on many lines,  *)
(* and wavedrom its waves, on one; what is written is read by json_parse.    *)
(*                                                                           *)
(* Left out: doubles, which neither of them writes, sorting and merging, and *)
(* values that came from the parser.                                         *)
EXTENDS JsonParser

CONSTANTS MaxNodes,        \* values in one tree
          Integers, Booleans,   \* the numbers; of 0 (false) and 1
          Names            \* the strings, as sequences of characters

VARIABLES phase,     \* "typed": there is no builder, the text is typed
          options,   \* json_serialize_opts
          nodes,     \* the values
          iterated,  \* length_iterated of each
          value,     \* the value that a loop is at
          total, newlines, depth, indents,     \* json_measure_ex
          buf, indent                          \* json_serialize_ex
measuring == <<total, newlines, depth, indents>>
writing == <<buf, indent>>
builderVars == <<phase, options, nodes, iterated, value, measuring, writing>>

SingleLine == [mode |-> "single", indent |-> 3]   \* default_opts, for wavedrom
MultiLine == [mode |-> "multi", indent |-> 2]     \* export_json.c
Multi == options.mode = "multi"
\* get_serialize_flags, as the sizes json_measure_ex makes of them.
BracketSize == IF Multi THEN 1 ELSE 2
CommaSize == IF Multi THEN 1 ELSE 2
ColonSize == 2

BuilderIdle ==
    /\ iterated = <<>> /\ value = 1
    /\ total = 1 /\ newlines = 0 /\ depth = 0 /\ indents = 0
    /\ buf = <<>> /\ indent = 0
BuilderInit ==
    /\ Idle /\ text = <<>> /\ typing = {} /\ BuilderIdle
    /\ phase = "build" /\ options \in {SingleLine, MultiLine}
    /\ \E type \in {"array", "object"} : nodes = <<Value(type, None)>>

\* A new value is pushed into a container, at the end, under a name if that is
\* an object.
Leaves == {[Value("integer", None) EXCEPT !.num = n] : n \in Integers}
          \cup {[Value("string", None) EXCEPT !.chars = s] : s \in Names}
          \cup {[Value("boolean", None) EXCEPT !.num = n] : n \in Booleans}
          \cup {Value(type, None) : type \in {"null", "array", "object"}}
Push ==
    /\ phase = "build" /\ Len(nodes) < MaxNodes
    /\ \E c \in DOMAIN nodes, leaf \in Leaves :
         /\ nodes[c].type \in {"array", "object"}
         /\ \E name \in IF nodes[c].type = "object" THEN Names ELSE {<<>>} :
              nodes' = Append([nodes EXCEPT ![c].kids = Append(@, Len(nodes) + 1),
                                            ![c].keys = IF nodes[c].type = "object"
                                                          THEN Append(@, name) ELSE @],
                              [leaf EXCEPT !.parent = c])
    /\ UNCHANGED <<phase, options, iterated, value, measuring, writing>>
Export ==
    /\ phase = "build" /\ phase' = "measure" /\ iterated' = [t \in DOMAIN nodes |-> 0]
    /\ UNCHANGED <<options, nodes, value, measuring, writing>>

v == nodes[value]
Container == v.type \in {"array", "object"} /\ v.kids # <<>>
opens == iterated[value] = 0
closes == iterated[value] = Len(v.kids)
\* The loop goes on to the next element of a container, or back to the parent.
Walk == IF Container /\ ~closes
          THEN /\ iterated' = [iterated EXCEPT ![value] = @ + 1]
               /\ value' = v.kids[iterated[value] + 1]
          ELSE /\ iterated' = [iterated EXCEPT ![value] = 0]
               /\ value' = v.parent

\* measure_string: characters that are written with a backslash count twice.
Escapes == {"\"", "\\", "\n", "\t", "\r"}
\* Mutant of MeasureString: the backslashes are not counted.
MeasureCharacters(s) == Len(s)

MeasureString(s) == Len(s) + Cardinality({i \in DOMAIN s : s[i] \in Escapes})
MeasureLeaf == CASE v.type = "integer" -> (IF v.num < 0 THEN 1 ELSE 0)
                                          + (IF v.num \in -9 .. 9 THEN 1 ELSE 2)
                 [] v.type = "string" -> 2 + MeasureString(v.chars)
                 [] v.type = "boolean" -> IF v.num = 1 THEN 4 ELSE 5
                 [] v.type = "null" -> 4
                 [] OTHER -> 2
MeasureContainer ==
    LET d == IF opens THEN depth + 1 ELSE IF closes THEN depth - 1 ELSE depth
    IN  /\ depth' = d /\ newlines' = newlines + 1 /\ indents' = indents + d
        /\ total' = total + (IF opens \/ closes THEN BracketSize ELSE CommaSize)
                          + (IF v.type = "object" /\ ~closes
                               THEN 2 + ColonSize + MeasureString(v.keys[iterated[value] + 1])
                               ELSE 0)
Measure ==
    /\ phase = "measure" /\ value # None /\ Walk
    /\ IF Container THEN MeasureContainer
       ELSE total' = total + MeasureLeaf /\ UNCHANGED <<newlines, depth, indents>>
    /\ UNCHANGED <<phase, options, nodes, writing>>
\* What the lines add at the end of json_measure_ex.
Newlines == IF Multi THEN newlines * (1 + options.indent) + indents * options.indent ELSE 0
Measured ==
    /\ phase = "measure" /\ value = None
    /\ total' = total + Newlines
    /\ phase' = "write" /\ value' = 1
    /\ UNCHANGED <<options, nodes, iterated, newlines, depth, indents, writing>>

\* Mutant of Escape: quotation marks are written as they are.
EscapeButQuotes(c) == IF c = "\"" \/ c \notin Escapes THEN <<c>> ELSE <<"\\", IF c = "\n" THEN "n" ELSE c>>

\* serialize_string
Escape(c) == IF c \notin Escapes THEN <<c>> ELSE <<"\\", IF c = "\n" THEN "n" ELSE c>>
Quoted(s) == <<"\"">> \o FlattenSeq([i \in DOMAIN s |-> Escape(s[i])]) \o <<"\"">>
Digit == <<"0", "1", "2">>
DecimalOf(n) == (IF n > 9 THEN <<Digit[(n \div 10) + 1]>> ELSE <<>>) \o <<Digit[(n % 10) + 1]>>
Leaf == CASE v.type = "integer" -> IF v.num < 0 THEN <<"-">> \o DecimalOf(-v.num) ELSE DecimalOf(v.num)
          [] v.type = "string" -> Quoted(v.chars)
          [] v.type = "boolean" -> IF v.num = 1 THEN <<"true">> ELSE <<"false">>
          [] v.type = "null" -> <<"null">>
          [] v.type = "array" -> <<"[", "]">>
          [] v.type = "object" -> <<"{", "}">>
NewLine(n) == IF Multi THEN <<"\n">> \o [i \in 1 .. n |-> " "] ELSE <<>>
SpaceUnlessMulti == IF Multi THEN <<>> ELSE <<" ">>
OpeningBracket == <<IF v.type = "array" THEN "[" ELSE "{">> \o SpaceUnlessMulti
ClosingBracket == SpaceUnlessMulti \o <<IF v.type = "array" THEN "]" ELSE "}">>
SerializeContainer ==
    /\ indent' = indent + (IF opens THEN options.indent ELSE IF closes THEN -options.indent ELSE 0)
    /\ buf' = buf \o (IF opens THEN OpeningBracket \o NewLine(indent')
                      ELSE IF closes THEN NewLine(indent') \o ClosingBracket
                      ELSE <<",">> \o SpaceUnlessMulti \o NewLine(indent))
                  \o (IF v.type = "object" /\ ~closes
                        THEN Quoted(v.keys[iterated[value] + 1]) \o <<":", " ">> ELSE <<>>)
Serialize ==
    /\ phase = "write" /\ value # None /\ Walk
    /\ IF Container THEN SerializeContainer ELSE buf' = buf \o Leaf /\ UNCHANGED indent
    /\ UNCHANGED <<phase, options, nodes, measuring>>
Serialized ==
    /\ phase = "write" /\ value = None /\ phase' = "free" /\ value' = 1
    /\ UNCHANGED <<options, nodes, iterated, measuring, writing>>

\* json_builder_free, which forgets an element as it goes to it: iterated counts
\* the forgotten ones here.
BuilderFree ==
    /\ phase = "free" /\ value # None
    /\ IF iterated[value] < Len(v.kids)
         THEN /\ iterated' = [iterated EXCEPT ![value] = @ + 1]
              /\ value' = v.kids[Len(v.kids) - iterated[value]]
         ELSE value' = v.parent /\ iterated' = [iterated EXCEPT ![value] = @ + 1]
    /\ UNCHANGED <<phase, options, nodes, measuring, writing>>

\* The file that was written is what json_parse gets.
Load == /\ phase = "free" /\ value = None /\ phase' = "read"
        /\ text' = buf
        /\ UNCHANGED <<options, nodes, iterated, value, measuring, writing>>
        /\ UNCHANGED <<typing, place, vals, verdict, freed>>

BuilderNext == /\ \/ Push \/ Export \/ Measure \/ Measured \/ Serialize \/ Serialized \/ BuilderFree
               /\ UNCHANGED vars
JsonInit == \/ BuilderInit
            \/ /\ Init /\ BuilderIdle /\ phase = "typed" /\ options = SingleLine /\ nodes = <<>>
JsonNext == \/ BuilderNext \/ Load
            \/ /\ phase \in {"typed", "read"} /\ ParserNext /\ UNCHANGED builderVars

----------------------------------------------------------------------------
\* json_serialize_ex writes no byte behind the buffer that json_measure_ex
\* sized, the final null byte included; on one line it fills it, on many lines
\* it leaves the indent of every newline, which is counted twice.
BufferFits ==
    LET bytes == Cardinality(UNION {{i} \X (1 .. Width(buf[i])) : i \in DOMAIN buf})
    IN  phase \in {"write", "free"} =>
          /\ bytes < total
          /\ phase = "free" =>
               total = bytes + 1 + (IF Multi THEN newlines * options.indent ELSE 0)

\* What the builder wrote is read back by the parser as the same value.
RECURSIVE Built(_)
Built(t) == Tree(nodes[t].type, nodes[t].num, nodes[t].chars,
                 [k \in DOMAIN nodes[t].kids |-> Built(nodes[t].kids[k])], nodes[t].keys)
RoundTrip == phase = "read" => verdict # "error" /\ (Parsed => TreeOf(1) = Built(1))

\* A text is done with: refused, or read, and its values freed.
TextEnded == verdict = "error" \/ (verdict = "ok" /\ top = None)
=============================================================================
