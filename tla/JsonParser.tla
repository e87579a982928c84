----------------------------- MODULE JsonParser -----------------------------
(* json_parse_ex of the libjson the simulator reads its task list with       *)
(* (Scheduler/libjson/json-parser.c).  It reads the text twice with the same *)
(* loop: the first pass makes a value for each one it meets and counts its   *)
(* elements, name bytes and characters, the second takes the values in the   *)
(* order they were made, allocates what was counted and fills it in.         *)
(*                                                                           *)
(* A character is a member of a small alphabet: "true" stands for a literal  *)
(* spelt out and "u2" for a u and four digits that name a 2-byte character.  *)
(* Left out: comments, which json_parse does not enable, failing             *)
(* allocations, and the overflow of counters.                                *)
EXTENDS Naturals, Integers, Sequences, SequencesExt, FiniteSets

CONSTANTS Alphabets,  \* sets of characters that texts are typed from
          MaxLength   \* the longest text typed

VARIABLES text, typing,   \* the text; the alphabet it is still typed from, or {}
          pass,           \* first_pass
          ptr, flags, top, slen, digits,   \* slen: string_length, digits: num_digits
          alloc,          \* the next value of the second pass
          vals,           \* the values in the order they were made
          verdict, freed
place == <<pass, ptr, flags, top, slen, digits, alloc>>
vars == <<text, typing, place, vals, verdict, freed>>

Digits == {"0", "1", "2"}
Space == {" ", "\n", "\t", "\r"}
Number(c) == IF c = "1" THEN 1 ELSE IF c = "2" THEN 2 ELSE 0
EndOfText == "EOF"
b == IF ptr > Len(text) THEN EndOfText ELSE text[ptr]
None == 0
Value(type, parent) ==
    [type |-> type, parent |-> parent, len |-> 0, names |-> 0, num |-> 0,
     room |-> 0, nameRoom |-> 0, kids |-> <<>>, keys |-> <<>>, chars |-> <<>>]

\* The start of a pass, and of the parse.
StartPass(n) == /\ pass' = n /\ ptr' = 1 /\ flags' = {"seek"} /\ top' = None
                /\ slen' = 0 /\ digits' = 0 /\ alloc' = 1
Idle == /\ pass = 1 /\ ptr = 1 /\ flags = {"seek"} /\ top = None
        /\ slen = 0 /\ digits = 0 /\ alloc = 1
        /\ vals = <<>> /\ verdict = "parsing" /\ freed = {}
Init == Idle /\ text = <<>> /\ typing \in Alphabets

\* The first pass meets the next character only now, or the end of the text.
Type ==
    /\ verdict = "parsing" /\ typing # {} /\ ptr > Len(text)
    /\ \/ \E c \in typing : Len(text) < MaxLength /\ text' = Append(text, c) /\ UNCHANGED typing
       \/ typing' = {} /\ UNCHANGED text
    /\ UNCHANGED <<place, vals, verdict, freed>>
Reading == verdict = "parsing" /\ (ptr > Len(text) => typing = {})

\* e_failed: the first pass frees every value it made.
Fail == /\ verdict' = "error" /\ freed' = DOMAIN vals
        /\ UNCHANGED <<text, typing, place, vals>>

\* Mutant of NewValue: the length of the first pass is not set back to 0.
NewValueKeepsLength(type) ==
    IF pass = 1
      THEN /\ vals' = Append(vals, Value(type, top)) /\ top' = Len(vals) + 1
           /\ UNCHANGED alloc
      ELSE /\ vals' = [vals EXCEPT ![alloc].room = vals[alloc].len,
                                   ![alloc].nameRoom = vals[alloc].names,
                                   ![alloc].names = 0]
           /\ top' = alloc /\ alloc' = alloc + 1

\* new_value: the first pass appends one, the second takes the next one and
\* turns its counts into memory.
NewValue(type) ==
    IF pass = 1
      THEN /\ vals' = Append(vals, Value(type, top)) /\ top' = Len(vals) + 1
           /\ UNCHANGED alloc
      ELSE /\ vals' = [vals EXCEPT ![alloc].room = vals[alloc].len, ![alloc].len = 0,
                                   ![alloc].nameRoom = vals[alloc].names,
                                   ![alloc].names = 0]
           /\ top' = alloc /\ alloc' = alloc + 1

\* Mutant of Complete: no comma is due.
CompleteWithoutComma(t, vs, fs) ==
    LET parent == vs[t].parent
        rest == fs \ {"next"}
    IN  IF parent = None
          THEN flags' = rest \cup {"done"} /\ vals' = vs /\ top' = t
          ELSE /\ flags' = IF vs[parent].type = "array" THEN rest \cup {"seek"} ELSE rest
               /\ vals' = [vs EXCEPT ![parent].len = @ + 1,
                                     ![parent].kids = IF pass = 1 THEN @ ELSE Append(@, t)]
               /\ top' = parent

\* flag_next: the value t is complete, and the values are vs.  Its parent, when
\* it has one, counts it, and holds it in the second pass.
Complete(t, vs, fs) ==
    LET parent == vs[t].parent
        rest == (fs \ {"next"}) \cup {"comma"}
    IN  IF parent = None
          THEN flags' = rest \cup {"done"} /\ vals' = vs /\ top' = t
          ELSE /\ flags' = IF vs[parent].type = "array" THEN rest \cup {"seek"} ELSE rest
               /\ vals' = [vs EXCEPT ![parent].len = @ + 1,
                                     ![parent].kids = IF pass = 1 THEN @ ELSE Append(@, t)]
               /\ top' = parent

\* The bytes a character adds to the string it is in, and those of an escape.
Width(c) == CASE c \in {"true", "null"} -> 4
              [] c \in {"false", "u1", "u2", "u3", "u4"} -> 5
              [] OTHER -> 1
Bytes(c) == [i \in 1 .. Width(c) |-> c]
Escaped(c) == CASE c = "u1" -> <<c>> [] c = "u2" -> <<c, c>> [] c = "u3" -> <<c, c, c>>
                [] c = "u4" -> <<c, c, c, c>> [] c = "n" -> <<"\n">> [] OTHER -> Bytes(c)
\* Inside of a string: an object's next name, or a value.
InString ==
    /\ Reading /\ "string" \in flags
    /\ \/ b = EndOfText /\ Fail
       \/ /\ b # EndOfText /\ "escaped" \notin flags /\ b = "\\"
          /\ flags' = flags \cup {"escaped"} /\ ptr' = ptr + 1
          /\ UNCHANGED <<text, typing, pass, top, slen, digits, alloc, vals, verdict, freed>>
       \/ /\ b # EndOfText /\ (b \notin {"\"", "\\"} \/ "escaped" \in flags)
          /\ flags' = flags \ {"escaped"} /\ ptr' = ptr + 1
          /\ LET added == IF "escaped" \in flags THEN Escaped(b) ELSE Bytes(b)
             IN  /\ slen' = slen + Len(added)
                 /\ vals' = IF pass = 1 THEN vals
                            ELSE [vals EXCEPT ![top].chars = @ \o added]
          /\ UNCHANGED <<text, typing, pass, top, digits, alloc, verdict, freed>>
EndOfString ==
    /\ Reading /\ "string" \in flags /\ "escaped" \notin flags /\ b = "\""
    /\ ptr' = ptr + 1
    /\ \/ /\ vals[top].type = "string"
          /\ Complete(top, [vals EXCEPT ![top].len = slen], flags \ {"string"})
       \/ /\ vals[top].type = "object"
          /\ flags' = (flags \ {"string"}) \cup {"seek", "colon"}
          /\ vals' = [vals EXCEPT ![top].names = @ + slen + 1, ![top].chars = <<>>,
                                  ![top].keys = IF pass = 1 THEN @
                                                ELSE Append(@, vals[top].chars)]
          /\ UNCHANGED top
    /\ UNCHANGED <<text, typing, pass, slen, digits, alloc, verdict, freed>>

\* Behind the root value only spaces may follow; then the next pass starts, or
\* the root is returned.
Done ==
    /\ Reading /\ "done" \in flags
    /\ \/ /\ b \in Space /\ ptr' = ptr + 1
          /\ UNCHANGED <<text, typing, pass, flags, top, slen, digits, alloc, vals, verdict, freed>>
       \/ /\ b = EndOfText /\ pass = 1 /\ StartPass(0)
          /\ UNCHANGED <<text, typing, vals, verdict, freed>>
       \/ /\ b = EndOfText /\ pass = 0 /\ verdict' = "ok" /\ top' = 1
          /\ vals' = [vals EXCEPT ![1].parent = None]
          /\ UNCHANGED <<text, typing, pass, ptr, flags, slen, digits, alloc, freed>>
       \/ b \notin Space \cup {EndOfText} /\ Fail

Seeking == Reading /\ flags \cap {"string", "done"} = {} /\ "seek" \in flags
InArray == IF top = None THEN FALSE ELSE vals[top].type = "array"
\* Spaces are skipped, and so is the comma or colon that is due, which no other
\* character may stand for; "]" closes an array wherever a value may stand.
Separator ==
    /\ Seeking
    /\ \/ /\ b \in Space /\ ptr' = ptr + 1
          /\ UNCHANGED <<text, typing, pass, flags, top, slen, digits, alloc, vals, verdict, freed>>
       \/ /\ b = "]" /\ InArray
          /\ Complete(top, vals, flags \ {"comma", "seek"}) /\ ptr' = ptr + 1
          /\ UNCHANGED <<text, typing, pass, slen, digits, alloc, verdict, freed>>
       \/ b = "]" /\ ~InArray /\ Fail
       \/ /\ b \notin Space \cup {"]"} /\ "comma" \in flags
          /\ \/ /\ b = "," /\ flags' = flags \ {"comma"} /\ ptr' = ptr + 1
                /\ UNCHANGED <<text, typing, pass, top, slen, digits, alloc, vals, verdict, freed>>
             \/ b # "," /\ Fail
       \/ /\ b \notin Space \cup {"]"} /\ "comma" \notin flags /\ "colon" \in flags
          /\ \/ /\ b = ":" /\ flags' = flags \ {"colon"} /\ ptr' = ptr + 1
                /\ UNCHANGED <<text, typing, pass, top, slen, digits, alloc, vals, verdict, freed>>
             \/ b # ":" /\ Fail

Literals == [true |-> "boolean", false |-> "boolean", null |-> "null"]
NumberStart == Digits \cup {"-"}
NumberFlags == {"negative", "zero", "e", "sign", "enegative"}
\* The first character of a value, when no comma and no colon is due.
SeekValue ==
    /\ Seeking /\ b \notin Space \cup {"]"} /\ flags \cap {"comma", "colon"} = {}
    /\ \/ /\ b \in {"{", "["} /\ NewValue(IF b = "{" THEN "object" ELSE "array")
          /\ flags' = IF b = "{" THEN flags \ {"seek"} ELSE flags
          /\ ptr' = ptr + 1 /\ UNCHANGED <<slen, digits>>
          /\ UNCHANGED <<text, typing, pass, verdict, freed>>
       \/ /\ b = "\"" /\ NewValue("string") /\ slen' = 0
          /\ flags' = (flags \ {"seek"}) \cup {"string"}
          /\ ptr' = ptr + 1 /\ UNCHANGED <<text, typing, pass, digits, verdict, freed>>
       \/ /\ b \in NumberStart /\ pass = 1 /\ NewValue("integer") /\ digits' = 0
          /\ flags' = (flags \ (NumberFlags \cup {"seek"})) \cup
                        (IF b = "-" THEN {"negative"} ELSE {})
          /\ ptr' = IF b = "-" THEN ptr + 1 ELSE ptr
          /\ UNCHANGED <<text, typing, pass, slen, verdict, freed>>
       \/ b \notin {"{", "[", "\""} \cup NumberStart \cup DOMAIN Literals /\ Fail
\* A literal is complete at once, in one turn of the loop.
Literal ==
    /\ Seeking /\ b \in DOMAIN Literals /\ flags \cap {"comma", "colon"} = {}
    /\ LET t == IF pass = 1 THEN Len(vals) + 1 ELSE alloc
           vs == IF pass = 1 THEN Append(vals, [Value(Literals[b], top) EXCEPT
                                                  !.num = IF b = "true" THEN 1 ELSE 0])
                 ELSE vals
       IN  /\ Complete(t, vs, flags \ {"seek"})
           /\ alloc' = IF pass = 1 THEN alloc ELSE alloc + 1
    /\ ptr' = ptr + 1 /\ UNCHANGED <<text, typing, pass, slen, digits, verdict, freed>>
\* The second pass knows the number and skips whatever a number may consist of.
SkipNumber ==
    /\ Seeking /\ pass = 0 /\ b \in NumberStart /\ flags \cap {"comma", "colon"} = {}
    /\ LET part == Digits \cup {"+", "-", "e", "."}
       IN  ptr' = CHOOSE i \in ptr .. Len(text) + 1 :
                    /\ \A j \in ptr .. i - 1 : text[j] \in part
                    /\ i > Len(text) \/ text[i] \notin part
    /\ Complete(alloc, vals, flags \ {"seek"}) /\ alloc' = alloc + 1
    /\ UNCHANGED <<text, typing, pass, slen, digits, verdict, freed>>

Inside(types) == /\ Reading /\ flags \cap {"string", "done", "seek"} = {}
                 /\ vals[top].type \in types
\* Between the pairs of an object: a name, the end, or the comma that is due.
InObject ==
    /\ Inside({"object"})
    /\ \/ /\ b \in Space /\ UNCHANGED <<flags, slen, top, vals, verdict, freed>>
          /\ ptr' = ptr + 1
       \/ /\ b = "\"" /\ "comma" \notin flags /\ flags' = flags \cup {"string"} /\ slen' = 0
          /\ ptr' = ptr + 1 /\ UNCHANGED <<top, vals, verdict, freed>>
       \/ /\ b = "}" /\ Complete(top, vals, flags \ {"comma"})
          /\ ptr' = ptr + 1 /\ UNCHANGED <<slen, verdict, freed>>
       \/ /\ b = "," /\ "comma" \in flags /\ flags' = flags \ {"comma"}
          /\ ptr' = ptr + 1 /\ UNCHANGED <<slen, top, vals, verdict, freed>>
       \/ /\ ~ \/ b \in Space \cup {"}"}
               \/ b = "\"" /\ "comma" \notin flags
               \/ b = "," /\ "comma" \in flags
          /\ verdict' = "error" /\ freed' = DOMAIN vals
          /\ UNCHANGED <<flags, slen, top, vals, ptr>>
    /\ UNCHANGED <<text, typing, pass, digits, alloc>>

\* The digits, sign, point and exponent of a number, in the first pass.
InNumber ==
    /\ Inside({"integer", "double"}) /\ UNCHANGED <<text, typing, pass, slen, alloc>>
    /\ LET integer == vals[top].type = "integer"
           signs == "e" \in flags /\ "sign" \notin flags /\ b \in {"+", "-"}
           point == integer /\ b = "."
           exponent == b = "e" /\ "e" \notin flags
           noDigits == digits = 0 /\ (point \/ ~integer) /\ ~signs
       IN  \/ /\ b \in Digits /\ digits' = digits + 1 /\ ptr' = ptr + 1
              /\ ~(integer /\ "zero" \in flags /\ "e" \notin flags)
              /\ flags' = IF "e" \in flags THEN flags \cup {"sign"}
                          ELSE IF integer /\ digits = 0 /\ b = "0" THEN flags \cup {"zero"}
                          ELSE flags
              /\ vals' = IF integer THEN [vals EXCEPT ![top].num = @ * 10 + Number(b)] ELSE vals
              /\ UNCHANGED <<top, verdict, freed>>
           \/ /\ signs /\ flags' = flags \cup {"sign"} \cup (IF b = "-" THEN {"enegative"} ELSE {})
              /\ ptr' = ptr + 1 /\ UNCHANGED <<digits, vals, top, verdict, freed>>
           \/ /\ (point \/ exponent) /\ ~noDigits
              /\ vals' = [vals EXCEPT ![top].type = "double"] /\ digits' = 0 /\ ptr' = ptr + 1
              /\ flags' = IF point THEN flags ELSE (flags \cup {"e"}) \ {"zero"}
              /\ UNCHANGED <<top, verdict, freed>>
           \/ /\ b \notin Digits /\ ~signs /\ ~point /\ ~exponent /\ ~noDigits
              /\ Complete(top, IF integer /\ "negative" \in flags
                                 THEN [vals EXCEPT ![top].num = -@] ELSE vals, flags)
              /\ UNCHANGED <<ptr, digits, verdict, freed>>
           \/ /\ \/ b \in Digits /\ integer /\ "zero" \in flags /\ "e" \notin flags
                 \/ b \notin Digits /\ noDigits
              /\ verdict' = "error" /\ freed' = DOMAIN vals
              /\ UNCHANGED <<ptr, digits, flags, vals, top>>

\* Mutant of FreeStep: the length of the container is not counted down.
FreeStepAgain ==
    /\ verdict = "ok" /\ top # None /\ UNCHANGED vals
    /\ LET v == vals[top]
       IN  IF v.kids # <<>>
             THEN top' = Last(v.kids) /\ UNCHANGED freed
             ELSE freed' = freed \cup {top} /\ top' = v.parent
    /\ UNCHANGED <<text, typing, pass, ptr, flags, slen, digits, alloc, verdict>>

\* json_value_free: the elements from the last to the first, then the value.
FreeStep ==
    /\ verdict = "ok" /\ top # None
    /\ LET v == vals[top]
       IN  IF v.kids # <<>>
             THEN /\ vals' = [vals EXCEPT ![top].len = @ - 1, ![top].kids = Front(@)]
                  /\ top' = Last(v.kids) /\ UNCHANGED freed
             ELSE freed' = freed \cup {top} /\ top' = v.parent /\ UNCHANGED vals
    /\ UNCHANGED <<text, typing, pass, ptr, flags, slen, digits, alloc, verdict>>

Parse == \/ InString \/ EndOfString \/ Done \/ Separator \/ SeekValue \/ Literal
         \/ SkipNumber \/ InObject \/ InNumber \/ FreeStep
ParserNext == Type \/ Parse

----------------------------------------------------------------------------
\* The language json_parse_ex reads, as a grammar: JSON, and a comma before a
\* closing bracket, and a minus sign alone (for 0) or before an exponent.  An
\* operator gives the set of <<what is read, the place behind it>>.
IsDigits(s) == s # <<>> /\ \A i \in DOMAIN s : s[i] \in Digits
IsMantissa(s) ==
    \E i \in 0 .. Len(s) :
        LET whole == SubSeq(s, 1, i)
        IN  /\ IsDigits(whole) /\ (whole[1] = "0" => i = 1)
            /\ i < Len(s) => s[i + 1] = "." /\ IsDigits(SubSeq(s, i + 2, Len(s)))
IsExponent(s) == /\ Len(s) > 1 /\ s[1] = "e"
                 /\ IsDigits(SubSeq(s, IF s[2] \in {"+", "-"} THEN 3 ELSE 2, Len(s)))
IsNumber(s) ==
    \E i \in 0 .. Len(s) :
        LET m == SubSeq(s, 1, i)  e == SubSeq(s, i + 1, Len(s))
        IN  /\ i = Len(s) \/ IsExponent(e)
            /\ m = <<"-">> \/ IsMantissa(m) \/ (i > 1 /\ m[1] = "-" /\ IsMantissa(Tail(m)))
IsInteger(s) == \A i \in DOMAIN s : s[i] \notin {".", "e"}
Decimal(s) == FoldLeft(LAMBDA n, c : n * 10 + Number(c), 0, s)
Tree(type, num, chars, kids, keys) ==
    [type |-> type, num |-> num, chars |-> chars, kids |-> kids, keys |-> keys]
Past(i) == CHOOSE j \in i .. Len(text) + 1 :
             (\A k \in i .. j - 1 : text[k] \in Space) /\ (j > Len(text) \/ text[j] \notin Space)
At(i) == IF i > Len(text) THEN EndOfText ELSE text[i]
RECURSIVE Characters(_)
Characters(i) == CASE At(i) = EndOfText \/ (At(i) = "\\" /\ At(i + 1) = EndOfText) -> {}
                   [] At(i) = "\"" -> {<<<<>>, i + 1>>}
                   [] At(i) = "\\" -> {<<Escaped(At(i + 1)) \o r[1], r[2]>> : r \in Characters(i + 2)}
                   [] OTHER -> {<<Bytes(At(i)) \o r[1], r[2]>> : r \in Characters(i + 1)}
RECURSIVE ValueAt(_), Items(_, _)
\* The elements of an array, or the pairs of an object, and the closing bracket.
Items(i, close) ==
    LET start == Past(i)
        names == IF close = "]" THEN {<<<<>>, start>>}
                 ELSE IF At(start) # "\"" THEN {}
                 ELSE {<<r[1], Past(r[2]) + 1>> : r \in {q \in Characters(start + 1) : At(Past(q[2])) = ":"}}
        after(j) == (IF At(Past(j)) = close THEN {<<<<>>, Past(j) + 1>>} ELSE {})
                    \cup (IF At(Past(j)) = "," THEN Items(Past(j) + 1, close) ELSE {})
    IN  (IF At(start) = close THEN {<<<<>>, start + 1>>} ELSE {})
        \cup UNION {UNION {{<<<<<<n[1], v[1]>>>> \o rest[1], rest[2]>> : rest \in after(v[2])}
                           : v \in ValueAt(Past(n[2]))} : n \in names}
ValueAt(i) ==
    CASE At(i) \in {"[", "{"} ->
           {<<Tree(IF At(i) = "[" THEN "array" ELSE "object", 0, <<>>,
                   [k \in DOMAIN r[1] |-> r[1][k][2]],
                   IF At(i) = "[" THEN <<>> ELSE [k \in DOMAIN r[1] |-> r[1][k][1]]), r[2]>> :
              r \in Items(i + 1, IF At(i) = "[" THEN "]" ELSE "}")}
      [] At(i) = "\"" -> {<<Tree("string", 0, r[1], <<>>, <<>>), r[2]>> : r \in Characters(i + 1)}
      [] At(i) \in DOMAIN Literals ->
           {<<Tree(Literals[At(i)], IF At(i) = "true" THEN 1 ELSE 0, <<>>, <<>>, <<>>), i + 1>>}
      [] OTHER -> {<<LET s == SubSeq(text, i, j)
                         minus == s[1] = "-"
                     IN  IF IsInteger(s)
                           THEN Tree("integer", IF minus THEN -Decimal(Tail(s)) ELSE Decimal(s), <<>>, <<>>, <<>>)
                           ELSE Tree("double", 0, <<>>, <<>>, <<>>), j + 1>> :
                     j \in {k \in i .. Len(text) : IsNumber(SubSeq(text, i, k))}}
Grammatical == {r[1] : r \in {q \in ValueAt(Past(1)) : Past(q[2]) > Len(text)}}
RECURSIVE TreeOf(_)
TreeOf(t) == LET v == vals[t]
             IN  Tree(v.type, IF v.type = "double" THEN 0 ELSE v.num,
                      IF v.type = "string" THEN v.chars ELSE <<>>,
                      [k \in DOMAIN v.kids |-> TreeOf(v.kids[k])], v.keys)

\* The second pass, and with it json_parse, is over, and nothing is freed yet.
Sized == {t \in DOMAIN vals : vals[t].type \in {"array", "object", "string"}}
Parsed == verdict = "ok" /\ freed = {} /\ \A t \in Sized : vals[t].len = vals[t].room

\* What the first pass counted is what the second one fills: it never fails,
\* never writes behind the memory a value got, and leaves nothing of it unused
\* (json-parser.c takes its bounds from the first pass alone).
PassesAgree ==
    /\ verdict = "error" => pass = 1
    /\ pass = 0 /\ verdict = "parsing" => \A t \in Sized : t < alloc =>
         LET reading == IF t = top /\ "string" \in flags THEN slen ELSE 0
             string == vals[t].type = "string"
         IN  /\ (IF string THEN reading ELSE vals[t].len) <= vals[t].room
             /\ string \/ vals[t].names + reading <= vals[t].nameRoom
    /\ pass = 0 /\ verdict = "parsing" /\ "done" \in flags => \A t \in Sized :
         vals[t].len = vals[t].room /\ vals[t].names = vals[t].nameRoom

\* json_parse accepts a text exactly when the grammar has a value for it, and
\* returns that value.
ReadsGrammar == /\ verdict = "error" => Grammatical = {}
                /\ Parsed => Grammatical = {TreeOf(1)}

\* json_value_free releases every value once, and a container after all that it
\* holds; no step goes back to a released one.
FreedOnce == verdict = "ok" => /\ top # None => top \notin freed
                               /\ \A t \in DOMAIN vals : vals[t].parent \in freed => t \in freed
                               /\ top = None => freed = DOMAIN vals
=============================================================================
