--------------------------- MODULE NameValueFile ---------------------------
(***************************************************************************)
(* The text files of names and values under gogoc-config: how              *)
(* NameValueParser reads and writes one, and what NameValueConfig does to  *)
(* the data it holds.                                                      *)
(*                                                                         *)
(* A file is a sequence of lines, each ended by a newline.  A line is a    *)
(* record of its form, of the number of spaces it begins with, and of the  *)
(* two texts around its first "=".  A text has no newline in it.  What a   *)
(* line is read as is found out anew from its first character.             *)
(***************************************************************************)
EXTENDS Integers, Sequences, FiniteSets, Functions

CONSTANT
    Facts    \* what the code can tell about a text: a function from the texts in
             \* use to records (see ConfigData for the fields other than trim, len and hash)

ASSUME TrimIdempotent == \A s \in DOMAIN Facts : Facts[Facts[s].trim].trim = Facts[s].trim

----------------------------------------------------------------------------
(* Lines.                                                                  *)

Blank == ""

Line(type, name, value) == [type |-> type, name |-> name, value |-> value, indent |-> 0]
NV(name, value)   == Line("nv", name, value)
Led(name, value)  == Line("led", name, value)           \* a "=" before the name as well
Word(name)        == Line("word", name, Blank)          \* a line without a "="
Comment           == Line("comment", "#", Blank)
EmptyLine         == Line("empty", Blank, Blank)
Separators        == Line("separators", Blank, Blank)   \* nothing but "="
LongLine          == Line("long", Blank, Blank)         \* some line that is too long
Indented(n, line) == [line EXCEPT !.indent = n]

\* The elements of s that are in S, in their order.
Only(s, S) ==
    LET only[n \in 0 .. Len(s)] ==
            IF n = 0 THEN <<>>
            ELSE IF s[n] \in S THEN Append(only[n - 1], s[n]) ELSE only[n - 1]
    IN only[Len(s)]

\* A text Facts does not know has no blanks around it, does not begin with a
\* "#", and is not counted in a line's length.
Trim(s) == IF s \in DOMAIN Facts THEN Facts[s].trim ELSE s
Size(s) == IF s \in DOMAIN Facts THEN Facts[s].len ELSE 0
Hash(s) == s \in DOMAIN Facts /\ Facts[s].hash

\* getline() finds no newline within NV_MAX_LINE_LENGTH - 1 characters.
NV_MAX_LINE_LENGTH == 2048
LineLength(line) ==
    line.indent + Size(line.name) + Size(line.value)
    + (CASE line.type = "nv" -> 1 [] line.type = "led" -> 2 [] OTHER -> 0)
TooLong(line) == line.type = "long" \/ LineLength(line) > NV_MAX_LINE_LENGTH - 1

----------------------------------------------------------------------------
(* The parser's data: every line of the file in order, m_FullFileData, and *)
(* a map from names to values, m_NameValue.                                *)

NoData == [ffd |-> <<>>, nv |-> <<>>]

NamesIn(ffd) == {ffd[i].text : i \in {k \in DOMAIN ffd : ffd[k].type = "nv"}}

\* Only spaces are skipped before the test for a comment; trim() takes off tabs
\* too, when the name is stored.  strtok() passes over the "=" before a name.
HasName(line) == line.type = "led" \/ (line.type \in {"nv", "word"} /\ ~Hash(line.name))

\* AddNameValue(), AddComment(), AddEmptyLine(): a name that is nothing but
\* blanks is dropped.
Entry(line) ==
    IF HasName(line) THEN [type |-> "nv", text |-> Trim(line.name)]
    ELSE IF line.type \in {"comment", "nv", "word"} THEN [type |-> "comment", text |-> "#"]
    ELSE [type |-> "empty", text |-> Blank]
Entries(lines) ==
    LET kept == Only(lines, {l \in Range(lines) : HasName(l) => Trim(l.name) # Blank})
    IN [i \in DOMAIN kept |-> Entry(kept[i])]

\* The value of the last line that has the name.
LastValue(lines, name) ==
    LET with == {i \in DOMAIN lines : HasName(lines[i]) /\ Trim(lines[i].name) = name}
    IN Trim(lines[CHOOSE i \in with : \A j \in with : j <= i].value)

DataOf(lines) ==
    LET ffd == Entries(lines)
    IN [ffd |-> ffd, nv |-> [n \in NamesIn(ffd) |-> LastValue(lines, n)]]

\* ReadConfigurationData().  The read that meets the end of the file counts as
\* an empty line.  strtok() finds no name in a line of separators, which
\* throws with the lines before it stored.  A line that is too long sets the
\* stream's failbit: eof() never becomes true.
ReadConfigurationData(file) ==
    LET stops == {i \in DOMAIN file : file[i].type = "separators" \/ TooLong(file[i])}
        first == CHOOSE i \in stops : \A j \in stops : i <= j
    IN IF stops = {}
       THEN [result |-> "true", data |-> DataOf(Append(file, EmptyLine))]
       ELSE [result |-> IF TooLong(file[first]) THEN "hangs" ELSE "BADCONFIGFILE",
             data |-> DataOf(SubSeq(file, 1, first - 1))]

\* The pointer into the line buffer is moved over the spaces of every line and
\* never moved back, while getline() is always given the buffer's whole size.
Moved(lines, i) == FoldFunctionOnSet(+, 0, [j \in DOMAIN lines |-> lines[j].indent], 1 .. i - 1)
Overruns(file) ==
    LET lines == Append(file, EmptyLine)
    IN \E i \in DOMAIN lines :
          /\ \E j \in 1 .. i - 1 : lines[j].indent > 0
          /\ \A j \in 1 .. i - 1 : ~TooLong(lines[j]) /\ lines[j].type # "separators"
          /\ TooLong(lines[i]) \/ Moved(lines, i) + LineLength(lines[i]) > NV_MAX_LINE_LENGTH - 1

\* What ReadConfigurationData() may come to: writing past the buffer does no
\* harm, or ends the process.
Readings(file) ==
    {ReadConfigurationData(file)}
    \cup (IF Overruns(file) THEN {[result |-> "aborts", data |-> NoData]} ELSE {})

\* What WriteConfigurationData() writes: a name that has lost its value is
\* left out.
Written(data) ==
    LET kept == Only(data.ffd, {e \in Range(data.ffd) : e.type = "nv" => e.text \in DOMAIN data.nv})
    IN [i \in DOMAIN kept |->
          IF kept[i].type = "nv" THEN NV(kept[i].text, data.nv[kept[i].text])
          ELSE IF kept[i].type = "comment" THEN Comment ELSE EmptyLine]

----------------------------------------------------------------------------
(* NameValueConfig.                                                        *)

GetVariableValue(data, name) == IF name \in DOMAIN data.nv THEN data.nv[name] ELSE Blank

\* Mutant: a new variable is not entered among the lines of the file.
SetValueOnly(data, name, value) ==
    [data EXCEPT !.nv = [n \in DOMAIN data.nv \cup {name} |-> IF n = name THEN value ELSE data.nv[n]]]

\* A line of any kind with this text counts as the variable's.
SetVariableValue(data, name, value) ==
    [ffd |-> IF \E i \in DOMAIN data.ffd : data.ffd[i].text = name
             THEN data.ffd
             ELSE Append(data.ffd, [type |-> "nv", text |-> name]),
     nv  |-> [n \in DOMAIN data.nv \cup {name} |-> IF n = name THEN value ELSE data.nv[n]]]

RemoveVariable(data, name) ==
    [ffd |-> Only(data.ffd, Range(data.ffd) \ {[type |-> "nv", text |-> name]}),
     nv  |-> [n \in DOMAIN data.nv \ {name} |-> data.nv[n]]]
=============================================================================
