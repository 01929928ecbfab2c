------------------------------ MODULE ConfigFile ------------------------------
(***************************************************************************)
(* The configuration file: how utils/configparser.cpp reads and rewrites   *)
(* it, ConfigManager::UpdateConfig changes one value of it, and            *)
(* tool/ConfigTool.cpp makes a new one.  The file is a sequence of lines.  *)
(* A writing may stop short, inside a line: the program crashes, or the    *)
(* disk is full, which a stream that nobody asks hides.  Sections and keys *)
(* are numbers in the order of std::map, section 0 is the one that a value *)
(* with brackets is taken for.                                             *)
(***************************************************************************)
EXTENDS Integers, Sequences, FiniteSets

CONSTANTS
  Slots,       \* names of sections
  Keys,        \* names of keys
  Values,      \* values without brackets
  Bracketed,   \* values with [ and ] in them, such as Light[1]
  FirstLines,  \* bound: lines of the file before anything is done to it
  MaxUpdates   \* bound: calls of UpdateConfig, runs of ConfigTool

VARIABLES
  file,      \* its lines, or NoFile
  op,        \* "idle", "changed" after Set(), "writing"
  out,       \* the lines still to be written
  want,      \* what the file is to say
  before,    \* the file when the call began
  request,   \* <<section, key, value>> of the call, <<>> for ConfigTool
  answer,    \* "true" or "false"; "none" while it runs, and of ConfigTool or a crash
  short,     \* the writing stopped short
  updates

vars == <<file, op, out, want, before, request, answer, short, updates>>

Section(s) == [is |-> "section", name |-> s]
Pair(k, v) == [is |-> "pair", key |-> k, value |-> v]
Other == [is |-> "other"]     \* a comment, a blank line, a line without =
NoFile == <<[is |-> "missing"]>>

-----------------------------------------------------------------------------
(* ConfigParser                                                            *)

Nothing == [s \in {} |-> {}]
Of(values, s) == IF s \in DOMAIN values THEN values[s] ELSE Nothing
With(pairs, k, v) == [j \in DOMAIN pairs \cup {k} |-> IF j = k THEN v ELSE pairs[j]]

\* One line: a header opens a section, also where it is a value with brackets;
\* a pair belongs to the section that is open; of a key the last pair counts.
ReadLine(r, l) ==
  CASE l.is = "section" -> [r EXCEPT !.open = {l.name}]
    [] l.is = "pair" /\ l.value \in Bracketed -> [r EXCEPT !.open = {0}]
    [] l.is = "pair" /\ l.value \notin Bracketed ->
         [r EXCEPT !.values = [s \in DOMAIN @ \cup r.open |->
                                 IF s \in r.open THEN With(Of(@, s), l.key, l.value) ELSE @[s]]]
    [] l.is = "other" -> r

\* The state after each line.
Parsed(lines) ==
  LET state[n \in 0..Len(lines)] ==
        IF n = 0 THEN [open |-> {}, values |-> Nothing] ELSE ReadLine(state[n - 1], lines[n])
  IN  state

parseConfigFile(lines) == Parsed(lines)[Len(lines)].values

Set(values, s, k, v) == [values EXCEPT ![s][k] = v]

\* A header is entry 0 of its section, before its keys.
Entries(values) == {<<s, 0>> : s \in DOMAIN values} \cup UNION {{<<s, k>> : k \in DOMAIN values[s]} : s \in DOMAIN values}
Precedes(d, e) == d[1] < e[1] \/ (d[1] = e[1] /\ d[2] < e[2])
Sorted(es) ==
  [i \in 1..Cardinality(es) |-> CHOOSE e \in es : Cardinality({d \in es : Precedes(d, e)}) = i - 1]

\* What writeValueToFile() writes: comments and empty sections are gone.
Line(values, e) == IF e[2] = 0 THEN Section(e[1]) ELSE Pair(e[2], values[e[1]][e[2]])
Lines(values) == LET es == Sorted(Entries(values)) IN [i \in DOMAIN es |-> Line(values, es[i])]

\* What may be left of a line: a header without ], a key without =, a value
\* that is cut, the line without its end; or nothing of it.
Torn(l) ==
  {<<>>, <<Other>>, <<l>>} \cup (IF l.is = "pair" THEN {<<Pair(l.key, "cut")>>} ELSE {})

-----------------------------------------------------------------------------
(* ConfigManager::UpdateConfig and ConfigTool                              *)

FirstFiles ==
  LET lines == {Section(s) : s \in Slots} \cup {Other} \cup [is: {"pair"}, key: Keys, value: Bracketed]
                 \cup {Pair(k, v) : k \in Keys, v \in {CHOOSE v \in Values : TRUE}}
  IN  {NoFile} \cup UNION {[1..n -> lines] : n \in 0..FirstLines}

Init ==
  /\ file \in FirstFiles /\ before = file
  /\ op = "idle" /\ out = <<>> /\ want = Nothing
  /\ request = <<>> /\ answer = "none" /\ short = FALSE /\ updates = 0

\* The file is read and the value set, if section and key are there.
UpdateConfig(s, k, v) ==
  /\ op = "idle" /\ updates < MaxUpdates /\ updates' = updates + 1
  /\ before' = file /\ request' = <<s, k, v>> /\ short' = FALSE
  /\ LET values == parseConfigFile(file)
     IN IF file # NoFile /\ k \in DOMAIN Of(values, s)
        THEN op' = "changed" /\ want' = Set(values, s, k, v) /\ answer' = "none"
        ELSE op' = "idle" /\ want' = want /\ answer' = "false"
  /\ UNCHANGED <<file, out>>

(* Mutant of OpenForWriting: the file is not truncated. *)
OpenInPlace ==
  /\ op = "changed"
  /\ op' = "writing" /\ out' = Lines(want) /\ UNCHANGED <<answer, file>>
  /\ UNCHANGED <<want, before, request, short, updates>>

\* The file is opened for writing, which empties it, or cannot be opened.
OpenForWriting ==
  /\ op = "changed"
  /\ \/ op' = "writing" /\ file' = <<>> /\ out' = Lines(want) /\ UNCHANGED answer
     \/ op' = "idle" /\ answer' = "false" /\ UNCHANGED <<file, out>>
  /\ UNCHANGED <<want, before, request, short, updates>>

\* ConfigTool makes a file with a comment, the slots with all keys, blank lines.
Generate ==
  /\ op = "idle" /\ updates < MaxUpdates /\ updates' = updates + 1
  /\ before' = file /\ request' = <<>> /\ short' = FALSE /\ answer' = "none"
  /\ LET values == [s \in Slots |-> [k \in Keys |-> CHOOSE v \in Values : TRUE]]
     IN want' = values /\ out' = <<Other>> \o Lines(values) \o <<Other>>
  /\ op' = "writing" /\ file' = <<>>

WriteLine ==
  /\ op = "writing" /\ out # <<>>
  /\ file' = Append(file, Head(out)) /\ out' = Tail(out)
  /\ UNCHANGED <<op, want, before, request, answer, short, updates>>

\* The stream fails: what is written to it from now on is dropped.
DiskFull ==
  /\ op = "writing" /\ out # <<>>
  /\ \E rest \in Torn(Head(out)) : file' = file \o rest
  /\ out' = <<>> /\ short' = TRUE
  /\ UNCHANGED <<op, want, before, request, answer, updates>>

\* No write is asked how it went: the answer is true.
Close ==
  /\ op = "writing" /\ out = <<>>
  /\ op' = "idle" /\ answer' = IF request = <<>> THEN "none" ELSE "true"
  /\ UNCHANGED <<file, out, want, before, request, short, updates>>

Crash ==
  /\ op # "idle"
  /\ \E rest \in (IF out = <<>> THEN {<<>>} ELSE Torn(Head(out))) : file' = file \o rest
  /\ op' = "idle" /\ out' = <<>> /\ answer' = "none" /\ short' = (op = "writing")
  /\ UNCHANGED <<want, before, request, updates>>

Next ==
  \/ \E s \in Slots, k \in Keys, v \in Values : UpdateConfig(s, k, v)
  \/ OpenForWriting \/ Generate \/ WriteLine \/ DiskFull \/ Close \/ Crash

Spec == Init /\ [][Next]_vars

-----------------------------------------------------------------------------
(* Properties                                                              *)

Get(values, s, k) == IF k \in DOMAIN Of(values, s) THEN values[s][k] ELSE ""

TypeOK ==
  /\ op \in {"idle", "changed", "writing"} /\ answer \in {"true", "false", "none"}
  /\ \A s \in DOMAIN want : want[s] # Nothing /\ DOMAIN want[s] \subseteq Keys
  /\ updates \in 0..MaxUpdates /\ short \in BOOLEAN

(* An update that was answered with true, on a disk that was not full, changed
   the one value it names and no other, whatever comments, repeated sections,
   repeated keys and values with brackets the file had. *)
UpdateIsExact ==
  answer = "true" /\ ~short =>
    \A s \in Slots \cup {0}, k \in Keys :
      Get(parseConfigFile(file), s, k)
        = IF <<s, k>> = <<request[1], request[2]>> THEN request[3]
          ELSE Get(parseConfigFile(before), s, k)

(* An update that was refused left the file as it was. *)
RefusedLeavesFile == answer = "false" => file = before

\* Nothing of the former file, every section but the last one complete, and at
\* most one value, the last, cut.
FirstPartOf(left, values) ==
  left # Nothing =>
    /\ DOMAIN left \subseteq DOMAIN values
    /\ \E last \in DOMAIN left :
         /\ \A s \in DOMAIN left \ {last} : s < last /\ left[s] = values[s]
         /\ \A s \in DOMAIN values \ DOMAIN left : s > last
         /\ \A k \in DOMAIN left[last] :
              /\ k \in DOMAIN values[last]
              /\ left[last][k] # values[last][k] =>
                   left[last][k] = "cut" /\ \A j \in DOMAIN left[last] : j <= k

(* A writing that stopped short, at whatever byte, leaves a first part of what
   was wanted. *)
LeftIsPrefix == op = "idle" /\ short => FirstPartOf(parseConfigFile(file), want)

(* The three together, with the types of the variables. *)
ConfigSurvives == TypeOK /\ UpdateIsExact /\ RefusedLeavesFile /\ LeftIsPrefix
=============================================================================
