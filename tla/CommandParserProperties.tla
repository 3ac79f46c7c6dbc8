----------------------- MODULE CommandParserProperties -----------------------
(***************************************************************************)
(* What the actions made of commands must be, against a reference: what    *)
(* kubectl makes of a single well-formed command.                          *)
(***************************************************************************)
EXTENDS CommandParser

\* Whatever the words, the parser makes an action the data models allow, none,
\* or the one exception the plan builder lets through.
ParsesToCommand == ParseCommand(command) \in Command

\* The command the execution log shows for an action is parsed into the same
\* action, but for the namespace, which the parser does not read - also with
\* words added to it (_kubectl_equivalent against the patterns and their order).
Unplaced(a) == IF a.type = "scale_deployment" THEN Scale(a.target, a.replicas)
               ELSE Simple(a.type, a.target)

LoggedCommandParses == logged # Unsupported => ParseCommand(command) = Unplaced(logged)

-----------------------------------------------------------------------------
(* What kubectl would make of a single command: the reference.             *)

IsFlag(w)   == w \in Counting \cup {"--replicas", "-n"}
HasValue(w) == w \in {"--replicas", "-n"}

ValuePositions(c) == {i \in DOMAIN c : i > 1 /\ HasValue(c[i - 1])}
FlagPositions(c)  == {i \in DOMAIN c : IsFlag(c[i])}

\* One invocation, in which every flag that wants a value has one, with a name
\* or number for it, the names are names as a whole, and replicas are given once.
Plain(c) ==
    /\ \A i \in DOMAIN c : (c[i] = "kubectl") = (i = 1)
    /\ Len(c) > 0 /\ ~HasValue(c[Len(c)])
    /\ \A i \in ValuePositions(c) : c[i] \in DOMAIN NameIn
    /\ \A i \in DOMAIN c : c[i] \notin {"=", "--replicas="}
    /\ \A i \in DOMAIN c : c[i] \in DOMAIN NameIn => NameIn[c[i]] = c[i]
    /\ \A i, j \in FlagPositions(c) : c[i] # "-n" /\ c[j] # "-n" => i = j

\* The names among the words after the kind.
Operands(c, from) ==
    {c[i] : i \in {j \in DOMAIN c : j > from} \ (ValuePositions(c) \cup FlagPositions(c))}

Replicas(c) == {CountAt(c, i) : i \in {j \in DOMAIN c : SpellsCount(c, j)}}

AskedBy(c, pattern) ==
    {Simple(pattern.type, name) : name \in
        IF Spells(c, 1, pattern.phrase) THEN Operands(c, Len(pattern.phrase)) ELSE {}}

Asked(c) ==
    (UNION {AskedBy(c, Patterns[k]) : k \in DOMAIN Patterns})
      \cup {Scale(name, n) : name \in Operands(c, 3),
             n \in IF Spells(c, 1, ScalePhrase) THEN Replicas(c) ELSE {}}

\* An action parsed from a single kubectl command is one that the command asks
\* for: no flag, value or kind is taken for a name, and no verb for another
\* (the patterns of parse_command against the grammar of kubectl).
ParsesAsAsked ==
    Plain(command) /\ ParseCommand(command) \notin {Unsupported, Overlong}
    => ParseCommand(command) \in Asked(command)
=============================================================================
