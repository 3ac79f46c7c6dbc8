---------------------------- MODULE CommandParser ----------------------------
(***************************************************************************)
(* parse_command of app/parser.py, and _kubectl_equivalent of              *)
(* app/executor.py, which writes into the execution log the command an     *)
(* action stands for.                                                      *)
(*                                                                         *)
(* A command is the sequence of its words, their case folded.  The regular *)
(* expressions are searched for anywhere in it, and end with the name: of  *)
(* the word they find there they take what looks like a name, and leave    *)
(* the rest of the command unread.  A state is one command; the steps      *)
(* lengthen it.                                                            *)
(***************************************************************************)
EXTENDS Actions

CONSTANTS
    Words,       \* the words commands are made of
    NameIn,      \* [w] the name a word begins with, for the words that do
    Counting,    \* the words --replicas=N
    Digits,      \* the words that are a number, also behind a sign of equality
    ValueOf,     \* [w] the number in a word of Counting or Digits
    IntLimit,    \* the least number int() refuses to convert (10^4300)
    Kinds,       \* the beginnings of the commands Agent 1 writes
    Tails,       \* the words it continues them with
    MaxWords     \* bound: the length of a command

CommandWords == {"kubectl", "scale", "rollout", "restart", "undo", "delete", "deployment",
                 "deployments", "pod", "pods", "networkpolicy", "networkpolicies",
                 "--replicas", "-n"}

ASSUME WordsAssumption ==
    /\ CommandWords \subseteq Words /\ Names \subseteq Words /\ Namespaces \subseteq Words
    /\ DOMAIN NameIn \subseteq Words /\ Names \subseteq DOMAIN NameIn
    /\ \A n \in Names : NameIn[n] = n
    /\ {"-n", "--replicas"} \cap DOMAIN NameIn = {} /\ Counting \cap DOMAIN NameIn = {}
    /\ Counting \subseteq Words /\ Digits \subseteq Words
    /\ Counting \cap Names = {} /\ Counting \cap (CommandWords \cup Namespaces) = {}
    /\ ValueOf \in [Counting \cup Digits -> Nat]
    /\ \A n \in 0..50 : \E w \in Counting : ValueOf[w] = n
    /\ IntLimit \in Nat /\ IntLimit > 50
    /\ Kinds \subseteq Seq(Words) /\ Tails \subseteq Words /\ MaxWords \in Nat

-----------------------------------------------------------------------------
Deployments == {"deployment", "deployments"}

ScalePhrase == <<{"kubectl"}, {"scale"}, Deployments>>

\* The patterns of steps 2 to 5, in their order.
Patterns == <<
    [type |-> "restart_deployment",
     phrase |-> <<{"kubectl"}, {"rollout"}, {"restart"}, Deployments>>],
    [type |-> "rollback_deployment",
     phrase |-> <<{"kubectl"}, {"rollout"}, {"undo"}, Deployments>>],
    [type |-> "delete_pod",
     phrase |-> <<{"kubectl"}, {"delete"}, {"pod", "pods"}>>],
    [type |-> "delete_network_policy",
     phrase |-> <<{"kubectl"}, {"delete"}, {"networkpolicy", "networkpolicies"}>>] >>

Spells(c, i, phrase) ==
    \A j \in DOMAIN phrase : i + j - 1 \in DOMAIN c /\ c[i + j - 1] \in phrase[j]

HasNameAt(c, i) == i \in DOMAIN c /\ c[i] \in DOMAIN NameIn

\* Mutant: the name need not follow the kind at once.
FoundLoosely(c, phrase) ==
    {i \in DOMAIN c : /\ HasNameAt(c, i)
                      /\ \E k \in DOMAIN c : k + Len(phrase) <= i /\ Spells(c, k, phrase)}

\* The positions of the names that follow the phrase.
Found(c, phrase) ==
    {i \in DOMAIN c : /\ i > Len(phrase) /\ Spells(c, i - Len(phrase), phrase)
                      /\ HasNameAt(c, i)}

First(S) == CHOOSE i \in S : \A j \in S : i <= j

\* Where the number is that belongs to a --replicas at position i: blanks and
\* signs of equality may come between them in any mixture.
NumberAfter(c, i) ==
    {j \in DOMAIN c : /\ c[i] \in {"--replicas", "--replicas="} /\ j > i /\ c[j] \in Digits
                      /\ \A k \in (i + 1)..(j - 1) : c[k] = "="}

SpellsCount(c, i) == c[i] \in Counting \/ NumberAfter(c, i) # {}

CountAt(c, i) ==
    IF c[i] \in Counting THEN ValueOf[c[i]] ELSE ValueOf[c[First(NumberAfter(c, i))]]

\* The replica counts after position i, and the names that have one after them.
Counts(c, i) == {j \in DOMAIN c : j > i /\ SpellsCount(c, j)}
Scaled(c)    == {i \in Found(c, ScalePhrase) : Counts(c, i) # {}}

-----------------------------------------------------------------------------
Simple(type, name)   == [type |-> type, target |-> name, namespace |-> NoNamespace]
Scale(name, n) == [type |-> "scale_deployment", target |-> name,
                   namespace |-> NoNamespace, replicas |-> n]

\* Mutant: the bounds of the model are not checked.
BuildScaleUnchecked(name, n) == IF n >= IntLimit THEN Overlong ELSE Scale(name, n)

\* int() may raise, outside _try_build; a value the model refuses makes none.
BuildScale(name, n) ==
    IF n >= IntLimit THEN Overlong
    ELSE IF name \in Names /\ n <= 50 THEN Scale(name, n)
    ELSE Unsupported

BuildSimple(type, name) == IF name \in Names THEN Simple(type, name) ELSE Unsupported

\* Mutant: the guard against unsafe verbs comes first.
ParseCommandGuarded(c) ==
    LET found == {k \in DOMAIN Patterns : Found(c, Patterns[k].phrase) # {}} IN
    IF \E i \in DOMAIN c : Spells(c, i, <<{"kubectl"}, {"delete"}>>) THEN Unsupported
    ELSE IF Scaled(c) # {} THEN
        LET i == First(Scaled(c)) IN BuildScale(NameIn[c[i]], CountAt(c, First(Counts(c, i))))
    ELSE IF found = {} THEN Unsupported
    ELSE LET p == Patterns[First(found)] IN
         BuildSimple(p.type, NameIn[c[First(Found(c, p.phrase))]])

\* The guards of steps 6 and 7 choose only the wording of a log record: what no
\* pattern matches makes no action, unsafe or not.
ParseCommand(c) ==
    LET found == {k \in DOMAIN Patterns : Found(c, Patterns[k].phrase) # {}} IN
    IF Scaled(c) # {} THEN
        LET i == First(Scaled(c)) IN BuildScale(NameIn[c[i]], CountAt(c, First(Counts(c, i))))
    ELSE IF found = {} THEN Unsupported
    ELSE LET p == Patterns[First(found)] IN
         BuildSimple(p.type, NameIn[c[First(Found(c, p.phrase))]])

-----------------------------------------------------------------------------
CountWord(n) == CHOOSE w \in Counting : ValueOf[w] = n

\* update_resources is rendered as a command of another form, which no pattern
\* matches.
Rendered == SimpleAction \cup ScaleAction

KubectlEquivalent(a, ns) ==
    CASE a.type = "scale_deployment" ->
           <<"kubectl", "scale", "deployment", a.target, CountWord(a.replicas), "-n", ns>>
      [] a.type = "restart_deployment" ->
           <<"kubectl", "rollout", "restart", "deployment", a.target, "-n", ns>>
      [] a.type = "rollback_deployment" ->
           <<"kubectl", "rollout", "undo", "deployment", a.target, "-n", ns>>
      [] a.type = "delete_pod" -> <<"kubectl", "delete", "pod", a.target, "-n", ns>>
      [] a.type = "delete_network_policy" ->
           <<"kubectl", "delete", "networkpolicy", a.target, "-n", ns>>

-----------------------------------------------------------------------------
VARIABLES
    command,   \* the words so far
    logged     \* the action it was rendered from, Unsupported if none

Written(kind) == command = kind /\ logged = Unsupported
FromLog(a, ns) == command = KubectlEquivalent(a, ns) /\ logged = a

Init == \/ \E kind \in Kinds : Written(kind)
        \/ \E a \in Rendered, ns \in Namespaces : FromLog(a, ns)

AddWord(w) ==
    /\ Len(command) < MaxWords
    /\ command' = Append(command, w) /\ UNCHANGED logged

Next == \E w \in Tails : AddWord(w)

vars == <<command, logged>>
Spec == Init /\ [][Next]_vars

=============================================================================
