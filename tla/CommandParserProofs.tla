-------------------------- MODULE CommandParserProofs --------------------------
(***************************************************************************)
(* What parse_command makes of a command of any length and of any words,   *)
(* and that it reads back what _kubectl_equivalent writes, for every name. *)
(***************************************************************************)
EXTENDS CommandParserProperties, WellFoundedInduction, TLAPS

\* The leftmost match is one, and none is further left.
LEMMA Leftmost ==
    ASSUME NEW S \in SUBSET Nat, S # {}
    PROVE  First(S) \in S /\ \A j \in S : First(S) <= j
<1> DEFINE R == {ss \in Nat \X Nat : ss[1] < ss[2]}
<1>1. IsWellFoundedOn(R, Nat)
  BY NatLessThanWellFounded DEF OpToRel
<1>2. PICK x \in S : \A y \in S : <<y, x>> \notin R
  <2> HIDE DEF R
  <2> QED BY <1>1, WFMin
<1>3. ASSUME NEW y \in S PROVE x <= y
  <2>1. <<y, x>> \in Nat \X Nat /\ <<y, x>> \notin R
    BY <1>2
  <2> QED BY <2>1
<1> QED BY <1>3 DEF First

LEMMA LeftmostOf == ASSUME NEW n PROVE First({n}) = n
<1>1. \E i \in {n} : TRUE
  OBVIOUS
<1> QED BY DEF First

LEMMA PatternFacts ==
    /\ DOMAIN Patterns = 1..4
    /\ Patterns[1].type = "restart_deployment" /\ Patterns[2].type = "rollback_deployment"
    /\ Patterns[3].type = "delete_pod" /\ Patterns[4].type = "delete_network_policy"
    /\ Patterns[1].phrase = <<{"kubectl"}, {"rollout"}, {"restart"}, Deployments>>
    /\ Patterns[2].phrase = <<{"kubectl"}, {"rollout"}, {"undo"}, Deployments>>
    /\ Patterns[3].phrase = <<{"kubectl"}, {"delete"}, {"pod", "pods"}>>
    /\ Patterns[4].phrase = <<{"kubectl"}, {"delete"}, {"networkpolicy", "networkpolicies"}>>
  BY DEF Patterns

-----------------------------------------------------------------------------
(* Types.                                                                  *)

LEMMA CountIsNumber ==
    ASSUME NEW c \in Seq(Words), NEW i, SpellsCount(c, i)
    PROVE  CountAt(c, i) \in Nat
<1>1. CASE c[i] \in Counting
  BY <1>1, WordsAssumption DEF CountAt
<1>2. CASE c[i] \notin Counting
  <2>1. NumberAfter(c, i) # {} /\ NumberAfter(c, i) \in SUBSET Nat
    BY <1>2 DEF SpellsCount, NumberAfter
  <2>2. First(NumberAfter(c, i)) \in NumberAfter(c, i)
    BY <2>1, Leftmost
  <2>3. c[First(NumberAfter(c, i))] \in Digits
    BY <2>2 DEF NumberAfter
  <2> QED BY <1>2, <2>3, WordsAssumption DEF CountAt
<1> QED BY <1>1, <1>2

LEMMA BuildScaleTyped ==
    ASSUME NEW name, NEW n \in Nat
    PROVE  BuildScale(name, n) \in Command
  BY DEF BuildScale, Command, PlanEntry, Action, ScaleAction, Scale, OptionalNamespace

LEMMA BuildSimpleTyped ==
    ASSUME NEW name, NEW type \in SimpleTypes
    PROVE  BuildSimple(type, name) \in Command
  BY DEF BuildSimple, Command, PlanEntry, Action, SimpleAction, Simple, OptionalNamespace

LEMMA ParseTyped ==
    ASSUME NEW c \in Seq(Words)
    PROVE  ParseCommand(c) \in Command
<1> DEFINE found == {k \in DOMAIN Patterns : Found(c, Patterns[k].phrase) # {}}
<1>1. CASE Scaled(c) # {}
  <2>1. Scaled(c) \in SUBSET Nat
    BY DEF Scaled, Found
  <2> DEFINE i == First(Scaled(c))
  <2>2. i \in Scaled(c)
    BY <1>1, <2>1, Leftmost
  <2>3. Counts(c, i) # {} /\ Counts(c, i) \in SUBSET Nat
    BY <2>2 DEF Scaled, Counts
  <2> DEFINE j == First(Counts(c, i))
  <2>4. j \in Counts(c, i)
    BY <2>3, Leftmost
  <2>5. CountAt(c, j) \in Nat
    BY <2>4, CountIsNumber DEF Counts
  <2>6. ParseCommand(c) = BuildScale(NameIn[c[i]], CountAt(c, j))
    BY <1>1 DEF ParseCommand
  <2> QED BY <2>5, <2>6, BuildScaleTyped
<1>2. CASE Scaled(c) = {} /\ found = {}
  BY <1>2 DEF ParseCommand, Command, PlanEntry
<1>3. CASE Scaled(c) = {} /\ found # {}
  <2> DEFINE k == First(found)
  <2>1. k \in found
    <3>1. DOMAIN Patterns \subseteq Nat
      BY PatternFacts
    <3>2. found # {} /\ found \in SUBSET Nat
      BY <1>3, <3>1
    <3> HIDE DEF found
    <3> QED BY <3>2, Leftmost
  <2>2. Patterns[k].type \in SimpleTypes
    BY <2>1, PatternFacts DEF SimpleTypes
  <2>3. ParseCommand(c)
          = BuildSimple(Patterns[k].type, NameIn[c[First(Found(c, Patterns[k].phrase))]])
    BY <1>3 DEF ParseCommand
  <2> QED BY <2>2, <2>3, BuildSimpleTyped
<1> QED BY <1>1, <1>2, <1>3

-----------------------------------------------------------------------------
(* What is rendered.                                                       *)

\* The command word occurs at the start; elsewhere it can only be a name, which
\* a flag follows, or a namespace, which nothing follows.
Rooted(c) ==
    \A k \in DOMAIN c : c[k] = "kubectl" /\ k # 1 /\ k + 1 \in DOMAIN c
        => c[k + 1] \in {"-n"} \cup Counting

\* A command that begins as the action is rendered.
Shows(c, a) ==
    /\ Rooted(c) /\ Len(c) >= 4 /\ c[1] = "kubectl"
    /\ a.type = "scale_deployment" =>
         /\ c[2] = "scale" /\ c[3] = "deployment" /\ c[4] = a.target
         /\ Len(c) >= 5 /\ c[5] \in Counting /\ ValueOf[c[5]] = a.replicas
    /\ a.type \in {"restart_deployment", "rollback_deployment"} =>
         /\ c[2] = "rollout" /\ c[4] = "deployment" /\ Len(c) >= 5 /\ c[5] = a.target
         /\ c[3] = IF a.type = "restart_deployment" THEN "restart" ELSE "undo"
    /\ a.type \in {"delete_pod", "delete_network_policy"} =>
         /\ c[2] = "delete" /\ c[4] = a.target
         /\ c[3] = IF a.type = "delete_pod" THEN "pod" ELSE "networkpolicy"

LEMMA CountWordFacts ==
    ASSUME NEW n \in 0..50
    PROVE  CountWord(n) \in Counting /\ ValueOf[CountWord(n)] = n
  BY WordsAssumption DEF CountWord

LEMMA RenderedFacts ==
    ASSUME NEW a \in Rendered
    PROVE  /\ a.target \in Names
           /\ a.type \in SimpleTypes \cup {"scale_deployment"}
           /\ a.type = "scale_deployment" => a.replicas \in 0..50
           /\ a # Unsupported
  BY DEF Rendered, SimpleAction, ScaleAction, SimpleTypes, Unsupported

LEMMA RenderedIsCommand ==
    ASSUME NEW a \in Rendered, NEW ns \in Namespaces
    PROVE  KubectlEquivalent(a, ns) \in Seq(Words)
<1>1. /\ a.target \in Words /\ ns \in Words /\ "-n" \in Words
      /\ "kubectl" \in Words /\ "scale" \in Words /\ "rollout" \in Words
      /\ "restart" \in Words /\ "undo" \in Words /\ "delete" \in Words
      /\ "deployment" \in Words /\ "pod" \in Words /\ "networkpolicy" \in Words
  BY RenderedFacts, WordsAssumption DEF CommandWords
<1>2. CASE a.type = "scale_deployment"
  <2> DEFINE n == CountWord(a.replicas)
  <2>1. n \in Words
    BY <1>2, RenderedFacts, CountWordFacts, WordsAssumption
  <2>2. KubectlEquivalent(a, ns)
          = <<"kubectl", "scale", "deployment", a.target, n, "-n", ns>>
    BY <1>2, Zenon DEF KubectlEquivalent
  <2> HIDE DEF n
  <2> QED BY <1>1, <2>1, <2>2
<1>3. CASE a.type = "restart_deployment"
  <2>1. KubectlEquivalent(a, ns) = <<"kubectl", "rollout", "restart", "deployment", a.target, "-n", ns>>
    BY <1>3, Zenon DEF KubectlEquivalent
  <2> QED BY <1>1, <1>3, <2>1
<1>4. CASE a.type = "rollback_deployment"
  <2>1. KubectlEquivalent(a, ns) = <<"kubectl", "rollout", "undo", "deployment", a.target, "-n", ns>>
    BY <1>4, Zenon DEF KubectlEquivalent
  <2> QED BY <1>1, <1>4, <2>1
<1>5. CASE a.type = "delete_pod"
  <2>1. KubectlEquivalent(a, ns) = <<"kubectl", "delete", "pod", a.target, "-n", ns>>
    BY <1>5, Zenon DEF KubectlEquivalent
  <2> QED BY <1>1, <1>5, <2>1
<1>6. CASE a.type = "delete_network_policy"
  <2>1. KubectlEquivalent(a, ns) = <<"kubectl", "delete", "networkpolicy", a.target, "-n", ns>>
    BY <1>6, Zenon DEF KubectlEquivalent
  <2> QED BY <1>1, <1>6, <2>1
<1> QED BY <1>2, <1>3, <1>4, <1>5, <1>6, RenderedFacts DEF SimpleTypes

LEMMA RenderedShows ==
    ASSUME NEW a \in Rendered, NEW ns \in Namespaces
    PROVE  /\ Shows(KubectlEquivalent(a, ns), a)
           /\ KubectlEquivalent(a, ns)[Len(KubectlEquivalent(a, ns))] = ns
<1> USE DEF Shows, Rooted
<1>1. CASE a.type = "scale_deployment"
  <2> DEFINE n == CountWord(a.replicas)
  <2>1. n \in Counting /\ ValueOf[n] = a.replicas /\ n # "kubectl"
    BY <1>1, RenderedFacts, CountWordFacts, WordsAssumption DEF CommandWords
  <2>2. KubectlEquivalent(a, ns)
          = <<"kubectl", "scale", "deployment", a.target, n, "-n", ns>>
    BY <1>1, Zenon DEF KubectlEquivalent
  <2> HIDE DEF n
  <2> QED BY <1>1, <2>1, <2>2
<1>2. CASE a.type = "restart_deployment"
  <2>1. KubectlEquivalent(a, ns) = <<"kubectl", "rollout", "restart", "deployment", a.target, "-n", ns>>
    BY <1>2, Zenon DEF KubectlEquivalent
  <2> QED BY <1>2, <2>1
<1>3. CASE a.type = "rollback_deployment"
  <2>1. KubectlEquivalent(a, ns) = <<"kubectl", "rollout", "undo", "deployment", a.target, "-n", ns>>
    BY <1>3, Zenon DEF KubectlEquivalent
  <2> QED BY <1>3, <2>1
<1>4. CASE a.type = "delete_pod"
  <2>1. KubectlEquivalent(a, ns) = <<"kubectl", "delete", "pod", a.target, "-n", ns>>
    BY <1>4, Zenon DEF KubectlEquivalent
  <2> QED BY <1>4, <2>1
<1>5. CASE a.type = "delete_network_policy"
  <2>1. KubectlEquivalent(a, ns) = <<"kubectl", "delete", "networkpolicy", a.target, "-n", ns>>
    BY <1>5, Zenon DEF KubectlEquivalent
  <2> QED BY <1>5, <2>1
<1> QED BY <1>1, <1>2, <1>3, <1>4, <1>5, RenderedFacts DEF SimpleTypes

LEMMA WordAdded ==
    ASSUME NEW c \in Seq(Words), NEW a, Shows(c, a), c[Len(c)] # "kubectl",
           NEW w \in Words
    PROVE  Shows(Append(c, w), a)
<1> DEFINE d == Append(c, w)
<1>1. /\ d \in Seq(Words) /\ Len(d) = Len(c) + 1 /\ Len(c) \in Nat
      /\ \A i \in 1..Len(c) : d[i] = c[i]
      /\ d[Len(c) + 1] = w
  OBVIOUS
<1> HIDE DEF d
<1>2. Rooted(d)
  <2> SUFFICES ASSUME NEW k \in DOMAIN d, d[k] = "kubectl", k # 1,
                      k + 1 \in DOMAIN d
               PROVE  d[k + 1] \in {"-n"} \cup Counting
    BY DEF Rooted
  <2>1. k \in DOMAIN c /\ c[k] = "kubectl" /\ k # Len(c)
    BY <1>1
  <2>2. k + 1 \in DOMAIN c /\ d[k + 1] = c[k + 1]
    BY <1>1, <2>1
  <2> QED BY <2>1, <2>2 DEF Shows, Rooted
<1>3. Len(c) >= 4 => d[1] = c[1] /\ d[2] = c[2] /\ d[3] = c[3] /\ d[4] = c[4]
  BY <1>1
<1>4. Len(c) >= 5 => d[5] = c[5]
  BY <1>1
<1>5. Shows(d, a)
  BY <1>1, <1>2, <1>3, <1>4 DEF Shows
<1> QED BY <1>5 DEF d

-----------------------------------------------------------------------------
(* What is found in it.                                                    *)

\* A phrase is found at the start or nowhere.
LEMMA NotLater ==
    ASSUME NEW c \in Seq(Words), Rooted(c), NEW phrase, {1, 2} \subseteq DOMAIN phrase,
           phrase[1] = {"kubectl"}, \A w \in phrase[2] : w # "-n" /\ w \notin Counting,
           NEW k \in Nat \ {0}, Spells(c, k, phrase)
    PROVE  k = 1
<1> SUFFICES ASSUME k # 1 PROVE FALSE
  OBVIOUS
<1>1. k \in DOMAIN c /\ c[k] = "kubectl"
  BY DEF Spells
<1>2. k + 1 \in DOMAIN c /\ c[k + 1] \in phrase[2]
  BY DEF Spells
<1>3. c[k + 1] \in {"-n"} \cup Counting
  BY <1>1, <1>2 DEF Rooted
<1> QED BY <1>2, <1>3

LEMMA FoundShort ==
    ASSUME NEW c \in Seq(Words), Rooted(c), Len(c) >= 4, c[1] = "kubectl",
           NEW phrase, DOMAIN phrase = 1..3, Len(phrase) = 3, phrase[1] = {"kubectl"},
           \A w \in phrase[2] : w # "-n" /\ w \notin Counting
    PROVE  /\ c[2] \notin phrase[2] \/ c[3] \notin phrase[3] => Found(c, phrase) = {}
           /\ c[2] \in phrase[2] /\ c[3] \in phrase[3] /\ c[4] \in DOMAIN NameIn
                => Found(c, phrase) = {4}
<1>1. Spells(c, 1, phrase) <=> c[2] \in phrase[2] /\ c[3] \in phrase[3]
  BY DEF Spells
<1>2. ASSUME NEW i \in Found(c, phrase) PROVE i = 4 /\ Spells(c, 1, phrase)
  <2>1. i \in Nat /\ i > 3 /\ Spells(c, i - 3, phrase)
    BY DEF Found
  <2>2. i - 3 \in Nat \ {0} /\ {1, 2} \subseteq DOMAIN phrase
    BY <2>1
  <2>3. i - 3 = 1
    BY <2>1, <2>2, NotLater
  <2> QED BY <2>1, <2>3
<1>3. Spells(c, 1, phrase) /\ c[4] \in DOMAIN NameIn => 4 \in Found(c, phrase)
  BY DEF Found, HasNameAt
<1>4. c[2] \notin phrase[2] \/ c[3] \notin phrase[3] => Found(c, phrase) = {}
  BY <1>1, <1>2
<1> QED BY <1>1, <1>2, <1>3, <1>4

LEMMA FoundLong ==
    ASSUME NEW c \in Seq(Words), Rooted(c), Len(c) >= 4, c[1] = "kubectl",
           NEW phrase, DOMAIN phrase = 1..4, Len(phrase) = 4, phrase[1] = {"kubectl"},
           \A w \in phrase[2] : w # "-n" /\ w \notin Counting
    PROVE  /\ c[2] \notin phrase[2] \/ c[3] \notin phrase[3] => Found(c, phrase) = {}
           /\ (/\ c[2] \in phrase[2] /\ c[3] \in phrase[3] /\ c[4] \in phrase[4]
               /\ Len(c) >= 5 /\ c[5] \in DOMAIN NameIn)
                => Found(c, phrase) = {5}
<1>1. Spells(c, 1, phrase) <=> c[2] \in phrase[2] /\ c[3] \in phrase[3] /\ c[4] \in phrase[4]
  BY DEF Spells
<1>2. ASSUME NEW i \in Found(c, phrase) PROVE i = 5 /\ Spells(c, 1, phrase)
  <2>1. i \in Nat /\ i > 4 /\ Spells(c, i - 4, phrase)
    BY DEF Found
  <2>2. i - 4 \in Nat \ {0} /\ {1, 2} \subseteq DOMAIN phrase
    BY <2>1
  <2>3. i - 4 = 1
    BY <2>1, <2>2, NotLater
  <2> QED BY <2>1, <2>3
<1>3. Spells(c, 1, phrase) /\ Len(c) >= 5 /\ c[5] \in DOMAIN NameIn => 5 \in Found(c, phrase)
  BY DEF Found, HasNameAt
<1>4. c[2] \notin phrase[2] \/ c[3] \notin phrase[3] => Found(c, phrase) = {}
  BY <1>1, <1>2
<1>5. Spells(c, 1, phrase) /\ Len(c) >= 5 /\ c[5] \in DOMAIN NameIn => Found(c, phrase) = {5}
  BY <1>2, <1>3
<1> QED BY <1>1, <1>4, <1>5, Zenon

\* No pattern is found that the second and third word rule out.
LEMMA RuledOut ==
    ASSUME NEW c \in Seq(Words), Rooted(c), Len(c) >= 4, c[1] = "kubectl"
    PROVE  /\ c[2] # "scale" => Found(c, ScalePhrase) = {}
           /\ c[2] # "rollout" \/ c[3] # "restart" => Found(c, Patterns[1].phrase) = {}
           /\ c[2] # "rollout" \/ c[3] # "undo" => Found(c, Patterns[2].phrase) = {}
           /\ c[2] # "delete" \/ c[3] \notin {"pod", "pods"}
                => Found(c, Patterns[3].phrase) = {}
           /\ c[2] # "delete" \/ c[3] \notin {"networkpolicy", "networkpolicies"}
                => Found(c, Patterns[4].phrase) = {}
<1>1. \A w \in {"scale", "rollout", "delete"} : w # "-n" /\ w \notin Counting
  BY WordsAssumption DEF CommandWords
<1>2. c[2] # "scale" => Found(c, ScalePhrase) = {}
  <2> DEFINE p == ScalePhrase
  <2>1. DOMAIN p = 1..3 /\ Len(p) = 3 /\ p[1] = {"kubectl"} /\ p[2] = {"scale"}
    BY DEF ScalePhrase
  <2> HIDE DEF p
  <2>2. c[2] # "scale" => Found(c, p) = {}
    BY <1>1, <2>1, FoundShort
  <2> QED BY <2>2 DEF p
<1>3. c[2] # "rollout" \/ c[3] # "restart" => Found(c, Patterns[1].phrase) = {}
  <2> DEFINE p == Patterns[1].phrase
  <2>1. /\ DOMAIN p = 1..4 /\ Len(p) = 4 /\ p[1] = {"kubectl"}
        /\ p[2] = {"rollout"} /\ p[3] = {"restart"}
    BY PatternFacts
  <2> HIDE DEF p
  <2>2. c[2] # "rollout" \/ c[3] # "restart" => Found(c, p) = {}
    BY <1>1, <2>1, FoundLong
  <2> QED BY <2>2 DEF p
<1>4. c[2] # "rollout" \/ c[3] # "undo" => Found(c, Patterns[2].phrase) = {}
  <2> DEFINE p == Patterns[2].phrase
  <2>1. /\ DOMAIN p = 1..4 /\ Len(p) = 4 /\ p[1] = {"kubectl"}
        /\ p[2] = {"rollout"} /\ p[3] = {"undo"}
    BY PatternFacts
  <2> HIDE DEF p
  <2>2. c[2] # "rollout" \/ c[3] # "undo" => Found(c, p) = {}
    BY <1>1, <2>1, FoundLong
  <2> QED BY <2>2 DEF p
<1>5. c[2] # "delete" \/ c[3] \notin {"pod", "pods"} => Found(c, Patterns[3].phrase) = {}
  <2> DEFINE p == Patterns[3].phrase
  <2>1. /\ DOMAIN p = 1..3 /\ Len(p) = 3 /\ p[1] = {"kubectl"}
        /\ p[2] = {"delete"} /\ p[3] = {"pod", "pods"}
    BY PatternFacts
  <2> HIDE DEF p
  <2>2. c[2] # "delete" \/ c[3] \notin {"pod", "pods"} => Found(c, p) = {}
    BY <1>1, <2>1, FoundShort
  <2> QED BY <2>2 DEF p
<1>6. c[2] # "delete" \/ c[3] \notin {"networkpolicy", "networkpolicies"}
        => Found(c, Patterns[4].phrase) = {}
  <2> DEFINE p == Patterns[4].phrase
  <2>1. /\ DOMAIN p = 1..3 /\ Len(p) = 3 /\ p[1] = {"kubectl"}
        /\ p[2] = {"delete"} /\ p[3] = {"networkpolicy", "networkpolicies"}
    BY PatternFacts
  <2> HIDE DEF p
  <2>2. c[2] # "delete" \/ c[3] \notin {"networkpolicy", "networkpolicies"} => Found(c, p) = {}
    BY <1>1, <2>1, FoundShort
  <2> QED BY <2>2 DEF p
<1> QED BY <1>2, <1>3, <1>4, <1>5, <1>6

\* A command that spells pattern p alone is parsed into its action.
LEMMA OnePattern ==
    ASSUME NEW c, NEW p \in 1..4, NEW name \in Names, NEW i,
           Scaled(c) = {},
           Found(c, Patterns[p].phrase) = {i}, c[i] = name,
           \A k \in (1..4) \ {p} : Found(c, Patterns[k].phrase) = {}
    PROVE  ParseCommand(c) = Simple(Patterns[p].type, name)
<1> DEFINE found == {k \in DOMAIN Patterns : Found(c, Patterns[k].phrase) # {}}
<1>1. found = {p}
  BY PatternFacts
<1>2. First(found) = p /\ First(Found(c, Patterns[p].phrase)) = i
  BY <1>1, LeftmostOf
<1>3. ParseCommand(c)
        = BuildSimple(Patterns[First(found)].type,
                      NameIn[c[First(Found(c, Patterns[First(found)].phrase))]])
  BY <1>1 DEF ParseCommand
<1>4. NameIn[name] = name
  BY WordsAssumption
<1> HIDE DEF found
<1> QED BY <1>2, <1>3, <1>4 DEF BuildSimple

LEMMA BuildScaleBuilds ==
    ASSUME NEW name \in Names, NEW n \in 0..50
    PROVE  BuildScale(name, n) = Scale(name, n)
<1>1. IntLimit \in Nat /\ IntLimit > 50
  BY WordsAssumption
<1> QED BY <1>1 DEF BuildScale

LEMMA ShowsParses ==
    ASSUME NEW c \in Seq(Words), NEW a \in Rendered, Shows(c, a)
    PROVE  ParseCommand(c) = Unplaced(a)
<1>0. /\ Rooted(c) /\ Len(c) >= 4 /\ c[1] = "kubectl"
      /\ a.target \in Names /\ a.target \in DOMAIN NameIn
  BY RenderedFacts, WordsAssumption DEF Shows
<1>1. CASE a.type = "scale_deployment"
  <2>1. /\ c[2] = "scale" /\ c[3] = "deployment" /\ c[4] = a.target
        /\ Len(c) >= 5 /\ c[5] \in Counting /\ ValueOf[c[5]] = a.replicas
    BY <1>1 DEF Shows
  <2>2. Found(c, ScalePhrase) = {4}
    <3> DEFINE p == ScalePhrase
    <3>1. /\ DOMAIN p = 1..3 /\ Len(p) = 3 /\ p[1] = {"kubectl"}
          /\ p[2] = {"scale"} /\ c[3] \in p[3]
      BY <2>1 DEF ScalePhrase, Deployments
    <3>2. "scale" # "-n" /\ "scale" \notin Counting
      BY WordsAssumption DEF CommandWords
    <3> HIDE DEF p
    <3>3. Found(c, p) = {4}
      BY <1>0, <2>1, <3>1, <3>2, FoundShort
    <3> QED BY <3>3 DEF p
  <2>3. 5 \in Counts(c, 4) /\ Counts(c, 4) \in SUBSET Nat /\ \A j \in Counts(c, 4) : j > 4
    BY <2>1 DEF Counts, SpellsCount
  <2>4. First(Counts(c, 4)) = 5
    <3>1. First(Counts(c, 4)) \in Counts(c, 4) /\ First(Counts(c, 4)) <= 5
      BY <2>3, Leftmost
    <3> QED BY <2>3, <3>1
  <2>5. Scaled(c) = {4} /\ First(Scaled(c)) = 4
    BY <2>2, <2>3, LeftmostOf DEF Scaled
  <2>6. ParseCommand(c) = BuildScale(NameIn[c[4]], CountAt(c, 5))
    BY <2>4, <2>5 DEF ParseCommand
  <2>7. CountAt(c, 5) = a.replicas
    BY <2>1 DEF CountAt
  <2>8. NameIn[c[4]] = a.target
    BY <1>0, <2>1, WordsAssumption
  <2>9. a.replicas \in 0..50
    BY <1>1, RenderedFacts
  <2>10. BuildScale(a.target, a.replicas) = Scale(a.target, a.replicas)
    BY <1>0, <2>9, BuildScaleBuilds
  <2> QED BY <1>1, <2>6, <2>7, <2>8, <2>10 DEF Unplaced
<1>2. CASE a.type = "restart_deployment"
  <2> DEFINE p == Patterns[1].phrase
  <2>1. /\ c[2] = "rollout" /\ c[3] = "restart" /\ c[4] = "deployment"
        /\ Len(c) >= 5 /\ c[5] = a.target
    BY <1>2 DEF Shows
  <2>2. Found(c, p) = {5}
    <3>1. /\ DOMAIN p = 1..4 /\ Len(p) = 4 /\ p[1] = {"kubectl"}
          /\ p[2] = {c[2]} /\ c[3] \in p[3] /\ c[4] \in p[4]
      BY <2>1, PatternFacts DEF Deployments
    <3>2. c[2] # "-n" /\ c[2] \notin Counting
      BY <2>1, WordsAssumption DEF CommandWords
    <3> HIDE DEF p
    <3> QED BY <1>0, <2>1, <3>1, <3>2, FoundLong
  <2>3. Scaled(c) = {} /\ \A k \in (1..4) \ {1} : Found(c, Patterns[k].phrase) = {}
    <3>1. Found(c, ScalePhrase) = {}
      BY <1>0, <2>1, RuledOut
    <3>2. /\ Found(c, Patterns[2].phrase) = {} /\ Found(c, Patterns[3].phrase) = {}
          /\ Found(c, Patterns[4].phrase) = {}
      BY <1>0, <2>1, RuledOut
    <3> QED BY <3>1, <3>2 DEF Scaled
  <2>4. ParseCommand(c) = Simple(Patterns[1].type, a.target)
    <3>1. c[5] = a.target /\ a.target \in Names
      BY <1>0, <2>1
    <3>2. Found(c, Patterns[1].phrase) = {5}
      BY <2>2
    <3>3. 1 \in 1..4
      OBVIOUS
    <3> HIDE DEF p
    <3> QED BY <2>3, <3>1, <3>2, <3>3, OnePattern, Zenon
  <2> QED BY <1>2, <2>4, PatternFacts DEF Unplaced
<1>3. CASE a.type = "rollback_deployment"
  <2> DEFINE p == Patterns[2].phrase
  <2>1. /\ c[2] = "rollout" /\ c[3] = "undo" /\ c[4] = "deployment"
        /\ Len(c) >= 5 /\ c[5] = a.target
    BY <1>3 DEF Shows
  <2>2. Found(c, p) = {5}
    <3>1. /\ DOMAIN p = 1..4 /\ Len(p) = 4 /\ p[1] = {"kubectl"}
          /\ p[2] = {c[2]} /\ c[3] \in p[3] /\ c[4] \in p[4]
      BY <2>1, PatternFacts DEF Deployments
    <3>2. c[2] # "-n" /\ c[2] \notin Counting
      BY <2>1, WordsAssumption DEF CommandWords
    <3> HIDE DEF p
    <3> QED BY <1>0, <2>1, <3>1, <3>2, FoundLong
  <2>3. Scaled(c) = {} /\ \A k \in (1..4) \ {2} : Found(c, Patterns[k].phrase) = {}
    <3>1. Found(c, ScalePhrase) = {}
      BY <1>0, <2>1, RuledOut
    <3>2. /\ Found(c, Patterns[1].phrase) = {} /\ Found(c, Patterns[3].phrase) = {}
          /\ Found(c, Patterns[4].phrase) = {}
      BY <1>0, <2>1, RuledOut
    <3> QED BY <3>1, <3>2 DEF Scaled
  <2>4. ParseCommand(c) = Simple(Patterns[2].type, a.target)
    <3>1. c[5] = a.target /\ a.target \in Names
      BY <1>0, <2>1
    <3>2. Found(c, Patterns[2].phrase) = {5}
      BY <2>2
    <3>3. 2 \in 1..4
      OBVIOUS
    <3> HIDE DEF p
    <3> QED BY <2>3, <3>1, <3>2, <3>3, OnePattern, Zenon
  <2> QED BY <1>3, <2>4, PatternFacts DEF Unplaced
<1>4. CASE a.type = "delete_pod"
  <2> DEFINE p == Patterns[3].phrase
  <2>1. c[2] = "delete" /\ c[3] = "pod" /\ c[4] = a.target
    BY <1>4 DEF Shows
  <2>2. Found(c, p) = {4}
    <3>1. /\ DOMAIN p = 1..3 /\ Len(p) = 3 /\ p[1] = {"kubectl"}
          /\ p[2] = {c[2]} /\ c[3] \in p[3]
      BY <2>1, PatternFacts DEF Deployments
    <3>2. c[2] # "-n" /\ c[2] \notin Counting
      BY <2>1, WordsAssumption DEF CommandWords
    <3> HIDE DEF p
    <3> QED BY <1>0, <2>1, <3>1, <3>2, FoundShort
  <2>3. Scaled(c) = {} /\ \A k \in (1..4) \ {3} : Found(c, Patterns[k].phrase) = {}
    <3>1. Found(c, ScalePhrase) = {}
      BY <1>0, <2>1, RuledOut
    <3>2. /\ Found(c, Patterns[1].phrase) = {} /\ Found(c, Patterns[2].phrase) = {}
          /\ Found(c, Patterns[4].phrase) = {}
      BY <1>0, <2>1, RuledOut
    <3> QED BY <3>1, <3>2 DEF Scaled
  <2>4. ParseCommand(c) = Simple(Patterns[3].type, a.target)
    <3>1. c[4] = a.target /\ a.target \in Names
      BY <1>0, <2>1
    <3>2. Found(c, Patterns[3].phrase) = {4}
      BY <2>2
    <3>3. 3 \in 1..4
      OBVIOUS
    <3> HIDE DEF p
    <3> QED BY <2>3, <3>1, <3>2, <3>3, OnePattern, Zenon
  <2> QED BY <1>4, <2>4, PatternFacts DEF Unplaced
<1>5. CASE a.type = "delete_network_policy"
  <2> DEFINE p == Patterns[4].phrase
  <2>1. c[2] = "delete" /\ c[3] = "networkpolicy" /\ c[4] = a.target
    BY <1>5 DEF Shows
  <2>2. Found(c, p) = {4}
    <3>1. /\ DOMAIN p = 1..3 /\ Len(p) = 3 /\ p[1] = {"kubectl"}
          /\ p[2] = {c[2]} /\ c[3] \in p[3]
      BY <2>1, PatternFacts DEF Deployments
    <3>2. c[2] # "-n" /\ c[2] \notin Counting
      BY <2>1, WordsAssumption DEF CommandWords
    <3> HIDE DEF p
    <3> QED BY <1>0, <2>1, <3>1, <3>2, FoundShort
  <2>3. Scaled(c) = {} /\ \A k \in (1..4) \ {4} : Found(c, Patterns[k].phrase) = {}
    <3>1. Found(c, ScalePhrase) = {}
      BY <1>0, <2>1, RuledOut
    <3>2. /\ Found(c, Patterns[1].phrase) = {} /\ Found(c, Patterns[2].phrase) = {}
          /\ Found(c, Patterns[3].phrase) = {}
      BY <1>0, <2>1, RuledOut
    <3> QED BY <3>1, <3>2 DEF Scaled
  <2>4. ParseCommand(c) = Simple(Patterns[4].type, a.target)
    <3>1. c[4] = a.target /\ a.target \in Names
      BY <1>0, <2>1
    <3>2. Found(c, Patterns[4].phrase) = {4}
      BY <2>2
    <3>3. 4 \in 1..4
      OBVIOUS
    <3> HIDE DEF p
    <3> QED BY <2>3, <3>1, <3>2, <3>3, OnePattern, Zenon
  <2> QED BY <1>5, <2>4, PatternFacts DEF Unplaced
<1> QED BY <1>1, <1>2, <1>3, <1>4, <1>5, RenderedFacts DEF SimpleTypes

-----------------------------------------------------------------------------
(* The theorems.                                                           *)

CommandInv ==
    /\ command \in Seq(Words)
    /\ logged # Unsupported =>
         logged \in Rendered /\ Shows(command, logged) /\ command[Len(command)] # "kubectl"

LEMMA CommandInvInit ==
    ASSUME "kubectl" \notin Namespaces
    PROVE  Init => CommandInv
<1> SUFFICES ASSUME Init PROVE CommandInv
  OBVIOUS
<1>1. ASSUME NEW kind \in Kinds, Written(kind) PROVE CommandInv
  BY <1>1, WordsAssumption DEF Written, CommandInv
<1>2. ASSUME NEW a \in Rendered, NEW ns \in Namespaces, FromLog(a, ns) PROVE CommandInv
  BY <1>2, RenderedIsCommand, RenderedShows DEF FromLog, CommandInv
<1> QED BY <1>1, <1>2 DEF Init

LEMMA CommandInvStep ==
    ASSUME "kubectl" \notin Tails
    PROVE  CommandInv /\ [Next]_vars => CommandInv'
<1> SUFFICES ASSUME CommandInv, [Next]_vars PROVE CommandInv'
  OBVIOUS
<1>1. ASSUME NEW w \in Tails, AddWord(w) PROVE CommandInv'
  <2>1. w \in Words /\ w # "kubectl" /\ command' = Append(command, w) /\ logged' = logged
    BY <1>1, WordsAssumption DEF AddWord
  <2>2. command' \in Seq(Words)
    BY <2>1 DEF CommandInv
  <2>3. logged # Unsupported => Shows(command', logged) /\ command'[Len(command')] # "kubectl"
    BY <2>1, WordAdded DEF CommandInv
  <2> QED BY <2>1, <2>2, <2>3 DEF CommandInv
<1>2. CASE UNCHANGED vars
  BY <1>2 DEF vars, CommandInv
<1> QED BY <1>1, <1>2 DEF Next

\* Commands are made of words.
LEMMA CommandTyped == Spec => [](command \in Seq(Words))
<1> DEFINE Typed == command \in Seq(Words)
<1>1. Init => Typed
  <2> SUFFICES ASSUME Init PROVE Typed
    OBVIOUS
  <2>1. ASSUME NEW kind \in Kinds, Written(kind) PROVE Typed
    BY <2>1, WordsAssumption DEF Written
  <2>2. ASSUME NEW a \in Rendered, NEW ns \in Namespaces, FromLog(a, ns) PROVE Typed
    BY <2>2, RenderedIsCommand DEF FromLog
  <2> QED BY <2>1, <2>2 DEF Init
<1>2. Typed /\ [Next]_vars => Typed'
  <2>1. Tails \subseteq Words
    BY WordsAssumption
  <2> QED BY <2>1 DEF Next, AddWord, vars
<1> QED BY <1>1, <1>2, PTL DEF Spec

\* Every command of every length is parsed into an action the data models
\* allow, into none, or raises the one exception the plan builder knows.
THEOREM ParserTyped == Spec => []ParsesToCommand
<1>1. command \in Seq(Words) => ParsesToCommand
  BY ParseTyped DEF ParsesToCommand
<1> QED BY <1>1, CommandTyped, PTL

\* What the execution log shows of an action is parsed into that action, for
\* every name, namespace and replica count, also with any words but another
\* kubectl behind it.
THEOREM LogIsReadBack ==
    ASSUME "kubectl" \notin Tails \cup Namespaces
    PROVE  Spec => []LoggedCommandParses
<1>1. Init => CommandInv
  BY CommandInvInit
<1>2. CommandInv /\ [Next]_vars => CommandInv'
  BY CommandInvStep
<1>3. CommandInv => LoggedCommandParses
  BY ShowsParses DEF CommandInv, LoggedCommandParses
<1> QED BY <1>1, <1>2, <1>3, PTL DEF Spec

\* The command itself, with nothing behind it, is read back whatever the names:
\* a name or a namespace that is a word of commands misleads no pattern.
THEOREM RenderedIsReadBack ==
    \A a \in Rendered, ns \in Namespaces :
        ParseCommand(KubectlEquivalent(a, ns)) = Unplaced(a)
BY RenderedIsCommand, RenderedShows, ShowsParses

-----------------------------------------------------------------------------
(* A single kubectl command.                                               *)

\* What the patterns have in common: they begin with the command word, and end
\* with the kind, which has no value behind it.
IsPattern(phrase) ==
    /\ Len(phrase) \in Nat \ {0} /\ DOMAIN phrase = 1..Len(phrase)
    /\ phrase[1] = {"kubectl"}
    /\ \A w \in phrase[Len(phrase)] : ~HasValue(w)

LEMMA ScaleIsPattern == IsPattern(ScalePhrase) /\ Len(ScalePhrase) = 3
  BY DEF IsPattern, ScalePhrase, Deployments, HasValue

LEMMA PatternIsPattern ==
    ASSUME NEW k \in DOMAIN Patterns
    PROVE  IsPattern(Patterns[k].phrase)
<1>1. k \in 1..4
  BY PatternFacts
<1>2. CASE k = 1
  BY <1>2, PatternFacts DEF IsPattern, Deployments, HasValue
<1>3. CASE k = 2
  BY <1>3, PatternFacts DEF IsPattern, Deployments, HasValue
<1>4. CASE k = 3
  BY <1>4, PatternFacts DEF IsPattern, HasValue
<1>5. CASE k = 4
  BY <1>5, PatternFacts DEF IsPattern, HasValue
<1> QED BY <1>1, <1>2, <1>3, <1>4, <1>5

\* In a single command a pattern is found at its start, and the name found is
\* one of its operands as a whole.
LEMMA FoundIsOperand ==
    ASSUME NEW c \in Seq(Words), Plain(c), NEW phrase, IsPattern(phrase),
           NEW i \in Found(c, phrase)
    PROVE  /\ i = Len(phrase) + 1 /\ Spells(c, 1, phrase)
           /\ NameIn[c[i]] = c[i] /\ c[i] \in Operands(c, Len(phrase))
<1> DEFINE n == Len(phrase)
<1>1. /\ i \in DOMAIN c /\ i \in Nat /\ i > n /\ n \in Nat \ {0}
      /\ Spells(c, i - n, phrase) /\ c[i] \in DOMAIN NameIn
      /\ DOMAIN phrase = 1..n /\ phrase[1] = {"kubectl"}
      /\ \A w \in phrase[n] : ~HasValue(w)
  BY DEF Found, HasNameAt, IsPattern
<1> HIDE DEF n
<1>2. /\ (i - n) + 1 - 1 = i - n /\ (i - n) + n - 1 = i - 1 /\ 1 \in 1..n /\ n \in 1..n
  BY <1>1
<1>3. i - n \in DOMAIN c /\ c[i - n] = "kubectl" /\ i - 1 \in DOMAIN c /\ ~HasValue(c[i - 1])
  BY <1>1, <1>2 DEF Spells
<1>4. i - n = 1
  BY <1>3 DEF Plain
<1>5. i = n + 1 /\ Spells(c, 1, phrase)
  BY <1>1, <1>4
<1>6. i \notin ValuePositions(c)
  BY <1>3 DEF ValuePositions
<1>7. i \notin FlagPositions(c)
  BY <1>1, WordsAssumption DEF FlagPositions, IsFlag
<1>8. c[i] \in Operands(c, n)
  BY <1>1, <1>6, <1>7 DEF Operands
<1>9. NameIn[c[i]] = c[i]
  BY <1>1 DEF Plain
<1> QED BY <1>5, <1>8, <1>9 DEF n

LEMMA ScaleIsAsked ==
    ASSUME NEW c \in Seq(Words), Plain(c), Scaled(c) # {},
           ParseCommand(c) \notin {Unsupported, Overlong}
    PROVE  ParseCommand(c) \in Asked(c)
<1> DEFINE i == First(Scaled(c))
           j == First(Counts(c, i))
<1>1. i \in Scaled(c)
  <2>1. Scaled(c) \in SUBSET Nat
    BY DEF Scaled, Found
  <2> QED BY <2>1, Leftmost
<1>2. j \in Counts(c, i)
  <2>1. Counts(c, i) # {} /\ Counts(c, i) \in SUBSET Nat
    BY <1>1 DEF Scaled, Counts
  <2> HIDE DEF i
  <2> QED BY <2>1, Leftmost
<1>3. ParseCommand(c) = BuildScale(NameIn[c[i]], CountAt(c, j))
  BY DEF ParseCommand
<1> HIDE DEF i, j
<1>4. Spells(c, 1, ScalePhrase) /\ NameIn[c[i]] = c[i] /\ c[i] \in Operands(c, 3)
  BY <1>1, ScaleIsPattern, FoundIsOperand DEF Scaled
<1>5. CountAt(c, j) \in Replicas(c)
  BY <1>2 DEF Counts, Replicas
<1>6. ParseCommand(c) = Scale(c[i], CountAt(c, j))
  BY <1>3, <1>4 DEF BuildScale
<1> QED BY <1>4, <1>5, <1>6 DEF Asked

LEMMA SimpleIsAsked ==
    ASSUME NEW c \in Seq(Words), Plain(c), Scaled(c) = {},
           ParseCommand(c) \notin {Unsupported, Overlong}
    PROVE  ParseCommand(c) \in Asked(c)
<1> DEFINE found == {k \in DOMAIN Patterns : Found(c, Patterns[k].phrase) # {}}
           k == First(found)
           i == First(Found(c, Patterns[k].phrase))
<1>1. found # {}
  BY DEF ParseCommand
<1>2. k \in DOMAIN Patterns /\ Found(c, Patterns[k].phrase) # {}
  <2>1. found \in SUBSET Nat
    BY PatternFacts
  <2>2. k \in found
    <3> HIDE DEF found
    <3> QED BY <1>1, <2>1, Leftmost
  <2> QED BY <2>2
<1>3. ParseCommand(c) = BuildSimple(Patterns[k].type, NameIn[c[i]])
  BY <1>1 DEF ParseCommand
<1> HIDE DEF k
<1>4. i \in Found(c, Patterns[k].phrase)
  <2>1. Found(c, Patterns[k].phrase) \in SUBSET Nat
    BY DEF Found
  <2> QED BY <1>2, <2>1, Leftmost
<1> HIDE DEF i
<1>5. /\ Spells(c, 1, Patterns[k].phrase) /\ NameIn[c[i]] = c[i]
      /\ c[i] \in Operands(c, Len(Patterns[k].phrase))
  BY <1>2, <1>4, PatternIsPattern, FoundIsOperand
<1>6. ParseCommand(c) = Simple(Patterns[k].type, c[i])
  BY <1>3, <1>5 DEF BuildSimple
<1>7. ParseCommand(c) \in AskedBy(c, Patterns[k])
  BY <1>5, <1>6 DEF AskedBy
<1> QED BY <1>2, <1>7 DEF Asked

\* A single kubectl command of any length and any words is parsed into an
\* action it asks for, or into none.
THEOREM ParserObeys == Spec => []ParsesAsAsked
<1>1. command \in Seq(Words) => ParsesAsAsked
  BY ScaleIsAsked, SimpleIsAsked DEF ParsesAsAsked
<1> QED BY <1>1, CommandTyped, PTL
=============================================================================
