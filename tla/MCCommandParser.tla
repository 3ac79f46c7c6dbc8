--------------------------- MODULE MCCommandParser ---------------------------
(***************************************************************************)
(* The words and commands that TLC checks.                                 *)
(***************************************************************************)
EXTENDS CommandParserProperties, TLC

\* "delete" is a name as well as a verb.
MCNames == {"web", "delete"}

\* As many digits as int() refuses.
MCIntLimit == 9999

MCCounting == {"--replicas=" \o ToString(n) : n \in 0..51 \cup {MCIntLimit}}
MCDigits   == {"3", "=3"}
MCValueOf  == [w \in MCCounting \cup MCDigits |->
                 IF w \in MCDigits THEN 3
                 ELSE CHOOSE n \in 0..51 \cup {MCIntLimit} : w = "--replicas=" \o ToString(n)]

\* "web.v2" begins with the name "web"; "web-253" is too long a name.
NameLike == MCNames \cup (CommandWords \ {"--replicas", "-n"})
              \cup {"food", "secret", "web-253", "3", "web.v2"}
MCNameIn == [w \in NameLike |-> IF w = "web.v2" THEN "web" ELSE w]

MCWords == CommandWords \cup NameLike \cup MCCounting \cup MCDigits \cup {"=", "--replicas="}

Verbs == {<<"scale">>, <<"rollout", "restart">>, <<"rollout", "undo">>, <<"rollout">>,
          <<"delete">>}
KindWords == {"deployment", "deployments", "pod", "pods", "networkpolicy", "networkpolicies",
              "secret"}

MCKinds == {<<"kubectl">> \o verb \o <<kind>> : verb \in Verbs, kind \in KindWords}
MCTails == {"web", "web.v2", "web-253", "delete", "3", "-n",
            "--replicas", "--replicas=", "=", "=3",
            "--replicas=3", "--replicas=51", "--replicas=9999"}
=============================================================================
