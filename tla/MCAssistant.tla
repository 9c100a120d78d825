----------------------------- MODULE MCAssistant -----------------------------
(* Instances of Rules and of LLMProviders for TLC.  The two share no state: a *)
(* behaviour moves one part and leaves the other where it starts.             *)
EXTENDS Rules, LLMProviders, TLC

CONSTANTS MaxRuleRequests, MaxLLMRequests,  \* bounds on the requests begun
          openai, other, c1, c2, rx, ry, bad

VARIABLES part, requests

From(type, label, bank) == [type |-> type, label |-> label, bank |-> bank]

Rule(name, amount, source) ==
    [name |-> name, senders |-> <<"a">>, amount |-> amount, merchant |-> <<"m">>, source |-> source]

\* The second build changes the rule of the first one.
Builds == <<<<Rule(<<"n1">>, <<"v1">>, From(<<"card">>, <<>>, <<>>))>>,
            <<Rule(<<"n1">>, <<"v2">>, From(<<"card">>, <<>>, <<>>))>>>>

Cases == "A" :> "a" @@ "a" :> "a"

\* Two rules override the binary's, and the second one ends with an escaped space: what
\* is left of it does not compile.  The last one has a blank expression.
RuleBodies ==
    {[Rule(<<"n1">>, <<"x">>, From(<<"card">>, <<>>, <<"hdfc">>)) EXCEPT !.senders = <<"A", "a">>],
     Rule(<<"n1">>, <<"x\\", " ">>, From(<<"card">>, <<>>, <<>>)),
     Rule(<<"n2">>, <<" ">>, From(<<"card">>, <<"my">>, <<>>))}

RegularExpressions ==
    {<<>>, <<" ">>, <<"x">>, <<"x\\", " ">>, <<"y">>, <<"v1">>, <<"v2">>, <<"m">>}

Entry(legacy) == Rule(<<"n2">>, <<"y">>, From(<<>>, <<>>, <<>>)) @@ [legacy |-> legacy]
RuleDocuments == {<<Entry(<<"card", "-", "hdfc">>), Entry(<<"upi">>)>>}

\* What the expressions find in either body.
Found == rx :> ("b1" :> "1" @@ "b2" :> "2") @@ ry :> ("b1" :> "1" @@ "b2" :> "1")
         @@ bad :> ("b1" :> Empty @@ "b2" :> Empty)

Sample(body, amount, merchant, currency) ==
    [body |-> body, amount |-> amount, merchant |-> merchant, currency |-> currency]

SomeInputs ==
    {<<Sample("b1", "1", "1", Empty), Sample(Empty, "2", "2", "2"), Sample("b2", "2", Empty, "2")>>,
     <<Sample("b2", "2", "1", Empty)>>,
     <<Sample("b1", "1", Empty, Empty), Sample("b1", Empty, "1", "1"), Sample("b2", "2", "1", Empty)>>}

SomeDrafts ==
    [senders : {TRUE}, amount : {rx, ry}, merchant : {ry}, currency : {rx, Empty}]
    \cup {[senders |-> FALSE, amount |-> rx, merchant |-> ry, currency |-> rx],
          [senders |-> TRUE, amount |-> rx, merchant |-> ry, currency |-> bad],
          [senders |-> TRUE, amount |-> rx, merchant |-> Empty, currency |-> rx]}

Pairs == {Default, "model"} \X {"k1"} \cup {<<Default, "k2">>}

MCInit ==
    /\ RulesInit /\ LLMInit
    /\ part \in {"rules", "llm"}
    /\ requests = 0

Request(max) == requests < max /\ requests' = requests + 1

MCNext ==
    \/ part = "rules" /\ Request(MaxRuleRequests) /\ RuleRequest /\ UNCHANGED <<part, llmVars>>
    \/ part = "rules" /\ (ScanStep \/ HandlerStep \/ Upgrade) /\ UNCHANGED <<part, llmVars, requests>>
    \/ part = "llm" /\ Request(MaxLLMRequests) /\ LLMRequest /\ UNCHANGED <<part, ruleVars>>
    \/ part = "llm" /\ CallStep /\ UNCHANGED <<part, ruleVars, requests>>

Symmetry == Permutations(Callers)

MCSpec == MCInit /\ [][MCNext]_<<ruleVars, llmVars, part, requests>>
=============================================================================
