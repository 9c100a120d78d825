------------------------------ MODULE LLMProviders ------------------------------
(***************************************************************************)
(* LLM providers and the rule drafts they write: one tenant's rows of      *)
(* llm_provider_runtime (store/postgres/runtime_repository.go), the        *)
(* requests that configure, check, activate and disconnect a provider      *)
(* (httpapi/handlers_llm.go), the router that finds the active one         *)
(* (internal/llm) and the workflow that drafts a rule and has it repaired  *)
(* (internal/assistant/rule_draft.go).                                     *)
(*                                                                         *)
(* A request is a sequence of statements and calls of the provider, which  *)
(* may take a minute; other requests run in between.                       *)
(*                                                                         *)
(* A definition whose comment begins with "Fault:" is a mistaken variant   *)
(* of the one after it, kept to show that a property notices the mistake.  *)
(***************************************************************************)
EXTENDS Naturals, FiniteSets, Sequences

CONSTANTS
    Callers,
    Providers, Capable,    \* the registry, and those with the drafts' capabilities
    Configs, Default, Keys,
    Accepted,              \* <<config, key>>: NewClient makes a client of them
    Regexes, Compilable,   \* expressions, and those that compile
    Finds,                 \* what an expression's first group finds in a body
    Inputs, Drafts,        \* requests for a draft, and what a provider answers
    MaxSamples,            \* maxRuleDraftSamples
    Empty, Nil

ASSUME CapableAssumption == Capable \subseteq Providers
ASSUME CompilableAssumption == Compilable \subseteq Regexes /\ Empty \notin Regexes
ASSUME SampleAssumption == MaxSamples \in Nat \ {0}

VARIABLES
    runtime,  \* the rows: config, credentials, active
    call,     \* the requests under way
    saved,    \* active providers whose row was written after it was last checked
    dropped   \* providers disconnected while they were being activated

llmVars == <<runtime, call, saved, dropped>>

RuntimeRow == [config : Configs \cup {Default}, credentials : Keys \cup {Nil}, active : BOOLEAN]
NewRuntimeRow == [config |-> Default, credentials |-> Nil, active |-> FALSE]

ASSUME NilAssumption == Nil \notin Keys \cup RuntimeRow

Done == [pc |-> "done"]

LLMTypeOK ==
    /\ runtime \in [Providers -> RuntimeRow \cup {Nil}]
    /\ \A c \in Callers : call[c].pc \in {"done", "config", "credentials", "check", "clear", "commit",
                                          "draft", "repair", "answered"}
    /\ saved \subseteq Providers /\ dropped \subseteq Providers

LLMInit ==
    /\ runtime = [p \in Providers |-> Nil]
    /\ call = [c \in Callers |-> Done]
    /\ saved = {} /\ dropped = {}

Active == {p \in Providers : runtime[p] # Nil /\ runtime[p].active}
HasCredentials(p) == runtime[p] # Nil /\ runtime[p].credentials # Nil

-----------------------------------------------------------------------------
\* Settings: each is one statement

\* Activations of p that have read its row by now do not see what is written.
Touch(p, f) ==
    call' = [c \in Callers |-> IF call[c].pc \in {"credentials", "check", "clear", "commit"}
                                  /\ call[c].provider = p
                               THEN [call[c] EXCEPT ![f] = TRUE] ELSE call[c]]

Save(p, row) ==
    /\ runtime' = [runtime EXCEPT ![p] = row]
    /\ saved' = saved \cup {p}
    /\ Touch(p, "saved")
    /\ UNCHANGED dropped

Existing(p) == IF runtime[p] = Nil THEN NewRuntimeRow ELSE runtime[p]

SaveLLMProviderConfig(p, config) == Save(p, [Existing(p) EXCEPT !.config = config])

SaveLLMProviderCredentials(p, key) == Save(p, [Existing(p) EXCEPT !.credentials = key])

\* Fault: the credentials are removed, the row stays as it is.
ForgetCredentials(p) ==
    /\ runtime' = [runtime EXCEPT ![p] = IF @ = Nil THEN Nil ELSE [@ EXCEPT !.credentials = Nil]]
    /\ Touch(p, "disconnected")
    /\ UNCHANGED <<saved, dropped>>

DisconnectLLMProvider(p) ==
    /\ runtime' = [runtime EXCEPT ![p] = Nil]
    /\ Touch(p, "disconnected")
    /\ UNCHANGED <<saved, dropped>>

-----------------------------------------------------------------------------
\* Health checks and activation

Goto(c, r) ==
    /\ call' = [call EXCEPT ![c] = r]
    /\ UNCHANGED <<runtime, saved, dropped>>

\* HealthCheckLLMProvider and ActivateLLMProvider
BeginCheck(c, p, activate) ==
    /\ call[c].pc \in {"done", "answered"}
    /\ Goto(c, [pc |-> "config", provider |-> p, activate |-> activate, config |-> Default,
                cleared |-> {}, saved |-> FALSE, disconnected |-> FALSE])

\* llmProviderClientFromRuntime reads the config, then the credentials.
ReadConfig(c) ==
    /\ call[c].pc = "config"
    /\ LET p == call[c].provider
       IN Goto(c, [call[c] EXCEPT !.pc = "credentials",
                                  !.config = IF runtime[p] = Nil THEN Default ELSE runtime[p].config])

ReadCredentials(c) ==
    /\ call[c].pc = "credentials"
    /\ LET p == call[c].provider
       IN Goto(c, IF HasCredentials(p) /\ <<call[c].config, runtime[p].credentials>> \in Accepted
                  THEN [call[c] EXCEPT !.pc = "check"] ELSE Done)

\* The provider answers, or fails, or not within 75 seconds.
HealthCheck(c) ==
    /\ call[c].pc = "check"
    /\ \E healthy \in BOOLEAN :
         Goto(c, IF healthy /\ call[c].activate THEN [call[c] EXCEPT !.pc = "clear"] ELSE Done)

\* SetActiveLLMProvider's transaction: it clears the provider that is active now ..
ClearActive(c) ==
    /\ call[c].pc = "clear"
    /\ Goto(c, [call[c] EXCEPT !.pc = "commit", !.cleared = Active])

\* .. and fails where another one was activated meanwhile (the unique index), else
\* activates p, in a new row if it has none.
CommitActive(c) ==
    LET p == call[c].provider
    IN /\ call[c].pc = "commit"
       /\ IF Active \subseteq call[c].cleared \cup {p}
          THEN /\ runtime' = [q \in Providers |->
                                IF q = p THEN [Existing(p) EXCEPT !.active = TRUE]
                                ELSE IF q \in Active THEN [runtime[q] EXCEPT !.active = FALSE]
                                ELSE runtime[q]]
               /\ saved' = IF call[c].saved THEN saved \cup {p} ELSE saved \ {p}
               /\ dropped' = IF call[c].disconnected THEN dropped \cup {p} ELSE dropped \ {p}
          ELSE UNCHANGED <<runtime, saved, dropped>>
       /\ call' = [call EXCEPT ![c] = Done]

-----------------------------------------------------------------------------
\* Rule drafts.  A sample is [body, amount, merchant, currency], the last three
\* being what the user expects, Empty where nothing; a draft is [senders, amount,
\* merchant, currency], the last three being expressions or Empty.

Fields == {"amount", "merchant", "currency"}

Shows(sample) == sample.amount # Empty /\ sample.merchant # Empty

validateRuleDraftRequest(samples) ==
    \E k \in DOMAIN samples : samples[k].body # Empty /\ Shows(samples[k])

\* The first samples with a body; one of these must show what is expected.
normalizeRuleDraftInput(samples) ==
    LET bodies == SelectSeq(samples, LAMBDA s : s.body # Empty)
        kept == SubSeq(bodies, 1, IF Len(bodies) < MaxSamples THEN Len(bodies) ELSE MaxSamples)
    IN IF \E k \in DOMAIN kept : Shows(kept[k]) THEN kept ELSE Nil

firstSubmatch(regex, body) == IF regex = Empty THEN Empty ELSE Finds[regex][body]

Incomplete(draft) ==
    \/ Empty \in {draft.amount, draft.merchant}
    \/ ~draft.senders
    \/ \E f \in Fields : draft[f] # Empty /\ draft[f] \notin Compilable

validateRuleDraftSample(sample, draft) ==
    {f \in Fields : sample[f] # Empty /\ firstSubmatch(draft[f], sample.body) # sample[f]}

\* The samples' matches, and the issues, of which those of the whole rule come
\* alone.
validateRuleDraft(samples, draft) ==
    IF Incomplete(draft) THEN [matches |-> <<>>, issues |-> {<<0, "rule">>}]
    ELSE [matches |-> [k \in DOMAIN samples |->
                         [f \in Fields |-> firstSubmatch(draft[f], samples[k].body)]],
          issues |-> {i \in (DOMAIN samples) \X Fields :
                        i[2] \in validateRuleDraftSample(samples[i[1]], draft)}]

\* CreateRuleDraft
BeginDraft(c, samples) ==
    LET kept == normalizeRuleDraftInput(samples)
    IN /\ call[c].pc \in {"done", "answered"}
       /\ validateRuleDraftRequest(samples)
       /\ Goto(c, IF kept = Nil THEN Done ELSE [pc |-> "draft", samples |-> kept])

\* Router.Complete resolves the provider anew for every request.
Resolves ==
    \E p \in Active : p \in Capable /\ <<runtime[p].config, runtime[p].credentials>> \in Accepted

Answer(c, draft) ==
    [pc |-> "answered", samples |-> call[c].samples, draft |-> draft,
     result |-> validateRuleDraft(call[c].samples, draft)]

\* requestDraft, and validateRuleDraft on its answer: a draft with issues is sent
\* back once.
RequestDraft(c) ==
    /\ call[c].pc = "draft" /\ Resolves
    /\ \E draft \in Drafts :
         LET answer == Answer(c, draft)
         IN Goto(c, IF answer.result.issues = {} THEN answer ELSE [answer EXCEPT !.pc = "repair"])

\* Fault: the second draft is returned with what was found out about the first.
RepairUnchecked(c) ==
    /\ call[c].pc = "repair" /\ Resolves
    /\ \E draft \in Drafts : Goto(c, [call[c] EXCEPT !.pc = "answered", !.draft = draft,
                                                     !.result.issues = {}])

\* The second draft is returned with the issues it has.
RepairDraft(c) ==
    /\ call[c].pc = "repair" /\ Resolves
    /\ \E draft \in Drafts : Goto(c, Answer(c, draft))

\* No provider, no client, no answer, or one that is not a draft.
DraftFails(c) ==
    /\ call[c].pc \in {"draft", "repair"}
    /\ Goto(c, Done)

-----------------------------------------------------------------------------
CallStep ==
    \E c \in Callers : \/ ReadConfig(c) \/ ReadCredentials(c) \/ HealthCheck(c)
                       \/ ClearActive(c) \/ CommitActive(c)
                       \/ RequestDraft(c) \/ RepairDraft(c) \/ DraftFails(c)

LLMRequest ==
    \/ \E p \in Providers :
         \/ \E config \in Configs : SaveLLMProviderConfig(p, config)
         \/ \E key \in Keys : SaveLLMProviderCredentials(p, key)
         \/ DisconnectLLMProvider(p)
         \/ \E c \in Callers, activate \in BOOLEAN : BeginCheck(c, p, activate)
    \/ \E c \in Callers, samples \in Inputs : BeginDraft(c, samples)

LLMNext == CallStep \/ LLMRequest

LLMSpec == LLMInit /\ [][LLMNext]_llmVars

-----------------------------------------------------------------------------
\* GetLLMProviderStatus
Ready(p) == p \in Active /\ HasCredentials(p)

\* At most one provider is active, and it has credentials, unless it was
\* disconnected while it was being activated, which brings its row back without
\* them.  A provider whose status is ready answers a request for a draft if it is
\* capable of drafts, unless its settings were saved after those it was activated
\* with were read.
ReadyProviderAnswers ==
    /\ Cardinality(Active) <= 1
    /\ \A p \in Active \ dropped : HasCredentials(p)
    /\ \A p \in Capable \ (saved \cup dropped) : Ready(p) => Resolves

\* A draft that is returned without issues finds in every sample that was kept what
\* the user expects there, in one of them both an amount and a merchant, and the
\* matches shown beside it are its own, whether it is the first draft or the
\* repaired one.
DraftsMatchSamples ==
    \A c \in Callers : call[c].pc = "answered" =>
        LET draft == call[c].draft
            samples == call[c].samples
            Found(k, f) == firstSubmatch(draft[f], samples[k].body)
        IN call[c].result.issues = {} =>
             /\ ~Incomplete(draft)
             /\ \E k \in DOMAIN samples : Shows(samples[k])
             /\ DOMAIN call[c].result.matches = DOMAIN samples
             /\ \A k \in DOMAIN samples, f \in Fields :
                  /\ samples[k][f] # Empty => Found(k, f) = samples[k][f]
                  /\ call[c].result.matches[k][f] = Found(k, f)
=============================================================================
