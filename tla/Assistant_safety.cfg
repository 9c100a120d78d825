SPECIFICATION MCSpec
CONSTANTS
    c1 = c1
    c2 = c2
    openai = openai
    other = other
    rx = rx
    ry = ry
    bad = bad
    Tenants = {"t1", "t2"}
    Connecting = {"t1"}
    System = "system"
    Ids = {1, 2, 3, 4}
    Lower <- Cases
    Embedded <- Builds
    Expressions <- RegularExpressions
    Bodies <- RuleBodies
    Documents <- RuleDocuments
    None = None
    Callers = {c1, c2}
    Providers = {openai, other}
    Capable = {openai}
    Configs = {"model", "invalid"}
    Default = Default
    Keys = {"k1", "k2"}
    Accepted <- Pairs
    Regexes = {rx, ry, bad}
    Compilable = {rx, ry}
    Finds <- Found
    Inputs <- SomeInputs
    Drafts <- SomeDrafts
    MaxSamples = 2
    Empty = Empty
    Nil = Nil
    MaxRuleRequests = 2
    MaxLLMRequests = 5
INVARIANTS ScansUseOwnRules NewRulesReachOldMail ImportRestoresExport ReadyProviderAnswers DraftsMatchSamples
SYMMETRY Symmetry
CHECK_DEADLOCK FALSE
