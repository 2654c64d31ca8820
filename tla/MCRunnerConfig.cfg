SPECIFICATION Spec
CONSTANTS
    Admins = {a1, a2}
    Runs = {r1}
    Urls <- SomeUrls
    Tokens <- SomeTokens
    None = None
    Envs <- SomeEnvs
    Payloads <- SomePayloads
    StubFlags <- SomeFlags
    MaxSaves = 3
SYMMETRY Symmetric
INVARIANTS
    TypeOK
    PostedTargetWasInForce
PROPERTIES
    QuietSaveTakesEffect
