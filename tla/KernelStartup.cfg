SPECIFICATION Spec
CONSTANTS
    k1 = k1  k2 = k2
    Kernels = {k1, k2}
    Names <- NamesOf
    Unset = Unset
    None = None
    Files <- FilesOf
    SchemaOf <- SchemasOf
    Initial <- Environment
    Blanks <- BlanksOf
    LowerCase <- LowerCaseOf
    NumberOf <- NumberOfOf
    MaxLoads = 3
    AliasOfAlias = FALSE
    Requests <- RequestsOf
    Catalogues <- Catalogue
    Manifests <- ManifestsOf
    Tokens <- TokensOf
    Fake = Fake
    Values = {Fake}
    ServiceIds <- ServiceIdsOf
    Environments = {Unset}
    OtherSchemas <- OtherSchemasOf
    MaxCalls = 2
    MaxCallsFirst = 0
CHECK_DEADLOCK FALSE
ACTION_CONSTRAINTS
    OneCallWithLoads
INVARIANTS
    ResolvesAsDeclared ActiveIsConfigured
PROPERTIES
    NoWayBack LoadsConform
