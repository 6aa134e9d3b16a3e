CONSTANTS
    Skus = {s1}
    Callers = {c1, c2}
    TTL = 1
    CacheTTL = 1
SPECIFICATION CatalogFairSpec
INVARIANTS  MarkLasts SkusAreRecent
PROPERTY ProbeAnswers
