SPECIFICATION Spec
CONSTANTS
    None = None
    Words <- MCWords
    Within <- MCWithin
    Keywords <- MCKeywords
    Weights <- MCWeights
    BaseScore = 30
    Thresholds <- MCThresholds
    ReviewMargin = 5
    BulkThreshold = 10
    Count = 2
    Mailbox <- MCMailbox
    Options <- MCOptions
    Answers <- MCAnswers
CHECK_DEADLOCK FALSE
INVARIANTS
    RulesAreAFloor
    DeparturesAreReviewed
    EveryMessageAccounted
    MarginCoversFlips
