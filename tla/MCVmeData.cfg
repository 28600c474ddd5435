SPECIFICATION Spec
CONSTANTS
    Scripts <- AllScripts
    Answers <- SomeAnswers
INVARIANTS
    TypeOK
    RowsDecoded
PROPERTIES
    ExpressComparesSent
    PairDiffers
