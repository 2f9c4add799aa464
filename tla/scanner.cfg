CONSTANTS
    Longest = 7
    Chars <- AllChars
    Texts <- AllTexts
    ValidSets <- AllValid
SPECIFICATION Spec
INVARIANTS
    CommentsNest
    DelimitersAreItsOwn
    OnlyOpenCommentsAreRefused
    PragmasEndOutsideStrings
PROPERTY
    ScanEnds
CHECK_DEADLOCK FALSE
