SPECIFICATION Spec
CONSTANTS
    Texts <- AllTexts
    NoText = noText
INVARIANTS SplitsAtStatements TidyHintExact  TidyUserTxKept
PROPERTIES HintHeals
