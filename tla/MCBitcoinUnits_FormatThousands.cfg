CONSTANTS
    Units = {"TIPS", "Thousands", "Millions"}
    FactorExp <- MCFactorAll
    Decimals = 2
    Width = 30
    MaxLen = 8
    Amounts <- MCAmounts
    Texts <- MCTexts
SPECIFICATION Spec
INVARIANT
    FormatDenotes
