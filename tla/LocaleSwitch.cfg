SPECIFICATION Spec
CONSTANTS
    Languages <- MCLanguages
    es = es
    fr = fr
    English = en
    OtherCode = xx
    NoCatalog = NoCatalog
    Keys <- MCKeys
    MarkupKeys <- MCMarkupKeys
    BuiltInKeys <- MCBuiltInKeys
    KeysOf <- MCKeysOf
INVARIANTS
    ActiveLocaleSurvives
    ShownInActiveLocale
    UndisturbedChoiceWins
PROPERTIES
    SwitchesFinish
