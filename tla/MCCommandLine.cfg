CONSTANTS
    MaxWords = 5
    Lines <- MCLines
    OptionSets <- MCOptions
SPECIFICATION Spec
INVARIANTS
    TypeOK
    HelpOrRun
    OnlyByTheRules
CHECK_DEADLOCK FALSE
