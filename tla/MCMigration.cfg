SPECIFICATION Spec
CONSTANTS
    Configs <- MCConfigs
    Earlier <- MCEarlier
    Dashed <- MCDashed
    Unreadable <- MCUnreadable
    Above <- MCAbove
    Ids = {1, 2}
    MaxWrites = 2
    MaxOtherWrites = 1
    MaxRuns = 2
INVARIANTS
    IndInv
    OutcomeIsTold
    MetadataIsReal
    EnginesEnforceAlike
    InspectionIsFaithful
    DryRunForetells
    ValidSchemaImports
CHECK_DEADLOCK FALSE
