SPECIFICATION Spec
CONSTANTS
    Menus <- MCMenus
    Names <- MCNames
INVARIANTS
    PlanOK
    ChainingKeepsMeaning
    PlanResolves
    GroupsOnUserKeys
PROPERTIES
    MergedAlone
CHECK_DEADLOCK FALSE
