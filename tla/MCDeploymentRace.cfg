SPECIFICATION ToolSpec
CONSTANTS
    Scenes <- RaceScenes
    RoleNames <- MCRoleNames
INVARIANTS IssuerIsMigrated
CHECK_DEADLOCK FALSE
