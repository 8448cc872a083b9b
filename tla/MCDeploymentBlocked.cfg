SPECIFICATION FairToolSpec
CONSTANTS
    Scenes <- BlockScenes
    RoleNames <- MCRoleNames
PROPERTIES DeployerIsRevoked
CHECK_DEADLOCK FALSE
