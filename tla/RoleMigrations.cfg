SPECIFICATION MigrationsSpec
CONSTANTS
    Custom = Custom
    Chosen <- MCChosen
    MaxHeld = 1
    MaxWrites = 2
    MaxReverts = 13
    None = None
INVARIANTS
    RolesAsDeclared
    RedeployNeverFails
PROPERTY RevertRestores
CHECK_DEADLOCK FALSE
