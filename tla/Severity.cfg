SPECIFICATION Spec
CONSTANTS
    Temperatures <- MCTemperatures
    Winds <- MCWinds
    Precipitations <- MCPrecipitations
    Codes <- MCCodes
INVARIANTS
    OnePerCategory
    HighestTierReported
PROPERTIES
    WorseningNeverDowngrades
