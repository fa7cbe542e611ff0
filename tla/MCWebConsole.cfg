\* Requests that overlap, from one page.
CONSTANTS
    MaxId = 2
    MaxBorn = 4
    Slots = {s1, s2}
    Configs <- MCConfigs
    NoConfig <- MCNoConfig
    Invalid <- MCInvalid
    Situations <- MCSituations
SYMMETRY Symmetry
SPECIFICATION Spec
INVARIANTS
    TypeOK
    RegistryMatchesRunning
    FileHoldsSaved
    ListSettles
    LinkOfOneInstance
CHECK_DEADLOCK FALSE
