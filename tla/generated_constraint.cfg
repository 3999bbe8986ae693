SPECIFICATION DeploymentSpec
CONSTANTS
    Unset = Unset
    NaN = NaN
    Instances = {i1}
    Environments <- UsualEnvironments
    Databases <- UsualDatabases
    Attempts = 2
    MaxFaults = 0

INVARIANTS
    UniquenessScoped
