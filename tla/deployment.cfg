SPECIFICATION FairDeployment
CONSTANTS
    Unset = Unset
    NaN = NaN
    Instances = {i1, i2}
    Environments <- UsualEnvironments
    Databases <- UsualDatabases
    Attempts = 2
    MaxFaults = 2

INVARIANTS
    DeploymentTypeOK
    HistoryHonoured
    AddressesGuarded
    ServedSchemaFits
    ServingSecretsOwn
PROPERTIES
    OutageRestartsNobody
    EveryInstanceSettles
