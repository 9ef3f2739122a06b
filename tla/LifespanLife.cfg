\* Sixty-four environments and five registry files; one request, two faults.
CONSTANTS
    q1 = q1
    Vars <- MCVars
    Values <- MCValues
    Blank = Blank
    Absent = Absent
    Default <- MCDefault
    Deployments <- MCDeployments
    Requests = {q1}
    MaxFaults = 2
SPECIFICATION Spec
INVARIANTS
    TypeOK
    ServesAsConfigured
    OpensOnlyIfConfigured
    OpenWhileInUse
    ReadyIsTrue
PROPERTIES
    SoundDeploymentsServe
