CONSTANTS
    LocalCluster = loc
    KubeconfigClusters = {k1}
    RancherClusters = {r1}
    RancherEnabled = FALSE
    ChangeTypes = {"restart", "patch", "patch_service", "apply_manifest", "create_pvc", "exec_pod", "run_shell", "replace_immutable_workload"}
    MaxEdits = 1
    MaxUid = 5
    PodNames = {p1, p2}
    Desired = 1
    VerifyTimeout = 2
    VerifyInterval = 2
    VerifyGrace = 1
    Stability = 3
    ProbeSeconds = 1
    AssessLimit = 20
    MaxRestarts = 2
    MaxMoves = 3
    Fields = {"image", "volume"}
    Values = {"old", "new"}
    NoTemplate = NoTemplate
    Releases = {"image", "both"}
    PatchOf <- MCPatchOf
    StrategyOf <- MCStrategyOf
    Replicas = 4
    MaxCommands = 3
    OwnPods = {w1}
    NamesakePods = {n1}
    ContainersOf <- MCContainersOf
    NoLivePod = NoLivePod
    MaxCollections = 2
    MaxPodMoves = 1
    Skills <- MCSkills
    NoSkill = NoSkill
    EvidenceIds = {"logs", "spec"}
    Proposals <- MCProposals
    RunbookActions = {{"patch"}, {"restart"}}
    MaxPasses = 2
    MaxLadderPlans = 3
    MaxContextEdits = 1
SPECIFICATION PartsSpec
INVARIANTS
    PartsTypeOK
    
    CanaryIsGuarded
    EvidenceIsOfOnePod
    SubmittedUnderContract
    FailedHardeningIsUndone
    EachStageOnce
PROPERTIES
    WritesAreTrue
    ReportsAreEarned
    EveryVerificationEnds
CHECK_DEADLOCK FALSE
