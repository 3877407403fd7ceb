CONSTANTS
    LocalCluster = loc
    KubeconfigClusters = {k1}
    RancherClusters = {r1}
    RancherEnabled = FALSE
    ChangeTypes = {"restart", "patch_service", "apply_manifest"}
    MaxEdits = 0
    MaxUid = 5
SPECIFICATION ChangeSpec
INVARIANTS
    WritesReachTheirCluster
CHECK_DEADLOCK FALSE
