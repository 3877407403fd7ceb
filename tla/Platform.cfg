CONSTANTS
    Roots = {r1}
    Forks = {f1, f2}
    NoSession = NoSession
    MaxEvents = 4
    SessionLimit = 5
    MaxAppends = 5
    MaxWriteFaults = 1
    MaxEventCrashes = 1
    Releases = {rel}
    NoFile = NoFile
    TargetPermille = 999
    WindowMinutes = 43200
    Objectives <- OneObjective
    MaxReleaseJobs = 2
    MaxRequests = 2
    MaxObjectives = 1
    MaxSaveFaults = 1
    MaxReleaseRestarts = 1
    Builtins <- MCBuiltins
    ExternalManifests <- MCExternals
    Profiles = {"team"}
    Absent = Absent
    GrantedToTrusted = {"network:egress"}
    MaxPackageSteps = 3
    Shipped = {"crashloop"}
    Learnables = {"candidate"}
    Customs = {"disk-full"}
    NoSkill = NoSkill
    Legacy <- MCLegacy
    Archives <- MCArchives
    Traits <- MCTraits
    Signals <- MCSignals
    Asked <- MCAsked
    Incidents = {i1, i2}
    ReceiptLimit = 1
    MaxSkillSteps = 4
    MaxSkillFaults = 2
    Pods = {"ra", "rb", "ka", "la"}
    Workloads = {"api", "cache"}
    Via <- MCVia
    NameOf <- MCNameOf
    OwnerOf <- MCOwnerOf
    Place <- MCPlace
    Conditions <- MCConditions
    Flaws <- MCFlaws
    Deployments <- MCDeployments
    Experts = {"expert"}
    Allows <- MCAllows
    Inspectors = {n1}
    Viewers = {v1}
    None = None
    EventLimit = 1
    MaxInspections = 1
    MaxPreviews = 1
    MaxPodMoves = 1
    MaxToggles = 1
    Configured = {"replacement"}
    Chats = {c1}
    ChatPods = {"la", "lg", "ma", "ms", "ra"}
    Words <- MCWords
    Sits <- MCSits
    Says <- MCSays
    Prefixed <- MCPrefixed
    Urgency <- MCUrgency
    Access <- MCAccess
    Questions <- MCQuestions
    Answers <- MCChatAnswers
    Grants <- MCGrants
    Tasks <- MCTasks
    MaxChatMoves = 1
    ClusterIds = {"m", "n"}
    Kubeconfigs <- MCKubeconfigs
    NoRow = NoRow
    NoEntry = NoEntry
    Callers = {u1, u2}
    MaxCalls = 3
    MaxTurns = 1
SPECIFICATION PlatformSpec
INVARIANTS
    PlatformTypeOK
    StatusesAreBacked
    PromotionFollowsValidation
    ActivePluginsAreSupported
    HistoryIsSound
    AnswersAreBound
    RegistryIsSound
PROPERTIES
    HistoryStaysWhole
    EnablingIsDecided
    InspectionsAreSound
CHECK_DEADLOCK FALSE
