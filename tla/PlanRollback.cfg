CONSTANTS
    Skills <- MCSkills
    NoSkill = NoSkill
    EvidenceIds = {"logs", "spec"}
    Proposals <- MCProposals
    RunbookActions = {{"patch"}, {"restart"}}
    MaxPasses = 2
SPECIFICATION PassSpec
INVARIANT RollbackWasShown
CHECK_DEADLOCK FALSE
