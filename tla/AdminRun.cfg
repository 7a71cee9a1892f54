SPECIFICATION SpecCommand
INVARIANTS NoUnconfirmedPublish AdviceWorks GateFollowsTheFlags
CHECK_DEADLOCK FALSE
