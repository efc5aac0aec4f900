SPECIFICATION AgentSpec
CONSTANTS
    Jobs = 2
    MaxSteps = 2
    MaxCalls = 2
    MaxLen = 2
    Shapes <- AllShapes
    Added <- NewLink
    Sent = {0, 1, 2, 4}
    IndexWidth = 4
    Texts = {"go", "go on"}
    NoAnswer = none
    Nodes = {1, 2, 3, 4, 5}
    NoNode = 0
    Trimmed <- ReadBack
    Holding <- Containing
    Absent = "absent"
INVARIANTS ListIsComplete FirstIndexActs ConversationValid TrajectoryTrue
