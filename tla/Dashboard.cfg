SPECIFICATION Spec
CONSTANTS
    Queries = {"cpu", "ready", "phase", "oom"}
    Kind <- MCKind
    Responses <- MCResponses
    PodAnswers <- MCPodAnswers
    AlertAnswers <- MCAlertAnswers
    Job = "web"
    Namespace = "default"
INVARIANTS
    TypeOK
    Counted
PROPERTIES
    Implements
    NoWriteAfterReturn
    Replied
