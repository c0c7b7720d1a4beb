SPECIFICATION Spec
CONSTANTS
    Queries = {"cpu", "ready"}
    Kind <- MCKind
    Responses <- MCResponses
    PodAnswers <- MCPodAnswers
    AlertAnswers <- MCAlertAnswers
    Job = "web"
    Namespace = "default"
INVARIANTS
    NoAlertsIsTrue
