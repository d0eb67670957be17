SPECIFICATION Spec
CONSTANTS
    Cores = {"xray", "sing", "hysteria2"}
    PanelTypes = {"ppanel", "uniproxy"}
    Bodies <- AllBodies
    Changes <- LaterBodies
    Optionss <- AllOptions
    NoBody = NoBody
INVARIANTS
    SecurityKept
    CoresAgree
    SurvivesFitAnswers
