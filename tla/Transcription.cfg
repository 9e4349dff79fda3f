\* One call may take half of the total and more; with QwenTimeout, a third.
CONSTANTS
    g1 = g1
    g2 = g2
    t1 = t1
    q1 = q1
    q2 = q2
    NoModel = NoModel
    ChatModels <- TwoChatModels
    GPTModels <- OneGPTModel
    QwenModels <- TwoQwenModels
    Timeout = 2
    TotalTimeout = 3
    QwenTimeouts = {0, 1}
    TypedTexts <- Typed
    SaidTexts <- Said
    PromptFiles <- SomeFiles
SPECIFICATION Spec
INVARIANTS FailsOverInOrder TurnsGuaranteed OnlyEditorsRewrite PromptsAgree TextSurvives
PROPERTIES AlwaysAnswers
CHECK_DEADLOCK FALSE
