\* The timeouts stand to each other as those of the code: 30, 60 and 45 seconds.
CONSTANTS
    g1 = g1
    g2 = g2
    t1 = t1
    q1 = q1
    NoModel = NoModel
    ChatModels <- TwoChatModels
    GPTModels <- OneGPTModel
    QwenModels <- OneQwenModel
    Timeout = 2
    TotalTimeout = 3
    QwenTimeouts = {0}
    TypedTexts <- NoTexts
    SaidTexts <- NoTexts
    PromptFiles = {}
    Sizes = {0, 1, 4}
    ReadTimeout = 2
    WriteTimeout = 4
    Environments <- Services
    Forms <- Questions
SPECIFICATION HandlerSpec
INVARIANTS HandlerTypeOK ValidatedServes OnlyLateLoseAnswer
PROPERTIES EveryRequestEnds
CHECK_DEADLOCK FALSE
