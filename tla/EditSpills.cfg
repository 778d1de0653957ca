SPECIFICATION Spec
CONSTANTS
    Host <- MCHost
    Written <- MCWritten
    NormalizeHost <- MCNormalizeHost
    Plausible <- MCPlausible
    Unset = Unset
    Wrong = Wrong
    NoFile = NoFile
    Token = {"new"}
    Template <- MCTemplate
    Files <- HeaderComment
    Sources <- MCSources
    Answers <- MCAnswers
    MaxCommands = 2
PROPERTIES EditStaysInHost
CHECK_DEADLOCK FALSE
