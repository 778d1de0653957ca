SPECIFICATION Spec
CONSTANTS
    Host <- MCHost
    Written <- MCWritten
    NormalizeHost <- MCNormalizeHost
    Plausible <- MCPlausible
    Unset = Unset
    Wrong = Wrong
    NoFile = NoFile
    Token = {"new"}
    Template <- MCTemplate
    Files <- MCFiles
    Sources <- MCSources
    Answers <- MCAnswers
    MaxCommands = 2
INVARIANTS TypeOK EnforcedIsValid DoctorAgrees
PROPERTIES EditStaysInHost TokenFilesStayReadable TemplateStaysLoadable
CHECK_DEADLOCK FALSE
