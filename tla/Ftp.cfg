SPECIFICATION Spec
CONSTANTS
    None = None
    Names = {"ftp", "host"}
INVARIANTS
    NameFound
    AnswerOfCommand
    ResultHonest
PROPERTY UploadEnds
