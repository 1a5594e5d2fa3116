SPECIFICATION AgentSpec
CONSTANTS
    Proc = {"p1", "p2"}
    Intent = {"i1", "i2"}
    MaxEdit = 1
    None = None
    Torn = Torn
    Mixed = Mixed
    Live = Live
    Opener = {"o1", "o2"}
    Doc = {"d1", "d2"}
    Ask <- MCAsk
    MaxSuffix = 1
    MaxVersion = 1
    MaxSave = 1
    MaxTicket = 2
    Updater = {"u1", "u2"}
    MaxRelease = 2
    MaxEntry = 1
CONSTRAINT Bounds
INVARIANTS AgentTypeOK OnlyConfirmedBytes OneUploadPerBase EvidenceIsTrue TrustedIsServed
PROPERTIES WorkIsKept InstallationWorks
CHECK_DEADLOCK FALSE
