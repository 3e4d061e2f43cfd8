SPECIFICATION FairSpec
CONSTANTS
    Names = {"n", "nn"}
    Cut <- CutOf
    Passwords = {"p", "q"}
    Short = {"q"}
    Hash <- HashOf
    UseCases = {"DEV"}
    MaxUsers = 2
CONSTRAINT Bounded
INVARIANTS
    SessionHasUser
    DiskIsCurrent
    HiddenInput
    InStep
PROPERTIES
    BufferDrains
    IsAccountStore
