CONSTANTS
    n1 = n1
    p1 = p1
    p2 = p2
    q1 = q1
    Threads = {t1, t2}
    Names <- SomeNames
    Passwords <- SomePasswords
    Places <- SomePlaces
    Malformed = Malformed
    None = None
    DriverFaults = TRUE
    Seeds <- SomeSeeds
    MaxDocs = 3
SPECIFICATION Spec
SYMMETRY Symmetric
INVARIANTS
    DuplicateOnlyByRace
    LoginIsOfCheckedUser
    RegisteredNeverLogIn
    LoginIsKept
