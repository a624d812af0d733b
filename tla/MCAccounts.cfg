SPECIFICATION WebsiteSpec
CONSTANTS
    s1 = s1
    s2 = s2
    None = None
    Session = {s1, s2}
    Key <- MCKey
    MAX_ATTEMPTS = 2
    Number <- MCNumber
    OtpCodes <- MCOtpCodes
    NationalCode <- MCNationalCode
    OwnerOf <- MCOwnerOf
    Reads <- MCReads
    IDENTITY_REQUIRED_FOR_REGISTRATION = TRUE
    MaxTime = 2
    GivenNumbers <- MCGivenNumbers
    MaxEffort = 12
    MaxEdits = 1
INVARIANTS
    WebsiteTypeOK
    OwnersOnly
    IdentityWasMatched
    IdentityOrTaken
    WrongPasswordsAreLimited
    TypoIsNoticed
    OnePerPress
PROPERTIES
    FreshProof
\* The clock stops and the requests are used up.
CHECK_DEADLOCK FALSE
