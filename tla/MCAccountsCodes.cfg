SPECIFICATION WebsiteSpec
CONSTANTS
    s1 = s1
    s2 = s2
    None = None
    Session = {s1, s2}
    Key <- MCKey
    MAX_ATTEMPTS = 2
    Number <- MCNumber
    OtpCodes <- MCOddCodes
    NationalCode <- MCNationalCode
    OwnerOf <- MCOwnerOf
    Reads <- MCReads
    IDENTITY_REQUIRED_FOR_REGISTRATION = TRUE
    MaxTime = 2
    GivenNumbers <- MCGivenNumbers
    MaxEffort = 6
    MaxEdits = 0
INVARIANT CodesAreRead
CHECK_DEADLOCK FALSE
