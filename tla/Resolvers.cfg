CONSTANTS
    car = car
    device = device
    account = account
    f1 = f1
    f2 = f2
    Fields = {f1, f2}
    Dids = {car, device, account}
    Erc721 = {car, device}
    Rows <- MCRows
    DefaultLimit = 2
    NoLimit = NoLimit
    None = None
    Requests <- MCRequests
    MaxChanges = 2
SPECIFICATION FairSpec
INVARIANTS
    TypeOK
    OnlyLinkedSubjects
    OwnSlots
    NothingMeansNothing
    SiblingsSurvive
PROPERTIES
    Answered
