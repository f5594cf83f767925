\* Three requests of a session, one of the calls they make failing.
CONSTANTS
    Requests = {1, 2, 3}
    IdPs <- Providers
    Roles = {"operator"}
    MaxTokens = 4
    MaxLogins = 3
    MaxFaults = 1
    None = None
SPECIFICATION Spec
INVARIANTS TypeOK RolesFollowToken LogoutHolds LatestLoginWorks NoSpuriousLogout
PROPERTY Answered
CHECK_DEADLOCK FALSE
