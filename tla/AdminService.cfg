\* Two services, the six migrations of the repository, two kills, three requests, tokens of one hour.
CONSTANTS
    Services = {"speech", "admin"}
    Migrations = 6
    Creates = {1, 2, 3, 5}
    MaxKills = 2
    Requests = 3
    TokenExpire = 1
    MaxHours = 2
SPECIFICATION Spec
INVARIANTS TypeOK ServesOnCompleteSchema LogoutEnds
PROPERTIES NoSpuriousRefusal StartsInTheEnd
CHECK_DEADLOCK FALSE
