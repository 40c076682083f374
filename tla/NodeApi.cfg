SPECIFICATION Spec
CONSTANTS
    Peers = {p1}
    Requests = {r1, r2}
    AsksToken = TRUE
    Scenes <- MCScenes
    Mtu = 1452
    SurbBits = 3200
    NoSession = NoSession
    Nothing = Nothing
INVARIANTS
    AuthorizedOnly
    ChannelAnswersTrue
    HealthAnswersTrue
    SettingsReadBack
CHECK_DEADLOCK FALSE
