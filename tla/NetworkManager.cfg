CONSTANTS
    wlan = wlan  eth = eth  home = home  cable = cable  other = other  ap = ap
    Device = {wlan, eth}
    Wifi = {wlan}
    Conn = {home, cable, other}
    Uuid <- MCUuid
    Usable = {home, cable, other}
    Saved = {home, cable}
    AP = {ap}
    Ssid <- MCSsid
    Scenarios <- MCScenarios
    None = None
SPECIFICATION Spec
INVARIANTS ManagerTypeOK ConnectionsPaired IdleIsIdle DiesOnStaleAnswerOnly ActivatedIsAssociated
PROPERTIES ActivationEnds Recovered
CHECK_DEADLOCK FALSE
