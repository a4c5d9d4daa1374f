\* One window, two requests at once, a session that may have ended elsewhere.
CONSTANTS
    Calls = {c1, c2}
    MaxLogins = 2
SPECIFICATION BrowserSpec
INVARIANT
    LogoutSignsOut
CHECK_DEADLOCK FALSE
