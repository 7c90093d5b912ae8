SPECIFICATION Spec
CONSTANTS
    Calls = {c1, c2}
    MaxLogins = 2
INVARIANT LogoutClearsSession
