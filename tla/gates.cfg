\* Every type of module, and a submission in flight.
SPECIFICATION Spec
CONSTANTS
    None = None
    p1 = p1
    Procs = {p1}
    PolicyModes = {"", "development", "prod", "PROD", " Production "}
    Normalised <- MCNormalised
    Packages = {"full", "send", "incomplete"}
    Covers <- MCCovers
    Expires <- MCExpires
    Actions = {"send", "production_egress"}
    Operations = {"send", "challenge_response"}
    Configured <- MCConfigured
    MaxClock = 2
VIEW MCView
INVARIANTS TypeOK FilesAreOptedIn
PROPERTIES LiveRunsAreApproved RefusalIsFinal
