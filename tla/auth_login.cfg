SPECIFICATION AuthSpec
CONSTANTS
    BrowserCalls = {1, 2}
    MaxFiles = 4
    MaxTries = 4
INVARIANTS
    AttemptLogsIn
CHECK_DEADLOCK FALSE
