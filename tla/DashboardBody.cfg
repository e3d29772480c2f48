SPECIFICATION Spec
CONSTANTS
    a = a
    b = b
    OpenAI = OpenAI
    None = None
    short = short
    equal = equal
    long = long
    Names = {short, equal, long}
    Length <- MCLength
    Routes <- MCRoutes
    Bodies <- MCBodies
    MaxAttempts = 2
    LogLimit = 3
    Hour = 2
    Day = 2
    Spark = 1
    Skew = 1
    Latencies <- MCLatencies
    Plans <- MCPlans
INVARIANT RewrittenBodyArrives
