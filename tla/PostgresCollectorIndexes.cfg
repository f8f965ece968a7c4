SPECIFICATION Spec
CONSTANTS
    Tables <- UserTables
    ShapesOf <- UserShapes
    Absent = Absent
    Providers = {"auto", "generic"}
    UrlKinds = {"supabase", "neon", "aws", "plain"}
    MaxAttempts = 6
    FirstBackoff = 2
    BackoffCap = 30
INVARIANT
    IndexesDescribeThemselves
CHECK_DEADLOCK FALSE
