\* Every connector, tasks of the driver, every fault.
SPECIFICATION Spec
CONSTANTS
    Types = {"github", "ssh", "dokploy", "cloudflare", "supabase-managed", "aliyun", "tencent"}
    Origins = {"driver"}
    Faults = {"store", "clock", "context", "transport", "normalize", "crash"}
    MaxAttempts = 3
    NoRow = NoRow
INVARIANTS
    HealthyIsBacked
PROPERTIES
    AttemptsAdvance
CHECK_DEADLOCK FALSE
