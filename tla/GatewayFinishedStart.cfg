\* A halt after a request was finalized.
SPECIFICATION MCSpec
CONSTANTS
    e1 = e1  e2 = e2  p1 = p1  p2 = p2  p3 = p3  i1 = i1  i2 = i2  i3 = i3  h1 = h1
    NoPolicy = NoPolicy
    Engagements = {e1, e2}
    Policies = {p1, p2, p3}
    Intents = {i1, i2, i3}
    Hosts = {h1}
    EngagementOf <- MCEngagementOf
    SchemaOf <- MCSchemaOf
    PolicyOf <- MCPolicyOf
    RequestLimit <- MCRequestLimit
    ConnectionLimit <- MCConnectionLimit
    MaxEpoch = 2
    MaxAttestations = 2
INVARIANTS
    OnlyPendingHandoffsCancelled
