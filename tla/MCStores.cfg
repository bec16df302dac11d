CONSTANTS
    b1 = b1
    b2 = b2
    n1 = n1
    c1 = c1
    c2 = c2
    h1 = h1
    h2 = h2
    s1 = s1
    p1 = p1
    p2 = p2
    g1 = g1
    k1 = k1
    k2 = k2
    t1 = t1
    t2 = t2
    r1 = r1
    r2 = r2
    Bucket = {b1, b2}
    ObjName = {n1}
    Uploader = {c1, c2}
    Target <- MCTarget
    Handler = {h1, h2}
    Torn = Torn
    Nobody = Nobody
    Mixed = Mixed
    MaxId = 3
    Secret = {s1}
    Payload = {p1, p2}
    NoPayload = NoPayload
    MaxVersions = 3
    KeyRing = {g1}
    Key = {k1, k2}
    Text = {t1, t2}
    Garbage = Garbage
    KeyClient = {r1, r2}
    MaxMaterial = 3
    Doc = {1, 2, 3}
    Collection = {"users", "teams"}
    Members <- MCMembers
    Field = {"age", "tags"}
    FieldsOf <- MCFieldsOf
    Loaded <- MCLoaded
    NoFields = NoFields
    Query <- MCQuery
    Reader = {r1}
    MaxMaps = 5
    MaxCalls <- MCMaxCalls
    MaxExits = 1
    DataDir = TRUE

SPECIFICATION Spec
SYMMETRY MCSymmetry
\* At the bound of requests nothing need be left to do.
CHECK_DEADLOCK FALSE

INVARIANTS
    StoresTypeOK
    Housed
    Intact
    AnsweredIsSaved
    PayloadsKept
    RoundTrip
    AnswersAsCollected
PROPERTIES
    NeverUsedAgain
