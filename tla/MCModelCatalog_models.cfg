SPECIFICATION ModelsSpec
CONSTANTS
    n1 = n1
    n2 = n2
    a = a
    b = b
    c = c
    r1 = r1
    r2 = r2
    r3 = r3
    e1 = e1
    e2 = e2
    None = None
    Node = {n1, n2}
    Field = {a, b, c}
    Req = {r1, r2, r3}
    Interval = 2
    Load <- MCLoad
    Unspellable = {"a.b"}
    MaxValidationDepth = 4
    SWriter = {"w1", "w2"}
    MaxDeltas = 2
    SLoad <- MCSLoad
INVARIANTS CatalogConsistent ExtensionsFold
PROPERTIES CatalogSettles
