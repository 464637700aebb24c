SPECIFICATION Spec
CONSTANTS
    a = a
    b = b
    None = None
    Items = {a, b}
    Junk = {a, None}
    Owning = TRUE
    MaxLen = 7
INVARIANT Owned
