SPECIFICATION Spec
CONSTANTS
    a = a
    b = b
    None = None
    Items = {a, b}
    Junk = {a, None}
    Owning = FALSE
    MaxLen = 7
PROPERTY Refines
