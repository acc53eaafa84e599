SPECIFICATION Spec
CONSTANTS
    a = a
    b = b
    c = c
    coffee = coffee
    cafe = cafe
    assign = assign
    s1 = s1
    None = None
    Keep = Keep
    Categories = {a, b, c}
    BuiltIn = {}
    Merchants = {coffee, cafe}
    Rules = {assign}
    Sessions = {s1, s2}
    Requests <- ParentRequests
    MaxConfirmations = 2
INVARIANT CategoryForest
