SPECIFICATION ReportsSpec
CONSTANTS
    a = a
    b = b
    c = c
    coffee = coffee
    cafe = cafe
    assign = assign
    s1 = s1
    None = None
    Keep = Keep
    Categories = {a, b, c}
    BuiltIn = {}
    Merchants = {coffee, cafe}
    Rules = {assign}
    Sessions = {s1, s2}
    Requests <- MCRequests
    MaxConfirmations = 2
    Parts = {"catalog", "summary", "pages", "periods"}

    Shops = {x, y, z}  Entries <- MCEntries  CurrencyOf <- MCCurrencyOf
    Deposits = {"checking", "abroad"}  Queries <- MCQueries  PeriodOf <- MCPeriodOf
    Limit = 1  MaxTotals = 2  MaxWrites = 1

    Ids = {1, 2, 3}  RowContents <- MCRowContents  Filters <- MCFilters
    PageSizes = {1, 2}  MaxRowWrites = 2

    FirstYear = 2022  LastYear = 2026  Froms <- MCFroms  Lengths <- MCLengths
    Customs <- MCCustoms  MaxDays = 367
INVARIANTS NoMutualParents ReportsAreConsistent ListingIsSound PeriodsAreComparable
PROPERTIES  ActivationsAudited
CHECK_DEADLOCK FALSE
