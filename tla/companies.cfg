SPECIFICATION CompaniesSpec
CONSTANTS
    Companies = {c1, c2, c3}
    Editors = {r1, r2}
    NoCompany = NoCompany
    Accounts = {a1, a2}
    Account = a1
    Archivists = {r1, r2}
    NoAccount = NoAccount
    Limit <- CompanyLimits
    MaxDeals <- AccountDeals
    MaxMishaps = 1
SYMMETRY Symmetry
CHECK_DEADLOCK FALSE
INVARIANTS
    CompanyTreeInv
    ArchiveInv
