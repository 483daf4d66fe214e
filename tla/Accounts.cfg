SPECIFICATION AccountsSpec
CONSTANTS
    Requests = {r1, r2}
    MaxSignups = 2
    MaxAccounts = 1
    MaxCustomers = 2
    MaxSubscriptions = 1
    MaxFailures = 1
    Notices <- MCNotices
INVARIANTS
    GrantedAccountsAreActive
    RowsBelongToPayers
    ActiveIsGrantedOrRetried
PROPERTIES
    ActiveAccountsStay
    PaidAccountsActivate
