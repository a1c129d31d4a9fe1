CONSTANTS
    r1 = r1  r2 = r2  r3 = r3  alice = alice
    Requests = {r1, r2}
    Accounts = {alice}
    Account <- MCAccount
    Balance <- MCBalance
    Est <- MCEst
    Extra <- MCExtra
    Safety <- MCSafety
    Actual <- MCActual
    Slow = {}
    Modes = {"hybrid", "credits_only"}
    DbFaults = {"abort", "lost"}
CHECK_DEADLOCK FALSE
SPECIFICATION FairSpec
INVARIANT WalletExact
PROPERTY LeasesDrain
