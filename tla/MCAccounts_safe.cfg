SPECIFICATION Spec
CONSTANTS
    u1 = u1
    u2 = u2
    u3 = u3
    google = google
    mail = mail
    wallet = wallet
    c1 = c1
    c2 = c2
    None = None
    Users <- ThreeUsers
    Identities <- MailAndWallet
    KindOf <- KindsMW
    EmailOf <- EmailsMW
    Calls <- TwoCalls
INVARIANTS
    KeyedSessionIsAccount
    LastMethodKept
    OneAccountPerIdentity
SYMMETRY AccountsSymmetry
CHECK_DEADLOCK FALSE
