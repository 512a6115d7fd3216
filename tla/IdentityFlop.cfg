\* One process on a desktop without a core keyring that locks and unlocks.
CONSTANTS
    KeychainUsers = {k1}
    FileUsers = {}
    Daemons = {}
    CoreKeyring = FALSE
    MaxMints = 2
    MaxUpsets = 2
SPECIFICATION IdentitySpec
PROPERTIES
    PairedIdentityKept
CHECK_DEADLOCK FALSE
