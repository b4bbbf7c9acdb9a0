SPECIFICATION FairSpec
CONSTANTS
    Chats = {papa, mummy}
    Authorized = {mummy}
    Message <- Hi
    Leftovers <- Left
    Patience = 2
    Paths = {"direct", "workflow"}
    MaxDraft = 3
    MaxSends = 1
INVARIANTS ConfirmedIsWhole
PROPERTIES SendReturns
