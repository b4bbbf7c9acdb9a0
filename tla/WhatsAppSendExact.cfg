SPECIFICATION Spec
CONSTANTS
    Chats = {papa, mummy}
    Authorized = {mummy}
    Message <- Hi
    Leftovers <- Left
    Patience = 2
    Paths = {"direct", "workflow"}
    MaxDraft = 3
    MaxSends = 1
INVARIANT ConfirmedIsExact
