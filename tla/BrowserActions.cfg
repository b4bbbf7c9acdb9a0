SPECIFICATION Spec

CONSTANTS
    Pages <- SomePages
    Actions <- SomeActions

INVARIANTS
    ChosenIsHit
    NoShortIsClicked
    ActsAtMostOnce
