SPECIFICATION Spec
CONSTANTS
    Slots = 2
INVARIANTS
    PendingIsOwned
    InterfacesComeBack
PROPERTIES
    DropEnds
