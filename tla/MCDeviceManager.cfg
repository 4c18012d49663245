SPECIFICATION Spec
CONSTANT SlotCount = 2
PROPERTIES
    Sessions
    Departed
