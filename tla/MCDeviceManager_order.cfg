SPECIFICATION Spec
CONSTANT SlotCount = 2
PROPERTIES
    InOrder
