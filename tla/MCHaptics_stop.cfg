SPECIFICATION Spec
CONSTANT Strength = {1}
PROPERTIES
    StopArrives
