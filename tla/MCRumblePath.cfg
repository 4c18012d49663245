SPECIFICATION PathSpec
CONSTANTS
    Strength = {1}
    Slots = {0, 1}
    QueueLen = 2
    NoEffect = NoEffect
INVARIANTS
    RumbleHasSource
    TableFollowsGames
PROPERTIES
    EffectsArrive
    ImplementsHaptics
