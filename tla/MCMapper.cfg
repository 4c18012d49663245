SPECIFICATION Spec
CONSTANTS
    steam = steam x = x y = y lb = lb
    enter = enter super = super leftShift = leftShift rightShift = rightShift
    mouseLeft = mouseLeft south = south leftStick = leftStick
    Button <- MCButton
    KeyOutput <- MCKeys
    MouseOutput <- MCMouse
    GamepadOutput <- MCPad
    Axis <- MCAxis
    ModeName = {"desktop", "game", "play", "empty"}
    ReservedInput <- MCReservedInput
    LeftShift = leftShift
    RightShift = rightShift
    Configs <- AllConfigs
    RequestKeys <- SuperKey
INVARIANTS
    KeyboardIsModal
    HostShowsHeld
    ActingIsPressed
    GlobalsKeepTheirButtons
    OneRoutePerTrigger
    NothingStale
    HeldHasHolders
PROPERTIES
    HeldStaysShown
    PressActsOnce
