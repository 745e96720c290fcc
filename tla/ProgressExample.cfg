SPECIFICATION Spec
CONSTANTS
    Items = 12
    Window = 5
    MaxRunning = 1
INVARIANT ExamplePasses
PROPERTY ExampleEnds
