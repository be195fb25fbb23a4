CONSTANTS
    Modes = {"automatic", "hold", "charge", "discharge", "export", "import", "solarFirst"}
    Surpluses <- SomeSurpluses
    Disagreement = 2
    Powers <- MCPowers
    NoReading = NoReading
    FallbackMax = 2
    CapMargin = 1
    Ceiling = 3
    None = None
    Hold = 1
    Deadband = 1
    TrackingStep = 2
    Tolerance = 3
    HandbackPower = 2
    DirectPower = 0
    Settle = 1
    HandbackTime = 1
    HandbackMax = 3
SPECIFICATION Spec
INVARIANTS TypeOK GuardsDoNotWait
