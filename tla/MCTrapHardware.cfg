\* Servo wrapper and ToF I2C tracker across device resets.  Two sensor
\* slots, one of them read by a client; the code's thresholds (5 failures,
\* more than 10 transactions), a hang threshold of 2 time units.
CONSTANTS
    p48 = p48  p49 = p49
    Pins = {p48, p49}
    ServoPin = p48
    SensorCount = 2
    Clients = {0}
    StreakWarn = 5
    HangMs = 2
    RateMinTotal = 10
    MaxTxn = 11
    MaxTime = 4
    MaxBoots = 1
SPECIFICATION Spec
INVARIANT TypeOK
INVARIANT SafeOnceSeenDisabled
INVARIANT FailureRunFlagged
INVARIANT OnePulseAfterDisable
