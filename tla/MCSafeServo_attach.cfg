\* attach() called while the servo is disabled, then re-enabled.
CONSTANTS
    p48 = p48  p49 = p49
    Pins = {p48, p49}
    ServoPin = p48
SPECIFICATION Spec
INVARIANT AttachedMeansDriven
