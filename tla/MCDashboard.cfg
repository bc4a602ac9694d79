\* Polling, serving and settling of overlapping fetches while the device's
\* statistics change; the Export button.
CONSTANTS
    MaxVer = 2
    MaxInFlight = 3
    CrashMagic = CrashMagic
    OtherWord = OtherWord
    NoPage = NoPage
    SomePage = SomePage
    NoData = NoData
    NoDataAlert = NoDataAlert
SPECIFICATION Spec
INVARIANT TypeOK
PROPERTY DisplayConverges
