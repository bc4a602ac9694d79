\* Export for Claude against what the page shows.
CONSTANTS
    MaxVer = 2
    MaxInFlight = 3
    CrashMagic = CrashMagic
    OtherWord = OtherWord
    NoPage = NoPage
    SomePage = SomePage
    NoData = NoData
    NoDataAlert = NoDataAlert
SPECIFICATION Spec
INVARIANT ExportReportsShown
