----------------------------- MODULE Dashboard -----------------------------
(***************************************************************************)
(* The debug web dashboard of src/mousetrap_arduino/debug_dashboard.h: the *)
(* device's /api/debug-stats handler (handleDebugStatsAPI) and the script  *)
(* of the page it serves (DEBUG_DASHBOARD_HTML, lines 330-640).            *)
(*                                                                         *)
(* The page polls the API every 5 s with fetch().  A request is in flight  *)
(* until the device serves it and the browser settles it; requests of      *)
(* overlapping polls are served and settled in any order, and any of them  *)
(* may fail (lost connection, a 401, a reboot of the device), which the    *)
(* script's catch handler only logs.                                       *)
(*                                                                         *)
(* The device's statistics (heap, uptime, Wi-Fi, ...) are abstracted to a  *)
(* version number that grows as they change; the crash stamp g_crashStamp  *)
(* is written before the dashboard runs and is fixed for a boot.  Layout,  *)
(* wording and number formatting are left out.                             *)
(***************************************************************************)
EXTENDS Naturals, FiniteSets

CONSTANTS
    MaxVer,         \* bound on the changes of the device's statistics
    MaxInFlight,    \* bound on the fetches in flight at once
    CrashMagic,     \* the stamp's valid magic word, 0xC0DEC0DE
    OtherWord,      \* any other value of g_crashStamp.magic
    NoPage,         \* last_page[0] == 0
    SomePage,       \* a recorded page name
    NoData,         \* null: nothing received yet
    NoDataAlert     \* the alert 'No data available yet'

Ids == 1 .. MaxInFlight

\* g_crashStamp, reduced to the two fields the handler tests.
Stamps == [magic : {CrashMagic, OtherWord}, lastPage : {NoPage, SomePage}]

\* The JSON document the handler builds: the statistics and crash.stamped.
Docs == [ver : 0 .. MaxVer, stamped : BOOLEAN]

\* The two functions the name updateDashboard is bound to: the declaration
\* at line 375 and the wrapper assigned at line 549.
Fns == {"original", "wrapped"}

VARIABLES
    ver,              \* device: version of the statistics
    stamp,            \* device: g_crashStamp
    loaded,           \* the page's script has run
    updateDashboard,  \* the function the global name is bound to
    refreshTimer,     \* the function the 5 s interval calls
    inflight,         \* fetches in flight: [id, fn, resp]; resp NoData until served
    shown,            \* the document the page displays
    latestData,       \* what exportData() reports
    countdown,        \* the "Auto-refresh: Ns" counter
    exported          \* outcome of the last Export click

vars == <<ver, stamp, loaded, updateDashboard, refreshTimer, inflight,
          shown, latestData, countdown, exported>>

TypeOK ==
    /\ ver \in 0 .. MaxVer
    /\ stamp \in Stamps
    /\ loaded \in BOOLEAN
    /\ updateDashboard \in Fns \cup {NoData}
    /\ refreshTimer \in Fns \cup {NoData}
    /\ inflight \subseteq [id : Ids, fn : Fns, resp : Docs \cup {NoData}]
    /\ shown \in Docs \cup {NoData}
    /\ latestData \in Docs \cup {NoData}
    /\ countdown \in 1 .. 5
    /\ exported \in Docs \cup {NoData, NoDataAlert}

Init ==
    /\ ver = 0
    /\ stamp \in Stamps
    /\ loaded = FALSE
    /\ updateDashboard = NoData
    /\ refreshTimer = NoData
    /\ inflight = {}
    /\ shown = NoData
    /\ latestData = NoData
    /\ countdown = 5
    /\ exported = NoData

-----------------------------------------------------------------------------
(* Device side.                                                            *)

\* crash["stamped"]: the magic word is valid and a page was recorded.
Stamped(s) == s.magic = CrashMagic /\ s.lastPage # NoPage

\* handleDebugStatsAPI after authentication: a document of the current
\* statistics and crash stamp.
StatsDoc == [ver |-> ver, stamped |-> Stamped(stamp)]

\* Heap, uptime or connectivity change.
StatsChange ==
    /\ ver < MaxVer
    /\ ver' = ver + 1
    /\ UNCHANGED <<stamp, loaded, updateDashboard, refreshTimer, inflight,
                   shown, latestData, countdown, exported>>

\* The async web server answers request r with the document of this moment.
Serve(r) ==
    /\ r.resp = NoData
    /\ inflight' = (inflight \ {r}) \cup {[r EXCEPT !.resp = StatsDoc]}
    /\ UNCHANGED <<ver, stamp, loaded, updateDashboard, refreshTimer,
                   shown, latestData, countdown, exported>>

-----------------------------------------------------------------------------
(* Browser side.                                                           *)

FreeIds == Ids \ {r.id : r \in inflight}

\* A call of function fn: fetch('/api/debug-stats') is sent.
Fetch(fn) ==
    /\ FreeIds # {}
    /\ inflight' = inflight \cup {[id |-> CHOOSE i \in FreeIds : TRUE,
                                   fn |-> fn, resp |-> NoData]}

\* The script runs top to bottom: the countdown interval is started, the
\* 5 s interval is given the value updateDashboard has at line 476, the
\* initial call at line 479 uses it too, and only then is the name rebound
\* to the wrapper that records latestData.
OpenPage ==
    /\ ~loaded
    /\ LET declared == "original" IN
          /\ refreshTimer' = declared
          /\ Fetch(declared)
    /\ updateDashboard' = "wrapped"
    /\ loaded' = TRUE
    /\ UNCHANGED <<ver, stamp, shown, latestData, countdown, exported>>

\* Mutant: setTimeout in place of setInterval, so the page polls only once.
RefreshOnce ==
    /\ loaded
    /\ refreshTimer # NoData
    /\ Fetch(refreshTimer)
    /\ refreshTimer' = NoData
    /\ UNCHANGED <<ver, stamp, loaded, updateDashboard,
                   shown, latestData, countdown, exported>>

\* The 5 s interval fires and calls the function it was given.
Refresh ==
    /\ loaded
    /\ Fetch(refreshTimer)
    /\ UNCHANGED <<ver, stamp, loaded, updateDashboard, refreshTimer,
                   shown, latestData, countdown, exported>>

\* The .then(data => ...) of updateDashboard: every field of the page is
\* filled from the document, then the countdown is reset.
Display(doc) == shown' = doc /\ countdown' = 5

\* The fetch of r resolves with a document: the page displays it; only the
\* wrapper also stores it in latestData.
Deliver(r) ==
    /\ r.resp # NoData
    /\ inflight' = inflight \ {r}
    /\ Display(r.resp)
    /\ latestData' = IF r.fn = "wrapped" THEN r.resp ELSE latestData
    /\ UNCHANGED <<ver, stamp, loaded, updateDashboard, refreshTimer, exported>>

\* The fetch of r rejects, or its body is not JSON (a 401 from the
\* authentication check): the catch handler logs and nothing changes.
Fail(r) ==
    /\ inflight' = inflight \ {r}
    /\ UNCHANGED <<ver, stamp, loaded, updateDashboard, refreshTimer,
                   shown, latestData, countdown, exported>>

\* Mutant: the wrap-around tested with < 0, one tick late.
TickLate ==
    /\ loaded
    /\ countdown' = IF countdown - 1 < 0 THEN 5 ELSE countdown - 1
    /\ UNCHANGED <<ver, stamp, loaded, updateDashboard, refreshTimer, inflight,
                   shown, latestData, exported>>

\* The 1 s countdown interval.
Tick ==
    /\ loaded
    /\ countdown' = IF countdown - 1 <= 0 THEN 5 ELSE countdown - 1
    /\ UNCHANGED <<ver, stamp, loaded, updateDashboard, refreshTimer, inflight,
                   shown, latestData, exported>>

\* The Export button: an alert while latestData is null, else a report of
\* latestData copied to the clipboard.
ExportData ==
    /\ loaded
    /\ exported' = IF latestData = NoData THEN NoDataAlert ELSE latestData
    /\ UNCHANGED <<ver, stamp, loaded, updateDashboard, refreshTimer, inflight,
                   shown, latestData, countdown>>

Next ==
    \/ StatsChange
    \/ \E r \in inflight : Serve(r) \/ Deliver(r) \/ Fail(r)
    \/ OpenPage
    \/ Refresh
    \/ Tick
    \/ ExportData

\* The interval timer fires while the page is open (line 476); the server
\* answers every request it receives; the browser settles every fetch.
Fairness ==
    /\ WF_vars(Refresh)
    /\ WF_vars(\E r \in inflight : Serve(r))
    /\ WF_vars(\E r \in inflight : Deliver(r) \/ Fail(r))

Spec == Init /\ [][Next]_vars /\ Fairness

-----------------------------------------------------------------------------
(* Properties.                                                             *)

\* Export for Claude reports what the page displays: whenever the page has
\* shown a document, latestData holds that document (exportData, line 485).
ExportReportsShown == latestData = shown

\* Once the device's statistics stop changing, the open page eventually
\* displays them for good, or else some fetch fails infinitely often (the
\* escape clause says no more than that: a behaviour in which fetches keep
\* failing now and then, with successes between, is excused too).  An older
\* response delivered late never has the last word, and the interval keeps
\* polling.
DisplayConverges ==
    \/ <>[](loaded => shown = StatsDoc)
    \/ []<><<\E r \in inflight : Fail(r)>>_vars
=============================================================================
