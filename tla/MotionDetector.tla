--------------------------- MODULE MotionDetector ---------------------------
(***************************************************************************)
(* The MotionDetector class of src/scout_arduino/motion_detect.h: one     *)
(* detector instance driven by a capture loop that calls detect() once per *)
(* frame, with setConfig() and reset() called between frames, while the   *)
(* millis() clock advances.                                                *)
(*                                                                         *)
(* Frames are identifiers; the MC module gives each one its format, its    *)
(* dimensions, its pixel buffer (grayscale) or its byte length (JPEG).     *)
(* The previous-frame buffer is represented by the identifier of the frame *)
(* last copied into it: every memcpy copies a whole frame of the buffer's  *)
(* dimensions.  millis() is a counter modulo ClockMod, standing for the    *)
(* 2^32 wrap of the 32-bit millisecond clock.                              *)
(***************************************************************************)
EXTENDS BlockDiff

CONSTANTS
    GrayFrames,         \* PIXFORMAT_GRAYSCALE frames
    JpegFrames,         \* PIXFORMAT_JPEG frames
    InvalidFrame,       \* a null frame, a null buffer or len == 0
    OtherFrame,         \* a valid frame of another pixel format
    FrameWidth(_), FrameHeight(_),
    FramePixels(_),     \* the buffer of a grayscale frame
    FrameLen(_),        \* frame->len of a JPEG frame (> 0)
    DefaultConfig,      \* the configuration set by the constructor
    Configs,            \* configurations the caller may pass to setConfig()
    ClockMod,           \* millis() wraps modulo ClockMod
    TickSizes,          \* milliseconds the clock may advance in one step
    NoFrame,            \* prevFrame == nullptr
    Never               \* history: no detection accepted since boot / reset

ASSUME ClockMod > 0 /\ TickSizes \subseteq 1 .. ClockMod - 1
ASSUME \A c \in Configs \cup {DefaultConfig} : c.cooldownMs < ClockMod
ASSUME \A f \in JpegFrames : FrameLen(f) > 0

Frames == GrayFrames \cup JpegFrames \cup {InvalidFrame, OtherFrame}

HistLen == 5    \* static size_t jpegSizeHistory[5]

\* history variables are capped at the largest cooldown: larger values do
\* not change any verdict.
SinceCap == Max({c.cooldownMs : c \in Configs \cup {DefaultConfig}})

VARIABLES
    config,             \* MotionDetector::config
    prevFrame,          \* MotionDetector::prevFrame
    prevWidth,          \* MotionDetector::prevWidth
    prevHeight,         \* MotionDetector::prevHeight
    lastDetectionTime,  \* MotionDetector::lastDetectionTime
    prevJpegSize,       \* static locals of detectFromJpegSize()
    jpegSizeHistory,
    historyIdx,
    now,                \* millis()
    result,             \* MotionResult returned by a detect() call made in
                        \* this step (EmptyResult after other steps)
    \* history variables, not in the code:
    lastStep,           \* which branch the last step took
    sinceAccept,        \* ms since the last accepted detection, or Never
    acceptParity,       \* number of accepted detections, modulo 2
    jpegSinceReset,     \* JPEG frames recorded since boot or reset() (capped)
    panics              \* panic reboots so far (capped at 1)

detector == <<config, prevFrame, prevWidth, prevHeight, lastDetectionTime>>
jpegStatics == <<prevJpegSize, jpegSizeHistory, historyIdx>>
history == <<lastStep, sinceAccept, acceptParity, jpegSinceReset, panics>>
vars == <<detector, jpegStatics, now, result, history>>

Result == [detected : BOOLEAN, sizeFiltered : BOOLEAN,
           x : Nat, y : Nat, width : Nat, height : Nat,
           changedBlocks : Nat, totalBlocks : Nat]

\* MotionResult result = {false, false, 0, 0, 0, 0, 0.0, 0, 0, 0.0};
EmptyResult == [detected |-> FALSE, sizeFiltered |-> FALSE,
                x |-> 0, y |-> 0, width |-> 0, height |-> 0,
                changedBlocks |-> 0, totalBlocks |-> 0]

Capped(n) == Min({n, SinceCap})

(***************************************************************************)
(* Cooldown gate, line 80: millis() - lastDetectionTime < config.cooldownMs *)
(* in unsigned 32-bit arithmetic.                                          *)
(***************************************************************************)
CooldownActive == (now - lastDetectionTime) % ClockMod < config.cooldownMs

\* Faults of the cooldown start, for mutation checks: the timestamp is never
\* set, the deadline is stored instead.
StartCooldownNever(res) == lastDetectionTime
StartCooldownDeadline(res) ==
    IF res.detected THEN now + config.cooldownMs ELSE lastDetectionTime

\* Lines 179-180 and 248-249: an accepted detection stores millis().
StartCooldown(res) == IF res.detected THEN now ELSE lastDetectionTime

\* The bookkeeping of a detect() call that returns res; accepted says
\* whether the call set lastDetectionTime.
Return(step, res, accepted) ==
    /\ result' = res
    /\ lastStep' = step
    /\ sinceAccept' = IF accepted THEN 0 ELSE sinceAccept
    /\ acceptParity' = IF accepted THEN 1 - acceptParity ELSE acceptParity

(***************************************************************************)
(* The gray path, lines 110-187, for a frame of the stored dimensions.     *)
(***************************************************************************)
CompareInput(f) ==
    [cur |-> FramePixels(f), prev |-> FramePixels(prevFrame),
     w |-> FrameWidth(f), h |-> FrameHeight(f),
     bs |-> config.blockSize, thr |-> config.threshold]

\* The block grid divides by zero (line 111 or line 132) and the core
\* panics: blockSize == 0, or blockSize * blockSize wraps to 0 in uint16_t
\* while at least one full block fits in the frame.
DividesByZero(f) ==
    \/ config.blockSize = 0
    \/ /\ PixelsInBlock(config.blockSize) = 0
       /\ FrameWidth(f) \div config.blockSize > 0
       /\ FrameHeight(f) \div config.blockSize > 0

\* Lines 148-173: the bounding box and the size filter.
GrayResult(f, scan) ==
    LET bs     == config.blockSize
        w      == (scan.maxX - scan.minX + 1) * bs
        h      == (scan.maxY - scan.minY + 1) * bs
        area   == w * h
        total  == FrameWidth(f) * FrameHeight(f)
        small  == area * 100 < config.minSizePercent * total
        large  == area * 100 > config.maxSizePercent * total
    IN  IF scan.changed = 0
        THEN [EmptyResult EXCEPT !.totalBlocks = scan.total]
        ELSE [detected |-> ~(small \/ large), sizeFiltered |-> small \/ large,
              x |-> scan.minX * bs, y |-> scan.minY * bs, width |-> w, height |-> h,
              changedBlocks |-> scan.changed, totalBlocks |-> scan.total]

(***************************************************************************)
(* The JPEG size heuristic, detectFromJpegSize(), lines 194-257.           *)
(***************************************************************************)
\* Fault: the ring index wraps one slot too late.
NextHistoryIdxLate == (historyIdx + 1) % (HistLen + 1)

\* Line 203: historyIdx = (historyIdx + 1) % 5;
NextHistoryIdx == (historyIdx + 1) % HistLen

RecordJpeg(len) == [jpegSizeHistory EXCEPT ![historyIdx] = len]

\* The average of the non-zero entries, in size_t arithmetic (lines 206-214).
JpegAverage(hist) ==
    LET valid == {i \in DOMAIN hist : hist[i] > 0}
    IN  MapThenSumSet(LAMBDA i : hist[i], valid) \div Cardinality(valid)

JpegValidCount(hist) == Cardinality({i \in DOMAIN hist : hist[i] > 0})

\* Line 217: if (prevJpegSize == 0 || validCount < 3) - warm-up.
JpegWarmingUp(hist) == prevJpegSize = 0 \/ JpegValidCount(hist) < 3

\* sizeDiff = |len - avg| / avg * 100 compared with a percentage p.
DevAbove(len, avg, p) == AbsDiff(len, avg) * 100 > p * avg
DevBelow(len, avg, p) == AbsDiff(len, avg) * 100 < p * avg

\* Lines 222-253.
JpegResult(f, hist) ==
    LET len    == FrameLen(f)
        avg    == JpegAverage(hist)
        reject == DevBelow(len, avg, 3) \/ DevAbove(len, avg, 50)
    IN  IF JpegWarmingUp(hist) \/ ~DevAbove(len, avg, 10)
        THEN EmptyResult
        ELSE [EmptyResult EXCEPT !.detected = ~reject, !.sizeFiltered = reject,
                                 !.x = FrameWidth(f) \div 4, !.y = FrameHeight(f) \div 4,
                                 !.width = FrameWidth(f) \div 2,
                                 !.height = FrameHeight(f) \div 2]

(***************************************************************************)
(* The state of a freshly booted device: the constructor (lines 40-47), the *)
(* zero-initialised statics of detectFromJpegSize(), millis() == 0.        *)
(***************************************************************************)
BootState ==
    /\ config = DefaultConfig
    /\ prevFrame = NoFrame
    /\ prevWidth = 0
    /\ prevHeight = 0
    /\ lastDetectionTime = 0
    /\ prevJpegSize = 0
    /\ jpegSizeHistory = [i \in 0 .. HistLen - 1 |-> 0]
    /\ historyIdx = 0
    /\ now = 0
    /\ result = EmptyResult

Init ==
    /\ BootState
    /\ lastStep = "boot"
    /\ sinceAccept = Never
    /\ acceptParity = 0
    /\ jpegSinceReset = 0
    /\ panics = 0

(***************************************************************************)
(* detect(frame), one action per branch of the handler.                    *)
(***************************************************************************)

\* Lines 74-77: invalid frame.
DetectInvalid ==
    /\ Return("invalid", EmptyResult, FALSE)
    /\ UNCHANGED <<detector, jpegStatics, now, jpegSinceReset, panics>>

\* Fault: a suppressed call restarts the cooldown.
DetectCooldownRefresh ==
    /\ CooldownActive
    /\ lastDetectionTime' = now
    /\ Return("cooldown", EmptyResult, FALSE)
    /\ UNCHANGED <<config, prevFrame, prevWidth, prevHeight, jpegStatics, now,
                   jpegSinceReset, panics>>

\* Lines 80-82: cooldown active.
DetectCooldown ==
    /\ CooldownActive
    /\ Return("cooldown", EmptyResult, FALSE)
    /\ UNCHANGED <<detector, jpegStatics, now, jpegSinceReset, panics>>

\* Lines 87-89 and detectFromJpegSize(), lines 194-257.
DetectJpeg(f) ==
    LET hist == RecordJpeg(FrameLen(f))
        res  == JpegResult(f, hist)
    IN  /\ ~CooldownActive
        /\ jpegSizeHistory' = hist
        /\ historyIdx' = NextHistoryIdx
        /\ prevJpegSize' = FrameLen(f)
        /\ lastDetectionTime' = StartCooldown(res)
        /\ Return("jpeg", res, res.detected)
        /\ jpegSinceReset' = Min({jpegSinceReset + 1, HistLen})
        /\ UNCHANGED <<config, prevFrame, prevWidth, prevHeight, now, panics>>

\* Lines 92-95: unsupported pixel format.
DetectUnsupported ==
    /\ ~CooldownActive
    /\ Return("unsupported", EmptyResult, FALSE)
    /\ UNCHANGED <<detector, jpegStatics, now, jpegSinceReset, panics>>

\* Lines 101-108 with allocatePrevFrame(), lines 276-298: first frame or new
\* dimensions.  The old buffer is freed; the PSRAM and then the internal
\* heap are tried; allocOk says whether either succeeded.  On success the
\* frame is copied in, on failure prevFrame is null and the dimensions are 0.
AllocatePrevFrame(f, allocOk) ==
    /\ prevFrame' = IF allocOk THEN f ELSE NoFrame
    /\ prevWidth' = IF allocOk THEN FrameWidth(f) ELSE 0
    /\ prevHeight' = IF allocOk THEN FrameHeight(f) ELSE 0

DetectFirstFrame(f, allocOk) ==
    /\ ~CooldownActive
    /\ prevFrame = NoFrame \/ prevWidth # FrameWidth(f) \/ prevHeight # FrameHeight(f)
    /\ AllocatePrevFrame(f, allocOk)
    /\ Return("first", EmptyResult, FALSE)
    /\ UNCHANGED <<config, lastDetectionTime, jpegStatics, now, jpegSinceReset, panics>>

\* Lines 110-187: compare block by block, store the frame as the new
\* baseline, build the result, start the cooldown on an accepted detection.
DetectCompare(f) ==
    LET res == GrayResult(f, CompareBlocks(CompareInput(f)))
    IN  /\ ~CooldownActive
        /\ prevFrame # NoFrame /\ prevWidth = FrameWidth(f) /\ prevHeight = FrameHeight(f)
        /\ ~DividesByZero(f)
        /\ prevFrame' = f
        /\ lastDetectionTime' = StartCooldown(res)
        /\ Return("compare", res, res.detected)
        /\ UNCHANGED <<config, prevWidth, prevHeight, jpegStatics, now,
                       jpegSinceReset, panics>>

\* The integer division by zero raises an exception; the panic handler
\* reboots the device, which starts again from its boot state.
DetectPanic(f) ==
    /\ ~CooldownActive
    /\ prevFrame # NoFrame /\ prevWidth = FrameWidth(f) /\ prevHeight = FrameHeight(f)
    /\ DividesByZero(f)
    /\ config' = DefaultConfig
    /\ prevFrame' = NoFrame /\ prevWidth' = 0 /\ prevHeight' = 0
    /\ lastDetectionTime' = 0
    /\ prevJpegSize' = 0 /\ jpegSizeHistory' = [i \in 0 .. HistLen - 1 |-> 0]
    /\ historyIdx' = 0
    /\ now' = 0
    /\ result' = EmptyResult
    /\ lastStep' = "panic"
    /\ sinceAccept' = Never
    /\ jpegSinceReset' = 0
    /\ panics' = 1
    /\ UNCHANGED acceptParity

Detect ==
    \/ DetectInvalid
    \/ DetectCooldown
    \/ \E f \in JpegFrames : DetectJpeg(f)
    \/ DetectUnsupported
    \/ \E f \in GrayFrames :
          \/ \E ok \in BOOLEAN : DetectFirstFrame(f, ok)
          \/ DetectCompare(f)
          \/ DetectPanic(f)

\* setConfig(), lines 56-58: the configuration is replaced as a whole.
SetConfig(c) ==
    /\ config' = c
    /\ lastStep' = "config"
    /\ UNCHANGED <<prevFrame, prevWidth, prevHeight, lastDetectionTime, jpegStatics,
                   now, sinceAccept, acceptParity, jpegSinceReset, panics>>
    /\ result' = EmptyResult

\* reset(), lines 259-267: frees the buffer and clears the cooldown; the
\* statics of detectFromJpegSize() are left as they are.
Reset ==
    /\ prevFrame' = NoFrame
    /\ prevWidth' = 0
    /\ prevHeight' = 0
    /\ lastDetectionTime' = 0
    /\ lastStep' = "reset"
    /\ sinceAccept' = Never
    /\ jpegSinceReset' = 0
    /\ result' = EmptyResult
    /\ UNCHANGED <<config, jpegStatics, now, acceptParity, panics>>

\* millis() advances by d milliseconds.
Tick(d) ==
    /\ now' = (now + d) % ClockMod
    /\ sinceAccept' = IF sinceAccept = Never THEN Never ELSE Capped(sinceAccept + d)
    /\ lastStep' = "tick"
    /\ result' = EmptyResult
    /\ UNCHANGED <<detector, jpegStatics, acceptParity, jpegSinceReset, panics>>

Next ==
    \/ Detect
    \/ \E c \in Configs : SetConfig(c)
    \/ Reset
    \/ \E d \in TickSizes : Tick(d)

\* The clock never stops; nothing obliges the caller to deliver frames.
Spec == Init /\ [][Next]_vars /\ \A d \in TickSizes : WF_vars(Tick(d))

(***************************************************************************)
(* Properties.                                                             *)
(***************************************************************************)
Steps == {"boot", "invalid", "cooldown", "jpeg", "unsupported", "first",
          "compare", "panic", "config", "reset", "tick"}
JpegLens == {FrameLen(f) : f \in JpegFrames}

TypeOK ==
    /\ config \in Configs \cup {DefaultConfig}
    /\ prevFrame \in GrayFrames \cup {NoFrame}
    /\ prevWidth \in {0} \cup {FrameWidth(f) : f \in GrayFrames}
    /\ prevHeight \in {0} \cup {FrameHeight(f) : f \in GrayFrames}
    /\ lastDetectionTime \in 0 .. ClockMod - 1
    /\ prevJpegSize \in {0} \cup JpegLens
    /\ jpegSizeHistory \in [0 .. HistLen - 1 -> {0} \cup JpegLens]
    /\ historyIdx \in 0 .. HistLen - 1
    /\ now \in 0 .. ClockMod - 1
    /\ result \in Result
    /\ lastStep \in Steps
    /\ sinceAccept \in {Never} \cup 0 .. SinceCap
    /\ acceptParity \in 0 .. 1
    /\ jpegSinceReset \in 0 .. HistLen
    /\ panics \in 0 .. 1

(***************************************************************************)
(* The cooldown (line 80, lines 179-180 and 248-249) implements the        *)
(* CooldownGate promise in real time: on either path, and however often   *)
(* millis() wraps, a detection is accepted only when the last accepted one *)
(* since reset() or a reboot lies at least the current cooldownMs in the   *)
(* past; setConfig() only switches between configured cooldowns; and a     *)
(* closed gate opens again while the clock runs.  The time since the last  *)
(* acceptance is the history variable sinceAccept; acceptParity makes    *)
(* each acceptance a visible step, also two in the same millisecond.      *)
(***************************************************************************)
CG == INSTANCE CooldownGate
        WITH elapsed <- sinceAccept,
             parity <- acceptParity,
             cooldown <- config.cooldownMs,
             Cooldowns <- {c.cooldownMs : c \in Configs \cup {DefaultConfig}},
             DefaultCooldown <- DefaultConfig.cooldownMs,
             Cap <- SinceCap

CooldownRefinement == CG!Spec

(***************************************************************************)
(* Spec 6 and 9: reset() clears the history state, so the warm-up starts  *)
(* again: no JPEG-path detection before the third encoded frame recorded   *)
(* since the last reset().                                                 *)
(***************************************************************************)
JpegWarmupAfterReset ==
    [][lastStep' = "jpeg" /\ result'.detected => jpegSinceReset' >= 3]_vars

(***************************************************************************)
(* Spec 2 and 4.5: calls are suppressed only during the cooldown interval  *)
(* after an accepted detection.  No run checks it: TLC finds it violated  *)
(* by the 0 sentinel after boot or reset (see the README).                 *)
(***************************************************************************)
CooldownOnlyAfterAccept ==
    [][lastStep' = "cooldown" => sinceAccept # Never /\ sinceAccept < config.cooldownMs]_vars

(***************************************************************************)
(* Spec 7: every failure is fail-soft, the engine never aborts the host:  *)
(* no configuration accepted by setConfig() makes detect() panic.          *)
(* No run checks it: TLC finds it violated by blockSize 256 (see the      *)
(* README).                                                                *)
(***************************************************************************)
NoPanic == panics = 0

(***************************************************************************)
(* A cooldown always ends: while the clock runs, a suppressing gate        *)
(* (line 80) eventually opens again.                                       *)
(***************************************************************************)
SuppressionEnds == CooldownActive ~> ~CooldownActive
=============================================================================
