------------------------------ MODULE Blackbox ------------------------------
(***************************************************************************)
(* The blackbox logger of src/main/blackbox on its flash volume:           *)
(* blackboxUpdate() and blackboxFlush(), called one after the other in     *)
(* every gyro cycle, the background erase of the main task, the commands   *)
(* of MSP that read and erase the volume, the chip's interrupt, and a      *)
(* power loss at any moment.                                               *)
(*                                                                         *)
(* The header states up to SEND_SLOW_HEADER send lines and differ only in  *)
(* which: they are one state, SEND_HEADER.  What the logger writes is a    *)
(* number of bytes.  The device is FLASH, so the logger is never DISABLED. *)
(***************************************************************************)
EXTENDS Flashfs

CONSTANTS
    MaxWrite,       \* bytes one update may write
    GracePeriod,    \* updates a log goes on after the disarm
    ShutdownTimeout,\* updates a shutdown waits for the ring to drain
    MspReads,       \* MSP_DATAFLASH_READ is used while logging
    PromptDma,      \* no shutdown times out with a transfer in flight
    CrashInErase    \* the power may be lost during a complete erase

ASSUME BlackboxAssumption ==
    /\ {MaxWrite, GracePeriod, ShutdownTimeout} \subseteq Nat
    /\ {MspReads, PromptDma, CrashInErase} \subseteq BOOLEAN

BlackboxState == {"STOPPED", "WAIT_FOR_READY", "INITIAL_ERASE", "PREPARE_LOG_FILE",
                  "SEND_HEADER", "SEND_SYSINFO", "CACHE_FLUSH", "PAUSED", "RUNNING",
                  "FULL", "GRACE_PERIOD", "SHUTTING_DOWN", "START_ERASE", "ERASING", "ERASED"}

VARIABLES
    bbState,            \* blackboxState
    cacheFlushNext,     \* cacheFlushNextState, a static of blackboxUpdate()
    timer               \* updates left of the grace period or of the shutdown

blackboxVars == <<settings, bbState, cacheFlushNext, timer>>
vars == <<flashfsVars, blackboxVars>>

Mode   == settings.mode     \* blackbox_mode
Erases == settings.erases   \* the volume is erased, by the switch and by MSP

-----------------------------------------------------------------------------
(* blackboxUpdate(), in the order it does things. *)

\* blackboxCheckEnabler(): the state a log that is no longer enabled goes to.
CheckEnabler(enabled) ==
    IF enabled \/ bbState \in {"STOPPED", "SHUTTING_DOWN", "START_ERASE", "ERASING"} THEN bbState
    ELSE IF bbState = "RUNNING" /\ Mode = "SWITCH" THEN "PAUSED"
    ELSE IF bbState = "RUNNING" /\ GracePeriod > 0 THEN "GRACE_PERIOD"
    ELSE IF bbState = "GRACE_PERIOD" /\ timer > 0 THEN "GRACE_PERIOD"
    ELSE "SHUTTING_DOWN"

\* The erase switch, in every state between DISABLED and START_ERASE.
EraseSwitch(eraseBox, s) ==
    IF eraseBox /\ s \notin {"START_ERASE", "ERASING", "ERASED"} THEN "START_ERASE" ELSE s

\* Timers count down in updates; entering their state sets them.
TimerIn(s) ==
    IF s = bbState THEN (IF timer > 0 THEN timer - 1 ELSE 0)
    ELSE IF s = "GRACE_PERIOD" THEN GracePeriod
    ELSE IF s = "SHUTTING_DOWN" THEN ShutdownTimeout ELSE 0

\* The volume is left alone, and the logger writes n bytes.
Writes(n) ==
    /\ buffered' = AfterWrite(n)
    /\ UNCHANGED <<state, headAddress, tailAddress, dataWritten, sectorsLeft, chipVars>>

NoWrite == UNCHANGED <<fsVars, chipVars>>

\* The ring takes n bytes and is flushed.
WritesAndFlushes(n) ==
    /\ buffered' = AfterWrite(n)
    /\ FlushBuffers(AfterWrite(n))
    /\ UNCHANGED <<headAddress, tailAddress, sectorsLeft, programmed, busy, erasing>>

StartLog(s, enabled) ==
    /\ s = "STOPPED"
    /\ bbState' = IF enabled THEN "WAIT_FOR_READY" ELSE s
    /\ NoWrite

PrepareVolume(s) ==
    \/ /\ s = "WAIT_FOR_READY"
       /\ IF flashfsIsReady
          THEN flashfsLoopInitialErase /\ bbState' = "INITIAL_ERASE"
          ELSE bbState' = s /\ NoWrite
    \/ /\ s = "INITIAL_ERASE"
       /\ bbState' = IF flashfsIsReady THEN "PREPARE_LOG_FILE" ELSE s
       /\ NoWrite
    \/ s = "PREPARE_LOG_FILE" /\ bbState' = "SEND_HEADER" /\ NoWrite

\* Header lines go out as the ring has room for them; a line that does not fit
\* flushes the ring instead.  The last one is followed by a cache flush.
SendHeader(s, n, last) ==
    /\ s \in {"SEND_HEADER", "SEND_SYSINFO"}
    /\ IF n <= BufferSize - 1 - buffered
       THEN Writes(n) /\ bbState' = IF last THEN "CACHE_FLUSH" ELSE s
       ELSE WritesAndFlushes(0) /\ bbState' = s

\* A full device stops a running log.
FullOr(s) == IF s = "RUNNING" /\ flashfsIsEOF /\ ~Rolling THEN "FULL" ELSE s

CacheFlush(s) ==
    /\ s = "CACHE_FLUSH"
    /\ WritesAndFlushes(0)
    /\ bbState' = IF buffered = 0 THEN FullOr(cacheFlushNext) ELSE s

\* A paused log resumes on an I-frame; `held' is that it may not yet, or that
\* the switch pauses it, which only mode NORMAL does.
LogIteration(s, enabled, held, n) ==
    LET on == IF s = "GRACE_PERIOD" /\ ~enabled THEN s ELSE "RUNNING" IN
    /\ s \in {"RUNNING", "PAUSED", "GRACE_PERIOD"}
    /\ held => n = 0 /\ (s = "PAUSED" \/ Mode = "NORMAL")
    /\ Writes(n)
    /\ bbState' = IF held THEN "PAUSED" ELSE FullOr(on)

Full(s) == s = "FULL" /\ bbState' = s /\ NoWrite

\* The event that ends a log is written as its shutdown begins.
EndsLog(s, n) == n > 0 => bbState \in {"RUNNING", "GRACE_PERIOD", "PAUSED"}

\* Mutant: the shutdown does not wait for the ring to drain.
ShutDown_atOnce(s, n) ==
    /\ s = "SHUTTING_DOWN" /\ EndsLog(s, n)
    /\ flashfsClose /\ bbState' = "STOPPED"

\* The device is closed on the timeout, or once the flush finds the ring empty.
ShutDown(s, n) ==
    LET timedOut == bbState = s /\ timer = 0 IN
    /\ s = "SHUTTING_DOWN" /\ EndsLog(s, n)
    /\ timedOut /\ PromptDma => inflight = 0
    /\ IF timedOut \/ AfterWrite(n) = 0
       THEN flashfsClose /\ bbState' = "STOPPED"
       ELSE WritesAndFlushes(n) /\ bbState' = s

StartErasing(s, n) ==
    /\ s = "START_ERASE" /\ EndsLog(s, n)
    /\ IF flashfsIsReady
       THEN flashfsEraseCompletely /\ bbState' = "ERASING"
       ELSE Writes(n) /\ bbState' = s

Erasing(s, eraseBox) ==
    \/ /\ s = "ERASING"
       /\ bbState' = IF flashfsIsReady THEN "ERASED" ELSE s
       /\ NoWrite
    \/ /\ s = "ERASED"
       /\ IF eraseBox THEN bbState' = s /\ NoWrite
          ELSE flashfsClose /\ bbState' = "STOPPED"

blackboxUpdate(enabled, held, eraseBox, n, last) ==
    LET s == EraseSwitch(eraseBox, CheckEnabler(enabled)) IN
    /\ sync = "NO" /\ (eraseBox => Erases)
    /\ \/ StartLog(s, enabled) \/ PrepareVolume(s)
       \/ SendHeader(s, n, last) \/ CacheFlush(s)
       \/ LogIteration(s, enabled, held, n) \/ Full(s)
       \/ ShutDown(s, n) \/ StartErasing(s, n) \/ Erasing(s, eraseBox)
    /\ cacheFlushNext' = IF s = "SEND_HEADER" /\ bbState' = "CACHE_FLUSH" THEN "SEND_SYSINFO"
                         ELSE IF s = "SEND_SYSINFO" /\ bbState' = "CACHE_FLUSH" THEN "RUNNING"
                         ELSE cacheFlushNext
    /\ timer' = TimerIn(bbState')
    /\ UNCHANGED <<syncVars, settings>>

-----------------------------------------------------------------------------
(* The other tasks, the chip and the power. *)

blackboxFlush == sync = "NO" /\ flashfsFlushAsync /\ UNCHANGED blackboxVars

taskMain == sync = "NO" /\ flashfsEraseAsync /\ UNCHANGED blackboxVars

\* MSP_DATAFLASH_READ: flashfsReadAbs() begins with a blocking flush.
mspDataflashRead == MspReads /\ flashfsFlushSync /\ UNCHANGED blackboxVars

flushSync == FlushSyncStep /\ UNCHANGED blackboxVars

\* MSP_DATAFLASH_ERASE: blackboxErase(), in whatever state the logger is.
mspDataflashErase ==
    /\ Erases /\ sync = "NO" /\ bbState' = "START_ERASE" /\ timer' = 0
    /\ UNCHANGED <<flashfsVars, cacheFlushNext, settings>>

chip == Chip /\ UNCHANGED blackboxVars

\* The whole volume is being erased.
EraseRuns == state = "ALL_ERASING" \/ erasing = Sector

\* The power is lost, or the processor reset, and the board boots again.
reboot ==
    /\ EraseRuns => CrashInErase
    /\ flashfsInit
    /\ bbState' = "STOPPED" /\ cacheFlushNext' = "STOPPED" /\ timer' = 0
    /\ UNCHANGED settings

Init ==
    /\ Blank
    /\ bbState = "STOPPED" /\ cacheFlushNext = "STOPPED" /\ timer = 0

Update == \E enabled, held, eraseBox, last \in BOOLEAN, n \in 0 .. MaxWrite :
             blackboxUpdate(enabled, held, eraseBox, n, last)

Next ==
    \/ Update \/ blackboxFlush \/ taskMain
    \/ mspDataflashRead \/ flushSync \/ mspDataflashErase
    \/ chip \/ reboot

Spec == Init /\ [][Next]_vars

\* Every task of the scheduler gets its turn between the blocking flushes of
\* another, and what the chip has begun ends.  What the switches read is nobody's
\* promise: an update is fair only where it does not depend on them.
Fairness ==
    /\ SF_vars(blackboxFlush) /\ SF_vars(taskMain)
    /\ SF_vars(bbState = "START_ERASE" /\ Update)
    /\ WF_vars(flushSync) /\ WF_vars(chip)

FairSpec == Spec /\ Fairness

-----------------------------------------------------------------------------
TypeOK ==
    /\ settings \in Settings
    /\ state \in State /\ bbState \in BlackboxState
    /\ headAddress \in Address /\ headAddress % SectorSize = 0 /\ tailAddress \in Address
    /\ buffered \in 0 .. BufferSize - 1 /\ dataWritten \in BOOLEAN
    /\ sectorsLeft \in Nat
    /\ sync \in {"NO", "READY", "IDLE", "DRAIN"} /\ syncBytes \in 0 .. BufferSize - 1
    /\ programmed \subseteq Page /\ inflight \in 0 .. PageSize /\ writeAt \in Address
    /\ busy \in {"NO", "PROGRAM", "ERASE"} /\ erasing \subseteq Sector
    /\ suspend \in {"NO", "REQUESTED", "SUSPENDED"}
    /\ cacheFlushNext \in {"STOPPED", "SEND_SYSINFO", "RUNNING"}
    /\ timer \in 0 .. (IF GracePeriod > ShutdownTimeout THEN GracePeriod ELSE ShutdownTimeout)

-----------------------------------------------------------------------------
(* Safety. *)

RollingErase == state \in {"ROLLING_ERASING", "ROLLING_ERASE_SUSPENDING", "ROLLING_ERASE_SUSPENDED"}

\* A page program never lands on a page that holds data, nor in a sector being
\* erased: it begins an erased page or goes on with the page it began, whatever
\* the erases in the background, closed logs and power losses before it.
NoOverwrite ==
    inflight > 0 => /\ writeAt % PageSize = 0 <=> PageOf(writeAt) \notin programmed
                    /\ SectorOf(writeAt) \notin erasing

\* At rest, a boot would find the log where it is: the head at its sector and
\* the tail at the next page, though neither is stored anywhere.
BootFindsLog ==
    state = "IDLE" /\ flashIsReady /\ programmed # {} =>
      /\ StartOfUsedSpace(programmed) = headAddress
      /\ StartOfFreeSpace(programmed, headAddress)
            = flashfsAddressShift(tailAddress, (-tailAddress) % PageSize)

\* A rolling erase takes the oldest sector only when there is no room left for
\* another one: no log is thrown away early.
RollingEraseIsLast ==
    RollingErase => Size - Persisted < SectorSize + BufferSize

\* The callback frees what its transfer took from the ring, and no more.
InFlightIsBuffered == inflight <= buffered

\* Whoever reads the chip back finds one run of pages, grown at its end and
\* shortened by sectors at its beginning, whatever the ring, the transfers, the
\* erases in the background and the power losses between (flashfs.c as a whole).
Volume == INSTANCE LogVolume WITH
    Pages <- Sectors * PagesPerSector, SectorPages <- PagesPerSector,
    used <- programmed, clearing <- EraseRuns

ImplementsVolume == Volume!Spec

-----------------------------------------------------------------------------
(* Liveness. *)

\* With rolling erase the ring never stays full: the log goes on for ever.
RingDrains == []<>(buffered < BufferSize - 1)

\* A volume that is asked to be erased is, whatever it was doing.
EraseBegins == bbState = "START_ERASE" ~> bbState # "START_ERASE"

\* A blocking flush returns.
SyncReturns == sync # "NO" ~> sync = "NO"
=============================================================================
