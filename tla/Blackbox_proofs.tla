--------------------------- MODULE Blackbox_proofs ---------------------------
(***************************************************************************)
(* The logger on its volume, for every geometry, ring and setting: the     *)
(* accounting of the write ring, the types, and the volume itself, which   *)
(* implements LogVolume: no page is written over, the log is found again   *)
(* at every boot and a rolling erase is the last resort.                   *)
(*                                                                         *)
(* The invariant says of the pages of the chip what the two addresses and  *)
(* what is being written and erased make of them; every step is shown to   *)
(* keep it, and the theorems are read off it.                              *)
(***************************************************************************)
EXTENDS Blackbox, Flashfs_proofs

\* The flush may start a transfer exactly when none is in flight,
OneTransfer == dataWritten \in BOOLEAN /\ (dataWritten = TRUE <=> inflight = 0)

\* the ring is within its bounds,
RingTyped == /\ buffered \in Nat /\ buffered <= BufferSize - 1
             /\ inflight \in Nat /\ tailAddress \in Int

\* and empty while the volume is erased: ERASED closes it without a flush.
EmptyWhileErasing == bbState \in {"ERASING", "ERASED"} => buffered = 0

RingInv ==
    /\ RingTyped /\ OneTransfer /\ InFlightIsBuffered /\ EmptyWhileErasing
    /\ sync = "NO"

\* What follows a cache flush is a state of the header or of the running log.
HeaderNext == cacheFlushNext \in {"STOPPED", "SEND_SYSINFO", "RUNNING"}

-----------------------------------------------------------------------------
\* A write of the logger only adds to the ring, and never fills its last slot.
LEMMA AfterWriteBounds ==
    ASSUME RingTyped, NEW n \in Nat
    PROVE  AfterWrite(n) \in Nat /\ buffered <= AfterWrite(n) /\ AfterWrite(n) <= BufferSize - 1
BY GeometryNat DEF RingTyped, AfterWrite, Least

\* A flush takes for its transfer only what the ring holds.
LEMMA FlushTakesFromRing ==
    ASSUME RingTyped, OneTransfer, NEW used \in Nat, inflight <= used, FlushBuffers(used)
    PROVE  /\ inflight' \in Nat /\ inflight' <= used
           /\ dataWritten' \in BOOLEAN /\ (dataWritten' = TRUE <=> inflight' = 0)
<1>1. CASE UNCHANGED <<dataWritten, inflight>>
  BY <1>1 DEF RingTyped, OneTransfer
<1>2. CASE ~UNCHANGED <<dataWritten, inflight>>
  <2>1. used > 0 /\ flashfsWriteBuffers(used, used)
    BY <1>2 DEF FlushBuffers
  <2>2. inflight' = Least(used, PageSize - (tailAddress % PageSize)) /\ dataWritten' = FALSE
    BY <1>2, <2>1 DEF flashfsWriteBuffers
  <2> DEFINE room == PageSize - (tailAddress % PageSize)
  <2>3. room \in Nat /\ room > 0
    BY GeometryNat DEF RingTyped
  <2>4. inflight' = used \/ (inflight' = room /\ ~(used < room))
    BY <2>2 DEF Least
  <2> HIDE DEF room
  <2>5. inflight' \in Nat /\ inflight' <= used /\ inflight' # 0
    BY <2>1, <2>3, <2>4
  <2> QED BY <2>2, <2>5
<1> QED BY <1>1, <1>2

\* The steps that leave the ring, the transfer and the tail alone.
LEMMA RingUntouched ==
    ASSUME RingInv,
           UNCHANGED <<buffered, inflight, dataWritten, tailAddress, sync>>,
           bbState' \in {"ERASING", "ERASED"} => bbState \in {"ERASING", "ERASED"}
    PROVE  RingInv'
BY DEF RingInv, RingTyped, OneTransfer, InFlightIsBuffered, EmptyWhileErasing

\* The steps that write n bytes, and flush them or not.
LEMMA WriteKeepsRing ==
    ASSUME RingInv, NEW n \in Nat, Writes(n) \/ WritesAndFlushes(n), sync' = "NO",
           bbState' \notin {"ERASING", "ERASED"}
    PROVE  RingInv'
<1>1. RingTyped /\ OneTransfer /\ inflight <= buffered
  BY DEF RingInv, InFlightIsBuffered
<1>2. /\ buffered' = AfterWrite(n) /\ tailAddress' = tailAddress
      /\ UNCHANGED <<inflight, dataWritten>> \/ FlushBuffers(AfterWrite(n))
  BY DEF Writes, WritesAndFlushes, chipVars
<1>3. AfterWrite(n) \in Nat /\ inflight <= AfterWrite(n) /\ AfterWrite(n) <= BufferSize - 1
  BY <1>1, AfterWriteBounds, GeometryNat DEF RingTyped
<1>4. /\ inflight' \in Nat /\ inflight' <= AfterWrite(n)
      /\ dataWritten' \in BOOLEAN /\ (dataWritten' = TRUE <=> inflight' = 0)
  BY <1>1, <1>2, <1>3, FlushTakesFromRing DEF RingTyped, OneTransfer
<1> QED
  BY <1>1, <1>2, <1>3, <1>4
     DEF RingInv, RingTyped, OneTransfer, InFlightIsBuffered, EmptyWhileErasing

\* The device is closed, or erased, only with no transfer in flight.
LEMMA CloseKeepsRing ==
    ASSUME RingInv, inflight = 0, flashfsClose \/ flashfsEraseCompletely, sync' = "NO"
    PROVE  RingInv'
<1>1. buffered' = 0 /\ inflight' = inflight /\ dataWritten' = dataWritten
  BY DEF flashfsClose, flashfsEraseCompletely, StartErase, chipVars
<1>2. tailAddress' \in Int
  <2>1. CASE flashfsClose
    <3>1. (-tailAddress) % PageSize \in Int
      BY GeometryNat DEF RingInv, RingTyped
    <3>2. (tailAddress + ((-tailAddress) % PageSize)) % Size \in Int
      BY <3>1, GeometryNat DEF RingInv, RingTyped
    <3> QED BY <2>1, <3>2 DEF flashfsClose, flashfsAddressShift
  <2>2. CASE flashfsEraseCompletely
    BY <2>2 DEF flashfsEraseCompletely
  <2> QED BY <2>1, <2>2
<1> QED
  BY <1>1, <1>2, GeometryNat
     DEF RingInv, RingTyped, OneTransfer, InFlightIsBuffered, EmptyWhileErasing

-----------------------------------------------------------------------------
\* What the switch statement of blackboxUpdate() sees is ERASING or ERASED only if
\* that was the state before.
LEMMA ErasingWasErasing ==
    ASSUME NEW enabled, NEW eraseBox
    PROVE  LET s == EraseSwitch(eraseBox, CheckEnabler(enabled))
           IN  s \in {"ERASING", "ERASED"} => s = bbState
BY DEF EraseSwitch, CheckEnabler

\* blackboxUpdate(), one step for each group of its states.
LEMMA UpdateKeepsRing ==
    ASSUME PromptDma, RingInv, HeaderNext, NEW enabled, NEW held, NEW eraseBox, NEW last, NEW n \in Nat,
           blackboxUpdate(enabled, held, eraseBox, n, last)
    PROVE  RingInv'
<1> DEFINE s == EraseSwitch(eraseBox, CheckEnabler(enabled))
<1>1. /\ \/ StartLog(s, enabled) \/ PrepareVolume(s)
         \/ SendHeader(s, n, last) \/ CacheFlush(s)
         \/ LogIteration(s, enabled, held, n) \/ Full(s)
         \/ ShutDown(s, n) \/ StartErasing(s, n) \/ Erasing(s, eraseBox)
      /\ sync' = "NO" /\ sync' = sync
  BY DEF blackboxUpdate, syncVars
<1>2. s \in {"ERASING", "ERASED"} => s = bbState
  BY ErasingWasErasing
<1> HIDE DEF s
<1>3. CASE StartLog(s, enabled) \/ PrepareVolume(s) \/ Full(s)
  <2>1. UNCHANGED <<buffered, inflight, dataWritten, tailAddress>>
    BY <1>3 DEF StartLog, PrepareVolume, Full, NoWrite, fsVars, chipVars, flashfsLoopInitialErase
  <2>2. bbState' \notin {"ERASING", "ERASED"}
    BY <1>3 DEF StartLog, PrepareVolume, Full
  <2> QED BY <1>1, <2>1, <2>2, RingUntouched
<1>4. CASE SendHeader(s, n, last) \/ CacheFlush(s) \/ LogIteration(s, enabled, held, n)
  <2>1. \E m \in Nat : Writes(m) \/ WritesAndFlushes(m)
    BY <1>4 DEF SendHeader, CacheFlush, LogIteration
  <2>2. CASE bbState' \notin {"ERASING", "ERASED"}
    BY <1>1, <2>1, <2>2, WriteKeepsRing
  <2>3. CASE bbState' \in {"ERASING", "ERASED"}
    BY <1>4, <2>3 DEF SendHeader, CacheFlush, LogIteration, FullOr, HeaderNext, RingInv,
         EmptyWhileErasing
  <2> QED BY <2>2, <2>3
<1>5. CASE ShutDown(s, n)
  <2>1. CASE flashfsClose /\ ((bbState = s /\ timer = 0) \/ AfterWrite(n) = 0)
    <3>1. inflight = 0
      BY <1>5, <2>1, AfterWriteBounds DEF ShutDown, RingInv, RingTyped, InFlightIsBuffered
    <3> QED BY <1>1, <2>1, <3>1, CloseKeepsRing
  <2>2. CASE WritesAndFlushes(n) /\ bbState' = s
    BY <1>1, <1>5, <2>2, WriteKeepsRing DEF ShutDown
  <2> QED BY <1>5, <2>1, <2>2 DEF ShutDown
<1>6. CASE StartErasing(s, n)
  <2>1. CASE flashfsIsReady /\ flashfsEraseCompletely
    BY <1>1, <2>1, CloseKeepsRing DEF flashfsIsReady, flashIsReady
  <2>2. CASE Writes(n) /\ bbState' = s
    BY <1>1, <1>6, <2>2, WriteKeepsRing DEF StartErasing
  <2> QED BY <1>6, <2>1, <2>2 DEF StartErasing
<1>7. CASE Erasing(s, eraseBox)
  <2>1. bbState \in {"ERASING", "ERASED"}
    BY <1>2, <1>7 DEF Erasing
  <2>2. CASE NoWrite
    BY <1>1, <2>1, <2>2, RingUntouched DEF NoWrite, fsVars, chipVars
  <2>3. CASE flashfsClose
    <3>1. inflight = 0
      BY <2>1 DEF RingInv, RingTyped, InFlightIsBuffered, EmptyWhileErasing
    <3> QED BY <1>1, <2>3, <3>1, CloseKeepsRing
  <2> QED BY <1>7, <2>2, <2>3 DEF Erasing
<1> QED BY <1>1, <1>3, <1>4, <1>5, <1>6, <1>7
-----------------------------------------------------------------------------
\* What the state after a cache flush is set to.
LEMMA HeaderNextKept == HeaderNext /\ [Next]_vars => HeaderNext'
<1> SUFFICES ASSUME HeaderNext, [Next]_vars PROVE HeaderNext'
  OBVIOUS
<1>1. CASE UNCHANGED cacheFlushNext
  BY <1>1 DEF HeaderNext
<1>2. CASE Update
  BY <1>2 DEF Update, blackboxUpdate, HeaderNext
<1>3. CASE reboot
  BY <1>3 DEF reboot, HeaderNext
<1> QED
  BY <1>1, <1>2, <1>3 DEF Next, vars, blackboxVars, blackboxFlush, taskMain, mspDataflashRead,
     flushSync, mspDataflashErase, chip

\* The chip: its callback takes the transfer off the ring, the rest leaves it alone.
LEMMA ChipKeepsRing ==
    ASSUME RingInv, Chip, UNCHANGED bbState
    PROVE  RingInv'
<1>1. CASE flashfsWriteCallback
  <2>1. inflight > 0 /\ inflight <= buffered /\ buffered < BufferSize
    BY <1>1, GeometryNat DEF flashfsWriteCallback, RingInv, RingTyped, InFlightIsBuffered
  <2>2. (buffered - inflight) % BufferSize = buffered - inflight
    BY <2>1, GeometryNat DEF RingInv, RingTyped
  <2>3. (tailAddress + inflight) % Size \in Int
    BY GeometryNat DEF RingInv, RingTyped
  <2>4. /\ buffered' = buffered - inflight /\ inflight' = 0 /\ dataWritten' = TRUE
        /\ tailAddress' \in Int /\ sync' = sync
    BY <1>1, <2>2, <2>3 DEF flashfsWriteCallback, flashfsAddressShift, syncVars
  <2>5. bbState \notin {"ERASING", "ERASED"}
    BY <2>1 DEF RingInv, RingTyped, EmptyWhileErasing
  <2> QED
    BY <2>1, <2>4, <2>5, GeometryNat
       DEF RingInv, RingTyped, OneTransfer, InFlightIsBuffered, EmptyWhileErasing
<1>2. CASE ProgramDone \/ EraseDone \/ EraseSuspends
  BY <1>2, RingUntouched DEF ProgramDone, EraseDone, EraseSuspends, fsVars, syncVars
<1> QED BY <1>1, <1>2 DEF Chip

\* blackboxFlush() may start a transfer of what is in the ring.
LEMMA FlushKeepsRing ==
    ASSUME RingInv, blackboxFlush
    PROVE  RingInv'
<1>1. /\ FlushBuffers(buffered) /\ UNCHANGED <<buffered, tailAddress, sync, bbState>>
  BY DEF blackboxFlush, flashfsFlushAsync, syncVars, blackboxVars
<1>2. /\ inflight' \in Nat /\ inflight' <= buffered
      /\ dataWritten' \in BOOLEAN /\ (dataWritten' = TRUE <=> inflight' = 0)
  BY <1>1, FlushTakesFromRing DEF RingInv, RingTyped, InFlightIsBuffered
<1> QED
  BY <1>1, <1>2 DEF RingInv, RingTyped, OneTransfer, InFlightIsBuffered, EmptyWhileErasing

\* An erase in the background neither writes nor frees.
LEMMA EraseKeepsRing ==
    ASSUME RingInv, taskMain
    PROVE  RingInv'
<1>1. UNCHANGED <<buffered, dataWritten, tailAddress, sync, bbState>>
  BY DEF taskMain, flashfsEraseAsync, syncVars, blackboxVars
<1>2. UNCHANGED inflight
  BY DEF taskMain, flashfsEraseAsync, eraseAll, eraseInitial, eraseRolling, eraseSuspending,
         eraseResume, StartErase, chipVars
<1> QED BY <1>1, <1>2, RingUntouched

\* The board boots with an empty ring and no transfer.
LEMMA BootEstablishesRing ==
    ASSUME reboot
    PROVE  RingInv'
<1>1. tailAddress' \in Int
  BY GeometryNat DEF reboot, flashfsInit, Address
<1> QED
  BY <1>1, GeometryNat DEF reboot, flashfsInit, RingInv, RingTyped, OneTransfer,
     InFlightIsBuffered, EmptyWhileErasing

\* Every step keeps the accounting of the ring.
LEMMA RingKept ==
    ASSUME PromptDma, ~MspReads, RingInv, HeaderNext, [Next]_vars
    PROVE  RingInv'
<1>1. CASE Update
  BY <1>1, UpdateKeepsRing, BlackboxAssumption DEF Update, BlackboxAssumption
<1>2. CASE blackboxFlush
  BY <1>2, FlushKeepsRing
<1>3. CASE taskMain
  BY <1>3, EraseKeepsRing
<1>4. CASE mspDataflashRead \/ flushSync
  BY <1>4 DEF mspDataflashRead, flushSync, FlushSyncStep, syncWait, syncErase, syncWrite,
     syncDone, RingInv
<1>5. CASE mspDataflashErase
  BY <1>5, RingUntouched DEF mspDataflashErase, flashfsVars, fsVars, syncVars, chipVars
<1>6. CASE chip
  BY <1>6, ChipKeepsRing DEF chip, blackboxVars
<1>7. CASE reboot
  BY <1>7, BootEstablishesRing
<1>8. CASE UNCHANGED vars
  BY <1>8, RingUntouched DEF vars, blackboxVars, flashfsVars, fsVars, syncVars, chipVars
<1> QED BY <1>1, <1>2, <1>3, <1>4, <1>5, <1>6, <1>7, <1>8 DEF Next

\* The ring of a blank volume is empty.
LEMMA RingBegins ==
    ASSUME Init
    PROVE  RingInv /\ HeaderNext
BY GeometryNat DEF Init, Blank, RingInv, RingTyped, OneTransfer, InFlightIsBuffered,
   EmptyWhileErasing, HeaderNext

-----------------------------------------------------------------------------
\* flashfsWriteCallback() frees what its transfer took and no more: at every moment
\* the bytes in flight are bytes still in the ring.
THEOREM InFlightTheorem ==
    ASSUME PromptDma, ~MspReads
    PROVE  Spec => []InFlightIsBuffered
<1>1. Init => RingInv /\ HeaderNext
  BY RingBegins
<1>2. (RingInv /\ HeaderNext) /\ [Next]_vars => (RingInv /\ HeaderNext)'
  BY RingKept, HeaderNextKept
<1>3. RingInv => InFlightIsBuffered
  BY DEF RingInv
<1> QED BY <1>1, <1>2, <1>3, PTL DEF Spec

-----------------------------------------------------------------------------
(* Types.  The volume is circular: what is to be shown of an address is that *)
(* it stays one, and of the head that it stays at the beginning of a sector. *)

HeadTyped == SectorBegin(headAddress)

-----------------------------------------------------------------------------
(* TypeOK in the parts that the steps change together. *)

VolumeTyped ==
    /\ settings \in Settings /\ state \in State
    /\ HeadTyped /\ tailAddress \in Address
    /\ buffered \in 0 .. BufferSize - 1 /\ dataWritten \in BOOLEAN
    /\ sync \in {"NO", "READY", "IDLE", "DRAIN"} /\ syncBytes \in 0 .. BufferSize - 1

\* A complete erase begins with as many sectors as there are.
SectorsTyped == sectorsLeft \in Nat /\ (state = "ALL_ERASING" => sectorsLeft <= Sectors)

ChipTyped ==
    /\ programmed \subseteq Page /\ inflight \in 0 .. PageSize /\ writeAt \in Address
    /\ busy \in {"NO", "PROGRAM", "ERASE"} /\ erasing \subseteq Sector
    /\ suspend \in {"NO", "REQUESTED", "SUSPENDED"}

LoggerTyped ==
    /\ bbState \in BlackboxState /\ cacheFlushNext \in {"STOPPED", "SEND_SYSINFO", "RUNNING"}
    /\ timer \in 0 .. (IF GracePeriod > ShutdownTimeout THEN GracePeriod ELSE ShutdownTimeout)

TypeInv == VolumeTyped /\ SectorsTyped /\ ChipTyped /\ LoggerTyped

\* What the parts of a write, of an erase and of the logger are to show.
FlashTyped == VolumeTyped /\ SectorsTyped /\ ChipTyped

\* A transfer that is begun is of a page's rest at most, at the tail.
LEMMA WriteBuffersTyped ==
    ASSUME FlashTyped, NEW ring \in Nat, NEW bytes \in Nat, flashfsWriteBuffers(ring, bytes)
    PROVE  /\ state' \in State /\ (state' = "ALL_ERASING" => state = "ALL_ERASING")
           /\ dataWritten' \in BOOLEAN /\ inflight' \in 0 .. PageSize /\ writeAt' \in Address
<1>1. PageSize \in Nat /\ PageSize > 0 /\ tailAddress \in Int /\ inflight \in 0 .. PageSize
      /\ writeAt \in Address /\ tailAddress \in Address /\ dataWritten \in BOOLEAN
  BY GeometryNat DEF FlashTyped, VolumeTyped, ChipTyped, Address
<1>2. state' \in State /\ (state' = "ALL_ERASING" => state = "ALL_ERASING")
  BY DEF flashfsWriteBuffers, FlashTyped, VolumeTyped, State
<1>3. Least(bytes, PageSize - (tailAddress % PageSize)) \in 0 .. PageSize
  <2>1. tailAddress % PageSize \in 0 .. PageSize - 1
    BY <1>1
  <2> QED BY <1>1, <2>1 DEF Least
<1> QED BY <1>1, <1>2, <1>3 DEF flashfsWriteBuffers

\* A flush, with the ring and the volume around it.
LEMMA FlushTyped ==
    ASSUME FlashTyped, NEW used \in 0 .. BufferSize - 1, FlushBuffers(used), buffered' = used,
           UNCHANGED <<headAddress, tailAddress, sectorsLeft, programmed, busy, erasing,
                       syncVars, settings>>
    PROVE  FlashTyped'
<1>1. used \in Nat
  BY GeometryNat
<1>2. /\ state' \in State /\ (state' = "ALL_ERASING" => state = "ALL_ERASING")
      /\ dataWritten' \in BOOLEAN /\ inflight' \in 0 .. PageSize /\ writeAt' \in Address
      /\ suspend' \in {"NO", "REQUESTED", "SUSPENDED"}
  <2>1. CASE flashfsWriteBuffers(used, used) /\ UNCHANGED suspend
    BY <1>1, <2>1, WriteBuffersTyped DEF FlashTyped, ChipTyped
  <2>2. CASE /\ state' = "ROLLING_ERASE_SUSPENDING"
             /\ suspend' = IF busy = "ERASE" THEN "REQUESTED" ELSE suspend
             /\ UNCHANGED <<dataWritten, inflight, writeAt>>
    BY <2>2 DEF FlashTyped, VolumeTyped, ChipTyped, State
  <2>3. CASE UNCHANGED <<state, dataWritten, inflight, writeAt, suspend>>
    BY <2>3 DEF FlashTyped, VolumeTyped, ChipTyped
  <2> QED BY <2>1, <2>2, <2>3 DEF FlushBuffers
<1> QED
  BY <1>2 DEF FlashTyped, VolumeTyped, SectorsTyped, ChipTyped, HeadTyped, SectorBegin, syncVars

\* The constants of a setting.
LEMMA SettingsTyped ==
    ASSUME settings \in Settings
    PROVE  InitialFree \in Nat /\ FullErase \in BOOLEAN /\ Rolling \in BOOLEAN
BY FlashfsAssumption DEF InitialFree, FullErase, Rolling

\* A command to erase sectors of the volume.
LEMMA StartEraseTyped ==
    ASSUME ChipTyped, NEW sectors \in SUBSET Sector, StartErase(sectors)
    PROVE  ChipTyped'
BY DEF StartErase, ChipTyped, chipVars

\* A step of an erase in the background.
LEMMA EraseTyped ==
    ASSUME FlashTyped, flashfsEraseAsync, UNCHANGED settings
    PROVE  FlashTyped'
<1>1. UNCHANGED <<tailAddress, buffered, dataWritten, sync, syncBytes, settings>>
  BY DEF flashfsEraseAsync, syncVars
<1>2. /\ state' \in State /\ HeadTyped' /\ ChipTyped'
      /\ SectorsTyped'
  <2>1. CASE eraseAll
    <3>1. CASE sectorsLeft > 0
      <4>1. /\ StartErase({Sectors - sectorsLeft}) /\ sectorsLeft' = sectorsLeft - 1
            /\ UNCHANGED <<state, headAddress>> /\ state = "ALL_ERASING"
        BY <2>1, <3>1 DEF eraseAll
      <4>2. sectorsLeft \in Nat /\ sectorsLeft <= Sectors /\ Sectors \in Nat
        BY <4>1, FlashfsAssumption DEF FlashTyped, SectorsTyped
      <4>3. {Sectors - sectorsLeft} \in SUBSET Sector
        BY <3>1, <4>2 DEF Sector
      <4>4. ChipTyped'
        BY <4>1, <4>3, StartEraseTyped DEF FlashTyped
      <4> QED BY <3>1, <4>1, <4>2, <4>4 DEF FlashTyped, VolumeTyped, HeadTyped, SectorBegin, SectorsTyped
    <3>2. CASE ~(sectorsLeft > 0)
      BY <2>1, <3>2 DEF eraseAll, FlashTyped, VolumeTyped, ChipTyped, HeadTyped, SectorBegin, SectorsTyped, chipVars, State
    <3> QED BY <3>1, <3>2
  <2>2. CASE eraseInitial
    <3>1. CASE sectorsLeft > 0
      <4>1. /\ StartErase({SectorOf(headAddress)}) /\ sectorsLeft' = sectorsLeft - 1
            /\ headAddress' = flashfsAddressShift(headAddress, SectorSize)
            /\ UNCHANGED state /\ state = "INITIAL_ERASING"
        BY <2>2, <3>1 DEF eraseInitial
      <4>2. HeadTyped' /\ {SectorOf(headAddress)} \in SUBSET Sector
        BY <4>1, HeadMoves DEF HeadTyped, SectorBegin, FlashTyped, VolumeTyped
      <4>3. ChipTyped'
        BY <4>1, <4>2, StartEraseTyped DEF FlashTyped
      <4> QED BY <3>1, <4>1, <4>2, <4>3 DEF FlashTyped, VolumeTyped, SectorsTyped
    <3>2. CASE ~(sectorsLeft > 0)
      BY <2>2, <3>2 DEF eraseInitial, FlashTyped, VolumeTyped, ChipTyped, HeadTyped, SectorBegin, SectorsTyped, chipVars, State
    <3> QED BY <3>1, <3>2
  <2>3. CASE eraseRolling
    <3>1. {SectorOf(headAddress)} \in SUBSET Sector
      BY HeadMoves DEF HeadTyped, FlashTyped, VolumeTyped
    <3>2. CASE state = "ROLLING_ERASE_PENDING"
      <4>1. StartErase({SectorOf(headAddress)}) /\ state' = "ROLLING_ERASING" /\ UNCHANGED <<headAddress, sectorsLeft>>
        BY <2>3, <3>2 DEF eraseRolling
      <4>2. ChipTyped'
        BY <3>1, <4>1, StartEraseTyped DEF FlashTyped
      <4> QED BY <4>1, <4>2 DEF FlashTyped, VolumeTyped, HeadTyped, SectorBegin, SectorsTyped, State
    <3>3. CASE state = "ROLLING_ERASING"
      <4>1. /\ state' = "IDLE" /\ headAddress' = flashfsAddressShift(headAddress, SectorSize)
            /\ UNCHANGED <<chipVars, sectorsLeft>>
        BY <2>3, <3>3 DEF eraseRolling
      <4>2. HeadTyped'
        BY <4>1, HeadMoves DEF HeadTyped, SectorBegin, FlashTyped, VolumeTyped
      <4> QED BY <4>1, <4>2 DEF FlashTyped, ChipTyped, SectorsTyped, State, chipVars
    <3> QED BY <2>3, <3>2, <3>3 DEF eraseRolling
  <2>4. CASE eraseSuspending \/ eraseResume
    BY <2>4 DEF eraseSuspending, eraseResume, FlashTyped, VolumeTyped, ChipTyped, HeadTyped, SectorBegin, SectorsTyped, chipVars, State
  <2> QED BY <2>1, <2>2, <2>3, <2>4 DEF flashfsEraseAsync
<1> QED BY <1>1, <1>2 DEF FlashTyped, VolumeTyped

\* A device that is closed, or erased completely.
LEMMA CloseTyped ==
    ASSUME FlashTyped, flashfsClose \/ flashfsEraseCompletely, UNCHANGED <<syncVars, settings>>
    PROVE  FlashTyped'
<1>1. buffered' = 0 /\ 0 \in 0 .. BufferSize - 1 /\ UNCHANGED dataWritten
  BY GeometryNat DEF flashfsClose, flashfsEraseCompletely
<1>2. CASE flashfsClose
  <2>1. tailAddress' \in Address
    <3>1. tailAddress \in Int /\ (-tailAddress) % PageSize \in Int
      BY GeometryNat DEF FlashTyped, VolumeTyped, Address
    <3> QED BY <1>2, <3>1, ShiftTyped DEF flashfsClose
  <2> QED BY <1>1, <1>2, <2>1 DEF flashfsClose, FlashTyped, VolumeTyped, SectorsTyped, ChipTyped, HeadTyped, SectorBegin,
             chipVars, syncVars
<1>3. CASE flashfsEraseCompletely
  <2>1. 0 \in Address /\ 0 % SectorSize = 0
    BY GeometryNat DEF Address
  <2>2. ChipTyped'
    BY <1>3, StartEraseTyped DEF flashfsEraseCompletely, FlashTyped, ChipTyped, chipVars
  <2>3. state' \in State /\ SectorsTyped'
    BY <1>3, FlashfsAssumption DEF flashfsEraseCompletely, FlashTyped, VolumeTyped, SectorsTyped, State
  <2> QED BY <1>1, <1>3, <2>1, <2>2, <2>3 DEF flashfsEraseCompletely, FlashTyped, VolumeTyped, HeadTyped, SectorBegin, syncVars
<1> QED BY <1>2, <1>3

\* The sectors an initial erase is to do.
LEMMA InitialEraseTyped ==
    ASSUME FlashTyped, flashfsLoopInitialErase, UNCHANGED <<syncVars, settings>>
    PROVE  FlashTyped'
<1> DEFINE needed == flashfsGetOffset(buffered) + InitialFree - Size
           count  == (needed + SectorSize - 1) \div SectorSize
<1>1. needed \in Int
  <2>1. tailAddress + buffered \in Int /\ -headAddress \in Int
    BY DEF FlashTyped, VolumeTyped, HeadTyped, SectorBegin, Address
  <2>2. flashfsGetOffset(buffered) \in Address
    BY <2>1, ShiftTyped DEF flashfsGetOffset
  <2> QED BY <2>2, GeometryNat, SettingsTyped DEF FlashTyped, VolumeTyped, Address
<1>2. needed > 0 => count \in Nat
  <2> HIDE DEF needed
  <2> QED BY <1>1, GeometryNat
<1>3. /\ \/ sectorsLeft' = count /\ state' = "INITIAL_ERASING" /\ needed > 0
         \/ UNCHANGED <<state, sectorsLeft>>
      /\ UNCHANGED <<headAddress, tailAddress, buffered, dataWritten, chipVars>>
  BY DEF flashfsLoopInitialErase
<1> HIDE DEF needed, count
<1>4. state' \in State /\ SectorsTyped'
  BY <1>2, <1>3 DEF FlashTyped, VolumeTyped, SectorsTyped, State
<1> QED BY <1>3, <1>4 DEF FlashTyped, VolumeTyped, ChipTyped, HeadTyped, SectorBegin, chipVars, syncVars

\* What the chip does on its own.
LEMMA ChipStepTyped ==
    ASSUME FlashTyped, Chip, UNCHANGED settings
    PROVE  FlashTyped'
<1>1. CASE flashfsWriteCallback
  <2>1. tailAddress \in Int /\ inflight \in Int /\ buffered \in Int
    BY DEF FlashTyped, VolumeTyped, ChipTyped, Address
  <2>2. tailAddress' \in Address
    BY <1>1, <2>1, ShiftTyped DEF flashfsWriteCallback
  <2>3. (buffered - inflight) % BufferSize \in 0 .. BufferSize - 1 /\ 0 \in 0 .. PageSize
    BY <2>1, GeometryNat
  <2> QED BY <1>1, <2>2, <2>3 DEF flashfsWriteCallback, FlashTyped, VolumeTyped, SectorsTyped, ChipTyped,
             HeadTyped, SectorBegin, syncVars
<1>2. CASE ProgramDone
  <2>1. PageOf(writeAt) \in Page
    BY PageOfTyped DEF FlashTyped, ChipTyped
  <2> QED BY <1>2, <2>1 DEF ProgramDone, FlashTyped, VolumeTyped, SectorsTyped, ChipTyped, HeadTyped, SectorBegin,
             fsVars, syncVars
<1>3. CASE EraseDone \/ EraseSuspends
  BY <1>3 DEF EraseDone, EraseSuspends, FlashTyped, VolumeTyped, SectorsTyped, ChipTyped, HeadTyped, SectorBegin,
     fsVars, syncVars
<1> QED BY <1>1, <1>2, <1>3 DEF Chip

\* A step of a blocking flush.
LEMMA SyncTyped ==
    ASSUME FlashTyped, FlushSyncStep \/ flashfsFlushSync, UNCHANGED settings
    PROVE  FlashTyped'
<1>1. CASE flashfsFlushSync \/ syncWait \/ syncDone
  BY <1>1, GeometryNat DEF flashfsFlushSync, syncWait, syncDone, FlashTyped, VolumeTyped, SectorsTyped,
     ChipTyped, HeadTyped, SectorBegin, fsVars, chipVars
<1>2. CASE syncErase
  BY <1>2, EraseTyped DEF syncErase
<1>3. CASE syncWrite
  <2>1. buffered \in Nat /\ syncBytes \in Nat /\ flashfsWriteBuffers(buffered, syncBytes)
    BY <1>3, GeometryNat DEF syncWrite, FlashTyped, VolumeTyped
  <2>2. /\ state' \in State /\ (state' = "ALL_ERASING" => state = "ALL_ERASING")
        /\ dataWritten' \in BOOLEAN /\ inflight' \in 0 .. PageSize /\ writeAt' \in Address
    BY <2>1, WriteBuffersTyped
  <2> QED BY <1>3, <2>2 DEF syncWrite, FlashTyped, VolumeTyped, SectorsTyped, ChipTyped, HeadTyped, SectorBegin
<1> QED BY <1>1, <1>2, <1>3 DEF FlushSyncStep

\* The logger's timer, in the range of its two periods.
LEMMA TimerTyped ==
    ASSUME LoggerTyped, NEW s
    PROVE  TimerIn(s) \in 0 .. (IF GracePeriod > ShutdownTimeout THEN GracePeriod ELSE ShutdownTimeout)
<1>1. GracePeriod \in Nat /\ ShutdownTimeout \in Nat
  BY BlackboxAssumption
<1> QED BY <1>1 DEF TimerIn, LoggerTyped

\* What the switches make of a state of the logger is one.
LEMMA SwitchTyped ==
    ASSUME LoggerTyped, NEW enabled, NEW eraseBox
    PROVE  EraseSwitch(eraseBox, CheckEnabler(enabled)) \in BlackboxState
BY DEF EraseSwitch, CheckEnabler, LoggerTyped, BlackboxState

\* blackboxUpdate(), one step for each group of its states.
LEMMA UpdateTyped ==
    ASSUME TypeInv, NEW enabled, NEW held, NEW eraseBox, NEW last, NEW n \in Nat,
           blackboxUpdate(enabled, held, eraseBox, n, last)
    PROVE  TypeInv'
<1> DEFINE s == EraseSwitch(eraseBox, CheckEnabler(enabled))
<1>1. /\ \/ StartLog(s, enabled) \/ PrepareVolume(s)
         \/ SendHeader(s, n, last) \/ CacheFlush(s)
         \/ LogIteration(s, enabled, held, n) \/ Full(s)
         \/ ShutDown(s, n) \/ StartErasing(s, n) \/ Erasing(s, eraseBox)
      /\ UNCHANGED <<syncVars, settings>> /\ timer' = TimerIn(bbState')
      /\ cacheFlushNext' \in {cacheFlushNext, "SEND_SYSINFO", "RUNNING"}
  BY DEF blackboxUpdate
<1>2. s \in BlackboxState /\ FlashTyped /\ LoggerTyped
  BY SwitchTyped DEF TypeInv, FlashTyped
<1>3. buffered \in Nat /\ BufferSize \in Nat /\ BufferSize > 0 /\ buffered <= BufferSize - 1
  BY <1>2, GeometryNat DEF FlashTyped, VolumeTyped
<1>4. \A m \in Nat : AfterWrite(m) \in 0 .. BufferSize - 1
  BY <1>3 DEF AfterWrite, Least
<1> HIDE DEF s
<1>5. bbState' \in BlackboxState
  BY <1>1, <1>2 DEF StartLog, PrepareVolume, SendHeader, CacheFlush, LogIteration, Full, ShutDown,
     StartErasing, Erasing, FullOr, BlackboxState, LoggerTyped
<1>6. FlashTyped'
  <2>1. CASE NoWrite
    BY <1>1, <1>2, <2>1 DEF NoWrite, FlashTyped, VolumeTyped, SectorsTyped, ChipTyped, HeadTyped, SectorBegin,
       fsVars, chipVars, syncVars
  <2>2. CASE \E m \in Nat : Writes(m)
    BY <1>1, <1>2, <1>4, <2>2 DEF Writes, FlashTyped, VolumeTyped, SectorsTyped, ChipTyped, HeadTyped, SectorBegin,
       chipVars, syncVars
  <2>3. CASE \E m \in Nat : WritesAndFlushes(m)
    BY <1>1, <1>2, <1>4, <2>3, FlushTyped DEF WritesAndFlushes
  <2>4. CASE flashfsLoopInitialErase
    BY <1>1, <1>2, <2>4, InitialEraseTyped
  <2>5. CASE flashfsClose \/ flashfsEraseCompletely
    BY <1>1, <1>2, <2>5, CloseTyped
  <2>6. \/ NoWrite \/ flashfsLoopInitialErase \/ flashfsClose \/ flashfsEraseCompletely
        \/ Writes(n) \/ WritesAndFlushes(n) \/ WritesAndFlushes(0)
    BY <1>1 DEF StartLog, PrepareVolume, SendHeader, CacheFlush, LogIteration, Full, ShutDown,
       StartErasing, Erasing
  <2> QED BY <2>1, <2>2, <2>3, <2>4, <2>5, <2>6
<1>7. LoggerTyped'
  <2>1. cacheFlushNext' \in {"STOPPED", "SEND_SYSINFO", "RUNNING"}
    BY <1>1, <1>2 DEF LoggerTyped
  <2>2. timer' \in 0 .. (IF GracePeriod > ShutdownTimeout THEN GracePeriod ELSE ShutdownTimeout)
    BY <1>1, <1>2, TimerTyped
  <2> QED BY <1>5, <2>1, <2>2 DEF LoggerTyped
<1> QED BY <1>6, <1>7 DEF TypeInv, FlashTyped

\* A power loss, and what the boot makes of the pages it finds.
LEMMA RebootTyped ==
    ASSUME TypeInv, reboot
    PROVE  TypeInv'
<1>1. programmed' \subseteq Page
  <2>1. Programming \subseteq Page
    BY PageOfTyped DEF Programming, TypeInv, ChipTyped
  <2>2. programmed' \in AfterReboot /\ programmed \subseteq Page
    BY DEF reboot, flashfsInit, TypeInv, ChipTyped
  <2> QED BY <2>1, <2>2 DEF AfterReboot
<1>2. HeadTyped'
  BY FoundHeadTyped DEF reboot, flashfsInit, HeadTyped, SectorBegin
<1>3. /\ 0 \in 0 .. BufferSize - 1 /\ 0 \in 0 .. PageSize /\ 0 \in Address /\ {} \subseteq Sector
      /\ GracePeriod \in Nat /\ ShutdownTimeout \in Nat
  BY GeometryNat, BlackboxAssumption DEF Address
<1> HIDE DEF AfterReboot
<1>4. VolumeTyped' /\ SectorsTyped' /\ ChipTyped'
  BY <1>1, <1>2, <1>3 DEF reboot, flashfsInit, TypeInv, VolumeTyped, SectorsTyped, ChipTyped, State
<1>5. LoggerTyped'
  BY <1>3 DEF reboot, LoggerTyped, BlackboxState
<1> QED BY <1>4, <1>5 DEF TypeInv

\* Every step keeps the types.
LEMMA TypeKept ==
    ASSUME TypeInv, [Next]_vars
    PROVE  TypeInv'
<1> USE DEF FlashTyped
<1>1. CASE Update
  BY <1>1, UpdateTyped, BlackboxAssumption DEF Update, BlackboxAssumption
<1>2. ASSUME FlashTyped', UNCHANGED blackboxVars PROVE TypeInv'
  BY <1>2 DEF TypeInv, LoggerTyped, blackboxVars
<1>3. CASE blackboxFlush
  <2>1. FlushBuffers(buffered) /\ buffered' = buffered /\ UNCHANGED blackboxVars
        /\ UNCHANGED <<headAddress, tailAddress, sectorsLeft, programmed, busy, erasing, syncVars, settings>>
    BY <1>3 DEF blackboxFlush, flashfsFlushAsync, blackboxVars
  <2>2. FlashTyped' /\ UNCHANGED blackboxVars
    BY <2>1, FlushTyped DEF TypeInv, VolumeTyped
  <2> QED BY <1>2, <2>2
<1>4. CASE taskMain
  BY <1>2, <1>4, EraseTyped DEF taskMain, TypeInv, blackboxVars
<1>5. CASE mspDataflashRead \/ flushSync
  BY <1>2, <1>5, SyncTyped DEF mspDataflashRead, flushSync, TypeInv, blackboxVars
<1>6. CASE mspDataflashErase \/ UNCHANGED vars
  <2>1. /\ UNCHANGED <<flashfsVars, cacheFlushNext, settings>>
        /\ (bbState' = "START_ERASE" /\ timer' = 0) \/ UNCHANGED <<bbState, timer>>
    BY <1>6 DEF mspDataflashErase, vars, blackboxVars
  <2>2. FlashTyped'
    BY <2>1 DEF TypeInv, VolumeTyped, SectorsTyped, ChipTyped, HeadTyped, SectorBegin, flashfsVars, fsVars, syncVars, chipVars
  <2>3. LoggerTyped'
    BY <2>1, BlackboxAssumption DEF TypeInv, LoggerTyped, BlackboxState
  <2> QED BY <2>2, <2>3 DEF TypeInv
<1>7. CASE chip
  BY <1>2, <1>7, ChipStepTyped DEF chip, TypeInv, blackboxVars
<1>8. CASE reboot
  BY <1>8, RebootTyped
<1> QED BY <1>1, <1>3, <1>4, <1>5, <1>6, <1>7, <1>8 DEF Next

\* A blank volume has them.
LEMMA TypeBegins ==
    ASSUME Init
    PROVE  TypeInv
BY GeometryNat, BlackboxAssumption DEF Init, Blank, TypeInv, VolumeTyped, SectorsTyped, ChipTyped, LoggerTyped,
   HeadTyped, SectorBegin, State, BlackboxState, Address

\* Every variable of the flash file system, of the chip and of the logger keeps its
\* type; the head stays at the beginning of a sector.
THEOREM TypeTheorem == Spec => []TypeOK
<1>1. Init => TypeInv
  BY TypeBegins
<1>2. TypeInv /\ [Next]_vars => TypeInv'
  BY TypeKept
<1>3. TypeInv => TypeOK
  BY DEF TypeInv, TypeOK, VolumeTyped, SectorsTyped, ChipTyped, LoggerTyped, HeadTyped, SectorBegin
<1> QED BY <1>1, <1>2, <1>3, PTL DEF Spec

-----------------------------------------------------------------------------
(* The volume.  What its pages show, from the two addresses and from what is *)
(* being written and erased.                                                 *)

\* The bytes of the log on the chip, and the pages they take.
Held == Length(headAddress, tailAddress)
Used == PagesFor(Held)

\* The first sector is erased, and the head has not moved on yet.
HeadBehind == state \in {"ROLLING_ERASING", "ROLLING_ERASE_SUSPENDING"} /\ erasing = {}

\* The head has moved on, and the sector before it is not erased yet.
HeadAhead == state = "INITIAL_ERASING" /\ erasing # {}

\* The programmed pages are the log's, less a page that is being programmed; with the
\* sector that an initial erase is at, and without the one a rolling erase has done.
LogIsRun ==
    ~EraseRuns =>
      /\ HeadBehind => programmed = Run(PageOf(headAddress) + PagesPerSector, Used - PagesPerSector)
      /\ HeadAhead => \E s \in Sector : /\ erasing = {s} /\ SectorOf(headAddress) = (s + 1) % Sectors
                                        /\ Used + PagesPerSector <= Pages - 1
                                        /\ programmed = Run(s * PagesPerSector, Used + PagesPerSector)
      /\ ~HeadBehind /\ ~HeadAhead =>
           \/ programmed = Run(PageOf(headAddress), Used)
           \/ busy = "PROGRAM" /\ programmed = Run(PageOf(headAddress), Used - 1)

\* The page before the head is free.
SpaceLeft == Used <= Pages - 1

WritingStates == {"IDLE", "ROLLING_ERASE_PENDING", "ROLLING_ERASE_SUSPENDED"}

\* A transfer goes to the tail and not beyond its page; the page that is programmed is
\* the log's last one.
WritesAtTail ==
    /\ inflight > 0 => /\ busy = "NO" /\ state \in WritingStates
                       /\ writeAt = tailAddress /\ (tailAddress % PageSize) + inflight <= PageSize
                       /\ Held < Size - PageSize - BufferSize
    /\ busy = "PROGRAM" => /\ state \in WritingStates /\ Used >= 1
                           /\ PageOf(writeAt) = (PageOf(headAddress) + Used - 1) % Pages

\* An erase is in progress, or suspended; and only a rolling erase is suspended.
SuspendInv ==
    /\ busy = "ERASE" => erasing # {} /\ suspend # "SUSPENDED"
    /\ erasing # {} => busy = "ERASE" \/ suspend = "SUSPENDED"
    /\ suspend = "SUSPENDED" => /\ state \in {"ROLLING_ERASE_SUSPENDING", "ROLLING_ERASE_SUSPENDED"}
                                /\ erasing # {}
    /\ suspend = "REQUESTED" => state = "ROLLING_ERASE_SUSPENDING" /\ busy = "ERASE"
    /\ state = "ROLLING_ERASE_SUSPENDED" => suspend = "SUSPENDED"
    /\ state \in {"ROLLING_ERASE_SUSPENDING", "ROLLING_ERASE_SUSPENDED"} => settings.canSuspend = TRUE

RollingStates == {"ROLLING_ERASE_PENDING", "ROLLING_ERASING", "ROLLING_ERASE_SUSPENDING",
                  "ROLLING_ERASE_SUSPENDED"}

\* What is erased is the first sector, or the whole of an empty volume; an initial erase
\* has no more to do than there is, and a rolling one begins when there is no room left.
EraseInv ==
    /\ state = "IDLE" => erasing = {} \/ (erasing = Sector /\ headAddress = 0 /\ tailAddress = 0)
    /\ state = "ROLLING_ERASE_PENDING" => erasing = {}
    /\ state \in {"ROLLING_ERASING", "ROLLING_ERASE_SUSPENDING"} => erasing \in {{}, {SectorOf(headAddress)}}
    /\ state = "ROLLING_ERASE_SUSPENDED" => erasing = {SectorOf(headAddress)}
    /\ state = "INITIAL_ERASING" => erasing # Sector /\ sectorsLeft * SectorSize <= Held
    /\ state \in RollingStates => Size - Held < SectorSize + BufferSize

\* A complete erase, sector by sector, has done the ones before.
CompleteErase ==
    state = "ALL_ERASING" =>
      /\ headAddress = 0 /\ tailAddress = 0
      /\ erasing \in {{}, {Sectors - sectorsLeft - 1}}
      /\ \A p \in programmed : \/ p \div PagesPerSector >= Sectors - sectorsLeft
                               \/ p \div PagesPerSector \in erasing

VolumeInv == LogIsRun /\ SpaceLeft /\ WritesAtTail /\ SuspendInv /\ EraseInv /\ CompleteErase

\* The volume is erased only where that is allowed, and a log begins with an empty ring.
LoggerInv ==
    /\ bbState \in {"START_ERASE", "ERASING", "ERASED"} => settings.erases = TRUE
    /\ bbState \in {"STOPPED", "WAIT_FOR_READY", "ERASING", "ERASED"} => buffered = 0

\* What the volume relies on: enough sectors, an initial erase that leaves a sector, no
\* erase of the volume where erases can be suspended, no power loss in such an erase.
Board ==
    /\ PromptDma /\ ~MspReads /\ ~CrashInErase /\ Sectors > 2
    /\ \A s \in Settings : s.initialFree <= Size - SectorSize /\ ~(s.erases /\ s.canSuspend)


-----------------------------------------------------------------------------
(* The steps of the logger. *)

\* The volume is left alone.
VolumeUntouched == UNCHANGED <<settings, state, headAddress, tailAddress, sectorsLeft, chipVars>>

\* What the switches make of a state of the logger: only they lead to an erase.
LEMMA SwitchKeeps ==
    ASSUME NEW enabled, NEW eraseBox, eraseBox => settings.erases = TRUE, LoggerInv
    PROVE  LET s == EraseSwitch(eraseBox, CheckEnabler(enabled))
           IN  /\ s \in {"START_ERASE", "ERASING", "ERASED"} => settings.erases = TRUE
               /\ s \in {"STOPPED", "WAIT_FOR_READY", "ERASING", "ERASED"} => s = bbState /\ buffered = 0
BY DEF EraseSwitch, CheckEnabler, LoggerInv

\* What an update does to the volume, and the state of the logger in which it does it.
LEMMA UpdateSteps ==
    ASSUME TypeInv, LoggerInv, Update
    PROVE  /\ UNCHANGED settings /\ sync = "NO" /\ sync' = "NO"
           /\ \/ NoWrite
              \/ \E m \in Nat : Writes(m)
              \/ \E m \in Nat : WritesAndFlushes(m)
              \/ flashfsLoopInitialErase /\ flashfsIsReady /\ buffered = 0
              \/ flashfsClose /\ (PromptDma => inflight = 0 \/ \E m \in Nat : AfterWrite(m) = 0)
              \/ flashfsClose /\ buffered = 0
              \/ flashfsEraseCompletely /\ flashfsIsReady /\ settings.erases = TRUE
           /\ LoggerInv'
<1>0. PICK enabled, held, eraseBox, last \in BOOLEAN, n \in Nat : blackboxUpdate(enabled, held, eraseBox, n, last)
  BY BlackboxAssumption DEF Update, BlackboxAssumption
<1> DEFINE s == EraseSwitch(eraseBox, CheckEnabler(enabled))
<1>1. /\ \/ StartLog(s, enabled) \/ PrepareVolume(s)
         \/ SendHeader(s, n, last) \/ CacheFlush(s)
         \/ LogIteration(s, enabled, held, n) \/ Full(s)
         \/ ShutDown(s, n) \/ StartErasing(s, n) \/ Erasing(s, eraseBox)
      /\ sync = "NO" /\ UNCHANGED <<sync, settings>>
      /\ eraseBox => settings.erases = TRUE
  BY <1>0 DEF blackboxUpdate, syncVars, Erases
<1>2. /\ s \in {"START_ERASE", "ERASING", "ERASED"} => settings.erases = TRUE
      /\ s \in {"STOPPED", "WAIT_FOR_READY", "ERASING", "ERASED"} => s = bbState /\ buffered = 0
  BY <1>1, SwitchKeeps
<1>3. cacheFlushNext \in {"STOPPED", "SEND_SYSINFO", "RUNNING"} /\ buffered \in Nat
  BY GeometryNat DEF TypeInv, LoggerTyped, VolumeTyped
<1>4. buffered = 0 => AfterWrite(0) = 0
  BY GeometryNat DEF AfterWrite, Least
<1> HIDE DEF s
<1>5. CASE StartLog(s, enabled) \/ PrepareVolume(s) \/ Full(s)
  <2>1. /\ NoWrite \/ (flashfsLoopInitialErase /\ flashfsIsReady /\ buffered = 0)
        /\ buffered' = buffered /\ bbState' \in {s, "WAIT_FOR_READY", "INITIAL_ERASE", "PREPARE_LOG_FILE", "SEND_HEADER"}
        /\ bbState' = "WAIT_FOR_READY" => s \in {"STOPPED", "WAIT_FOR_READY"}
        /\ s \in {"STOPPED", "WAIT_FOR_READY", "INITIAL_ERASE", "PREPARE_LOG_FILE", "FULL"}
    BY <1>2, <1>5 DEF StartLog, PrepareVolume, Full, NoWrite, fsVars, flashfsLoopInitialErase
  <2>2. LoggerInv'
    BY <1>2, <2>1 DEF LoggerInv
  <2> QED BY <1>1, <2>1, <2>2
<1>6. CASE SendHeader(s, n, last) \/ LogIteration(s, enabled, held, n)
  <2>1. /\ Writes(n) \/ WritesAndFlushes(0)
        /\ bbState' \notin {"STOPPED", "WAIT_FOR_READY", "START_ERASE", "ERASING", "ERASED"}
    BY <1>6 DEF SendHeader, LogIteration, FullOr
  <2> QED BY <1>1, <2>1 DEF LoggerInv
<1>7. CASE CacheFlush(s)
  <2>1. /\ WritesAndFlushes(0) /\ bbState' \notin {"WAIT_FOR_READY", "START_ERASE", "ERASING", "ERASED"}
        /\ bbState' = "STOPPED" => buffered = 0
    BY <1>3, <1>7 DEF CacheFlush, FullOr
  <2>2. LoggerInv'
    BY <1>4, <2>1 DEF LoggerInv, WritesAndFlushes
  <2> QED BY <1>1, <2>1, <2>2
<1>8. CASE ShutDown(s, n)
  <2>1. CASE flashfsClose /\ bbState' = "STOPPED" /\ ((bbState = s /\ timer = 0) \/ AfterWrite(n) = 0)
    <3>1. LoggerInv'
      BY <2>1 DEF LoggerInv, flashfsClose
    <3> QED BY <1>1, <1>8, <2>1, <3>1 DEF ShutDown
  <2>2. CASE WritesAndFlushes(n) /\ bbState' = s
    BY <1>1, <1>8, <2>2 DEF ShutDown, LoggerInv
  <2> QED BY <1>8, <2>1, <2>2 DEF ShutDown
<1>9. CASE StartErasing(s, n)
  <2>1. CASE flashfsIsReady /\ flashfsEraseCompletely /\ bbState' = "ERASING"
    <3>1. settings.erases = TRUE /\ buffered' = 0
      BY <1>2, <1>9, <2>1 DEF StartErasing, flashfsEraseCompletely
    <3> QED BY <1>1, <2>1, <3>1 DEF LoggerInv
  <2>2. CASE Writes(n) /\ bbState' = s
    <3>1. settings.erases = TRUE /\ s = "START_ERASE"
      BY <1>2, <1>9 DEF StartErasing
    <3> QED BY <1>1, <2>2, <3>1 DEF LoggerInv
  <2> QED BY <1>9, <2>1, <2>2 DEF StartErasing
<1>10. CASE Erasing(s, eraseBox)
  <2>1. /\ s \in {"ERASING", "ERASED"} /\ settings.erases = TRUE /\ buffered = 0
        /\ (bbState' \in {s, "ERASED"} /\ NoWrite) \/ (flashfsClose /\ bbState' = "STOPPED")
    BY <1>2, <1>10 DEF Erasing
  <2>2. buffered' = 0
    BY <2>1 DEF NoWrite, flashfsClose, fsVars
  <2>3. LoggerInv'
    BY <1>1, <2>1, <2>2 DEF LoggerInv
  <2> QED BY <1>1, <2>1, <2>3
<1> QED BY <1>1, <1>5, <1>6, <1>7, <1>8, <1>9, <1>10

\* An erase of the volume is asked for only where that is allowed, and a log begins
\* with an empty ring.
LEMMA LoggerKept ==
    ASSUME ~MspReads, TypeInv, RingInv, LoggerInv, [Next]_vars
    PROVE  LoggerInv'
<1>1. CASE Update
  BY <1>1, UpdateSteps
<1>2. ASSUME UNCHANGED <<bbState, settings>>, buffered = 0 => buffered' = 0 PROVE LoggerInv'
  BY <1>2 DEF LoggerInv
<1>3. CASE blackboxFlush \/ taskMain \/ UNCHANGED vars
  BY <1>2, <1>3 DEF blackboxFlush, flashfsFlushAsync, taskMain, flashfsEraseAsync, blackboxVars, vars,
     flashfsVars, fsVars
<1>4. CASE chip
  <2>1. CASE flashfsWriteCallback
    <3>1. buffered # 0
      BY <2>1 DEF flashfsWriteCallback, RingInv, RingTyped, InFlightIsBuffered
    <3> QED BY <1>2, <1>4, <3>1 DEF chip, blackboxVars
  <2>2. CASE ProgramDone \/ EraseDone \/ EraseSuspends
    BY <1>2, <1>4, <2>2 DEF chip, blackboxVars, ProgramDone, EraseDone, EraseSuspends, fsVars
  <2> QED BY <1>4, <2>1, <2>2 DEF chip, Chip
<1>5. CASE mspDataflashRead \/ flushSync
  BY <1>5 DEF mspDataflashRead, flushSync, FlushSyncStep, syncWait, syncErase, syncWrite,
     syncDone, RingInv
<1>6. CASE mspDataflashErase
  BY <1>6 DEF mspDataflashErase, LoggerInv, Erases, flashfsVars, fsVars
<1>7. CASE reboot
  BY <1>7 DEF reboot, flashfsInit, LoggerInv
<1> QED BY <1>1, <1>3, <1>4, <1>5, <1>6, <1>7 DEF Next

-----------------------------------------------------------------------------
(* What a write, a close and an erase make of the volume. *)

\* Nothing is made of it.
LEMMA VolumeKept ==
    ASSUME VolumeInv, VolumeUntouched
    PROVE  VolumeInv'
<1> USE DEF VolumeUntouched, chipVars
<1>1. LogIsRun' /\ SpaceLeft'
  BY DEF VolumeInv, LogIsRun, SpaceLeft, HeadBehind, HeadAhead, EraseRuns, Used, Held
<1>2. WritesAtTail' /\ SuspendInv'
  BY DEF VolumeInv, WritesAtTail, SuspendInv, WritingStates, Used, Held
<1>3. EraseInv' /\ CompleteErase'
  BY DEF VolumeInv, EraseInv, CompleteErase, RollingStates, Held
<1> QED BY <1>1, <1>2, <1>3 DEF VolumeInv

\* A chip that is ready erases nothing, but what a rolling erase has suspended.
LEMMA ReadyChip ==
    ASSUME ChipTyped, SuspendInv, flashIsReady
    PROVE  /\ inflight = 0 /\ busy = "NO" /\ suspend # "REQUESTED"
           /\ state \notin {"ROLLING_ERASE_SUSPENDING", "ROLLING_ERASE_SUSPENDED"}
                 => erasing = {} /\ suspend = "NO"
BY DEF ChipTyped, SuspendInv, flashIsReady

\* The log as flashfsIsEOF() and flashfsClose() measure it.
LEMMA HeldTyped ==
    ASSUME FlashTyped
    PROVE  /\ SectorBegin(headAddress) /\ tailAddress \in Address
           /\ Held \in 0 .. Size - 1 /\ Persisted = Held /\ Used \in Nat
<1>1. SectorBegin(headAddress) /\ headAddress \in Address /\ tailAddress \in Address
  BY DEF FlashTyped, VolumeTyped, HeadTyped, SectorBegin
<1>2. Held \in 0 .. Size - 1
  BY <1>1, LengthFacts DEF Held
<1>3. Used \in Nat
  BY <1>2, PagesForFacts DEF Used
<1> QED BY <1>1, <1>2, <1>3 DEF Held, Length, Persisted

\* What a flush with a ready chip begins: a transfer to the tail, in a page of its own or
\* in the rest of one, or a rolling erase, when there is no room for another sector.
LEMMA WriteBuffersKeep ==
    ASSUME FlashTyped, VolumeInv, NEW ring \in 0 .. BufferSize - 1, NEW bytes \in Nat,
           flashfsIsReady, flashfsWriteBuffers(ring, bytes),
           UNCHANGED <<settings, headAddress, tailAddress, sectorsLeft, programmed, busy, erasing, suspend>>
    PROVE  VolumeInv'
<1>1. /\ SectorBegin(headAddress) /\ tailAddress \in Address
      /\ Held \in 0 .. Size - 1 /\ Persisted = Held /\ Used \in Nat
  BY HeldTyped
<1>2. /\ inflight = 0 /\ busy = "NO" /\ suspend # "REQUESTED"
      /\ state \in {"IDLE", "ROLLING_ERASE_SUSPENDED"}
      /\ state = "IDLE" => erasing = {} /\ suspend = "NO"
  BY ReadyChip DEF flashfsIsReady, FlashTyped, VolumeInv
<1>3. /\ state' \in {state, "ROLLING_ERASE_PENDING"}
      /\ state' # state => state = "IDLE" /\ Size - Held < SectorSize + BufferSize
  <2>1. CASE flashfsIsEOF
    <3>1. /\ state' \in {state, "ROLLING_ERASE_PENDING"} /\ (state' # state => state = "IDLE")
          /\ Held >= Size - PageSize - BufferSize
      BY <1>1, <2>1 DEF flashfsWriteBuffers, flashfsIsEOF
    <3> QED BY <1>1, <3>1, Units
  <2>2. CASE ~flashfsIsEOF
    <3>1. /\ state' \in {state, "ROLLING_ERASE_PENDING"}
          /\ state' # state => state # "ROLLING_ERASE_SUSPENDED" /\ Size - flashfsGetOffset(ring) < SectorSize
          /\ Held < Size - PageSize - BufferSize
      BY <1>1, <2>2, Units DEF flashfsWriteBuffers, flashfsIsEOF, NeedsRollingErase
    <3>2. flashfsGetOffset(ring) = Held + ring
      <4> DEFINE a == tailAddress - headAddress
      <4>1. a \in Int /\ ring \in Int /\ headAddress \in Int /\ tailAddress \in Int
        BY <1>1, Units DEF Address, SectorBegin
      <4>2. (a + ring) % Size = ((a % Size) + ring) % Size
        <5> HIDE DEF a
        <5> QED BY <4>1, ModTwice, Units
      <4>3. a % Size = Held /\ (a + ring) % Size = flashfsGetOffset(ring)
        <5>1. tailAddress + ring + (-headAddress) = a + ring /\ tailAddress + (-headAddress) = a
          BY <4>1
        <5> HIDE DEF a
        <5> QED BY <5>1 DEF Held, Length, flashfsGetOffset, flashfsAddressShift
      <4>4. Held + ring \in 0 .. Size - 1
        BY <1>1, <3>1, Units
      <4>5. (Held + ring) % Size = Held + ring
        BY <4>4, Units
      <4> HIDE DEF a
      <4> QED BY <4>2, <4>3, <4>5
    <3> QED BY <1>1, <1>2, <3>1, <3>2, Units
  <2> QED BY <2>1, <2>2
<1>4. /\ \/ UNCHANGED <<inflight, writeAt>>
         \/ /\ writeAt' = tailAddress /\ (tailAddress % PageSize) + inflight' <= PageSize
            /\ Held < Size - PageSize - BufferSize
  <2>1. CASE flashfsIsEOF
    BY <2>1 DEF flashfsWriteBuffers
  <2>2. CASE ~flashfsIsEOF
    <3> DEFINE room == PageSize - (tailAddress % PageSize)
    <3>1. /\ writeAt' = tailAddress /\ inflight' = Least(bytes, room)
          /\ Held < Size - PageSize - BufferSize
      BY <1>1, <2>2, Units DEF flashfsWriteBuffers, flashfsIsEOF
    <3>2. room \in Int /\ PageSize \in Int /\ tailAddress % PageSize \in Int
      BY <1>1, Units DEF Address
    <3>3. \A i \in Int : i <= room => (tailAddress % PageSize) + i <= PageSize
      BY <3>2
    <3> HIDE DEF room
    <3>4. inflight' \in Int /\ inflight' <= room
      BY <3>1, <3>2 DEF Least
    <3> QED BY <3>1, <3>3, <3>4
  <2> QED BY <2>1, <2>2
<1>5. Held' = Held /\ Used' = Used
  BY DEF Held, Used
<1>6. LogIsRun' /\ SpaceLeft'
  <2>1. state' # "INITIAL_ERASING" /\ ~HeadBehind /\ ~HeadBehind'
    BY <1>2, <1>3 DEF HeadBehind
  <2> QED BY <1>2, <1>3, <1>5, <2>1 DEF VolumeInv, LogIsRun, SpaceLeft, HeadAhead, EraseRuns
<1>7. WritesAtTail'
  BY <1>2, <1>3, <1>4, <1>5 DEF VolumeInv, WritesAtTail, WritingStates
<1>8. SuspendInv' /\ CompleteErase'
  BY <1>2, <1>3 DEF VolumeInv, SuspendInv, CompleteErase
<1>9. EraseInv'
  BY <1>2, <1>3, <1>5 DEF VolumeInv, EraseInv, RollingStates
<1> QED BY <1>6, <1>7, <1>8, <1>9 DEF VolumeInv

\* flashfsFlushAsync(): such a write, or the suspend of a rolling erase.
LEMMA FlushKeeps ==
    ASSUME FlashTyped, VolumeInv, NEW used \in 0 .. BufferSize - 1, FlushBuffers(used),
           UNCHANGED <<settings, headAddress, tailAddress, sectorsLeft, programmed, busy, erasing>>
    PROVE  VolumeInv'
<1>1. CASE flashfsIsReady /\ flashfsWriteBuffers(used, used) /\ UNCHANGED suspend
  BY <1>1, WriteBuffersKeep, Units
<1>2. CASE UNCHANGED <<state, dataWritten, inflight, writeAt, suspend>>
  BY <1>2, VolumeKept DEF VolumeUntouched, chipVars
<1>3. CASE /\ MustSuspend(used) /\ state' = "ROLLING_ERASE_SUSPENDING"
           /\ suspend' = IF busy = "ERASE" THEN "REQUESTED" ELSE suspend
           /\ UNCHANGED <<dataWritten, inflight, writeAt>>
  <2>1. ~flashIsReady /\ state = "ROLLING_ERASING" /\ settings.canSuspend = TRUE
    BY <1>3 DEF MustSuspend, CanSuspend
  <2>2. inflight = 0 /\ busy = "ERASE" /\ suspend' = "REQUESTED"
    BY <1>3, <2>1 DEF VolumeInv, WritesAtTail, WritingStates, flashIsReady, FlashTyped, ChipTyped
  <2>3. Held' = Held /\ Used' = Used
    BY DEF Held, Used
  <2>4. LogIsRun' /\ SpaceLeft'
    BY <1>3, <2>1, <2>2, <2>3 DEF VolumeInv, LogIsRun, SpaceLeft, HeadBehind, HeadAhead, EraseRuns
  <2>5. WritesAtTail' /\ SuspendInv' /\ CompleteErase'
    BY <1>3, <2>1, <2>2, <2>3 DEF VolumeInv, WritesAtTail, WritingStates, SuspendInv, CompleteErase
  <2>6. EraseInv'
    BY <1>3, <2>1, <2>2, <2>3 DEF VolumeInv, EraseInv, RollingStates
  <2> QED BY <2>4, <2>5, <2>6 DEF VolumeInv
<1> QED BY <1>1, <1>2, <1>3 DEF FlushBuffers

\* What Board says of a setting.
LEMMA BoardSettings ==
    ASSUME Board, settings \in Settings
    PROVE  /\ settings.initialFree \in Nat /\ settings.initialFree <= Size - SectorSize
           /\ ~(settings.erases = TRUE /\ settings.canSuspend = TRUE)
           /\ Sectors > 2 /\ 3 * SectorSize <= Size
<1>1. settings.initialFree <= Size - SectorSize /\ ~(settings.erases /\ settings.canSuspend) /\ Sectors > 2
  BY DEF Board
<1>2. settings.initialFree \in Nat
  BY FlashfsAssumption
<1>3. 3 * SectorSize <= Size
  <2>1. Size = Sectors * SectorSize /\ Sectors \in Nat /\ SectorSize \in Nat
    BY Units
  <2>2. PICK m \in Nat : Sectors = 3 + m
    BY <1>1, <2>1
  <2>3. Size = 3 * SectorSize + m * SectorSize /\ m * SectorSize \in Nat
    BY <2>1, <2>2
  <2> QED BY <2>1, <2>3
<1>4. ~(settings.erases = TRUE /\ settings.canSuspend = TRUE)
  BY <1>1
<1> QED BY <1>1, <1>2, <1>3, <1>4

\* A volume has more than one sector.
LEMMA SectorsMany == Sector # {} /\ \A s : {s} # Sector
<1>1. 0 \in Sector /\ 1 \in Sector
  BY Units DEF Sector
<1> QED BY <1>1

\* An initial erase begins with no more to do than there is.
LEMMA InitialEraseKeeps ==
    ASSUME Board, FlashTyped, VolumeInv, flashfsIsReady, buffered = 0, flashfsLoopInitialErase,
           UNCHANGED settings
    PROVE  VolumeInv'
<1>1. /\ SectorBegin(headAddress) /\ tailAddress \in Address
      /\ Held \in 0 .. Size - 1 /\ Persisted = Held
  BY HeldTyped
<1>2. /\ inflight = 0 /\ busy = "NO"
      /\ state = "IDLE" => erasing = {} /\ suspend = "NO"
  BY ReadyChip DEF flashfsIsReady, FlashTyped, VolumeInv
<1>3. flashfsGetOffset(buffered) = Held
  <2>1. tailAddress + buffered = tailAddress
    BY <1>1 DEF Address
  <2> QED BY <1>1, <2>1 DEF flashfsGetOffset, Persisted
<1> DEFINE needed == Held + settings.initialFree - Size
           sectors == (needed + SectorSize - 1) \div SectorSize
<1>4. CASE ~(state = "IDLE" /\ needed > 0)
  <2>1. VolumeUntouched
    BY <1>3, <1>4 DEF flashfsLoopInitialErase, InitialFree, VolumeUntouched
  <2> QED BY <2>1, VolumeKept
<1>5. CASE state = "IDLE" /\ needed > 0
  <2>1. /\ sectorsLeft' = sectors /\ state' = "INITIAL_ERASING"
        /\ UNCHANGED <<headAddress, tailAddress, chipVars>>
    BY <1>3, <1>5 DEF flashfsLoopInitialErase, InitialFree
  <2>2. sectors * SectorSize <= Held
    <3>1. needed \in Int /\ needed + SectorSize <= Held /\ SectorSize \in Nat /\ SectorSize > 0 /\ Held \in Int
      BY <1>1, BoardSettings, Units DEF FlashTyped, VolumeTyped
    <3> HIDE DEF needed
    <3> DEFINE x == needed + SectorSize - 1
    <3>2. x \in Int /\ x < Held
      BY <3>1
    <3> HIDE DEF x
    <3>3. (x \div SectorSize) * SectorSize <= x /\ x \div SectorSize \in Int
      BY <3>1, <3>2
    <3>4. (x \div SectorSize) * SectorSize <= Held
      BY <3>1, <3>2, <3>3
    <3> USE DEF x
    <3> QED BY <3>4
  <2> HIDE DEF needed, sectors
  <2>3. Held' = Held /\ Used' = Used
    BY <2>1 DEF Held, Used
  <2>4. LogIsRun' /\ SpaceLeft'
    <3>1. ~HeadBehind /\ ~HeadBehind' /\ ~HeadAhead /\ ~HeadAhead' /\ ~EraseRuns
      BY <1>2, <1>5, <2>1, SectorsMany DEF HeadBehind, HeadAhead, EraseRuns, chipVars
    <3> QED BY <1>2, <2>1, <2>3, <3>1 DEF VolumeInv, LogIsRun, SpaceLeft, chipVars
  <2>5. WritesAtTail' /\ SuspendInv' /\ CompleteErase'
    BY <1>2, <1>5, <2>1 DEF VolumeInv, WritesAtTail, SuspendInv, CompleteErase, chipVars
  <2>6. EraseInv'
    <3> QED BY <1>2, <1>5, <2>1, <2>2, <2>3, SectorsMany DEF VolumeInv, EraseInv, RollingStates, chipVars
  <2> QED BY <2>4, <2>5, <2>6 DEF VolumeInv
<1> QED BY <1>4, <1>5

\* A log that is closed ends with the page it has begun.
LEMMA CloseKeeps ==
    ASSUME FlashTyped, VolumeInv, inflight = 0, flashfsClose, UNCHANGED settings
    PROVE  VolumeInv'
<1>1. /\ SectorBegin(headAddress) /\ tailAddress \in Address
      /\ Held \in 0 .. Size - 1 /\ Used \in Nat
  BY HeldTyped
<1>2. /\ tailAddress' = flashfsAddressShift(tailAddress, (-tailAddress) % PageSize)
      /\ UNCHANGED <<settings, state, headAddress, sectorsLeft, chipVars>>
  BY DEF flashfsClose
<1>3. Used' = Used /\ Held' \in Int /\ Held <= Held'
  <2>1. PagesFor(Length(headAddress, tailAddress)) <= Pages - 1
    BY DEF VolumeInv, SpaceLeft, Used, Held
  <2>2. tailAddress' \in Address /\ PagesFor(Length(headAddress, tailAddress')) = PagesFor(Length(headAddress, tailAddress))
        /\ Length(headAddress, tailAddress) <= Length(headAddress, tailAddress')
    BY <1>1, <1>2, <2>1, LogCloses
  <2>3. headAddress \in Address
    BY <1>1 DEF SectorBegin
  <2>4. Length(headAddress, tailAddress') \in Int
    BY <2>2, <2>3, LengthFacts, Units
  <2> QED BY <1>2, <2>2, <2>4 DEF Used, Held
<1>4. tailAddress = 0 => tailAddress' = 0
  BY <1>2, Units DEF flashfsAddressShift
<1>5. LogIsRun' /\ SpaceLeft'
  BY <1>2, <1>3 DEF VolumeInv, LogIsRun, SpaceLeft, HeadBehind, HeadAhead, EraseRuns, chipVars
<1>6. WritesAtTail' /\ SuspendInv' /\ CompleteErase'
  BY <1>2, <1>3, <1>4 DEF VolumeInv, WritesAtTail, WritingStates, SuspendInv, CompleteErase, chipVars
<1>7. EraseInv'
  <2>1. sectorsLeft * SectorSize <= Held => sectorsLeft * SectorSize <= Held'
    <3>1. sectorsLeft * SectorSize \in Int
      BY Units DEF FlashTyped, SectorsTyped
    <3> QED BY <1>1, <1>3, <3>1
  <2>2. Size - Held < SectorSize + BufferSize => Size - Held' < SectorSize + BufferSize
    <3>1. Size \in Int /\ SectorSize \in Int /\ BufferSize \in Int /\ Held \in Int
      BY <1>1, Units
    <3>2. Held' \in Int /\ Held <= Held'
      BY <1>3
    <3>3. \A a, b, c, d, e \in Int : (d <= e /\ a - d < b + c) => a - e < b + c
      OBVIOUS
    <3> QED BY <3>1, <3>2, <3>3
  <2>3. UNCHANGED <<state, erasing, headAddress, sectorsLeft>>
    BY <1>2 DEF chipVars
  <2> QED BY <1>4, <2>1, <2>2, <2>3 DEF VolumeInv, EraseInv, RollingStates
<1> QED BY <1>5, <1>6, <1>7 DEF VolumeInv

\* An empty log takes no page.
LEMMA EmptyLog ==
    /\ SectorBegin(0) /\ Length(0, 0) = 0 /\ PagesFor(0) = 0
    /\ \A start : Run(start, 0) = {}
<1>1. SectorBegin(0) /\ Length(0, 0) = 0
  BY Units DEF SectorBegin, Address, Length, flashfsAddressShift
<1>2. PagesFor(0) = 0
  BY PagesForFacts, Units
<1>3. \A start : Run(start, 0) = {}
  BY DEF Run
<1> QED BY <1>1, <1>2, <1>3

\* A complete erase begins with the two addresses at the beginning of the volume.
LEMMA CompleteEraseKeeps ==
    ASSUME Board, FlashTyped, VolumeInv, flashfsIsReady, flashfsEraseCompletely,
           settings.erases = TRUE, UNCHANGED settings
    PROVE  VolumeInv' /\ EraseRuns' /\ UNCHANGED programmed
<1>1. settings.canSuspend # TRUE
  BY BoardSettings DEF FlashTyped, VolumeTyped
<1>2. /\ inflight = 0 /\ busy = "NO" /\ state = "IDLE" /\ erasing = {} /\ suspend = "NO"
  <2>1. state = "IDLE"
    BY <1>1 DEF flashfsIsReady, VolumeInv, SuspendInv
  <2> QED BY <2>1, ReadyChip DEF flashfsIsReady, FlashTyped, VolumeInv
<1>3. /\ headAddress' = 0 /\ tailAddress' = 0 /\ UNCHANGED <<settings, programmed, inflight, writeAt, suspend>>
      /\ \/ busy' = "ERASE" /\ erasing' = Sector /\ UNCHANGED <<state, sectorsLeft>>
         \/ state' = "ALL_ERASING" /\ sectorsLeft' = Sectors /\ UNCHANGED <<busy, erasing>>
  BY <1>2 DEF flashfsEraseCompletely, StartErase, chipVars
<1>4. Held' = 0 /\ Used' = 0
  BY <1>3, EmptyLog DEF Held, Used
<1>5. EraseRuns' /\ Sector # {}
  BY <1>3, SectorsMany DEF EraseRuns
<1>6. LogIsRun' /\ SpaceLeft'
  BY <1>4, <1>5, Units DEF LogIsRun, SpaceLeft
<1>7. WritesAtTail' /\ SuspendInv'
  BY <1>2, <1>3, <1>5 DEF WritesAtTail, SuspendInv
<1>8. EraseInv'
  BY <1>2, <1>3 DEF EraseInv, RollingStates
<1>9. CompleteErase'
  <2>1. CASE state' = "IDLE"
    BY <2>1 DEF CompleteErase
  <2>2. CASE state' = "ALL_ERASING"
    <3>1. sectorsLeft' = Sectors /\ erasing' = {} /\ programmed' = programmed
      BY <1>2, <1>3, <2>2
    <3>2. \A p \in programmed : p \div PagesPerSector >= Sectors - Sectors
      <4>1. \A p \in Nat : p \div PagesPerSector >= Sectors - Sectors
        BY Units
      <4>2. programmed \subseteq Nat
        BY Units DEF FlashTyped, ChipTyped, Page
      <4> QED BY <4>1, <4>2
    <3> QED BY <1>3, <3>1, <3>2 DEF CompleteErase
  <2> QED BY <1>2, <1>3, <2>1, <2>2
<1> QED BY <1>3, <1>5, <1>6, <1>7, <1>8, <1>9 DEF VolumeInv

-----------------------------------------------------------------------------
(* The erase in the background. *)

\* A chip that has nothing suspended takes a command to erase.
LEMMA StartsErase ==
    ASSUME suspend = "NO", NEW sectors, StartErase(sectors)
    PROVE  busy' = "ERASE" /\ erasing' = sectors /\ UNCHANGED <<programmed, inflight, writeAt, suspend>>
BY DEF StartErase

\* A complete erase goes on with the next sector, and ends when all are done.
LEMMA EraseAllKeeps ==
    ASSUME FlashTyped, VolumeInv, flashIsReady, eraseAll, UNCHANGED <<settings, tailAddress>>
    PROVE  /\ VolumeInv' /\ UNCHANGED programmed
           /\ EraseRuns /\ (EraseRuns' \/ programmed' = {})
<1>1. /\ inflight = 0 /\ busy = "NO" /\ suspend = "NO" /\ erasing = {} /\ state = "ALL_ERASING"
      /\ headAddress = 0 /\ tailAddress = 0 /\ headAddress' = 0 /\ tailAddress' = 0
  BY ReadyChip DEF eraseAll, FlashTyped, VolumeInv, CompleteErase
<1>2. Held' = 0 /\ Used' = 0
  BY <1>1, EmptyLog DEF Held, Used
<1>3. sectorsLeft \in Nat /\ sectorsLeft <= Sectors /\ Sectors \in Nat
  BY <1>1, Units DEF FlashTyped, SectorsTyped
<1>4. \A p \in programmed : p \div PagesPerSector \in Nat /\ p \div PagesPerSector >= Sectors - sectorsLeft
  <2>1. \A p \in Nat : p \div PagesPerSector \in Nat
    BY Units
  <2>2. programmed \subseteq Nat
    BY Units DEF FlashTyped, ChipTyped, Page
  <2>3. \A p \in programmed : p \div PagesPerSector >= Sectors - sectorsLeft
    BY <1>1 DEF VolumeInv, CompleteErase
  <2> QED BY <2>1, <2>2, <2>3
<1>5. CASE sectorsLeft > 0
  <2>1. /\ busy' = "ERASE" /\ erasing' = {Sectors - sectorsLeft} /\ sectorsLeft' = sectorsLeft - 1
        /\ UNCHANGED <<state, programmed, inflight, writeAt, suspend>>
    BY <1>1, <1>5, StartsErase DEF eraseAll
  <2>2. LogIsRun' /\ SpaceLeft' /\ EraseRuns'
    BY <1>1, <1>2, <2>1, Units DEF LogIsRun, SpaceLeft, EraseRuns
  <2>3. WritesAtTail' /\ SuspendInv' /\ EraseInv'
    BY <1>1, <2>1 DEF WritesAtTail, SuspendInv, EraseInv, RollingStates
  <2>4. CompleteErase'
    <3> DEFINE done == Sectors - sectorsLeft
    <3>1. done \in Int /\ Sectors - sectorsLeft' - 1 = done /\ Sectors - sectorsLeft' = done + 1
      BY <1>3, <2>1
    <3>2. erasing' = {done} /\ \A p \in programmed : p \div PagesPerSector \in Nat /\ p \div PagesPerSector >= done
      BY <1>4, <2>1
    <3> HIDE DEF done
    <3>3. \A p \in programmed : p \div PagesPerSector >= done + 1 \/ p \div PagesPerSector = done
      BY <3>1, <3>2
    <3> QED BY <1>1, <2>1, <3>1, <3>2, <3>3 DEF CompleteErase
  <2> QED BY <1>1, <2>1, <2>2, <2>3, <2>4 DEF VolumeInv, EraseRuns
<1>6. CASE ~(sectorsLeft > 0)
  <2>1. state' = "IDLE" /\ UNCHANGED chipVars
    BY <1>6 DEF eraseAll
  <2>2. programmed = {}
    <3>1. \A p \in programmed : p \div PagesPerSector \in Nat /\ p \div PagesPerSector >= Sectors
      BY <1>3, <1>4, <1>6
    <3>2. \A p \in programmed : p \div PagesPerSector \in Sector
      <4>1. \A p \in Page : p \div PagesPerSector \in Sector
        BY PageSector
      <4> QED BY <4>1 DEF FlashTyped, ChipTyped
    <3> QED BY <1>3, <3>1, <3>2 DEF Sector
  <2>3. LogIsRun' /\ SpaceLeft'
    <3>1. ~HeadBehind' /\ ~HeadAhead' /\ programmed' = {}
      BY <2>1, <2>2 DEF HeadBehind, HeadAhead, chipVars
    <3>2. Run(PageOf(headAddress'), Used') = {}
      BY <1>2, EmptyLog
    <3> QED BY <1>2, <3>1, <3>2, Units DEF LogIsRun, SpaceLeft
  <2>4. WritesAtTail' /\ SuspendInv' /\ EraseInv' /\ CompleteErase'
    BY <1>1, <2>1 DEF WritesAtTail, SuspendInv, EraseInv, CompleteErase, RollingStates, chipVars
  <2> QED BY <1>1, <2>1, <2>2, <2>3, <2>4 DEF VolumeInv, EraseRuns, chipVars
<1> QED BY <1>5, <1>6

\* An initial erase moves the head on before the sector behind it is erased.
LEMMA EraseInitialKeeps ==
    ASSUME FlashTyped, VolumeInv, flashIsReady, eraseInitial, UNCHANGED <<settings, tailAddress>>
    PROVE  VolumeInv' /\ UNCHANGED programmed /\ ~EraseRuns /\ ~EraseRuns'
<1>1. /\ SectorBegin(headAddress) /\ tailAddress \in Address
      /\ Held \in 0 .. Size - 1 /\ Used \in Nat
  BY HeldTyped
<1>2. /\ inflight = 0 /\ busy = "NO" /\ suspend = "NO" /\ erasing = {} /\ state = "INITIAL_ERASING"
  BY ReadyChip DEF eraseInitial, FlashTyped, VolumeInv
<1>3. ~EraseRuns /\ ~HeadBehind /\ ~HeadAhead
  BY <1>2, SectorsMany DEF EraseRuns, HeadBehind, HeadAhead
<1>4. programmed = Run(PageOf(headAddress), Used) /\ Used <= Pages - 1
  BY <1>2, <1>3 DEF VolumeInv, LogIsRun, SpaceLeft
<1>5. sectorsLeft \in Nat /\ sectorsLeft * SectorSize <= Held
  BY <1>2 DEF VolumeInv, EraseInv, FlashTyped, SectorsTyped
<1>6. CASE sectorsLeft > 0
  <2> DEFINE k == SectorOf(headAddress)
  <2>1. /\ busy' = "ERASE" /\ erasing' = {k} /\ sectorsLeft' = sectorsLeft - 1
        /\ headAddress' = flashfsAddressShift(headAddress, SectorSize)
        /\ UNCHANGED <<settings, tailAddress, state, programmed, inflight, writeAt, suspend>>
    BY <1>2, <1>6, StartsErase DEF eraseInitial
  <2>2. SectorSize \in Nat /\ Held \in Int /\ SectorSize <= Held
        /\ (sectorsLeft - 1) * SectorSize <= Held - SectorSize
    <3>1. SectorSize \in Nat /\ Held \in Int
      BY <1>1, Units
    <3>2. (sectorsLeft - 1) * SectorSize = sectorsLeft * SectorSize - SectorSize /\ (sectorsLeft - 1) * SectorSize >= 0
      BY <1>5, <1>6, <3>1
    <3> QED BY <1>5, <3>1, <3>2
  <2>3. /\ Held' = Held - SectorSize /\ Used' = Used - PagesPerSector
        /\ SectorOf(headAddress') = (k + 1) % Sectors /\ Used' \in Nat
    <3>1. Length(headAddress, tailAddress) >= SectorSize
      BY <2>2 DEF Held
    <3>2. LET g == headAddress'
          IN  /\ SectorBegin(g) /\ Length(g, tailAddress) = Length(headAddress, tailAddress) - SectorSize
              /\ PagesFor(Length(g, tailAddress)) = PagesFor(Length(headAddress, tailAddress)) - PagesPerSector
              /\ SectorOf(g) = (SectorOf(headAddress) + 1) % Sectors
      BY <1>1, <2>1, <3>1, HeadAdvances
    <3>3. Length(headAddress', tailAddress) \in Nat
      BY <2>2, <3>2 DEF Held
    <3>4. PagesFor(Length(headAddress', tailAddress)) \in Nat
      BY <3>3, PagesForFacts
    <3> QED BY <2>1, <3>2, <3>4 DEF Held, Used
  <2>4. k \in Sector /\ PageOf(headAddress) = k * PagesPerSector
    BY <1>1, HeadPlace
  <2> HIDE DEF k
  <2>5. Used' + PagesPerSector = Used /\ Used' <= Pages - 1
    BY <1>1, <1>4, <2>3, Units
  <2>6. LogIsRun'
    <3>1. HeadAhead' /\ ~HeadBehind'
      BY <1>2, <2>1 DEF HeadAhead, HeadBehind
    <3>2. programmed' = Run(k * PagesPerSector, Used' + PagesPerSector)
      BY <1>4, <2>1, <2>4, <2>5
    <3>3. Used' + PagesPerSector <= Pages - 1
      BY <1>4, <2>5
    <3> QED BY <2>1, <2>3, <2>4, <3>1, <3>2, <3>3 DEF LogIsRun
  <2>7. SpaceLeft' /\ WritesAtTail' /\ SuspendInv' /\ CompleteErase'
    BY <1>2, <2>1, <2>5 DEF SpaceLeft, WritesAtTail, SuspendInv, CompleteErase
  <2>8. EraseInv'
    <3>1. sectorsLeft' * SectorSize <= Held' /\ erasing' # Sector
      BY <2>1, <2>2, <2>3, SectorsMany
    <3> QED BY <1>2, <2>1, <3>1 DEF EraseInv, RollingStates
  <2>9. ~EraseRuns'
    BY <1>2, <2>1, SectorsMany DEF EraseRuns
  <2> QED BY <1>3, <2>1, <2>6, <2>7, <2>8, <2>9 DEF VolumeInv
<1>7. CASE ~(sectorsLeft > 0)
  <2>1. state' = "IDLE" /\ UNCHANGED <<settings, headAddress, tailAddress, sectorsLeft, chipVars>>
    BY <1>7 DEF eraseInitial
  <2>2. Held' = Held /\ Used' = Used /\ ~HeadBehind' /\ ~HeadAhead' /\ ~EraseRuns'
    BY <1>2, <2>1, SectorsMany DEF Held, Used, HeadBehind, HeadAhead, EraseRuns, chipVars
  <2>3. LogIsRun' /\ SpaceLeft'
    BY <1>4, <2>1, <2>2 DEF LogIsRun, SpaceLeft, chipVars
  <2>4. WritesAtTail' /\ SuspendInv' /\ EraseInv' /\ CompleteErase'
    BY <1>2, <2>1 DEF WritesAtTail, SuspendInv, EraseInv, CompleteErase, RollingStates, chipVars
  <2> QED BY <1>3, <2>1, <2>2, <2>3, <2>4 DEF VolumeInv, chipVars
<1> QED BY <1>6, <1>7

\* A rolling erase has room to take: a sector is there to be erased.
LEMMA RollingHasSector ==
    ASSUME Board, FlashTyped, EraseInv, state \in RollingStates
    PROVE  Held >= SectorSize /\ Used > PagesPerSector
<1>1. Held \in Nat /\ Size - Held < SectorSize + BufferSize
  BY HeldTyped DEF EraseInv
<1>2. 3 * SectorSize <= Size /\ Size \in Nat /\ SectorSize \in Nat /\ BufferSize \in Nat /\ BufferSize < SectorSize
  BY BoardSettings, Units DEF FlashTyped, VolumeTyped
<1>3. Held > SectorSize
  BY <1>1, <1>2
<1>4. Used > PagesPerSector
  <2> DEFINE d == Held
  <2>1. d \in Nat /\ PagesFor(d) \in Nat /\ d > PagesPerSector * PageSize /\ PagesPerSector \in Nat
    BY <1>1, <1>3, PagesForFacts, Units
  <2>2. PageSize \in Nat /\ PageSize > 0 /\ d <= PagesFor(d) * PageSize
    BY <1>1, PagesForFacts, Units
  <2>3. Used = PagesFor(d)
    BY DEF Used
  <2> HIDE DEF d
  <2> DEFINE u == PagesFor(d)
  <2>4. u \in Nat /\ PagesPerSector * PageSize < u * PageSize
    BY <2>1, <2>2
  <2> HIDE DEF u
  <2>5. ASSUME u <= PagesPerSector PROVE FALSE
    <3>1. u * PageSize <= PagesPerSector * PageSize
      BY <2>1, <2>2, <2>4, <2>5
    <3> QED BY <2>1, <2>2, <2>4, <3>1
  <2> QED BY <2>1, <2>3, <2>4, <2>5 DEF u
<1> QED BY <1>1, <1>2, <1>3, <1>4

\* A rolling erase begins with the first sector; the head moves on when it is done.
LEMMA EraseRollingKeeps ==
    ASSUME Board, FlashTyped, VolumeInv, flashIsReady, eraseRolling, UNCHANGED <<settings, tailAddress>>
    PROVE  VolumeInv' /\ UNCHANGED programmed /\ ~EraseRuns /\ ~EraseRuns'
<1>1. /\ SectorBegin(headAddress) /\ tailAddress \in Address
      /\ Held \in 0 .. Size - 1 /\ Used \in Nat
  BY HeldTyped
<1>2. /\ inflight = 0 /\ busy = "NO" /\ suspend = "NO" /\ erasing = {}
      /\ state \in {"ROLLING_ERASE_PENDING", "ROLLING_ERASING"}
  BY ReadyChip DEF eraseRolling, FlashTyped, VolumeInv
<1>3. ~EraseRuns
  BY <1>2, SectorsMany DEF EraseRuns
<1>4. Held >= SectorSize /\ Used > PagesPerSector /\ Size - Held < SectorSize + BufferSize
  BY <1>2, RollingHasSector DEF VolumeInv, EraseInv, RollingStates
<1>5. CASE state = "ROLLING_ERASE_PENDING"
  <2>1. /\ busy' = "ERASE" /\ erasing' = {SectorOf(headAddress)} /\ state' = "ROLLING_ERASING"
        /\ UNCHANGED <<settings, headAddress, tailAddress, sectorsLeft, programmed, inflight, writeAt, suspend>>
    BY <1>2, <1>5, StartsErase DEF eraseRolling
  <2>2. Held' = Held /\ Used' = Used /\ ~HeadBehind' /\ ~HeadAhead' /\ ~HeadBehind /\ ~HeadAhead /\ ~EraseRuns'
    BY <1>2, <1>5, <2>1, SectorsMany DEF Held, Used, HeadBehind, HeadAhead, EraseRuns
  <2>3. LogIsRun' /\ SpaceLeft'
    BY <1>2, <1>3, <2>1, <2>2 DEF VolumeInv, LogIsRun, SpaceLeft
  <2>4. WritesAtTail' /\ SuspendInv' /\ CompleteErase'
    BY <1>2, <2>1 DEF WritesAtTail, SuspendInv, CompleteErase
  <2>5. EraseInv'
    BY <1>4, <2>1, <2>2 DEF EraseInv, RollingStates
  <2> QED BY <1>3, <2>1, <2>2, <2>3, <2>4, <2>5 DEF VolumeInv
<1>6. CASE state = "ROLLING_ERASING"
  <2>1. /\ headAddress' = flashfsAddressShift(headAddress, SectorSize) /\ state' = "IDLE"
        /\ UNCHANGED <<settings, tailAddress, sectorsLeft, chipVars>>
    BY <1>6 DEF eraseRolling
  <2>2. /\ Used' = Used - PagesPerSector
        /\ PageOf(headAddress') = (PageOf(headAddress) + PagesPerSector) % Pages
    <3>1. Length(headAddress, tailAddress) >= SectorSize
      BY <1>4 DEF Held
    <3> QED BY <1>1, <2>1, <3>1, HeadAdvances DEF Used, Held
  <2>3. programmed = Run(PageOf(headAddress) + PagesPerSector, Used - PagesPerSector)
    BY <1>2, <1>3, <1>6 DEF VolumeInv, LogIsRun, HeadBehind
  <2>4. Run((PageOf(headAddress) + PagesPerSector) % Pages, Used')
          = Run(PageOf(headAddress) + PagesPerSector, Used')
    <3>1. PageOf(headAddress) \in Int /\ PagesPerSector \in Int /\ Used' \in Int
      BY <1>1, <2>2, HeadPlace, Units
    <3>2. PageOf(headAddress) + PagesPerSector \in Int
      BY <3>1
    <3> QED BY <3>1, <3>2, RunAround
  <2>5. ~HeadBehind' /\ ~HeadAhead' /\ ~EraseRuns'
    BY <1>2, <2>1, SectorsMany DEF HeadBehind, HeadAhead, EraseRuns, chipVars
  <2>6. LogIsRun'
    BY <1>2, <2>1, <2>2, <2>3, <2>4, <2>5 DEF LogIsRun, chipVars
  <2>7. SpaceLeft'
    <3>1. Used <= Pages - 1 /\ PagesPerSector \in Nat /\ Pages \in Nat
      BY Units DEF VolumeInv, SpaceLeft
    <3> QED BY <1>1, <2>2, <3>1 DEF SpaceLeft
  <2>8. WritesAtTail' /\ SuspendInv' /\ CompleteErase' /\ EraseInv'
    BY <1>2, <2>1 DEF WritesAtTail, SuspendInv, CompleteErase, EraseInv, RollingStates, chipVars
  <2> QED BY <1>3, <2>1, <2>5, <2>6, <2>7, <2>8 DEF VolumeInv, chipVars
<1> QED BY <1>2, <1>5, <1>6

\* A rolling erase is suspended, and goes on.
LEMMA SuspendKeeps ==
    ASSUME FlashTyped, VolumeInv, flashIsReady, eraseSuspending \/ eraseResume, UNCHANGED <<settings, tailAddress>>
    PROVE  VolumeInv' /\ UNCHANGED programmed /\ ~EraseRuns /\ ~EraseRuns'
<1>1. /\ state \in {"ROLLING_ERASE_SUSPENDING", "ROLLING_ERASE_SUSPENDED"} /\ suspend = "SUSPENDED"
      /\ inflight = 0 /\ busy = "NO" /\ erasing = {SectorOf(headAddress)} /\ erasing # {}
      /\ settings.canSuspend = TRUE
  BY DEF eraseSuspending, eraseResume, VolumeInv, SuspendInv, EraseInv, flashIsReady
<1>2. /\ UNCHANGED <<settings, headAddress, tailAddress, sectorsLeft, programmed, inflight, writeAt, erasing>>
      /\ \/ state' = "ROLLING_ERASE_SUSPENDED" /\ UNCHANGED <<busy, suspend>>
         \/ state' = "ROLLING_ERASING" /\ busy' = "ERASE" /\ suspend' = "NO"
  BY DEF eraseSuspending, eraseResume, chipVars
<1>3. Held' = Held /\ Used' = Used /\ ~HeadBehind' /\ ~HeadAhead' /\ ~HeadBehind /\ ~HeadAhead
      /\ ~EraseRuns /\ ~EraseRuns'
  BY <1>1, <1>2, SectorsMany DEF Held, Used, HeadBehind, HeadAhead, EraseRuns
<1>4. LogIsRun' /\ SpaceLeft'
  BY <1>1, <1>2, <1>3 DEF VolumeInv, LogIsRun, SpaceLeft
<1>5. WritesAtTail' /\ SuspendInv' /\ CompleteErase'
  BY <1>1, <1>2 DEF VolumeInv, WritesAtTail, SuspendInv, CompleteErase
<1>6. EraseInv'
  BY <1>1, <1>2, <1>3 DEF VolumeInv, EraseInv, RollingStates
<1> QED BY <1>2, <1>3, <1>4, <1>5, <1>6 DEF VolumeInv

-----------------------------------------------------------------------------
(* The chip. *)

\* The end of a transfer moves the tail on, in the page that is now programmed.
LEMMA CallbackKeeps ==
    ASSUME FlashTyped, VolumeInv, flashfsWriteCallback, UNCHANGED settings
    PROVE  VolumeInv' /\ UNCHANGED programmed /\ ~EraseRuns /\ ~EraseRuns'
<1>1. /\ SectorBegin(headAddress) /\ tailAddress \in Address
      /\ Held \in 0 .. Size - 1 /\ Used \in Nat
  BY HeldTyped
<1>2. /\ tailAddress' = flashfsAddressShift(tailAddress, inflight) /\ inflight > 0
      /\ inflight' = 0 /\ busy' = "PROGRAM"
      /\ UNCHANGED <<settings, state, headAddress, sectorsLeft, programmed, writeAt, erasing, suspend>>
  BY DEF flashfsWriteCallback
<1>3. /\ busy = "NO" /\ state \in WritingStates /\ writeAt = tailAddress
      /\ (tailAddress % PageSize) + inflight <= PageSize /\ Held < Size - PageSize - BufferSize
  BY <1>2 DEF VolumeInv, WritesAtTail
<1>4. inflight \in 1 .. PageSize
  <2>1. inflight \in 0 .. PageSize
    BY DEF FlashTyped, ChipTyped
  <2> QED BY <1>2, <2>1, Units
<1>5. /\ Held' = Held + inflight /\ Used' \in 1 .. Pages - 1
      /\ PageOf(tailAddress) = (PageOf(headAddress) + Used' - 1) % Pages
      /\ Used = Used' - 1 \/ Used = Used'
  <2> DEFINE d == Length(headAddress, tailAddress)
             u == PagesFor(d + inflight)
  <2>1. Length(headAddress, tailAddress) < Size - PageSize - BufferSize
    BY <1>3 DEF Held
  <2>2. /\ Length(headAddress, tailAddress') = d + inflight
        /\ u \in 1 .. Pages - 1 /\ PageOf(tailAddress) = (PageOf(headAddress) + u - 1) % Pages
        /\ tailAddress % PageSize = 0 <=> PagesFor(d) = u - 1
        /\ tailAddress % PageSize # 0 <=> PagesFor(d) = u
    BY <1>1, <1>2, <1>3, <1>4, <2>1, LogGrows
  <2>3. Held' = d + inflight /\ Used' = u /\ Used = PagesFor(d) /\ Held = d
    BY <1>2, <2>2 DEF Held, Used
  <2> HIDE DEF d, u
  <2> QED BY <2>2, <2>3
<1>6. ~EraseRuns /\ erasing # Sector
  BY <1>3, SectorsMany DEF VolumeInv, SuspendInv, EraseInv, WritingStates, EraseRuns
<1>7. ~EraseRuns' /\ ~HeadBehind /\ ~HeadAhead /\ ~HeadBehind' /\ ~HeadAhead'
  BY <1>2, <1>3, <1>6 DEF EraseRuns, WritingStates, HeadBehind, HeadAhead
<1>8. LogIsRun'
  <2>1. programmed = Run(PageOf(headAddress), Used)
    BY <1>3, <1>6, <1>7 DEF VolumeInv, LogIsRun
  <2>2. CASE Used = Used'
    BY <1>2, <1>7, <2>1, <2>2 DEF LogIsRun
  <2>3. CASE Used = Used' - 1
    BY <1>2, <1>7, <2>1, <2>3 DEF LogIsRun
  <2> QED BY <1>5, <2>2, <2>3
<1>9. SpaceLeft' /\ WritesAtTail' /\ CompleteErase'
  <2>1. Used' <= Pages - 1 /\ Used' >= 1
    BY <1>5, Units
  <2> QED BY <1>2, <1>3, <1>5, <2>1 DEF SpaceLeft, WritesAtTail, CompleteErase, WritingStates
<1>10. SuspendInv' /\ EraseInv'
  <2>1. state = "IDLE" => erasing = {}
    BY <1>3 DEF VolumeInv, SuspendInv
  <2>2. Size - Held < SectorSize + BufferSize => Size - Held' < SectorSize + BufferSize
    <3>1. Size \in Int /\ SectorSize \in Int /\ BufferSize \in Int /\ Held \in Int /\ inflight \in Nat
      BY <1>1, <1>4, Units
    <3>2. \A a, b, c, d \in Int, i \in Nat : a - d < b + c => a - (d + i) < b + c
      OBVIOUS
    <3> QED BY <1>5, <3>1, <3>2
  <2> QED BY <1>2, <1>3, <2>1, <2>2 DEF VolumeInv, SuspendInv, EraseInv, WritingStates, RollingStates
<1> QED BY <1>2, <1>6, <1>7, <1>8, <1>9, <1>10 DEF VolumeInv

\* The page that is programmed is the log's last one.
LEMMA ProgramKeeps ==
    ASSUME FlashTyped, VolumeInv, ProgramDone, UNCHANGED settings
    PROVE  VolumeInv' /\ ~EraseRuns /\ ~EraseRuns'
<1>1. /\ SectorBegin(headAddress) /\ tailAddress \in Address
      /\ Held \in 0 .. Size - 1 /\ Used \in Nat
  BY HeldTyped
<1>2. /\ busy = "PROGRAM" /\ busy' = "NO" /\ programmed' = programmed \cup {PageOf(writeAt)}
      /\ UNCHANGED <<settings, state, headAddress, tailAddress, sectorsLeft, inflight, writeAt, erasing, suspend>>
  BY DEF ProgramDone, fsVars
<1>3. /\ state \in WritingStates /\ inflight = 0 /\ Used >= 1
      /\ PageOf(writeAt) = (PageOf(headAddress) + Used - 1) % Pages
  <2>1. inflight = 0
    <3>1. ~(inflight > 0)
      BY <1>2 DEF VolumeInv, WritesAtTail
    <3> QED BY <3>1, Units DEF FlashTyped, ChipTyped
  <2> QED BY <1>2, <2>1 DEF VolumeInv, WritesAtTail
<1>4. ~EraseRuns /\ erasing # Sector
  BY <1>2, <1>3, SectorsMany DEF VolumeInv, SuspendInv, EraseInv, WritingStates, EraseRuns
<1>5. /\ ~EraseRuns' /\ ~HeadBehind /\ ~HeadAhead /\ ~HeadBehind' /\ ~HeadAhead'
      /\ Held' = Held /\ Used' = Used
  BY <1>2, <1>3, <1>4 DEF EraseRuns, WritingStates, HeadBehind, HeadAhead, Held, Used
<1>6. programmed' = Run(PageOf(headAddress), Used)
  <2> DEFINE a == PageOf(headAddress)
             m == Used - 1
  <2>1. a \in Int /\ m \in 0 .. Pages - 1 /\ m + 1 = Used /\ a + m = a + Used - 1
    <3>1. Used <= Pages - 1 /\ a \in Int /\ Pages \in Int
      BY <1>1, HeadPlace, Units DEF VolumeInv, SpaceLeft
    <3> QED BY <1>1, <1>3, <3>1
  <2>2. programmed = Run(a, Used) \/ programmed = Run(a, m)
    BY <1>4, <1>5 DEF VolumeInv, LogIsRun
  <2>3. PageOf(writeAt) = (a + m) % Pages
    BY <1>3, <2>1
  <2> HIDE DEF a, m
  <2>4. Run(a, m + 1) = Run(a, m) \cup {(a + m) % Pages}
    BY <2>1, RunNext
  <2> QED BY <1>2, <2>1, <2>2, <2>3, <2>4 DEF a
<1>7. LogIsRun' /\ SpaceLeft'
  BY <1>2, <1>5, <1>6 DEF VolumeInv, LogIsRun, SpaceLeft
<1>8. WritesAtTail' /\ SuspendInv' /\ CompleteErase'
  BY <1>2, <1>3 DEF VolumeInv, WritesAtTail, SuspendInv, CompleteErase, WritingStates
<1>9. EraseInv'
  BY <1>2, <1>5 DEF VolumeInv, EraseInv, RollingStates
<1> QED BY <1>4, <1>5, <1>7, <1>8, <1>9 DEF VolumeInv

\* A sector before the log is erased, or the log's first one, or one after another.
LEMMA EraseDoneKeeps ==
    ASSUME Board, FlashTyped, VolumeInv, EraseDone, UNCHANGED settings
    PROVE  VolumeInv' /\ (EraseRuns /\ ~EraseRuns' => programmed' = {})
<1>1. /\ SectorBegin(headAddress) /\ tailAddress \in Address
      /\ Held \in 0 .. Size - 1 /\ Used \in Nat /\ Used <= Pages - 1
  BY HeldTyped DEF VolumeInv, SpaceLeft
<1>2. /\ busy = "ERASE" /\ busy' = "NO" /\ erasing' = {} /\ suspend' = "NO"
      /\ programmed' = programmed \ PagesOf(erasing)
      /\ UNCHANGED <<settings, state, headAddress, tailAddress, sectorsLeft, inflight, writeAt>>
  BY DEF EraseDone, fsVars
<1>3. erasing # {} /\ suspend # "SUSPENDED" /\ inflight = 0
      /\ state \in {"IDLE", "ALL_ERASING", "INITIAL_ERASING", "ROLLING_ERASING", "ROLLING_ERASE_SUSPENDING"}
  <2>1. erasing # {} /\ suspend # "SUSPENDED"
    BY <1>2 DEF VolumeInv, SuspendInv
  <2>2. ~(inflight > 0)
    BY <1>2 DEF VolumeInv, WritesAtTail
  <2>3. inflight = 0
    BY <2>2, Units DEF FlashTyped, ChipTyped
  <2>4. state # "ROLLING_ERASE_PENDING" /\ state # "ROLLING_ERASE_SUSPENDED"
    BY <2>1 DEF VolumeInv, EraseInv, SuspendInv
  <2> QED BY <2>1, <2>3, <2>4 DEF FlashTyped, VolumeTyped, State
<1>4. Held' = Held /\ Used' = Used
  BY <1>2 DEF Held, Used
<1>5. SpaceLeft' /\ WritesAtTail' /\ SuspendInv'
  <2>1. SpaceLeft' /\ WritesAtTail'
    BY <1>1, <1>2, <1>3, <1>4 DEF SpaceLeft, WritesAtTail
  <2>2. SuspendInv'
    BY <1>2, <1>3 DEF VolumeInv, SuspendInv
  <2> QED BY <2>1, <2>2
<1>6. EraseInv'
  BY <1>2, <1>3, <1>4, SectorsMany DEF VolumeInv, EraseInv, RollingStates
<1>7. CompleteErase'
  <2>1. SUFFICES ASSUME state = "ALL_ERASING"
                 PROVE  \A p \in programmed' : p \div PagesPerSector >= Sectors - sectorsLeft
    BY <1>2 DEF VolumeInv, CompleteErase
  <2>2. \A p \in programmed' : p \in programmed /\ p \div PagesPerSector \notin erasing
    BY <1>2 DEF PagesOf, FlashTyped, ChipTyped
  <2> QED BY <2>1, <2>2 DEF VolumeInv, CompleteErase
<1>8. LogIsRun' /\ (EraseRuns /\ ~EraseRuns' => programmed' = {})
  <2>1. CASE state = "ALL_ERASING"
    BY <1>2, <2>1 DEF LogIsRun, EraseRuns
  <2>2. CASE state = "IDLE"
    <3>1. erasing = Sector /\ headAddress = 0 /\ tailAddress = 0
      BY <1>3, <2>2 DEF VolumeInv, EraseInv
    <3>2. programmed' = {}
      BY <1>2, <3>1, PageSector DEF FlashTyped, ChipTyped
    <3>3. Used' = 0 /\ Run(PageOf(headAddress'), Used') = {}
      BY <1>4, <3>1, EmptyLog DEF Used, Held
    <3>4. ~HeadBehind' /\ ~HeadAhead'
      BY <1>2, <2>2 DEF HeadBehind, HeadAhead
    <3> QED BY <3>2, <3>3, <3>4 DEF LogIsRun
  <2>3. CASE state = "INITIAL_ERASING"
    <3>1. ~EraseRuns /\ HeadAhead
      BY <1>3, <2>3 DEF VolumeInv, EraseInv, EraseRuns, HeadAhead
    <3>2. PICK s \in Sector : /\ erasing = {s} /\ SectorOf(headAddress) = (s + 1) % Sectors
                              /\ Used + PagesPerSector <= Pages - 1
                              /\ programmed = Run(s * PagesPerSector, Used + PagesPerSector)
      BY <3>1 DEF VolumeInv, LogIsRun
    <3> DEFINE a == s * PagesPerSector
               m == PagesPerSector
    <3>3. a \in Int /\ m \in Nat /\ m \in 0 .. Used + m /\ Used + m \in 0 .. Pages /\ (Used + m) - m = Used
      BY <1>1, <3>2, Units DEF Sector
    <3>4. PagesOf(erasing) = Run(a, m)
      BY <3>2, SectorRun
    <3>5. PageOf(headAddress) = (a + m) % Pages
      BY <1>1, <3>2, NextSectorPage, HeadPlace
    <3> HIDE DEF a
    <3>6. Run(a, Used + m) \ Run(a, m) = Run(a + m, (Used + m) - m)
      <4> HIDE DEF m
      <4> QED BY <3>3, RunShrinks
    <3>7. Run((a + m) % Pages, Used) = Run(a + m, Used)
      BY <1>1, <3>3, RunAround
    <3>8. programmed' = Run(PageOf(headAddress'), Used')
      BY <1>2, <1>4, <3>2, <3>3, <3>4, <3>5, <3>6, <3>7 DEF a
    <3>9. ~HeadBehind' /\ ~HeadAhead'
      BY <1>2, <2>3 DEF HeadBehind, HeadAhead
    <3> QED BY <3>1, <3>8, <3>9 DEF LogIsRun
  <2>4. CASE state \in {"ROLLING_ERASING", "ROLLING_ERASE_SUSPENDING"}
    <3>1. erasing = {SectorOf(headAddress)}
      BY <1>3, <2>4 DEF VolumeInv, EraseInv
    <3>2. ~EraseRuns /\ ~HeadBehind /\ ~HeadAhead /\ HeadBehind' /\ ~HeadAhead'
      BY <1>2, <1>3, <2>4, <3>1, SectorsMany DEF EraseRuns, HeadBehind, HeadAhead
    <3> DEFINE a == PageOf(headAddress)
               m == PagesPerSector
    <3>3. programmed = Run(a, Used)
      BY <1>2, <3>2 DEF VolumeInv, LogIsRun
    <3>4. PagesOf(erasing) = Run(a, m)
      BY <1>1, <3>1, HeadPlace, SectorRun
    <3>5. a \in Int /\ m \in 0 .. Used /\ Used \in 0 .. Pages
      <4>1. Used > PagesPerSector
        BY <2>4, RollingHasSector DEF RollingStates, VolumeInv
      <4> QED BY <1>1, <4>1, HeadPlace, Units
    <3> HIDE DEF a
    <3>6. Run(a, Used) \ Run(a, m) = Run(a + m, Used - m)
      <4> HIDE DEF m
      <4> QED BY <3>5, RunShrinks
    <3>7. programmed' = Run(PageOf(headAddress') + PagesPerSector, Used' - PagesPerSector)
      BY <1>2, <1>4, <3>3, <3>4, <3>6 DEF a
    <3> QED BY <3>2, <3>7 DEF LogIsRun
  <2> QED BY <1>3, <2>1, <2>2, <2>3, <2>4
<1> QED BY <1>5, <1>6, <1>7, <1>8 DEF VolumeInv

\* The chip takes the suspend of an erase.
LEMMA EraseSuspendsKeeps ==
    ASSUME VolumeInv, EraseSuspends, UNCHANGED settings
    PROVE  VolumeInv' /\ UNCHANGED programmed /\ (EraseRuns' <=> EraseRuns)
<1>1. /\ busy = "ERASE" /\ suspend = "REQUESTED" /\ busy' = "NO" /\ suspend' = "SUSPENDED"
      /\ UNCHANGED <<settings, state, headAddress, tailAddress, sectorsLeft, programmed, inflight, writeAt, erasing>>
  BY DEF EraseSuspends, fsVars
<1>2. state = "ROLLING_ERASE_SUSPENDING" /\ erasing # {}
  BY <1>1 DEF VolumeInv, SuspendInv
<1>3. Held' = Held /\ Used' = Used /\ (EraseRuns' <=> EraseRuns)
  BY <1>1 DEF Held, Used, EraseRuns
<1>4. LogIsRun' /\ SpaceLeft'
  BY <1>1, <1>2, <1>3 DEF VolumeInv, LogIsRun, SpaceLeft, HeadBehind, HeadAhead
<1>5. WritesAtTail' /\ SuspendInv' /\ CompleteErase'
  BY <1>1, <1>2, <1>3 DEF VolumeInv, WritesAtTail, SuspendInv, CompleteErase, WritingStates
<1>6. EraseInv'
  BY <1>1, <1>3 DEF VolumeInv, EraseInv, RollingStates
<1> QED BY <1>1, <1>3, <1>4, <1>5, <1>6 DEF VolumeInv

-----------------------------------------------------------------------------
(* The power. *)

\* Where a page is being programmed: after the run of those that are, or the last of them.
LEMMA ProgrammedRun ==
    ASSUME FlashTyped, VolumeInv, ~EraseRuns, ~HeadBehind, ~HeadAhead
    PROVE  \E length \in Nat, added \in {0, 1} :
              /\ programmed = Run(PageOf(headAddress), length) /\ length + added <= Pages - 1
              /\ programmed \cup Programming = Run(PageOf(headAddress), length + added)
              /\ length = Used \/ length = Used - 1
<1> DEFINE a == PageOf(headAddress)
<1>1. /\ SectorBegin(headAddress) /\ tailAddress \in Address
      /\ Held \in 0 .. Size - 1 /\ Used \in Nat /\ Used <= Pages - 1 /\ a \in Int /\ Pages \in Int
  BY HeldTyped, HeadPlace, Units DEF VolumeInv, SpaceLeft
<1>2. ASSUME NEW m \in Int, m >= 0, m + 1 <= Pages - 1
      PROVE  Run(a, m + 1) = Run(a, m) \cup {(a + m) % Pages}
  <2>1. a \in Int /\ m \in 0 .. Pages - 1
    BY <1>1, <1>2
  <2> HIDE DEF a
  <2> QED BY <2>1, RunNext
<1>3. CASE Programming = {} /\ programmed = Run(a, Used)
  <2>1. Used + 0 = Used /\ programmed \cup Programming = programmed
    BY <1>1, <1>3
  <2> QED BY <1>1, <1>3, <2>1
<1>4. ASSUME NEW u \in 1 .. Pages - 1, Programming = {(a + u - 1) % Pages},
             \/ programmed = Run(a, u) /\ Used = u
             \/ programmed = Run(a, u - 1) /\ (Used = u \/ Used = u - 1)
      PROVE  \E length \in Nat, added \in {0, 1} :
                /\ programmed = Run(a, length) /\ length + added <= Pages - 1
                /\ programmed \cup Programming = Run(a, length + added)
                /\ length = Used \/ length = Used - 1
  <2>1. u - 1 \in Nat /\ (u - 1) + 1 = u /\ a + (u - 1) = a + u - 1 /\ u \in Nat /\ u + 0 = u
        /\ u <= Pages - 1 /\ (Used = u => u - 1 = Used - 1)
    BY <1>1
  <2> HIDE DEF a
  <2>2. Run(a, u) = Run(a, u - 1) \cup Programming
    <3>1. Run(a, (u - 1) + 1) = Run(a, u - 1) \cup {(a + (u - 1)) % Pages}
      BY <1>2, <2>1
    <3> QED BY <1>4, <2>1, <3>1
  <2>3. CASE programmed = Run(a, u) /\ Used = u
    <3>1. programmed \cup Programming = Run(a, u + 0)
      BY <2>1, <2>2, <2>3
    <3> WITNESS u \in Nat, 0 \in {0, 1}
    <3> QED BY <2>1, <2>3, <3>1
  <2>4. CASE programmed = Run(a, u - 1) /\ (Used = u \/ Used = u - 1)
    <3>1. programmed \cup Programming = Run(a, (u - 1) + 1) /\ u - 1 \in Nat
      BY <2>1, <2>2, <2>4
    <3> WITNESS u - 1 \in Nat, 1 \in {0, 1}
    <3> QED BY <2>1, <2>4, <3>1
  <2> QED BY <1>4, <2>3, <2>4
<1>5. CASE busy = "PROGRAM"
  <2>1. /\ Programming = {(a + Used - 1) % Pages} /\ Used >= 1
        /\ programmed = Run(a, Used) \/ programmed = Run(a, Used - 1)
    BY <1>5 DEF VolumeInv, WritesAtTail, LogIsRun, Programming
  <2>2. Used \in 1 .. Pages - 1
    BY <1>1, <2>1
  <2> QED BY <1>4, <2>1, <2>2
<1>6. CASE busy # "PROGRAM" /\ inflight > 0
  <2>1. /\ writeAt = tailAddress /\ (tailAddress % PageSize) + inflight <= PageSize
        /\ Held < Size - PageSize - BufferSize /\ programmed = Run(a, Used)
    BY <1>6 DEF VolumeInv, WritesAtTail, LogIsRun
  <2>2. inflight \in 1 .. PageSize
    <3>1. inflight \in 0 .. PageSize
      BY DEF FlashTyped, ChipTyped
    <3> QED BY <1>6, <3>1, Units
  <2>3. PICK u \in 1 .. Pages - 1 : /\ PageOf(tailAddress) = (a + u - 1) % Pages
                                    /\ Used = u - 1 \/ Used = u
    <3> DEFINE d == Length(headAddress, tailAddress)
               v == PagesFor(d + inflight)
    <3>1. Length(headAddress, tailAddress) < Size - PageSize - BufferSize
      BY <2>1 DEF Held
    <3>2. /\ v \in 1 .. Pages - 1 /\ PageOf(tailAddress) = (a + v - 1) % Pages
          /\ tailAddress % PageSize = 0 <=> PagesFor(d) = v - 1
          /\ tailAddress % PageSize # 0 <=> PagesFor(d) = v
      BY <1>1, <2>1, <2>2, <3>1, LogGrows
    <3>3. Used = PagesFor(d)
      BY DEF Used, Held
    <3> HIDE DEF d, v, a
    <3> QED BY <3>2, <3>3
  <2>4. Programming = {(a + u - 1) % Pages}
    BY <1>6, <2>1, <2>3 DEF Programming
  <2> QED BY <1>4, <2>1, <2>3, <2>4
<1>7. CASE busy # "PROGRAM" /\ ~(inflight > 0)
  <2>1. Programming = {} /\ programmed = Run(a, Used)
    BY <1>7 DEF VolumeInv, LogIsRun, Programming
  <2> QED BY <1>3, <2>1
<1> QED BY <1>5, <1>6, <1>7

\* Whatever is being written and erased, the programmed pages are one run, from the
\* beginning of a sector; what is written goes on with it, what is erased is its first
\* sector.
LEMMA WhatIsProgrammed ==
    ASSUME Board, FlashTyped, VolumeInv, ~EraseRuns
    PROVE  \E k \in Sector, length \in Nat, added \in {0, 1} :
              /\ programmed = Run(k * PagesPerSector, length) /\ length + added <= Pages - 1
              /\ programmed \cup Programming = Run(k * PagesPerSector, length + added)
              /\ erasing = {} \/ (erasing = {k} /\ PagesPerSector <= length)
<1>1. /\ SectorBegin(headAddress) /\ Used \in Nat /\ Used <= Pages - 1 /\ PagesPerSector \in Nat /\ Pages \in Nat
      /\ SectorOf(headAddress) \in Sector /\ PageOf(headAddress) = SectorOf(headAddress) * PagesPerSector
      /\ PageOf(headAddress) \in Nat
  BY HeldTyped, HeadPlace, Units DEF VolumeInv, SpaceLeft
<1>2. state \notin WritingStates => Programming = {}
  BY DEF VolumeInv, WritesAtTail, Programming
<1>3. CASE HeadBehind
  <2> DEFINE k == (SectorOf(headAddress) + 1) % Sectors
             m == Used - PagesPerSector
  <2>1. Used > PagesPerSector /\ Programming = {} /\ erasing = {}
    BY <1>2, <1>3, RollingHasSector DEF HeadBehind, RollingStates, WritingStates, VolumeInv
  <2>2. k \in Sector /\ k * PagesPerSector = (PageOf(headAddress) + PagesPerSector) % Pages
    BY <1>1, NextSectorPage
  <2>3. programmed = Run(PageOf(headAddress) + PagesPerSector, m)
    BY <1>3 DEF VolumeInv, LogIsRun
  <2>4. m \in Nat /\ m + 0 <= Pages - 1 /\ m + 0 = m /\ PageOf(headAddress) + PagesPerSector \in Int /\ m \in Int
    BY <1>1, <2>1
  <2> HIDE DEF k, m
  <2>5. programmed = Run(k * PagesPerSector, m) /\ programmed \cup Programming = Run(k * PagesPerSector, m + 0)
    BY <2>1, <2>2, <2>3, <2>4, RunAround
  <2> USE <2>2, <2>4
  <2> WITNESS k \in Sector, m \in Nat, 0 \in {0, 1}
  <2> QED BY <2>1, <2>4, <2>5
<1>4. CASE HeadAhead
  <2>1. Programming = {}
    BY <1>2, <1>4 DEF HeadAhead, WritingStates
  <2>2. PICK s \in Sector : /\ erasing = {s} /\ Used + PagesPerSector <= Pages - 1
                            /\ programmed = Run(s * PagesPerSector, Used + PagesPerSector)
    BY <1>4 DEF VolumeInv, LogIsRun
  <2> DEFINE m == Used + PagesPerSector
  <2>3. m \in Nat /\ m + 0 <= Pages - 1 /\ m + 0 = m /\ PagesPerSector <= m
    BY <1>1, <2>2
  <2>4. programmed = Run(s * PagesPerSector, m) /\ programmed \cup Programming = Run(s * PagesPerSector, m + 0)
    BY <2>1, <2>2, <2>3
  <2> HIDE DEF m
  <2> USE <2>3
  <2> WITNESS s \in Sector, m \in Nat, 0 \in {0, 1}
  <2> QED BY <2>2, <2>3, <2>4
<1>5. CASE ~HeadBehind /\ ~HeadAhead
  <2> DEFINE k == SectorOf(headAddress)
  <2>1. PICK length \in Nat, added \in {0, 1} :
              /\ programmed = Run(PageOf(headAddress), length) /\ length + added <= Pages - 1
              /\ programmed \cup Programming = Run(PageOf(headAddress), length + added)
              /\ length = Used \/ length = Used - 1
    BY <1>5, ProgrammedRun
  <2>2. erasing = {} \/ (erasing = {k} /\ state \in RollingStates)
    BY <1>5, SectorsMany DEF EraseRuns, HeadBehind, HeadAhead, VolumeInv, EraseInv, FlashTyped, VolumeTyped, State, RollingStates
  <2>3. erasing # {} => PagesPerSector <= length
    <3>1. state \in RollingStates => Used > PagesPerSector
      BY RollingHasSector DEF VolumeInv
    <3> QED BY <1>1, <2>1, <2>2, <3>1
  <2> USE <1>1
  <2> WITNESS k \in Sector, length \in Nat, added \in {0, 1}
  <2> QED BY <1>1, <2>1, <2>2, <2>3
<1> QED BY <1>3, <1>4, <1>5

\* What a power loss leaves of a write and of an erase: each has happened or not.
LEMMA WhatIsLeft ==
    ASSUME Board, FlashTyped, VolumeInv, ~EraseRuns, NEW pages \in AfterReboot
    PROVE  \E k \in Sector, length \in Nat, added, lost \in {0, 1} :
              /\ length + added <= Pages - 1 /\ lost * PagesPerSector <= length + added
              /\ programmed = Run(k * PagesPerSector, length)
              /\ pages = Run(k * PagesPerSector + lost * PagesPerSector, length + added - lost * PagesPerSector)
<1>1. PICK k \in Sector, length \in Nat, more \in {0, 1} :
              /\ programmed = Run(k * PagesPerSector, length) /\ length + more <= Pages - 1
              /\ programmed \cup Programming = Run(k * PagesPerSector, length + more)
              /\ erasing = {} \/ (erasing = {k} /\ PagesPerSector <= length)
  BY WhatIsProgrammed
<1>2. PICK written \in {{}, Programming}, gone \in {{}, PagesOf(erasing)} : pages = (programmed \cup written) \ gone
  BY DEF AfterReboot
<1> DEFINE a == k * PagesPerSector
           m == PagesPerSector
<1>3. a \in Int /\ m \in Nat /\ Pages \in Nat /\ PagesOf({k}) = Run(a, m) /\ PagesOf({}) = {}
  <2>1. k \in Int
    BY DEF Sector
  <2>2. PagesOf({}) = {}
    BY DEF PagesOf
  <2> QED BY <2>1, <2>2, Units, SectorRun
<1>4. PICK added \in {0, 1} : programmed \cup written = Run(a, length + added) /\ length + added <= Pages - 1
  <2>1. CASE written = {}
    <3>1. programmed \cup written = Run(a, length + 0) /\ length + 0 <= Pages - 1
      BY <1>1, <1>3, <2>1
    <3> QED BY <3>1
  <2>2. CASE written = Programming
    BY <1>1, <2>2
  <2> QED BY <1>2, <2>1, <2>2
<1> DEFINE c == length + added
<1>5. c \in Nat /\ c \in 0 .. Pages /\ length <= c /\ (m <= length => m \in 0 .. c)
      /\ 0 * m = 0 /\ 1 * m = m /\ a + 0 = a /\ c - 0 = c
  BY <1>3, <1>4
<1> HIDE DEF c, a
<1>6. CASE gone = {}
  <2>1. pages = Run(a, c)
    BY <1>2, <1>4, <1>6 DEF c
  <2>2. pages = Run(a + 0 * m, c - 0 * m) /\ 0 * m <= c
    BY <1>5, <2>1
  <2> WITNESS k \in Sector, length \in Nat, added \in {0, 1}, 0 \in {0, 1}
  <2> QED BY <1>1, <1>3, <1>4, <1>5, <2>2 DEF a, c
<1>7. CASE gone # {}
  <2>1. gone = Run(a, m) /\ m <= length
    BY <1>1, <1>2, <1>3, <1>7
  <2>2. Run(a, c) \ Run(a, m) = Run(a + m, c - m)
    <3>1. a \in Int /\ c \in 0 .. Pages /\ m \in 0 .. c
      BY <1>3, <1>5, <2>1
    <3> HIDE DEF m
    <3> QED BY <3>1, RunShrinks
  <2>3. pages = Run(a + 1 * m, c - 1 * m) /\ 1 * m <= c
    BY <1>2, <1>3, <1>4, <1>5, <2>1, <2>2 DEF c
  <2> WITNESS k \in Sector, length \in Nat, added \in {0, 1}, 1 \in {0, 1}
  <2> QED BY <1>1, <1>3, <1>4, <1>5, <2>3 DEF a, c
<1> QED BY <1>6, <1>7

\* So the boot finds one run.
LEMMA BootFindsRun ==
    ASSUME Board, FlashTyped, VolumeInv, ~EraseRuns, NEW pages \in AfterReboot
    PROVE  \E k \in Sector, length \in 0 .. Pages - 1 : pages = Run(k * PagesPerSector, length)
<1>1. PICK k \in Sector, length \in Nat, added \in {0, 1}, lost \in {0, 1} :
              /\ length + added <= Pages - 1 /\ lost * PagesPerSector <= length + added
              /\ pages = Run(k * PagesPerSector + lost * PagesPerSector, length + added - lost * PagesPerSector)
  BY WhatIsLeft
<1> DEFINE m == PagesPerSector
           c == length + added - lost * m
           b == k * m + lost * m
           j == IF lost = 0 THEN k ELSE (k + 1) % Sectors
<1>2. m \in Nat /\ k \in Int /\ Pages \in Nat /\ c \in 0 .. Pages - 1 /\ c \in Int /\ b \in Int /\ pages = Run(b, c)
  <2>1. m \in Nat /\ k \in Int /\ Pages \in Nat
    BY Units DEF Sector
  <2>2. lost * m = 0 \/ lost * m = m
    BY <2>1
  <2>3. lost * m \in Nat /\ length + added \in Nat
    BY <2>1, <2>2
  <2> QED BY <1>1, <2>1, <2>3
<1>3. j \in Sector /\ Run(j * m, c) = Run(b, c)
  <2>1. CASE lost = 0
    <3>1. b = k * m /\ j = k
      BY <1>2, <2>1
    <3> QED BY <3>1
  <2>2. CASE lost = 1
    <3>1. b = k * m + m /\ j = (k + 1) % Sectors
      BY <1>2, <2>2
    <3>2. j \in Sector /\ j * m = b % Pages
      BY <3>1, NextSectorPage
    <3> HIDE DEF b, c, j
    <3> QED BY <1>2, <3>2, RunAround
  <2> QED BY <2>1, <2>2
<1> HIDE DEF j, c, b
<1> USE <1>2, <1>3
<1> WITNESS j \in Sector, c \in 0 .. Pages - 1
<1> QED BY <1>2, <1>3

\* The board boots with the log it finds.
LEMMA RebootKeeps ==
    ASSUME Board, FlashTyped, VolumeInv, reboot
    PROVE  VolumeInv' /\ ~EraseRuns /\ ~EraseRuns'
<1>1. ~EraseRuns
  BY DEF Board, reboot
<1>2. /\ programmed' \in AfterReboot
      /\ headAddress' = StartOfUsedSpace(programmed')
      /\ tailAddress' = StartOfFreeSpace(programmed', headAddress')
      /\ state' = "IDLE" /\ sectorsLeft' = 0
      /\ inflight' = 0 /\ writeAt' = 0 /\ busy' = "NO" /\ erasing' = {} /\ suspend' = "NO"
      /\ UNCHANGED settings
  BY DEF reboot, flashfsInit
<1>3. PICK k \in Sector, length \in 0 .. Pages - 1 : programmed' = Run(k * PagesPerSector, length)
  BY <1>1, <1>2, BootFindsRun
<1>4. SectorBegin(headAddress') /\ programmed' = Run(PageOf(headAddress'), length)
  <2>1. headAddress' = IF length = 0 THEN 0 ELSE k * SectorSize
    BY <1>2, <1>3, FoundHead
  <2>2. SectorBegin(headAddress')
    BY <1>2, FoundHeadTyped DEF SectorBegin
  <2>3. CASE length = 0
    BY <1>3, <2>2, <2>3, EmptyLog
  <2>4. CASE length # 0
    <3>1. SectorOf(headAddress') = k
      BY <2>1, <2>4, SectorStart DEF Sector
    <3>2. PageOf(headAddress') = k * PagesPerSector
      BY <2>2, <3>1, HeadPlace
    <3> QED BY <1>3, <2>2, <3>2
  <2> QED BY <2>3, <2>4
<1>5. Used' = length
  <2> DEFINE h == headAddress'
  <2>1. SectorBegin(h) /\ programmed' = Run(PageOf(h), length)
    BY <1>4
  <2>2. tailAddress' = ((PageOf(h) + length) % Pages) * PageSize
    BY <1>2, <2>1, FoundTail
  <2>3. PagesFor(Length(h, ((PageOf(h) + length) % Pages) * PageSize)) = length
    <3> HIDE DEF h
    <3> QED BY <2>1, PageAddress
  <2> QED BY <2>2, <2>3 DEF Used, Held
<1>6. LogIsRun' /\ SpaceLeft'
  <2>1. ~HeadBehind' /\ ~HeadAhead' /\ length <= Pages - 1
    BY <1>2, <1>3, Units DEF HeadBehind, HeadAhead
  <2> QED BY <1>4, <1>5, <2>1 DEF LogIsRun, SpaceLeft
<1>7. WritesAtTail' /\ SuspendInv' /\ EraseInv' /\ CompleteErase'
  BY <1>2 DEF WritesAtTail, SuspendInv, EraseInv, CompleteErase, RollingStates
<1>8. ~EraseRuns'
  BY <1>2, SectorsMany DEF EraseRuns
<1> QED BY <1>1, <1>6, <1>7, <1>8 DEF VolumeInv

-----------------------------------------------------------------------------
(* Every step, and what it shows to who reads the volume. *)

\* A step that leaves the pages alone, one that appends or takes a sector away, and the
\* steps of a complete erase.
Shows ==
    \/ UNCHANGED programmed /\ (EraseRuns' <=> EraseRuns)
    \/ ~EraseRuns /\ ~EraseRuns' /\ programmed' \in AfterReboot
    \/ ~EraseRuns /\ EraseRuns' /\ UNCHANGED programmed
    \/ EraseRuns /\ EraseRuns' /\ programmed' \subseteq programmed
    \/ EraseRuns /\ ~EraseRuns' /\ programmed' = {}

\* A flush begins no complete erase and ends none.
LEMMA FlushShows ==
    ASSUME NEW used, FlushBuffers(used), UNCHANGED <<programmed, erasing>>
    PROVE  Shows
<1>1. state' = "ALL_ERASING" <=> state = "ALL_ERASING"
  BY DEF FlushBuffers, MustSuspend, flashfsWriteBuffers, flashfsIsReady
<1> QED BY <1>1 DEF Shows, EraseRuns

\* An update of the logger.
LEMMA UpdateKeepsVolume ==
    ASSUME Board, TypeInv, RingInv, LoggerInv, VolumeInv, Update
    PROVE  VolumeInv' /\ Shows
<1>1. /\ UNCHANGED settings
      /\ \/ NoWrite
         \/ \E m \in Nat : Writes(m)
         \/ \E m \in Nat : WritesAndFlushes(m)
         \/ flashfsLoopInitialErase /\ flashfsIsReady /\ buffered = 0
         \/ flashfsClose /\ (PromptDma => inflight = 0 \/ \E m \in Nat : AfterWrite(m) = 0)
         \/ flashfsClose /\ buffered = 0
         \/ flashfsEraseCompletely /\ flashfsIsReady /\ settings.erases = TRUE
  BY UpdateSteps
<1>2. FlashTyped
  BY DEF TypeInv, FlashTyped
<1>3. \A m \in Nat : AfterWrite(m) \in 0 .. BufferSize - 1 /\ inflight <= AfterWrite(m)
  <2>1. /\ buffered \in Nat /\ buffered <= BufferSize - 1 /\ inflight <= buffered /\ inflight \in Nat
        /\ BufferSize \in Nat /\ BufferSize > 0
    BY GeometryNat DEF RingInv, RingTyped, InFlightIsBuffered
  <2> QED BY <2>1 DEF AfterWrite, Least
<1>4. CASE NoWrite \/ \E m \in Nat : Writes(m)
  <2>1. VolumeUntouched
    BY <1>1, <1>4 DEF NoWrite, Writes, VolumeUntouched, fsVars
  <2>2. Shows
    BY <2>1 DEF VolumeUntouched, Shows, EraseRuns, chipVars
  <2> QED BY <2>1, <2>2, VolumeKept
<1>5. CASE \E m \in Nat : WritesAndFlushes(m)
  <2>1. PICK m \in Nat : WritesAndFlushes(m)
    BY <1>5
  <2>2. /\ AfterWrite(m) \in 0 .. BufferSize - 1 /\ FlushBuffers(AfterWrite(m))
        /\ UNCHANGED <<settings, headAddress, tailAddress, sectorsLeft, programmed, busy, erasing>>
    BY <1>1, <1>3, <2>1 DEF WritesAndFlushes
  <2> QED BY <1>2, <2>2, FlushKeeps, FlushShows
<1>6. CASE flashfsLoopInitialErase /\ flashfsIsReady /\ buffered = 0
  <2>1. Shows
    BY <1>6 DEF flashfsLoopInitialErase, Shows, EraseRuns, chipVars
  <2> QED BY <1>1, <1>2, <1>6, <2>1, InitialEraseKeeps
<1>7. CASE \/ flashfsClose /\ (PromptDma => inflight = 0 \/ \E m \in Nat : AfterWrite(m) = 0)
           \/ flashfsClose /\ buffered = 0
  <2>1. inflight \in Nat /\ inflight <= buffered
    BY DEF RingInv, RingTyped, InFlightIsBuffered
  <2>2. inflight = 0
    BY <1>3, <1>7, <2>1 DEF Board
  <2>3. Shows
    BY <1>7 DEF flashfsClose, Shows, EraseRuns, chipVars
  <2> QED BY <1>1, <1>2, <1>7, <2>2, <2>3, CloseKeeps
<1>8. CASE flashfsEraseCompletely /\ flashfsIsReady /\ settings.erases = TRUE
  <2>1. VolumeInv' /\ EraseRuns' /\ UNCHANGED programmed
    BY <1>1, <1>2, <1>8, CompleteEraseKeeps
  <2> QED BY <2>1 DEF Shows
<1> QED BY <1>1, <1>4, <1>5, <1>6, <1>7, <1>8

\* What the chip does on its own.
LEMMA ChipKeepsVolume ==
    ASSUME Board, FlashTyped, VolumeInv, Chip, UNCHANGED settings
    PROVE  VolumeInv' /\ Shows
<1>1. CASE flashfsWriteCallback
  BY <1>1, CallbackKeeps DEF Shows
<1>2. CASE ProgramDone
  <2>1. VolumeInv' /\ ~EraseRuns /\ ~EraseRuns'
    BY <1>2, ProgramKeeps
  <2>2. programmed' \in AfterReboot
    <3>1. programmed' = (programmed \cup Programming) \ {}
      BY <1>2 DEF ProgramDone, Programming
    <3> QED BY <3>1 DEF AfterReboot
  <2> QED BY <2>1, <2>2 DEF Shows
<1>3. CASE EraseDone
  <2>1. VolumeInv' /\ (EraseRuns /\ ~EraseRuns' => programmed' = {})
    BY <1>3, EraseDoneKeeps
  <2>2. programmed' = (programmed \cup {}) \ PagesOf(erasing)
    BY <1>3 DEF EraseDone
  <2>3. programmed' \subseteq programmed /\ programmed' \in AfterReboot
    BY <2>2 DEF AfterReboot
  <2>4. EraseRuns' => EraseRuns
    BY <1>3, SectorsMany DEF EraseDone, EraseRuns, fsVars
  <2> QED BY <2>1, <2>3, <2>4 DEF Shows
<1>4. CASE EraseSuspends
  BY <1>4, EraseSuspendsKeeps DEF Shows
<1> QED BY <1>1, <1>2, <1>3, <1>4 DEF Chip

\* The erase in the background.
LEMMA EraseKeepsVolume ==
    ASSUME Board, FlashTyped, VolumeInv, flashfsEraseAsync, UNCHANGED settings
    PROVE  VolumeInv' /\ Shows
<1>1. flashIsReady /\ UNCHANGED <<settings, tailAddress>>
  BY DEF flashfsEraseAsync
<1>2. CASE eraseAll
  BY <1>1, <1>2, EraseAllKeeps DEF Shows
<1>3. CASE eraseInitial
  BY <1>1, <1>3, EraseInitialKeeps DEF Shows
<1>4. CASE eraseRolling
  BY <1>1, <1>4, EraseRollingKeeps DEF Shows
<1>5. CASE eraseSuspending \/ eraseResume
  BY <1>1, <1>5, SuspendKeeps DEF Shows
<1> QED BY <1>2, <1>3, <1>4, <1>5 DEF flashfsEraseAsync

\* Every step of the board.
LEMMA VolumeSteps ==
    ASSUME Board, TypeInv, RingInv, LoggerInv, VolumeInv, [Next]_vars
    PROVE  VolumeInv' /\ Shows
<1>1. FlashTyped
  BY DEF TypeInv, FlashTyped
<1>2. CASE Update
  BY <1>2, UpdateKeepsVolume
<1>3. CASE blackboxFlush
  <2>1. /\ FlushBuffers(buffered)
        /\ UNCHANGED <<settings, headAddress, tailAddress, sectorsLeft, programmed, busy, erasing>>
    BY <1>3 DEF blackboxFlush, flashfsFlushAsync, blackboxVars
  <2>2. buffered \in 0 .. BufferSize - 1
    BY <1>1 DEF FlashTyped, VolumeTyped
  <2> QED BY <1>1, <2>1, <2>2, FlushKeeps, FlushShows
<1>4. CASE taskMain
  BY <1>1, <1>4, EraseKeepsVolume DEF taskMain, blackboxVars
<1>5. CASE mspDataflashRead \/ flushSync
  BY <1>5 DEF mspDataflashRead, flushSync, FlushSyncStep, syncWait, syncErase, syncWrite,
     syncDone, RingInv, Board
<1>6. CASE mspDataflashErase \/ UNCHANGED vars
  <2>1. VolumeUntouched
    BY <1>6 DEF mspDataflashErase, VolumeUntouched, vars, blackboxVars, flashfsVars, fsVars
  <2>2. Shows
    BY <2>1 DEF VolumeUntouched, Shows, EraseRuns, chipVars
  <2> QED BY <2>1, <2>2, VolumeKept
<1>7. CASE chip
  BY <1>1, <1>7, ChipKeepsVolume DEF chip, blackboxVars
<1>8. CASE reboot
  <2>1. VolumeInv' /\ ~EraseRuns /\ ~EraseRuns'
    BY <1>1, <1>8, RebootKeeps
  <2>2. programmed' \in AfterReboot
    BY <1>8 DEF reboot, flashfsInit
  <2> QED BY <2>1, <2>2 DEF Shows
<1> QED BY <1>2, <1>3, <1>4, <1>5, <1>6, <1>7, <1>8 DEF Next

-----------------------------------------------------------------------------
(* The theorems about the volume. *)

\* The inductive invariant of the board.
BoardInv == TypeInv /\ RingInv /\ HeaderNext /\ LoggerInv /\ VolumeInv

\* A board with a blank volume has it.
LEMMA BoardBegins ==
    ASSUME Init
    PROVE  BoardInv
<1>1. TypeInv /\ RingInv /\ HeaderNext
  BY TypeBegins, RingBegins
<1>2. LoggerInv
  BY DEF Init, Blank, LoggerInv
<1>3. Held = 0 /\ Used = 0 /\ Run(PageOf(headAddress), Used) = {}
  BY EmptyLog DEF Init, Blank, Held, Used
<1>4. LogIsRun /\ SpaceLeft
  BY <1>3, Units DEF Init, Blank, LogIsRun, SpaceLeft, HeadBehind, HeadAhead
<1>5. WritesAtTail /\ SuspendInv /\ EraseInv /\ CompleteErase
  BY DEF Init, Blank, WritesAtTail, SuspendInv, EraseInv, CompleteErase, RollingStates
<1> QED BY <1>1, <1>2, <1>4, <1>5 DEF BoardInv, VolumeInv

\* Every step keeps it: each part with the ones before it.
LEMMA BoardKept ==
    ASSUME Board, BoardInv, [Next]_vars
    PROVE  BoardInv'
<1>1. TypeInv' /\ HeaderNext'
  BY TypeKept, HeaderNextKept DEF BoardInv
<1>2. RingInv'
  BY RingKept DEF BoardInv, Board
<1>3. LoggerInv'
  BY LoggerKept DEF BoardInv, Board
<1>4. VolumeInv'
  BY VolumeSteps DEF BoardInv
<1> QED BY <1>1, <1>2, <1>3, <1>4 DEF BoardInv

\* On a board as assumed, the pages of the chip, the two addresses, the transfer and the
\* erase in progress agree with one another at every moment (flashfs.c as a whole).
THEOREM BoardTheorem ==
    ASSUME Board
    PROVE  Spec => []BoardInv
<1>1. Init => BoardInv
  BY BoardBegins
<1>2. BoardInv /\ [Next]_vars => BoardInv'
  BY BoardKept
<1> QED BY <1>1, <1>2, PTL DEF Spec

\* The page a transfer goes to is the log's next one, or the one it ends in; and the
\* sector that is being erased, with its erase suspended, is the log's first one.
LEMMA WritesErased ==
    ASSUME Board, TypeInv, VolumeInv
    PROVE  NoOverwrite
<1> SUFFICES ASSUME inflight > 0
             PROVE  /\ writeAt % PageSize = 0 <=> PageOf(writeAt) \notin programmed
                    /\ SectorOf(writeAt) \notin erasing
  BY DEF NoOverwrite
<1>1. FlashTyped
  BY DEF TypeInv, FlashTyped
<1>2. /\ SectorBegin(headAddress) /\ tailAddress \in Address
      /\ Held \in 0 .. Size - 1 /\ Used \in Nat
  BY <1>1, HeldTyped
<1>3. /\ busy = "NO" /\ state \in WritingStates /\ writeAt = tailAddress
      /\ (tailAddress % PageSize) + inflight <= PageSize /\ Held < Size - PageSize - BufferSize
  BY DEF VolumeInv, WritesAtTail
<1>4. ~EraseRuns /\ ~HeadBehind /\ ~HeadAhead
  BY <1>3, SectorsMany DEF VolumeInv, SuspendInv, EraseInv, WritingStates, EraseRuns, HeadBehind, HeadAhead
<1>5. programmed = Run(PageOf(headAddress), Used)
  BY <1>3, <1>4 DEF VolumeInv, LogIsRun
<1>6. writeAt % PageSize = 0 <=> PageOf(writeAt) \notin programmed
  <2> DEFINE a == PageOf(headAddress)
             d == Length(headAddress, tailAddress)
             u == PagesFor(d + inflight)
  <2>1. inflight \in 1 .. PageSize /\ Length(headAddress, tailAddress) < Size - PageSize - BufferSize
    <3>1. inflight \in 0 .. PageSize
      BY <1>1 DEF FlashTyped, ChipTyped
    <3> QED BY <1>3, <3>1, Units DEF Held
  <2>2. /\ u \in 1 .. Pages - 1 /\ PageOf(tailAddress) = (a + u - 1) % Pages
        /\ tailAddress % PageSize = 0 <=> PagesFor(d) = u - 1
        /\ tailAddress % PageSize # 0 <=> PagesFor(d) = u
    BY <1>2, <1>3, <2>1, LogGrows
  <2>3. Used = PagesFor(d) /\ a \in Int /\ Pages \in Int
    BY <1>2, HeadPlace, Units DEF Used, Held
  <2> HIDE DEF a, d, u
  <2>4. u - 1 \in 0 .. Pages - 1 /\ (u - 1) + 1 = u /\ a + (u - 1) = a + u - 1
    BY <2>2, <2>3
  <2>5. /\ (a + (u - 1)) % Pages \notin Run(a, u - 1)
        /\ Run(a, (u - 1) + 1) = Run(a, u - 1) \cup {(a + (u - 1)) % Pages}
    BY <2>3, <2>4, RunNext
  <2>6. PageOf(tailAddress) \notin Run(a, u - 1) /\ PageOf(tailAddress) \in Run(a, u)
    BY <2>2, <2>4, <2>5
  <2>7. CASE tailAddress % PageSize = 0
    BY <1>3, <1>5, <2>2, <2>3, <2>6, <2>7 DEF a
  <2>8. CASE tailAddress % PageSize # 0
    BY <1>3, <1>5, <2>2, <2>3, <2>6, <2>8 DEF a
  <2> QED BY <2>7, <2>8
<1>7. SectorOf(writeAt) \notin erasing
  <2>1. CASE state = "ROLLING_ERASE_SUSPENDED"
    <3>1. erasing = {SectorOf(headAddress)} /\ Held >= SectorSize
      BY <1>1, <2>1, RollingHasSector DEF VolumeInv, EraseInv, RollingStates
    <3>2. SectorOf(tailAddress) # SectorOf(headAddress)
      BY <1>2, <3>1, OtherSector DEF Held
    <3> QED BY <1>3, <3>1, <3>2
  <2>2. CASE state # "ROLLING_ERASE_SUSPENDED"
    <3>1. erasing = {}
      BY <1>3, <2>2 DEF VolumeInv, SuspendInv, WritingStates
    <3> QED BY <3>1
  <2> QED BY <2>1, <2>2
<1> QED BY <1>6, <1>7

\* A page program never lands on a page that holds data, nor in a sector that is being
\* erased (flashfsWriteBuffers(), flashfsWriteCallback()).
THEOREM NoOverwriteTheorem ==
    ASSUME Board
    PROVE  Spec => []NoOverwrite
<1>1. BoardInv => NoOverwrite
  BY WritesErased DEF BoardInv
<1> QED BY <1>1, BoardTheorem, PTL

\* At rest the pages are those of the log, and the boot reads its two ends off them.
LEMMA BootFinds ==
    ASSUME TypeInv, VolumeInv
    PROVE  BootFindsLog
<1> SUFFICES ASSUME state = "IDLE", flashIsReady, programmed # {}
             PROVE  /\ StartOfUsedSpace(programmed) = headAddress
                    /\ StartOfFreeSpace(programmed, headAddress)
                          = flashfsAddressShift(tailAddress, (-tailAddress) % PageSize)
  BY DEF BootFindsLog
<1>1. FlashTyped
  BY DEF TypeInv, FlashTyped
<1>2. SectorBegin(headAddress) /\ tailAddress \in Address /\ Used \in Nat /\ Used <= Pages - 1
  BY <1>1, HeldTyped DEF VolumeInv, SpaceLeft
<1>3. erasing = {} /\ busy = "NO"
  BY <1>1, ReadyChip DEF FlashTyped, VolumeInv
<1>4. ~EraseRuns /\ ~HeadBehind /\ ~HeadAhead
  BY <1>3, SectorsMany DEF EraseRuns, HeadBehind, HeadAhead
<1>5. programmed = Run(PageOf(headAddress), Used)
  BY <1>3, <1>4 DEF VolumeInv, LogIsRun
<1>6. Used # 0 /\ Used \in 0 .. Pages - 1
  BY <1>2, <1>5, EmptyLog, Units
<1>7. StartOfUsedSpace(programmed) = headAddress
  <2>1. SectorOf(headAddress) \in Sector /\ headAddress = SectorOf(headAddress) * SectorSize
        /\ PageOf(headAddress) = SectorOf(headAddress) * PagesPerSector
    BY <1>2, HeadPlace
  <2> QED BY <1>5, <1>6, <2>1, FoundHead
<1>8. StartOfFreeSpace(programmed, headAddress) = ((PageOf(headAddress) + Used) % Pages) * PageSize
  BY <1>2, <1>5, <1>6, FoundTail
<1>9. flashfsAddressShift(tailAddress, (-tailAddress) % PageSize) = ((PageOf(headAddress) + Used) % Pages) * PageSize
  <2>1. PagesFor(Length(headAddress, tailAddress)) <= Pages - 1
    BY <1>2 DEF Used, Held
  <2> QED BY <1>2, <2>1, LogCloses DEF Used, Held
<1> QED BY <1>7, <1>8, <1>9

\* flashfsInit() finds the log where flashfs had it, though neither address is stored.
THEOREM BootTheorem ==
    ASSUME Board
    PROVE  Spec => []BootFindsLog
<1>1. BoardInv => BootFindsLog
  BY BootFinds DEF BoardInv
<1> QED BY <1>1, BoardTheorem, PTL

\* A rolling erase takes the oldest sector only when another one would not fit.
THEOREM RollingEraseTheorem ==
    ASSUME Board
    PROVE  Spec => []RollingEraseIsLast
<1>1. BoardInv => RollingEraseIsLast
  <2> SUFFICES ASSUME TypeInv, VolumeInv, RollingErase
               PROVE  Size - Persisted < SectorSize + BufferSize
    BY DEF BoardInv, RollingEraseIsLast
  <2>1. Persisted = Held
    BY HeldTyped DEF TypeInv, FlashTyped
  <2>2. Size - Held < SectorSize + BufferSize
    BY DEF RollingErase, RollingStates, VolumeInv, EraseInv
  <2> QED BY <2>1, <2>2
<1> QED BY <1>1, BoardTheorem, PTL

\* What a step shows is a step of the abstract volume, or nothing.
LEMMA StepsOfVolume ==
    ASSUME Board, BoardInv, Shows
    PROVE  [Volume!Next]_(Volume!vars)
<1>1. FlashTyped /\ VolumeInv
  BY DEF BoardInv, TypeInv, FlashTyped
<1>2. CASE UNCHANGED programmed /\ (EraseRuns' <=> EraseRuns)
  BY <1>2 DEF Volume!vars, EraseRuns
<1>3. CASE ~EraseRuns /\ ~EraseRuns' /\ programmed' \in AfterReboot
  <2>1. CASE programmed' = programmed
    BY <1>3, <2>1 DEF Volume!vars, EraseRuns
  <2>2. CASE programmed' # programmed
    <3>1. PICK k \in Sector, length \in Nat, added \in {0, 1}, lost \in {0, 1} :
              /\ length + added <= Pages - 1 /\ lost * PagesPerSector <= length + added
              /\ programmed = Run(k * PagesPerSector, length)
              /\ programmed' = Run(k * PagesPerSector + lost * PagesPerSector, length + added - lost * PagesPerSector)
      BY <1>1, <1>3, WhatIsLeft
    <3> DEFINE a == k * PagesPerSector
    <3>2. a \in 0 .. Pages - 1 /\ a % PagesPerSector = 0 /\ length \in 0 .. Pages /\ length + added <= Pages
      <4>1. k \in Nat /\ k + 1 <= Sectors /\ Sectors \in Nat /\ PagesPerSector \in Nat /\ PagesPerSector > 0
            /\ Pages = Sectors * PagesPerSector /\ Pages \in Nat
        BY Units DEF Sector
      <4>2. (k + 1) * PagesPerSector <= Sectors * PagesPerSector
        BY <4>1
      <4>3. a = k * PagesPerSector + 0 /\ a \in Nat /\ a <= Pages - 1 /\ 0 \in 0 .. PagesPerSector - 1
        BY <4>1, <4>2
      <4>4. a % PagesPerSector = 0
        BY <4>1, <4>3, DivMod
      <4> HIDE DEF a
      <4> QED BY <3>1, <4>1, <4>3, <4>4
    <3>3. \A s, l \in Int : Volume!Run(s, l) = Run(s, l)
      BY DEF Volume!Run, Run, Pages
    <3> DEFINE b == a + lost * PagesPerSector
               c == length + added - lost * PagesPerSector
    <3>4. b \in Int /\ c \in Int /\ a \in Int /\ length \in Int
      <4>1. lost * PagesPerSector \in Int /\ length + added \in Int
        BY Units
      <4> HIDE DEF a
      <4> QED BY <3>2, <4>1
    <3>5. programmed = Volume!Run(a, length) /\ programmed' = Volume!Run(b, c)
      <4>1. programmed = Run(a, length) /\ programmed' = Run(b, c)
        BY <3>1
      <4> HIDE DEF a, b, c
      <4> QED BY <3>3, <3>4, <4>1
    <3>6. Volume!Moves(a, length, added, lost)
      <4> HIDE DEF a
      <4> QED BY <3>2, <3>5 DEF Volume!Moves
    <3>7. \E start \in 0 .. Sectors * PagesPerSector - 1, len \in 0 .. Sectors * PagesPerSector, more, less \in {0, 1} :
             len + more <= Sectors * PagesPerSector /\ Volume!Moves(start, len, more, less)
      <4>1. a \in 0 .. Sectors * PagesPerSector - 1 /\ length \in 0 .. Sectors * PagesPerSector
            /\ length + added <= Sectors * PagesPerSector
        BY <3>2 DEF Pages
      <4> HIDE DEF a
      <4> QED BY <3>6, <4>1
    <3>8. UNCHANGED EraseRuns
      BY <1>3 DEF EraseRuns
    <3>9. Volume!Change
      BY <1>3, <2>2, <3>7, <3>8 DEF Volume!Change
    <3> QED BY <3>9 DEF Volume!Next
  <2> QED BY <2>1, <2>2
<1>4. CASE ~EraseRuns /\ EraseRuns' /\ UNCHANGED programmed
  BY <1>4 DEF Volume!Next, Volume!StartClearing
<1>5. CASE EraseRuns /\ EraseRuns' /\ programmed' \subseteq programmed
  BY <1>5 DEF Volume!Next, Volume!Clear
<1>6. CASE EraseRuns /\ ~EraseRuns' /\ programmed' = {}
  BY <1>6 DEF Volume!Next, Volume!EndClearing
<1> QED BY <1>2, <1>3, <1>4, <1>5, <1>6 DEF Shows

\* flashfs.c implements the volume of LogVolume: whoever reads the chip back finds one
\* run of pages, through writes, erases, closed logs and power losses.
THEOREM VolumeTheorem ==
    ASSUME Board
    PROVE  Spec => ImplementsVolume
<1>1. Init => Volume!Init
  BY SectorsMany DEF Init, Blank, Volume!Init, EraseRuns
<1>2. BoardInv /\ [Next]_vars => [Volume!Next]_(Volume!vars)
  <2> SUFFICES ASSUME BoardInv, [Next]_vars PROVE [Volume!Next]_(Volume!vars)
    OBVIOUS
  <2>1. Shows
    BY VolumeSteps DEF BoardInv
  <2> QED BY <2>1, StepsOfVolume
<1> QED BY <1>1, <1>2, BoardTheorem, PTL DEF Spec, ImplementsVolume, Volume!Spec
=============================================================================
